------------------------------ MODULE Channel -------------------------------
(***************************************************************************)
(* One lexeme on its way: a process sends it through a descriptor in       *)
(* arbitrary portions (write_fd_ of src/writer/nmjson_writer_init_.c when  *)
(* it is libnmjson that sends), and the parser of another scans what has   *)
(* arrived, from the first byte, after every portion, until the scanner    *)
(* says more than "cut".                                                   *)
(*                                                                         *)
(* A write that a signal interrupts is repeated and changes nothing: a     *)
(* stuttering step.                                                        *)
(***************************************************************************)
EXTENDS StringWriter

CONSTANT Sources    \* what may be sent: sequences of write_ calls, the kind of
                    \* lexeme and the dialect it is parsed in

SourceKinds == {"word", "number", "comment", "literal", "name"}

ASSUME SourcesAssumption ==
    \A s \in Sources : /\ s.kind \in SourceKinds /\ s.dialect \in Dialects
                       /\ s.calls \in Seq(Seq(Bytes)) /\ s.calls # <<>>

VARIABLES
    source,     \* what is sent
    call,       \* the write_ call that is under way
    onset,      \* how many bytes of it have been accepted
    wire,       \* the bytes that have been accepted
    result,     \* of the sender: sending, done, failed
    scan,       \* the last scan of the reader
    seen        \* how many bytes that scan had

vars == <<source, call, onset, wire, result, scan, seen>>

\* A decoded text, or the verdict of a scanner that does not decode.
Decoding(len, decoded) ==
    [len |-> IF decoded.ok THEN len ELSE Bad, type |-> "string", value |-> decoded.bytes,
     ahead |-> decoded.ahead]

Verdict(s) == [len |-> s.len, type |-> s.type, value |-> s.value, ahead |-> FALSE]

\* Where the literal, the bare name or the comment ends; a word and a number have
\* no scan for that alone.
EndOf(kind, d, s) ==
    CASE kind = "literal" -> DetermineLiteral(s, d)
      [] kind = "name"    -> DetermineIdent(s)
      [] kind = "comment" -> DetermineComment(s)
      [] OTHER            -> Cut

\* One scan by the parser: a literal and a bare name are decoded when their end
\* has been found.
Scan(kind, d, s) ==
    LET len == EndOf(kind, d, s)
    IN  CASE kind = "word"    -> Verdict(ParseWord(s))
          [] kind = "number"  -> Verdict(ParseNumber(s, d))
          [] kind = "literal" /\ len > 0 -> Decoding(len, DecodeLiteral(s, len))
          [] kind = "name"    /\ len > 0 -> Decoding(len, DecodeIdent(s))
          [] OTHER -> Verdict(Scanned(len, "none", <<>>))

TypeOK ==
    /\ source.kind \in SourceKinds
    /\ call \in DOMAIN source.calls
    /\ onset \in 0 .. Len(source.calls[call])
    /\ wire \in Seq(Bytes)
    /\ result \in {"sending", "done", "failed"}
    /\ scan.len \in Bad .. Len(wire)
    /\ scan.type \in {"none", "bool", "null", "integer", "float", "string"}
    /\ scan.value \in Seq(IF scan.type = "integer" THEN WordRange ELSE Bytes)
    /\ scan.ahead \in BOOLEAN
    /\ seen \in 0 .. Len(wire)

\* The reader has n more bytes, and is asked once more unless it has decided.
Arrive(bytes) ==
    /\ wire' = wire \o bytes
    /\ IF scan.len = Cut
       THEN /\ scan' = Scan(source.kind, source.dialect, wire')
            /\ seen' = Len(wire')
       ELSE UNCHANGED <<scan, seen>>

\* Mutant: what was not accepted is sent from the beginning of the call.
AcceptFromStart(n) ==
    /\ result = "sending"
    /\ onset + n <= Len(source.calls[call])
    /\ Arrive(SubSeq(source.calls[call], 1, n))
    /\ IF onset + n < Len(source.calls[call])
       THEN onset' = onset + n /\ UNCHANGED <<call, result>>
       ELSE IF call < Len(source.calls)
       THEN call' = call + 1 /\ onset' = 0 /\ UNCHANGED result
       ELSE onset' = onset + n /\ result' = "done" /\ UNCHANGED call
    /\ UNCHANGED source

\* write() accepts n bytes of what is left of the call.
Accept(n) ==
    /\ result = "sending"
    /\ onset + n <= Len(source.calls[call])
    /\ Arrive(SubSeq(source.calls[call], onset + 1, onset + n))
    /\ IF onset + n < Len(source.calls[call])
       THEN onset' = onset + n /\ UNCHANGED <<call, result>>
       ELSE IF call < Len(source.calls)
       THEN call' = call + 1 /\ onset' = 0 /\ UNCHANGED result
       ELSE onset' = onset + n /\ result' = "done" /\ UNCHANGED call
    /\ UNCHANGED source

\* write() fails, or accepts nothing: so does every call above it.
FailToWrite ==
    /\ result = "sending"
    /\ result' = "failed"
    /\ UNCHANGED <<source, call, onset, wire, scan, seen>>

Init ==
    /\ source \in Sources
    /\ call = 1 /\ onset = 0
    /\ wire = <<>>
    /\ result = "sending"
    /\ scan = Verdict(NotYet)
    /\ seen = 0

Next ==
    \/ \E n \in 1 .. Len(source.calls[call]) : Accept(n)
    \/ FailToWrite

Spec == Init /\ [][Next]_vars

-----------------------------------------------------------------------------
(* Properties. *)
Whole == FlattenSeq(source.calls)

\* Whatever portions write() takes, what has arrived is the beginning of what
\* write_str_ and its like were asked for, each byte once and in order; all of
\* it when they report success (write_fd_'s onset).
EachByteOnce ==
    /\ IsPrefix(wire, Whole)
    /\ result = "done" => wire = Whole

\* The decoders write into the text they read: their write position never gets
\* past their read position (token_input_literal_.h:299).
DecodeStaysBehind == ~scan.ahead

\* Where the code departs from the number grammar: when the text ends inside the
\* exponent behind a fraction, it is refused and not cut (token_parse_.h:175).
CutInExponent ==
    /\ source.kind = "number"
    /\ \E i \in 1 .. seen : wire[i] = Ord["."]
    /\ seen > 0 /\ wire[seen] \in {Ord["e"], Ord["E"], Ord["+"], Ord["-"]}

\* The parser decides as soon as a scanner says more than "cut" (increment of
\* nmjson_parser_parse): however the text is split, what a scanner decides on its
\* beginning is what it would decide on the whole.  What a literal with \xHH, or a
\* bare name, is decoded to is left out: their decoders may read on behind the
\* lexeme.  A zero byte would end the text for every scanner.
VerdictIsFinal ==
    LET kind == source.kind
        d    == source.dialect
        had  == SubSeq(wire, 1, seen)
    IN  scan.len # Cut /\ 0 \notin Range(Whole) /\ ~CutInExponent =>
        /\ EndOf(kind, d, Whole) = EndOf(kind, d, had)
        /\ kind # "name" /\ ~(kind = "literal" /\ HasHexaEscape(d)) => scan = Scan(kind, d, Whole)
=============================================================================
