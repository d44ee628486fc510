------------------------------- MODULE Buffer -------------------------------
(***************************************************************************)
(* nmjson_buffer_read and nmjson_buffer_read_for_cmd                       *)
(* (src/buffer/nmjson_buffer_.c): they read what a descriptor has into     *)
(* cmdbuf, parse it, call back for every document or error, and drop what  *)
(* was used.  The bytes that arrive, their split into reads and what a     *)
(* callback answers are the environment's.                                 *)
(*                                                                         *)
(* The parser is the one of Parser.tla restricted to an alphabet that has  *)
(* what matters to the buffer: documents that nest, lexemes that a read    *)
(* may cut ("1" is not a number until the next byte is there), white       *)
(* space, and every kind of error.  Here it has its cursor.  Plain JSON    *)
(* only; the tokens of the pool are counted.                               *)
(***************************************************************************)
EXTENDS Integers, FiniteSets, Sequences, SequencesExt, FiniteSetsExt

CONSTANTS
    CmdbufLen,  \* bytes of cmdbuf, the terminator included
    TokensNum   \* tokens of the pool

ASSUME CmdbufAssumption == CmdbufLen \in Nat /\ CmdbufLen >= 2
ASSUME TokensAssumption == TokensNum \in Nat \ {0}

VARIABLES
    cmdbuf,     \* the bytes stored: self->index of them, then the terminator
    parser,     \* self->parser
    lastResult, \* self->private.last_result
    pc,         \* "idle": no call is running; "read", "cmd": in the loop of
                \* nmjson_buffer_read, of nmjson_buffer_read_for_cmd
    prevIndex,  \* prev_index of the running call
    ret,        \* what the running call will return, or the last one returned
    cause       \* history: what went wrong last in that call

vars == <<cmdbuf, parser, lastResult, pc, prevIndex, ret, cause>>

Chars == {"[", "]", ",", "1", " "}
Results == {"complete", "incomplete", "syntax", "tokens", "buffer"}

\* What a callback may return; the buffer tells no others apart.
Answers == -1 .. 1

index == Len(cmdbuf)

\* The parser after a reset: its cursor is at the start of cmdbuf.
Fresh == [cursor |-> 0, depth |-> 0, due |-> "value", used |-> 0,
          code |-> "incomplete", stop |-> FALSE]

\* Every open array has its token.
ParserState ==
    {p \in [cursor: 0 .. CmdbufLen, depth: 0 .. TokensNum,
            due: {"value", "first", "next", "sep"}, used: 0 .. TokensNum,
            code: Results, stop: BOOLEAN] : p.depth <= p.used}

TypeOK ==
    /\ cmdbuf \in Seq(Chars) /\ index < CmdbufLen
    /\ parser \in ParserState /\ ~parser.stop
    /\ parser.code = "incomplete" \* any other result ends in a reset
    /\ lastResult \in Results
    /\ pc \in {"idle", "read", "cmd"}
    /\ prevIndex \in 0 .. CmdbufLen - 1
    /\ ret \in -4 .. 1
    /\ cause \in {"none", "closed", "system", "library", "callback"}

-----------------------------------------------------------------------------
(* The parser: p is its state, `stop` the break_loop of its loop, which is a *)
(* local variable and FALSE between two calls.                              *)
At(i) == IF i < index THEN cmdbuf[i + 1] ELSE "nul"

Err(p, code, increment) ==
    [p EXCEPT !.code = code, !.cursor = @ + increment, !.stop = TRUE]

InInput(p) == p.due # "sep"

OpenArray(p) ==
    IF ~InInput(p) THEN Err(p, "syntax", 1)
    ELSE IF p.used = TokensNum THEN Err(p, "tokens", 1)
    ELSE [p EXCEPT !.depth = @ + 1, !.due = "first", !.used = @ + 1,
                   !.cursor = @ + 1]

CloseArray(p) ==
    IF p.depth = 0 \/ p.due = "next" THEN Err(p, "syntax", 1)
    ELSE IF p.depth = 1
         THEN Err([p EXCEPT !.depth = 0, !.due = "sep"], "complete", 1)
         ELSE [p EXCEPT !.depth = @ - 1, !.due = "sep", !.cursor = @ + 1]

\* The cursor has moved before the error moves it again: past the terminator,
\* when the comma is the last byte.  If cmdbuf is full, the loop's test then looks
\* at the byte behind it, before it looks at break_loop; here that byte is "nul", and
\* no state depends on it.
Comma(p) ==
    IF p.due # "sep" THEN Err(p, "syntax", 2)
    ELSE [p EXCEPT !.due = "next", !.cursor = @ + 1]

\* Mutant: the number is taken though its end has not been seen.
NumberAtEnd(p) ==
    LET end == Min({i \in p.cursor .. index : At(i) # "1"}) IN
    IF p.depth = 0 \/ ~InInput(p) THEN Err(p, "syntax", 1)
    ELSE IF p.used = TokensNum THEN Err(p, "tokens", 1)
    ELSE IF At(end) \in {"nul", "]", ",", " "}
         THEN [p EXCEPT !.due = "sep", !.used = @ + 1, !.cursor = end]
         ELSE Err(p, "syntax", 1)

Number(p) ==
    LET end == Min({i \in p.cursor .. index : At(i) # "1"}) IN
    IF p.depth = 0 \/ ~InInput(p) THEN Err(p, "syntax", 1)
    ELSE IF p.used = TokensNum THEN Err(p, "tokens", 1)
    ELSE IF At(end) = "nul" THEN Err(p, "incomplete", 0)
    ELSE IF At(end) \in {"]", ",", " "}
         THEN [p EXCEPT !.due = "sep", !.used = @ + 1, !.cursor = end]
         ELSE Err(p, "syntax", 1)

ReadChar(p) ==
    CASE At(p.cursor) = " " -> [p EXCEPT !.cursor = @ + 1]
      [] At(p.cursor) = "[" -> OpenArray(p)
      [] At(p.cursor) = "]" -> CloseArray(p)
      [] At(p.cursor) = "," -> Comma(p)
      [] At(p.cursor) = "1" -> Number(p)

\* The loop of nmjson_parser_parse: where it stops, from the state q on.
Run[q \in ParserState] ==
    IF q.stop \/ At(q.cursor) = "nul" THEN q ELSE Run[ReadChar(q)]

\* nmjson_parser_parse, from the state p of the parser.
Parse(p) == [Run[p] EXCEPT !.stop = FALSE]

-----------------------------------------------------------------------------
(* The buffer. *)
Loadable == index < CmdbufLen - 1

\* Mutant: the terminator has no byte of its own.
RoomForAll == CmdbufLen - index

\* What read() is asked for.
Room == CmdbufLen - 1 - index

Flush == cmdbuf' = <<>> /\ parser' = Fresh

Dequeue(parsedLen) ==
    IF index <= parsedLen THEN Flush
    ELSE cmdbuf' = SubSeq(cmdbuf, parsedLen + 1, index) /\ parser' = Fresh

IsContinuable(result) == result \in {"complete", "incomplete"}

\* Mutant: the last turn of the loop decides alone.
AccumulateLast(tmp, result) ==
    IF ~IsContinuable(result) THEN -3 ELSE IF tmp < 0 THEN -3 + tmp ELSE tmp

\* The callback answers -1, 0 or 1, so `|` is the larger of the two.
Accumulate(tmp, result) ==
    LET failed == IF ~IsContinuable(result) THEN -3
                  ELSE IF tmp < 0 THEN -3 + tmp
                  ELSE ret
    IN  IF failed >= 0 THEN Max({failed, tmp}) ELSE failed

(* The start of a call: prev_index is taken before the read.                *)
\* read() gave a chunk of at most the room that is left.  A caller may use one
\* entry point now and the other one later.
Load(entry, chunk) ==
    /\ pc = "idle"
    /\ chunk # <<>>
    /\ IF Loadable
       THEN /\ Len(chunk) <= Room
            /\ cmdbuf' = cmdbuf \o chunk
            /\ pc' = entry
            /\ prevIndex' = index
            /\ ret' = 0
            /\ cause' = "none"
            /\ UNCHANGED parser
       ELSE /\ Flush
            /\ ret' \in {0, -2} \* by an errno that is from an earlier call
            /\ cause' = IF ret' = 0 THEN "none" ELSE "system"
            /\ UNCHANGED <<pc, prevIndex>>
    /\ UNCHANGED lastResult

\* read() gave nothing: the call returns at once.
NoData(value, reason) ==
    /\ pc = "idle" /\ Loadable
    /\ ret' = value
    /\ cause' = reason
    /\ UNCHANGED <<cmdbuf, parser, lastResult, pc, prevIndex>>

WouldBlock == NoData(0, "none")         \* EAGAIN, EWOULDBLOCK, EINTR
Closed     == NoData(-1, "closed")      \* end of file, EPIPE, ECONNRESET
SystemErr  == NoData(-2, "system")      \* any other errno

\* Mutant: an incomplete document always waits for more.
ResultWithoutLimit(p) == p.code

\* private.last_result: an incomplete document that fills cmdbuf is an error.
ResultOf(p) == IF p.code = "incomplete" /\ ~Loadable THEN "buffer" ELSE p.code

\* Mutant: the length is compared with the one before the read on every turn.
EndTurnKeepingPrev(tmp, result) ==
    /\ lastResult' = result
    /\ ret' = Accumulate(tmp, result)
    /\ cause' = IF ~IsContinuable(result) THEN "library"
                ELSE IF tmp < 0 THEN "callback" ELSE cause
    /\ IF prevIndex = Len(cmdbuf')
       THEN pc' = "idle" /\ prevIndex' = 0
       ELSE UNCHANGED <<pc, prevIndex>>

\* The end of a turn of the loop: stop when the turn left as many bytes as
\* there were before it (before the read, on the first turn).
EndTurn(tmp, result) ==
    /\ lastResult' = result
    /\ ret' = Accumulate(tmp, result)
    /\ cause' = IF ~IsContinuable(result) THEN "library"
                ELSE IF tmp < 0 THEN "callback" ELSE cause
    /\ IF prevIndex = Len(cmdbuf')
       THEN pc' = "idle" /\ prevIndex' = 0
       ELSE prevIndex' = Len(cmdbuf') /\ UNCHANGED pc

\* Mutant: all that was read goes with the document that was handled.
DispatchAndFlush ==
    /\ pc = "read"
    /\ \E p \in {Parse(parser)} : LET result == ResultOf(p) IN
       \/ /\ result = "incomplete"
          /\ parser' = p /\ UNCHANGED cmdbuf
          /\ EndTurn(0, result)
       \/ result \in {"syntax", "tokens", "buffer"} /\ Flush /\ EndTurn(1, result)
       \/ /\ result = "complete" /\ Flush
          /\ \E answer \in Answers : EndTurn(answer, result)

\* nmjson_buffer_dispatch_: the answer counts only for a document.
Dispatch ==
    /\ pc = "read"
    /\ \E p \in {Parse(parser)} : LET result == ResultOf(p) IN
       \/ /\ result = "incomplete"
          /\ parser' = p /\ UNCHANGED cmdbuf
          /\ EndTurn(0, result)
       \/ result \in {"syntax", "tokens", "buffer"} /\ Flush /\ EndTurn(1, result)
       \/ /\ result = "complete" /\ Dequeue(p.cursor)
          /\ \E answer \in Answers : EndTurn(answer, result)

\* nmjson_buffer_proc_cmd_: the answer is the handler's, or 1 when the table has
\* none for this document.  After a syntax error the bytes that follow it are kept.
ProcCmd ==
    /\ pc = "cmd"
    /\ \E p \in {Parse(parser)} : LET result == ResultOf(p) IN
       \/ /\ result = "incomplete"
          /\ parser' = p /\ UNCHANGED cmdbuf
          /\ EndTurn(0, result)
       \/ result \in {"tokens", "buffer"} /\ Flush /\ EndTurn(1, result)
       \/ result = "syntax" /\ Dequeue(p.cursor) /\ EndTurn(1, result)
       \/ /\ result = "complete" /\ Dequeue(p.cursor)
          /\ \E answer \in Answers : EndTurn(answer, result)

\* nmjson_buffer_init_superset
Init ==
    /\ cmdbuf = <<>> /\ parser = Fresh
    /\ lastResult = "complete"
    /\ pc = "idle" /\ prevIndex = 0 /\ ret = 0
    /\ cause = "none"

Turn == Dispatch \/ ProcCmd

Next ==
    \/ \E entry \in {"read", "cmd"}, n \in 1 .. Max({1, Room}) :
          \E chunk \in [1 .. n -> Chars] : Load(entry, chunk)
    \/ WouldBlock \/ Closed \/ SystemErr
    \/ Turn

\* A call that has begun runs on; that bytes arrive is not promised.
Spec == Init /\ [][Next]_vars /\ WF_vars(Turn)

-----------------------------------------------------------------------------
(* What a document is, said without the parser.                             *)
Admissible ==
    {<<"[", "[">>, <<"[", "]">>, <<"[", "1">>, <<",", "[">>, <<",", "1">>,
     <<"1", ",">>, <<"1", "]">>, <<"]", ",">>, <<"]", "]">>}

Count(s, c) == Cardinality({i \in DOMAIN s : s[i] = c})

\* The characters at i and j follow each other but for white space.
Adjacent(s, i, j) ==
    /\ i < j /\ s[i] # " " /\ s[j] # " "
    /\ \A k \in i + 1 .. j - 1 : s[k] = " "

\* The brackets close at the last character and not before, and every two
\* adjacent characters may follow each other.
IsDocument(s) ==
    /\ s # <<>>
    /\ \A n \in 1 .. Len(s) - 1 :
          LET t == SubSeq(s, 1, n) IN
          Count(t, " ") = n \/ Count(t, "[") > Count(t, "]")
    /\ Last(s) = "]" /\ Count(s, "[") = Count(s, "]")
    /\ \A i, j \in DOMAIN s : Adjacent(s, i, j) =>
          <<s[i], s[j]>> \in Admissible \/ (s[i] = "1" /\ s[j] = "1" /\ j = i + 1)

\* Its arrays and its numbers.
TokensOf(s) ==
    Cardinality({i \in DOMAIN s :
        s[i] = "[" \/ (s[i] = "1" /\ (i = 1 \/ s[i - 1] # "1"))})

\* How many bytes the document at the head of cmdbuf has; 0 when none is there.
DocumentLen ==
    Max({0} \cup {n \in 1 .. index : IsDocument(SubSeq(cmdbuf, 1, n))})

-----------------------------------------------------------------------------
(* Properties. *)

\* Between two calls there is room for one more byte, so that no call finds the
\* buffer full (buffer_load_ would drop what it holds): the loop always turns a
\* full buffer into a document or an error.
LoadableWhenIdle == pc = "idle" => Loadable

\* A parser that was suspended and resumed in the bytes it had seen, or was
\* reset when the rest of the buffer moved down, gives the result that one pass
\* over all the bytes held gives: where the reads cut the stream does not show.
ChunkingInvisible == Parse(parser) = Parse(Fresh)

\* A turn that reports a document removes exactly that document and leaves what
\* was read behind it; it reports one when, and only when, one is there and the
\* pool has the tokens for it.
TurnTakesTheDocument ==
    [][ pc # "idle" =>
          \E len \in {DocumentLen} :
            IF len > 0 /\ TokensOf(SubSeq(cmdbuf, 1, len)) <= TokensNum
            THEN /\ lastResult' = "complete"
                 /\ cmdbuf' = SubSeq(cmdbuf, len + 1, index)
            ELSE lastResult' # "complete" ]_vars

\* Whatever the later turns of a call did, its return value tells the last
\* thing that failed in it: -1 the peer left, -2 the system, -3 the library's
\* own errors, less than -3 a callback; and is not negative if nothing failed.
ReturnTellsLastFailure ==
    pc = "idle" =>
        /\ (cause = "closed") <=> (ret = -1)
        /\ (cause = "system") <=> (ret = -2)
        /\ (cause = "library") <=> (ret = -3)
        /\ (cause = "callback") <=> (ret < -3)

\* The loop of a call ends, whatever was read and whatever the callbacks answer.
LoopEnds == pc # "idle" ~> pc = "idle"

\* "as much as can be done now is all done" (nmjson_buffer_.c:220): a call
\* returns with no whole document left in the buffer.
NoUndispatchedDocument == pc = "idle" => Parse(parser).code # "complete"

\* "-2: system error. The buffer is cleaned automatically", and the same of -3, the
\* library's own error (nmjson_buffer.h:105, :106, :122, :123): a call that fails
\* leaves nothing of one stream, or of a broken document, to the next call.
CleanAfterError == pc = "idle" /\ ret \in {-2, -3} => cmdbuf = <<>>
=============================================================================
