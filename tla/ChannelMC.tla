----------------------------- MODULE ChannelMC ------------------------------
(***************************************************************************)
(* What is sent in the runs of Channel.  Every lexeme is put together from *)
(* parts whose bytes, meaning and dialects are written down here, from     *)
(* RFC 8259, the JSON5 specification and RFC 3629, and not computed with   *)
(* the operators of the model: the properties compare the two.             *)
(***************************************************************************)
EXTENDS Channel, Getters

CONSTANT HexaInside     \* may \xHH stand before the end of a literal?

ASSUME HexaAssumption == HexaInside \in BOOLEAN

\* A source: what is sent, the length of the lexeme in it (Bad if it is none),
\* its type and its value, and what nmjson_token_as_int and nmjson_token_as_bool
\* read in it, if that is said anywhere.
Source(kind, dialect, calls, len, type, value) ==
    [kind |-> kind, dialect |-> dialect, calls |-> calls,
     len |-> len, type |-> type, value |-> value, reads |-> <<>>]

Comma == Text(<<",">>)

SeqsUpTo(n, S) == UNION {[1 .. k -> S] : k \in 0 .. n}

-----------------------------------------------------------------------------
(* Literals and bare names. *)

\* A part of a text: its bytes, what they mean, and where they may stand.
Part(text, means, dialects) == [text |-> text, means |-> means, dialects |-> dialects]

Esc(chars) == <<Backslash>> \o Text(chars)

JsonParts ==
    {Part(Text(<<"a">>), <<97>>, Dialects),
     Part(Text(<<"1">>), <<49>>, Dialects),
     Part(<<195, 169>>, <<195, 169>>, Dialects),
     Part(Esc(<<"n">>), <<10>>, Dialects),
     Part(Esc(<<"/">>), <<47>>, Dialects),
     Part(<<Backslash, Backslash>>, <<Backslash>>, Dialects),
     Part(<<9>>, <<9>>, {"rough"}),
     Part(Esc(<<"v">>), <<11>>, {"json5", "rough"}),
     Part(Esc(<<"0">>), <<0>>, {"json5", "rough"}),
     Part(Esc(<<"a">>), <<>>, {})}

Continued ==
    {Part(<<Backslash, CR>>, <<>>, {"json5"}),
     Part(<<Backslash, LF>>, <<>>, {"json5"}),
     Part(<<Backslash, CR, LF>>, <<>>, {"json5"})}

HexaPart == Part(Esc(<<"x", "4", "1">>), <<65>>, {"json5"})

UnicodeParts ==
    {Part(Esc(<<"u", "0", "0", "7", "f">>), <<127>>, Dialects),
     Part(Esc(<<"u", "0", "0", "8", "0">>), <<194, 128>>, Dialects),
     Part(Esc(<<"u", "0", "7", "F", "F">>), <<223, 191>>, Dialects),
     Part(Esc(<<"u", "0", "8", "0", "0">>), <<224, 160, 128>>, Dialects),
     Part(Esc(<<"u", "f", "f", "f", "f">>), <<239, 191, 191>>, Dialects),
     Part(Esc(<<"u", "d", "8", "0", "0">>) \o Esc(<<"u", "d", "c", "0", "0">>),
          <<240, 144, 128, 128>>, Dialects),
     Part(Esc(<<"u", "d", "b", "f", "f">>) \o Esc(<<"u", "d", "f", "f", "f">>),
          <<244, 143, 191, 191>>, Dialects),
     Part(Esc(<<"u", "d", "8", "0">>) \o <<Quote>>, <<>>, {})}

\* A high surrogate with no low one behind it.
HalfPair == Part(Esc(<<"u", "d", "8", "0", "0">>), <<>>, {})

\* The meaning of parts in a row; \0 may not stand before a digit.
Meaning(parts) == FlattenSeq([i \in DOMAIN parts |-> parts[i].means])
Bytewise(parts) == FlattenSeq([i \in DOMAIN parts |-> parts[i].text])

IsLiteral(parts, d) ==
    /\ \A i \in DOMAIN parts : d \in parts[i].dialects
    /\ \A i \in 1 .. Len(parts) - 1 :
          ~(parts[i].text = Esc(<<"0">>) /\ parts[i + 1].text[1] \in Digits)

\* A literal that somebody else has written.
Literal(parts, d, quote) ==
    LET text == <<quote>> \o Bytewise(parts) \o <<quote>>
        good == IsLiteral(parts, d) /\ (quote = Apostrophe => d = "json5")
    IN  Source("literal", d, <<text \o Comma>>, IF good THEN Len(text) ELSE Bad,
               "string", Meaning(parts))

Quoted(quote) == Part(<<Backslash, quote>>, <<quote>>, Dialects)

LiteralsOf(d, quote) ==
    LET parts == JsonParts \cup UnicodeParts \cup {HalfPair, Quoted(quote)}
                 \cup (IF d = "json5" THEN Continued ELSE {})
        hexa == IF HexaInside THEN SeqsUpTo(1, JsonParts) ELSE {<<>>}
    IN  {Literal(p, d, quote) : p \in SeqsUpTo(2, parts)}
        \cup {Literal(p \o <<HexaPart>> \o q, d, quote) : p \in SeqsUpTo(1, parts), q \in hexa}

Literals ==
    UNION {LiteralsOf(d, Quote) : d \in Dialects}
    \cup {Literal(p, d, Apostrophe) : d \in Dialects, p \in SeqsUpTo(1, JsonParts)}

\* The characters of strings that libnmjson writes, with those beyond ASCII as they
\* are or escaped, and the first byte of one that is cut.
Characters ==
    {Part(c, c, {}) : c \in {<<10>>, <<31>>, <<Quote>>, <<Backslash>>, <<97>>, <<127>>,
        <<194, 128>>, <<223, 191>>, <<224, 160, 128>>, <<237, 159, 191>>, <<238, 128, 128>>,
        <<239, 191, 191>>, <<240, 144, 128, 128>>, <<244, 143, 191, 191>>}}
Half == <<195>>
HalfAs(digits) == Part(Half, <<Hash>> \o Text(digits), {})

\* Strings that nmjson_writer_put_string writes.
Written ==
    {LET calls == SelectSeq(WriteStr(Bytewise(p), raw), LAMBDA c : c # <<>>)
     IN  Source("literal", "none", calls \o <<Comma>>, Len(FlattenSeq(calls)), "string",
                IF raw THEN Bytewise(p) ELSE Meaning(p)) :
     p \in SeqsUpTo(2, Characters \cup {HalfAs(<<"C", "3">>)}), raw \in BOOLEAN}

\* Strings that nmjson_token_fout3 prints.  A cut character at the end of a string
\* is read as if it were whole (utf8_str_to_unicode); in JSON5 one that is malformed
\* is printed as \xHH, which means something else inside a literal.
Printed ==
    LET strings == SeqsUpTo(2, Characters)
                   \cup {<<HalfAs(<<"1", "9", "5">>), c>> : c \in Characters}
        printed(p, raw, d) ==
            LET text == SoutStr(Bytewise(p), raw, d)
            IN  Source("literal", d, <<text \o Comma>>, Len(text), "string",
                       IF raw THEN Bytewise(p) ELSE Meaning(p))
    IN  {printed(p, raw, "none") : p \in strings, raw \in BOOLEAN}
        \cup {printed(p, raw, "json5") : p \in SeqsUpTo(2, Characters), raw \in BOOLEAN}

\* Bare names, up to the colon or white space; the scan sees one byte more.
Names ==
    LET parts == {Part(Text(<<"a">>), <<97>>, {"json5"}), Part(<<195, 169>>, <<195, 169>>, {"json5"}),
                  Part(Esc(<<"n">>), <<>>, {})}
                 \cup UnicodeParts
        half == {<<HalfPair, p>> : p \in parts}
    IN  {Source("name", "json5", <<Bytewise(p) \o end>>,
                IF \A i \in DOMAIN p : "json5" \in p[i].dialects THEN Len(Bytewise(p)) ELSE Bad,
                "string", Meaning(p)) :
         p \in (SeqsUpTo(2, parts) \ {<<>>}) \cup half, end \in {Text(<<":", "1">>), <<32>> \o Text(<<":">>)}}

-----------------------------------------------------------------------------
(* Words, comments, numbers. *)
Words ==
    {Source("word", "none", <<w[1] \o end>>, w[2], w[3], w[4]) :
     w \in {<<True, 4, "bool", <<1>>>>, <<False, 5, "bool", <<0>>>>, <<Null, 4, "null", <<>>>>,
            <<Text(<<"t", "r", "u">>), Bad, "none", <<>>>>,
            <<Text(<<"n", "u", "l">>), Bad, "none", <<>>>>},
     end \in {Comma, Text(<<"x">>)}}

\* The bytes behind the first slash, and the length of the comment: 0 when it
\* does not end, Bad when it is none.
Comments ==
    LET marks == {Ord["*"], Ord["/"], 97, LF}
        closes(t) == {i \in 2 .. Len(t) - 1 : t[i] = Ord["*"] /\ t[i + 1] = Ord["/"]}
        breaks(t) == {i \in 2 .. Len(t) : t[i] = LF}
        len(t) == CASE t[1] = Ord["*"] -> IF closes(t) = {} THEN Cut ELSE Min(closes(t)) + 2
                    [] t[1] = Ord["/"] -> IF breaks(t) = {} THEN Cut ELSE Min(breaks(t))
                    [] OTHER           -> Bad
        noShortOne == {t \in [1 .. 5 -> marks] : ~(t[1] = Ord["*"] /\ t[2] = Ord["/"])}
    IN  {Source("comment", "json5", <<Text(<<"/">>) \o t>>, len(t), "none", <<>>) :
         t \in noShortOne}

\* A number in four parts and what stands behind it.  The values are those of a
\* word of four bits.
Integers4 ==
    {<<Text(<<"0">>), 0>>, <<Text(<<"1">>), 1>>, <<Text(<<"7">>), 7>>, <<Text(<<"8">>), 8>>,
     <<Text(<<"9">>), 9>>, <<Text(<<"1", "5">>), 15>>, <<Text(<<"1", "6">>), 16>>}
Hexas4 ==
    {<<Text(<<"0", "x", "7">>), 7>>, <<Text(<<"0", "x", "F">>), 15>>,
     <<Text(<<"0", "x", "1", "0">>), 16>>}
Malformed4 == {<<Text(<<"0", "1">>), 0>>, <<Text(<<"0", "x", "g">>), 0>>, <<<<>>, 0>>}

\* An integer that has no signed value in the word is kept modulo 16, one
\* that has no unsigned value either as a float.
Kept(v, minus) ==
    IF minus THEN IF v <= 8 THEN <<-v>> ELSE <<>>
    ELSE IF v <= 7 THEN <<v>> ELSE IF v <= 15 THEN <<v - 16>> ELSE <<>>

NumberOf(sign, int, frac, exp, end, d) ==
    LET text == sign \o int[1] \o frac \o exp
        decimal == int \in Integers4
        good == /\ sign = Text(<<"+">>) => d = "json5"
                /\ \/ decimal
                   \/ int \in Hexas4 /\ d = "json5"
                   \/ int[1] = <<>> /\ Len(frac) = 2 /\ d = "json5"
                /\ frac = Text(<<".">>) => d = "json5"
                /\ exp = <<>> \/ Last(exp) \in Digits
                /\ end # Text(<<":">>)
        minus == sign = Text(<<"-">>)
        kept == IF frac = <<>> /\ exp = <<>> THEN Kept(int[2], minus) ELSE <<>>
    IN  Source("number", d, <<text \o end>>, IF good THEN Len(text) ELSE Bad,
               IF kept = <<>> THEN "float" ELSE "integer", kept)

Fractions == {<<>>, Text(<<".">>), Text(<<".", "5">>)}
Exponents == {<<>>, Text(<<"e">>), Text(<<"e", "-">>), Text(<<"e", "1">>), Text(<<"E", "+", "2">>)}

Signs == {<<>>, Text(<<"+">>), Text(<<"-">>)}
NumberEndings == {Text(<<",">>), Text(<<"]">>), <<32>>, Text(<<":">>)}

Numbers ==
    {NumberOf(sign, int, frac, exp, end, d) :
     sign \in Signs, int \in Integers4 \cup Malformed4, frac \in Fractions,
     exp \in Exponents, end \in NumberEndings, d \in {"none", "json5"}}
    \cup {NumberOf(sign, int, <<>>, <<>>, end, d) :
          sign \in Signs, int \in Hexas4, end \in NumberEndings, d \in {"none", "json5"}}
    \cup {Source("number", "json5", <<sign \o w \o Comma>>, Len(sign \o w), "float", <<>>) :
          sign \in {<<>>, Text(<<"-">>)}, w \in {Infinity, NaN}}

\* Strings that hold a number or a word of truth, for the getters.  What they
\* read of other strings, and of a number out of range, is said nowhere.
Held(text, int, bool) ==
    LET literal == Literal(<<Part(text, text, Dialects)>>, "none", Quote)
    IN  [literal EXCEPT !.reads = <<int, bool>>]

NoInt == 99     \* the default comes back
Unsaid == 98

HeldNumbers ==
    {LET minus == sign = Text(<<"-">>)
     IN  Held(lead \o sign \o int[1] \o end, Kept(int[2], minus)[1], -1) :
     lead \in {<<>>, <<32>>, <<32, 32>>}, sign \in Signs, end \in {<<>>, <<32>>, Comma},
     int \in {i \in Integers4 \cup Hexas4 : i[2] <= 7}}
    \cup {Held(int[1] \o end, NoInt, -1) :
          int \in {i \in Integers4 \cup Hexas4 : i[2] <= 7},
          end \in {Text(<<"g">>), Text(<<".", "5">>)}}

Caseless ==
    {<<True, 1>>, <<Text(<<"T", "r", "U", "E">>), 1>>,
     <<False, 0>>, <<Text(<<"F", "A", "L", "S", "E">>), 0>>,
     <<Text(<<"f", "a", "l", "s">>), -1>>, <<Text(<<"t", "r", "u", "e", "s">>), -1>>}

\* Behind white space the getter takes no digits for a zero: strtoull stops where
\* it began, and white space may stand there (json_token.h:138).
HeldWords ==
    {Held(w[1], NoInt, w[2]) : w \in Caseless}
    \cup {Held(<<32>> \o w[1], Unsaid, w[2]) : w \in Caseless}

AllSources == IF HexaInside THEN Literals
              ELSE Literals \cup Written \cup Printed \cup Names \cup Words \cup Comments \cup Numbers
                   \cup HeldNumbers \cup HeldWords

-----------------------------------------------------------------------------
(* Properties. *)

\* Wherever the text is cut, a scanner that decides finds the lexeme that was
\* sent, or finds out that it is none, and it decides once all has arrived.
DecidesForTheWhole ==
    /\ scan.len # Cut /\ ~CutInExponent => scan.len = source.len
    /\ result = "done" /\ scan.len = Cut => source.len = Cut

\* A literal or a bare name that has been accepted means what its sender wrote:
\* the string given to nmjson_writer_put_string or printed by nmjson_token_fout3, or
\* the parts of the text.
MeansWhatWasSent ==
    scan.len > 0 /\ source.kind \in {"literal", "name", "word"} =>
        scan.type = source.type /\ scan.value = source.value

\* A number that has been accepted keeps its value, modulo the word, and
\* becomes a float only with a fraction, an exponent or a value out of range.
NumberKeepsValue ==
    scan.len > 0 /\ source.kind = "number" =>
        scan.type = source.type /\ scan.value = source.value

\* A string that has been accepted and holds a number, or true or false, is read
\* as that by the getters, with white space before it, a sign, and a base of 10 or
\* 16, and as the default if something else stands behind it.
GettersReadTheText ==
    scan.len > 0 /\ source.reads # <<>> =>
        /\ source.reads[1] \in {AsInt(scan, NoInt), Unsaid}
        /\ source.reads[2] = AsBool(scan)

\* "\x12: src goes on by three bytes but dst by one" (token_input_literal_.h:222):
\* a literal with such an escape in it means its parts.
HexEscapeIsOneByte ==
    scan.len > 0 /\ scan.type = "string" => scan.value = source.value
=============================================================================
