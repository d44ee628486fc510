------------------------------ MODULE Scanners ------------------------------
(***************************************************************************)
(* The lexeme scanners of src/private_funcs/: given the bytes that have    *)
(* arrived, from the first one of the lexeme, each says where the lexeme   *)
(* ends (its length), that it is cut (0) or none (-1), and what it         *)
(* means.  Literals and bare names are decoded in the buffer they are in.  *)
(*                                                                         *)
(* strtoll, strtoull, strtod and strtoul are modelled by what they accept; *)
(* integers are signed words, of a float only the type is kept.            *)
(***************************************************************************)
EXTENDS Utf8, SequencesExt, FiniteSetsExt, TLC

CONSTANTS
    IntMax      \* INT64_MAX: 2^63 - 1 in the code

ASSUME WordAssumption == IntMax \in Nat

-----------------------------------------------------------------------------
(* Characters: the code of each, and the bytes of a sequence of them. *)
Ascii ==        \* from code 42 on
    <<"*", "+", ",", "-", ".", "/", "0", "1", "2", "3", "4", "5", "6", "7", "8", "9",
      ":", ";", "<", "=", ">", "?", "@", "A", "B", "C", "D", "E", "F", "G", "H", "I",
      "J", "K", "L", "M", "N", "O", "P", "Q", "R", "S", "T", "U", "V", "W", "X", "Y",
      "Z", "[", "\\", "]", "^", "_", "grave", "a", "b", "c", "d", "e", "f", "g", "h", "i",
      "j", "k", "l", "m", "n", "o", "p", "q", "r", "s", "t", "u", "v", "w", "x", "y",
      "z", "{", "|", "}">>

Ord == [c \in Range(Ascii) |-> 41 + CHOOSE i \in DOMAIN Ascii : Ascii[i] = c]

Text(chars) == [i \in DOMAIN chars |-> Ord[chars[i]]]

LF == 10
CR == 13
Quote == 34
Apostrophe == 39
Backslash == 92

Digits == 48 .. 57
HexDigits == Digits \cup 65 .. 70 \cup 97 .. 102
Spaces == 9 .. 13 \cup {32}
Controls == 0 .. 31 \cup {127}

DigitValue(b) == IF b \in Digits THEN b - 48 ELSE ((b - 65) % 32) + 10

\* The value of the n digits of s from the i-th byte on.
ValueOf(s, i, n, base) ==
    LET value[k \in Nat] ==
            IF k = 0 THEN 0 ELSE value[k - 1] * base + DigitValue(ByteAt(s, i + k - 1))
    IN  value[n]

\* strtoul of s[i .. i + n - 1]: of its hexadecimal digits, up to the first other
\* byte.  (A sign, white space or 0x, which strtoul takes as well, can stand there only
\* when the decoder has not left the escape of a \xHH before it.)
HexValue(s, i, n) ==
    ValueOf(s, i, Min({k \in 0 .. n : k = n \/ ByteAt(s, i + k) \notin HexDigits}), 16)

\* The position of the first byte of s, from the i-th one on, that is not in S.
SkipOver(s, i, S) ==
    Min({k \in i .. Len(s) + 1 : ByteAt(s, k) \notin S})

Cut == 0
Bad == -1

\* strstr(keyword, src) == keyword, then memcmp: what has arrived may be the
\* beginning of the keyword or all of it, or go on behind it.
MatchKeyword(s, keyword) ==
    IF IsPrefix(s, keyword) THEN Cut
    ELSE IF IsPrefix(keyword, s) THEN Len(keyword) ELSE Bad

Dialects == {"none", "json5", "rough"}  \* to the scanners, jsonc is none
HasExtNum(d)      == d = "json5"
HasAbbrDecimal(d) == d = "json5"
HasExtEscape(d)   == d \in {"json5", "rough"}
HasHexaEscape(d)  == d = "json5"
HasLiteralSq(d)   == d = "json5"
HasLineContinuation(d) == d = "json5"
AllowsLiteralCntl(d)   == d = "rough"

\* A scan: where the lexeme ends, its type, and its value.
Scanned(len, type, value) == [len |-> len, type |-> type, value |-> value]
NotYet == Scanned(Cut, "none", <<>>)
NoLexeme == Scanned(Bad, "none", <<>>)

True  == Text(<<"t", "r", "u", "e">>)
False == Text(<<"f", "a", "l", "s", "e">>)
Null  == Text(<<"n", "u", "l", "l">>)
Infinity == Text(<<"I", "n", "f", "i", "n", "i", "t", "y">>)
NaN   == Text(<<"N", "a", "N">>)

\* token_parse_bool_, token_parse_null_: the first of the keywords that is not
\* ruled out.
ParseWord(s) ==
    LET match(w) == MatchKeyword(s, w) IN
    CASE match(True) # Bad  -> Scanned(match(True), "bool", <<1>>)
      [] match(False) # Bad -> Scanned(match(False), "bool", <<0>>)
      [] match(Null) # Bad  -> Scanned(match(Null), "null", <<>>)
      [] OTHER -> NoLexeme

-----------------------------------------------------------------------------
(* Numbers. *)

\* strtod: the position behind a decimal number with a fraction or an exponent;
\* 1 if there is none.
StrtodEnd(s) ==
    LET first == IF ByteAt(s, 1) \in {Ord["+"], Ord["-"]} THEN 2 ELSE 1
        int   == SkipOver(s, first, Digits)
        frac  == IF ByteAt(s, int) = Ord["."] THEN SkipOver(s, int + 1, Digits) ELSE int
        some  == int > first \/ frac > int + 1
        power == IF ByteAt(s, frac + 1) \in {Ord["+"], Ord["-"]} THEN frac + 2 ELSE frac + 1
    IN  IF ~some THEN 1
        ELSE IF /\ ByteAt(s, frac) \in {Ord["e"], Ord["E"]}
                /\ ByteAt(s, power) \in Digits
             THEN SkipOver(s, power, Digits)
             ELSE frac

\* strtoll, strtoull of the digits from `first` on: the position behind them.
StrtollEnd(s, first, base) ==
    IF base <= 10 THEN SkipOver(s, first, 48 .. 47 + base)
    ELSE IF ByteAt(s, first + 2) \in HexDigits THEN SkipOver(s, first + 2, HexDigits)
    ELSE first + 1

Magnitude(s, first, end, base) ==
    LET from == IF base = 16 /\ end > first + 1 THEN first + 2 ELSE first
    IN  ValueOf(s, from, end - from, base)

\* UINT64_MAX, the signed words, and the cast of an unsigned one to them.
UIntMax == 2 * IntMax + 1
WordRange == -IntMax - 1 .. IntMax
Signed(v) == IF v > IntMax THEN v - (UIntMax + 1) ELSE v

\* Mutant: the unsigned value is stored as it is.
IntegerWithoutCast(magnitude, isMinus) ==
    IF magnitude > IF isMinus THEN IntMax + 1 ELSE UIntMax
    THEN [type |-> "float", value |-> <<>>]
    ELSE [type |-> "integer", value |-> <<IF isMinus THEN -magnitude ELSE magnitude>>]

\* Mutant: an unsigned value that has no signed one is out of range.
IntegerSaturating(magnitude, isMinus) ==
    IF magnitude > IntMax
    THEN [type |-> "float", value |-> <<>>]
    ELSE [type |-> "integer", value |-> <<IF isMinus THEN -magnitude ELSE magnitude>>]

\* What is stored: strtoll for a minus, else strtoull and a cast; a float when
\* they report ERANGE.
Integer(magnitude, isMinus) ==
    IF magnitude > IF isMinus THEN IntMax + 1 ELSE UIntMax
    THEN [type |-> "float", value |-> <<>>]
    ELSE [type |-> "integer",
          value |-> <<IF isMinus THEN -magnitude ELSE Signed(magnitude)>>]

\* What may stand behind a number.
NumberEnds == Text(<<"]", "}", ",">>)

\* The number is whole when something that may follow it has arrived.
Ended(s, end, type, value) ==
    CASE ByteAt(s, end) = 0 -> NotYet
      [] ByteAt(s, end) \in Range(NumberEnds) \cup Spaces -> Scanned(end - 1, type, value)
      [] OTHER -> NoLexeme

\* Infinity and NaN, from the i-th byte on.
ParseExtended(s, i) ==
    LET rest == SubSeq(s, i, Len(s))
        match == IF MatchKeyword(rest, Infinity) # Bad THEN MatchKeyword(rest, Infinity)
                 ELSE MatchKeyword(rest, NaN)
    IN  IF match > 0 THEN Scanned(i - 1 + match, "float", <<>>)
        ELSE Scanned(match, "none", <<>>)

\* Mutant: a number is whole though its exponent may go on.
ParseFloatAtEnd(s, point) ==
    IF ByteAt(s, point) = Ord["."] /\ ByteAt(s, point + 1) = 0 THEN NotYet
    ELSE Ended(s, StrtodEnd(s), "float", <<>>)

\* A fraction or an exponent at `point`.
ParseFloat(s, point) ==
    IF ByteAt(s, point) = Ord["."]
       /\ ByteAt(s, point + 1) = 0
    THEN NotYet
    ELSE IF ByteAt(s, point) \in {Ord["e"], Ord["E"]}
            /\ SkipOver(s, point + 1, Digits \cup {Ord["+"], Ord["-"]}) = Len(s) + 1
    THEN NotYet
    ELSE Ended(s, StrtodEnd(s), "float", <<>>)

ParseInteger(s, first, base, isMinus) ==
    LET end == StrtollEnd(s, first, base)
        i == Integer(Magnitude(s, first, end, base), isMinus)
    IN  Ended(s, end, i.type, i.value)

\* token_parse_number_: behind a sign, either a zero or digits.
ParseNumber(s, d) ==
    LET isMinus == s[1] = Ord["-"]
        first == IF isMinus \/ (s[1] = Ord["+"] /\ HasExtNum(d)) THEN 2 ELSE 1
        next  == IF ByteAt(s, first) = Ord["0"] THEN first + 1 ELSE SkipOver(s, first, Digits)
        c     == ByteAt(s, next)
        isHex == HasExtNum(d) /\ next = first + 1 /\ s[first] = Ord["0"] /\ c = Ord["x"]
    IN  IF c = 0 THEN NotYet
        ELSE IF next = first /\ ~(c = Ord["."] /\ HasExtNum(d))
        THEN IF HasExtNum(d) THEN ParseExtended(s, first) ELSE NoLexeme
        ELSE IF c \in Digits THEN NoLexeme
        ELSE IF isHex
        THEN IF ByteAt(s, next + 1) = 0 THEN NotYet ELSE ParseInteger(s, first, 16, isMinus)
        ELSE IF c = Ord["."]
        THEN IF ByteAt(s, next + 1) \in Digits \cup {0} \/ HasAbbrDecimal(d)
             THEN ParseFloat(s, next) ELSE NoLexeme
        ELSE IF c \in {Ord["e"], Ord["E"]} THEN ParseFloat(s, next)
        ELSE ParseInteger(s, first, 10, isMinus)

-----------------------------------------------------------------------------
(* Comments. *)

\* determine_comment_: the search for the end begins at the byte behind the
\* first slash, which is the asterisk that opens the comment.
DetermineComment(s) ==
    LET closes == {i \in 2 .. Len(s) - 1 : s[i] = Ord["*"] /\ s[i + 1] = Ord["/"]}
        breaks == {i \in 2 .. Len(s) : s[i] \in {CR, LF}}
    IN  CASE ByteAt(s, 2) = Ord["*"] -> IF closes = {} THEN Cut ELSE Min(closes) + 1
          [] ByteAt(s, 2) = Ord["/"] -> IF breaks = {} THEN Cut ELSE Min(breaks) - 1
          [] ByteAt(s, 2) = 0 -> Cut
          [] OTHER -> Bad

-----------------------------------------------------------------------------
(* Literals: where they end. *)
ScanState == [at : Nat, hexa : 0 .. 4, esc : BOOLEAN]

\* One byte of determine_literal_ in an escape: -1 when it may not be escaped,
\* 0 when the next one decides and has not arrived, else the state behind it.
AfterEscaped(s, q, d) ==
    LET c == ByteAt(s, q.at)
        n == ByteAt(s, q.at + 1)
        to(k, hexa, esc) == [at |-> q.at + k, hexa |-> hexa, esc |-> esc]
    IN  CASE c = Ord["u"] -> {to(1, 4, FALSE)}
          [] c = Ord["x"] -> IF HasHexaEscape(d) THEN {to(1, 2, FALSE)} ELSE {}
          [] c \in Range(Text(<<"/", "b", "f", "n", "r", "t">>)) \cup {Backslash, s[1]} ->
               {to(1, 0, FALSE)}
          [] c = Ord["v"] -> IF HasExtEscape(d) THEN {to(1, 0, FALSE)} ELSE {}
          [] c = Ord["0"] -> IF HasExtEscape(d) /\ n \notin Digits
                             THEN {to(1, 0, FALSE)} ELSE {}
          [] c \in {CR, LF} ->
               IF AllowsLiteralCntl(d) \/ HasLineContinuation(d)
               THEN {to(1, 0, c = CR /\ n = LF /\ HasLineContinuation(d))} ELSE {}
          [] OTHER -> {}

\* The terminator stands where the byte behind this escape should be, and the
\* scan must see that byte.
NeedsNext(s, q, d) ==
    /\ ByteAt(s, q.at + 1) = 0
    /\ \/ ByteAt(s, q.at) = Ord["0"] /\ HasExtEscape(d)
       \/ ByteAt(s, q.at) = CR /\ HasLineContinuation(d)

\* One byte of determine_literal_: the state behind it; none when the scan ends there.
LiteralTurn(s, q, d) ==
    LET c == ByteAt(s, q.at)
        next == [q EXCEPT !.at = @ + 1]
        mayStand == c # s[1] /\ (c \in Controls => AllowsLiteralCntl(d))
    IN  IF c = 0 THEN {}
        ELSE IF q.hexa > 0 THEN IF c \in HexDigits THEN {[next EXCEPT !.hexa = @ - 1]} ELSE {}
        ELSE IF q.esc THEN IF NeedsNext(s, q, d) THEN {} ELSE AfterEscaped(s, q, d)
        ELSE IF mayStand THEN {[next EXCEPT !.esc = c = Backslash]} ELSE {}

\* What it says there.
LiteralVerdict(s, q, d) ==
    LET c == ByteAt(s, q.at)
        cut == c = 0 \/ (q.hexa = 0 /\ q.esc /\ NeedsNext(s, q, d))
    IN  IF cut THEN Cut
        ELSE IF q.hexa = 0 /\ ~q.esc /\ c = s[1] THEN q.at ELSE Bad

Only(S) == CHOOSE r \in S : TRUE

\* determine_literal_
DetermineLiteral(s, d) ==
    LET scan[q \in ScanState] ==
            IF LiteralTurn(s, q, d) = {} THEN LiteralVerdict(s, q, d)
            ELSE scan[Only(LiteralTurn(s, q, d))]
    IN  IF s[1] = Quote \/ (s[1] = Apostrophe /\ HasLiteralSq(d))
        THEN scan[[at |-> 2, hexa |-> 0, esc |-> FALSE]] ELSE Bad

-----------------------------------------------------------------------------
(* Decoding in place: src and dst are the two cursors into buf, hi the high *)
(* surrogate that waits for a low one; ahead is history: dst passed src.    *)
Pending == {0} \cup HighSurrogates

DecodeState ==
    [src : Nat, dst : Nat, esc : BOOLEAN, hi : Pending, buf : Seq(Bytes),
     ahead : BOOLEAN, ok : BOOLEAN]

\* Mutant: the text begins one byte behind the first one that is read.
DecodeFromBehind(buf, i) ==
    [src |-> i, dst |-> i + 1, esc |-> FALSE, hi |-> 0, buf |-> buf, ahead |-> FALSE, ok |-> TRUE]

DecodeFrom(buf, i) ==
    [src |-> i, dst |-> i, esc |-> FALSE, hi |-> 0, buf |-> buf, ahead |-> FALSE, ok |-> TRUE]

Refuse(q) == [q EXCEPT !.ok = FALSE]

\* A text that is refused, or has been overwritten, is not read any further.
Stops(q) == ~q.ok \/ q.ahead

\* n bytes were read and these ones are written.
Copy(q, n, bytes, esc) ==
    [src |-> q.src + n, dst |-> q.dst + Len(bytes), esc |-> esc, hi |-> q.hi,
     buf |-> [i \in DOMAIN q.buf |-> IF i \in q.dst .. q.dst + Len(bytes) - 1
                                     THEN bytes[i - q.dst + 1] ELSE q.buf[i]],
     ahead |-> q.ahead \/ q.dst + Len(bytes) > q.src + n, ok |-> q.ok]

\* Mutant: a high surrogate is written like any other code.
DecodeUnicodeAtOnce(q) ==
    LET code == HexValue(q.buf, q.src + 1, 4)
    IN  Copy([q EXCEPT !.hi = 0], 5, Encode(code), FALSE)

\* \uXXXX: utf8_copy_decode, or utf8_copy_decode_surrogate behind a high one.
DecodeUnicode(q) ==
    LET code == HexValue(q.buf, q.src + 1, 4) IN
    IF q.hi # 0
    THEN IF code \in LowSurrogates
         THEN Copy([q EXCEPT !.hi = 0], 5, Encode(Paired(q.hi, code)), FALSE)
         ELSE Refuse(q)
    ELSE IF code \in HighSurrogates THEN Copy([q EXCEPT !.hi = code], 5, <<>>, FALSE)
    ELSE Copy(q, 5, Encode(code), FALSE)

DecodePlain(q) ==
    IF q.hi # 0 THEN Refuse(q) ELSE Copy(q, 1, <<ByteAt(q.buf, q.src)>>, FALSE)

\* What may be escaped, and the byte that each stands for.
Escapable == <<"b", "f", "n", "r", "t", "v", "0", "\\", "/">>
StandsFor == <<8, 12, LF, CR, 9, 11, 0, Backslash, 47>>

ControlOf ==
    [c \in Range(Text(Escapable)) |->
        StandsFor[CHOOSE i \in DOMAIN Escapable : Ord[Escapable[i]] = c]]

\* The other escapes.  One that is not known leaves the byte at dst as it is, a
\* line that is continued leaves nothing.
DecodeEscaped(q, quote) ==
    LET c == q.buf[q.src]
        goesOn == c = CR /\ ByteAt(q.buf, q.src + 1) = LF
    IN  IF q.hi # 0 THEN Refuse(q)
        ELSE IF c \in {CR, LF} THEN Copy(q, 1, <<>>, goesOn)
        ELSE IF c \in DOMAIN ControlOf THEN Copy(q, 1, <<ControlOf[c]>>, FALSE)
        ELSE IF c = quote THEN Copy(q, 1, <<quote>>, FALSE)
        ELSE Copy(q, 1, <<ByteAt(q.buf, q.dst)>>, FALSE)

\* \xHH.  The escape is not left: the byte behind it is read as escaped too.
DecodeHexa(q) == Copy(q, 3, <<HexValue(q.buf, q.src + 1, 2)>>, TRUE)

\* One byte of a literal between quotes.
DecodeByte(q, quote) ==
    LET c == ByteAt(q.buf, q.src)
    IN  IF q.esc
        THEN IF c = Ord["u"] THEN DecodeUnicode(q)
             ELSE IF c = Ord["x"] THEN DecodeHexa(q)
             ELSE DecodeEscaped(q, quote)
        ELSE IF c = Backslash THEN [q EXCEPT !.src = @ + 1, !.esc = TRUE]
        ELSE DecodePlain(q)

\* token_input_literal_ of a literal of len bytes.  Its closing quote has become
\* the terminator it stops at.
DecodeLiteral(s, len) ==
    LET decoded[q \in DecodeState] ==
            IF ByteAt(q.buf, q.src) = 0 \/ Stops(q) THEN q ELSE decoded[DecodeByte(q, s[1])]
        end == decoded[DecodeFrom([s EXCEPT ![len] = 0], 2)]
    IN  [ok |-> end.ok /\ end.hi = 0, ahead |-> end.ahead,
         bytes |-> SubSeq(end.buf, 2, end.dst - 1)]

-----------------------------------------------------------------------------
(* Bare names. *)

NameEnds == Spaces \cup {Ord[":"]}

\* One character of determine_e5ident_, without NMJSON_TRY_TO_BE_RIGID: the state
\* behind it; none when the scan ends there.
IdentTurn(s, q) ==
    LET load == StrToUnicode(s, q.at)
        next == [q EXCEPT !.at = @ + load.len]
        is(S) == load.len = 1 /\ load.code \in S
    IN  IF load = Malformed \/ ByteAt(s, next.at) = 0 THEN {}
        ELSE IF q.hexa > 0 THEN IF is(HexDigits) THEN {[next EXCEPT !.hexa = @ - 1]} ELSE {}
        ELSE IF q.esc THEN IF is({Ord["u"]}) THEN {[next EXCEPT !.hexa = 4, !.esc = FALSE]} ELSE {}
        ELSE IF is(NameEnds) THEN {} ELSE {[next EXCEPT !.esc = is({Backslash})]}

\* What it says there: a name goes up to a colon or white space, or to bytes that
\* are not UTF-8.
IdentVerdict(s, q) ==
    LET load == StrToUnicode(s, q.at)
    IN  IF load = Malformed THEN q.at - 1
        ELSE IF ByteAt(s, q.at + load.len) = 0 THEN Cut
        ELSE IF q.hexa = 0 /\ ~q.esc THEN q.at - 1 ELSE Bad

\* determine_e5ident_
DetermineIdent(s) ==
    LET scan[q \in ScanState] ==
            IF IdentTurn(s, q) = {} THEN IdentVerdict(s, q) ELSE scan[Only(IdentTurn(s, q))]
    IN  scan[[at |-> 1, hexa |-> 0, esc |-> FALSE]]

\* One byte of a name.
DecodeNameByte(q) ==
    LET c == ByteAt(q.buf, q.src)
    IN  IF q.src \notin DOMAIN q.buf THEN Refuse(q)
        ELSE IF q.esc THEN IF c = Ord["u"] THEN DecodeUnicode(q) ELSE Refuse(q)
        ELSE IF c = Backslash THEN [q EXCEPT !.src = @ + 1, !.esc = TRUE]
        ELSE DecodePlain(q)

\* token_input_e5ident_.  Its loop has no other end than a colon or white space:
\* behind the buffer, where nothing is known, the model refuses the name.
DecodeIdent(s) ==
    LET decoded[q \in DecodeState] ==
            IF Stops(q) \/ ByteAt(q.buf, q.src) \in NameEnds THEN q
            ELSE decoded[DecodeNameByte(q)]
        end == decoded[DecodeFrom(s, 1)]
    IN  [ok |-> end.ok, ahead |-> end.ahead, bytes |-> SubSeq(end.buf, 1, end.dst - 1)]
=============================================================================
