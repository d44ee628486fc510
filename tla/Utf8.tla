-------------------------------- MODULE Utf8 --------------------------------
(***************************************************************************)
(* src/unicode/utf8_.c: code points to UTF-8 and back.  Bytes are numbers; *)
(* a text is a sequence of bytes, and the terminator stands behind it.     *)
(***************************************************************************)
EXTENDS Integers, Sequences

Bytes == 0 .. 255

\* The byte of s at i, counted from 1; the terminator behind the end.
ByteAt(s, i) == IF i \in DOMAIN s THEN s[i] ELSE 0

HighSurrogates == 55296 .. 56319    \* 0xD800 .. 0xDBFF
LowSurrogates  == 56320 .. 57343    \* 0xDC00 .. 0xDFFF

\* A group of six bits, by the value of its last one, in a continuation byte.
Continuation(code, unit) == 128 + ((code \div unit) % 64)

\* Mutant: the last code of two bytes takes three.
EncodeEarly(code) ==
    IF code < 128 THEN <<code>>
    ELSE IF code < 2047 THEN <<192 + code \div 64, Continuation(code, 1)>>
    ELSE IF code < 65536
         THEN <<224 + code \div 4096, Continuation(code, 64), Continuation(code, 1)>>
    ELSE <<240 + code \div 262144, Continuation(code, 4096), Continuation(code, 64),
           Continuation(code, 1)>>

\* What utf8_copy_decode and utf8_copy_decode_surrogate write for a code point.
Encode(code) ==
    IF code < 128 THEN <<code>>
    ELSE IF code < 2048 THEN <<192 + code \div 64, Continuation(code, 1)>>
    ELSE IF code < 65536
         THEN <<224 + code \div 4096, Continuation(code, 64), Continuation(code, 1)>>
    ELSE <<240 + code \div 262144, Continuation(code, 4096), Continuation(code, 64),
           Continuation(code, 1)>>

\* utf8_copy_decode_surrogate: the code point of a surrogate pair.
Paired(high, low) == 65536 + (high - 55296) * 1024 + (low - 56320)

\* is_valid_code_: no overlong form of two to four bytes, no surrogate.
IsValidCode(code, n) ==
    /\ n = 2 => code >= 128
    /\ n = 3 => code >= 2048
    /\ n = 4 => code >= 65536
    /\ code \notin HighSurrogates \cup LowSurrogates
    /\ code <= 1114111

\* How many bytes the head byte b announces; 0 when it is none.
Announced(b) ==
    CASE b < 128              -> 1
      [] b \in 192 .. 223     -> 2
      [] b \in 224 .. 239     -> 3
      [] b \in 240 .. 247     -> 4
      [] b \in 248 .. 251     -> 5
      [] b \in 252 .. 253     -> 6
      [] OTHER                -> 0

\* The bits of the code in the head byte of n bytes.
HeadBits(b, n) == IF n = 1 THEN b ELSE b % (2 ^ (7 - n))

IsContinuation(b) == b \in 128 .. 191

\* The code in the first n bytes of s behind i - 1.
CodeOf(s, i, n) ==
    LET code[k \in 1 .. n] ==
            IF k = 1 THEN HeadBits(ByteAt(s, i), Announced(ByteAt(s, i)))
            ELSE code[k - 1] * 64 + (ByteAt(s, i + k - 1) % 64)
    IN  code[n]

Malformed == [len |-> -1, code |-> 0]

\* utf8_strn_to_unicode, at the i-th byte of s: five and six bytes are refused,
\* and so is a sequence that goes on behind the end of s.
StrnToUnicode(s, i) ==
    LET n == Announced(ByteAt(s, i))
        code == CodeOf(s, i, n)
    IN  IF /\ n \in 1 .. 4
           /\ i + n - 1 <= Len(s)
           /\ \A k \in 1 .. n - 1 : IsContinuation(s[i + k])
           /\ n = 1 \/ IsValidCode(code, n)
        THEN [len |-> n, code |-> code] ELSE Malformed

\* utf8_str_to_unicode: a sequence that the terminator cuts counts as far as it
\* goes.
StrToUnicode(s, i) ==
    LET n == Announced(ByteAt(s, i))
        ends == {k \in 1 .. n - 1 : ~IsContinuation(ByteAt(s, i + k))}
        stop == CHOOSE k \in ends : \A l \in ends : k <= l
    IN  CASE n = 0 -> Malformed
          [] n = 1 -> [len |-> 1, code |-> ByteAt(s, i)]
          [] n > 1 /\ ends # {} ->
               IF ByteAt(s, i + stop) = 0
               THEN [len |-> stop, code |-> CodeOf(s, i, stop)] ELSE Malformed
          [] n > 1 /\ ends = {} ->
               IF IsValidCode(CodeOf(s, i, n), n)
               THEN [len |-> n, code |-> CodeOf(s, i, n)] ELSE Malformed
=============================================================================
