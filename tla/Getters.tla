------------------------------ MODULE Getters -------------------------------
(***************************************************************************)
(* The typed getters of include/nmjson/json_token.h, on a token with its   *)
(* type and value: strings are read as numbers and as words of truth.      *)
(* A float has no value here, so that no getter is asked for it.           *)
(***************************************************************************)
EXTENDS Scanners

\* Where the digits of a string begin for the getter: behind white space and a
\* sign.
Unsigned(s) ==
    LET start == SkipOver(s, 1, Spaces)
    IN  IF ByteAt(s, start) \in {Ord["+"], Ord["-"]} THEN start + 1 ELSE start

\* Mutant: the sign is not skipped before the prefix is looked at.
BaseBeforeSign(s) ==
    LET start == SkipOver(s, 1, Spaces)
    IN  IF Len(s) > start + 1 /\ SubSeq(s, start, start + 1) = Text(<<"0", "x">>) THEN 16
        ELSE 10

\* The base that the prefix names, if anything follows it.
BaseOf(s) ==
    LET start == Unsigned(s)
        prefix == SubSeq(s, start, start + 1)
    IN  IF Len(s) <= start + 1 THEN 10
        ELSE CASE prefix = Text(<<"0", "x">>) -> 16
               [] prefix = Text(<<"0", "o">>) -> 8
               [] prefix = Text(<<"0", "b">>) -> 2
               [] OTHER -> 10

\* What strtoll, for a minus, or strtoull and a cast give: the nearest value when
\* there is none.
Saturated(magnitude, isMinus) ==
    IF isMinus THEN -Min({magnitude, IntMax + 1})
    ELSE Signed(Min({magnitude, UIntMax}))

\* What may stand behind the digits.
IntEnds == {0, Ord[","], Quote, Apostrophe} \cup Spaces

\* The conversion begins at the start of the string, so that it stops inside the
\* prefixes 0o and 0b; without digits it stops where it began.
StringAsInt(s, def) ==
    LET first == Unsigned(s)
        end   == StrtollEnd(s, first, BaseOf(s))
        value == IF end = first THEN 0
                 ELSE Saturated(Magnitude(s, first, end, BaseOf(s)),
                                ByteAt(s, first - 1) = Ord["-"])
    IN  IF ByteAt(s, IF end = first THEN 1 ELSE end) \in IntEnds THEN value ELSE def

\* nmjson_token_as_int
AsInt(token, def) ==
    CASE token.type \in {"integer", "bool"} -> token.value[1]
      [] token.type = "string" -> StringAsInt(token.value, def)
      [] OTHER -> def

Lower(s) == [i \in DOMAIN s |-> IF s[i] \in 65 .. 90 THEN s[i] + 32 ELSE s[i]]

\* nmjson_token_as_bool: 1, 0, or -1 when it is neither.
AsBool(token) ==
    CASE token.type = "bool"    -> token.value[1]
      [] token.type = "integer" -> IF token.value[1] # 0 THEN 1 ELSE 0
      [] token.type = "string"  ->
           LET start == SkipOver(token.value, 1, Spaces)
               word == Lower(SubSeq(token.value, start, Len(token.value)))
           IN  IF word = True THEN 1 ELSE IF word = False THEN 0 ELSE -1
      [] OTHER -> -1
=============================================================================
