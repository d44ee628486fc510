---------------------------- MODULE WriterProofs ----------------------------
(***************************************************************************)
(* The invariants of Writer.tla, for every depth to which the caller       *)
(* nests: the depth counter, and the text as long as every failure was a   *)
(* clean one.                                                              *)
(***************************************************************************)
EXTENDS Writer, TLAPS

-----------------------------------------------------------------------------
(* Types. *)

\* What a lexeme makes of a text is a text, or Spoilt, which is one too.
LEMMA LexemeType ==
    ASSUME NEW t \in Texts, NEW k \in Kinds
    PROVE  /\ Spoilt \in Texts
           /\ Comma(t) \in Texts /\ Name(t) \in Texts
           /\ Colon(t) \in Texts /\ Value(t) \in Texts
           /\ Opening(t, k) \in Texts /\ Closing(t, k) \in Texts
<1>1. Spoilt \in Texts
  <2>1. <<>> \in Seq(Kinds)
    OBVIOUS
  <2> QED BY <2>1 DEF Spoilt, NoText, Texts, Dues
<1>2. \A due \in Dues : Then(t, due) \in Texts
  BY DEF Then, Texts
<1>3. Opened(t, k) \in Texts
  <2>1. Append(t.open, k) \in Seq(Kinds)
    BY DEF Texts
  <2> QED BY <2>1 DEF Opened, Texts, Dues
<1>4. CanClose(t, k) => Closed(t, k) \in Texts
  <2>1. ASSUME t.open # <<>> PROVE Front(t.open) \in Seq(Kinds)
    BY <2>1 DEF Texts, Front
  <2> QED BY <2>1 DEF CanClose, Inside, Closed, Texts, Dues
<1> QED BY <1>1, <1>2, <1>3, <1>4 DEF Comma, Name, Colon, Value, Opening, Closing, Dues

\* Comma and key keep it a text, wherever their writes fail.
LEMMA PrefixType ==
    ASSUME TypeOK
    PROVE  /\ AfterColon \in Texts
           /\ \A place \in Places \ {"nowhere"} : Before(place) \in Texts
<1>1. text \in Texts
  BY DEF TypeOK
<1>2. AfterComma \in Texts
  BY <1>1, LexemeType DEF AfterComma, Kinds
<1>3. AfterKey \in Texts
  BY <1>2, LexemeType DEF AfterKey, Kinds
<1>4. AfterColon \in Texts
  BY <1>3, LexemeType DEF AfterColon, Kinds
<1> QED BY <1>1, <1>2, <1>3, <1>4 DEF Before, Places

LEMMA FailsType ==
    ASSUME TypeOK, NEW place \in Places \ {"nowhere"}, NEW torn \in BOOLEAN, Fails(place, torn)
    PROVE  text' \in Texts
<1>1. Spoilt \in Texts
  BY LexemeType DEF TypeOK, Kinds
<1> QED BY <1>1, PrefixType DEF Fails

-----------------------------------------------------------------------------
(* The invariant. *)

Inv == TypeOK /\ DepthIsBlocks /\ WrittenIsJson

\* After the comma and the key that a token in this place begins with, the text
\* waits for a value, in the container the caller is in.
LEMMA PrefixText ==
    ASSUME Inv, ~damaged, blocks = <<>> => text = NoText(FALSE)
    PROVE  /\ AfterColon.open = blocks /\ AfterColon.verdict = "reading"
           /\ CanOpen(AfterColon)
           /\ blocks # <<>> => CanScalar(AfterColon)
<1>1. /\ text \in Texts /\ text.open = blocks /\ text.verdict = "reading"
      /\ text.due = IF needComma THEN "sep" ELSE IF blocks = <<>> THEN "value" ELSE "first"
  BY DEF Inv, TypeOK, WrittenIsJson, NoText
<1>2. blocks # <<>> => Last(blocks) \in Kinds
  BY DEF Inv, TypeOK, Last
<1>3. CASE blocks = <<>>
  <2>1. AfterColon = text
    <3>1. ~needComma
      BY <1>1, <1>3 DEF NoText
    <3> QED BY <3>1, <1>3 DEF AfterColon, AfterKey, AfterComma, InObject
  <2> QED BY <2>1, <1>1, <1>3 DEF CanOpen, ValueDue, NoText
<1>4. CASE blocks # <<>>
  <2>1. /\ AfterComma \in Texts /\ AfterComma.open = blocks /\ AfterComma.verdict = "reading"
        /\ AfterComma.due \in {"first", "next"}
    BY <1>1, <1>4 DEF AfterComma, Comma, CanComma, Then, Texts, Dues
  <2>2. CASE Last(blocks) = "object"
    <3>1. AfterKey = Then(AfterComma, "colon")
      BY <2>1, <2>2, <1>4 DEF AfterKey, InObject, Name, CanName, Inside
    <3>2. CanColon(AfterKey)
      BY <2>1, <3>1 DEF CanColon, Then, Texts
    <3>3. AfterColon = Then(AfterKey, "value")
      BY <3>2, <2>2, <1>4 DEF AfterColon, InObject, Colon
    <3> QED BY <2>1, <3>1, <3>3, <1>4 DEF Then, Texts, CanOpen, CanScalar, ValueDue
  <2>3. CASE Last(blocks) = "array"
    <3>1. AfterColon = AfterComma
      BY <2>3 DEF AfterColon, AfterKey, InObject
    <3> QED BY <2>1, <2>3, <3>1, <1>4 DEF CanOpen, CanScalar, ValueDue, Inside
  <2> QED BY <2>2, <2>3, <1>2, <1>4 DEF Kinds
<1> QED BY <1>3, <1>4

\* A call that fails, and reports it, keeps the invariant: either it has
\* written nothing, and nothing has changed, or it is recorded as damage.
LEMMA FailedKeeps ==
    ASSUME Inv, NEW reason \in {"write", "inval"}, Failed(reason), text' \in Texts
    PROVE  Inv'
<1>1. TypeOK'
  BY DEF Inv, TypeOK, Failed
<1>2. DepthIsBlocks'
  BY DEF Inv, DepthIsBlocks, Failed
<1>3. WrittenIsJson'
  BY DEF Inv, WrittenIsJson, Failed
<1> QED BY <1>1, <1>2, <1>3 DEF Inv

LEMMA PutKeeps ==
    ASSUME Inv, NEW place \in Places, NEW torn \in BOOLEAN,
           Put(place, torn)
    PROVE  Inv'
<1>0. blocks # <<>>
  BY DEF Put
<1>1. CASE Wrote
  <2>1. TypeOK'
    <3>1. text' \in Texts
      BY <1>1, PrefixType, LexemeType DEF Inv, Wrote, Kinds
    <3> QED BY <1>1, <3>1 DEF Inv, TypeOK, Wrote
  <2>2. DepthIsBlocks'
    BY <1>1 DEF Inv, DepthIsBlocks, Wrote
  <2>3. WrittenIsJson'
    <3>1. CASE ~damaged
      <4>1. /\ AfterColon \in Texts /\ AfterColon.open = blocks
            /\ AfterColon.verdict = "reading" /\ CanScalar(AfterColon)
        BY <1>0, <3>1, PrefixText, PrefixType DEF Inv
      <4>2. text'.open = blocks /\ text'.verdict = "reading" /\ text'.due = "sep"
        BY <1>1, <4>1 DEF Wrote, Value, Then, Texts
      <4> QED BY <1>0, <1>1, <4>2 DEF Wrote, WrittenIsJson
    <3>2. CASE damaged
      BY <1>1, <3>2 DEF Wrote, WrittenIsJson
    <3> QED BY <3>1, <3>2
  <2> QED BY <2>1, <2>2, <2>3 DEF Inv
<1>2. CASE /\ place # "nowhere"
           /\ Fails(place, torn)
           /\ Failed("write")
  <2>1. text' \in Texts
    BY <1>2, FailsType DEF Inv
  <2> QED BY <1>2, <2>1, FailedKeeps
<1> QED BY <1>1, <1>2 DEF Put

LEMMA PutFloatKeeps ==
    ASSUME Inv, NEW value \in {"finite", "nonfinite"}, NEW place \in Places, NEW torn \in BOOLEAN,
           PutFloat(value, place, torn)
    PROVE  Inv'
<1>1. CASE Put(place, torn)
  BY <1>1, PutKeeps
<1>2. CASE /\ place = "token"
           /\ Fails(place, torn)
           /\ needComma' = TRUE
           /\ damaged' = TRUE
           /\ UNCHANGED <<depth, err, blocks>>
  <2>1. text' \in Texts
    BY <1>2, FailsType DEF Inv, Places
  <2> QED BY <1>2, <2>1 DEF Inv, TypeOK, DepthIsBlocks, WrittenIsJson
<1> QED BY <1>1, <1>2 DEF PutFloat

LEMMA BeginKeeps ==
    ASSUME Inv, NEW type \in Types, NEW place \in Places, NEW torn \in BOOLEAN,
           Begin(type, place, torn)
    PROVE  Inv'
<1>0. blocks = <<>> => text = NoText(FALSE)
  BY DEF Begin
<1>1. CASE /\ type # "other"
           /\ text' = Opening(AfterColon, type)
           /\ depth' = depth + 1
           /\ needComma' = FALSE
           /\ blocks' = Append(blocks, type)
           /\ UNCHANGED <<err, damaged>>
  <2>0. type \in Kinds
    BY <1>1 DEF Types
  <2>1. TypeOK'
    <3>1. text' \in Texts
      BY <1>1, <2>0, PrefixType, LexemeType DEF Inv
    <3>2. blocks' \in Seq(Kinds)
      BY <1>1, <2>0 DEF Inv, TypeOK
    <3>3. depth' \in Nat
      BY <1>1 DEF Inv, TypeOK
    <3>4. needComma' \in BOOLEAN /\ damaged' \in BOOLEAN /\ err' \in {"none", "write", "inval"}
      BY <1>1 DEF Inv, TypeOK
    <3> QED BY <3>1, <3>2, <3>3, <3>4 DEF TypeOK
  <2>2. DepthIsBlocks'
    BY <1>1, <2>0 DEF Inv, TypeOK, DepthIsBlocks
  <2>3. WrittenIsJson'
    <3>1. CASE ~damaged
      <4>1. /\ AfterColon \in Texts /\ AfterColon.open = blocks
            /\ AfterColon.verdict = "reading" /\ CanOpen(AfterColon)
        BY <1>0, <3>1, PrefixText, PrefixType DEF Inv
      <4>2. text'.open = blocks' /\ text'.verdict = "reading" /\ text'.due = "first"
        BY <1>1, <4>1 DEF Opening, Opened, Texts
      <4>3. blocks' # <<>>
        BY <1>1, <2>0 DEF Inv, TypeOK
      <4> QED BY <1>1, <4>2, <4>3 DEF WrittenIsJson
    <3>2. CASE damaged
      BY <1>1, <3>2 DEF WrittenIsJson
    <3> QED BY <3>1, <3>2
  <2> QED BY <2>1, <2>2, <2>3 DEF Inv
<1>2. CASE text' = AfterColon /\ Failed("inval")
  <2>1. text' \in Texts
    BY <1>2, PrefixType DEF Inv
  <2> QED BY <1>2, <2>1, FailedKeeps
<1>3. CASE /\ place # "nowhere"
           /\ Fails(place, torn /\ place = "key")
           /\ Failed("write")
  <2>1. text' \in Texts
    BY <1>3, FailsType DEF Inv
  <2> QED BY <1>3, <2>1, FailedKeeps
<1> QED BY <1>1, <1>2, <1>3 DEF Begin

LEMMA EndKeeps ==
    ASSUME Inv, NEW type \in Types, NEW place \in {"token", "nowhere"}, End(type, place)
    PROVE  Inv'
<1>0. blocks # <<>> /\ blocks \in Seq(Kinds) /\ text \in Texts /\ depth \in Nat /\ depth = Len(blocks)
  BY DEF End, Inv, TypeOK, DepthIsBlocks
<1>1. CASE UNCHANGED text /\ Failed("inval")
  BY <1>0, <1>1, FailedKeeps
<1>2. CASE /\ type = Last(blocks)
           /\ depth' = depth - 1
           /\ blocks' = Front(blocks)
           /\ \/ /\ text' = Closing(text, type)
                 /\ needComma' = TRUE
                 /\ UNCHANGED <<err, damaged>>
              \/ /\ err' = "write"
                 /\ damaged' = TRUE
                 /\ UNCHANGED <<needComma, text>>
  <2>1. type \in Kinds
    BY <1>0, <1>2 DEF Last
  <2>2. Len(blocks) >= 1 /\ blocks' \in Seq(Kinds) /\ Len(blocks') = Len(blocks) - 1
    BY <1>0, <1>2 DEF Front
  <2>3. TypeOK'
    <3>1. text' \in Texts
      BY <1>0, <1>2, <2>1, LexemeType
    <3>2. depth' \in Nat
      BY <1>0, <1>2, <2>2
    <3>3. needComma' \in BOOLEAN /\ damaged' \in BOOLEAN /\ err' \in {"none", "write", "inval"}
      BY <1>2 DEF Inv, TypeOK
    <3> QED BY <2>2, <3>1, <3>2, <3>3 DEF TypeOK
  <2>4. DepthIsBlocks'
    BY <1>0, <1>2, <2>2 DEF DepthIsBlocks
  <2>5. WrittenIsJson'
    <3>1. CASE ~damaged /\ ~damaged'
      <4>1. /\ text' = Closing(text, type) /\ needComma' = TRUE
            /\ text.open = blocks /\ text.verdict = "reading" /\ text.due \in {"first", "sep"}
        BY <1>0, <1>2, <3>1 DEF Inv, WrittenIsJson
      <4>2. text' = Closed(text, type)
        BY <1>0, <1>2, <4>1 DEF Closing, CanClose, Inside
      <4>3. /\ text'.open = blocks' /\ text'.due = "sep"
            /\ text'.verdict = IF Len(blocks) = 1 THEN "accepted" ELSE "reading"
        BY <1>0, <1>2, <4>1, <4>2 DEF Closed, Texts
      <4>4. Len(blocks) = 1 <=> blocks' = <<>>
        BY <1>0, <2>2
      <4>5. text' # NoText(FALSE)
        BY <4>3 DEF NoText
      <4> QED BY <4>1, <4>3, <4>4, <4>5 DEF WrittenIsJson
    <3>2. CASE damaged'
      BY <3>2 DEF WrittenIsJson
    <3> QED BY <1>2, <3>1, <3>2 DEF Inv, TypeOK
  <2> QED BY <2>3, <2>4, <2>5 DEF Inv
<1> QED BY <1>1, <1>2 DEF End

\* Init, and what Reinit goes back to.
LEMMA NothingWritten ==
    /\ <<>> \in Seq(Kinds) /\ Len(<<>>) = 0
    /\ NoText(FALSE) \in Texts
    /\ NoText(FALSE).open = <<>> /\ NoText(FALSE).verdict = "reading"
    /\ NoText(FALSE).due = "value"
<1>1. <<>> \in Seq(Kinds) /\ Len(<<>>) = 0
  OBVIOUS
<1> QED BY <1>1 DEF NoText, Texts, Dues

LEMMA InitInv == Init => Inv
<1> SUFFICES ASSUME Init PROVE Inv
  OBVIOUS
<1>1. TypeOK
  BY NothingWritten DEF Init, TypeOK
<1>2. DepthIsBlocks
  BY NothingWritten DEF Init, DepthIsBlocks
<1>3. WrittenIsJson
  BY NothingWritten DEF Init, WrittenIsJson
<1> QED BY <1>1, <1>2, <1>3 DEF Inv

LEMMA ReinitKeeps ==
    ASSUME Reinit
    PROVE  Inv'
<1>1. TypeOK'
  BY NothingWritten DEF Reinit, TypeOK
<1>2. DepthIsBlocks'
  BY NothingWritten DEF Reinit, DepthIsBlocks
<1>3. WrittenIsJson'
  BY NothingWritten DEF Reinit, WrittenIsJson
<1> QED BY <1>1, <1>2, <1>3 DEF Inv

LEMMA NextInv == Inv /\ [Next]_vars => Inv'
<1> SUFFICES ASSUME Inv, [Next]_vars PROVE Inv'
  OBVIOUS
<1>1. ASSUME NEW place \in Places, NEW torn \in BOOLEAN,
             \/ Put(place, torn)
             \/ \E value \in {"finite", "nonfinite"} : PutFloat(value, place, torn)
      PROVE  Inv'
  BY <1>1, PutKeeps, PutFloatKeeps
<1>2. ASSUME NEW place \in Places, NEW torn \in BOOLEAN, NEW type \in Types,
             Begin(type, place, torn)
      PROVE  Inv'
  BY <1>2, BeginKeeps
<1>3. ASSUME NEW type \in Types, NEW place \in {"token", "nowhere"}, End(type, place)
      PROVE  Inv'
  BY <1>3, EndKeeps
<1>4. CASE Reinit
  BY <1>4, ReinitKeeps
<1>5. CASE UNCHANGED vars
  BY <1>5 DEF vars, Inv, TypeOK, DepthIsBlocks, WrittenIsJson
<1> QED BY <1>1, <1>2, <1>3, <1>4, <1>5 DEF Next

-----------------------------------------------------------------------------
(* The theorems. *)

\* All three parts together: the depth stays a natural number only because it
\* is the number of blocks, and a comma is owed only where the text says.
THEOREM Invariant == Spec => []Inv
BY InitInv, NextInv, PTL DEF Spec

\* Whatever is called and whatever fails, the variables keep their types; the
\* depth, which end lowers without a test, never goes below zero.
THEOREM TypeCorrect == Spec => []TypeOK
<1>1. Inv => TypeOK
  BY DEF Inv
<1> QED BY <1>1, Invariant, PTL

\* The depth is the number of blocks the caller is in, whatever failed.
THEOREM DepthIsTheBlocks == Spec => []DepthIsBlocks
<1>1. Inv => DepthIsBlocks
  BY DEF Inv
<1> QED BY <1>1, Invariant, PTL

\* A writer all of whose failures were clean has written the beginning of a
\* JSON document, and owes a comma exactly where one is due.
THEOREM WhatIsWrittenIsJson == Spec => []WrittenIsJson
<1>1. Inv => WrittenIsJson
  BY DEF Inv
<1> QED BY <1>1, Invariant, PTL
=============================================================================
