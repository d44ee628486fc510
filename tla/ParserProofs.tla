---------------------------- MODULE ParserProofs ----------------------------
(***************************************************************************)
(* The invariants of Parser.tla, for every pool of tokens, every set of    *)
(* names and every choice of dialects; then its tree as a whole: what can  *)
(* be walked to from the root, and which containers are open; then that it *)
(* implements JsonGrammar.tla.                                             *)
(***************************************************************************)
EXTENDS ParserText, FiniteSetTheorems, Numbers, TLAPS

-----------------------------------------------------------------------------
(* Types. *)

\* What new_token_ clears, and what it or the pending value yields, is a token.
LEMMA ObtainedType ==
    ASSUME TypeOK, NEW new \in BOOLEAN, NEW t \in Tokens
    PROVE  /\ Cleared(t) \in Contents
           /\ Obtained(new, t) \in Contents
<1>1. <<>> \in Seq(Tokens)
  OBVIOUS
<1>2. Cleared(t) \in Contents
  BY <1>1 DEF Cleared, Blank, Contents, Kinds
<1>3. tok[t] \in Contents
  BY DEF TypeOK
<1> QED BY <1>2, <1>3 DEF Obtained

\* json_token_add_ keeps every token well-formed.
LEMMA AttachedType ==
    ASSUME TypeOK, vessel \in Tokens, NEW t \in Tokens, NEW contents \in Contents
    PROVE  Attached(t, contents) \in [Tokens -> Contents]
<1>1. [contents EXCEPT !.parent = vessel] \in Contents
  BY DEF Contents
<1>2. tok[vessel] \in Contents
  BY DEF TypeOK
<1>3. Append(tok[vessel].kids, t) \in Seq(Tokens)
  BY <1>2 DEF Contents
<1>4. [tok[vessel] EXCEPT !.kids = Append(@, t)] \in Contents
  BY <1>2, <1>3 DEF Contents
<1> QED BY <1>1, <1>4 DEF Attached, TypeOK

\* Sorting the members of an object yields the same members.
LEMMA SortedType ==
    ASSUME NEW s \in Seq(Tokens), NEW sorted \in SortedByName(s)
    PROVE  /\ sorted \in Seq(Tokens)
           /\ Len(sorted) = Len(s)
           /\ ToSet(sorted) = ToSet(s)
           /\ IsInjective(s) => IsInjective(sorted)
<1>1. PICK p \in Bijection(DOMAIN s, DOMAIN s) :
            sorted = [i \in DOMAIN s |-> s[p[i]]]
  BY DEF SortedByName
<1>2. /\ p \in [DOMAIN s -> DOMAIN s]
      /\ \A j \in DOMAIN s : \E i \in DOMAIN s : p[i] = j
      /\ \A i, j \in DOMAIN s : p[i] = p[j] => i = j
  BY DEF Bijection, Injection, Surjection, IsInjective
<1>3. DOMAIN s = 1 .. Len(s) /\ Len(s) \in Nat
  OBVIOUS
<1>4. sorted \in Seq(Tokens) /\ Len(sorted) = Len(s)
  BY <1>1, <1>2, <1>3
<1>5. ToSet(sorted) = ToSet(s)
  BY <1>1, <1>2, <1>3, <1>4 DEF ToSet
<1>6. IsInjective(s) => IsInjective(sorted)
  BY <1>1, <1>2 DEF IsInjective
<1> QED BY <1>4, <1>5, <1>6

\* The pool after new_token_, and after taking or keeping a token.
LEMMA PoolType ==
    ASSUME TypeOK, NEW t \in Tokens
    PROVE  /\ NewToken(t) => free' \subseteq Tokens /\ active' \subseteq Tokens
                             /\ isAllocAllowed' \in BOOLEAN
           /\ \A new \in BOOLEAN : Obtain(new, t) =>
                free' \subseteq Tokens /\ active' \subseteq Tokens
                /\ isAllocAllowed' \in BOOLEAN
  BY DEF TypeOK, NewToken, Obtain, pool

\* An error keeps the types.
LEMMA FailType ==
    ASSUME TypeOK, NEW c \in Codes, Fail(c) \/ FailWithoutToken(c)
    PROVE  TypeOK'
  BY DEF Fail, FailWithoutToken, Stop, TypeOK, mode, pool, cursors

\* Each other way a value or a name can end keeps the types.
LEMMA OutcomeType ==
    ASSUME TypeOK, NEW t \in Tokens, NEW new \in BOOLEAN, NEW class \in Classes
    PROVE  /\ FailHolding(new, t) => TypeOK'
           /\ Suspend(class, new, t) => TypeOK'
           /\ vessel \in Tokens /\ TakeValue(new, t) => TypeOK'
           /\ TakeName(t) => TypeOK'
<1>1. /\ Cleared(t) \in Contents /\ Obtained(new, t) \in Contents
  BY ObtainedType
<1>2. ASSUME FailHolding(new, t) PROVE TypeOK'
  BY <1>1, <1>2, PoolType DEF FailHolding, Stop, TypeOK, mode, Codes
<1>3. ASSUME Suspend(class, new, t) PROVE TypeOK'
  <2>1. tok' \in [Tokens -> Contents] /\ UNCHANGED pool
        /\ value' \in Tokens \cup {None}
    BY <1>1, <1>3 DEF Suspend, TakeAndReturn, TypeOK
  <2> QED BY <1>3, <2>1 DEF Suspend, TypeOK, mode, pool
<1>4. ASSUME vessel \in Tokens, TakeValue(new, t) PROVE TypeOK'
  <2>1. tok' \in [Tokens -> Contents]
    BY <1>1, <1>4, AttachedType DEF TakeValue
  <2> QED BY <1>4, <2>1, PoolType DEF TakeValue, TypeOK
<1>5. ASSUME TakeName(t) PROVE TypeOK'
  <2>1. \A n \in Names : [Cleared(t) EXCEPT !.name = n] \in Contents
    BY <1>1 DEF Contents
  <2>2. tok' \in [Tokens -> Contents]
    BY <1>5, <2>1 DEF TakeName, TypeOK
  <2> QED BY <1>5, <2>2, PoolType DEF TakeName, TypeOK
<1> QED BY <1>2, <1>3, <1>4, <1>5

\* Every step of the parser keeps the types.
LEMMA TypeStep == TypeOK /\ [Next]_vars => TypeOK'
<1> SUFFICES ASSUME TypeOK, [Next]_vars PROVE TypeOK'
  OBVIOUS
<1> USE DEF Codes
<1>1. ASSUME NEW k \in {"object", "array"}, ReadOpen(k) PROVE TypeOK'
  <2> DEFINE new == vessel = None \/ VesselIs("array")
  <2>1. CASE Fail("syntax") \/ FailWithoutToken(IF vessel = None THEN "syntax" ELSE "tokens")
    BY <2>1, FailType
  <2>2. CASE ~(Fail("syntax") \/ FailWithoutToken(IF vessel = None THEN "syntax" ELSE "tokens"))
    <3>1. PICK t \in Tokens :
            /\ Obtain(new, t)
            /\ LET contents == [Obtained(new, t) EXCEPT !.kind = k] IN
               tok' = IF vessel = None THEN [tok EXCEPT ![t] = contents]
                                       ELSE Attached(t, contents)
            /\ root' = IF vessel = None THEN t ELSE root
            /\ vessel' = t
            /\ value' = None
            /\ isTreatingValue' = (k = "array")
            /\ isInInput' = TRUE
            /\ UNCHANGED <<superset, code, cut>>
      BY <1>1, <2>2 DEF ReadOpen
    <3>2. [Obtained(new, t) EXCEPT !.kind = k] \in Contents
      <4>1. Obtained(new, t) \in Contents
        BY ObtainedType
      <4> QED BY <4>1 DEF Contents, Kinds
    <3>3. tok' \in [Tokens -> Contents]
      BY <3>1, <3>2, AttachedType DEF TypeOK
    <3>4. new \in BOOLEAN
      BY DEF VesselIs
    <3> QED BY <3>1, <3>3, <3>4, PoolType DEF TypeOK
  <2> QED BY <2>1, <2>2
<1>2. ASSUME NEW k \in {"object", "array"}, ReadClose(k) PROVE TypeOK'
  <2>1. CASE Fail("syntax")
    BY <2>1, FailType
  <2>2. CASE ~Fail("syntax")
    <3>1. /\ vessel \in Tokens
          /\ tok[vessel] \in Contents
      BY <1>2, <2>2 DEF ReadClose, TypeOK
    <3>2. ASSUME NEW s \in SortedByName(tok[vessel].kids)
          PROVE  [tok EXCEPT ![vessel].kids = s] \in [Tokens -> Contents]
      <4>1. s \in Seq(Tokens)
        BY <3>1, SortedType DEF Contents
      <4>2. [tok[vessel] EXCEPT !.kids = s] \in Contents
        BY <3>1, <4>1 DEF Contents
      <4> QED BY <4>2 DEF TypeOK
    <3>3. tok' \in [Tokens -> Contents]
      BY <1>2, <2>2, <3>2 DEF ReadClose, TypeOK
    <3>4. vessel' \in Tokens \cup {None}
      BY <1>2, <2>2, <3>1 DEF ReadClose, Contents
    <3> QED BY <1>2, <2>2, <3>3, <3>4 DEF ReadClose, TypeOK, pool
  <2> QED BY <2>1, <2>2
<1>3. ASSUME NEW quote \in Quotes, NEW scan \in Scans, ReadString(quote, scan)
      PROVE  TypeOK'
  <2>1. quote \in Classes /\ (VesselIs("array") \/ ~isTreatingValue) \in BOOLEAN
    BY DEF Classes, VesselIs, TypeOK
  <2> QED BY <1>3, <2>1, OutcomeType, FailType DEF ReadString, TypeOK
<1>4. ASSUME NEW class \in Words, NEW scan \in Scans, ReadWord(class, scan)
      PROVE  TypeOK'
  <2>1. class \in Classes /\ VesselIs("array") \in BOOLEAN /\ TRUE \in BOOLEAN
    BY DEF Classes, VesselIs
  <2>2. CASE AsValue(class) /\ ReadScalar(class, scan)
    BY <2>1, <2>2, OutcomeType, FailType DEF ReadScalar, AsValue, TypeOK
  <2>3. CASE AsIdent(class) /\ ReadIdent(class, scan)
    BY <2>1, <2>3, OutcomeType, FailType DEF ReadIdent
  <2>4. CASE Fail("syntax")
    BY <2>4, FailType
  <2> QED BY <1>4, <2>2, <2>3, <2>4 DEF ReadWord
<1>5. ASSUME NEW scan \in Scans, ReadComment(scan) PROVE TypeOK'
  BY <1>5 DEF ReadComment, Fail, Stop, TypeOK, mode, pool, cursors, Classes
<1>6. CASE ReadColon
  BY <1>6 DEF ReadColon, Fail, Stop, TypeOK, mode, pool, cursors
<1>7. CASE ReadComma
  BY <1>7 DEF ReadComma, VesselIs, Fail, Stop, TypeOK, mode, pool, cursors
<1>8. ASSUME NEW s \in Supersets \cup {"none"}, ResetAsSuperset(s) PROVE TypeOK'
  BY <1>8 DEF ResetAsSuperset, TypeOK
<1>9. CASE UNCHANGED vars
  BY <1>9 DEF vars, TypeOK
<1> QED BY <1>1, <1>2, <1>3, <1>4, <1>5, <1>6, <1>7, <1>8, <1>9 DEF Next

\* The variables of the parser always have their types, and the parser itself
\* never reports nmjson_error_buffer.
THEOREM TypeCorrect == Spec => []TypeOK
<1>1. Init => TypeOK
  <2>1. <<>> \in Seq(Tokens)
    OBVIOUS
  <2>2. Blank \in Contents
    BY <2>1 DEF Blank, Contents, Kinds
  <2> QED BY <2>2 DEF Init, TypeOK, Tokens, Codes
<1> QED BY <1>1, TypeStep, PTL DEF Spec

-----------------------------------------------------------------------------
(* The pool, the modes and the tree.  They hold each other up: a token that *)
(* new_token_ returns is outside the tree because the pool and the active   *)
(* list are disjoint, and the token of a member is outside it because the   *)
(* modes say that its value is still due.                                   *)

\* What hangs under a token hangs under an object or an array.
ParentsAreVessels ==
    \A t \in active :
        tok[t].parent # None => tok[tok[t].parent].kind \in {"object", "array"}

\* The token that waits for its value has none yet.
PendingIsLeaf == code = "incomplete" /\ value # None => tok[value].kind = "leaf"

IInv ==
    /\ TypeOK
    /\ PoolConserved
    /\ ModeCoherent
    /\ TokensErrorIsReal
    /\ NoDangling
    /\ TreeLinked
    /\ ParentsAreVessels
    /\ PendingIsLeaf

\* The part of it that speaks of tokens only.
TreeInv == PoolConserved /\ NoDangling /\ TreeLinked /\ ParentsAreVessels

LEMMA AppendSet ==
    ASSUME NEW S, NEW s \in Seq(S), NEW t \in S
    PROVE  ToSet(Append(s, t)) = ToSet(s) \cup {t}
<1>1. /\ DOMAIN s = 1 .. Len(s) /\ Len(s) \in Nat
      /\ DOMAIN Append(s, t) = 1 .. Len(s) + 1
      /\ \A i \in 1 .. Len(s) : Append(s, t)[i] = s[i]
      /\ Append(s, t)[Len(s) + 1] = t
  OBVIOUS
<1>2. ToSet(Append(s, t)) \subseteq ToSet(s) \cup {t}
  BY <1>1 DEF ToSet
<1>3. ToSet(s) \cup {t} \subseteq ToSet(Append(s, t))
  BY <1>1 DEF ToSet
<1> QED BY <1>2, <1>3

\* A token that new_token_ may return is outside the active list, and is marked
\* for free() only if malloc gave it.
LEMMA TakeableIsOutside ==
    ASSUME TypeOK, PoolConserved, NEW t \in Takeable
    PROVE  t \in Tokens /\ t \notin active /\ (t \in Static => ~Cleared(t).alloced)
  BY PoolAssumption DEF TypeOK, PoolConserved, Takeable, Tokens, Cleared, Blank

\* A step that touches neither pool nor tree keeps what holds of them.
LEMMA TreeUnchanged ==
    ASSUME TreeInv, UNCHANGED <<pool, tok, root, vessel>>, value' \in {value, None}
    PROVE  TreeInv'
  BY DEF TreeInv, PoolConserved, NoDangling, TreeLinked, ParentsAreVessels, pool

\* Taking a token, clearing it and perhaps naming it keeps the tree.
LEMMA TakenAlone ==
    ASSUME TypeOK, TreeInv, NEW t \in Tokens, NewToken(t),
           NEW contents \in Contents,
           contents.parent = None, contents.kids = <<>>,
           contents.alloced = Cleared(t).alloced,
           tok' = [tok EXCEPT ![t] = contents],
           {root', vessel'} \subseteq {root, vessel, t}, value' \in {t, None}
    PROVE  TreeInv'
<1>1. t \notin active /\ (t \in Static => ~contents.alloced) /\ t \in Takeable
  BY TakeableIsOutside DEF TreeInv, NewToken
<1>2. tok'[t] = contents /\ \A u \in Tokens \ {t} : tok'[u] = tok[u]
  BY DEF TypeOK
<1>3. active' = active \cup {t} /\ free' = free \ {t}
  BY DEF NewToken
<1>4. active \subseteq Tokens /\ free \subseteq Tokens /\ Static \subseteq Tokens /\ None \notin Tokens
  BY PoolAssumption DEF TypeOK, Tokens
<1>5. PoolConserved'
  BY <1>1, <1>2, <1>3, <1>4 DEF TreeInv, PoolConserved
<1>6. ToSet(contents.kids) = {} /\ DOMAIN contents.kids = {}
  BY DEF ToSet
<1>7. NoDangling'
  BY <1>1, <1>2, <1>3, <1>4, <1>6 DEF TreeInv, NoDangling
<1>8. \A u \in active : /\ tok'[u] = tok[u]
                          /\ tok[u].parent # None => tok'[tok[u].parent] = tok[tok[u].parent]
  BY <1>1, <1>2, <1>4 DEF TreeInv, NoDangling, ToSet
<1>9. TreeLinked'
  <2>1. ASSUME NEW u \in active', NEW i \in DOMAIN tok'[u].kids
        PROVE  /\ tok'[tok'[u].kids[i]].parent = u
               /\ \A j \in DOMAIN tok'[u].kids : tok'[u].kids[i] = tok'[u].kids[j] => i = j
    <3>1. u \in active
      BY <1>2, <1>3, <1>6, <2>1
    <3>2. tok'[u].kids = tok[u].kids
      BY <1>8, <3>1
    <3>3. i \in DOMAIN tok[u].kids
      BY <2>1, <3>2
    <3>4. tok[u].kids[i] \in active
      BY <3>1, <3>3 DEF TreeInv, NoDangling, ToSet
    <3>5. /\ tok[tok[u].kids[i]].parent = u
          /\ \A j \in DOMAIN tok[u].kids : tok[u].kids[i] = tok[u].kids[j] => i = j
      BY <3>1, <3>3 DEF TreeInv, TreeLinked
    <3>6. tok'[tok[u].kids[i]] = tok[tok[u].kids[i]]
      BY <1>1, <1>2, <1>4, <3>4
    <3> QED BY <3>2, <3>5, <3>6
  <2>2. ASSUME NEW u \in active', tok'[u].parent # None
        PROVE  u \in ToSet(tok'[tok'[u].parent].kids)
    <3>1. u \in active
      BY <1>2, <1>3, <2>2
    <3> QED BY <1>8, <2>2, <3>1 DEF TreeInv, TreeLinked
  <2> QED BY <2>1, <2>2 DEF TreeLinked
<1>10. ParentsAreVessels'
  BY <1>2, <1>3, <1>8 DEF TreeInv, ParentsAreVessels
<1> QED BY <1>5, <1>7, <1>9, <1>10 DEF TreeInv

\* json_token_add_ of a token that hangs nowhere, a new one or the pending one,
\* keeps the tree.
LEMMA AttachedToTree ==
    ASSUME TypeOK, TreeInv, NEW t \in Tokens, NEW new \in BOOLEAN, Obtain(new, t),
           vessel \in active, tok[vessel].kind \in {"object", "array"},
           value # None => /\ tok[value].parent = None
                           /\ tok[value].kind = "leaf",
           NEW contents \in Contents,
           contents.kids = Obtained(new, t).kids,
           contents.alloced = Obtained(new, t).alloced,
           contents.kind \in Kinds,
           tok' = Attached(t, contents),
           root' = root, vessel' \in {vessel, t}, value' = None
    PROVE  /\ TreeInv'
           /\ tok'[vessel].kind = tok[vessel].kind
           /\ tok'[t].kind = contents.kind
<1>1. /\ active \subseteq Tokens /\ free \subseteq Tokens /\ Static \subseteq Tokens
      /\ None \notin Tokens
      /\ \A u \in Tokens : tok[u] \in Contents
  BY PoolAssumption DEF TypeOK, Tokens
<1>2. /\ new => t \notin active /\ (t \in Static => ~Obtained(new, t).alloced)
               /\ Obtained(new, t).kids = <<>>
               /\ active' = active \cup {t} /\ free' = free \ {t}
      /\ ~new => /\ t = value /\ value # None /\ Obtained(new, t) = tok[t]
                 /\ t \in active /\ tok[t].parent = None
                 /\ active' = active /\ free' = free
  BY TakeableIsOutside DEF TreeInv, NoDangling, Obtain, NewToken, Obtained, Cleared, Blank, pool
<1>3. vessel # t
  BY <1>2
<1>4. \A u \in active : t \notin ToSet(tok[u].kids)
  <2>1. CASE new
    BY <1>2, <2>1 DEF TreeInv, NoDangling
  <2>2. CASE ~new
    BY <1>1, <1>2, <2>2 DEF TreeInv, TreeLinked, ToSet
  <2> QED BY <2>1, <2>2
<1>5. /\ tok'[t] = [contents EXCEPT !.parent = vessel]
      /\ tok'[vessel] = [tok[vessel] EXCEPT !.kids = Append(@, t)]
      /\ \A u \in Tokens \ {t, vessel} : tok'[u] = tok[u]
  BY <1>1, <1>3 DEF Attached
<1>6. /\ tok'[t].parent = vessel /\ tok'[t].kids = Obtained(new, t).kids
      /\ tok'[t].kind = contents.kind /\ tok'[t].alloced = Obtained(new, t).alloced
  BY <1>5 DEF Contents
<1>7. /\ tok'[vessel].kids = Append(tok[vessel].kids, t)
      /\ tok'[vessel].parent = tok[vessel].parent
      /\ tok'[vessel].kind = tok[vessel].kind
      /\ tok'[vessel].alloced = tok[vessel].alloced
  BY <1>1, <1>5 DEF Contents
<1>8. active' = active \cup {t} /\ free' = free \ {t} /\ t \in active'
  BY <1>2 DEF TreeInv, PoolConserved
<1>9. PoolConserved'
  <2>1. free' \cap active' = {} /\ Static \subseteq free' \cup active'
    BY <1>8 DEF TreeInv, PoolConserved
  <2>2. ASSUME NEW u \in Static PROVE ~tok'[u].alloced
    <3>1. ~tok[u].alloced
      BY DEF TreeInv, PoolConserved
    <3>2. u = t => ~Obtained(new, t).alloced
      BY <1>2, <3>1
    <3> QED BY <1>1, <1>5, <1>6, <1>7, <3>1, <3>2
  <2> QED BY <2>1, <2>2 DEF PoolConserved
<1>10. /\ tok[vessel].kids \in Seq(Tokens)
       /\ ToSet(tok'[vessel].kids) = ToSet(tok[vessel].kids) \cup {t}
  BY <1>1, <1>7, AppendSet DEF Contents
<1>11. \A u \in active \ {t, vessel} : tok'[u] = tok[u]
  BY <1>1, <1>5
<1>12. /\ ToSet(tok'[t].kids) = ToSet(Obtained(new, t).kids)
       /\ ToSet(tok'[t].kids) \subseteq active
       /\ new => DOMAIN tok'[t].kids = {}
       /\ ~new => tok'[t].kids = tok[t].kids
  <2>1. CASE new
    <3>1. tok'[t].kids = <<>>
      BY <1>2, <1>6, <2>1
    <3>2. DOMAIN tok'[t].kids = {} /\ ToSet(tok'[t].kids) = {}
      BY <3>1 DEF ToSet
    <3> QED BY <1>6, <2>1, <3>2
  <2>2. CASE ~new
    BY <1>2, <1>6, <2>2 DEF TreeInv, NoDangling
  <2> QED BY <2>1, <2>2
<1>13. NoDangling'
  <2>1. {root', vessel', value'} \subseteq active' \cup {None}
    BY <1>8 DEF TreeInv, NoDangling
  <2>2. ASSUME NEW u \in active'
        PROVE  /\ tok'[u].parent \in active' \cup {None}
               /\ ToSet(tok'[u].kids) \subseteq active'
    <3>1. CASE u = t
      BY <1>6, <1>8, <1>12, <3>1
    <3>2. CASE u = vessel
      BY <1>7, <1>8, <1>10, <3>2 DEF TreeInv, NoDangling
    <3>3. CASE u \notin {t, vessel}
      BY <1>8, <1>11, <3>3 DEF TreeInv, NoDangling
    <3> QED BY <3>1, <3>2, <3>3
  <2> QED BY <2>1, <2>2 DEF NoDangling
<1>14. ASSUME NEW u \in active', NEW i \in DOMAIN tok'[u].kids
       PROVE  /\ tok'[tok'[u].kids[i]].parent = u
              /\ \A j \in DOMAIN tok'[u].kids : tok'[u].kids[i] = tok'[u].kids[j] => i = j
  <2>1. ASSUME NEW w \in active, NEW k \in DOMAIN tok[w].kids
        PROVE  /\ tok'[tok[w].kids[k]].parent = w
               /\ \A j \in DOMAIN tok[w].kids : tok[w].kids[k] = tok[w].kids[j] => k = j
    <3>1. tok[w].kids[k] \in active /\ tok[w].kids[k] # t
      BY <1>4 DEF TreeInv, NoDangling, ToSet
    <3>2. tok'[tok[w].kids[k]].parent = tok[tok[w].kids[k]].parent
      BY <1>7, <1>11, <3>1
    <3> QED BY <3>2 DEF TreeInv, TreeLinked
  <2>2. CASE u = t
    <3>1. ~new
      BY <1>12, <1>14, <2>2
    <3>2. tok'[u].kids = tok[u].kids /\ u \in active
      BY <1>2, <1>12, <2>2, <3>1
    <3> QED BY <1>14, <2>1, <3>2
  <2>3. CASE u = vessel
    <3> DEFINE kids == tok[vessel].kids
    <3>1. /\ DOMAIN kids = 1 .. Len(kids) /\ Len(kids) \in Nat
          /\ DOMAIN tok'[u].kids = 1 .. Len(kids) + 1
          /\ \A j \in 1 .. Len(kids) : tok'[u].kids[j] = kids[j] /\ kids[j] # t
          /\ tok'[u].kids[Len(kids) + 1] = t
      <4>1. kids \in Seq(Tokens) /\ tok'[u].kids = Append(kids, t)
        BY <1>7, <1>10, <2>3
      <4>2. \A j \in DOMAIN kids : kids[j] # t
        BY <1>4 DEF ToSet
      <4> HIDE DEF kids
      <4> QED BY <4>1, <4>2
    <3>2. CASE i = Len(kids) + 1
      <4>1. tok'[tok'[u].kids[i]].parent = u
        BY <1>6, <2>3, <3>1, <3>2
      <4> HIDE DEF kids
      <4>2. \A j \in DOMAIN tok'[u].kids : tok'[u].kids[i] = tok'[u].kids[j] => i = j
        <5>1. \A j \in 1 .. Len(kids) + 1 : j = Len(kids) + 1 \/ j \in 1 .. Len(kids)
          BY <3>1
        <5> QED BY <3>1, <3>2, <5>1
      <4> QED BY <4>1, <4>2
    <3>3. CASE i \in 1 .. Len(kids)
      <4>1. /\ tok'[kids[i]].parent = u
            /\ \A j \in DOMAIN kids : kids[i] = kids[j] => i = j
        BY <2>1, <2>3, <3>1, <3>3
      <4> HIDE DEF kids
      <4> QED BY <3>1, <3>3, <4>1
    <3> HIDE DEF kids
    <3> QED BY <1>14, <3>1, <3>2, <3>3
  <2>4. CASE u \notin {t, vessel}
    <3>1. u \in active /\ tok'[u].kids = tok[u].kids
      BY <1>8, <1>11, <2>4
    <3> QED BY <1>14, <2>1, <3>1
  <2> QED BY <2>2, <2>3, <2>4
<1>15. ASSUME NEW u \in active', tok'[u].parent # None
       PROVE  /\ u \in ToSet(tok'[tok'[u].parent].kids)
              /\ tok'[tok'[u].parent].kind \in {"object", "array"}
  <2>1. CASE u = t
    BY <1>6, <1>7, <1>10, <2>1
  <2>2. CASE u # t
    <3>1. u \in active /\ tok'[u].parent = tok[u].parent
      BY <1>7, <1>8, <1>11, <2>2
    <3> DEFINE p == tok[u].parent
    <3>2. p \in active /\ u \in ToSet(tok[p].kids) /\ tok[p].kind \in {"object", "array"}
      BY <1>15, <3>1 DEF TreeInv, NoDangling, TreeLinked, ParentsAreVessels
    <3>3. p # t
      <4>1. CASE new
        BY <1>2, <3>2, <4>1
      <4>2. CASE ~new
        BY <1>2, <3>2, <4>2
      <4> QED BY <4>1, <4>2
    <3>4. ToSet(tok[p].kids) \subseteq ToSet(tok'[p].kids) /\ tok'[p].kind = tok[p].kind
      BY <1>7, <1>10, <1>11, <3>2, <3>3
    <3> QED BY <3>1, <3>2, <3>4
  <2> QED BY <2>1, <2>2
<1>16. TreeLinked' /\ ParentsAreVessels'
  BY <1>14, <1>15 DEF TreeLinked, ParentsAreVessels
<1>17. tok'[vessel].kind = tok[vessel].kind /\ tok'[t].kind = contents.kind
  BY <1>6, <1>7
<1> QED BY <1>9, <1>13, <1>16, <1>17 DEF TreeInv

\* Closing a container, its members sorted or not, keeps the tree.
LEMMA ClosedInTree ==
    ASSUME TypeOK, TreeInv, vessel \in active,
           NEW s \in SortedByName(tok[vessel].kids) \cup {tok[vessel].kids},
           tok' = [tok EXCEPT ![vessel].kids = s],
           UNCHANGED <<pool, root, value>>, vessel' = tok[vessel].parent
    PROVE  TreeInv' /\ \A t \in Tokens : /\ tok'[t].kind = tok[t].kind
                                         /\ tok'[t].parent = tok[t].parent
                                         /\ tok'[t].name = tok[t].name
<1> DEFINE kids == tok[vessel].kids
<1>1. /\ active \subseteq Tokens /\ free \subseteq Tokens /\ Static \subseteq Tokens
      /\ None \notin Tokens
      /\ \A u \in Tokens : tok[u] \in Contents
  BY PoolAssumption DEF TypeOK, Tokens
<1>2. IsInjective(kids) /\ kids \in Seq(Tokens)
  BY <1>1 DEF TreeInv, TreeLinked, IsInjective, Contents
<1>3. /\ s \in Seq(Tokens) /\ ToSet(s) = ToSet(kids) /\ IsInjective(s)
  BY <1>2, SortedType
<1>4. /\ \A u \in Tokens : /\ tok'[u].parent = tok[u].parent
                            /\ tok'[u].kind = tok[u].kind
                            /\ tok'[u].name = tok[u].name
                            /\ tok'[u].alloced = tok[u].alloced
                            /\ u # vessel => tok'[u].kids = tok[u].kids
      /\ tok'[vessel].kids = s
  BY <1>1 DEF TypeOK, Contents
<1>5. \A u \in Tokens : ToSet(tok'[u].kids) = ToSet(tok[u].kids)
  BY <1>3, <1>4
<1>6. active' = active /\ free' = free /\ root' = root /\ value' = value
  BY DEF pool
<1>7. PoolConserved'
  BY <1>1, <1>4, <1>6 DEF TreeInv, PoolConserved
<1>8. NoDangling'
  BY <1>1, <1>4, <1>5, <1>6 DEF TreeInv, NoDangling
<1>9. ParentsAreVessels'
  BY <1>1, <1>4, <1>6 DEF TreeInv, ParentsAreVessels, NoDangling
<1>10. ASSUME NEW u \in active', NEW i \in DOMAIN tok'[u].kids
       PROVE  /\ tok'[tok'[u].kids[i]].parent = u
              /\ \A j \in DOMAIN tok'[u].kids : tok'[u].kids[i] = tok'[u].kids[j] => i = j
  <2>1. CASE u # vessel
    <3>1. u \in active /\ tok'[u].kids = tok[u].kids
      BY <1>1, <1>4, <1>6, <2>1
    <3>2. tok[u].kids[i] \in active
      BY <1>10, <3>1 DEF TreeInv, NoDangling, ToSet
    <3>3. /\ tok[tok[u].kids[i]].parent = u
          /\ \A j \in DOMAIN tok[u].kids : tok[u].kids[i] = tok[u].kids[j] => i = j
      BY <1>10, <3>1 DEF TreeInv, TreeLinked
    <3> QED BY <1>1, <1>4, <3>1, <3>2, <3>3
  <2>2. CASE u = vessel
    <3>1. tok'[u].kids = s
      BY <1>4, <2>2
    <3>2. s[i] \in ToSet(kids)
      BY <1>3, <1>10, <3>1 DEF ToSet
    <3>3. s[i] \in active /\ tok[s[i]].parent = vessel
      BY <3>2 DEF TreeInv, NoDangling, TreeLinked, ToSet
    <3>4. \A j \in DOMAIN s : s[i] = s[j] => i = j
      BY <1>3, <1>10, <3>1 DEF IsInjective
    <3> QED BY <1>1, <1>4, <2>2, <3>1, <3>3, <3>4
  <2> QED BY <2>1, <2>2
<1>11. ASSUME NEW u \in active', tok'[u].parent # None
       PROVE  u \in ToSet(tok'[tok'[u].parent].kids)
  <2>1. u \in active /\ tok'[u].parent = tok[u].parent
    BY <1>1, <1>4, <1>6
  <2>2. tok[u].parent \in Tokens /\ u \in ToSet(tok[tok[u].parent].kids)
    BY <1>1, <1>11, <2>1 DEF TreeInv, NoDangling, TreeLinked
  <2> QED BY <1>5, <2>1, <2>2
<1> QED BY <1>4, <1>7, <1>8, <1>9, <1>10, <1>11 DEF TreeInv, TreeLinked

\* Clearing a token outside the active list is not seen in the tree.
LEMMA ClearedOutside ==
    ASSUME TypeOK, TreeInv, NEW t \in Tokens, TakeAndReturn(t),
           UNCHANGED <<root, vessel>>, value' \in {value, None}
    PROVE  TreeInv' /\ \A u \in active : tok'[u] = tok[u]
<1>1. t \notin active /\ (t \in Static => ~Cleared(t).alloced)
  BY TakeableIsOutside DEF TreeInv, TakeAndReturn
<1>2. \A u \in Tokens \ {t} : tok'[u] = tok[u]
  BY DEF TakeAndReturn, TypeOK
<1>3. tok'[t] = Cleared(t)
  BY DEF TakeAndReturn, TypeOK
<1>4. active \subseteq Tokens /\ None \notin Tokens /\ Static \subseteq Tokens
  BY PoolAssumption DEF TypeOK, Tokens
<1>5. active' = active /\ free' = free
  BY DEF TakeAndReturn, pool
<1>6. \A u \in active : tok'[u] = tok[u]
  BY <1>1, <1>2, <1>4
<1>7. PoolConserved'
  BY <1>1, <1>2, <1>3, <1>4, <1>5 DEF TreeInv, PoolConserved
<1>8. NoDangling'
  BY <1>5, <1>6 DEF TreeInv, NoDangling
<1>9. ASSUME NEW u \in active
      PROVE  /\ \A i \in DOMAIN tok[u].kids : tok'[tok[u].kids[i]] = tok[tok[u].kids[i]]
             /\ tok[u].parent # None => tok'[tok[u].parent] = tok[tok[u].parent]
  <2>1. \A i \in DOMAIN tok[u].kids : tok[u].kids[i] \in active
    BY DEF TreeInv, NoDangling, ToSet
  <2>2. tok[u].parent # None => tok[u].parent \in active
    BY DEF TreeInv, NoDangling
  <2> QED BY <1>6, <2>1, <2>2
<1>10. TreeLinked'
  BY <1>5, <1>6, <1>9 DEF TreeInv, TreeLinked
<1>11. ParentsAreVessels'
  BY <1>5, <1>6, <1>9 DEF TreeInv, ParentsAreVessels
<1> QED BY <1>6, <1>7, <1>8, <1>10, <1>11 DEF TreeInv

-----------------------------------------------------------------------------
(* The steps. *)

\* An error keeps the invariant, when "tokens" is said of an empty pool.
LEMMA FailStep ==
    ASSUME IInv, TypeOK', NEW c \in Codes, c # "incomplete",
           c = "tokens" => Exhausted,
           Fail(c) \/ FailWithoutToken(c)
    PROVE  IInv'
<1>1. /\ UNCHANGED <<pool, tok, root, vessel>> /\ value' \in {value, None}
      /\ code' = c
  BY DEF Fail, FailWithoutToken, Stop, cursors
<1>2. TreeInv'
  BY <1>1, TreeUnchanged DEF IInv, TreeInv
<1>3. TokensErrorIsReal'
  BY <1>1 DEF TokensErrorIsReal, Exhausted, pool
<1> QED BY <1>1, <1>2, <1>3 DEF IInv, TreeInv, ModeCoherent, PendingIsLeaf

\* What ModeCoherent says of a parser that is inside a container.
LEMMA InVessel ==
    ASSUME IInv, code = "incomplete", vessel # None
    PROVE  /\ vessel \in active /\ vessel \in Tokens /\ root # None
           /\ VesselIs("array") \/ VesselIs("object")
           /\ ~(VesselIs("array") /\ VesselIs("object"))
           /\ VesselIs("array") => isTreatingValue /\ value = None
           /\ tok[vessel].kind \in {"object", "array"}
           /\ value # None => tok[value].kind = "leaf" /\ tok[value].parent = None
  BY DEF IInv, ModeCoherent, NoDangling, TypeOK, VesselIs, PendingIsLeaf

\* A rejected value or name keeps the invariant.
LEMMA FailHoldingStep ==
    ASSUME IInv, TypeOK', NEW t \in Tokens, NEW new \in BOOLEAN, FailHolding(new, t)
    PROVE  IInv'
<1>1. code' = "syntax" /\ root' = root /\ vessel' = vessel /\ value' = t
  BY DEF FailHolding, Stop
<1>2. TreeInv'
  <2>1. CASE new
    <3>1. /\ NewToken(t)
          /\ tok' = [tok EXCEPT ![t] = Cleared(t)]
          /\ Cleared(t) \in Contents
      BY <2>1, ObtainedType DEF FailHolding, Obtain, Obtained, IInv
    <3>2. Cleared(t).parent = None /\ Cleared(t).kids = <<>>
      BY DEF Cleared, Blank
    <3> QED BY <1>1, <3>1, <3>2, TakenAlone DEF IInv, TreeInv
  <2>2. CASE ~new
    <3>1. UNCHANGED <<pool, tok, value>>
      BY <1>1, <2>2 DEF FailHolding, Obtain, Obtained, IInv, TypeOK
    <3> QED BY <1>1, <3>1, TreeUnchanged DEF IInv, TreeInv
  <2> QED BY <2>1, <2>2
<1> QED BY <1>1, <1>2 DEF IInv, TreeInv, ModeCoherent, TokensErrorIsReal, PendingIsLeaf

\* A cut value or name keeps the invariant.
LEMMA SuspendStep ==
    ASSUME IInv, TypeOK', code = "incomplete", vessel # None,
           NEW t \in Tokens, NEW new \in BOOLEAN, NEW class \in Classes,
           isInInput \/ (class \in Words /\ new),
           new = (VesselIs("array") \/ ~isTreatingValue),
           Suspend(class, new, t)
    PROVE  IInv'
<1>1. /\ UNCHANGED <<mode, superset, root, vessel, code>> /\ cut' = class
      /\ value' \in {value, None} /\ (new => value' = None) /\ (~new => value' = value)
  BY DEF Suspend
<1>2. TreeInv' /\ \A u \in active : tok'[u] = tok[u]
  <2>1. CASE new
    BY <1>1, <2>1, ClearedOutside DEF IInv, TreeInv, Suspend
  <2>2. CASE ~new
    BY <1>1, <2>2, TreeUnchanged DEF IInv, TreeInv, Suspend
  <2> QED BY <2>1, <2>2
<1>3. tok'[vessel] = tok[vessel] /\ (value' # None => value' = value /\ tok'[value] = tok[value])
  BY <1>1, <1>2, InVessel DEF IInv, NoDangling
<1>4. ModeCoherent'
  <2>1. VesselIs("array")' = VesselIs("array") /\ VesselIs("object")' = VesselIs("object")
    BY <1>1, <1>3 DEF VesselIs
  <2>2. VesselIs("array")' => isTreatingValue' /\ value' = None
    BY <1>1, <2>1, InVessel DEF mode
  <2>3. VesselIs("object")' =>
          (value' # None <=> /\ isTreatingValue' = isInInput'
                            /\ ~(cut' \in Words /\ ~isInInput'))
    <3> SUFFICES ASSUME VesselIs("object")
                 PROVE  value' # None <=> /\ isTreatingValue = isInInput
                                         /\ ~(class \in Words /\ ~isInInput)
      BY <1>1, <2>1 DEF mode
    <3>1. new <=> ~isTreatingValue
      BY InVessel
    <3>2. value # None <=> /\ isTreatingValue = isInInput
                           /\ ~(cut \in Words /\ ~isInInput)
      BY DEF IInv, ModeCoherent
    <3>3. CASE new
      <4>1. value' = None /\ isTreatingValue = FALSE
        BY <1>1, <3>1, <3>3 DEF IInv, TypeOK
      <4>2. isInInput = TRUE \/ (class \in Words /\ isInInput = FALSE)
        BY DEF IInv, TypeOK
      <4> QED BY <4>1, <4>2
    <3>4. CASE ~new
      <4>1. value' = value /\ isTreatingValue = TRUE /\ isInInput = TRUE
        BY <1>1, <3>1, <3>4 DEF IInv, TypeOK
      <4> QED BY <3>2, <4>1
    <3> QED BY <3>3, <3>4
  <2>4. vessel' # None /\ tok'[vessel'].kind \in {"object", "array"} /\ root' # None
    BY <1>1, <1>3, InVessel
  <2>5. value' # None => tok'[value'].name # None /\ tok'[value'].parent = None
    BY <1>3 DEF IInv, ModeCoherent
  <2> QED BY <2>2, <2>3, <2>4, <2>5 DEF ModeCoherent
<1>5. TokensErrorIsReal' /\ PendingIsLeaf'
  BY <1>1, <1>3, InVessel DEF TokensErrorIsReal, PendingIsLeaf
<1> QED BY <1>2, <1>4, <1>5 DEF IInv, TreeInv

\* A whole value keeps the invariant.
LEMMA TakeValueStep ==
    ASSUME IInv, TypeOK', code = "incomplete", vessel # None, isTreatingValue,
           NEW t \in Tokens, NEW new \in BOOLEAN, TakeValue(new, t)
    PROVE  IInv'
<1>1. /\ Obtain(new, t) /\ tok' = Attached(t, Obtained(new, t))
      /\ value' = None /\ isInInput' = FALSE /\ cut' = None
      /\ UNCHANGED <<isTreatingValue, superset, root, vessel, code>>
  BY DEF TakeValue
<1>2. Obtained(new, t) \in Contents
  BY ObtainedType DEF IInv
<1>3. TreeInv' /\ tok'[vessel].kind = tok[vessel].kind
  BY <1>1, <1>2, InVessel, AttachedToTree DEF IInv, TreeInv, Contents
<1>4. ModeCoherent'
  BY <1>1, <1>3, InVessel DEF ModeCoherent, VesselIs
<1> QED BY <1>1, <1>3, <1>4 DEF IInv, TreeInv, TokensErrorIsReal, PendingIsLeaf

\* A whole name keeps the invariant.
LEMMA TakeNameStep ==
    ASSUME IInv, TypeOK', code = "incomplete", VesselIs("object"), ~isTreatingValue,
           NEW t \in Tokens, TakeName(t)
    PROVE  IInv'
<1>1. PICK n \in Names : tok' = [tok EXCEPT ![t] = [Cleared(t) EXCEPT !.name = n]]
  BY DEF TakeName
<1>2. /\ NewToken(t) /\ value' = t /\ isInInput' = FALSE /\ cut' = None
      /\ UNCHANGED <<isTreatingValue, superset, root, vessel, code>>
  BY DEF TakeName
<1> DEFINE contents == [Cleared(t) EXCEPT !.name = n]
<1>3. /\ contents \in Contents /\ contents.parent = None /\ contents.kids = <<>>
      /\ contents.kind = "leaf" /\ contents.name = n
      /\ contents.alloced = Cleared(t).alloced
  <2>1. Cleared(t) \in Contents
    BY ObtainedType DEF IInv
  <2>2. /\ Cleared(t).parent = None /\ Cleared(t).kids = <<>> /\ Cleared(t).kind = "leaf"
    BY DEF Cleared, Blank
  <2> HIDE DEF Cleared
  <2> QED BY <2>1, <2>2 DEF Contents
<1>4. t \notin active /\ vessel \in active /\ vessel # None
  BY InVessel, <1>2, TakeableIsOutside DEF IInv, NewToken, VesselIs
<1> HIDE DEF contents
<1>5. tok' = [tok EXCEPT ![t] = contents]
  BY <1>1 DEF contents
<1>6. TreeInv'
  BY <1>2, <1>3, <1>5, TakenAlone DEF IInv, TreeInv
<1>7. tok'[t] = contents /\ tok'[vessel] = tok[vessel]
  BY <1>4, <1>5 DEF IInv, TypeOK
<1>8. n # None /\ t # None
  BY NameAssumption, PoolAssumption
<1>9. ModeCoherent'
  <2>1. VesselIs("object")' /\ ~VesselIs("array")'
    BY <1>2, <1>7, InVessel DEF VesselIs
  <2>2. /\ value' # None /\ isTreatingValue' = isInInput' /\ cut' \notin Words
        /\ tok'[value'].name # None /\ tok'[value'].parent = None
        /\ tok'[vessel'].kind \in {"object", "array"} /\ root' # None /\ vessel' # None
    <3>1. None \notin Words
      BY PoolAssumption DEF Classes
    <3> QED BY <1>2, <1>3, <1>4, <1>7, <1>8, <3>1, InVessel DEF IInv, TypeOK
  <2> QED BY <2>1, <2>2 DEF ModeCoherent
<1> QED BY <1>2, <1>3, <1>6, <1>7, <1>9 DEF IInv, TreeInv, TokensErrorIsReal, PendingIsLeaf

\* '{' or '[' keeps the invariant.
LEMMA ReadOpenStep ==
    ASSUME IInv, TypeOK', NEW k \in {"object", "array"}, ReadOpen(k)
    PROVE  IInv'
<1> DEFINE new == vessel = None \/ VesselIs("array")
<1>0. code = "incomplete" /\ new \in BOOLEAN /\ k # "leaf" /\ k \in Kinds
  BY DEF ReadOpen, Reads, VesselIs, Kinds
<1>1. CASE Fail("syntax")
  BY <1>1, FailStep DEF Codes
<1>2. CASE /\ isInInput /\ isTreatingValue /\ Missing(new)
           /\ FailWithoutToken(IF vessel = None THEN "syntax" ELSE "tokens")
  <2>1. vessel # None => Exhausted
    <3>1. vessel # None /\ ~new => value # None
      BY <1>0, <1>2, InVessel DEF IInv, ModeCoherent, TypeOK
    <3> QED BY <1>2, <3>1 DEF Missing
  <2> QED BY <1>2, <2>1, FailStep DEF Codes
<1>3. ASSUME ~Fail("syntax"),
             ~(/\ isInInput /\ isTreatingValue /\ Missing(new)
               /\ FailWithoutToken(IF vessel = None THEN "syntax" ELSE "tokens"))
      PROVE  IInv'
  <2>1. PICK t \in Tokens :
            /\ Obtain(new, t)
            /\ LET contents == [Obtained(new, t) EXCEPT !.kind = k] IN
               tok' = IF vessel = None THEN [tok EXCEPT ![t] = contents]
                                       ELSE Attached(t, contents)
            /\ root' = IF vessel = None THEN t ELSE root
            /\ vessel' = t
            /\ value' = None
            /\ isTreatingValue' = (k = "array")
            /\ isInInput' = TRUE
            /\ UNCHANGED <<superset, code, cut>>
    BY <1>3 DEF ReadOpen
  <2> DEFINE contents == [Obtained(new, t) EXCEPT !.kind = k]
  <2>2. /\ contents \in Contents /\ contents.kind = k
        /\ contents.kids = Obtained(new, t).kids
        /\ contents.parent = Obtained(new, t).parent
        /\ contents.alloced = Obtained(new, t).alloced
    BY <1>0, ObtainedType DEF IInv, Contents
  <2>3. TreeInv' /\ tok'[t].kind = k
    <3>1. CASE vessel = None
      <4>1. Obtained(new, t) = Cleared(t) /\ NewToken(t)
        BY <2>1, <3>1 DEF Obtain, Obtained
      <4>2. contents.parent = None /\ contents.kids = <<>>
        BY <2>2, <4>1 DEF Cleared, Blank
      <4> HIDE DEF contents
      <4>3. tok' = [tok EXCEPT ![t] = contents]
        BY <2>1, <3>1 DEF contents
      <4>4. {root', vessel'} \subseteq {root, vessel, t} /\ value' \in {t, None}
        BY <2>1, <3>1
      <4>5. tok'[t] = contents
        BY <4>3 DEF IInv, TypeOK
      <4> QED BY <2>2, <4>1, <4>2, <4>3, <4>4, <4>5, TakenAlone DEF IInv, TreeInv
    <3>2. CASE vessel # None
      <4> HIDE DEF contents, new
      <4>1. tok' = Attached(t, contents) /\ root' = root
        BY <2>1, <3>2 DEF contents
      <4> QED BY <1>0, <2>1, <2>2, <3>2, <4>1, InVessel, AttachedToTree
              DEF IInv, TreeInv, Kinds
    <3> QED BY <3>1, <3>2
  <2>4. t # None /\ root' # None
    BY <1>0, <2>1, PoolAssumption, InVessel
  <2>5. VesselIs("array")' = (k = "array") /\ VesselIs("object")' = (k = "object")
    BY <2>1, <2>3, <2>4 DEF VesselIs
  <2>6. ModeCoherent'
    BY <2>1, <2>3, <2>4, <2>5 DEF ModeCoherent
  <2> QED BY <1>0, <2>1, <2>3, <2>6 DEF IInv, TreeInv, TokensErrorIsReal, PendingIsLeaf
<1> QED BY <1>1, <1>2, <1>3

\* '}' or ']' keeps the invariant.
LEMMA ReadCloseStep ==
    ASSUME IInv, TypeOK', NEW k \in {"object", "array"}, ReadClose(k)
    PROVE  IInv'
<1>1. CASE Fail("syntax")
  BY <1>1, FailStep DEF Codes
<1>2. CASE ~Fail("syntax")
  <2>1. /\ code = "incomplete" /\ vessel # None /\ value = None
        /\ vessel' = tok[vessel].parent
        /\ isInInput' = FALSE /\ isTreatingValue' = TRUE
        /\ code' = IF vessel' = None THEN "complete" ELSE "incomplete"
        /\ UNCHANGED <<superset, pool, root, value, cut>>
    BY <1>2 DEF ReadClose, Reads
  <2>2. PICK s \in SortedByName(tok[vessel].kids) \cup {tok[vessel].kids} :
            tok' = [tok EXCEPT ![vessel].kids = s]
    <3>1. UNCHANGED tok => tok' = [tok EXCEPT ![vessel].kids = tok[vessel].kids]
      BY <2>1 DEF IInv, TypeOK, Contents
    <3> QED BY <1>2, <3>1 DEF ReadClose
  <2>3. vessel \in active /\ vessel \in Tokens /\ root # None
    BY <2>1, InVessel
  <2>4. TreeInv' /\ \A t \in Tokens : tok'[t].kind = tok[t].kind
    BY <2>1, <2>2, <2>3, ClosedInTree DEF IInv, TreeInv
  <2>5. vessel' # None => /\ vessel' \in Tokens
                         /\ tok'[vessel'].kind \in {"object", "array"}
    <3>1. vessel' # None => /\ vessel' \in active
                           /\ tok[vessel'].kind \in {"object", "array"}
      BY <2>1, <2>3 DEF IInv, NoDangling, ParentsAreVessels
    <3> QED BY <2>4, <3>1 DEF IInv, TypeOK
  <2>6. ModeCoherent'
    BY <2>1, <2>3, <2>5 DEF ModeCoherent, VesselIs
  <2>7. TokensErrorIsReal' /\ PendingIsLeaf'
    BY <2>1 DEF TokensErrorIsReal, PendingIsLeaf
  <2> QED BY <2>4, <2>6, <2>7 DEF IInv, TreeInv
<1> QED BY <1>1, <1>2

\* A string keeps the invariant.
LEMMA ReadStringStep ==
    ASSUME IInv, TypeOK', NEW quote \in Quotes, NEW scan \in Scans,
           ReadString(quote, scan)
    PROVE  IInv'
<1> DEFINE new == VesselIs("array") \/ ~isTreatingValue
<1>0. code = "incomplete" /\ new \in BOOLEAN /\ quote \in Classes
  BY DEF ReadString, Reads, VesselIs, Classes, IInv, TypeOK
<1>1. CASE Fail("syntax")
  BY <1>1, FailStep DEF Codes
<1>2. CASE isInInput /\ vessel # None /\ Missing(new) /\ FailWithoutToken("tokens")
  <2>1. ~new => value # None
    BY <1>0, <1>2, InVessel DEF IInv, ModeCoherent, TypeOK
  <2> QED BY <1>2, <2>1, FailStep DEF Codes, Missing
<1>3. ASSUME isInInput, vessel # None,
             NEW t \in Tokens,
             \/ FailHolding(new, t)
             \/ Suspend(quote, new, t)
             \/ isTreatingValue /\ TakeValue(new, t)
             \/ ~isTreatingValue /\ TakeName(t)
      PROVE  IInv'
  <2>1. ~isTreatingValue => VesselIs("object")
    BY <1>0, <1>3, InVessel
  <2>2. CASE FailHolding(new, t)
    BY <1>0, <2>2, FailHoldingStep
  <2>3. CASE Suspend(quote, new, t)
    BY <1>0, <1>3, <2>3, SuspendStep
  <2>4. CASE isTreatingValue /\ TakeValue(new, t)
    BY <1>0, <1>3, <2>4, TakeValueStep
  <2>5. CASE ~isTreatingValue /\ TakeName(t)
    BY <1>0, <2>1, <2>5, TakeNameStep
  <2> QED BY <1>3, <2>2, <2>3, <2>4, <2>5
<1> QED BY <1>1, <1>2, <1>3 DEF ReadString

\* Any other character keeps the invariant.
LEMMA ReadWordStep ==
    ASSUME IInv, TypeOK', NEW class \in Words, NEW scan \in Scans,
           ReadWord(class, scan)
    PROVE  IInv'
<1>0. code = "incomplete" /\ class \in Classes /\ VesselIs("array") \in BOOLEAN
  BY DEF ReadWord, Reads, Classes, VesselIs
<1>1. CASE Fail("syntax")
  BY <1>1, FailStep DEF Codes
<1>2. CASE AsValue(class) /\ ReadScalar(class, scan)
  <2> DEFINE new == VesselIs("array")
  <2>1. vessel # None /\ isInInput /\ isTreatingValue
    BY <1>2 DEF AsValue
  <2>2. CASE Missing(new) /\ FailWithoutToken("tokens")
    <3>1. ~new => value # None
      BY <1>0, <2>1, InVessel DEF IInv, ModeCoherent, TypeOK
    <3> QED BY <2>2, <3>1, FailStep DEF Codes, Missing
  <2>3. ASSUME NEW t \in Tokens,
               FailHolding(new, t) \/ Suspend(class, new, t) \/ TakeValue(new, t)
        PROVE  IInv'
    <3>1. CASE FailHolding(new, t)
      BY <1>0, <3>1, FailHoldingStep
    <3>2. CASE Suspend(class, new, t)
      <4>1. new = (VesselIs("array") \/ ~isTreatingValue)
        BY <1>0, <2>1
      <4> QED BY <1>0, <2>1, <3>2, <4>1, SuspendStep
    <3>3. CASE TakeValue(new, t)
      BY <1>0, <2>1, <3>3, TakeValueStep
    <3> QED BY <2>3, <3>1, <3>2, <3>3
  <2> QED BY <1>2, <2>2, <2>3 DEF ReadScalar
<1>3. CASE AsIdent(class) /\ ReadIdent(class, scan) /\ ~Fail("syntax")
  <2>1. VesselIs("object") /\ ~isTreatingValue /\ vessel # None
    BY <1>3 DEF ReadIdent, VesselIs
  <2>2. CASE Exhausted /\ FailWithoutToken("tokens")
    BY <2>2, FailStep DEF Codes
  <2>3. ASSUME NEW t \in Tokens,
               FailHolding(TRUE, t) \/ Suspend(class, TRUE, t) \/ TakeName(t)
        PROVE  IInv'
    <3>1. CASE FailHolding(TRUE, t)
      BY <3>1, FailHoldingStep
    <3>2. CASE Suspend(class, TRUE, t)
      <4>1. TRUE = (VesselIs("array") \/ ~isTreatingValue)
        BY <2>1
      <4> QED BY <1>0, <2>1, <3>2, <4>1, SuspendStep
    <3>3. CASE TakeName(t)
      BY <1>0, <2>1, <3>3, TakeNameStep
    <3> QED BY <2>3, <3>1, <3>2, <3>3
  <2> QED BY <1>3, <2>2, <2>3 DEF ReadIdent
<1> QED BY <1>1, <1>2, <1>3 DEF ReadWord

\* ':', ',' and a comment keep the invariant: they move the modes only.
LEMMA PunctuationStep ==
    ASSUME IInv, TypeOK', ReadColon \/ ReadComma \/ \E scan \in Scans : ReadComment(scan)
    PROVE  IInv'
<1>1. CASE Fail("syntax")
  BY <1>1, FailStep DEF Codes
<1>2. CASE ~Fail("syntax")
  <2>1. /\ UNCHANGED <<superset, pool, tok, cursors, code>> /\ code = "incomplete"
        /\ cut' \notin Words
    <3>1. None \notin Words /\ "comment" \notin Words
      BY PoolAssumption DEF Classes, Words
    <3> QED BY <1>2, <3>1 DEF ReadColon, ReadComma, ReadComment, Reads
  <2>2. TreeInv'
    BY <2>1, TreeUnchanged DEF IInv, TreeInv, cursors
  <2>3. VesselIs("array")' = VesselIs("array") /\ VesselIs("object")' = VesselIs("object")
    BY <2>1 DEF VesselIs, cursors
  <2>4. cut \notin Words
    <3>1. cut \in {None, "comment"}
      BY <1>2 DEF ReadColon, ReadComma, ReadComment, Reads
    <3> QED BY <3>1, PoolAssumption DEF Classes, Words
  <2>5. ModeCoherent'
    <3>1. CASE ReadColon
      <4>1. ~isInInput /\ ~isTreatingValue /\ isInInput' = TRUE /\ isTreatingValue' = TRUE
        BY <1>2, <3>1 DEF ReadColon
      <4> QED BY <2>1, <2>3, <2>4, <4>1 DEF IInv, ModeCoherent, cursors, TypeOK
    <3>2. CASE ReadComma
      <4>1. ~isInInput /\ isTreatingValue /\ isInInput' = TRUE
            /\ isTreatingValue' = VesselIs("array")
        BY <1>2, <3>2 DEF ReadComma
      <4>2. ~(VesselIs("array") /\ VesselIs("object"))
        BY DEF VesselIs
      <4> QED BY <2>1, <2>3, <2>4, <4>1, <4>2 DEF IInv, ModeCoherent, cursors, TypeOK
    <3>3. CASE \E scan \in Scans : ReadComment(scan)
      <4>1. UNCHANGED mode
        BY <1>2, <3>3 DEF ReadComment
      <4> QED BY <2>1, <2>3, <2>4, <4>1 DEF IInv, ModeCoherent, cursors, mode
    <3> QED BY <3>1, <3>2, <3>3
  <2>6. TokensErrorIsReal' /\ PendingIsLeaf'
    BY <2>1 DEF IInv, TokensErrorIsReal, PendingIsLeaf, cursors
  <2> QED BY <2>2, <2>5, <2>6 DEF IInv, TreeInv
<1> QED BY <1>1, <1>2

\* A reset keeps the invariant: it gives back the whole active list.
LEMMA ResetStep ==
    ASSUME IInv, TypeOK', NEW s \in Supersets \cup {"none"}, ResetAsSuperset(s)
    PROVE  IInv'
<1>1. /\ active' = {} /\ free' = free \cup active /\ UNCHANGED tok
      /\ root' = None /\ vessel' = None /\ value' = None /\ code' = "incomplete"
      /\ isTreatingValue' /\ isInInput'
  BY DEF ResetAsSuperset
<1>2. PoolConserved'
  BY <1>1 DEF IInv, PoolConserved
<1>3. NoDangling' /\ TreeLinked' /\ ParentsAreVessels'
  BY <1>1 DEF NoDangling, TreeLinked, ParentsAreVessels
<1>4. ModeCoherent' /\ TokensErrorIsReal' /\ PendingIsLeaf'
  BY <1>1 DEF ModeCoherent, TokensErrorIsReal, PendingIsLeaf, VesselIs
<1> QED BY <1>2, <1>3, <1>4 DEF IInv

\* Every step of the parser keeps the invariant.
LEMMA InvStep == IInv /\ [Next]_vars => IInv'
<1> SUFFICES ASSUME IInv, [Next]_vars PROVE IInv'
  OBVIOUS
<1>1. TypeOK'
  BY TypeStep DEF IInv
<1>2. ASSUME NEW k \in {"object", "array"}, ReadOpen(k) \/ ReadClose(k) PROVE IInv'
  BY <1>1, <1>2, ReadOpenStep, ReadCloseStep
<1>3. ASSUME NEW quote \in Quotes, NEW scan \in Scans, ReadString(quote, scan)
      PROVE  IInv'
  BY <1>1, <1>3, ReadStringStep
<1>4. ASSUME NEW class \in Words, NEW scan \in Scans, ReadWord(class, scan)
      PROVE  IInv'
  BY <1>1, <1>4, ReadWordStep
<1>5. CASE ReadColon \/ ReadComma \/ \E scan \in Scans : ReadComment(scan)
  BY <1>1, <1>5, PunctuationStep
<1>6. ASSUME NEW s \in Supersets \cup {"none"}, ResetAsSuperset(s) PROVE IInv'
  BY <1>1, <1>6, ResetStep
<1>7. CASE UNCHANGED vars
  BY <1>7 DEF vars, IInv, TypeOK, PoolConserved, ModeCoherent, TokensErrorIsReal,
              Exhausted, NoDangling, TreeLinked, ParentsAreVessels, PendingIsLeaf, VesselIs
<1> QED BY <1>2, <1>3, <1>4, <1>5, <1>6, <1>7 DEF Next

\* It holds of a parser that was just initialised.
LEMMA InitInvariant == Init => IInv
<1>1. Init => TypeOK
  <2>1. Blank \in Contents
    <3>1. <<>> \in Seq(Tokens)
      OBVIOUS
    <3> QED BY <3>1 DEF Blank, Contents, Kinds
  <2> QED BY <2>1 DEF Init, TypeOK, Tokens, Codes
<1>2. Init => PoolConserved
  BY DEF Init, PoolConserved, Blank, Tokens
<1> QED BY <1>1, <1>2 DEF Init, IInv, ModeCoherent, TokensErrorIsReal, NoDangling,
           TreeLinked, ParentsAreVessels, PendingIsLeaf, VesselIs

\* The inductive invariant holds of every parser.
THEOREM Invariant == Spec => []IInv
BY InitInvariant, InvStep, PTL DEF Spec

\* No token of the caller's pool is ever lost, doubled or marked for free().
THEOREM PoolIsConserved == Spec => []PoolConserved
BY Invariant, PTL DEF IInv

\* The mode flags, the vessel and the pending token always agree.
THEOREM ModesAgree == Spec => []ModeCoherent
BY Invariant, PTL DEF IInv

\* The parser runs out of tokens only when the pool is empty.
THEOREM TokensErrorsAreReal == Spec => []TokensErrorIsReal
BY Invariant, PTL DEF IInv

\* No pointer leads to a token that was recycled or freed.
THEOREM NothingDangles == Spec => []NoDangling
BY Invariant, PTL DEF IInv

\* Parents and children agree, and no token hangs twice.
THEOREM TreeIsLinked == Spec => []TreeLinked
BY Invariant, PTL DEF IInv

-----------------------------------------------------------------------------
(* Walking down and up. *)

\* The tokens below the root are a set that has root and their children, and
\* the least such set.
LEMMA ReachableIsLeast ==
    ASSUME TypeOK
    PROVE  /\ Reachable \subseteq Tokens
           /\ DownClosed(Reachable)
           /\ \A S \in SUBSET Tokens : DownClosed(S) => Reachable \subseteq S
<1>1. Reachable \subseteq Tokens
  BY DEF Reachable
<1>2. \A S \in SUBSET Tokens : DownClosed(S) => Reachable \subseteq S
  BY DEF Reachable
<1>3. root # None => root \in Reachable
  BY DEF Reachable, DownClosed, TypeOK
<1>4. ASSUME NEW t \in Reachable, NEW u \in ToSet(tok[t].kids) PROVE u \in Reachable
  <2>1. u \in Tokens
    <3>1. t \in Tokens
      BY <1>1
    <3>2. tok[t].kids \in Seq(Tokens)
      BY <3>1 DEF TypeOK, Contents
    <3> QED BY <3>2 DEF ToSet
  <2>2. ASSUME NEW S \in SUBSET Tokens, DownClosed(S) PROVE u \in S
    BY <1>2, <2>2 DEF DownClosed
  <2> QED BY <2>1, <2>2 DEF Reachable
<1> QED BY <1>1, <1>2, <1>3, <1>4 DEF DownClosed

\* So are the open containers, upwards.
LEMMA OpenPathIsLeast ==
    ASSUME TypeOK
    PROVE  /\ OpenPath \subseteq Tokens
           /\ UpClosed(OpenPath)
           /\ \A S \in SUBSET Tokens : UpClosed(S) => OpenPath \subseteq S
<1>1. OpenPath \subseteq Tokens
  BY DEF OpenPath
<1>2. \A S \in SUBSET Tokens : UpClosed(S) => OpenPath \subseteq S
  BY DEF OpenPath
<1>3. vessel # None => vessel \in OpenPath
  BY DEF OpenPath, UpClosed, TypeOK
<1>4. ASSUME NEW t \in OpenPath, tok[t].parent # None PROVE tok[t].parent \in OpenPath
  <2>1. tok[t].parent \in Tokens
    <3>1. t \in Tokens
      BY <1>1
    <3> QED BY <1>4, <3>1 DEF TypeOK, Contents
  <2>2. ASSUME NEW S \in SUBSET Tokens, UpClosed(S) PROVE tok[t].parent \in S
    BY <1>2, <1>4, <2>2 DEF UpClosed
  <2> QED BY <2>1, <2>2 DEF OpenPath
<1> QED BY <1>1, <1>2, <1>3, <1>4 DEF UpClosed

\* Both stay in the active list, and neither has the pending token.
LEMMA InActive ==
    ASSUME IInv
    PROVE  Reachable \subseteq active /\ OpenPath \subseteq active
<1>1. TypeOK /\ active \in SUBSET Tokens
  BY DEF IInv, TypeOK
<1>2. DownClosed(active) /\ UpClosed(active)
  BY DEF IInv, NoDangling, DownClosed, UpClosed
<1> QED BY <1>1, <1>2, ReachableIsLeast, OpenPathIsLeast

-----------------------------------------------------------------------------
(* What a step does to the tree: nothing, hang a token under the vessel,    *)
(* plant the root, or close the vessel.                                     *)

\* The tree of before is a part of what is active, and has not changed.
Kept ==
    /\ root' = root /\ vessel' = vessel
    /\ \A u \in active : tok'[u] = tok[u]

\* t, which was outside the tree, is the last child of the vessel.
Hung(t) ==
    /\ t \in Tokens
    /\ t \notin active \/ (t = value /\ tok[t].kind = "leaf" /\ tok[t].parent = None)
    /\ vessel \in active /\ tok[vessel].kind \in {"object", "array"}
    /\ root' = root /\ vessel' \in {vessel, t}
    /\ tok'[t].parent = vessel /\ tok'[t].kids = <<>>
    /\ tok'[t].kind # "leaf" => vessel' = t
    /\ tok[vessel].kind = "object" => tok'[t].name \in Names
    /\ tok'[vessel] = [tok[vessel] EXCEPT !.kids = Append(@, t)]
    /\ \A u \in Tokens \ {t, vessel} : tok'[u] = tok[u]

\* t is the root of a new tree, and its vessel.
Planted(t) ==
    /\ t \in Tokens
    /\ root = None /\ vessel = None
    /\ root' = t /\ vessel' = t
    /\ tok'[t].parent = None /\ tok'[t].kids = <<>> /\ tok'[t].kind # "leaf"

\* The vessel's members are in order, and its parent is the vessel.
ClosedUp ==
    /\ vessel \in active
    /\ root' = root /\ vessel' = tok[vessel].parent
    /\ \E s \in Seq(Tokens) :
          /\ ToSet(s) = ToSet(tok[vessel].kids)
          /\ tok' = [tok EXCEPT ![vessel].kids = s]
          /\ tok[vessel].kind = "object" => s \in SortedByName(tok[vessel].kids)

\* There is no tree.
Emptied == root' = None /\ vessel' = None

\* Of a step: a token is taken only for the pending one, which is not changed for
\* another.
Booked ==
    \/ active' = active /\ value' = value
    \/ value = None /\ value' \in Tokens /\ active' = active \cup {value'}

\* Of a step: t is taken or was pending, and nothing is pending after it.
Spent(t) == active' = active \cup {t} /\ value' = None /\ value \in {None, t}

-----------------------------------------------------------------------------
(* The two sets after a step. *)

\* Reachable and OpenPath are the least of the sets they are taken from.
LeastDown ==
    /\ Reachable \subseteq Tokens
    /\ DownClosed(Reachable)
    /\ \A S \in SUBSET Tokens : DownClosed(S) => Reachable \subseteq S

LeastUp ==
    /\ OpenPath \subseteq Tokens
    /\ UpClosed(OpenPath)
    /\ \A S \in SUBSET Tokens : UpClosed(S) => OpenPath \subseteq S

\* ReachableIsLeast and OpenPathIsLeast, of the state after a step.
LEMMA LeastNext ==
    (TypeOK => LeastDown /\ LeastUp)'
<1>1. TypeOK => LeastDown /\ LeastUp
  BY ReachableIsLeast, OpenPathIsLeast DEF LeastDown, LeastUp
<1> QED BY <1>1, PTL

\* What could be walked to still can, when no child is taken away.
LEMMA DownGrows ==
    ASSUME TypeOK, TypeOK', root # None => root' = root,
           \A u \in Reachable : ToSet(tok[u].kids) \subseteq ToSet(tok'[u].kids)
    PROVE  Reachable \subseteq Reachable'
<1>1. /\ LeastDown /\ LeastDown'
  BY LeastNext, ReachableIsLeast DEF LeastDown
<1> DEFINE S == {u \in Reachable : u \in Reachable'}
<1>2. S \in SUBSET Tokens
  BY <1>1 DEF LeastDown
<1>3. DownClosed(S)
  BY <1>1 DEF LeastDown, DownClosed
<1> QED BY <1>1, <1>2, <1>3 DEF LeastDown

\* What was open still is, when the vessel was not closed.
LEMMA UpGrows ==
    ASSUME TypeOK, TypeOK', vessel # None => vessel \in OpenPath',
           \A u \in OpenPath : tok'[u].parent = tok[u].parent
    PROVE  OpenPath \subseteq OpenPath'
<1>1. /\ LeastUp /\ LeastUp'
  BY LeastNext, OpenPathIsLeast DEF LeastUp
<1> DEFINE S == {u \in OpenPath : u \in OpenPath'}
<1>2. S \in SUBSET Tokens
  BY <1>1 DEF LeastUp
<1>3. UpClosed(S)
  BY <1>1 DEF LeastUp, UpClosed
<1> QED BY <1>1, <1>2, <1>3 DEF LeastUp

\* A step that leaves the active tokens alone.
LEMMA KeptTree ==
    ASSUME IInv, TypeOK', Kept
    PROVE  Reachable' = Reachable /\ OpenPath' = OpenPath
<1>1. TypeOK /\ LeastDown /\ LeastUp /\ LeastDown' /\ LeastUp'
  BY LeastNext, ReachableIsLeast, OpenPathIsLeast DEF LeastDown, LeastUp, IInv
<1>2. \A u \in Reachable \cup OpenPath : tok'[u] = tok[u]
  BY InActive DEF Kept
<1>3. Reachable \subseteq Reachable'
  BY <1>1, <1>2, DownGrows DEF Kept
<1>4. Reachable' \subseteq Reachable
  <2>1. DownClosed(Reachable)
    BY <1>1 DEF LeastDown
  <2>2. PICK S : S = Reachable
    OBVIOUS
  <2>3. DownClosed(S)'
    BY <1>2, <2>1, <2>2 DEF DownClosed, Kept
  <2> QED BY <1>1, <2>2, <2>3 DEF LeastDown
<1>5. OpenPath' \subseteq OpenPath
  <2>1. UpClosed(OpenPath)
    BY <1>1 DEF LeastUp
  <2>2. PICK S : S = OpenPath
    OBVIOUS
  <2>3. UpClosed(S)'
    BY <1>2, <2>1, <2>2 DEF UpClosed, Kept
  <2> QED BY <1>1, <2>2, <2>3 DEF LeastUp
<1>6. OpenPath \subseteq OpenPath'
  BY <1>1, <1>2, UpGrows DEF Kept, LeastUp, UpClosed
<1> QED BY <1>3, <1>4, <1>5, <1>6

\* The root is a container.
RootIsVessel == root # None => tok[root].kind # "leaf"

\* Only objects and arrays have children: the pending token, a leaf, is neither the
\* root nor in the tree, nor open.
LEMMA PendingIsOutside ==
    ASSUME IInv, RootIsVessel, NEW t \in Tokens,
           tok[t].kind = "leaf", tok[t].parent = None, vessel # t
    PROVE  t \notin Reachable /\ t \notin OpenPath
<1>1. TypeOK /\ LeastDown /\ LeastUp
  BY ReachableIsLeast, OpenPathIsLeast DEF LeastDown, LeastUp, IInv
<1>2. t \notin Reachable
  <2> DEFINE S == Reachable \ {t}
  <2>1. S \in SUBSET Tokens
    BY <1>1 DEF LeastDown
  <2>2. ASSUME NEW u \in S, t \in ToSet(tok[u].kids) PROVE FALSE
    <3>1. u \in active
      BY InActive
    <3>2. PICK i \in DOMAIN tok[u].kids : tok[u].kids[i] = t
      BY <2>2 DEF ToSet
    <3>3. tok[t].parent = u
      BY <3>1, <3>2 DEF IInv, TreeLinked
    <3> QED BY <1>1, <2>1, <3>3, PoolAssumption DEF Tokens
  <2>3. DownClosed(S)
    BY <1>1, <2>2 DEF LeastDown, DownClosed, RootIsVessel
  <2> QED BY <1>1, <2>1, <2>3 DEF LeastDown
<1>3. t \notin OpenPath
  <2> DEFINE S == OpenPath \ {t}
  <2>1. S \in SUBSET Tokens
    BY <1>1 DEF LeastUp
  <2>2. ASSUME NEW u \in S, tok[u].parent = t PROVE FALSE
    <3>1. u \in active /\ tok[u].parent # None
      BY <2>2, InActive, PoolAssumption DEF Tokens
    <3> QED BY <2>2, <3>1 DEF IInv, ParentsAreVessels
  <2>3. UpClosed(S)
    BY <1>1, <2>2 DEF LeastUp, UpClosed
  <2> QED BY <1>1, <2>1, <2>3 DEF LeastUp
<1> QED BY <1>2, <1>3

\* What is open can be walked to from the root.
OpenInTree == OpenPath \subseteq Reachable

\* A token is hung under the vessel, and is perhaps the new vessel.
LEMMA HungTree ==
    ASSUME IInv, RootIsVessel, OpenInTree, TypeOK', NEW t, Hung(t)
    PROVE  /\ t \notin Reachable /\ t # vessel
           /\ vessel \in Reachable
           /\ Reachable' = Reachable \cup {t}
           /\ OpenPath' = OpenPath \cup {vessel'}
<1>1. TypeOK /\ LeastDown /\ LeastUp /\ LeastDown' /\ LeastUp'
  BY LeastNext, ReachableIsLeast, OpenPathIsLeast DEF LeastDown, LeastUp, IInv
<1>2. /\ t \in Tokens /\ t # vessel /\ vessel # None /\ vessel \in Tokens /\ t # None
      /\ None \notin Tokens
  BY <1>1, PoolAssumption DEF Hung, TypeOK, Tokens
<1>3. t \notin Reachable /\ t \notin OpenPath
  BY <1>2, PendingIsOutside, InActive DEF Hung
<1>4. vessel \in OpenPath /\ vessel \in Reachable
  BY <1>1, <1>2 DEF LeastUp, UpClosed, OpenInTree
<1>5. /\ tok'[t].parent = vessel /\ ToSet(tok'[t].kids) = {}
      /\ tok'[vessel].parent = tok[vessel].parent
      /\ ToSet(tok'[vessel].kids) = ToSet(tok[vessel].kids) \cup {t}
      /\ \A u \in Tokens \ {t, vessel} : tok'[u] = tok[u]
  <2>1. tok[vessel] \in Contents
    BY <1>1, <1>2 DEF TypeOK
  <2>2. tok[vessel].kids \in Seq(Tokens)
    BY <2>1 DEF Contents
  <2>3. tok'[vessel].kids = Append(tok[vessel].kids, t) /\ tok'[vessel].parent = tok[vessel].parent
    BY <2>1 DEF Hung, Contents
  <2>4. ToSet(tok'[vessel].kids) = ToSet(tok[vessel].kids) \cup {t}
    BY <1>2, <2>2, <2>3, AppendSet
  <2>5. ToSet(<<>>) = {}
    BY DEF ToSet
  <2> QED BY <2>3, <2>4, <2>5 DEF Hung
<1>6. Reachable \subseteq Reachable'
  <2>1. \A u \in Reachable : ToSet(tok[u].kids) \subseteq ToSet(tok'[u].kids)
    BY <1>1, <1>3, <1>5 DEF LeastDown
  <2> QED BY <1>1, <2>1, DownGrows DEF Hung
<1>7. t \in Reachable'
  BY <1>1, <1>4, <1>5, <1>6 DEF LeastDown, DownClosed
<1>8. Reachable' \subseteq Reachable \cup {t}
  <2>1. DownClosed(Reachable) /\ Reachable \subseteq Tokens
    BY <1>1 DEF LeastDown
  <2>2. PICK S : S = Reachable \cup {t}
    OBVIOUS
  <2>3. DownClosed(S)'
    <3>1. root' # None => root' \in S
      BY <2>1, <2>2 DEF DownClosed, Hung
    <3>2. \A u \in S : ToSet(tok'[u].kids) \subseteq S
      BY <1>5, <2>1, <2>2 DEF DownClosed
    <3> QED BY <3>1, <3>2 DEF DownClosed
  <2>4. S \in SUBSET Tokens
    BY <1>2, <2>1, <2>2
  <2> QED BY <1>1, <2>2, <2>3, <2>4 DEF LeastDown
<1>9. vessel \in OpenPath' /\ vessel' \in OpenPath'
  <2>1. vessel' \in OpenPath'
    BY <1>1, <1>2 DEF Hung, LeastUp, UpClosed
  <2>2. t \in OpenPath' => vessel \in OpenPath'
    BY <1>1, <1>2, <1>5 DEF LeastUp, UpClosed
  <2> QED BY <2>1, <2>2 DEF Hung
<1>10. OpenPath \subseteq OpenPath'
  <2>1. \A u \in OpenPath : tok'[u].parent = tok[u].parent
    BY <1>1, <1>3, <1>5 DEF LeastUp
  <2> QED BY <1>1, <1>9, <2>1, UpGrows
<1>11. OpenPath' \subseteq OpenPath \cup {vessel'}
  <2>1. UpClosed(OpenPath) /\ OpenPath \subseteq Tokens /\ vessel' \in Tokens
    BY <1>1, <1>2 DEF LeastUp, Hung
  <2>2. PICK S : S = OpenPath \cup {vessel'}
    OBVIOUS
  <2>3. UpClosed(S)'
    <3>1. vessel' \in S /\ vessel \in S
      BY <1>4, <2>2
    <3>2. \A u \in S : tok'[u].parent # None => tok'[u].parent \in S
      <4>1. \A u \in S : u \in OpenPath \/ u = t
        BY <1>4, <2>2 DEF Hung
      <4> QED BY <1>3, <1>5, <2>1, <2>2, <3>1, <4>1 DEF UpClosed
    <3> QED BY <3>1, <3>2 DEF UpClosed
  <2>4. S \in SUBSET Tokens
    BY <2>1, <2>2
  <2> QED BY <1>1, <2>2, <2>3, <2>4 DEF LeastUp
<1> QED BY <1>2, <1>3, <1>4, <1>6, <1>7, <1>8, <1>9, <1>10, <1>11

\* The root is planted.
LEMMA PlantedTree ==
    ASSUME TypeOK', NEW t, Planted(t)
    PROVE  Reachable' = {t} /\ OpenPath' = {t}
<1>1. LeastDown' /\ LeastUp'
  BY LeastNext
<1>2. t \in Tokens /\ t # None /\ {t} \in SUBSET Tokens /\ ToSet(tok'[t].kids) = {}
  BY PoolAssumption DEF Planted, Tokens, ToSet
<1>3. t \in Reachable' /\ t \in OpenPath'
  BY <1>1, <1>2 DEF Planted, LeastDown, LeastUp, DownClosed, UpClosed
<1>4. DownClosed({t})' /\ UpClosed({t})'
  BY <1>2 DEF Planted, DownClosed, UpClosed
<1> QED BY <1>1, <1>2, <1>3, <1>4 DEF LeastDown, LeastUp

\* The vessel is closed.
LEMMA ClosedTree ==
    ASSUME IInv, TypeOK', ClosedUp
    PROVE  /\ Reachable' = Reachable
           /\ OpenPath' \subseteq OpenPath /\ OpenPath \subseteq OpenPath' \cup {vessel}
           /\ \A u \in Tokens : /\ tok'[u].name = tok[u].name /\ tok'[u].kind = tok[u].kind
                                /\ ToSet(tok'[u].kids) = ToSet(tok[u].kids)
                                /\ tok'[u].parent = tok[u].parent
<1>1. TypeOK /\ LeastDown /\ LeastUp /\ LeastDown' /\ LeastUp'
  BY LeastNext, ReachableIsLeast, OpenPathIsLeast DEF LeastDown, LeastUp, IInv
<1>2. PICK s \in Seq(Tokens) : /\ ToSet(s) = ToSet(tok[vessel].kids)
                              /\ tok' = [tok EXCEPT ![vessel].kids = s]
  BY DEF ClosedUp
<1>3. \A u \in Tokens : /\ tok'[u].name = tok[u].name /\ tok'[u].kind = tok[u].kind
                        /\ ToSet(tok'[u].kids) = ToSet(tok[u].kids)
                        /\ tok'[u].parent = tok[u].parent
  BY <1>1, <1>2 DEF TypeOK, Contents
<1>4. Reachable' = Reachable
  <2>1. Reachable \subseteq Reachable'
    BY <1>1, <1>3, DownGrows DEF ClosedUp, LeastDown
  <2>2. PICK S : S = Reachable
    OBVIOUS
  <2>3. DownClosed(S)'
    BY <1>1, <1>3, <2>2 DEF DownClosed, ClosedUp, LeastDown
  <2>4. Reachable' \subseteq S
    BY <1>1, <2>2, <2>3 DEF LeastDown
  <2> QED BY <2>1, <2>2, <2>4
<1>5. vessel \in Tokens /\ vessel # None /\ vessel \in OpenPath
  BY <1>1, PoolAssumption DEF TypeOK, ClosedUp, LeastUp, UpClosed, Tokens
<1>6. OpenPath' \subseteq OpenPath
  <2>1. PICK S : S = OpenPath
    OBVIOUS
  <2>2. UpClosed(S)'
    BY <1>1, <1>3, <1>5, <2>1 DEF UpClosed, ClosedUp, LeastUp
  <2> QED BY <1>1, <2>1, <2>2 DEF LeastUp
<1>7. OpenPath \subseteq OpenPath' \cup {vessel}
  <2> DEFINE S == {u \in Tokens : u \in OpenPath' \/ u = vessel}
  <2>1. UpClosed(S)
    <3>1. \A u \in S : tok[u].parent # None => tok[u].parent \in OpenPath'
      BY <1>1, <1>3 DEF LeastUp, UpClosed, ClosedUp
    <3> QED BY <1>1, <1>5, <3>1 DEF UpClosed, LeastUp
  <2> QED BY <1>1, <2>1 DEF LeastUp
<1> QED BY <1>3, <1>4, <1>6, <1>7

\* A reset takes the tree away.
LEMMA EmptiedTree ==
    ASSUME TypeOK', Emptied
    PROVE  Reachable' = {} /\ OpenPath' = {}
<1>1. LeastDown' /\ LeastUp'
  BY LeastNext
<1>2. DownClosed({})' /\ UpClosed({})'
  BY DEF Emptied, DownClosed, UpClosed
<1> QED BY <1>1, <1>2 DEF LeastDown, LeastUp

-----------------------------------------------------------------------------
(* Which lexeme does which of these. *)

\* What has no kind to hold children has none.
LEMMA LeafHasNoKids ==
    ASSUME IInv, NEW t \in active, tok[t].kind = "leaf"
    PROVE  tok[t].kids = <<>>
<1>1. t \in Tokens /\ tok[t].kids \in Seq(Tokens) /\ None \notin Tokens
  <2>1. t \in Tokens
    BY DEF IInv, TypeOK
  <2> QED BY <2>1, PoolAssumption DEF IInv, TypeOK, Contents, Tokens
<1>2. ASSUME NEW i \in DOMAIN tok[t].kids PROVE FALSE
  <2>1. tok[t].kids[i] \in active /\ tok[tok[t].kids[i]].parent = t
    BY DEF IInv, NoDangling, TreeLinked, ToSet
  <2> QED BY <1>1, <2>1 DEF IInv, ParentsAreVessels
<1>3. DOMAIN tok[t].kids = 1 .. Len(tok[t].kids) /\ Len(tok[t].kids) \in Nat
  BY <1>1
<1>4. Len(tok[t].kids) = 0
  <2>1. SUFFICES ASSUME Len(tok[t].kids) # 0 PROVE FALSE
    OBVIOUS
  <2>2. 1 \in DOMAIN tok[t].kids
    BY <1>3, <2>1
  <2> QED BY <1>2, <2>2
<1> QED BY <1>1, <1>4

\* A token that is obtained is outside the tree and has no children.
LEMMA ObtainedAlone ==
    ASSUME IInv, code = "incomplete", NEW new \in BOOLEAN, NEW t \in Tokens, Obtain(new, t)
    PROVE  /\ Obtained(new, t) \in Contents
           /\ Obtained(new, t).kind = "leaf" /\ Obtained(new, t).kids = <<>>
           /\ Obtained(new, t).parent = None
           /\ t \notin active \/ (t = value /\ tok[t].kind = "leaf" /\ tok[t].parent = None)
           /\ ~new => Obtained(new, t).name \in Names
<1>1. Obtained(new, t) \in Contents
  BY ObtainedType DEF IInv
<1>2. CASE new
  BY <1>1, <1>2, TakeableIsOutside DEF IInv, Obtain, NewToken, Obtained, Cleared, Blank
<1>3. CASE ~new
  <2>1. t = value /\ value # None /\ Obtained(new, t) = tok[t] /\ value \in active
    BY <1>3 DEF Obtain, Obtained, IInv, NoDangling
  <2>2. tok[t].kind = "leaf" /\ tok[t].parent = None /\ tok[t].name # None
    BY <2>1 DEF IInv, ModeCoherent, PendingIsLeaf
  <2>3. tok[t].name \in Names
    BY <1>1, <2>1, <2>2 DEF Contents
  <2> QED BY <1>1, <1>3, <2>1, <2>2, <2>3, LeafHasNoKids
<1> QED BY <1>2, <1>3

\* An error leaves the tree alone.
LEMMA KeptByError ==
    ASSUME NEW c \in Codes, Fail(c) \/ (FailWithoutToken(c) /\ value = None)
    PROVE  Kept /\ Booked
  BY DEF Fail, FailWithoutToken, Kept, Booked, cursors, pool

\* The ways a lexeme can end that leave the tree alone.
LEMMA KeptByOutcome ==
    ASSUME IInv, NEW t \in Tokens, NEW new \in BOOLEAN, NEW class,
           \/ \E c \in Codes : Fail(c) \/ (FailWithoutToken(c) /\ value = None)
           \/ FailHolding(new, t) \/ Suspend(class, new, t) \/ TakeName(t)
    PROVE  Kept /\ (value = None \/ (~new /\ ~TakeName(t)) => Booked)
<1>0. None \notin Tokens
  BY PoolAssumption DEF Tokens
<1>1. ASSUME NEW contents, tok' = [tok EXCEPT ![t] = contents],
             t \notin active \/ contents = tok[t]
      PROVE  \A u \in active : tok'[u] = tok[u]
  BY <1>1 DEF IInv, TypeOK
<1>2. t \in Takeable => t \notin active
  BY TakeableIsOutside DEF IInv
<1>3. CASE \E c \in Codes : Fail(c) \/ (FailWithoutToken(c) /\ value = None)
  <2>1. active' = active /\ value' = value
    BY <1>3 DEF Fail, FailWithoutToken, pool, cursors
  <2>2. Booked
    BY <2>1 DEF Booked
  <2> QED BY <1>3, <2>2 DEF Fail, FailWithoutToken, Kept, cursors
<1>4. CASE FailHolding(new, t)
  <2>1. t \notin active \/ Obtained(new, t) = tok[t]
    BY <1>2, <1>4 DEF FailHolding, Obtain, NewToken, Obtained
  <2>2. value' = t /\ IF new THEN active' = active \cup {t} ELSE t = value /\ active' = active
    BY <1>4 DEF FailHolding, Obtain, NewToken, pool
  <2>3. value = None \/ ~new => Booked
    BY <1>0, <2>2 DEF Booked
  <2> QED BY <1>1, <1>4, <2>1, <2>3 DEF FailHolding, Kept
<1>5. CASE Suspend(class, new, t)
  <2>1. active' = active /\ value' = IF new THEN None ELSE value
    BY <1>5 DEF Suspend, TakeAndReturn, pool
  <2>2. value = None \/ ~new => Booked
    BY <2>1 DEF Booked
  <2> QED BY <1>1, <1>2, <1>5, <2>2 DEF Suspend, TakeAndReturn, Kept
<1>6. CASE TakeName(t)
  <2>1. active' = active \cup {t} /\ value' = t
    BY <1>6 DEF TakeName, NewToken
  <2>2. value = None => Booked
    BY <1>0, <2>1 DEF Booked
  <2> QED BY <1>1, <1>2, <1>6, <2>2 DEF TakeName, NewToken, Kept
<1> QED BY <1>3, <1>4, <1>5, <1>6

\* A whole value is hung under the vessel.
LEMMA HungByValue ==
    ASSUME IInv, code = "incomplete", vessel # None, NEW t \in Tokens, NEW new \in BOOLEAN,
           VesselIs("object") => ~new, new => value = None,
           TakeValue(new, t)
    PROVE  Hung(t) /\ Spent(t)
<1>1. Obtain(new, t) /\ tok' = Attached(t, Obtained(new, t)) /\ UNCHANGED <<root, vessel>>
  BY DEF TakeValue
<1> DEFINE c == Obtained(new, t)
<1>2. /\ c \in Contents /\ c.kind = "leaf" /\ c.kids = <<>>
      /\ t \notin active \/ (t = value /\ tok[t].kind = "leaf" /\ tok[t].parent = None)
      /\ ~new => c.name \in Names
  BY <1>1, ObtainedAlone
<1>3. vessel \in active /\ vessel \in Tokens /\ tok[vessel].kind \in {"object", "array"} /\ vessel # t
  BY <1>2, InVessel
<1> HIDE DEF c
<1>4. /\ tok'[t] = [c EXCEPT !.parent = vessel]
      /\ tok'[vessel] = [tok[vessel] EXCEPT !.kids = Append(@, t)]
      /\ \A u \in Tokens \ {t, vessel} : tok'[u] = tok[u]
  BY <1>1, <1>3 DEF Attached, c
<1>5. tok'[t].parent = vessel /\ tok'[t].kids = <<>> /\ tok'[t].kind = "leaf"
      /\ tok'[t].name = c.name
  BY <1>2, <1>4 DEF Contents
<1>6. tok[vessel].kind = "object" => c.name \in Names
  BY <1>2 DEF VesselIs
<1>7. Spent(t)
  BY <1>1 DEF Spent, TakeValue, Obtain, NewToken, pool, IInv, NoDangling
<1> QED BY <1>1, <1>2, <1>3, <1>4, <1>5, <1>6, <1>7 DEF Hung

\* '{' or '[' that is taken hangs or plants the new vessel.
LEMMA OpenedAs ==
    ASSUME IInv, code = "incomplete", NEW k \in {"object", "array"}, ReadOpen(k),
           ~Fail("syntax"),
           ~(/\ Missing(vessel = None \/ VesselIs("array"))
             /\ FailWithoutToken(IF vessel = None THEN "syntax" ELSE "tokens"))
    PROVE  \E t \in Tokens : /\ (Hung(t) \/ Planted(t)) /\ Spent(t)
                             /\ vessel' = t /\ tok'[t].kind = k
<1> DEFINE new == vessel = None \/ VesselIs("array")
<1>1. new \in BOOLEAN
  BY DEF VesselIs
<1>2. new => value = None
  BY InVessel DEF IInv, ModeCoherent
<1>3. PICK t \in Tokens :
            /\ Obtain(new, t)
            /\ LET contents == [Obtained(new, t) EXCEPT !.kind = k] IN
               tok' = IF vessel = None THEN [tok EXCEPT ![t] = contents]
                                       ELSE Attached(t, contents)
            /\ root' = IF vessel = None THEN t ELSE root
            /\ vessel' = t
            /\ value' = None
  BY DEF ReadOpen
<1>4. root' = (IF vessel = None THEN t ELSE root) /\ vessel' = t
  BY <1>3
<1> DEFINE c == [Obtained(new, t) EXCEPT !.kind = k]
<1>5. /\ t \notin active \/ (t = value /\ tok[t].kind = "leaf" /\ tok[t].parent = None)
      /\ c \in Contents /\ c.kind = k /\ c.kids = <<>> /\ c.parent = None
      /\ ~new => c.name \in Names
  BY <1>1, <1>3, ObtainedAlone DEF Contents, Kinds
<1>6. Spent(t)
  BY <1>2, <1>3 DEF Spent, Obtain, NewToken, pool, IInv, NoDangling
<1> HIDE DEF c
<1>7. CASE vessel = None
  <2>1. tok'[t] = c /\ root = None
    BY <1>3, <1>7 DEF c, IInv, TypeOK, ModeCoherent
  <2>2. Planted(t)
    BY <1>4, <1>5, <1>7, <2>1 DEF Planted
  <2> QED BY <1>4, <1>5, <1>6, <2>1, <2>2
<1>8. CASE vessel # None
  <2>1. vessel \in active /\ vessel \in Tokens /\ tok[vessel].kind \in {"object", "array"} /\ vessel # t
    BY <1>5, <1>8, InVessel
  <2>2. tok' = Attached(t, c) /\ root' = root /\ vessel' = t
    BY <1>3, <1>8 DEF c
  <2>3. /\ tok'[t] = [c EXCEPT !.parent = vessel]
        /\ tok'[vessel] = [tok[vessel] EXCEPT !.kids = Append(@, t)]
        /\ \A u \in Tokens \ {t, vessel} : tok'[u] = tok[u]
    BY <2>1, <2>2 DEF Attached
  <2>4. /\ tok'[t].parent = vessel /\ tok'[t].kids = <<>> /\ tok'[t].name = c.name
        /\ tok'[t].kind = k
    BY <1>5, <2>3 DEF Contents
  <2>5. tok[vessel].kind = "object" => c.name \in Names
    BY <1>5, <1>8 DEF VesselIs
  <2>6. Hung(t)
    BY <1>5, <2>1, <2>2, <2>3, <2>4, <2>5 DEF Hung
  <2> QED BY <1>4, <1>6, <2>4, <2>6
<1> QED BY <1>7, <1>8

\* '{' or '[', refused or taken.
LEMMA OpenedByBracket ==
    ASSUME IInv, NEW k \in {"object", "array"}, ReadOpen(k)
    PROVE  \/ Kept /\ Booked
           \/ \E t \in Tokens : (Hung(t) \/ Planted(t)) /\ Spent(t)
<1> DEFINE new == vessel = None \/ VesselIs("array")
           c == IF vessel = None THEN "syntax" ELSE "tokens"
<1>1. code = "incomplete" /\ (new => value = None)
  BY InVessel DEF ReadOpen, Reads, IInv, ModeCoherent
<1>2. CASE Fail("syntax")
  BY <1>2, KeptByError DEF Codes
<1>3. CASE Missing(new) /\ FailWithoutToken(c)
  <2>1. value = None
    BY <1>1, <1>3 DEF Missing
  <2> QED BY <1>3, <2>1, KeptByError DEF Codes
<1>4. CASE ~Fail("syntax") /\ ~(Missing(new) /\ FailWithoutToken(c))
  BY <1>1, <1>4, OpenedAs
<1> QED BY <1>2, <1>3, <1>4

\* '}' or ']' closes the vessel.
LEMMA ClosedByBracket ==
    ASSUME IInv, NEW k \in {"object", "array"}, ReadClose(k), ~Fail("syntax")
    PROVE  ClosedUp /\ value = None /\ value' = None /\ active' = active
<1>2. /\ code = "incomplete" /\ vessel # None /\ value = None /\ value' = None
      /\ vessel' = tok[vessel].parent /\ root' = root /\ tok[vessel].kind = k
      /\ active' = active
      /\ IF k = "object"
         THEN \E s \in SortedByName(tok[vessel].kids) :
                     tok' = [tok EXCEPT ![vessel].kids = s]
         ELSE UNCHANGED tok
  BY DEF ReadClose, Reads, pool
<1>3. vessel \in active /\ vessel \in Tokens
  BY <1>2, InVessel
<1>4. tok[vessel] \in Contents /\ tok[vessel].kids \in Seq(Tokens)
  <2>1. tok[vessel] \in Contents
    BY <1>3 DEF IInv, TypeOK
  <2> QED BY <2>1 DEF Contents
<1>5. CASE k = "object"
  <2>1. PICK s \in SortedByName(tok[vessel].kids) : tok' = [tok EXCEPT ![vessel].kids = s]
    BY <1>2, <1>5
  <2>2. s \in Seq(Tokens) /\ ToSet(s) = ToSet(tok[vessel].kids)
    BY <1>4, SortedType
  <2> QED BY <1>2, <1>3, <2>1, <2>2 DEF ClosedUp
<1>6. CASE k # "object"
  <2>1. tok' = [tok EXCEPT ![vessel].kids = tok[vessel].kids]
    BY <1>2, <1>4, <1>6 DEF IInv, TypeOK, Contents
  <2> QED BY <1>2, <1>3, <1>4, <1>6, <2>1 DEF ClosedUp
<1> QED BY <1>5, <1>6

\* A string is kept apart, or hung when it is a whole value.
LEMMA StringInTree ==
    ASSUME IInv, NEW quote \in Quotes, NEW scan \in Scans, ReadString(quote, scan)
    PROVE  \/ Kept /\ Booked
           \/ \E t \in Tokens : Hung(t) /\ Spent(t)
<1> DEFINE new == VesselIs("array") \/ ~isTreatingValue
<1>1. code = "incomplete" /\ new \in BOOLEAN
  BY DEF ReadString, Reads, VesselIs, IInv, TypeOK
<1>2. CASE Fail("syntax")
  BY <1>2, KeptByError DEF Codes
<1>3. ASSUME isInInput, vessel # None PROVE new => value = None
  BY <1>1, <1>3, InVessel DEF IInv, ModeCoherent, TypeOK
<1>4. CASE isInInput /\ vessel # None /\ Missing(new) /\ FailWithoutToken("tokens")
  <2>1. value = None
    BY <1>3, <1>4 DEF Missing
  <2> QED BY <1>4, <2>1, KeptByError DEF Codes
<1>5. ASSUME isInInput, vessel # None, NEW t \in Tokens,
             \/ FailHolding(new, t)
             \/ Suspend(quote, new, t)
             \/ ~isTreatingValue /\ TakeName(t)
      PROVE  Kept /\ Booked
  <2>1. value = None \/ (~new /\ ~(~isTreatingValue /\ TakeName(t)))
    BY <1>3, <1>5
  <2>2. CASE value = None
    BY <1>1, <1>5, <2>2, KeptByOutcome
  <2>3. CASE ~new
    <3>1. FailHolding(new, t) \/ Suspend(quote, new, t)
      BY <1>5, <2>3
    <3>2. Kept
      BY <1>1, <3>1, KeptByOutcome
    <3>3. active' = active /\ value' = value
      BY <2>3, <3>1 DEF FailHolding, Suspend, Obtain, pool
    <3> QED BY <3>2, <3>3 DEF Booked
  <2> QED BY <2>1, <2>2, <2>3
<1>6. ASSUME isInInput, vessel # None, NEW t \in Tokens, isTreatingValue, TakeValue(new, t)
      PROVE  Hung(t) /\ Spent(t)
  <2>1. VesselIs("object") => ~new
    BY <1>1, <1>6, InVessel
  <2> QED BY <1>1, <1>3, <1>6, <2>1, HungByValue
<1> QED BY <1>2, <1>4, <1>5, <1>6 DEF ReadString

\* So is a scalar; a bare name of JSON5 is kept apart.
LEMMA WordInTree ==
    ASSUME IInv, NEW class \in Words, NEW scan \in Scans, ReadWord(class, scan)
    PROVE  \/ Kept /\ (~IsEcma5 => Booked)
           \/ \E t \in Tokens : Hung(t) /\ Spent(t)
<1>1. code = "incomplete" /\ VesselIs("array") \in BOOLEAN
  BY DEF ReadWord, Reads, VesselIs
<1>2. CASE Fail("syntax")
  BY <1>2, KeptByError DEF Codes
<1>3. CASE AsValue(class) /\ ReadScalar(class, scan)
  <2> DEFINE new == VesselIs("array")
  <2>1. vessel # None /\ (new => value = None) /\ (VesselIs("object") => ~new)
    BY <1>1, <1>3, InVessel DEF AsValue
  <2>2. CASE Missing(new) /\ FailWithoutToken("tokens")
    <3>1. value = None
      BY <2>1, <2>2 DEF Missing
    <3> QED BY <2>2, <3>1, KeptByError DEF Codes
  <2>3. ASSUME NEW t \in Tokens, FailHolding(new, t) \/ Suspend(class, new, t)
        PROVE  Kept /\ Booked
    <3>1. Kept
      BY <1>1, <2>3, KeptByOutcome
    <3>2. CASE new
      BY <1>1, <2>1, <2>3, <3>2, KeptByOutcome
    <3>3. CASE ~new
      <4>1. active' = active /\ value' = value
        BY <2>3, <3>3 DEF FailHolding, Suspend, Obtain, pool
      <4> QED BY <3>1, <4>1 DEF Booked
    <3> QED BY <3>2, <3>3
  <2>4. ASSUME NEW t \in Tokens, TakeValue(new, t) PROVE Hung(t) /\ Spent(t)
    BY <1>1, <2>1, <2>4, HungByValue
  <2> QED BY <1>3, <2>2, <2>3, <2>4 DEF ReadScalar
<1>4. CASE AsIdent(class) /\ ReadIdent(class, scan)
  <2>1. IsEcma5
    BY <1>4 DEF AsIdent
  <2>2. CASE Fail("syntax") \/ FailWithoutToken("tokens")
    BY <2>1, <2>2 DEF Fail, FailWithoutToken, Kept, cursors
  <2>3. ASSUME NEW t \in Tokens,
               FailHolding(TRUE, t) \/ Suspend(class, TRUE, t) \/ TakeName(t)
        PROVE  Kept
    BY <2>3, KeptByOutcome
  <2> QED BY <1>4, <2>1, <2>2, <2>3 DEF ReadIdent
<1> QED BY <1>2, <1>3, <1>4 DEF ReadWord

\* Every step does one of these to the tree.
LEMMA TreeStep ==
    ASSUME IInv, [Next]_vars
    PROVE  \/ Kept /\ (~IsEcma5 => Booked)
           \/ \E t \in Tokens : (Hung(t) \/ Planted(t)) /\ Spent(t)
           \/ ClosedUp /\ value = None /\ value' = None /\ active' = active
           \/ Emptied /\ value' = None /\ active' = {}
<1>1. ASSUME NEW k \in {"object", "array"}, ReadOpen(k)
      PROVE  \/ Kept /\ Booked
             \/ \E t \in Tokens : (Hung(t) \/ Planted(t)) /\ Spent(t)
  BY <1>1, OpenedByBracket
<1>2. ASSUME NEW k \in {"object", "array"}, ReadClose(k)
      PROVE  \/ Kept /\ Booked
             \/ ClosedUp /\ value = None /\ value' = None /\ active' = active
  <2>1. CASE Fail("syntax")
    BY <2>1, KeptByError DEF Codes
  <2> QED BY <1>2, <2>1, ClosedByBracket
<1>3. ASSUME NEW scan \in Scans, ReadColon \/ ReadComma \/ ReadComment(scan)
      PROVE  Kept /\ Booked
  <2>1. UNCHANGED <<pool, tok, cursors>>
    BY <1>3 DEF ReadColon, ReadComma, ReadComment, Fail
  <2> QED BY <2>1 DEF Kept, Booked, pool, cursors
<1>4. ASSUME NEW s \in Supersets \cup {"none"}, ResetAsSuperset(s)
      PROVE  Emptied /\ value' = None /\ active' = {}
  BY <1>4 DEF ResetAsSuperset, Emptied
<1>5. CASE UNCHANGED vars
  BY <1>5 DEF vars, Kept, Booked
<1>6. Scans # {}
  BY DEF Scans
<1> QED BY <1>1, <1>2, <1>3, <1>4, <1>5, <1>6, StringInTree, WordInTree DEF Next

-----------------------------------------------------------------------------
(* The order of the members.  A closed object can only be looked at through *)
(* the tree, so the invariant speaks of the tree: what is closed is sorted, *)
(* and what is under an object has a name to sort it by.                    *)

\* Each member of an object has a name to sort it by.
MembersNamed ==
    \A u \in Reachable : tok[u].kind = "object" =>
        \A i \in DOMAIN tok[u].kids : tok[tok[u].kids[i]].name \in Names

SortInv ==
    /\ IInv
    /\ RootIsVessel
    /\ OpenInTree
    /\ MembersNamed
    /\ ClosedObjectsSorted

\* A token's members lie in the tree with it.
LEMMA KidsInTree ==
    ASSUME IInv, NEW u \in Reachable, NEW i \in DOMAIN tok[u].kids
    PROVE  tok[u].kids[i] \in Reachable /\ tok[u].kids[i] \in active
<1>1. TypeOK /\ LeastDown
  BY ReachableIsLeast DEF LeastDown, IInv
<1>2. tok[u].kids[i] \in Reachable
  BY <1>1 DEF LeastDown, DownClosed, ToSet
<1> QED BY <1>2, InActive

\* Steps that leave the tree alone leave its order alone.
LEMMA SortedByKept ==
    ASSUME SortInv, TypeOK', Kept
    PROVE  RootIsVessel' /\ OpenInTree' /\ MembersNamed' /\ ClosedObjectsSorted'
<1>1. Reachable' = Reachable /\ OpenPath' = OpenPath
  BY KeptTree DEF SortInv
<1>2. Reachable \subseteq active /\ TypeOK /\ LeastDown
  BY InActive, ReachableIsLeast DEF SortInv, LeastDown, IInv
<1>3. \A u \in Reachable : /\ tok'[u] = tok[u]
                           /\ \A i \in DOMAIN tok[u].kids : tok'[tok[u].kids[i]] = tok[tok[u].kids[i]]
  BY <1>2, KidsInTree DEF Kept, SortInv
<1>4. RootIsVessel'
  BY <1>2, <1>3 DEF SortInv, RootIsVessel, Kept, LeastDown, DownClosed
<1>5. OpenInTree'
  BY <1>1 DEF SortInv, OpenInTree
<1>6. MembersNamed'
  BY <1>1, <1>3 DEF SortInv, MembersNamed
<1>7. ClosedObjectsSorted'
  BY <1>1, <1>3 DEF SortInv, ClosedObjectsSorted
<1> QED BY <1>4, <1>5, <1>6, <1>7

\* A token that is hung joins an open vessel, whose order is not yet due.
LEMMA SortedByHung ==
    ASSUME SortInv, TypeOK', NEW t \in Tokens, Hung(t)
    PROVE  RootIsVessel' /\ OpenInTree' /\ MembersNamed' /\ ClosedObjectsSorted'
<1>1. /\ t \notin Reachable /\ t # vessel /\ vessel \in Reachable
      /\ Reachable' = Reachable \cup {t}
      /\ OpenPath' = OpenPath \cup {vessel'}
  BY HungTree DEF SortInv
<1>2. TypeOK /\ LeastDown /\ LeastUp /\ vessel \in Tokens /\ vessel # None /\ vessel \in OpenPath
  <2>1. TypeOK /\ LeastDown /\ LeastUp
    BY ReachableIsLeast, OpenPathIsLeast DEF SortInv, LeastDown, LeastUp, IInv
  <2>2. vessel \in Tokens /\ vessel # None
    BY <1>1, <2>1, PoolAssumption DEF LeastDown, Tokens
  <2> QED BY <2>1, <2>2 DEF LeastUp, UpClosed
<1>3. /\ \A u \in Tokens \ {t, vessel} : tok'[u] = tok[u]
      /\ tok'[vessel].kind = tok[vessel].kind /\ tok'[vessel].name = tok[vessel].name
      /\ tok'[vessel].kids = Append(tok[vessel].kids, t)
      /\ tok[vessel].kids \in Seq(Tokens)
  <2>1. tok[vessel] \in Contents
    BY <1>2 DEF TypeOK
  <2>2. tok'[vessel] = [tok[vessel] EXCEPT !.kids = Append(@, t)]
    BY DEF Hung
  <2> QED BY <2>1, <2>2 DEF Hung, Contents
<1>4. \A u \in Reachable : tok'[u].name = tok[u].name /\ tok'[u].kind = tok[u].kind
  BY <1>1, <1>2, <1>3 DEF LeastDown
<1>5. \A u \in Reachable \ {vessel} : tok'[u].kids = tok[u].kids
  BY <1>1, <1>2, <1>3 DEF LeastDown
<1>6. RootIsVessel'
  BY <1>2, <1>4 DEF SortInv, RootIsVessel, Hung, LeastDown, DownClosed
<1>7. OpenInTree'
  BY <1>1 DEF SortInv, OpenInTree, Hung
<1>8. MembersNamed'
  <2>1. ASSUME NEW u \in Reachable', tok'[u].kind = "object", NEW i \in DOMAIN tok'[u].kids
        PROVE  tok'[tok'[u].kids[i]].name \in Names
    <3>1. CASE u = t
      BY <2>1, <3>1 DEF Hung
    <3>2. CASE u \in Reachable \ {vessel}
      <4>1. tok'[u].kids = tok[u].kids /\ tok[u].kind = "object" /\ i \in DOMAIN tok[u].kids
        BY <1>4, <1>5, <2>1, <3>2
      <4>2. tok[u].kids[i] \in Reachable /\ tok[tok[u].kids[i]].name \in Names
        BY <3>2, <4>1, KidsInTree DEF SortInv, MembersNamed
      <4> QED BY <1>4, <4>1, <4>2
    <3>3. CASE u = vessel
      <4>1. tok[vessel].kind = "object" /\ tok'[t].name \in Names
        BY <1>3, <2>1, <3>3 DEF Hung
      <4> DEFINE kids == tok[vessel].kids
      <4>2. kids \in Seq(Tokens) /\ tok'[u].kids = Append(kids, t)
        BY <1>3, <3>3
      <4>3. i \in DOMAIN Append(kids, t)
        BY <2>1, <4>2
      <4>4. CASE i \in DOMAIN kids
        <5>1. kids[i] \in Reachable /\ tok[kids[i]].name \in Names
          BY <1>1, <4>1, <4>4, KidsInTree DEF SortInv, MembersNamed
        <5> HIDE DEF kids
        <5>2. tok'[u].kids[i] = kids[i]
          BY <4>2, <4>4
        <5> QED BY <1>4, <5>1, <5>2
      <4>5. CASE i \notin DOMAIN kids
        <5> HIDE DEF kids
        <5>1. tok'[u].kids[i] = t
          BY <4>2, <4>3, <4>5
        <5> QED BY <4>1, <5>1
      <4> QED BY <4>4, <4>5
    <3> QED BY <1>1, <3>1, <3>2, <3>3
  <2> QED BY <2>1 DEF MembersNamed
<1>9. ClosedObjectsSorted'
  <2>1. ASSUME NEW u \in Reachable' \ OpenPath', tok'[u].kind = "object",
               NEW i \in DOMAIN tok'[u].kids, NEW j \in DOMAIN tok'[u].kids, i < j
        PROVE  tok'[tok'[u].kids[i]].name <= tok'[tok'[u].kids[j]].name
    <3>1. u # t
      BY <1>1, <2>1 DEF Hung
    <3>2. u \in Reachable \ OpenPath /\ u # vessel
      BY <1>1, <1>2, <2>1, <3>1
    <3>3. tok'[u].kids = tok[u].kids /\ tok[u].kind = "object"
      BY <1>4, <1>5, <2>1, <3>2
    <3>4. tok[tok[u].kids[i]].name <= tok[tok[u].kids[j]].name
      BY <2>1, <3>2, <3>3 DEF SortInv, ClosedObjectsSorted
    <3>5. tok[u].kids[i] \in Reachable /\ tok[u].kids[j] \in Reachable
      BY <2>1, <3>2, <3>3, KidsInTree DEF SortInv
    <3> QED BY <1>4, <3>3, <3>4, <3>5
  <2> QED BY <2>1 DEF ClosedObjectsSorted
<1> QED BY <1>6, <1>7, <1>8, <1>9

\* A new root is alone and open.
LEMMA SortedByPlanted ==
    ASSUME TypeOK', NEW t \in Tokens, Planted(t)
    PROVE  RootIsVessel' /\ OpenInTree' /\ MembersNamed' /\ ClosedObjectsSorted'
<1>1. Reachable' = {t} /\ OpenPath' = {t}
  BY PlantedTree
<1>2. RootIsVessel' /\ OpenInTree' /\ MembersNamed'
  BY <1>1 DEF Planted, RootIsVessel, OpenInTree, MembersNamed
<1>3. ClosedObjectsSorted'
  BY <1>1 DEF ClosedObjectsSorted
<1> QED BY <1>2, <1>3

\* A vessel that is closed has just been sorted.
LEMMA SortedByClosed ==
    ASSUME SortInv, TypeOK', ClosedUp
    PROVE  RootIsVessel' /\ OpenInTree' /\ MembersNamed' /\ ClosedObjectsSorted'
<1>1. /\ Reachable' = Reachable
      /\ OpenPath' \subseteq OpenPath /\ OpenPath \subseteq OpenPath' \cup {vessel}
      /\ \A u \in Tokens : /\ tok'[u].name = tok[u].name /\ tok'[u].kind = tok[u].kind
                           /\ ToSet(tok'[u].kids) = ToSet(tok[u].kids)
  BY ClosedTree DEF SortInv
<1>2. TypeOK /\ LeastDown /\ LeastUp /\ vessel \in Tokens /\ vessel # None /\ vessel \in OpenPath
  <2>1. TypeOK /\ LeastDown /\ LeastUp
    BY ReachableIsLeast, OpenPathIsLeast DEF SortInv, LeastDown, LeastUp, IInv
  <2>2. vessel \in Tokens /\ vessel # None
    BY <2>1, PoolAssumption DEF ClosedUp, TypeOK, Tokens
  <2> QED BY <2>1, <2>2 DEF LeastUp, UpClosed
<1>3. PICK s \in Seq(Tokens) :
          /\ ToSet(s) = ToSet(tok[vessel].kids)
          /\ tok' = [tok EXCEPT ![vessel].kids = s]
          /\ tok[vessel].kind = "object" => s \in SortedByName(tok[vessel].kids)
  BY DEF ClosedUp
<1>4. tok'[vessel].kids = s /\ \A u \in Tokens \ {vessel} : tok'[u].kids = tok[u].kids
  BY <1>2, <1>3 DEF TypeOK, Contents
<1>5. RootIsVessel' /\ OpenInTree'
  BY <1>1, <1>2 DEF SortInv, RootIsVessel, OpenInTree, ClosedUp, LeastDown, DownClosed
<1>6. \A u \in Reachable : tok[u].kind = "object" =>
          \A m \in ToSet(tok[u].kids) : m \in Tokens /\ tok[m].name \in Names
  BY <1>2, KidsInTree DEF SortInv, MembersNamed, ToSet, LeastDown
<1>7. MembersNamed'
  <2>1. ASSUME NEW u \in Reachable', tok'[u].kind = "object", NEW i \in DOMAIN tok'[u].kids
        PROVE  tok'[tok'[u].kids[i]].name \in Names
    <3>1. u \in Reachable /\ u \in Tokens /\ tok[u].kind = "object"
      BY <1>1, <1>2, <2>1 DEF LeastDown
    <3>2. tok'[u].kids[i] \in ToSet(tok[u].kids)
      BY <1>1, <2>1, <3>1 DEF ToSet
    <3> QED BY <1>1, <1>6, <3>1, <3>2
  <2> QED BY <2>1 DEF MembersNamed
<1>8. ClosedObjectsSorted'
  <2>1. ASSUME NEW u \in Reachable' \ OpenPath', tok'[u].kind = "object",
               NEW i \in DOMAIN tok'[u].kids, NEW j \in DOMAIN tok'[u].kids, i < j
        PROVE  tok'[tok'[u].kids[i]].name <= tok'[tok'[u].kids[j]].name
    <3>1. u \in Reachable /\ u \in Tokens /\ tok[u].kind = "object"
      BY <1>1, <1>2, <2>1 DEF LeastDown
    <3>2. CASE u # vessel
      <4>1. u \in Reachable \ OpenPath /\ tok'[u].kids = tok[u].kids
        BY <1>1, <1>4, <2>1, <3>1, <3>2
      <4>2. tok[tok[u].kids[i]].name <= tok[tok[u].kids[j]].name
        BY <2>1, <3>1, <4>1 DEF SortInv, ClosedObjectsSorted
      <4>3. tok[u].kids[i] \in Tokens /\ tok[u].kids[j] \in Tokens
        BY <1>2, <2>1, <4>1, KidsInTree DEF SortInv, LeastDown
      <4> QED BY <1>1, <4>1, <4>2, <4>3
    <3>3. CASE u = vessel
      <4> DEFINE kids == tok[vessel].kids
      <4>1. s \in SortedByName(kids) /\ tok'[u].kids = s
        BY <1>3, <1>4, <3>1, <3>3
      <4>2. PICK p \in Bijection(DOMAIN kids, DOMAIN kids) :
                /\ s = [x \in DOMAIN kids |-> kids[p[x]]]
                /\ \A x, y \in DOMAIN kids : x < y =>
                      \/ tok[kids[p[x]]].name < tok[kids[p[y]]].name
                      \/ tok[kids[p[x]]].name = tok[kids[p[y]]].name /\ p[x] < p[y]
        BY <4>1 DEF SortedByName
      <4>3. i \in DOMAIN kids /\ j \in DOMAIN kids /\ s[i] = kids[p[i]] /\ s[j] = kids[p[j]]
        BY <2>1, <4>1, <4>2
      <4>4. s[i] \in ToSet(kids) /\ s[j] \in ToSet(kids)
        BY <1>3, <2>1, <4>1 DEF ToSet
      <4>5. /\ tok[s[i]].name \in Nat /\ tok[s[j]].name \in Nat
            /\ tok'[s[i]].name = tok[s[i]].name /\ tok'[s[j]].name = tok[s[j]].name
        BY <1>1, <1>6, <3>1, <3>3, <4>4, NameAssumption
      <4>6. tok[s[i]].name < tok[s[j]].name \/ tok[s[i]].name = tok[s[j]].name
        BY <2>1, <4>2, <4>3
      <4> QED BY <4>1, <4>5, <4>6
    <3> QED BY <3>2, <3>3
  <2> QED BY <2>1 DEF ClosedObjectsSorted
<1> QED BY <1>5, <1>7, <1>8

\* Every step keeps the order.
LEMMA SortStep == SortInv /\ [Next]_vars => SortInv'
<1> SUFFICES ASSUME SortInv, [Next]_vars PROVE SortInv'
  OBVIOUS
<1>1. IInv' /\ TypeOK'
  BY InvStep, TypeStep DEF SortInv, IInv
<1>2. CASE Kept
  BY <1>1, <1>2, SortedByKept DEF SortInv
<1>3. CASE \E t \in Tokens : Hung(t) \/ Planted(t)
  BY <1>1, <1>3, SortedByHung, SortedByPlanted DEF SortInv
<1>4. CASE ClosedUp
  BY <1>1, <1>4, SortedByClosed DEF SortInv
<1>5. CASE Emptied
  <2>1. Reachable' = {} /\ OpenPath' = {}
    BY <1>1, <1>5, EmptiedTree
  <2>2. RootIsVessel' /\ OpenInTree' /\ MembersNamed' /\ ClosedObjectsSorted'
    BY <1>5, <2>1 DEF Emptied, RootIsVessel, OpenInTree, MembersNamed, ClosedObjectsSorted
  <2> QED BY <1>1, <2>2 DEF SortInv
<1> QED BY <1>2, <1>3, <1>4, <1>5, TreeStep DEF SortInv

\* Nothing is in the tree before the first lexeme.
LEMMA SortInit == Init => SortInv
<1> SUFFICES ASSUME Init PROVE SortInv
  OBVIOUS
<1>1. IInv
  BY InitInvariant
<1>2. LeastDown /\ LeastUp
  BY <1>1, ReachableIsLeast, OpenPathIsLeast DEF LeastDown, LeastUp, IInv
<1>3. Reachable = {} /\ OpenPath = {}
  BY <1>2 DEF LeastDown, LeastUp, Init, DownClosed, UpClosed
<1> QED BY <1>1, <1>3 DEF Init, SortInv, RootIsVessel, OpenInTree, MembersNamed,
                         ClosedObjectsSorted

\* Whatever the documents, cuts, errors and resets, in every dialect: an object
\* that is closed has its members in name order, and keeps them so.
THEOREM ObjectsAreSorted == Spec => []ClosedObjectsSorted
<1>1. Spec => []SortInv
  BY SortInit, SortStep, PTL DEF Spec
<1> QED BY <1>1, PTL DEF SortInv

-----------------------------------------------------------------------------
(* The accounts of the pool.  JSON5's bare names are left out: a bare name  *)
(* right after another one takes a second token, and the first is lost to   *)
(* the document.                                                            *)

\* Order and accounts together.
WholeInv == SortInv /\ NoOrphan

\* Every step keeps the accounts: what it takes, it hangs, plants or holds.
LEMMA WholeStep ==
    ASSUME "json5" \notin Supersets, WholeInv, [Next]_vars
    PROVE  WholeInv'
<1>1. SortInv' /\ TypeOK' /\ ~IsEcma5
  BY SortStep, TypeStep DEF WholeInv, SortInv, IInv, TypeOK, IsEcma5
<1>2. None \notin Tokens /\ IInv /\ TypeOK /\ LeastDown
  BY ReachableIsLeast, PoolAssumption DEF WholeInv, SortInv, IInv, LeastDown, Tokens
<1>3. active = Reachable \cup ({value} \ {None})
  BY DEF WholeInv, NoOrphan
<1>4. CASE Kept /\ Booked
  <2>1. Reachable' = Reachable
    BY <1>1, <1>2, <1>4, KeptTree
  <2>2. CASE active' = active /\ value' = value
    BY <1>1, <1>3, <2>1, <2>2 DEF NoOrphan, WholeInv
  <2>3. CASE value = None /\ value' \in Tokens /\ active' = active \cup {value'}
    BY <1>1, <1>2, <1>3, <2>1, <2>3 DEF NoOrphan, WholeInv
  <2> QED BY <1>1, <1>4, <2>2, <2>3 DEF WholeInv, Booked
<1>5. ASSUME NEW t \in Tokens, Hung(t), Spent(t) PROVE WholeInv'
  <2>1. Reachable' = Reachable \cup {t}
    BY <1>1, <1>5, HungTree DEF WholeInv, SortInv
  <2>2. NoOrphan'
    BY <1>2, <1>3, <1>5, <2>1 DEF NoOrphan, Spent
  <2> QED BY <1>1, <2>2 DEF WholeInv
<1>6. ASSUME NEW t \in Tokens, Planted(t), Spent(t) PROVE WholeInv'
  <2>1. Reachable' = {t}
    BY <1>1, <1>6, PlantedTree
  <2>2. Reachable = {}
    BY <1>2, <1>6 DEF Planted, LeastDown, DownClosed
  <2>3. NoOrphan'
    BY <1>2, <1>3, <1>6, <2>1, <2>2 DEF NoOrphan, Spent
  <2> QED BY <1>1, <2>3 DEF WholeInv
<1>7. CASE ClosedUp /\ value = None /\ value' = None /\ active' = active
  <2>1. Reachable' = Reachable
    BY <1>1, <1>2, <1>7, ClosedTree
  <2>2. NoOrphan'
    BY <1>3, <1>7, <2>1 DEF NoOrphan
  <2> QED BY <1>1, <2>2 DEF WholeInv
<1>8. CASE Emptied /\ value' = None /\ active' = {}
  <2>1. Reachable' = {}
    BY <1>1, <1>8, EmptiedTree
  <2>2. NoOrphan'
    BY <1>8, <2>1 DEF NoOrphan
  <2> QED BY <1>1, <2>2 DEF WholeInv
<1> QED BY <1>1, <1>2, <1>4, <1>5, <1>6, <1>7, <1>8, TreeStep

LEMMA WholeInit == Init => WholeInv
<1> SUFFICES ASSUME Init PROVE WholeInv
  OBVIOUS
<1>1. SortInv /\ TypeOK
  BY SortInit DEF SortInv, IInv
<1>2. Reachable = {}
  BY <1>1, ReachableIsLeast DEF Init, DownClosed
<1> QED BY <1>1, <1>2 DEF WholeInv, NoOrphan, Init

\* Without JSON5's bare names no lexeme takes a token that the document then
\* does not use: each active token is in the tree, or is the one being filled.
THEOREM NoTokenWasted ==
    ASSUME "json5" \notin Supersets
    PROVE  Spec => []NoOrphan
<1>1. WholeInv /\ [Next]_vars => WholeInv'
  BY WholeStep
<1>2. WholeInv => NoOrphan
  BY DEF WholeInv
<1> QED BY <1>1, <1>2, WholeInit, PTL DEF Spec

-----------------------------------------------------------------------------
(* A document that is read to its end. *)

\* What "complete" says of the parser's pointers.
NothingOpen == code = "complete" => vessel = None /\ value = None /\ root # None

\* Only the bracket that closes the root makes a document complete.
LEMMA NothingOpenStep ==
    ASSUME IInv, NothingOpen, [Next]_vars
    PROVE  NothingOpen'
<1>1. ASSUME NEW c \in Codes \ {"complete"}, Fail(c) \/ FailWithoutToken(c)
      PROVE  NothingOpen'
  BY <1>1 DEF Fail, FailWithoutToken, Stop, NothingOpen
<1>2. ASSUME code = "incomplete", NEW class, NEW t \in Tokens, NEW new \in BOOLEAN,
             \/ FailHolding(new, t) \/ Suspend(class, new, t)
             \/ TakeValue(new, t) \/ TakeName(t)
      PROVE  NothingOpen'
  BY <1>2 DEF FailHolding, Stop, Suspend, TakeValue, TakeName, NothingOpen
<1>3. ASSUME NEW k \in {"object", "array"}, ReadOpen(k) PROVE NothingOpen'
  BY <1>1, <1>3 DEF ReadOpen, Reads, Codes, NothingOpen
<1>4. ASSUME NEW k \in {"object", "array"}, ReadClose(k) PROVE NothingOpen'
  <2>1. CASE Fail("syntax")
    BY <1>1, <2>1 DEF Codes
  <2>2. CASE ~Fail("syntax")
    BY <1>4, <2>2, InVessel DEF ReadClose, Reads, NothingOpen
  <2> QED BY <2>1, <2>2
<1>5. ASSUME NEW quote \in Quotes, NEW scan \in Scans, ReadString(quote, scan)
      PROVE  NothingOpen'
  <2> DEFINE new == VesselIs("array") \/ ~isTreatingValue
  <2>1. code = "incomplete" /\ new \in BOOLEAN
    BY <1>5 DEF ReadString, Reads, VesselIs, IInv, TypeOK
  <2> QED BY <1>1, <1>2, <1>5, <2>1 DEF ReadString, Codes
<1>6. ASSUME NEW class \in Words, NEW scan \in Scans, ReadWord(class, scan)
      PROVE  NothingOpen'
  <2>1. code = "incomplete" /\ VesselIs("array") \in BOOLEAN
    BY <1>6 DEF ReadWord, Reads, VesselIs
  <2>2. CASE ReadScalar(class, scan)
    BY <1>1, <1>2, <2>1, <2>2 DEF ReadScalar, Codes
  <2>3. CASE ReadIdent(class, scan)
    BY <1>1, <1>2, <2>1, <2>3 DEF ReadIdent, Codes
  <2> QED BY <1>1, <1>6, <2>2, <2>3 DEF ReadWord, Codes
<1>7. ASSUME NEW scan \in Scans, ReadColon \/ ReadComma \/ ReadComment(scan)
      PROVE  NothingOpen'
  BY <1>1, <1>7 DEF ReadColon, ReadComma, ReadComment, Reads, NothingOpen, Codes
<1>8. ASSUME NEW s \in Supersets \cup {"none"}, ResetAsSuperset(s) PROVE NothingOpen'
  BY <1>8 DEF ResetAsSuperset, NothingOpen
<1>9. CASE UNCHANGED vars
  BY <1>9 DEF vars, NothingOpen
<1>10. Scans # {}
  BY DEF Scans
<1> QED BY <1>3, <1>4, <1>5, <1>6, <1>7, <1>8, <1>9, <1>10 DEF Next

\* Without JSON5's bare names, "complete" means that every bracket is closed,
\* nothing is half read, and the tree has every token in use.
THEOREM CompleteMeansWhole ==
    ASSUME "json5" \notin Supersets
    PROVE  Spec => []CompleteIsWhole
<1>1. Init => NothingOpen
  BY DEF Init, NothingOpen
<1>2. Spec => []NothingOpen
  BY <1>1, NothingOpenStep, Invariant, PTL DEF Spec
<1>3. NoOrphan /\ NothingOpen => CompleteIsWhole
  BY DEF NoOrphan, NothingOpen, CompleteIsWhole
<1> QED BY <1>2, <1>3, NoTokenWasted, PTL

-----------------------------------------------------------------------------
(* A lexeme that the buffer cuts. *)

\* Without JSON5's bare names a cut lexeme leaves no trace: the next call reads
\* it again in the modes, the pool and the tree that it was cut in.
THEOREM CutsDoNotShow ==
    ASSUME "json5" \notin Supersets
    PROVE  Spec => CutIsInvisible
<1> DEFINE NoTrace == cut' # None =>
                        /\ UNCHANGED <<mode, pool, root, vessel, value, code>>
                        /\ \A t \in active : tok'[t] = tok[t]
<1>1. ASSUME IInv, Next PROVE NoTrace
  <2> USE <1>1
  <2>1. ~IsEcma5 /\ TypeOK
    BY DEF IInv, TypeOK, IsEcma5
  <2>2. ASSUME NEW c, Fail(c) \/ FailWithoutToken(c) PROVE NoTrace
    BY <2>2 DEF Fail, FailWithoutToken, Stop
  <2>3. ASSUME NEW t \in Tokens, NEW new \in BOOLEAN, NEW class,
               FailHolding(new, t) \/ TakeValue(new, t) \/ TakeName(t)
        PROVE  NoTrace
    BY <2>3 DEF FailHolding, TakeValue, TakeName, Stop
  <2>4. ASSUME NEW t \in Tokens, NEW new \in BOOLEAN, NEW class,
               Suspend(class, new, t), new => value = None
        PROVE  NoTrace
    <3>1. Kept
      BY <2>4, KeptByOutcome
    <3>2. UNCHANGED <<mode, pool, root, vessel, value, code>>
      BY <2>4 DEF Suspend, TakeAndReturn
    <3> QED BY <3>1, <3>2 DEF Kept
  <2>5. ASSUME NEW k \in {"object", "array"}, ReadOpen(k) \/ ReadClose(k) PROVE NoTrace
    BY <2>2, <2>5 DEF ReadOpen, ReadClose, Reads
  <2>6. ASSUME NEW quote \in Quotes, NEW scan \in Scans, ReadString(quote, scan)
        PROVE  NoTrace
    <3> DEFINE new == VesselIs("array") \/ ~isTreatingValue
    <3>1. code = "incomplete" /\ new \in BOOLEAN
      BY <2>1, <2>6 DEF ReadString, Reads, VesselIs, TypeOK
    <3>2. isInInput /\ vessel # None => (new => value = None)
      BY <2>1, <3>1, InVessel DEF IInv, ModeCoherent, TypeOK
    <3> HIDE DEF NoTrace
    <3> QED BY <2>2, <2>3, <2>4, <2>6, <3>1, <3>2 DEF ReadString
  <2>7. ASSUME NEW class \in Words, NEW scan \in Scans, ReadWord(class, scan)
        PROVE  NoTrace
    <3>1. code = "incomplete" /\ VesselIs("array") \in BOOLEAN /\ ~AsIdent(class)
      BY <2>1, <2>7 DEF ReadWord, Reads, VesselIs, AsIdent
    <3>2. AsValue(class) => (VesselIs("array") => value = None)
      BY <3>1, InVessel DEF AsValue
    <3> HIDE DEF NoTrace
    <3> QED BY <2>2, <2>3, <2>4, <2>7, <3>1, <3>2 DEF ReadWord, ReadScalar
  <2>8. ASSUME NEW scan \in Scans, ReadColon \/ ReadComma \/ ReadComment(scan)
        PROVE  NoTrace
    <3>1. CASE Fail("syntax")
      BY <2>2, <3>1
    <3>2. CASE ~Fail("syntax")
      BY <2>8, <3>2 DEF ReadColon, ReadComma, ReadComment, Reads, cursors
    <3> QED BY <3>1, <3>2
  <2>9. ASSUME NEW s \in Supersets \cup {"none"}, ResetAsSuperset(s) PROVE NoTrace
    BY <2>9 DEF ResetAsSuperset
  <2> HIDE DEF NoTrace
  <2>10. Scans # {}
    BY DEF Scans
  <2> QED BY <2>5, <2>6, <2>7, <2>8, <2>9, <2>10 DEF Next
<1>2. IInv /\ [Next]_vars => [NoTrace]_vars
  BY <1>1
<1> QED BY <1>2, Invariant, PTL DEF Spec, CutIsInvisible

-----------------------------------------------------------------------------
(* The way from the root to the vessel.  That one exists is an invariant:   *)
(* the parent pointers alone do not tell that they end at the root.         *)

IsPath(p) ==
    /\ p \in Seq(Tokens) /\ IsInjective(p) /\ ToSet(p) = OpenPath
    /\ vessel = IF p = <<>> THEN None ELSE p[Len(p)]
    /\ \A i \in DOMAIN p : tok[p[i]].parent = IF i = 1 THEN None ELSE p[i - 1]

\* The kinds along p.
KindsAlong(p) == [i \in DOMAIN p |-> tok[p[i]].kind]

\* The parents up from the vessel are that way, read backwards.
LEMMA PathUpIsPath ==
    ASSUME TypeOK, NEW p, IsPath(p)
    PROVE  OpenKinds = KindsAlong(p)
<1>1. PICK n \in Nat : /\ n = Len(p) /\ DOMAIN p = 1 .. n
                       /\ \A i \in 1 .. n : p[i] \in Tokens
  BY DEF IsPath
<1>2. Cardinality(OpenPath) = n
  <2>1. p \in [1 .. n -> OpenPath] /\ \A t \in OpenPath : \E i \in 1 .. n : p[i] = t
    BY <1>1 DEF IsPath, ToSet
  <2>2. p \in Bijection(1 .. n, OpenPath)
    BY <1>1, <2>1 DEF IsPath, Bijection, Injection, Surjection, IsInjective
  <2>3. ExistsBijection(1 .. n, OpenPath)
    BY <2>2 DEF ExistsBijection
  <2> QED BY <1>1, <2>3, FS_CountingElements
<1> DEFINE Up(f) == f = [i \in 1 .. n |-> IF i = n THEN vessel ELSE tok[f[i + 1]].parent]
<1>3. Up(p)
  <2>1. p = [i \in 1 .. n |-> p[i]]
    BY <1>1 DEF IsPath
  <2>2. ASSUME NEW i \in 1 .. n
        PROVE  p[i] = IF i = n THEN vessel ELSE tok[p[i + 1]].parent
    <3>1. CASE i = n
      BY <1>1, <3>1 DEF IsPath
    <3>2. CASE i # n
      <4>1. i + 1 \in 1 .. n /\ i + 1 # 1 /\ (i + 1) - 1 = i
        BY <1>1, <3>2
      <4> QED BY <1>1, <3>2, <4>1 DEF IsPath
    <3> QED BY <3>1, <3>2
  <2> QED BY <1>1, <2>1, <2>2
<1>4. ASSUME NEW f, Up(f) PROVE \A i \in 1 .. n : f[i] = p[i]
  <2> DEFINE wrong == {m \in Nat : \E i \in 1 .. n : n - i = m /\ f[i] # p[i]}
  <2>1. ASSUME wrong # {} PROVE FALSE
    <3>1. PICK m \in wrong : \A k \in wrong : m <= k
      <4> HIDE DEF wrong
      <4>1. wrong \subseteq Nat
        BY DEF wrong
      <4> QED BY <2>1, <4>1, Least
    <3>2. PICK i \in 1 .. n : n - i = m /\ f[i] # p[i]
      OBVIOUS
    <3>3. i # n
      BY <1>1, <1>3, <1>4, <3>2
    <3>4. i + 1 \in 1 .. n /\ n - (i + 1) < m /\ n - (i + 1) \in Nat
      BY <1>1, <3>2, <3>3
    <3>5. f[i + 1] = p[i + 1]
      BY <1>1, <3>1, <3>2, <3>4
    <3>6. f[i] = tok[f[i + 1]].parent /\ p[i] = tok[p[i + 1]].parent
      BY <1>3, <1>4, <3>2, <3>3
    <3> QED BY <3>2, <3>5, <3>6
  <2>2. ASSUME NEW i \in 1 .. n, f[i] # p[i] PROVE FALSE
    <3>1. n - i \in wrong
      BY <1>1, <2>2
    <3> QED BY <2>1, <3>1
  <2> QED BY <2>2
<1>5. Up(PathUp)
  <2>1. PathUp = CHOOSE f : Up(f)
    BY <1>2 DEF PathUp
  <2> QED BY <1>3, <2>1
<1>6. \A i \in 1 .. n : PathUp[i] = p[i]
  <2> HIDE DEF Up
  <2> QED BY <1>4, <1>5
<1> QED BY <1>1, <1>2, <1>6 DEF OpenKinds, KindsAlong

PathInv == \E p : IsPath(p)

\* PathUpIsPath, of the state after a step.
LEMMA PathUpNext ==
    (TypeOK => \A p : IsPath(p) => OpenKinds = KindsAlong(p))'
<1>1. TypeOK => \A p : IsPath(p) => OpenKinds = KindsAlong(p)
  BY PathUpIsPath
<1> QED BY <1>1, PTL

\* What is innermost is the vessel.
LEMMA InnermostIsVessel ==
    ASSUME TypeOK, PathInv
    PROVE  /\ OpenKinds = <<>> <=> vessel = None
           /\ vessel # None => Last(OpenKinds) = tok[vessel].kind
           /\ OpenKinds \in Seq(Kinds)
<1>1. PICK p : IsPath(p)
  BY DEF PathInv
<1>2. OpenKinds = KindsAlong(p)
  BY <1>1, PathUpIsPath
<1>3. p \in Seq(Tokens) /\ None \notin Tokens
  BY <1>1, PoolAssumption DEF IsPath, Tokens
<1>4. /\ KindsAlong(p) \in Seq(Kinds) /\ Len(KindsAlong(p)) = Len(p)
      /\ \A i \in 1 .. Len(p) : KindsAlong(p)[i] = tok[p[i]].kind
  <2>1. \A i \in 1 .. Len(p) : tok[p[i]].kind \in Kinds
    BY <1>3 DEF TypeOK, Contents
  <2>2. DOMAIN p = 1 .. Len(p) /\ Len(p) \in Nat
    BY <1>3
  <2> QED BY <2>1, <2>2 DEF KindsAlong
<1>5. CASE p = <<>>
  <2>1. vessel = None /\ KindsAlong(p) = <<>>
    BY <1>1, <1>4, <1>5 DEF IsPath
  <2> QED BY <1>2, <1>4, <2>1
<1>6. CASE p # <<>>
  <2>1. Len(p) \in 1 .. Len(p) /\ vessel = p[Len(p)] /\ vessel \in Tokens
    BY <1>1, <1>3, <1>6 DEF IsPath
  <2>2. KindsAlong(p) # <<>> /\ Last(KindsAlong(p)) = tok[vessel].kind
    BY <1>4, <2>1 DEF Last
  <2> QED BY <1>2, <1>3, <1>4, <2>1, <2>2
<1> QED BY <1>5, <1>6

-----------------------------------------------------------------------------
(* The way after a step. *)

\* Steps that leave the tree alone.
LEMMA PathByKept ==
    ASSUME IInv, PathInv, TypeOK', Kept
    PROVE  PathInv' /\ OpenKinds' = OpenKinds
<1>1. TypeOK /\ OpenPath \subseteq active /\ OpenPath' = OpenPath
  BY KeptTree, InActive DEF IInv
<1>2. PICK p : IsPath(p)
  BY DEF PathInv
<1>3. \A i \in DOMAIN p : tok'[p[i]] = tok[p[i]]
  BY <1>1, <1>2 DEF IsPath, ToSet, Kept
<1>4. IsPath(p)'
  BY <1>1, <1>2, <1>3 DEF IsPath, Kept
<1>5. KindsAlong(p)' = KindsAlong(p)
  BY <1>3 DEF KindsAlong
<1> QED BY <1>1, <1>2, <1>4, <1>5, PathUpIsPath, PathUpNext DEF PathInv

\* A token is hung: the way goes on to it, when it is the new vessel.
LEMMA PathByHung ==
    ASSUME SortInv, PathInv, TypeOK', NEW t \in Tokens, Hung(t)
    PROVE  /\ PathInv'
           /\ vessel' # t => OpenKinds' = OpenKinds
           /\ vessel' = t => OpenKinds' = Append(OpenKinds, tok'[t].kind)
<1>1. /\ t \notin Reachable /\ t # vessel /\ vessel \in Reachable
      /\ OpenPath' = OpenPath \cup {vessel'}
  BY HungTree DEF SortInv
<1>2. TypeOK /\ LeastUp /\ OpenPath \subseteq Reachable /\ vessel \in Tokens /\ vessel # None
  <2>1. TypeOK /\ LeastUp /\ vessel \in active
    BY OpenPathIsLeast DEF SortInv, LeastUp, IInv, Hung
  <2> QED BY <2>1, PoolAssumption DEF SortInv, OpenInTree, TypeOK, Tokens
<1>3. PICK p : IsPath(p)
  BY DEF PathInv
<1>4. PICK n \in Nat : /\ n = Len(p) /\ DOMAIN p = 1 .. n /\ p \in Seq(Tokens)
                       /\ n > 0 /\ p[n] = vessel
                       /\ \A i \in 1 .. n : p[i] \in OpenPath /\ p[i] # t /\ p[i] \in Tokens
  <2>1. p \in Seq(Tokens) /\ p # <<>> /\ p[Len(p)] = vessel
    BY <1>2, <1>3 DEF IsPath
  <2>2. DOMAIN p = 1 .. Len(p) /\ Len(p) \in Nat /\ Len(p) > 0
    BY <2>1
  <2>3. \A i \in 1 .. Len(p) : p[i] \in OpenPath /\ p[i] # t /\ p[i] \in Tokens
    BY <1>1, <1>2, <1>3, <2>1, <2>2 DEF IsPath, ToSet
  <2> QED BY <2>1, <2>2, <2>3
<1>5. \A i \in 1 .. n : tok'[p[i]].parent = tok[p[i]].parent /\ tok'[p[i]].kind = tok[p[i]].kind
  <2>1. tok'[vessel].parent = tok[vessel].parent /\ tok'[vessel].kind = tok[vessel].kind
    <3>1. tok[vessel] \in Contents /\ tok'[vessel] = [tok[vessel] EXCEPT !.kids = Append(@, t)]
      BY <1>2 DEF TypeOK, Hung
    <3> QED BY <3>1 DEF Contents
  <2> QED BY <1>4, <2>1 DEF Hung
<1>6. CASE vessel' # t
  <2>1. vessel' = vessel /\ OpenPath' = OpenPath
    BY <1>1, <1>2, <1>6 DEF Hung, LeastUp, UpClosed
  <2>2. IsPath(p)'
    BY <1>3, <1>4, <1>5, <2>1 DEF IsPath
  <2>3. KindsAlong(p)' = KindsAlong(p)
    BY <1>4, <1>5 DEF KindsAlong
  <2> QED BY <1>2, <1>3, <1>6, <2>2, <2>3, PathUpIsPath, PathUpNext DEF PathInv
<1>7. CASE vessel' = t
  <2> DEFINE q == Append(p, t)
  <2>1. /\ q \in Seq(Tokens) /\ Len(q) = n + 1 /\ DOMAIN q = 1 .. n + 1 /\ q # <<>>
        /\ \A i \in 1 .. n : q[i] = p[i]
        /\ q[n + 1] = t
    BY <1>4
  <2>2. ToSet(q) = OpenPath'
    BY <1>1, <1>3, <1>4, <1>7, AppendSet DEF IsPath
  <2> HIDE DEF q
  <2>3. IsInjective(q)
    <3>1. \A i, j \in 1 .. n : p[i] = p[j] => i = j
      BY <1>3, <1>4 DEF IsPath, IsInjective
    <3> QED BY <1>4, <2>1, <3>1 DEF IsInjective
  <2>4. ASSUME NEW i \in 1 .. n + 1
        PROVE  tok'[q[i]].parent = IF i = 1 THEN None ELSE q[i - 1]
    <3>1. CASE i = n + 1
      <4>1. tok'[q[i]].parent = vessel /\ i # 1 /\ i - 1 = n /\ n \in 1 .. n
        BY <1>4, <2>1, <3>1 DEF Hung
      <4> QED BY <1>4, <2>1, <4>1
    <3>2. CASE i \in 1 .. n
      <4>1. tok'[q[i]].parent = IF i = 1 THEN None ELSE p[i - 1]
        BY <1>3, <1>4, <1>5, <2>1, <3>2 DEF IsPath
      <4>2. i # 1 => q[i - 1] = p[i - 1]
        BY <2>1, <3>2
      <4> QED BY <4>1, <4>2
    <3> QED BY <3>1, <3>2
  <2>5. IsPath(q)'
    BY <1>7, <2>1, <2>2, <2>3, <2>4 DEF IsPath
  <2>6. KindsAlong(q)' = Append(KindsAlong(p), tok'[t].kind)
    <3> DEFINE before == KindsAlong(p)
               after  == [i \in 1 .. n + 1 |-> tok'[q[i]].kind]
    <3>1. before = [i \in 1 .. n |-> tok[p[i]].kind]
      BY <1>4 DEF KindsAlong
    <3>2. before \in Seq(Kinds) /\ Len(before) = n
      <4>1. \A i \in 1 .. n : tok[p[i]].kind \in Kinds
        BY <1>2, <1>4 DEF TypeOK, Contents
      <4> QED BY <3>1, <4>1
    <3>3. tok'[t].kind \in Kinds
      BY DEF TypeOK, Contents
    <3>4. \A i \in 1 .. n : after[i] = before[i]
      BY <1>5, <2>1, <3>1
    <3>5. after[n + 1] = tok'[t].kind
      BY <2>1
    <3>6. KindsAlong(q)' = after
      BY <2>1 DEF KindsAlong
    <3>7. after \in Seq(Kinds) /\ Len(after) = n + 1
      BY <2>1 DEF TypeOK, Contents
    <3> HIDE DEF before, after
    <3>8. after = Append(before, tok'[t].kind)
      BY <3>2, <3>3, <3>4, <3>5, <3>7
    <3> QED BY <3>6, <3>8 DEF before
  <2> QED BY <1>2, <1>3, <1>7, <2>5, <2>6, PathUpIsPath, PathUpNext DEF PathInv
<1> QED BY <1>6, <1>7

\* The root is planted: the way is the root alone.
LEMMA PathByPlanted ==
    ASSUME TypeOK, PathInv, TypeOK', NEW t \in Tokens, Planted(t)
    PROVE  PathInv' /\ OpenKinds = <<>> /\ OpenKinds' = <<tok'[t].kind>>
<1>1. OpenPath' = {t}
  BY PlantedTree
<1>2. IsPath(<<t>>)'
  BY <1>1 DEF IsPath, IsInjective, ToSet, Planted
<1>3. KindsAlong(<<t>>)' = <<tok'[t].kind>>
  BY DEF KindsAlong
<1>4. OpenKinds = <<>>
  BY InnermostIsVessel DEF Planted
<1> QED BY <1>2, <1>3, <1>4, PathUpNext DEF PathInv

\* The vessel is closed: the way ends at its parent.
LEMMA PathByClosed ==
    ASSUME SortInv, PathInv, TypeOK', ClosedUp
    PROVE  /\ PathInv'
           /\ OpenKinds # <<>> /\ OpenKinds' = Front(OpenKinds)
           /\ Len(OpenKinds) = 1 <=> vessel' = None
<1>1. /\ OpenPath' \subseteq OpenPath /\ OpenPath \subseteq OpenPath' \cup {vessel}
      /\ \A u \in Tokens : tok'[u].kind = tok[u].kind /\ tok'[u].parent = tok[u].parent
  BY ClosedTree DEF SortInv
<1>2. TypeOK /\ LeastUp' /\ vessel \in Tokens /\ vessel # None /\ None \notin Tokens
  <2>1. TypeOK /\ vessel \in active /\ LeastUp'
    BY LeastNext DEF SortInv, IInv, ClosedUp
  <2> QED BY <2>1, PoolAssumption DEF TypeOK, Tokens
<1>3. PICK p : IsPath(p)
  BY DEF PathInv
<1>4. PICK n \in Nat : /\ n = Len(p) /\ DOMAIN p = 1 .. n /\ p \in Seq(Tokens)
                       /\ n > 0 /\ p[n] = vessel
                       /\ \A i \in 1 .. n : p[i] \in Tokens
  <2>1. p \in Seq(Tokens) /\ p # <<>> /\ p[Len(p)] = vessel
    BY <1>2, <1>3 DEF IsPath
  <2> QED BY <2>1
<1> DEFINE q == Front(p)
<1>5. /\ q \in Seq(Tokens) /\ Len(q) = n - 1 /\ DOMAIN q = 1 .. n - 1
      /\ \A i \in 1 .. n - 1 : q[i] = p[i]
  BY <1>4 DEF Front
<1> HIDE DEF q
<1>6. \A i, j \in 1 .. n : p[i] = p[j] => i = j
  BY <1>3, <1>4 DEF IsPath, IsInjective
<1>7. \A i \in 1 .. n : tok'[p[i]].parent = IF i = 1 THEN None ELSE p[i - 1]
  BY <1>1, <1>3, <1>4 DEF IsPath
<1>8. vessel' = IF n = 1 THEN None ELSE p[n - 1]
  <2>1. n \in 1 .. n
    BY <1>4
  <2> QED BY <1>1, <1>4, <1>7, <2>1 DEF ClosedUp
<1>9. ToSet(q) = {p[i] : i \in 1 .. n - 1} /\ ToSet(p) = {p[i] : i \in 1 .. n}
  BY <1>4, <1>5 DEF ToSet
<1>10. OpenPath' \subseteq ToSet(q)
  <2> DEFINE S == {p[i] : i \in 1 .. n - 1}
  <2>1. S \in SUBSET Tokens
    BY <1>4
  <2>2. vessel' # None => vessel' \in S
    <3>1. vessel' # None => n - 1 \in 1 .. n - 1 /\ vessel' = p[n - 1]
      BY <1>4, <1>8
    <3> QED BY <3>1
  <2>3. ASSUME NEW i \in 1 .. n - 1, tok'[p[i]].parent # None
        PROVE  tok'[p[i]].parent \in S
    <3>1. i \in 1 .. n /\ i # 1 /\ i - 1 \in 1 .. n - 1
      BY <1>4, <1>7, <2>3
    <3> QED BY <1>7, <3>1
  <2>4. UpClosed(S)'
    BY <2>2, <2>3 DEF UpClosed
  <2> HIDE DEF S
  <2>5. OpenPath' \subseteq S
    <3>1. PICK Z : Z = S
      OBVIOUS
    <3> QED BY <1>2, <2>1, <2>4, <3>1 DEF LeastUp
  <2> QED BY <1>9, <2>5 DEF S
<1>11. ToSet(q) = OpenPath'
  <2>1. vessel \notin ToSet(q)
    <3>1. \A i \in 1 .. n - 1 : i \in 1 .. n /\ n \in 1 .. n /\ i # n
      BY <1>4
    <3> QED BY <1>4, <1>6, <1>9, <3>1
  <2>2. ToSet(q) \subseteq ToSet(p)
    <3>1. \A i \in 1 .. n - 1 : i \in 1 .. n
      OBVIOUS
    <3> QED BY <1>9, <3>1
  <2>3. ToSet(p) = OpenPath
    BY <1>3 DEF IsPath
  <2> QED BY <1>1, <1>10, <2>1, <2>2, <2>3
<1>12. IsPath(q)'
  <2>1. IsInjective(q)
    BY <1>5, <1>6 DEF IsInjective
  <2>2. vessel' = IF q = <<>> THEN None ELSE q[Len(q)]
    <3>1. CASE n = 1
      <4>1. q = <<>>
        BY <1>5, <3>1
      <4> QED BY <1>8, <3>1, <4>1
    <3>2. CASE n # 1
      <4>1. q # <<>> /\ n - 1 \in 1 .. n - 1
        BY <1>4, <1>5, <3>2
      <4> QED BY <1>5, <1>8, <3>2, <4>1
    <3> QED BY <3>1, <3>2
  <2>3. ASSUME NEW i \in 1 .. n - 1
        PROVE  tok'[q[i]].parent = IF i = 1 THEN None ELSE q[i - 1]
    <3>1. i \in 1 .. n /\ (i # 1 => i - 1 \in 1 .. n - 1)
      OBVIOUS
    <3> QED BY <1>5, <1>7, <3>1
  <2> QED BY <1>5, <1>11, <2>1, <2>2, <2>3 DEF IsPath
<1>13. KindsAlong(p) # <<>> /\ Len(KindsAlong(p)) = n /\ KindsAlong(q)' = Front(KindsAlong(p))
  <2> DEFINE before == KindsAlong(p)
  <2>1. before = [i \in 1 .. n |-> tok[p[i]].kind]
    BY <1>4 DEF KindsAlong
  <2>2. before \in Seq(Kinds) /\ Len(before) = n
    <3>1. \A i \in 1 .. n : tok[p[i]].kind \in Kinds
      BY <1>2, <1>4 DEF TypeOK, Contents
    <3> QED BY <2>1, <3>1
  <2>3. KindsAlong(q)' = [i \in 1 .. n - 1 |-> before[i]]
    <3>1. \A i \in 1 .. n - 1 : i \in 1 .. n /\ tok'[q[i]].kind = tok[p[i]].kind
      BY <1>1, <1>4, <1>5
    <3> QED BY <1>5, <2>1, <3>1 DEF KindsAlong
  <2> HIDE DEF before
  <2>4. before # <<>> /\ Front(before) = [i \in 1 .. n - 1 |-> before[i]]
    BY <1>4, <2>2 DEF Front
  <2> QED BY <2>2, <2>3, <2>4 DEF before
<1>14. OpenKinds = KindsAlong(p) /\ OpenKinds' = KindsAlong(q)'
  BY <1>2, <1>3, <1>12, PathUpIsPath, PathUpNext
<1>15. n = 1 <=> vessel' = None
  <2>1. n # 1 => n - 1 \in 1 .. n
    BY <1>4
  <2> QED BY <1>2, <1>4, <1>8, <2>1
<1> QED BY <1>12, <1>13, <1>14, <1>15 DEF PathInv

\* A reset leaves no way.
LEMMA PathByEmptied ==
    ASSUME TypeOK', Emptied
    PROVE  PathInv' /\ OpenKinds' = <<>>
<1>1. OpenPath' = {}
  BY EmptiedTree
<1>2. IsPath(<<>>)'
  BY <1>1 DEF IsPath, IsInjective, ToSet, Emptied
<1>3. KindsAlong(<<>>)' = <<>>
  BY DEF KindsAlong
<1> QED BY <1>2, <1>3, PathUpNext DEF PathInv

-----------------------------------------------------------------------------
(* The lexemes. *)

\* After a member, and before the next comma, the vessel is not empty: what
\* the comma lets follow is the next member and not the first.
MemberRead ==
    code = "incomplete" /\ vessel # None /\ ~isInInput /\ isTreatingValue =>
        tok[vessel].kids # <<>>

TextInv == SortInv /\ PathInv /\ MemberRead

\* Of a step: the grammar has it, or does not see it.
Explained ==
    /\ PathInv' /\ MemberRead'
    /\ Grammar!GNext \/ TextRead' = TextRead

\* What the grammar sees of a parser that goes on.
LEMMA TextWhileReading ==
    ASSUME code = "incomplete"
    PROVE  /\ TextRead = [open |-> OpenKinds, due |-> Due,
                          trailing |-> IsTailCommaEnabled, verdict |-> "reading"]
           /\ TextRead.open = OpenKinds /\ TextRead.due = Due
           /\ TextRead.verdict = "reading" /\ TextRead.trailing = IsTailCommaEnabled
  BY DEF TextRead

\* What TextRead may be.
Readings ==
    [open : Seq(Kinds), due : Grammar!Dues, trailing : BOOLEAN,
     verdict : {"reading", "accepted", "rejected"}]

\* The texts that the grammar makes of one, a field at a time.
LEMMA OpenInText ==
    ASSUME NEW t \in Readings, NEW o \in Seq(Kinds)
    PROVE  /\ [t EXCEPT !.open = o] = [open |-> o, due |-> t.due,
                   trailing |-> t.trailing, verdict |-> t.verdict]
           /\ [t EXCEPT !.open = o] \in Readings
BY DEF Readings

LEMMA ThenInText ==
    ASSUME NEW t \in Readings, NEW d \in Grammar!Dues
    PROVE  /\ [t EXCEPT !.due = d] = [open |-> t.open, due |-> d,
                   trailing |-> t.trailing, verdict |-> t.verdict]
           /\ [t EXCEPT !.due = d] \in Readings
BY DEF Readings

LEMMA VerdictInText ==
    ASSUME NEW t \in Readings, NEW v \in {"reading", "accepted", "rejected"}
    PROVE  /\ [t EXCEPT !.verdict = v] = [open |-> t.open, due |-> t.due,
                   trailing |-> t.trailing, verdict |-> v]
           /\ [t EXCEPT !.verdict = v] \in Readings
BY DEF Readings

LEMMA OpenedInText ==
    ASSUME NEW t \in Readings, NEW k \in Kinds
    PROVE  Grammar!Opened(t, k) =
                  [open |-> Append(t.open, k), due |-> "first",
                   trailing |-> t.trailing, verdict |-> t.verdict]
<1>0. Append(t.open, k) \in Seq(Kinds)
  BY DEF Readings
<1>1. PICK o \in Seq(Kinds) : o = Append(t.open, k)
  BY <1>0, Zenon
<1>2. PICK u : u = [t EXCEPT !.open = o]
  OBVIOUS
<1>3. /\ u \in Readings
      /\ u = [open |-> o, due |-> t.due, trailing |-> t.trailing, verdict |-> t.verdict]
  BY <1>2, OpenInText
<1>4. Grammar!Opened(t, k) = [u EXCEPT !.due = "first"]
  BY <1>1, <1>2, Zenon DEF Grammar!Opened
<1>5. "first" \in Grammar!Dues
  BY DEF Grammar!Dues
<1>6. u.open = o /\ u.trailing = t.trailing /\ u.verdict = t.verdict
  BY <1>3
<1> QED BY <1>1, <1>3, <1>4, <1>5, <1>6, ThenInText

LEMMA ClosedInText ==
    ASSUME NEW t \in Readings, NEW k \in Kinds, t.open # <<>>
    PROVE  Grammar!Closed(t, k) =
                  [open |-> Front(t.open), due |-> "sep", trailing |-> t.trailing,
                   verdict |-> IF Len(t.open) = 1 THEN "accepted" ELSE t.verdict]
<1>0. Front(t.open) \in Seq(Kinds) /\ Grammar!Front(t.open) = Front(t.open)
  BY DEF Readings, Front, Grammar!Front
<1>1. PICK o \in Seq(Kinds) : o = Front(t.open)
  BY <1>0, Zenon
<1>2. PICK v : v = IF Len(t.open) = 1 THEN "accepted" ELSE t.verdict
  OBVIOUS
<1>3. PICK u : u = [t EXCEPT !.open = o]
  OBVIOUS
<1>4. /\ u \in Readings
      /\ u = [open |-> o, due |-> t.due, trailing |-> t.trailing, verdict |-> t.verdict]
  BY <1>3, OpenInText
<1>5. PICK w : w = [u EXCEPT !.due = "sep"]
  OBVIOUS
<1>6. /\ w \in Readings
      /\ w = [open |-> o, due |-> "sep", trailing |-> t.trailing, verdict |-> t.verdict]
  <2>1. "sep" \in Grammar!Dues
    BY DEF Grammar!Dues
  <2>2. u.open = o /\ u.trailing = t.trailing /\ u.verdict = t.verdict
    BY <1>4
  <2> QED BY <1>4, <1>5, <2>1, <2>2, ThenInText
<1>7. Grammar!Closed(t, k) = [w EXCEPT !.verdict = v]
  BY <1>0, <1>1, <1>2, <1>3, <1>5, <1>6, <1>4 DEF Grammar!Closed
<1>8. v \in {"reading", "accepted", "rejected"}
  BY <1>2 DEF Readings
<1>9. w.open = o /\ w.due = "sep" /\ w.trailing = t.trailing
  BY <1>6
<1> QED BY <1>1, <1>2, <1>6, <1>7, <1>8, <1>9, VerdictInText

LEMMA ReadingText ==
    ASSUME TextInv, code = "incomplete"
    PROVE  TextRead \in Readings
<1>1. OpenKinds \in Seq(Kinds)
  BY InnermostIsVessel DEF TextInv, SortInv, IInv
<1>2. Due \in Grammar!Dues /\ IsTailCommaEnabled \in BOOLEAN
  BY DEF Due, Grammar!Dues, IsTailCommaEnabled
<1> QED BY <1>1, <1>2, TextWhileReading DEF Readings

\* The text after a step that goes on, by what is then open and due.
LEMMA TextAfter ==
    ASSUME TextInv, code = "incomplete", code' = "incomplete", superset' = superset
    PROVE  /\ OpenKinds' = OpenKinds => TextRead' = Grammar!Then(TextRead, Due')
           /\ \A k \in Kinds :
                 OpenKinds' = Append(OpenKinds, k) /\ Due' = "first" =>
                    TextRead' = Grammar!Opened(TextRead, k)
<1>1. TextRead \in Readings
  BY ReadingText
<1>2. Due' \in Grammar!Dues
  BY DEF Due, Grammar!Dues
<1>3. TextRead' = [open |-> OpenKinds', due |-> Due',
                   trailing |-> IsTailCommaEnabled, verdict |-> "reading"]
  BY DEF TextRead, IsTailCommaEnabled
<1>4. Grammar!Then(TextRead, Due') =
          [open |-> OpenKinds, due |-> Due', trailing |-> IsTailCommaEnabled, verdict |-> "reading"]
  BY <1>1, <1>2, ThenInText, TextWhileReading, Zenon DEF Grammar!Then
<1>5. \A k \in Kinds : Grammar!Opened(TextRead, k) =
          [open |-> Append(OpenKinds, k), due |-> "first",
           trailing |-> IsTailCommaEnabled, verdict |-> "reading"]
  BY <1>1, OpenedInText, TextWhileReading, Zenon
<1> QED BY <1>3, <1>4, <1>5

\* Its kinds are the grammar's.
LEMMA InnermostInText ==
    ASSUME TextInv, code = "incomplete"
    PROVE  /\ vessel = None => OpenKinds = <<>>
           /\ vessel # None => OpenKinds # <<>> /\ Last(OpenKinds) = tok[vessel].kind
  BY InnermostIsVessel DEF TextInv, SortInv, IInv

\* What the modes and the vessel admit is what the grammar admits.
LEMMA AdmittedText ==
    ASSUME TextInv, code = "incomplete"
    PROVE  /\ Grammar!CanOpen(TextRead) <=> isInInput /\ isTreatingValue
           /\ Grammar!CanScalar(TextRead) <=> vessel # None /\ isInInput /\ isTreatingValue
           /\ Grammar!CanName(TextRead) <=> vessel # None /\ isInInput /\ ~isTreatingValue
           /\ Grammar!CanColon(TextRead) <=> ~isInInput /\ ~isTreatingValue
           /\ Grammar!CanComma(TextRead) <=> ~isInInput /\ isTreatingValue
           /\ \A k \in {"object", "array"} : cut = None =>
                (Grammar!CanClose(TextRead, k) <=>
                    /\ vessel # None
                    /\ value = None
                    /\ isInInput /\ tok[vessel].kids # <<>> => IsTailCommaEnabled
                    /\ tok[vessel].kind = k)
<1> DEFINE open == OpenKinds   due == Due   array == VesselIs("array")
<1>1. /\ TextRead.open = open /\ TextRead.due = due /\ TextRead.verdict = "reading"
      /\ TextRead.trailing = IsTailCommaEnabled
      /\ isInInput \in BOOLEAN /\ isTreatingValue \in BOOLEAN /\ IInv
  BY TextWhileReading DEF TextInv, SortInv, IInv, TypeOK
<1>2. CASE vessel = None
  <2>1. open = <<>> /\ due = "value" /\ isInInput /\ isTreatingValue
    BY <1>1, <1>2, InnermostInText DEF Due, IInv, ModeCoherent
  <2> HIDE DEF open, due
  <2> QED BY <1>1, <1>2, <2>1
          DEF Grammar!CanOpen, Grammar!CanScalar, Grammar!CanName, Grammar!CanColon,
              Grammar!CanComma, Grammar!CanClose, Grammar!ValueDue, Grammar!Inside
<1>3. CASE vessel # None
  <2>1. /\ open # <<>> /\ Grammar!Last(open) = tok[vessel].kind
        /\ array <=> tok[vessel].kind = "array"
        /\ tok[vessel].kind \in {"object", "array"} /\ (array => isTreatingValue /\ value = None)
    BY <1>1, <1>3, InnermostInText, InVessel DEF VesselIs, Last, Grammar!Last
  <2>2. due = IF ~isInInput THEN IF isTreatingValue THEN "sep" ELSE "colon"
              ELSE IF ~array /\ isTreatingValue THEN "value"
              ELSE IF tok[vessel].kids = <<>> THEN "first" ELSE "next"
    BY <1>1, <1>3, <2>1 DEF Due, VesselIs
  <2>3. cut = None => value = None \/ (~array /\ isTreatingValue = isInInput)
    BY <1>1, <1>3, <2>1, InVessel, PoolAssumption DEF IInv, ModeCoherent, VesselIs, Classes
  <2>4. cut = None /\ ~array /\ isTreatingValue = isInInput => value # None
    BY <1>1, <1>3, <2>1, PoolAssumption DEF IInv, ModeCoherent, VesselIs, Classes
  <2> HIDE DEF open, due, array
  <2>5. /\ Grammar!CanOpen(TextRead) <=> isInInput /\ isTreatingValue
        /\ Grammar!CanScalar(TextRead) <=> isInInput /\ isTreatingValue
        /\ Grammar!CanName(TextRead) <=> isInInput /\ ~isTreatingValue
        /\ Grammar!CanColon(TextRead) <=> ~isInInput /\ ~isTreatingValue
        /\ Grammar!CanComma(TextRead) <=> ~isInInput /\ isTreatingValue
    BY <1>1, <1>3, <2>1, <2>2
       DEF Grammar!CanOpen, Grammar!CanScalar, Grammar!CanName, Grammar!CanColon,
           Grammar!CanComma, Grammar!ValueDue, Grammar!Inside
  <2>6. ASSUME NEW k \in {"object", "array"}, cut = None
        PROVE  Grammar!CanClose(TextRead, k) <=>
                    /\ value = None
                    /\ isInInput /\ tok[vessel].kids # <<>> => IsTailCommaEnabled
                    /\ tok[vessel].kind = k
    BY <1>1, <1>3, <2>1, <2>2, <2>3, <2>4, <2>6 DEF Grammar!CanClose, Grammar!Inside
  <2> QED BY <1>3, <2>5, <2>6
<1> QED BY <1>2, <1>3

\* What is due depends on the modes and the vessel only.
LEMMA DueKept ==
    ASSUME IInv, Kept, UNCHANGED mode
    PROVE  Due' = Due /\ (vessel # None => tok'[vessel] = tok[vessel])
<1>1. vessel # None => tok'[vessel] = tok[vessel]
  BY DEF IInv, NoDangling, Kept
<1>2. UNCHANGED <<isInInput, isTreatingValue, root, vessel>>
  BY DEF mode, Kept
<1> QED BY <1>1, <1>2 DEF Due, VesselIs

\* An error is the grammar's rejection.
LEMMA RefusedText ==
    ASSUME TextInv, TypeOK', code = "incomplete", Kept, UNCHANGED <<mode, superset>>,
           code' \in {"syntax", "tokens"}
    PROVE  Explained
<1>1. PathInv' /\ OpenKinds' = OpenKinds /\ Due' = Due
  BY PathByKept, DueKept DEF TextInv, SortInv
<1>2. IsTailCommaEnabled' = IsTailCommaEnabled
  BY DEF IsTailCommaEnabled
<1>3. TextRead' = [TextRead EXCEPT !.verdict = "rejected"] /\ TextRead.verdict = "reading"
  BY <1>1, <1>2, TextWhileReading DEF TextRead
<1>4. Grammar!Reject
  BY <1>3 DEF Grammar!Reject
<1> QED BY <1>1, <1>4 DEF Explained, MemberRead, Grammar!GNext

\* What leaves tree, modes and verdict alone is not seen.
LEMMA UnseenText ==
    ASSUME TextInv, TypeOK', Kept, UNCHANGED <<mode, superset, code>>
    PROVE  Explained
<1>1. PathInv' /\ OpenKinds' = OpenKinds /\ Due' = Due
      /\ (vessel # None => tok'[vessel] = tok[vessel])
  BY PathByKept, DueKept DEF TextInv, SortInv
<1>2. TextRead' = TextRead
  BY <1>1 DEF TextRead, IsTailCommaEnabled
<1>3. MemberRead'
  BY <1>1 DEF TextInv, MemberRead, Kept, mode
<1> QED BY <1>1, <1>2, <1>3 DEF Explained

\* An error without a token in hand is the grammar's rejection.
LEMMA ErrorText ==
    ASSUME TextInv, TypeOK', code = "incomplete", NEW c \in {"syntax", "tokens"},
           Fail(c) \/ FailWithoutToken(c)
    PROVE  Explained
<1>1. Kept /\ UNCHANGED <<mode, superset>> /\ code' = c
  BY DEF Fail, FailWithoutToken, Stop, Kept, cursors
<1> QED BY <1>1, RefusedText

\* A lexeme that is cut is not seen; one that is wrong is rejected.
LEMMA HeldText ==
    ASSUME TextInv, TypeOK', code = "incomplete", NEW t \in Tokens, NEW new \in BOOLEAN,
           NEW class, FailHolding(new, t) \/ Suspend(class, new, t)
    PROVE  Explained
<1>1. Kept
  BY KeptByOutcome DEF TextInv, SortInv
<1>2. CASE FailHolding(new, t)
  BY <1>1, <1>2, RefusedText DEF FailHolding, Stop
<1>3. CASE Suspend(class, new, t)
  BY <1>1, <1>3, UnseenText DEF Suspend
<1> QED BY <1>2, <1>3

\* A whole value is the grammar's scalar.
LEMMA ValueText ==
    ASSUME TextInv, TypeOK', code = "incomplete", vessel # None, isInInput, isTreatingValue,
           NEW t \in Tokens, NEW new \in BOOLEAN,
           VesselIs("object") => ~new, new => value = None,
           TakeValue(new, t)
    PROVE  Explained
<1>1. Hung(t) /\ IInv
  BY HungByValue DEF TextInv, SortInv
<1>2. /\ UNCHANGED <<isTreatingValue, superset, root, vessel, code>> /\ isInInput' = FALSE
  BY DEF TakeValue
<1>3. t # vessel /\ PathInv' /\ OpenKinds' = OpenKinds
  <2>1. t # vessel
    BY <1>1, HungTree DEF TextInv, SortInv
  <2> QED BY <1>1, <1>2, <2>1, PathByHung DEF TextInv
<1>4. TextRead' = Grammar!Then(TextRead, "sep")
  <2>1. Due' = "sep"
    BY <1>2 DEF Due
  <2> QED BY <1>2, <1>3, <2>1, TextAfter
<1>5. Grammar!CanScalar(TextRead)
  BY AdmittedText
<1>6. Grammar!Scalar
  BY <1>4, <1>5 DEF Grammar!Scalar
<1>7. MemberRead'
  <2>1. tok[vessel] \in Contents /\ tok'[vessel] = [tok[vessel] EXCEPT !.kids = Append(@, t)]
    BY <1>1 DEF Hung, IInv, TypeOK
  <2>2. tok'[vessel].kids = Append(tok[vessel].kids, t) /\ tok[vessel].kids \in Seq(Tokens)
    BY <2>1 DEF Contents
  <2>3. \A s \in Seq(Tokens) : Append(s, t) # <<>>
    OBVIOUS
  <2> QED BY <1>2, <2>2, <2>3 DEF MemberRead
<1> QED BY <1>3, <1>6, <1>7 DEF Explained, Grammar!GNext

\* A whole name is the grammar's name; a bare name of JSON5 right after a name is
\* not seen.
LEMMA NameText ==
    ASSUME TextInv, TypeOK', code = "incomplete", VesselIs("object"), ~isTreatingValue,
           NEW t \in Tokens, TakeName(t)
    PROVE  Explained
<1>1. Kept /\ IInv /\ TypeOK
  BY KeptByOutcome DEF TextInv, SortInv, IInv
<1>2. /\ UNCHANGED <<isTreatingValue, superset, root, vessel, code>> /\ isInInput' = FALSE
  BY DEF TakeName
<1>3. PathInv' /\ OpenKinds' = OpenKinds
  BY <1>1, PathByKept DEF TextInv
<1>4. vessel # None /\ OpenKinds # <<>> /\ Last(OpenKinds) = "object"
  BY InnermostInText DEF VesselIs
<1>5. TextRead' = [open |-> OpenKinds, due |-> "colon",
                   trailing |-> IsTailCommaEnabled, verdict |-> "reading"]
  <2>1. Due' = "colon"
    BY <1>2, <1>4 DEF Due
  <2> QED BY <1>2, <1>3, <2>1, TextWhileReading DEF TextRead, IsTailCommaEnabled
<1>6. Grammar!Name \/ TextRead' = TextRead
  <2>1. CASE isInInput
    <3>2. Grammar!CanName(TextRead)
      BY <1>4, <2>1, AdmittedText
    <3>3. TextRead' = Grammar!Then(TextRead, "colon")
      BY <1>2, <1>3, <1>4, TextAfter DEF Due
    <3> QED BY <3>2, <3>3 DEF Grammar!Name
  <2>2. CASE ~isInInput
    <3>1. Due = "colon"
      BY <1>4, <2>2 DEF Due
    <3> QED BY <1>5, <3>1, TextWhileReading
  <2> QED BY <2>1, <2>2
<1>7. MemberRead'
  BY <1>2 DEF MemberRead
<1> QED BY <1>3, <1>6, <1>7 DEF Explained, Grammar!GNext

\* '{' or '[' is the grammar's, when it is not refused.
LEMMA OpenText ==
    ASSUME TextInv, TypeOK', NEW k \in {"object", "array"}, ReadOpen(k)
    PROVE  Explained
<1> DEFINE new == vessel = None \/ VesselIs("array")
<1>0. code = "incomplete" /\ new \in BOOLEAN /\ IInv
  BY DEF ReadOpen, Reads, VesselIs, TextInv, SortInv
<1>1. CASE Fail("syntax")
  <2>1. Kept
    BY <1>1, KeptByError DEF Codes
  <2> QED BY <1>0, <1>1, <2>1, RefusedText DEF Fail, Stop
<1>2. CASE Missing(new) /\ FailWithoutToken(IF vessel = None THEN "syntax" ELSE "tokens")
  <2>1. Kept /\ UNCHANGED <<mode, superset>> /\ code' \in {"syntax", "tokens"}
    BY <1>2 DEF FailWithoutToken, Kept, Stop
  <2> QED BY <1>0, <2>1, RefusedText
<1>3. CASE /\ ~Fail("syntax")
           /\ ~(/\ Missing(new)
                /\ FailWithoutToken(IF vessel = None THEN "syntax" ELSE "tokens"))
  <2>1. /\ isInInput /\ isTreatingValue
        /\ isTreatingValue' = (k = "array") /\ isInInput' = TRUE
        /\ UNCHANGED <<superset, code, cut>>
    BY <1>3 DEF ReadOpen
  <2>2. PICK t \in Tokens : (Hung(t) \/ Planted(t)) /\ vessel' = t /\ tok'[t].kind = k
    BY <1>0, <1>3, OpenedAs
  <2>3. t # None /\ vessel' # None
    BY <2>2, PoolAssumption DEF Tokens
  <2>4. Due' = "first"
    <3>1. tok'[vessel'].kids = <<>>
      BY <2>2 DEF Hung, Planted
    <3>2. ~(VesselIs("object")' /\ isTreatingValue')
      BY <2>1, <2>2 DEF VesselIs
    <3> QED BY <2>1, <2>3, <3>1, <3>2 DEF Due
  <2>5. PathInv' /\ OpenKinds' = Append(OpenKinds, k)
    <3>1. CASE Planted(t)
      <4>1. PathInv' /\ OpenKinds = <<>> /\ OpenKinds' = <<k>>
        BY <2>2, <3>1, PathByPlanted DEF TextInv, SortInv, IInv
      <4>2. Append(<<>>, k) = <<k>>
        OBVIOUS
      <4> QED BY <4>1, <4>2
    <3>2. CASE Hung(t)
      BY <2>2, <3>2, PathByHung DEF TextInv
    <3> QED BY <2>2, <3>1, <3>2
  <2>6. TextRead' = Grammar!Opened(TextRead, k)
    BY <1>0, <2>1, <2>4, <2>5, TextAfter DEF Kinds
  <2>7. Grammar!Open(k)
    BY <1>0, <2>1, <2>6, AdmittedText DEF Grammar!Open
  <2>8. MemberRead'
    BY <2>1 DEF MemberRead
  <2> QED BY <2>5, <2>7, <2>8 DEF Explained, Grammar!GNext, Grammar!Kinds
<1> QED BY <1>1, <1>2, <1>3 DEF ReadOpen

\* '}' or ']' is the grammar's, when it is not refused.
LEMMA CloseText ==
    ASSUME TextInv, TypeOK', NEW k \in {"object", "array"}, ReadClose(k)
    PROVE  Explained
<1>0. code = "incomplete" /\ cut = None /\ IInv /\ ModeCoherent
  BY DEF ReadClose, Reads, TextInv, SortInv, IInv
<1>1. CASE Fail("syntax")
  BY <1>0, <1>1, ErrorText
<1>2. CASE ~Fail("syntax")
  <2>1. /\ vessel # None /\ value = None /\ VesselIs(k)
        /\ isInInput /\ tok[vessel].kids # <<>> => IsTailCommaEnabled
        /\ isInInput' = FALSE /\ isTreatingValue' = TRUE
        /\ code' = IF vessel' = None THEN "complete" ELSE "incomplete"
        /\ superset' = superset /\ root' = root
    BY <1>2 DEF ReadClose, VesselIs
  <2>2. ClosedUp
    BY <1>0, <1>2, ClosedByBracket
  <2>3. /\ PathInv' /\ OpenKinds # <<>> /\ OpenKinds' = Front(OpenKinds)
        /\ Len(OpenKinds) = 1 <=> vessel' = None
    BY <2>2, PathByClosed DEF TextInv
  <2>5. Grammar!CanClose(TextRead, k)
    BY <1>0, <2>1, AdmittedText DEF VesselIs
  <2>6. Due' = "sep"
    <3>1. root # None
      BY <1>0, <2>1 DEF ModeCoherent
    <3> QED BY <2>1, <3>1 DEF Due
  <2>7. TextRead' = Grammar!Closed(TextRead, k)
    <3>1. TextRead' = [open |-> Front(OpenKinds), due |-> "sep", trailing |-> IsTailCommaEnabled,
                       verdict |-> IF Len(OpenKinds) = 1 THEN "accepted" ELSE "reading"]
      BY <2>1, <2>3, <2>6 DEF TextRead, IsTailCommaEnabled
    <3>2. TextRead \in Readings /\ k \in Kinds
      BY <1>0, ReadingText DEF Kinds
    <3> QED BY <1>0, <2>3, <3>1, <3>2, ClosedInText, TextWhileReading, Zenon
  <2>8. MemberRead'
    <3>1. TreeLinked' /\ NoDangling'
      BY <1>0, InvStep DEF IInv, Next
    <3>2. vessel \in active' /\ tok'[vessel].parent = vessel'
      <4>1. active' = active /\ vessel \in active /\ vessel \in Tokens
        BY <1>0, <1>2, <2>2, ClosedByBracket DEF ClosedUp, IInv, TypeOK
      <4>2. tok'[vessel].parent = tok[vessel].parent
        BY <1>0, <4>1, <2>2, ClosedTree
      <4> QED BY <2>2, <4>1, <4>2 DEF ClosedUp
    <3>3. vessel' # None => vessel \in ToSet(tok'[vessel'].kids)
      BY <3>1, <3>2 DEF TreeLinked
    <3>4. ToSet(<<>>) = {}
      BY DEF ToSet
    <3> QED BY <3>3, <3>4 DEF MemberRead
  <2> QED BY <2>3, <2>5, <2>7, <2>8 DEF Explained, Grammar!GNext, Grammar!Close, Grammar!Kinds
<1> QED BY <1>1, <1>2

\* So are ':' and ','.
LEMMA PunctuationText ==
    ASSUME TextInv, TypeOK', ReadColon \/ ReadComma
    PROVE  Explained
<1>0. code = "incomplete" /\ IInv /\ ModeCoherent
  BY DEF ReadColon, ReadComma, Reads, TextInv, SortInv, IInv
<1>1. CASE Fail("syntax")
  BY <1>0, <1>1, ErrorText
<1>2. CASE ~Fail("syntax")
  <2>1. UNCHANGED <<superset, tok, root, vessel, code>> /\ isInInput' = TRUE /\ ~isInInput
    BY <1>2 DEF ReadColon, ReadComma, cursors
  <2>2. vessel # None
    BY <1>0, <2>1 DEF ModeCoherent
  <2>3. PathInv' /\ OpenKinds' = OpenKinds
    BY <1>0, <2>1, PathByKept DEF TextInv, Kept
  <2>4. MemberRead'
    BY <2>1 DEF MemberRead
  <2>5. CASE ReadColon
    <3>1. ~isTreatingValue /\ isTreatingValue'
      BY <1>2, <2>5 DEF ReadColon
    <3>2. VesselIs("object") /\ VesselIs("object")'
      BY <1>0, <2>1, <2>2, <3>1, InVessel DEF VesselIs
    <3>3. Due' = "value"
      BY <2>1, <2>2, <3>1, <3>2 DEF Due
    <3>4. Grammar!Colon
      BY <1>0, <2>1, <2>3, <3>1, <3>3, TextAfter, AdmittedText DEF Grammar!Colon
    <3> QED BY <2>3, <2>4, <3>4 DEF Explained, Grammar!GNext
  <2>6. CASE ReadComma
    <3>1. isTreatingValue /\ isTreatingValue' = VesselIs("array")
      BY <1>2, <2>6 DEF ReadComma
    <3>2. ~(VesselIs("object")' /\ isTreatingValue')
      BY <2>1, <3>1 DEF VesselIs
    <3>3. tok[vessel].kids # <<>>
      BY <1>0, <2>1, <2>2, <3>1 DEF TextInv, MemberRead
    <3>4. Due' = "next"
      BY <2>1, <2>2, <3>1, <3>2, <3>3 DEF Due
    <3>5. Grammar!Comma
      BY <1>0, <2>1, <2>3, <3>1, <3>4, TextAfter, AdmittedText DEF Grammar!Comma
    <3> QED BY <2>3, <2>4, <3>5 DEF Explained, Grammar!GNext
  <2> QED BY <2>5, <2>6
<1> QED BY <1>1, <1>2

\* The grammar does not see comments.
LEMMA CommentText ==
    ASSUME TextInv, TypeOK', NEW scan \in Scans, ReadComment(scan)
    PROVE  Explained
<1>0. code = "incomplete"
  BY DEF ReadComment, Reads
<1>1. CASE Fail("syntax")
  BY <1>0, <1>1, ErrorText
<1>2. CASE ~Fail("syntax")
  BY <1>2, UnseenText DEF ReadComment, Kept, cursors
<1> QED BY <1>1, <1>2

\* A string that is read whole is a scalar or a name.
LEMMA StringText ==
    ASSUME TextInv, TypeOK', NEW quote \in Quotes, NEW scan \in Scans,
           ReadString(quote, scan)
    PROVE  Explained
<1> DEFINE new == VesselIs("array") \/ ~isTreatingValue
<1>0. code = "incomplete" /\ IInv /\ new \in BOOLEAN
  BY DEF ReadString, Reads, VesselIs, TextInv, SortInv, IInv, TypeOK
<1>1. ASSUME Fail("syntax") \/ FailWithoutToken("tokens") PROVE Explained
  BY <1>0, <1>1, ErrorText
<1>2. ASSUME NEW t \in Tokens, FailHolding(new, t) \/ Suspend(quote, new, t)
      PROVE  Explained
  BY <1>0, <1>2, HeldText
<1>3. ASSUME isInInput, vessel # None, NEW t \in Tokens, isTreatingValue, TakeValue(new, t)
      PROVE  Explained
  <2>1. VesselIs("object") => ~new
    BY <1>0, <1>3, InVessel
  <2>2. new => value = None
    BY <1>0, <1>3, InVessel
  <2> QED BY <1>0, <1>3, <2>1, <2>2, ValueText
<1>4. ASSUME vessel # None, NEW t \in Tokens, ~isTreatingValue, TakeName(t)
      PROVE  Explained
  BY <1>0, <1>4, InVessel, NameText
<1> QED BY <1>1, <1>2, <1>3, <1>4 DEF ReadString

\* So is a word.
LEMMA WordText ==
    ASSUME TextInv, TypeOK', NEW class \in Words, NEW scan \in Scans, ReadWord(class, scan)
    PROVE  Explained
<1>0. code = "incomplete" /\ IInv /\ VesselIs("array") \in BOOLEAN
  BY DEF ReadWord, Reads, VesselIs, TextInv, SortInv
<1>1. ASSUME Fail("syntax") \/ FailWithoutToken("tokens") PROVE Explained
  BY <1>0, <1>1, ErrorText
<1>2. ASSUME NEW t \in Tokens, NEW new \in BOOLEAN, FailHolding(new, t) \/ Suspend(class, new, t)
      PROVE  Explained
  BY <1>0, <1>2, HeldText
<1>3. ASSUME AsValue(class), NEW t \in Tokens, TakeValue(VesselIs("array"), t)
      PROVE  Explained
  BY <1>0, <1>3, InVessel, ValueText DEF AsValue
<1>4. ASSUME VesselIs("object"), ~isTreatingValue, NEW t \in Tokens, TakeName(t)
      PROVE  Explained
  BY <1>0, <1>4, NameText
<1>5. CASE AsValue(class) /\ ReadScalar(class, scan)
  BY <1>0, <1>1, <1>2, <1>3, <1>5 DEF ReadScalar
<1>6. CASE AsIdent(class) /\ ReadIdent(class, scan)
  BY <1>1, <1>2, <1>4, <1>6 DEF ReadIdent
<1> QED BY <1>1, <1>5, <1>6 DEF ReadWord

\* A reset is the grammar's restart.
LEMMA ResetText ==
    ASSUME TypeOK', NEW s, ResetAsSuperset(s)
    PROVE  Explained
<1>1. PathInv' /\ OpenKinds' = <<>>
  BY PathByEmptied DEF ResetAsSuperset, Emptied
<1>2. Due' = "value" /\ code' = "incomplete" /\ IsTailCommaEnabled' \in BOOLEAN
  BY DEF ResetAsSuperset, Due, IsTailCommaEnabled
<1>3. TextRead' = Grammar!NoText(IsTailCommaEnabled')
  BY <1>1, <1>2 DEF TextRead, Grammar!NoText
<1>4. MemberRead'
  BY DEF ResetAsSuperset, MemberRead
<1> QED BY <1>1, <1>2, <1>3, <1>4 DEF Explained, Grammar!GNext, Grammar!Restart

\* Each step of the parser is one of the grammar, or the grammar does not see it.
LEMMA TextStep == TextInv /\ [Next]_vars => TextInv' /\ (Grammar!GNext \/ TextRead' = TextRead)
<1> SUFFICES ASSUME TextInv, [Next]_vars
             PROVE  TextInv' /\ (Grammar!GNext \/ TextRead' = TextRead)
  OBVIOUS
<1>1. SortInv' /\ TypeOK'
  BY SortStep, TypeStep DEF TextInv, SortInv, IInv
<1>2. CASE UNCHANGED vars
  <2>1. Kept /\ UNCHANGED <<mode, superset, code>>
    BY <1>2 DEF vars, Kept, mode
  <2> QED BY <1>1, <2>1, UnseenText DEF Explained, TextInv
<1>3. CASE Next
  <2>1. Explained
    BY <1>1, <1>3, OpenText, CloseText, PunctuationText, CommentText, StringText, WordText,
       ResetText DEF Next
  <2> QED BY <1>1, <2>1 DEF Explained, TextInv
<1> QED BY <1>2, <1>3

\* Before the first lexeme both have read nothing.
LEMMA TextInit == Init => TextInv /\ Grammar!GInit
<1> SUFFICES ASSUME Init PROVE TextInv /\ Grammar!GInit
  OBVIOUS
<1>1. SortInv /\ TypeOK
  BY SortInit DEF SortInv, IInv
<1>2. OpenPath = {}
  BY <1>1, OpenPathIsLeast DEF Init, UpClosed
<1>3. IsPath(<<>>)
  BY <1>2 DEF IsPath, IsInjective, ToSet, Init
<1>4. OpenKinds = <<>>
  BY <1>1, <1>3, InnermostIsVessel DEF PathInv, Init
<1>5. Grammar!GInit
  <2>1. Due = "value" /\ IsTailCommaEnabled = FALSE /\ code = "incomplete"
    BY DEF Init, Due, IsTailCommaEnabled
  <2> QED BY <1>4, <2>1, TextWhileReading DEF Grammar!GInit, Grammar!NoText
<1> QED BY <1>1, <1>3, <1>5 DEF TextInv, PathInv, MemberRead, Init

\* For every pool, set of names and choice of dialects the parser accepts only
\* what the grammar does, lexeme by lexeme: JSON, with the comments, trailing
\* commas and bare names that the dialect allows.
THEOREM ParserReadsJson == Spec => ImplementsGrammar
<1>1. TextInv /\ [Next]_vars => TextInv' /\ [Grammar!GNext]_TextRead
  BY TextStep
<1> QED BY <1>1, TextInit, PTL DEF Spec, ImplementsGrammar, Grammar!GSpec
-----------------------------------------------------------------------------
(* The converse: what is refused is not in the grammar.  The exception would *)
(* be the root, for which an empty pool is a syntax error; but there is      *)
(* always a token for the root.                                              *)

SomeToken == free = {} /\ active = {} => isAllocAllowed

\* No step leaves a pool that has no token and may get none.
LEMMA SomeTokenStep ==
    ASSUME SomeToken, [Next]_vars
    PROVE  SomeToken'
<1>1. ASSUME UNCHANGED pool \/ \E t \in Tokens : NewToken(t)
      PROVE  SomeToken'
  BY <1>1 DEF SomeToken, pool, NewToken
<1>2. ASSUME NEW c, Fail(c) \/ FailWithoutToken(c) PROVE SomeToken'
  BY <1>1, <1>2 DEF Fail, FailWithoutToken
<1>3. ASSUME NEW class, NEW t \in Tokens, NEW new \in BOOLEAN,
             \/ FailHolding(new, t) \/ Suspend(class, new, t)
             \/ TakeValue(new, t) \/ TakeName(t)
      PROVE  SomeToken'
  BY <1>1, <1>3 DEF FailHolding, Suspend, TakeValue, TakeName, TakeAndReturn, Obtain
<1>4. ASSUME NEW k \in {"object", "array"}, ReadOpen(k) \/ ReadClose(k) PROVE SomeToken'
  BY <1>1, <1>2, <1>4 DEF ReadOpen, ReadClose, Obtain
<1>5. ASSUME NEW quote \in Quotes, NEW scan \in Scans, ReadString(quote, scan)
      PROVE  SomeToken'
  <2>1. (VesselIs("array") \/ ~isTreatingValue) \in BOOLEAN
    OBVIOUS
  <2> QED BY <1>2, <1>3, <1>5, <2>1 DEF ReadString
<1>6. ASSUME NEW class \in Words, NEW scan \in Scans, ReadWord(class, scan)
      PROVE  SomeToken'
  <2>1. VesselIs("array") \in BOOLEAN
    BY DEF VesselIs
  <2>2. CASE ReadScalar(class, scan)
    BY <1>2, <1>3, <2>1, <2>2 DEF ReadScalar
  <2>3. CASE ReadIdent(class, scan)
    BY <1>2, <1>3, <2>3 DEF ReadIdent
  <2> QED BY <1>2, <1>6, <2>2, <2>3 DEF ReadWord
<1>7. ASSUME NEW scan \in Scans, ReadColon \/ ReadComma \/ ReadComment(scan)
      PROVE  SomeToken'
  BY <1>1, <1>2, <1>7 DEF ReadColon, ReadComma, ReadComment
<1>8. ASSUME NEW s \in Supersets \cup {"none"}, ResetAsSuperset(s) PROVE SomeToken'
  BY <1>8 DEF ResetAsSuperset, SomeToken
<1>9. CASE UNCHANGED vars
  BY <1>1, <1>9 DEF vars, pool
<1>10. Scans # {}
  BY DEF Scans
<1> QED BY <1>4, <1>5, <1>6, <1>7, <1>8, <1>9, <1>10 DEF Next

\* Before the root nothing is active, so it finds a token.
LEMMA RootFindsToken ==
    ASSUME WholeInv, SomeToken, code = "incomplete", vessel = None
    PROVE  ~Exhausted
<1>1. root = None /\ value = None /\ TypeOK
  BY DEF WholeInv, SortInv, IInv, ModeCoherent
<1>2. Reachable = {}
  <2>1. DownClosed({})
    BY <1>1 DEF DownClosed
  <2> QED BY <1>1, <2>1, ReachableIsLeast
<1>3. active = {}
  BY <1>1, <1>2 DEF WholeInv, NoOrphan
<1> QED BY <1>3 DEF SomeToken, Exhausted

\* Without JSON5's bare names a well-formed lexeme is a syntax error exactly
\* where the grammar does not admit it.
THEOREM RefusalsAreGrounded ==
    ASSUME "json5" \notin Supersets
    PROVE  Spec => RejectsOnlyUngrammatical
<1> DEFINE refused == code' = "syntax"
           Grounded ==
               /\ \A k \in {"object", "array"} :
                    /\ ReadOpen(k) => (refused <=> ~Grammar!CanOpen(TextRead))
                    /\ ReadClose(k) => (refused <=> ~Grammar!CanClose(TextRead, k))
               /\ ReadColon => (refused <=> ~Grammar!CanColon(TextRead))
               /\ ReadComma => (refused <=> ~Grammar!CanComma(TextRead))
               /\ ReadWord("plain", "ok") => (refused <=> ~Grammar!CanScalar(TextRead))
               /\ ReadString("dquote", "ok") =>
                    (refused <=> ~Grammar!CanScalar(TextRead) /\ ~Grammar!CanName(TextRead))
<1>1. ASSUME WholeInv, TextInv, SomeToken PROVE Grounded
  <2> USE <1>1
  <2>1. IInv /\ TypeOK /\ ~IsEcma5 /\ None \notin Classes
    BY PoolAssumption DEF WholeInv, SortInv, IInv, TypeOK, IsEcma5
  <2>2. ASSUME NEW k \in {"object", "array"}, ReadOpen(k)
        PROVE  refused <=> ~Grammar!CanOpen(TextRead)
    <3>1. code = "incomplete"
      BY <2>2 DEF ReadOpen, Reads
    <3>2. vessel = None => ~Missing(vessel = None \/ VesselIs("array"))
      BY <3>1, RootFindsToken DEF Missing
    <3>3. refused <=> ~(isInInput /\ isTreatingValue)
      BY <2>2, <3>1, <3>2 DEF ReadOpen, Fail, FailWithoutToken, Stop
    <3> QED BY <3>1, <3>3, AdmittedText
  <2>3. ASSUME NEW k \in {"object", "array"}, ReadClose(k)
        PROVE  refused <=> ~Grammar!CanClose(TextRead, k)
    <3>1. code = "incomplete" /\ cut = None
      BY <2>3 DEF ReadClose, Reads
    <3>2. refused <=> ~(/\ vessel # None
                        /\ value = None
                        /\ isInInput /\ tok[vessel].kids # <<>> => IsTailCommaEnabled
                        /\ tok[vessel].kind = k)
      BY <2>3 DEF ReadClose, Fail, Stop
    <3> QED BY <3>1, <3>2, AdmittedText
  <2>4. ASSUME ReadColon PROVE refused <=> ~Grammar!CanColon(TextRead)
    BY <2>4, AdmittedText DEF ReadColon, Reads, Fail, Stop
  <2>5. ASSUME ReadComma PROVE refused <=> ~Grammar!CanComma(TextRead)
    BY <2>5, AdmittedText DEF ReadComma, Reads, Fail, Stop
  <2>6. ASSUME ReadWord("plain", "ok") PROVE refused <=> ~Grammar!CanScalar(TextRead)
    <3>1. code = "incomplete" /\ ~AsIdent("plain")
      BY <2>1, <2>6 DEF ReadWord, Reads, AsIdent
    <3>2. AsValue("plain") <=> vessel # None /\ isInInput /\ isTreatingValue
      BY DEF AsValue, StartsValue
    <3>3. refused <=> ~AsValue("plain")
      BY <2>6, <3>1 DEF ReadWord, ReadScalar, Fail, FailWithoutToken, Stop, TakeValue
    <3> QED BY <3>1, <3>2, <3>3, AdmittedText
  <2>7. ASSUME ReadString("dquote", "ok")
        PROVE  refused <=> ~Grammar!CanScalar(TextRead) /\ ~Grammar!CanName(TextRead)
    <3>1. code = "incomplete"
      BY <2>7 DEF ReadString, Reads
    <3>2. refused <=> ~(isInInput /\ vessel # None)
      BY <2>7, <3>1 DEF ReadString, Fail, FailWithoutToken, Stop, TakeValue, TakeName
    <3> QED BY <3>1, <3>2, AdmittedText
  <2> HIDE DEF Grounded
  <2> QED BY <2>2, <2>3, <2>4, <2>5, <2>6, <2>7 DEF Grounded
<1>2. Init => WholeInv /\ TextInv /\ SomeToken
  <2>1. Init => SomeToken
    BY DEF Init, SomeToken
  <2> QED BY <2>1, WholeInit, TextInit
<1>3. WholeInv /\ TextInv /\ SomeToken /\ [Next]_vars =>
          WholeInv' /\ TextInv' /\ SomeToken' /\ [Grounded]_vars
  BY <1>1, WholeStep, TextStep, SomeTokenStep
<1> QED BY <1>2, <1>3, PTL DEF Spec, RejectsOnlyUngrammatical
=============================================================================
