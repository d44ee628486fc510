------------------------------ MODULE Numbers ------------------------------
(***************************************************************************)
(* What the proofs of more than one component need of the numbers.         *)
(***************************************************************************)
EXTENDS Integers, WellFoundedInduction, TLAPS

\* Every set of natural numbers that is not empty has a least one.
LEMMA Least ==
    ASSUME NEW T, T \subseteq Nat, T # {}
    PROVE  \E x \in T : \A y \in T : x <= y
<1> DEFINE R == OpToRel(<, Nat)
<1>1. IsWellFoundedOn(R, Nat)
  BY NatLessThanWellFounded
<1>2. \A x, y \in Nat : <<x, y>> \in R <=> x < y
  BY DEF OpToRel
<1> HIDE DEF R
<1>3. PICK x \in T : \A y \in T : ~(<<y, x>> \in R)
  BY <1>1, WFMin
<1>4. \A y \in T : ~(y < x)
  <2> TAKE y \in T
  <2>1. x \in Nat /\ y \in Nat
    OBVIOUS
  <2>2. ~(<<y, x>> \in R)
    BY <1>3
  <2> QED BY <1>2, <2>1, <2>2, Zenon
<1> QED BY <1>4

-----------------------------------------------------------------------------
(* Loops, as recursive functions: every turn lowers the rank of the state. *)

\* What holds of a state when it holds of all states of lower rank holds of every
\* state.
LEMMA RankInduction ==
    ASSUME NEW D, NEW rank \in [D -> Nat], NEW G \in SUBSET D,
           \A q \in D : (\A r \in D : rank[r] < rank[q] => r \in G) => q \in G
    PROVE  G = D
<1> DEFINE bad == {k \in Nat : \E q \in D : rank[q] = k /\ q \notin G}
<1>1. ASSUME bad # {} PROVE FALSE
  <2>1. PICK k \in bad : \A j \in bad : k <= j
    <3>1. bad \subseteq Nat
      OBVIOUS
    <3> HIDE DEF bad
    <3> QED BY <1>1, <3>1, Least
  <2>2. PICK q \in D : rank[q] = k /\ q \notin G
    OBVIOUS
  <2>3. ASSUME NEW r \in D, rank[r] < rank[q], r \notin G PROVE FALSE
    <3>1. rank[r] \in Nat /\ rank[r] \in bad
      BY <2>3
    <3>2. k <= rank[r]
      BY <2>1, <3>1
    <3>3. k \in Nat
      OBVIOUS
    <3> HIDE DEF bad
    <3> QED BY <2>2, <2>3, <3>1, <3>2, <3>3
  <2> QED BY <2>2, <2>3
<1>2. ASSUME NEW q \in D PROVE q \in G
  <2>1. rank[q] \in Nat
    OBVIOUS
  <2> QED BY <1>1, <2>1
<1> QED BY <1>2

\* What a state is worth where the recursion stops, where it goes from there else,
\* and what the worth of that becomes.
Recursions(D, S) ==
    {r \in [stop : SUBSET D, base : [D -> S], next : [D -> D], step : [D -> [S -> S]],
            rank : [D -> Nat]] :
        \A q \in D \ r.stop : r.rank[r.next[q]] < r.rank[q]}

Solutions(D, S, r) ==
    {f \in [D -> S] : \A q \in D :
        f[q] = IF q \in r.stop THEN r.base[q] ELSE r.step[q][f[r.next[q]]]}

\* A recursion to states of lower rank is defined.
LEMMA RecursionDefined ==
    ASSUME NEW D, NEW S, NEW r \in Recursions(D, S)
    PROVE  Solutions(D, S, r) # {}
<1> DEFINE Stop == r.stop
           base == r.base
           next == r.next
           step == r.step
           rank == r.rank
           E(f, q) == IF q \in Stop THEN base[q] ELSE step[q][f[next[q]]]
           Good(k, f) == \A q \in D : rank[q] < k => f[q] = E(f, q)
           Partly(k) == \E f \in [D -> S] : Good(k, f)
           bad == {k \in Nat : ~Partly(k)}
<1>r. /\ Stop \in SUBSET D /\ base \in [D -> S] /\ next \in [D -> D]
      /\ step \in [D -> [S -> S]] /\ rank \in [D -> Nat]
      /\ \A q \in D \ Stop : rank[next[q]] < rank[q]
  BY DEF Recursions
<1> HIDE DEF Stop, base, next, step, rank
<1>0. /\ \A q \in D : rank[q] \in Nat /\ next[q] \in D /\ base[q] \in S /\ step[q] \in [S -> S]
      /\ \A q \in D \ Stop : rank[next[q]] < rank[q]
  BY <1>r
<1>1. \A f \in [D -> S] : \A q \in D : E(f, q) \in S
  BY <1>0
<1>2. \A f, g : \A q \in D : (q \notin Stop => f[next[q]] = g[next[q]]) => E(f, q) = E(g, q)
  OBVIOUS
<1> HIDE DEF E
<1>3. Partly(0)
  <2>1. \A q \in D : ~(rank[q] < 0)
    BY <1>0
  <2> QED BY <1>r, <2>1
<1>4. ASSUME NEW k \in Nat, Partly(k) PROVE Partly(k + 1)
  <2>1. PICK f \in [D -> S] : Good(k, f)
    BY <1>4
  <2> DEFINE g == [q \in D |-> E(f, q)]
  <2>2. g \in [D -> S]
    BY <1>1
  <2>3. \A q \in D : g[q] = E(f, q)
    OBVIOUS
  <2> HIDE DEF g
  <2>4. ASSUME NEW q \in D, rank[q] < k + 1 PROVE g[q] = E(g, q)
    <3>1. ASSUME q \notin Stop PROVE f[next[q]] = g[next[q]]
      <4>1. next[q] \in D /\ rank[next[q]] < k
        BY <1>0, <2>4, <3>1
      <4> QED BY <2>1, <2>3, <4>1
    <3> QED BY <1>2, <2>3, <3>1
  <2> QED BY <2>2, <2>4
<1> DEFINE H == [k \in Nat |-> CHOOSE f \in [D -> S] : Good(k, f)]
<1>5. \A k \in Nat : H[k] \in [D -> S] /\ Good(k, H[k])
  <2>1. \A k \in Nat : Partly(k)
    <3> SUFFICES ASSUME bad # {} PROVE FALSE
      <4> HIDE DEF Partly
      <4> QED OBVIOUS
    <3> HIDE DEF Partly
    <3>1. PICK k \in bad : \A j \in bad : k <= j
      <4>1. bad \subseteq Nat
        OBVIOUS
      <4> HIDE DEF bad
      <4> QED BY <4>1, Least
    <3>2. k \in Nat /\ ~Partly(k) /\ k # 0
      BY <1>3
    <3>3. k - 1 \in Nat /\ ~(k <= k - 1) /\ (k - 1) + 1 = k
      BY <3>2
    <3>4. Partly(k - 1)
      BY <3>1, <3>3
    <3>5. Partly((k - 1) + 1)
      BY <1>4, <3>3, <3>4
    <3> QED BY <3>2, <3>3, <3>5
  <2> TAKE k \in Nat
  <2>2. PICK f \in [D -> S] : Good(k, f)
    BY <2>1
  <2>3. H[k] = CHOOSE g \in [D -> S] : Good(k, g)
    OBVIOUS
  <2> HIDE DEF Good, H
  <2> QED BY <2>2, <2>3
<1> HIDE DEF H
<1> DEFINE G == {q \in D : \A j, k \in Nat :
                    rank[q] < j /\ rank[q] < k => H[j][q] = H[k][q]}
<1>6. G = D
  <2>1. ASSUME NEW q \in D, \A p \in D : rank[p] < rank[q] => p \in G PROVE q \in G
    <3>1. ASSUME NEW j \in Nat, NEW k \in Nat, rank[q] < j, rank[q] < k
          PROVE  H[j][q] = H[k][q]
      <4>1. ASSUME q \notin Stop PROVE H[j][next[q]] = H[k][next[q]]
        <5>1. next[q] \in D /\ rank[next[q]] \in Nat /\ rank[q] \in Nat
              /\ rank[next[q]] < rank[q]
          BY <1>0, <4>1
        <5>2. next[q] \in G /\ rank[next[q]] < j /\ rank[next[q]] < k
          BY <2>1, <3>1, <5>1
        <5> QED BY <5>2
      <4>2. H[j][q] = E(H[j], q) /\ H[k][q] = E(H[k], q)
        BY <1>5, <3>1
      <4> QED BY <1>2, <4>1, <4>2
    <3> QED BY <3>1
  <2>2. G \in SUBSET D
    OBVIOUS
  <2> HIDE DEF G
  <2>3. rank \in [D -> Nat]
    BY <1>r
  <2> QED BY <2>1, <2>2, <2>3, RankInduction
<1> DEFINE F == [q \in D |-> H[rank[q] + 1][q]]
<1>7. F \in [D -> S]
  BY <1>0, <1>5
<1>8. \A q \in D : F[q] = H[rank[q] + 1][q]
  OBVIOUS
<1> HIDE DEF F
<1>9. ASSUME NEW q \in D PROVE F[q] = E(F, q)
  <2> DEFINE k == rank[q] + 1
  <2>1. k \in Nat /\ rank[q] < k /\ rank[q] \in Nat
    BY <1>0
  <2>2. ASSUME q \notin Stop PROVE H[k][next[q]] = F[next[q]]
    <3>1. next[q] \in D /\ rank[next[q]] \in Nat /\ rank[next[q]] < rank[q]
      BY <1>0, <2>2
    <3>2. /\ rank[next[q]] + 1 \in Nat /\ rank[next[q]] < rank[next[q]] + 1
          /\ rank[next[q]] < k
      BY <2>1, <3>1
    <3>3. H[k][next[q]] = H[rank[next[q]] + 1][next[q]]
      BY <1>6, <2>1, <3>1, <3>2
    <3> QED BY <1>8, <3>1, <3>3
  <2>3. F[q] = H[k][q] /\ H[k][q] = E(H[k], q)
    BY <1>5, <1>8, <2>1
  <2> HIDE DEF k
  <2> QED BY <1>2, <2>2, <2>3
<1>10. \A q \in D : F[q] = IF q \in r.stop THEN r.base[q] ELSE r.step[q][F[r.next[q]]]
  BY <1>9 DEF E, Stop, base, next, step
<1> QED BY <1>7, <1>10 DEF Solutions

\* It has no other solution.
LEMMA RecursionTyped ==
    ASSUME NEW D, NEW S, NEW r \in Recursions(D, S), NEW T, NEW g \in Solutions(D, T, r)
    PROVE  g \in [D -> S]
<1>1. PICK f : f \in Solutions(D, S, r)
  BY RecursionDefined
<1> DEFINE G == {q \in D : g[q] = f[q]}
<1>2. /\ r.rank \in [D -> Nat] /\ r.next \in [D -> D]
      /\ \A q \in D \ r.stop : r.rank[r.next[q]] < r.rank[q]
  BY DEF Recursions
<1>3. /\ f \in [D -> S]
      /\ \A q \in D : f[q] = IF q \in r.stop THEN r.base[q] ELSE r.step[q][f[r.next[q]]]
      /\ g \in [D -> T]
      /\ \A q \in D : g[q] = IF q \in r.stop THEN r.base[q] ELSE r.step[q][g[r.next[q]]]
  BY <1>1 DEF Solutions
<1>4. ASSUME NEW q \in D, \A p \in D : r.rank[p] < r.rank[q] => p \in G PROVE q \in G
  <2>1. CASE q \in r.stop
    BY <1>3, <2>1
  <2>2. CASE q \notin r.stop
    <3>1. r.next[q] \in D /\ r.next[q] \in G
      BY <1>2, <1>4, <2>2
    <3> QED BY <1>3, <2>2, <3>1
  <2> QED BY <2>1, <2>2
<1>5. G \in SUBSET D
  OBVIOUS
<1> HIDE DEF G
<1>6. G = D
  <2>1. r.rank \in [D -> Nat]
    BY <1>2
  <2> QED BY <1>4, <1>5, <2>1, RankInduction
<1> QED BY <1>3, <1>6 DEF G

\* So is a loop from state to state.
Iterations(D, S) ==
    {r \in [stop : SUBSET D, base : [D -> S], next : [D -> D], rank : [D -> Nat]] :
        \A q \in D \ r.stop : r.rank[r.next[q]] < r.rank[q]}

Outcomes(D, S, l) ==
    {f \in [D -> S] : \A q \in D : f[q] = IF q \in l.stop THEN l.base[q] ELSE f[l.next[q]]}

LEMMA IterationDefined ==
    ASSUME NEW D, NEW S, NEW l \in Iterations(D, S)
    PROVE  Outcomes(D, S, l) # {}
<1> DEFINE same == [q \in D |-> [x \in S |-> x]]
           r == [stop |-> l.stop, base |-> l.base, next |-> l.next, step |-> same,
                 rank |-> l.rank]
<1>1. same \in [D -> [S -> S]] /\ \A q \in D : \A x \in S : same[q][x] = x
  OBVIOUS
<1> HIDE DEF same
<1>2. r \in Recursions(D, S)
  BY <1>1 DEF Iterations, Recursions
<1>3. /\ r.stop = l.stop /\ r.base = l.base /\ r.next = l.next /\ r.step = same
      /\ l.next \in [D -> D]
  BY DEF Iterations
<1> HIDE DEF r
<1>4. PICK f \in [D -> S] : \A q \in D :
         f[q] = IF q \in r.stop THEN r.base[q] ELSE r.step[q][f[r.next[q]]]
  BY <1>2, RecursionDefined DEF Solutions
<1>5. \A q \in D : l.next[q] \in D /\ f[l.next[q]] \in S
  BY <1>3
<1>6. \A q \in D : f[q] = IF q \in l.stop THEN l.base[q] ELSE f[l.next[q]]
  BY <1>1, <1>3, <1>4, <1>5
<1> QED BY <1>6 DEF Outcomes

\* It has no other result.
LEMMA IterationTyped ==
    ASSUME NEW D, NEW S, NEW l \in Iterations(D, S), NEW T, NEW g \in Outcomes(D, T, l)
    PROVE  g \in [D -> S]
<1>1. PICK f : f \in Outcomes(D, S, l)
  BY IterationDefined
<1> DEFINE G == {q \in D : g[q] = f[q]}
<1>2. /\ l.rank \in [D -> Nat] /\ l.next \in [D -> D]
      /\ \A q \in D \ l.stop : l.rank[l.next[q]] < l.rank[q]
  BY DEF Iterations
<1>3. /\ f \in [D -> S] /\ \A q \in D : f[q] = IF q \in l.stop THEN l.base[q] ELSE f[l.next[q]]
      /\ g \in [D -> T] /\ \A q \in D : g[q] = IF q \in l.stop THEN l.base[q] ELSE g[l.next[q]]
  BY <1>1 DEF Outcomes
<1>4. ASSUME NEW q \in D, \A p \in D : l.rank[p] < l.rank[q] => p \in G PROVE q \in G
  <2>1. CASE q \in l.stop
    BY <1>3, <2>1
  <2>2. CASE q \notin l.stop
    <3>1. l.next[q] \in D /\ l.next[q] \in G
      BY <1>2, <1>4, <2>2
    <3> QED BY <1>3, <2>2, <3>1
  <2> QED BY <2>1, <2>2
<1>5. G \in SUBSET D
  OBVIOUS
<1> HIDE DEF G
<1>6. G = D
  <2>1. l.rank \in [D -> Nat]
    BY <1>2
  <2> QED BY <1>4, <1>5, <2>1, RankInduction
<1> QED BY <1>3, <1>6 DEF G
=============================================================================
