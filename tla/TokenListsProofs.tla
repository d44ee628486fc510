------------------------- MODULE TokenListsProofs --------------------------
(***************************************************************************)
(* The invariants of TokenLists.tla, for every pool, every set of names    *)
(* and every block size.  Shape: the pointers are four sequences of tokens *)
(* and the cursors of the sort stand at numbered places in them.  Sorted:  *)
(* what of the members is in order at each label of the sort.  All that is *)
(* checked of the lists follows from the two.                              *)
(***************************************************************************)
EXTENDS TokenListsMC, LinksProofs

In(n, s) == \E i \in 1 .. Len(s) : s[i] = n

LEMMA InsertedIn ==
    ASSUME NEW s \in Seq(Nodes), NEW k \in 0 .. Len(s), NEW x \in Nodes
    PROVE  \A n : In(n, Inserted(s, k, x)) <=> n = x \/ In(n, s)
<1>1. PICK t : t = Inserted(s, k, x)
  OBVIOUS
<1>2. /\ Len(t) = Len(s) + 1 /\ Len(s) \in Nat /\ k \in Nat /\ k <= Len(s)
      /\ \A i \in 1 .. Len(s) + 1 : t[i] = IF i <= k THEN s[i] ELSE IF i = k + 1 THEN x ELSE s[i - 1]
  <2>1. /\ Len(t) = Len(s) + 1
        /\ \A i \in 1 .. Len(s) + 1 : t[i] = IF i <= k THEN s[i] ELSE IF i = k + 1 THEN x ELSE s[i - 1]
    BY <1>1, InsertedIs
  <2> QED BY <2>1
<1>3. ASSUME NEW i \in 1 .. Len(t) PROVE t[i] = x \/ In(t[i], s)
  <2>1. i \in 1 .. Len(s) + 1
    BY <1>2
  <2>2. CASE i <= k
    <3>1. i \in 1 .. Len(s) /\ t[i] = s[i]
      BY <1>2, <2>1, <2>2
    <3> QED BY <3>1 DEF In
  <2>3. CASE i > k /\ i # k + 1
    <3>1. i - 1 \in 1 .. Len(s) /\ ~(i <= k)
      BY <1>2, <2>1, <2>3
    <3>2. t[i] = s[i - 1]
      BY <1>2, <2>1, <2>3, <3>1
    <3> QED BY <3>1, <3>2 DEF In
  <2>4. CASE i = k + 1
    <3>1. ~(i <= k)
      BY <1>2, <2>4
    <3> QED BY <1>2, <2>1, <2>4, <3>1
  <2> QED BY <1>2, <2>1, <2>2, <2>3, <2>4
<1>4. \E i \in 1 .. Len(t) : t[i] = x
  <2>1. k + 1 \in 1 .. Len(s) + 1 /\ ~(k + 1 <= k)
    BY <1>2
  <2> QED BY <1>2, <2>1
<1>5. ASSUME NEW i \in 1 .. Len(s) PROVE \E j \in 1 .. Len(t) : t[j] = s[i]
  <2>1. CASE i <= k
    <3>1. i \in 1 .. Len(s) + 1
      BY <1>2
    <3> QED BY <1>2, <2>1, <3>1
  <2>2. CASE ~(i <= k)
    <3>1. i + 1 \in 1 .. Len(s) + 1 /\ ~(i + 1 <= k) /\ i + 1 # k + 1 /\ (i + 1) - 1 = i
      BY <1>2, <2>2
    <3> QED BY <1>2, <3>1
  <2> QED BY <2>1, <2>2
<1>6. ASSUME NEW n, In(n, t) PROVE n = x \/ In(n, s)
  <2>1. PICK i \in 1 .. Len(t) : t[i] = n
    BY <1>6 DEF In
  <2> QED BY <1>3, <2>1
<1>7. ASSUME NEW n, n = x \/ In(n, s) PROVE In(n, t)
  BY <1>4, <1>5, <1>7 DEF In
<1> QED BY <1>1, <1>6, <1>7

LEMMA RemovedIn ==
    ASSUME NEW s \in Seq(Nodes), Distinct(s), NEW k \in 1 .. Len(s)
    PROVE  \A n : In(n, Removed(s, k)) <=> n # s[k] /\ In(n, s)
<1>1. PICK t : t = Removed(s, k)
  OBVIOUS
<1>2. /\ Len(t) = Len(s) - 1 /\ Len(s) \in Nat
      /\ \A i \in 1 .. Len(s) - 1 : t[i] = IF i < k THEN s[i] ELSE s[i + 1]
  BY <1>1, RemovedIs
<1>3. \A i, j \in 1 .. Len(s) : s[i] = s[j] => i = j
  BY DEF Distinct
<1>4. ASSUME NEW i \in 1 .. Len(t) PROVE t[i] # s[k] /\ In(t[i], s)
  <2>1. i \in 1 .. Len(s) - 1 /\ i \in 1 .. Len(s) /\ i + 1 \in 1 .. Len(s) /\ (i < k => i # k) /\ (~(i < k) => i + 1 # k)
    BY <1>2
  <2> QED BY <1>2, <1>3, <2>1 DEF In
<1>5. ASSUME NEW i \in 1 .. Len(s), i # k PROVE \E j \in 1 .. Len(t) : t[j] = s[i]
  <2>1. CASE i < k
    <3>1. i \in 1 .. Len(s) - 1
      BY <1>2, <2>1
    <3> QED BY <1>2, <2>1, <3>1
  <2>2. CASE i > k
    <3>1. i - 1 \in 1 .. Len(s) - 1 /\ ~(i - 1 < k) /\ (i - 1) + 1 = i
      BY <1>2, <2>2
    <3> QED BY <1>2, <3>1
  <2> QED BY <1>5, <2>1, <2>2
<1>6. ASSUME NEW n, In(n, t) PROVE n # s[k] /\ In(n, s)
  <2>1. PICK i \in 1 .. Len(t) : t[i] = n
    BY <1>6 DEF In
  <2> QED BY <1>4, <2>1
<1>7. ASSUME NEW n, n # s[k], In(n, s) PROVE In(n, t)
  <2>1. PICK i \in 1 .. Len(s) : s[i] = n
    BY <1>7 DEF In
  <2>2. i # k
    BY <1>7, <2>1
  <2> QED BY <1>5, <2>1, <2>2 DEF In
<1> QED BY <1>1, <1>6, <1>7

\* A node goes from the head of one list to a cell of the other.
LEMMA MoveNode ==
    ASSUME NEW h, NEW a, NEW s, NEW b, NEW d, TwoLists(h, a, s, b, d), NEW k \in 1 .. Len(s),
           NEW m \in 0 .. Len(d)
    PROVE  LET x == s[k]
               r == InsertAfter(Del(h, x), CellAt(b, d, m), x)
           IN  /\ TwoLists(r, a, Removed(s, k), b, Inserted(d, m, x))
               /\ x \in Nodes /\ In(x, s) /\ ~In(x, d)
               /\ \A n : In(n, Removed(s, k)) <=> n # x /\ In(n, s)
               /\ \A n : In(n, Inserted(d, m, x)) <=> n = x \/ In(n, d)
<1>1. PICK x : x = s[k]
  OBVIOUS
<1>2. PICK g : g = Del(h, x)
  OBVIOUS
<1>3. PICK t : t = Removed(s, k)
  OBVIOUS
<1>4. s \in Seq(Nodes) /\ d \in Seq(Nodes) /\ Distinct(s) /\ x \in Nodes
  BY <1>1 DEF TwoLists, Disjoint
<1>5. TwoLists(g, a, t, b, d) /\ \A n : On(n, t, d) <=> n # x /\ On(n, s, d)
  BY <1>1, <1>2, <1>3, DeleteList
<1>6. TwoLists(g, b, d, a, t) /\ ~On(x, d, t)
  <2>1. ~On(x, t, d)
    BY <1>5
  <2>2. TwoLists(g, b, d, a, t)
    BY <1>5, Swap
  <2> QED BY <2>1, <2>2 DEF On
<1>7. TwoLists(InsertAfter(g, CellAt(b, d, m), x), b, Inserted(d, m, x), a, t)
  BY <1>4, <1>6, InsertList
<1>8. TwoLists(InsertAfter(g, CellAt(b, d, m), x), a, t, b, Inserted(d, m, x))
  BY <1>7, Swap
<1>9. In(x, s)
  BY <1>1 DEF In
<1>10. ~In(x, d)
  BY <1>6 DEF On, In
<1>11. \A n : In(n, t) <=> n # x /\ In(n, s)
  BY <1>1, <1>3, <1>4, RemovedIn
<1>12. \A n : In(n, Inserted(d, m, x)) <=> n = x \/ In(n, d)
  BY <1>4, InsertedIn
<1> QED BY <1>1, <1>2, <1>3, <1>4, <1>8, <1>9, <1>10, <1>11, <1>12

-----------------------------------------------------------------------------
(* The state of the lists. *)

\* f and a are the free and the active list of the pool.
PoolShape(f, a) ==
    /\ TwoLists(alloc, "free", f, "active", a)
    /\ pc # "init" => \A t \in Tokens : In(t, f) \/ In(t, a)

\* The members are tokens in use.
Members(a) ==
    /\ order \in Seq(Tokens) /\ Distinct(order)
    /\ name \in [Tokens -> Names \cup {None}]
    /\ value \in Pointers
    /\ \A i \in 1 .. Len(order) : In(order[i], a) /\ name[order[i]] \in Names
    /\ value # None => pc \in {"members", "reset"}
    /\ pc = "members" /\ value # None =>
          In(value, a) /\ ~In(value, order) /\ name[value] \in Names
    /\ pc \in {"members", "closed"} \cup SortLabels => len = Len(order)
    /\ pc \in {"init", "ready", "reset"} => order = <<>>

\* Two lists hold the members, each once.
Covers(s, d) ==
    /\ Len(s) + Len(d) = Len(order)
    /\ \A t \in Tokens : In(t, s) \/ In(t, d) <=> In(t, order)

\* While the object is given up, the links of what is freed already are unset.
Loose(a) ==
    /\ sib \in Links
    /\ \A c \in Cells : c # "o" /\ ~In(c, a) => sib.next[c] = None
    /\ \A n \in Nodes : ~In(n, a) => sib.toSelf[n] = None

\* s is the list of the object, d is dest_list.
Lists(a, s, d) ==
    /\ pc \notin {"reset", "pass"} => TwoLists(sib, "o", s, "dest", d)
    /\ pc = "pass" => TwoHeads(sib, "o", s, "dest")
    /\ pc = "reset" => Loose(a)
    /\ pc # "reset" => Covers(s, d)
    /\ pc \in {"init", "ready", "members", "closed", "pass"} => d = <<>>
    /\ pc = "passed" => s = <<>>
    /\ pc = "members" => s = order

\* Of the list of the object, the first p tokens are what is left of the left
\* section, and the first q of both.
Cursors(s, d, p, q) ==
    /\ local \in Locals
    /\ pc \in SortLabels => local.distance # 0
    /\ pc = "insert" =>
          /\ local.distance = BlockSize
          /\ local.cached = None <=> local.i = 0
          /\ local.cached # None => In(local.cached, d)
          /\ \E k \in 0 .. Len(d) : local.cursor = CellAt("dest", d, k)
    /\ pc \in {"section", "merge"} =>
          /\ p \in 0 .. q /\ q \in 1 .. Len(s)
          /\ local.left = s[1]
          /\ local.right = NodeAt(s, p + 1) /\ local.rightEnd = NodeAt(s, q + 1)
          /\ local.ins = IF d = <<>> THEN None ELSE d[Len(d)]

Shape(f, a, s, d, p, q) ==
    PoolShape(f, a) /\ Members(a) /\ Lists(a, s, d) /\ Cursors(s, d, p, q)

-----------------------------------------------------------------------------
(* The pool. *)

LEMMA HeadsAre == {"free", "active", "o", "dest"} \subseteq Heads /\ Tokens = Nodes
BY HeadsAssumption DEF Tokens

\* new_token_
LEMMA TakeShape ==
    ASSUME NEW f, NEW a, PoolShape(f, a), pc # "init", pc' # "init", TakeToken(Newest)
    PROVE  \E f1, a1 : /\ PoolShape(f1, a1)'
                       /\ Newest \in Tokens /\ ~In(Newest, a)
                       /\ \A n : In(n, a1) <=> n = Newest \/ In(n, a)
<1>1. TwoLists(alloc, "free", f, "active", a) /\ f \in Seq(Nodes) /\ a \in Seq(Nodes)
      /\ Len(f) \in Nat /\ Len(a) \in Nat
  BY DEF PoolShape, TwoLists, Disjoint
<1>2. f # <<>>
  <2>1. Newest # None
    BY DEF TakeToken
  <2>2. 0 \in 0 .. Len(f) /\ (f = <<>> => 0 + 1 \notin 1 .. Len(f))
    BY <1>1
  <2>3. alloc.next[CellAt("free", f, 0)] = NodeAt(f, 0 + 1)
    BY <1>1, <2>2 DEF TwoLists, Listed
  <2> QED BY <2>1, <2>2, <2>3 DEF Newest, CellAt, NodeAt
<1>3. 1 \in 1 .. Len(f) /\ Newest = f[1] /\ Pop(alloc, "free") = Del(alloc, f[1])
  BY <1>1, <1>2, PopIsDel DEF Newest
<1>4. 0 \in 0 .. Len(a) /\ CellAt("active", a, 0) = "active"
  BY <1>1 DEF CellAt
<1>5. alloc' = InsertAfter(Del(alloc, f[1]), CellAt("active", a, 0), f[1])
  BY <1>3, <1>4 DEF TakeToken
<1>6. /\ TwoLists(alloc', "free", Removed(f, 1), "active", Inserted(a, 0, f[1]))
      /\ f[1] \in Nodes /\ In(f[1], f) /\ ~In(f[1], a)
      /\ \A n : In(n, Removed(f, 1)) <=> n # f[1] /\ In(n, f)
      /\ \A n : In(n, Inserted(a, 0, f[1])) <=> n = f[1] \/ In(n, a)
  BY <1>1, <1>3, <1>4, <1>5, MoveNode
<1>7. \A t \in Tokens : In(t, Removed(f, 1)) \/ In(t, Inserted(a, 0, f[1]))
  BY <1>6 DEF PoolShape
<1>8. PICK x : x = Newest
  OBVIOUS
<1>9. PICK f1, a1 : f1 = Removed(f, 1) /\ a1 = Inserted(a, 0, x)
  OBVIOUS
<1>10. PoolShape(f1, a1)'
  BY <1>3, <1>6, <1>7, <1>8, <1>9 DEF PoolShape
<1> QED BY <1>3, <1>6, <1>8, <1>9, <1>10 DEF Tokens

-----------------------------------------------------------------------------
(* The parser. *)

LEMMA HeadOf ==
    ASSUME NEW h, NEW a, NEW s, NEW b, NEW d, TwoLists(h, a, s, b, d)
    PROVE  /\ s \in Seq(Nodes) /\ d \in Seq(Nodes) /\ Distinct(s) /\ Distinct(d)
           /\ Len(s) \in Nat /\ Len(d) \in Nat
           /\ h \in Links /\ h.next[a] = NodeAt(s, 1) /\ h.next[b] = NodeAt(d, 1)
           /\ (s = <<>> <=> h.next[a] = None) /\ (s = <<>> <=> Len(s) = 0)
           /\ \A n : On(n, s, d) <=> In(n, s) \/ In(n, d)
<1>1. s \in Seq(Nodes) /\ d \in Seq(Nodes) /\ Len(s) \in Nat /\ Len(d) \in Nat
      /\ Distinct(s) /\ Distinct(d) /\ h \in Links
  BY DEF TwoLists, Disjoint
<1>2. 0 \in 0 .. Len(s) /\ 0 \in 0 .. Len(d) /\ 0 + 1 = 1
  BY <1>1
<1>3. h.next[CellAt(a, s, 0)] = NodeAt(s, 0 + 1) /\ h.next[CellAt(b, d, 0)] = NodeAt(d, 0 + 1)
  BY <1>2 DEF TwoLists, Listed
<1>4. h.next[a] = NodeAt(s, 1) /\ h.next[b] = NodeAt(d, 1)
  BY <1>2, <1>3 DEF CellAt
<1>5. s = <<>> <=> Len(s) = 0
  BY <1>1
<1>6. NodeAt(s, 1) = None <=> Len(s) = 0
  <2>1. Len(s) # 0 => 1 \in 1 .. Len(s) /\ s[1] \in Nodes
    BY <1>1
  <2>2. Len(s) = 0 => 1 \notin 1 .. Len(s)
    OBVIOUS
  <2> QED BY <2>1, <2>2, CellsAssumption DEF NodeAt
<1>7. \A n : On(n, s, d) <=> In(n, s) \/ In(n, d)
  BY DEF On, In
<1> QED BY <1>1, <1>4, <1>5, <1>6, <1>7

\* Something points to every node of the lists.
LEMMA ListedLinked ==
    ASSUME NEW h, NEW a, NEW s, NEW b, NEW d, TwoLists(h, a, s, b, d), NEW n, On(n, s, d)
    PROVE  h.toSelf[n] # None
<1>1. \A i \in 1 .. Len(s) : h.toSelf[s[i]] = CellAt(a, s, i - 1)
  BY DEF TwoLists, Listed
<1>2. \A i \in 1 .. Len(d) : h.toSelf[d[i]] = CellAt(b, d, i - 1)
  BY DEF TwoLists, Listed
<1>3. Len(s) \in Nat /\ Len(d) \in Nat
  BY HeadOf
<1>4. Disjoint(a, s, b, d) /\ Disjoint(b, d, a, s)
  BY DEF TwoLists, Disjoint
<1>5. \A i \in 0 .. Len(s) : CellAt(a, s, i) \in Cells
  BY <1>4, CellsOf
<1>6. \A i \in 0 .. Len(d) : CellAt(b, d, i) \in Cells
  BY <1>4, CellsOf
<1>7. (\A i \in 1 .. Len(s) : i - 1 \in 0 .. Len(s)) /\ (\A i \in 1 .. Len(d) : i - 1 \in 0 .. Len(d))
      /\ None \notin Cells
  BY <1>3, CellsAssumption DEF Cells
<1> QED BY <1>1, <1>2, <1>5, <1>6, <1>7 DEF On

LEMMA EmptyIn == /\ \A n : ~In(n, <<>>)
                 /\ Len(<<>>) = 0 /\ <<>> \in Seq(Nodes) /\ Distinct(<<>>)
BY DEF In, Distinct

\* A token that is not in use has no link among the members.
LEMMA IdleSibling ==
    ASSUME NEW f, NEW a, NEW s, NEW d, NEW p, NEW q, Shape(f, a, s, d, p, q),
           pc \in {"ready", "members"}, NEW t \in Tokens, ~In(t, a)
    PROVE  ~On(t, s, d) /\ TwoLists(sib, "o", s, "dest", d) /\ Unlinked(sib, t) = sib
           /\ ~In(t, order) /\ t # value
<1>1. TwoLists(sib, "o", s, "dest", d) /\ Covers(s, d)
  BY DEF Shape, Lists
<1>2. ~In(t, order)
  <2>1. \A i \in 1 .. Len(order) : In(order[i], a)
    BY DEF Shape, Members
  <2> QED BY <2>1 DEF In
<1>3. ~On(t, s, d)
  BY <1>1, <1>2, HeadOf DEF Covers
<1>4. t # value
  <2>1. value # None => pc = "members" /\ In(value, a)
    BY DEF Shape, Members
  <2> QED BY <2>1, HeadsAre, CellsAssumption
<1> QED BY <1>1, <1>2, <1>3, <1>4, UnlinkedOff, HeadsAre

LEMMA OpenObjectShape ==
    ASSUME NEW f, NEW a, NEW s, NEW d, NEW p, NEW q, Shape(f, a, s, d, p, q), OpenObject
    PROVE  \E f1, a1 : Shape(f1, a1, <<>>, <<>>, p, q)'
<1>1. pc = "ready" /\ pc' = "members" /\ TakeToken(Newest) /\ len' = 0
      /\ sib' = Point(Unlinked(sib, Newest), "o", None)
      /\ name' = name /\ value' = value /\ local' = local /\ order' = order
  BY DEF OpenObject
<1>2. PoolShape(f, a)
  BY DEF Shape
<1>3. PICK f1, a1 : PoolShape(f1, a1)' /\ Newest \in Tokens /\ ~In(Newest, a)
                    /\ \A n : In(n, a1) <=> n = Newest \/ In(n, a)
  BY <1>1, <1>2, TakeShape
<1>4. Unlinked(sib, Newest) = sib /\ TwoLists(sib, "o", s, "dest", d) /\ Covers(s, d)
  BY <1>1, <1>3, IdleSibling DEF Shape, Lists
<1>5. order = <<>> /\ value = None
  BY <1>1 DEF Shape, Members
<1>6. s = <<>> /\ d = <<>>
  <2>1. Len(s) + Len(d) = 0 /\ Len(s) \in Nat /\ Len(d) \in Nat /\ s \in Seq(Nodes) /\ d \in Seq(Nodes)
    BY <1>4, <1>5, EmptyIn, HeadOf DEF Covers
  <2> QED BY <2>1
<1>7. sib' = sib
  <2>1. TwoLists(sib, "dest", <<>>, "o", <<>>)
    BY <1>4, <1>6, Swap
  <2> QED BY <1>1, <1>4, <2>1, PointEmpty
<1>8. Members(a1)'
  BY <1>1, <1>5, EmptyIn DEF Shape, Members, SortLabels
<1>9. Lists(a1, <<>>, <<>>)'
  BY <1>1, <1>4, <1>5, <1>6, <1>7 DEF Lists, Covers
<1>10. Cursors(<<>>, <<>>, p, q)'
  BY <1>1 DEF Shape, Cursors, SortLabels
<1> QED BY <1>3, <1>8, <1>9, <1>10 DEF Shape

LEMMA ReadNameShape ==
    ASSUME NEW f, NEW a, NEW s, NEW d, NEW p, NEW q, Shape(f, a, s, d, p, q), NEW n \in Names,
           ReadName(n)
    PROVE  \E f1, a1 : Shape(f1, a1, s, d, p, q)'
<1>1. PICK x : x = Newest
  OBVIOUS
<1>2. pc = "members" /\ pc' = "members" /\ TakeToken(Newest) /\ len' = len /\ value = None
      /\ sib' = Unlinked(sib, x) /\ value' = x
      /\ name' = [name EXCEPT ![x] = n] /\ local' = local /\ order' = order
  BY <1>1 DEF ReadName
<1>3. PoolShape(f, a)
  BY DEF Shape
<1>4. PICK f1, a1 : PoolShape(f1, a1)' /\ x \in Tokens /\ ~In(x, a)
                    /\ \A m : In(m, a1) <=> m = x \/ In(m, a)
  BY <1>1, <1>2, <1>3, TakeShape
<1>5. sib' = sib /\ ~In(x, order) /\ x # None
  BY <1>2, <1>4, IdleSibling, HeadsAre, CellsAssumption
<1>6. /\ name' \in [Tokens -> Names \cup {None}] /\ name'[x] = n
      /\ \A t \in Tokens : t # x => name'[t] = name[t]
  BY <1>2, <1>4 DEF Shape, Members
<1>7. \A i \in 1 .. Len(order) : order[i] \in Tokens /\ order[i] # x
  BY <1>5 DEF Shape, Members, In
<1>8. Members(a1)'
  <2>1. \A i \in 1 .. Len(order) : In(order[i], a1) /\ name'[order[i]] \in Names
    BY <1>4, <1>6, <1>7 DEF Shape, Members
  <2>2. len = Len(order) /\ order \in Seq(Tokens) /\ Distinct(order)
    BY <1>2 DEF Shape, Members
  <2>3. x \in Pointers /\ In(x, a1) /\ name'[x] \in Names
    BY <1>4, <1>6 DEF Pointers
  <2> QED BY <1>2, <1>5, <1>6, <2>1, <2>2, <2>3 DEF Members, In
<1>9. Lists(a1, s, d)'
  BY <1>2, <1>5 DEF Shape, Lists, Covers
<1>10. Cursors(s, d, p, q)'
  BY <1>2 DEF Shape, Cursors, SortLabels
<1> QED BY <1>4, <1>8, <1>9, <1>10 DEF Shape

LEMMA CutNameShape ==
    ASSUME NEW f, NEW a, NEW s, NEW d, NEW p, NEW q, Shape(f, a, s, d, p, q), CutName
    PROVE  \E f1, a1 : Shape(f1, a1, s, d, p, q)'
<1>1. PICK x : x = Newest
  OBVIOUS
<1>2. PICK taken : taken = InsertAfter(Pop(alloc, "free"), "active", x)
  OBVIOUS
<1>3. pc = "members" /\ pc' = "members" /\ len' = len /\ value = None /\ x # None
      /\ sib' = Unlinked(sib, x) /\ value' = value
      /\ name' = [name EXCEPT ![x] = None] /\ local' = local /\ order' = order
      /\ alloc' = InsertAfter(Del(taken, x), "free", x)
  BY <1>1, <1>2 DEF CutName
<1>4. TwoLists(alloc, "free", f, "active", a) /\ \A t \in Tokens : In(t, f) \/ In(t, a)
  BY <1>3 DEF Shape, PoolShape
<1>5. f # <<>> /\ Len(f) \in Nat /\ Len(a) \in Nat /\ f \in Seq(Nodes) /\ a \in Seq(Nodes)
  BY <1>1, <1>3, <1>4, HeadOf DEF Newest
<1>6. 1 \in 1 .. Len(f) /\ x = f[1] /\ Pop(alloc, "free") = Del(alloc, f[1])
  BY <1>1, <1>4, <1>5, PopIsDel DEF Newest
<1>7. 0 \in 0 .. Len(a) /\ CellAt("active", a, 0) = "active" /\ taken = InsertAfter(Del(alloc, f[1]), CellAt("active", a, 0), f[1])
  BY <1>2, <1>5, <1>6 DEF CellAt
<1>8. PICK f1, a1 : f1 = Removed(f, 1) /\ a1 = Inserted(a, 0, x)
  OBVIOUS
<1>9. /\ TwoLists(taken, "free", f1, "active", a1)
      /\ x \in Nodes /\ ~In(x, a)
      /\ \A n : In(n, f1) <=> n # x /\ In(n, f)
      /\ \A n : In(n, a1) <=> n = x \/ In(n, a)
  BY <1>4, <1>6, <1>7, <1>8, MoveNode
<1>10. TwoLists(taken, "active", a1, "free", f1) /\ Len(a1) \in Nat /\ Len(f1) \in Nat /\ a1 # <<>>
  <2>1. TwoLists(taken, "active", a1, "free", f1)
    BY <1>9, Swap
  <2>2. In(x, a1)
    BY <1>9
  <2> QED BY <2>1, <2>2, HeadOf, EmptyIn
<1>11. 1 \in 1 .. Len(a1) /\ a1[1] = x
  <2>1. 0 \in 0 .. Len(a) /\ 1 \in 1 .. Len(a) + 1 /\ ~(1 <= 0) /\ 1 = 0 + 1
    BY <1>5
  <2>2. /\ Len(a1) = Len(a) + 1
        /\ \A i \in 1 .. Len(a) + 1 : a1[i] = IF i <= 0 THEN a[i] ELSE IF i = 0 + 1 THEN x ELSE a[i - 1]
    <3>1. a \in Seq(Nodes) /\ x \in Nodes /\ 0 \in 0 .. Len(a) /\ a1 = Inserted(a, 0, x)
      BY <1>5, <1>8, <1>9, <2>1
    <3> QED BY <3>1, InsertedIs
  <2> QED BY <2>1, <2>2
<1>12. 0 \in 0 .. Len(f1) /\ CellAt("free", f1, 0) = "free"
  BY <1>10 DEF CellAt
<1>13. PICK a2, f2 : a2 = Removed(a1, 1) /\ f2 = Inserted(f1, 0, x)
  OBVIOUS
<1>14. /\ TwoLists(alloc', "active", a2, "free", f2)
       /\ \A n : In(n, a2) <=> n # x /\ In(n, a1)
       /\ \A n : In(n, f2) <=> n = x \/ In(n, f1)
  BY <1>3, <1>10, <1>11, <1>12, <1>13, MoveNode
<1>15. /\ \A n : In(n, a2) <=> In(n, a)
       /\ \A n : In(n, f2) <=> In(n, f)
  BY <1>6, <1>9, <1>14 DEF In
<1>16. PoolShape(f2, a2)'
  <2>1. TwoLists(alloc', "free", f2, "active", a2)
    BY <1>14, Swap
  <2>2. \A t \in Tokens : In(t, f2) \/ In(t, a2)
    BY <1>4, <1>15
  <2> QED BY <2>1, <2>2 DEF PoolShape
<1>17. sib' = sib /\ ~In(x, order)
  BY <1>3, <1>9, IdleSibling, HeadsAre
<1>18. /\ name' \in [Tokens -> Names \cup {None}]
       /\ \A t \in Tokens : t # x => name'[t] = name[t]
  BY <1>3, <1>9, HeadsAre DEF Shape, Members
<1>19. \A i \in 1 .. Len(order) : order[i] \in Tokens /\ order[i] # x
  BY <1>17 DEF Shape, Members, In
<1>20. Members(a2)'
  <2>1. \A i \in 1 .. Len(order) : In(order[i], a2) /\ name'[order[i]] \in Names
    BY <1>15, <1>18, <1>19 DEF Shape, Members
  <2>2. len = Len(order) /\ order \in Seq(Tokens) /\ Distinct(order)
    BY <1>3 DEF Shape, Members
  <2>3. None \in Pointers
    BY DEF Pointers
  <2> QED BY <1>3, <1>18, <2>1, <2>2, <2>3 DEF Members, In
<1>21. Lists(a2, s, d)'
  BY <1>3, <1>17 DEF Shape, Lists, Covers
<1>22. Cursors(s, d, p, q)'
  BY <1>3 DEF Shape, Cursors, SortLabels
<1> QED BY <1>16, <1>20, <1>21, <1>22 DEF Shape

LEMMA ReadValueShape ==
    ASSUME NEW f, NEW a, NEW s, NEW d, NEW p, NEW q, Shape(f, a, s, d, p, q), ReadValue
    PROVE  \E s1 : Shape(f, a, s1, d, p, q)'
<1>1. pc = "members" /\ pc' = "members" /\ value # None
      /\ sib' = Add(sib, "o", value) /\ len' = len + 1 /\ order' = Append(order, value)
      /\ value' = None /\ alloc' = alloc /\ name' = name /\ local' = local
  BY DEF ReadValue
<1>2. /\ order \in Seq(Tokens) /\ Distinct(order) /\ len = Len(order)
      /\ In(value, a) /\ ~In(value, order) /\ name[value] \in Names /\ value \in Tokens
      /\ \A i \in 1 .. Len(order) : In(order[i], a) /\ name[order[i]] \in Names
      /\ name \in [Tokens -> Names \cup {None}]
  BY <1>1 DEF Shape, Members, Pointers, SortLabels
<1>3. TwoLists(sib, "o", order, "dest", <<>>) /\ Covers(order, <<>>) /\ s = order /\ d = <<>>
  BY <1>1 DEF Shape, Lists
<1>4. ~On(value, order, <<>>) /\ Len(order) \in Nat
  BY <1>2, <1>3, EmptyIn, HeadOf
<1>5. PICK s1 : s1 = Inserted(order, Len(order), value)
  OBVIOUS
<1>6. Len(order) \in 0 .. Len(order) /\ value \in Nodes /\ order \in Seq(Nodes)
  BY <1>2, <1>4, HeadsAre
<1>7. TwoLists(sib', "o", s1, "dest", <<>>)
  <2>1. sib' = InsertAfter(sib, CellAt("o", order, Len(order)), value)
    BY <1>1, <1>3, <1>4, <1>6, AddIs
  <2> QED BY <1>3, <1>4, <1>5, <1>6, <2>1, InsertList
<1>8. \A n : In(n, s1) <=> n = value \/ In(n, order)
  BY <1>5, <1>6, InsertedIn
<1>9. s1 = order'
  <2>1. /\ s1 \in Seq(Nodes) /\ Len(s1) = Len(order) + 1
        /\ \A i \in 1 .. Len(order) + 1 :
             s1[i] = IF i <= Len(order) THEN order[i] ELSE IF i = Len(order) + 1 THEN value ELSE order[i - 1]
    <3>1. order \in Seq(Nodes) /\ value \in Nodes /\ Len(order) \in 0 .. Len(order) /\ s1 = Inserted(order, Len(order), value)
      BY <1>5, <1>6
    <3> QED BY <3>1, InsertedIs
  <2>2. PICK t : t = Append(order, value)
    OBVIOUS
  <2>3. /\ t \in Seq(Nodes) /\ Len(t) = Len(order) + 1
        /\ \A i \in 1 .. Len(order) + 1 : t[i] = IF i <= Len(order) THEN order[i] ELSE value
    BY <1>6, <2>2
  <2>4. \A i \in 1 .. Len(s1) : s1[i] = t[i]
    <3> TAKE i \in 1 .. Len(s1)
    <3>1. i \in 1 .. Len(order) + 1 /\ (~(i <= Len(order)) => i = Len(order) + 1)
      BY <1>4, <2>1
    <3> QED BY <2>1, <2>3, <3>1
  <2>5. s1 = t
    BY <2>1, <2>3, <2>4, SeqEqual
  <2> QED BY <1>1, <2>2, <2>5
<1>10. /\ s1 \in Seq(Tokens) /\ Distinct(s1) /\ Len(s1) = Len(order) + 1
  <2>1. s1 \in Seq(Nodes) /\ Distinct(s1)
    BY <1>7, HeadOf
  <2>2. Len(s1) = Len(order) + 1
    BY <1>5, <1>6, InsertedIs
  <2> QED BY <2>1, <2>2, HeadsAre
<1>11. \A i \in 1 .. Len(s1) : In(s1[i], a) /\ name[s1[i]] \in Names
  <2> TAKE i \in 1 .. Len(s1)
  <2>1. In(s1[i], s1)
    BY DEF In
  <2>2. s1[i] = value \/ \E j \in 1 .. Len(order) : order[j] = s1[i]
    BY <1>8, <2>1 DEF In
  <2> QED BY <1>2, <2>2
<1>12. Members(a)'
  BY <1>1, <1>2, <1>9, <1>10, <1>11 DEF Members, Pointers, In, SortLabels
<1>13. Lists(a, s1, d)'
  <2>1. Len(s1) + 0 = Len(s1)
    BY <1>6, <1>10
  <2> QED BY <1>1, <1>3, <1>7, <1>9, <2>1, EmptyIn DEF Lists, Covers, In
<1>14. Cursors(s1, d, p, q)' /\ PoolShape(f, a)'
  BY <1>1 DEF Shape, Cursors, SortLabels, PoolShape
<1> QED BY <1>12, <1>13, <1>14 DEF Shape

\* The whole list is to be sorted, and none of it is yet.
LEMMA CloseObjectShape ==
    ASSUME NEW f, NEW a, NEW s, NEW d, NEW p, NEW q, Shape(f, a, s, d, p, q), CloseObject
    PROVE  Shape(f, a, order, <<>>, p, q)' /\ local'.i = 0 /\ local'.cursor = "dest"
<1>1. pc = "members" /\ pc' = "insert" /\ value = None
      /\ local' = [NoLocals EXCEPT !.distance = BlockSize]
      /\ sib' = Point(sib, "dest", None)
      /\ alloc' = alloc /\ name' = name /\ len' = len /\ value' = value /\ order' = order
  BY DEF CloseObject
<1>2. TwoLists(sib, "o", order, "dest", <<>>) /\ Covers(order, <<>>)
  BY <1>1 DEF Shape, Lists
<1>3. sib' = sib
  BY <1>1, <1>2, PointEmpty
<1>4. /\ local' \in Locals /\ local'.distance = BlockSize /\ local'.distance # 0
      /\ local'.cached = None /\ local'.i = 0 /\ local'.cursor = "dest"
  BY <1>1, BlockAssumption, HeadsAre DEF NoLocals, Locals, Pointers, Cells
<1>5. PICK o : o = order
  OBVIOUS
<1>6. Lists(a, o, <<>>)'
  BY <1>1, <1>2, <1>3, <1>5 DEF Lists, Covers, In
<1>7. Cursors(o, <<>>, p, q)'
  <2>1. 0 \in 0 .. Len(<<>>) /\ CellAt("dest", <<>>, 0) = "dest"
    BY DEF CellAt
  <2> QED BY <1>1, <1>4, <2>1 DEF Cursors
<1>8. Members(a)' /\ PoolShape(f, a)'
  BY <1>1 DEF Shape, Members, SortLabels, PoolShape, In
<1> QED BY <1>1, <1>4, <1>5, <1>6, <1>7, <1>8 DEF Shape

LEMMA ResetShape ==
    ASSUME NEW f, NEW a, NEW s, NEW d, NEW p, NEW q, Shape(f, a, s, d, p, q), Reset
    PROVE  Shape(f, a, s, d, p, q)'
<1>1. pc \in {"members", "closed"} /\ pc' = "reset" /\ order' = <<>>
      /\ alloc' = alloc /\ sib' = sib /\ name' = name /\ len' = len /\ value' = value /\ local' = local
  BY DEF Reset
<1>2. TwoLists(sib, "o", s, "dest", <<>>) /\ Covers(s, <<>>) /\ d = <<>>
  BY <1>1 DEF Shape, Lists
<1>3. \A n : In(n, s) => In(n, a)
  <2>1. \A n : In(n, s) => In(n, order)
    <3> TAKE n
    <3> HAVE In(n, s)
    <3>1. n \in Tokens
      BY <1>2, HeadOf, HeadsAre DEF In
    <3> QED BY <1>2, <3>1 DEF Covers
  <2>2. \A i \in 1 .. Len(order) : In(order[i], a)
    BY DEF Shape, Members
  <2> QED BY <2>1, <2>2 DEF In
<1>4. Loose(a)
  <2>1. \A n : ~In(n, a) => ~On(n, s, <<>>)
    BY <1>2, <1>3, EmptyIn, HeadOf
  <2>2. sib.next["dest"] = None
    <3>1. sib.next["dest"] = NodeAt(<<>>, 1)
      BY <1>2, HeadOf
    <3>2. 1 \notin 1 .. Len(<<>>)
      OBVIOUS
    <3> QED BY <3>1, <3>2 DEF NodeAt
  <2> QED BY <1>2, <2>1, <2>2 DEF Loose, TwoLists
<1>5. Lists(a, s, d)'
  BY <1>1, <1>4 DEF Lists, Loose
<1>6. Members(a)'
  BY <1>1, EmptyIn DEF Shape, Members, SortLabels
<1>7. Cursors(s, d, p, q)' /\ PoolShape(f, a)'
  BY <1>1 DEF Shape, Cursors, SortLabels, PoolShape
<1> QED BY <1>5, <1>6, <1>7 DEF Shape

\* The tokens in use go back one by one.
LEMMA ResetTokenShape ==
    ASSUME NEW f, NEW a, NEW s, NEW d, NEW p, NEW q, Shape(f, a, s, d, p, q), ResetToken
    PROVE  \E f1, a1 : Shape(f1, a1, <<>>, <<>>, p, q)'
<1>1. PICK t : t = alloc.next["active"]
  OBVIOUS
<1>2. pc = "reset" /\ len' = len /\ local' = local /\ order' = order
  BY DEF ResetToken
<1>3. TwoLists(alloc, "free", f, "active", a) /\ (\A n \in Tokens : In(n, f) \/ In(n, a))
      /\ TwoLists(alloc, "active", a, "free", f)
  BY <1>2, Swap DEF Shape, PoolShape
<1>4. order = <<>> /\ Loose(a) /\ value \in Pointers /\ name \in [Tokens -> Names \cup {None}]
  BY <1>2 DEF Shape, Members, Lists
<1>5. CASE t = None
  <2>1. pc' = "ready" /\ value' = None /\ sib' = Point(sib, "o", None) /\ alloc' = alloc /\ name' = name
    BY <1>1, <1>5 DEF ResetToken
  <2>2. a = <<>>
    <3>1. TwoLists(alloc, "active", a, "free", f) /\ alloc.next["active"] = None
      BY <1>1, <1>3, <1>5
    <3> QED BY <3>1, HeadOf
  <2>3. TwoLists(sib', "o", <<>>, "dest", <<>>)
    <3>1. "o" \in Cells /\ None \in Nodes \cup {None} /\ sib \in Links
      BY <1>4, HeadsAre DEF Cells, Loose
    <3>2. /\ sib' \in Links /\ sib'.toSelf = sib.toSelf
          /\ \A c \in Cells : sib'.next[c] = IF c = "o" THEN None ELSE sib.next[c]
      BY <2>1, <3>1, PointCells
    <3>3. \A c \in Cells : sib'.next[c] = None
      BY <1>4, <2>2, <3>2, EmptyIn DEF Loose
    <3>4. \A n \in Nodes : sib'.toSelf[n] = None
      BY <1>4, <2>2, <3>2, EmptyIn DEF Loose
    <3>5. sib' = NoLinks
      BY <3>2, <3>3, <3>4 DEF NoLinks, Links
    <3> QED BY <3>5, EmptyLists, HeadsAre
  <2>4. Lists(a, <<>>, <<>>)'
    BY <1>2, <1>4, <2>1, <2>3, EmptyIn DEF Lists, Covers
  <2>5. Members(a)'
    BY <1>2, <1>4, <2>1, EmptyIn DEF Members, SortLabels, Pointers, Shape
  <2>6. Cursors(<<>>, <<>>, p, q)' /\ PoolShape(f, a)'
    BY <1>2, <1>3, <2>1 DEF Shape, Cursors, SortLabels, PoolShape
  <2> QED BY <2>4, <2>5, <2>6 DEF Shape
<1>6. CASE t # None
  <2>1. /\ pc' = "reset" /\ value' = value /\ sib' = Unlinked(sib, t)
        /\ alloc' = InsertAfter(Pop(alloc, "active"), "free", t)
        /\ name' = [name EXCEPT ![t] = None]
    BY <1>1, <1>2, <1>6 DEF ResetToken
  <2>2. a # <<>> /\ Len(f) \in Nat /\ Len(a) \in Nat
    BY <1>1, <1>3, <1>6, HeadOf
  <2>3. 1 \in 1 .. Len(a) /\ t = a[1] /\ Pop(alloc, "active") = Del(alloc, a[1])
    BY <1>1, <1>3, <2>2, PopIsDel
  <2>4. 0 \in 0 .. Len(f) /\ CellAt("free", f, 0) = "free"
    BY <2>2 DEF CellAt
  <2>5. PICK f1, a1 : f1 = Inserted(f, 0, t) /\ a1 = Removed(a, 1)
    OBVIOUS
  <2>6. alloc' = InsertAfter(Del(alloc, a[1]), CellAt("free", f, 0), a[1])
    BY <2>1, <2>3, <2>4
  <2>7. /\ TwoLists(alloc', "active", a1, "free", f1) /\ t \in Nodes
        /\ \A n : In(n, a1) <=> n # t /\ In(n, a)
        /\ \A n : In(n, f1) <=> n = t \/ In(n, f)
    BY <1>3, <2>3, <2>4, <2>5, <2>6, MoveNode
  <2>8. PoolShape(f1, a1)'
    BY <1>3, <2>1, <2>7, Swap DEF PoolShape
  <2>9. Loose(a1)'
    <3>1. /\ sib' \in Links
          /\ \A c \in Cells : sib'.next[c] = IF c = t THEN None ELSE sib.next[c]
          /\ \A n \in Nodes : sib'.toSelf[n] = IF n = t THEN None ELSE sib.toSelf[n]
      BY <1>4, <2>1, <2>7, UnlinkedCells DEF Loose
    <3> QED BY <1>4, <2>7, <3>1 DEF Loose
  <2>10. Lists(a1, <<>>, <<>>)'
    BY <2>1, <2>9 DEF Lists
  <2>11. Members(a1)'
    <3>1. name' \in [Tokens -> Names \cup {None}]
      BY <1>4, <2>1
    <3> QED BY <1>2, <1>4, <2>1, <3>1, EmptyIn DEF Members, SortLabels
  <2>12. Cursors(<<>>, <<>>, p, q)'
    BY <1>2, <2>1 DEF Shape, Cursors, SortLabels
  <2> QED BY <2>8, <2>10, <2>11, <2>12 DEF Shape
<1> QED BY <1>5, <1>6

\* nmjson_parser_init
LEMMA FillPoolShape ==
    ASSUME NEW f, NEW a, NEW s, NEW d, NEW p, NEW q, Shape(f, a, s, d, p, q), FillPool
    PROVE  \E f1 : Shape(f1, a, s, d, p, q)'
<1>1. pc = "init" /\ sib' = sib /\ name' = name /\ len' = len /\ value' = value
      /\ local' = local /\ order' = order
  BY DEF FillPool
<1>2. TwoLists(alloc, "free", f, "active", a)
  BY DEF Shape, PoolShape
<1>3. PICK rest : rest = {t \in Tokens : alloc.toSelf[t] = None}
  OBVIOUS
<1>4. pc' \in {"init", "ready"}
  BY <1>1 DEF FillPool
<1>5. Members(a)' /\ Lists(a, s, d)' /\ Cursors(s, d, p, q)'
  BY <1>1, <1>4 DEF Shape, Members, Lists, Covers, Cursors, SortLabels, In
<1>6. CASE rest = {}
  <2>1. alloc' = alloc
    BY <1>3, <1>6 DEF FillPool
  <2>2. \A t \in Tokens : In(t, f) \/ In(t, a)
    BY <1>2, <1>3, <1>6, HeadOf, HeadsAre DEF TwoLists
  <2>3. PoolShape(f, a)'
    BY <1>2, <2>1, <2>2 DEF PoolShape
  <2> QED BY <1>5, <2>3 DEF Shape
<1>7. CASE rest # {}
  <2>1. PICK t : t = CHOOSE u \in rest : TRUE
    OBVIOUS
  <2>2. t \in rest
    BY <1>7, <2>1
  <2>3. pc' = "init" /\ alloc' = InsertAfter(alloc, "free", t)
    BY <1>1, <1>3, <1>7, <2>1 DEF FillPool
  <2>4. t \in Nodes /\ alloc.toSelf[t] = None
    BY <1>3, <2>2, HeadsAre
  <2>5. ~On(t, f, a)
    BY <1>2, <2>4, ListedLinked
  <2>6. 0 \in 0 .. Len(f) /\ CellAt("free", f, 0) = "free"
    BY <1>2, HeadOf DEF CellAt
  <2>7. PICK f1 : f1 = Inserted(f, 0, t)
    OBVIOUS
  <2>8. TwoLists(InsertAfter(alloc, CellAt("free", f, 0), t), "free", f1, "active", a)
    BY <1>2, <2>4, <2>5, <2>6, <2>7, InsertList
  <2>9. PoolShape(f1, a)'
    BY <2>3, <2>6, <2>8 DEF PoolShape
  <2> QED BY <1>5, <2>9 DEF Shape
<1> QED BY <1>6, <1>7

-----------------------------------------------------------------------------
(* The sort. *)

\* In and Distinct of what the steps of the sort make of a list.
LEMMA SortMembers ==
    ASSUME NEW f, NEW a, NEW s, NEW d, NEW p, NEW q, Shape(f, a, s, d, p, q),
           pc \in SortLabels, SortStep
    PROVE  /\ PoolShape(f, a)' /\ Members(a)' /\ order' = order /\ name' = name
           /\ pc' \in SortLabels \cup {"closed"}
<1>1. ASSUME NEW right, JoinRest(right)
      PROVE  /\ alloc' = alloc /\ name' = name /\ len' = len /\ value' = value /\ order' = order
             /\ pc' \in SortLabels
  BY <1>1 DEF JoinRest, SortLabels
<1>2. /\ alloc' = alloc /\ name' = name /\ len' = len /\ value' = value /\ order' = order
      /\ pc' \in SortLabels \cup {"closed"}
  BY <1>1 DEF SortStep, InsertInBlock, NextBlock, BeginPass, SkipSections,
              MergeSections, MergeToken, MergeRest, EndPass, SortLabels
<1>3. value = None
  BY DEF Shape, Members, SortLabels
<1>4. Members(a)'
  BY <1>2, <1>3 DEF Shape, Members, SortLabels, In
<1>5. PoolShape(f, a)'
  BY <1>2 DEF Shape, PoolShape, SortLabels
<1> QED BY <1>2, <1>4, <1>5

LEMMA MinIs ==
    ASSUME NEW w \in Nat, NEW s \in Seq(Nodes), w # 0
    PROVE  \E k \in 0 .. Len(s) : /\ k = IF w <= Len(s) THEN w ELSE Len(s)
                                  /\ NodeAt(s, w + 1) = NodeAt(s, k + 1)
                                  /\ Len(s) # 0 => k # 0
<1>1. Len(s) \in Nat
  OBVIOUS
<1>2. CASE w <= Len(s)
  BY <1>1, <1>2
<1>3. CASE ~(w <= Len(s))
  <2>1. w + 1 \notin 1 .. Len(s) /\ Len(s) + 1 \notin 1 .. Len(s) /\ Len(s) \in 0 .. Len(s)
    BY <1>1, <1>3
  <2> QED BY <1>3, <2>1 DEF NodeAt
<1> QED BY <1>2, <1>3

\* The two sections at the head of the list.
LEMMA SectionsAre ==
    ASSUME NEW h, NEW s, Behind(h, "o", s), local \in Locals, NEW w \in Nat, w # 0
    PROVE  LET l == Sections(h, NodeAt(s, 1), w)
           IN  /\ l \in Locals
               /\ l.left = NodeAt(s, 1) /\ l.leftLast = NodeAt(s, w)
               /\ l.right = NodeAt(s, w + 1) /\ l.rightEnd = NodeAt(s, 2 * w + 1)
               /\ l.distance = local.distance
<1>1. s \in Seq(Nodes)
  BY DEF Behind
<1>2. \A i : NodeAt(s, i) \in Pointers
  BY <1>1, HeadsAre DEF NodeAt, Pointers
<1>3. w - 1 \in Nat /\ 1 + (w - 1) = w /\ (w + 1) + w = 2 * w + 1 /\ w + 1 \in Nat /\ w + 1 # 0
      /\ 1 \in Nat /\ 1 # 0
  OBVIOUS
<1>4. PICK last : last = NthNext(h, NodeAt(s, 1), w - 1)
  OBVIOUS
<1>5. last = NodeAt(s, w)
  BY <1>3, <1>4, NthNextIs
<1>6. PICK right : right = NextOf(h, last)
  OBVIOUS
<1>7. right = NodeAt(s, w + 1)
  BY <1>5, <1>6, NextIs
<1>8. PICK end : end = NthNext(h, right, w)
  OBVIOUS
<1>9. end = NodeAt(s, 2 * w + 1)
  <2>1. end = NodeAt(s, (w + 1) + w)
    BY <1>3, <1>7, <1>8, NthNextIs
  <2> QED BY <1>3, <2>1
<1>10. PICK left : left = NodeAt(s, 1)
  OBVIOUS
<1>11. PICK l : l = [local EXCEPT !.left = left, !.leftLast = last, !.right = right, !.rightEnd = end]
  OBVIOUS
<1>12. left \in Pointers /\ last \in Pointers /\ right \in Pointers /\ end \in Pointers
  BY <1>2, <1>5, <1>7, <1>9, <1>10
<1>13. /\ l \in Locals /\ l.left = left /\ l.leftLast = last /\ l.right = right /\ l.rightEnd = end
       /\ l.distance = local.distance
  BY <1>11, <1>12 DEF Locals
<1>14. Sections(h, left, w) = l
  BY <1>4, <1>6, <1>8, <1>10, <1>11 DEF Sections
<1> QED BY <1>5, <1>7, <1>9, <1>10, <1>13, <1>14

\* The block is done: there is nothing left.
LEMMA InsertedAll ==
    ASSUME NEW f, NEW a, NEW s, NEW d, NEW p, NEW q, Shape(f, a, s, d, p, q), InsertInBlock,
           s = <<>>
    PROVE  Shape(f, a, d, <<>>, p, q)' /\ pc' = "pass" /\ local' = local
<1>1. pc = "insert" /\ TwoLists(sib, "o", <<>>, "dest", d) /\ Covers(<<>>, d)
  BY DEF InsertInBlock, Shape, Lists
<1>2. sib.next["o"] = None
  BY <1>1, HeadOf
<1>3. sib' = Join(sib, "o", sib.next["dest"]) /\ pc' = "pass" /\ local' = local
  BY <1>2 DEF InsertInBlock
<1>4. TwoHeads(sib', "o", d, "dest")
  BY <1>1, <1>3, TakeOver
<1>5. PoolShape(f, a)' /\ Members(a)' /\ order' = order
  BY <1>1, SortMembers DEF SortStep, SortLabels
<1>6. Covers(d, <<>>)
  <2>1. Len(d) + 0 = 0 + Len(d)
    BY <1>1, HeadOf
  <2> QED BY <1>1, <2>1, EmptyIn DEF Covers
<1>7. Lists(a, d, <<>>)'
  BY <1>3, <1>4, <1>5, <1>6 DEF Lists, Covers
<1>8. Cursors(d, <<>>, p, q)'
  BY <1>1, <1>3 DEF Shape, Cursors, SortLabels
<1> QED BY <1>3, <1>5, <1>7, <1>8 DEF Shape

LEMMA InsertedCell ==
    ASSUME NEW head, NEW s \in Seq(Nodes), NEW k \in 0 .. Len(s), NEW x \in Nodes,
           NEW t, t = Inserted(s, k, x)
    PROVE  \A i \in 0 .. Len(s) + 1 :
             CellAt(head, t, i) = IF i <= k THEN CellAt(head, s, i)
                                  ELSE IF i = k + 1 THEN x ELSE CellAt(head, s, i - 1)
BY InsertedAt

\* The first token of the list goes behind the m-th of dest_list: the search began
\* behind the x-th.
InsertedBehind(d, x, m, work) ==
    /\ \A j \in x + 1 .. m : ~(CompareTokens(work, d[j]) < 0)
    /\ m # Len(d) => CompareTokens(work, d[m + 1]) < 0

LEMMA InsertShape ==
    ASSUME NEW f, NEW a, NEW s, NEW d, NEW p, NEW q, Shape(f, a, s, d, p, q), InsertInBlock,
           s # <<>>, NEW x \in 0 .. Len(d),
           CellAt("dest", d, x) = IF local.cached # None /\ CompareTokens(local.cached, s[1]) <= 0
                                  THEN local.cached ELSE local.cursor
    PROVE  \E m \in x .. Len(d) :
              /\ Shape(f, a, Removed(s, 1), Inserted(d, m, s[1]), p, q)'
              /\ InsertedBehind(d, x, m, s[1])
              /\ pc' = "insert" /\ local' = [local EXCEPT !.i = @ + 1, !.cached = s[1]]
<1>1. PICK work : work = s[1]
  OBVIOUS
<1>2. /\ pc = "insert" /\ TwoLists(sib, "o", s, "dest", d) /\ Covers(s, d)
      /\ local.i < local.distance
  BY DEF InsertInBlock, Shape, Lists
<1>3. /\ s \in Seq(Nodes) /\ d \in Seq(Nodes) /\ Len(s) \in Nat /\ Len(d) \in Nat /\ Len(s) # 0
      /\ \A n : On(n, s, d) <=> In(n, s) \/ In(n, d)
  BY <1>2, HeadOf
<1>4. 1 \in 1 .. Len(s) /\ sib.next["o"] = work /\ Pop(sib, "o") = Del(sib, work) /\ work \in Nodes /\ work # None
  BY <1>1, <1>2, <1>3, PopIsDel, CellsAssumption
<1>5. PICK g : g = Del(sib, work)
  OBVIOUS
<1>6. TwoLists(g, "o", Removed(s, 1), "dest", d)
  BY <1>1, <1>2, <1>4, <1>5, DeleteList
<1>7. Chain(sib, "dest") = d /\ Acyclic(g) /\ Behind(g, "dest", d)
  BY <1>2, <1>6, ListsRead
<1>8. PICK greater : greater = {t \in Range(d) : CompareTokens(work, t) < 0}
  OBVIOUS
<1>9. /\ sib' = InsertInOrder(g, CellAt("dest", d, x), work, greater)
      /\ local' = [local EXCEPT !.i = @ + 1, !.cached = work] /\ pc' = pc
  <2>1. sib.next["o"] = work /\ work # None
    BY <1>4
  <2>2. /\ sib' = InsertInOrder(Pop(sib, "o"),
                     IF local.cached # None /\ CompareTokens(local.cached, work) <= 0
                     THEN local.cached ELSE local.cursor,
                     work, {t \in Range(Chain(sib, "dest")) : CompareTokens(work, t) < 0})
        /\ local' = [local EXCEPT !.i = @ + 1, !.cached = work] /\ pc' = pc
    BY <2>1, Zenon DEF InsertInBlock
  <2> QED BY <1>1, <1>4, <1>5, <1>7, <1>8, <2>2
<1>10. PICK m \in x .. Len(d) :
          /\ InsertInOrder(g, CellAt("dest", d, x), work, greater) = InsertAfter(g, CellAt("dest", d, m), work)
          /\ NodeAt(d, m + 1) \in greater \cup {None}
          /\ \A j \in x .. m - 1 : NodeAt(d, j + 1) \notin greater
  BY <1>7, PlaceIs
<1>11. m \in 0 .. Len(d) /\ m \in Nat /\ x \in Nat
  BY <1>3
<1>12. \A j \in 1 .. Len(d) : d[j] \in greater <=> CompareTokens(work, d[j]) < 0
  <2>1. \A j \in 1 .. Len(d) : d[j] \in Range(d)
    BY <1>3 DEF Range
  <2> QED BY <1>8, <2>1
<1>13. InsertedBehind(d, x, m, work)
  <2>1. ASSUME NEW j \in x + 1 .. m PROVE ~(CompareTokens(work, d[j]) < 0)
    <3>1. j - 1 \in x .. m - 1 /\ (j - 1) + 1 = j /\ j \in 1 .. Len(d)
      BY <1>3, <1>11
    <3>2. NodeAt(d, j) \notin greater
      BY <1>10, <3>1
    <3> QED BY <1>12, <3>1, <3>2 DEF NodeAt
  <2>2. ASSUME m # Len(d) PROVE CompareTokens(work, d[m + 1]) < 0
    <3>1. m + 1 \in 1 .. Len(d) /\ d[m + 1] # None
      BY <1>3, <1>11, <2>2, CellsAssumption
    <3> QED BY <1>10, <1>12, <3>1 DEF NodeAt
  <2> QED BY <2>1, <2>2 DEF InsertedBehind
<1>14. PICK s1, d1 : s1 = Removed(s, 1) /\ d1 = Inserted(d, m, work)
  OBVIOUS
<1>15. /\ TwoLists(sib', "o", s1, "dest", d1)
       /\ In(work, s)
       /\ \A n : In(n, s1) <=> n # work /\ In(n, s)
       /\ \A n : In(n, d1) <=> n = work \/ In(n, d)
  <2>1. sib' = InsertAfter(Del(sib, s[1]), CellAt("dest", d, m), s[1])
    BY <1>1, <1>5, <1>9, <1>10
  <2> QED BY <1>1, <1>2, <1>4, <1>11, <1>14, <2>1, MoveNode
<1>16. Len(s1) = Len(s) - 1 /\ Len(d1) = Len(d) + 1
  BY <1>3, <1>4, <1>11, <1>14, RemovedIs, InsertedIs
<1>17. PoolShape(f, a)' /\ Members(a)' /\ order' = order
  BY <1>2, SortMembers DEF SortStep, SortLabels
<1>18. Covers(s1, d1)'
  <2>1. Len(s1) + Len(d1) = Len(s) + Len(d)
    BY <1>3, <1>16
  <2>2. \A t \in Tokens : In(t, s1) \/ In(t, d1) <=> In(t, s) \/ In(t, d)
    BY <1>15
  <2>3. Covers(s1, d1)
    BY <1>2, <2>1, <2>2 DEF Covers
  <2>4. order' = order
    BY <1>17
  <2> QED BY <2>3, <2>4 DEF Covers, In
<1>19. Lists(a, s1, d1)'
  BY <1>2, <1>9, <1>15, <1>18 DEF Lists
<1>20. local \in Locals /\ local.distance = BlockSize
  BY <1>2 DEF Shape, Cursors
<1>21. local' \in Locals /\ local'.distance = BlockSize /\ local'.i = local.i + 1 /\ local'.cached = work
       /\ local'.cursor = local.cursor /\ local.i \in Nat
  <2>1. local.i \in Nat /\ local.i + 1 \in 0 .. BlockSize
    BY <1>2, <1>20, BlockAssumption DEF Locals
  <2>2. work \in Pointers
    BY <1>4, HeadsAre DEF Pointers
  <2> QED BY <1>9, <1>20, <2>1, <2>2 DEF Locals
<1>22. \E k \in 0 .. Len(d1) : local'.cursor = CellAt("dest", d1, k)
  <2>1. PICK k \in 0 .. Len(d) : local.cursor = CellAt("dest", d, k)
    BY <1>2 DEF Shape, Cursors
  <2>2. \A i \in 0 .. Len(d) + 1 :
          CellAt("dest", d1, i) = IF i <= m THEN CellAt("dest", d, i)
                                  ELSE IF i = m + 1 THEN work ELSE CellAt("dest", d, i - 1)
    <3>1. d \in Seq(Nodes) /\ work \in Nodes /\ m \in 0 .. Len(d) /\ d1 = Inserted(d, m, work)
      BY <1>3, <1>4, <1>11, <1>14
    <3> QED BY <3>1, InsertedCell
  <2>3. CASE k <= m
    <3>1. k \in 0 .. Len(d) + 1 /\ k \in 0 .. Len(d1)
      BY <1>3, <1>16
    <3> QED BY <1>21, <2>1, <2>2, <2>3, <3>1
  <2>4. CASE ~(k <= m)
    <3>1. k + 1 \in 0 .. Len(d) + 1 /\ k + 1 \in 0 .. Len(d1) /\ ~(k + 1 <= m) /\ k + 1 # m + 1 /\ (k + 1) - 1 = k
      BY <1>3, <1>11, <1>16, <2>4
    <3> QED BY <1>21, <2>1, <2>2, <3>1
  <2> QED BY <2>3, <2>4
<1>23. Cursors(s1, d1, p, q)'
  <2>1. local'.i # 0 /\ BlockSize # 0
    BY <1>21, BlockAssumption
  <2> QED BY <1>2, <1>4, <1>9, <1>15, <1>21, <1>22, <2>1 DEF Cursors, In
<1>24. Shape(f, a, s1, d1, p, q)'
  BY <1>17, <1>19, <1>23 DEF Shape
<1> QED BY <1>1, <1>2, <1>9, <1>13, <1>14, <1>24

\* Every cell and node of two lists.
LEMMA CellsOn ==
    ASSUME NEW h, NEW a, NEW s, NEW b, NEW d, TwoLists(h, a, s, b, d)
    PROVE  /\ \A k \in 0 .. Len(d) : CellAt(b, d, k) \in Cells
           /\ \A k \in Nat : NodeAt(s, k) \in Pointers
<1>1. s \in Seq(Nodes) /\ d \in Seq(Nodes) /\ b \in Heads /\ Len(s) \in Nat /\ Len(d) \in Nat
  BY DEF TwoLists, Disjoint
<1>2. ASSUME NEW k \in 0 .. Len(d) PROVE CellAt(b, d, k) \in Cells
  <2>1. k # 0 => k \in 1 .. Len(d)
    BY <1>1
  <2>2. k # 0 => d[k] \in Nodes
    BY <1>1, <2>1
  <2> QED BY <1>1, <2>2 DEF CellAt, Cells
<1>3. ASSUME NEW k \in Nat PROVE NodeAt(s, k) \in Pointers
  <2>1. k \in 1 .. Len(s) => s[k] \in Nodes
    BY <1>1
  <2> QED BY <2>1, HeadsAre DEF NodeAt, Pointers
<1> QED BY <1>2, <1>3

LEMMA NextBlockShape ==
    ASSUME NEW f, NEW a, NEW s, NEW d, NEW p, NEW q, Shape(f, a, s, d, p, q), NextBlock
    PROVE  /\ Shape(f, a, s, d, p, q)'
           /\ local' = [local EXCEPT !.i = 0, !.cached = None, !.cursor = CellAt("dest", d, Len(d))]
<1>1. /\ pc = "insert" /\ pc' = "insert" /\ local.i = local.distance /\ sib' = sib
      /\ TwoLists(sib, "o", s, "dest", d) /\ Covers(s, d)
  BY DEF NextBlock, Shape, Lists
<1>2. /\ s \in Seq(Nodes) /\ d \in Seq(Nodes) /\ Len(d) \in Nat
  BY <1>1, HeadOf
<1>3. local \in Locals /\ local.distance = BlockSize /\ local.cached # None /\ In(local.cached, d)
  <2>1. local \in Locals /\ local.distance = BlockSize /\ (local.cached = None <=> local.i = 0)
        /\ (local.cached # None => In(local.cached, d))
    BY <1>1 DEF Shape, Cursors
  <2>2. local.i # 0
    BY <1>1, <2>1, BlockAssumption
  <2> QED BY <2>1, <2>2
<1>4. PICK x \in 0 .. Len(d) : local.cached = CellAt("dest", d, x)
  <2>1. PICK x \in 1 .. Len(d) : local.cached = d[x]
    BY <1>3 DEF In
  <2>2. x \in 0 .. Len(d) /\ x # 0
    BY <1>2, <2>1
  <2> QED BY <2>1, <2>2 DEF CellAt
<1>5. Acyclic(sib) /\ Behind(sib, "dest", d)
  BY <1>1, ListsRead
<1>6. PICK cell : cell = CellAt("dest", d, Len(d))
  OBVIOUS
<1>7. TailCell(sib, local.cached) = cell
  BY <1>4, <1>5, <1>6, TailIs
<1>8. local' = [local EXCEPT !.i = 0, !.cached = None, !.cursor = cell]
  BY <1>7 DEF NextBlock
<1>9. Len(d) \in 0 .. Len(d)
  BY <1>2
<1>10. cell \in Cells
  BY <1>1, <1>6, <1>9, CellsOn
<1>11. /\ local' \in Locals /\ local'.distance = BlockSize /\ local'.i = 0 /\ local'.cached = None
       /\ local'.cursor = cell
  <2>1. 0 \in 0 .. BlockSize
    BY BlockAssumption
  <2> QED BY <1>3, <1>8, <1>10, <2>1 DEF Locals, Pointers
<1>12. Cursors(s, d, p, q)'
  <2>1. BlockSize # 0
    BY BlockAssumption
  <2> QED BY <1>1, <1>6, <1>9, <1>11, <2>1 DEF Cursors
<1>13. PoolShape(f, a)' /\ Members(a)' /\ order' = order
  BY <1>1, SortMembers DEF SortStep, SortLabels
<1>14. Lists(a, s, d)'
  BY <1>1, <1>13 DEF Lists, Covers
<1> QED BY <1>6, <1>8, <1>12, <1>13, <1>14 DEF Shape

\* The sections of the whole list, or its end.
LEMMA BeginPassShape ==
    ASSUME NEW f, NEW a, NEW s, NEW d, NEW p, NEW q, Shape(f, a, s, d, p, q), BeginPass
    PROVE  LET w == local.distance IN
           /\ d = <<>> /\ s \in Seq(Nodes) /\ w \in Nat
           /\ \/ /\ Shape(f, a, s, d, p, q)'
                 /\ pc' = "closed" /\ Len(s) <= w
              \/ \E q1 \in 1 .. Len(s) :
                    /\ Shape(f, a, s, d, w, q1)'
                    /\ pc' = "section" /\ w < Len(s)
                    /\ q1 = IF 2 * w <= Len(s) THEN 2 * w ELSE Len(s)
                    /\ local'.leftLast = NodeAt(s, w) /\ local'.distance = w
<1>1. pc = "pass" /\ TwoHeads(sib, "o", s, "dest") /\ Covers(s, d) /\ d = <<>>
  BY DEF BeginPass, Shape, Lists
<1>2. /\ sib' = Point(sib, "dest", None) /\ pc' \in {"closed", "section"}
      /\ TwoLists(sib', "o", s, "dest", d)
      /\ sib'.next["o"] = sib.next["o"]
  <2>1. sib' = Point(sib, "dest", None) /\ pc' \in {"closed", "section"}
    BY DEF BeginPass
  <2>2. TwoLists(sib', "o", s, "dest", d)
    BY <1>1, <2>1 DEF TwoHeads
  <2>3. sib \in Links /\ "dest" \in Cells /\ "o" \in Cells /\ None \in Nodes \cup {None}
    BY <1>1, HeadsAre DEF TwoHeads, Cells
  <2>4. sib'.next["o"] = sib.next["o"]
    <3>1. \A c \in Cells : Point(sib, "dest", None).next[c] = IF c = "dest" THEN None ELSE sib.next[c]
      BY <2>3, PointCells
    <3> QED BY <2>1, <2>3, <3>1
  <2> QED BY <2>1, <2>2, <2>4
<1>3. s \in Seq(Nodes) /\ Len(s) \in Nat /\ sib.next["o"] = NodeAt(s, 1)
  BY <1>2, HeadOf
<1>4. Behind(sib, "o", s)
  BY <1>1, TwoHeadsRead
<1>5. PICK w : w = local.distance
  OBVIOUS
<1>6. local \in Locals /\ w \in Nat /\ w # 0
  <2>1. local \in Locals /\ local.distance # 0
    BY <1>1 DEF Shape, Cursors, SortLabels
  <2> QED BY <1>5, <2>1 DEF Locals
<1>7. PICK l : l = Sections(sib, NodeAt(s, 1), w)
  OBVIOUS
<1>8. /\ l \in Locals
      /\ l.left = NodeAt(s, 1) /\ l.leftLast = NodeAt(s, w)
      /\ l.right = NodeAt(s, w + 1) /\ l.rightEnd = NodeAt(s, 2 * w + 1)
      /\ l.distance = w
  BY <1>4, <1>5, <1>6, <1>7, SectionsAre
<1>9. IF l.right = None THEN pc' = "closed" /\ local' = NoLocals
      ELSE pc' = "section" /\ local' = [l EXCEPT !.ins = None]
  BY <1>3, <1>5, <1>7, Zenon DEF BeginPass
<1>10. PoolShape(f, a)' /\ Members(a)' /\ order' = order
  BY <1>1, SortMembers DEF SortStep, SortLabels
<1>11. Lists(a, s, d)'
  <2>1. pc' # "passed" /\ pc' # "members" /\ pc' # "pass" /\ pc' # "reset"
    BY <1>2
  <2> QED BY <1>1, <1>2, <1>10, <2>1 DEF Lists, Covers
<1>12. CASE l.right = None
  <2>1. pc' = "closed" /\ local' = NoLocals
    BY <1>9, <1>12
  <2>2. Len(s) <= w
    <3>1. w + 1 \in 1 .. Len(s) => s[w + 1] \in Nodes
      BY <1>3
    <3>2. w + 1 \notin 1 .. Len(s)
      BY <1>8, <1>12, <3>1, CellsAssumption DEF NodeAt
    <3> QED BY <1>3, <1>6, <3>2
  <2>3. NoLocals \in Locals
    BY BlockAssumption, HeadsAre DEF NoLocals, Locals, Pointers, Cells
  <2>4. Cursors(s, d, p, q)'
    BY <2>1, <2>3 DEF Cursors, SortLabels
  <2> QED BY <1>1, <1>3, <1>5, <1>6, <1>10, <1>11, <2>1, <2>2, <2>4 DEF Shape
<1>13. CASE l.right # None
  <2>1. pc' = "section" /\ local' = [l EXCEPT !.ins = None]
    BY <1>9, <1>13
  <2>2. w + 1 \in 1 .. Len(s)
    BY <1>8, <1>13 DEF NodeAt
  <2>3. PICK q1 \in 0 .. Len(s) :
           /\ q1 = IF 2 * w <= Len(s) THEN 2 * w ELSE Len(s)
           /\ NodeAt(s, 2 * w + 1) = NodeAt(s, q1 + 1)
           /\ Len(s) # 0 => q1 # 0
    <3>1. 2 * w \in Nat /\ 2 * w # 0
      BY <1>6
    <3> QED BY <1>3, <3>1, MinIs
  <2>4. q1 \in 1 .. Len(s) /\ w \in 0 .. q1 /\ w < Len(s)
    BY <1>3, <1>6, <2>2, <2>3
  <2>5. /\ local' \in Locals /\ local'.distance = w /\ local'.leftLast = NodeAt(s, w)
        /\ local'.left = NodeAt(s, 1) /\ local'.right = NodeAt(s, w + 1)
        /\ local'.rightEnd = NodeAt(s, q1 + 1) /\ local'.ins = None
    BY <1>8, <2>1, <2>3 DEF Locals, Pointers
  <2>6. NodeAt(s, 1) = s[1]
    BY <1>3, <2>4 DEF NodeAt
  <2>7. Cursors(s, d, w, q1)'
    BY <1>1, <1>6, <2>1, <2>4, <2>5, <2>6 DEF Cursors
  <2>8. Shape(f, a, s, d, w, q1)'
    BY <1>10, <1>11, <2>7 DEF Shape
  <2> QED BY <1>1, <1>3, <1>5, <1>6, <2>1, <2>3, <2>4, <2>5, <2>8
<1> QED BY <1>12, <1>13

\* What the sections are when a list begins with s.
SectionsOf(s, p, q, w) ==
    /\ p = IF w <= Len(s) THEN w ELSE Len(s)
    /\ q = IF 2 * w <= Len(s) THEN 2 * w ELSE Len(s)

LEMMA SectionsBegin ==
    ASSUME NEW s \in Seq(Nodes), NEW w \in Nat, w # 0
    PROVE  \E p, q \in 0 .. Len(s) :
              /\ SectionsOf(s, p, q, w)
              /\ NodeAt(s, w + 1) = NodeAt(s, p + 1) /\ NodeAt(s, 2 * w + 1) = NodeAt(s, q + 1)
              /\ s # <<>> => p \in 0 .. q /\ q \in 1 .. Len(s) /\ NodeAt(s, 1) = s[1]
<1>1. PICK p \in 0 .. Len(s) : /\ p = IF w <= Len(s) THEN w ELSE Len(s)
                               /\ NodeAt(s, w + 1) = NodeAt(s, p + 1)
  BY MinIs
<1>2. PICK w2 : w2 = 2 * w /\ w2 \in Nat /\ w2 # 0 /\ w <= w2
  OBVIOUS
<1>3. PICK q \in 0 .. Len(s) : /\ q = IF w2 <= Len(s) THEN w2 ELSE Len(s)
                               /\ NodeAt(s, w2 + 1) = NodeAt(s, q + 1)
                               /\ Len(s) # 0 => q # 0
  BY <1>2, MinIs
<1>4. ASSUME s # <<>> PROVE p \in 0 .. q /\ q \in 1 .. Len(s) /\ NodeAt(s, 1) = s[1]
  <2>1. Len(s) \in Nat /\ Len(s) # 0 /\ 1 \in 1 .. Len(s)
    BY <1>4
  <2>2. p \in 0 .. q /\ q \in 1 .. Len(s)
    BY <1>1, <1>2, <1>3, <2>1
  <2> QED BY <2>1, <2>2 DEF NodeAt
<1> QED BY <1>1, <1>2, <1>3, <1>4 DEF SectionsOf

\* What is left of the two sections joins dest_list as it is.
LEMMA JoinShape ==
    ASSUME NEW f, NEW a, NEW s, NEW d, NEW p, NEW q, Shape(f, a, s, d, p, q),
           pc \in {"section", "merge"}, NEW right, JoinRest(right),
           right = local.rightEnd \/ right = local.left, SortStep
    PROVE  LET w == local.distance
               s1 == Rest(s, q)
           IN  \E p1, q1 \in 0 .. Len(s1) :
                  /\ Shape(f, a, s1, Moved(d, s, q), p1, q1)'
                  /\ SectionsOf(s1, p1, q1, w)
                  /\ local'.distance = w /\ local'.leftLast = NodeAt(s1, w)
                  /\ pc' = IF s1 = <<>> THEN "passed" ELSE "section"
<1>1. TwoLists(sib, "o", s, "dest", d) /\ Covers(s, d)
  BY DEF Shape, Lists
<1>2. /\ s \in Seq(Nodes) /\ d \in Seq(Nodes) /\ Len(s) \in Nat /\ Len(d) \in Nat
      /\ Distinct(s) /\ \A n : On(n, s, d) <=> In(n, s) \/ In(n, d)
  BY <1>1, HeadOf
<1>3. /\ local \in Locals /\ local.distance # 0
      /\ p \in 0 .. q /\ q \in 1 .. Len(s)
      /\ local.left = s[1]
      /\ local.right = NodeAt(s, p + 1) /\ local.rightEnd = NodeAt(s, q + 1)
      /\ local.ins = IF d = <<>> THEN None ELSE d[Len(d)]
  BY DEF Shape, Cursors, SortLabels
<1>4. PICK w, end : w = local.distance /\ end = NodeAt(s, q + 1)
  OBVIOUS
<1>5. w \in Nat /\ w # 0 /\ 2 * w \in Nat /\ 2 * w # 0
  BY <1>3, <1>4 DEF Locals
<1>6. PICK cell : cell = CellAt("dest", d, Len(d))
  OBVIOUS
<1>7. cell = IF local.ins = None THEN "dest" ELSE local.ins
  <2>1. CASE d = <<>>
    <3>1. Len(d) = 0
      BY <2>1
    <3> QED BY <1>3, <1>6, <2>1, <3>1 DEF CellAt
  <2>2. CASE d # <<>>
    <3>1. Len(d) # 0 /\ Len(d) \in 1 .. Len(d)
      BY <1>2, <2>2
    <3>2. d[Len(d)] # None
      BY <1>2, <3>1, CellsAssumption
    <3> QED BY <1>3, <1>6, <2>2, <3>1, <3>2 DEF CellAt
  <2> QED BY <2>1, <2>2
<1>8. PICK joined : joined = Rejoined(sib, "o", end, cell, s[1])
  OBVIOUS
<1>9. local.left = s[1] /\ local.rightEnd = end
  BY <1>3, <1>4
<1>10. s[1] = IF right = local.rightEnd THEN local.left ELSE right
  BY <1>9
<1>11. /\ sib' = joined
       /\ local' = [Sections(joined, end, w) EXCEPT !.ins = TailCell(joined, s[1])]
       /\ pc' = IF end = None THEN "passed" ELSE "section"
  BY <1>4, <1>7, <1>8, <1>9, <1>10, Zenon DEF JoinRest, Rejoined
<1>12. PICK s1, d1 : s1 = Rest(s, q) /\ d1 = Moved(d, s, q)
  OBVIOUS
<1>13. /\ TwoLists(joined, "o", s1, "dest", d1)
       /\ \A n : On(n, s1, d1) <=> On(n, s, d)
  BY <1>1, <1>3, <1>4, <1>6, <1>8, <1>12, RejoinLists
<1>14. q \in 0 .. Len(s)
  BY <1>2, <1>3
<1>15. /\ s1 \in Seq(Nodes) /\ Len(s1) = Len(s) - q
       /\ \A i \in Nat : i # 0 => NodeAt(s1, i) = NodeAt(s, q + i)
  BY <1>2, <1>12, <1>14, RestIs
<1>16. /\ d1 \in Seq(Nodes) /\ Len(d1) = Len(d) + q
       /\ \A i \in 1 .. Len(d) + q : d1[i] = IF i <= Len(d) THEN d[i] ELSE s[i - Len(d)]
  BY <1>2, <1>12, <1>14, MovedIs
<1>17. /\ Acyclic(joined) /\ Behind(joined, "o", s1) /\ Behind(joined, "dest", d1)
  BY <1>13, ListsRead
<1>18. end = NodeAt(s1, 1)
  BY <1>4, <1>15
<1>19. PICK l : l = Sections(joined, NodeAt(s1, 1), w)
  OBVIOUS
<1>20. /\ l \in Locals
       /\ l.left = NodeAt(s1, 1) /\ l.leftLast = NodeAt(s1, w)
       /\ l.right = NodeAt(s1, w + 1) /\ l.rightEnd = NodeAt(s1, 2 * w + 1)
       /\ l.distance = w
  <2>1. local \in Locals /\ w \in Nat /\ w # 0 /\ Behind(joined, "o", s1)
    BY <1>3, <1>5, <1>17
  <2>2. /\ l \in Locals
        /\ l.left = NodeAt(s1, 1) /\ l.leftLast = NodeAt(s1, w)
        /\ l.right = NodeAt(s1, w + 1) /\ l.rightEnd = NodeAt(s1, 2 * w + 1)
        /\ l.distance = local.distance
    BY <1>19, <2>1, SectionsAre
  <2> QED BY <1>4, <2>2
<1>21. TailCell(joined, s[1]) = d1[Len(d1)] /\ Len(d1) # 0
  <2>1. /\ Len(d) + 1 \in 1 .. Len(d) + q /\ Len(d) + 1 \in 0 .. Len(d1)
        /\ Len(d) + 1 # 0 /\ Len(d1) # 0 /\ ~(Len(d) + 1 <= Len(d)) /\ (Len(d) + 1) - Len(d) = 1
    BY <1>2, <1>3, <1>16
  <2>2. d1[Len(d) + 1] = s[1]
    BY <1>16, <2>1
  <2>3. CellAt("dest", d1, Len(d) + 1) = s[1] /\ CellAt("dest", d1, Len(d1)) = d1[Len(d1)]
    BY <2>1, <2>2 DEF CellAt
  <2>4. TailCell(joined, CellAt("dest", d1, Len(d) + 1)) = CellAt("dest", d1, Len(d1))
    BY <1>17, <2>1, TailIs
  <2> QED BY <2>1, <2>3, <2>4
<1>22. PICK ins : ins = d1[Len(d1)]
  OBVIOUS
<1>23. ins \in Pointers /\ d1 # <<>>
  <2>1. Len(d1) \in 1 .. Len(d1)
    BY <1>16, <1>21
  <2>2. ins \in Nodes
    BY <1>16, <1>22, <2>1
  <2>3. d1 # <<>>
    BY <1>21
  <2> QED BY <2>2, <2>3, HeadsAre DEF Pointers
<1>24. local' = [l EXCEPT !.ins = ins]
  BY <1>11, <1>18, <1>19, <1>21, <1>22
<1>25. PICK p1, q1 \in 0 .. Len(s1) :
          /\ SectionsOf(s1, p1, q1, w)
          /\ NodeAt(s1, w + 1) = NodeAt(s1, p1 + 1) /\ NodeAt(s1, 2 * w + 1) = NodeAt(s1, q1 + 1)
          /\ s1 # <<>> => p1 \in 0 .. q1 /\ q1 \in 1 .. Len(s1) /\ NodeAt(s1, 1) = s1[1]
  <2>1. s1 \in Seq(Nodes) /\ w \in Nat /\ w # 0
    BY <1>5, <1>15
  <2> QED BY <2>1, SectionsBegin
<1>26. /\ local' \in Locals /\ local'.distance = l.distance /\ local'.leftLast = l.leftLast
       /\ local'.left = l.left /\ local'.right = l.right
       /\ local'.rightEnd = l.rightEnd /\ local'.ins = ins
  BY <1>20, <1>23, <1>24 DEF Locals
<1>27. /\ local' \in Locals /\ local'.distance = w /\ local'.leftLast = NodeAt(s1, w)
       /\ local'.left = NodeAt(s1, 1) /\ local'.right = NodeAt(s1, p1 + 1)
       /\ local'.rightEnd = NodeAt(s1, q1 + 1) /\ local'.ins = ins
  BY <1>20, <1>25, <1>26
<1>28. s1 = <<>> <=> end = None
  <2>1. s1 = <<>> <=> Len(s1) = 0
    BY <1>15
  <2>2. Len(s1) \in Nat /\ (1 \in 1 .. Len(s1) <=> Len(s1) # 0)
    BY <1>15
  <2>3. 1 \in 1 .. Len(s1) => s1[1] \in Nodes
    BY <1>15
  <2> QED BY <1>18, <2>1, <2>2, <2>3, CellsAssumption DEF NodeAt
<1>29. pc' = IF s1 = <<>> THEN "passed" ELSE "section"
  BY <1>11, <1>28
<1>30. PoolShape(f, a)' /\ Members(a)' /\ order' = order
  BY SortMembers, Zenon DEF SortLabels
<1>31. Covers(s1, d1)
  <2>1. Len(s1) + Len(d1) = Len(s) + Len(d)
    BY <1>2, <1>3, <1>15, <1>16
  <2>2. \A n : On(n, s1, d1) <=> In(n, s1) \/ In(n, d1)
    BY DEF On, In
  <2> QED BY <1>1, <1>2, <1>13, <2>1, <2>2 DEF Covers
<1>32. Lists(a, s1, d1)'
  <2>1. pc' \in {"passed", "section"} /\ (pc' = "passed" => s1 = <<>>)
    BY <1>29
  <2>2. Covers(s1, d1)'
    BY <1>30, <1>31 DEF Covers, In
  <2> QED BY <1>11, <1>13, <2>1, <2>2 DEF Lists
<1>33. Cursors(s1, d1, p1, q1)'
  <2>1. CASE s1 = <<>>
    <3>1. pc' = "passed"
      BY <1>29, <2>1
    <3> QED BY <1>5, <1>27, <3>1 DEF Cursors
  <2>2. CASE s1 # <<>>
    <3>1. pc' = "section"
      BY <1>29, <2>2
    <3> QED BY <1>5, <1>22, <1>23, <1>25, <1>27, <2>2, <3>1 DEF Cursors
  <2> QED BY <2>1, <2>2
<1>34. Shape(f, a, s1, d1, p1, q1)'
  BY <1>30, <1>32, <1>33 DEF Shape
<1> QED BY <1>4, <1>12, <1>25, <1>27, <1>29, <1>34

LEMMA MergeSectionsShape ==
    ASSUME NEW f, NEW a, NEW s, NEW d, NEW p, NEW q, Shape(f, a, s, d, p, q), MergeSections
    PROVE  Shape(f, a, s, d, p, q)'
<1>1. pc = "section" /\ pc' = "merge" /\ sib' = sib /\ local' = local
  BY DEF MergeSections
<1>2. PoolShape(f, a)' /\ Members(a)' /\ order' = order
  BY <1>1, SortMembers DEF SortStep, SortLabels
<1>3. TwoLists(sib, "o", s, "dest", d) /\ Covers(s, d)
  BY <1>1 DEF Shape, Lists
<1>4. Lists(a, s, d)'
  BY <1>1, <1>2, <1>3 DEF Lists, Covers
<1>5. Cursors(s, d, p, q)
  BY DEF Shape
<1>6. Cursors(s, d, p, q)'
  BY <1>1, <1>5 DEF Cursors, SortLabels
<1> QED BY <1>2, <1>4, <1>6 DEF Shape

\* The k-th token of the list is the next: p1 tokens of the left section stay.
Taken(s, p, k, p1) ==
    \/ k = 1 /\ p1 = p - 1 /\ CompareTokens(s[1], s[p + 1]) <= 0
    \/ k = p + 1 /\ p1 = p /\ ~(CompareTokens(s[1], s[p + 1]) <= 0)

\* What the loop's variables hold in a merge.
LEMMA MergeCursors ==
    ASSUME NEW f, NEW a, NEW s, NEW d, NEW p, NEW q, Shape(f, a, s, d, p, q),
           pc = "merge", ~UsedUp
    PROVE  /\ TwoLists(sib, "o", s, "dest", d) /\ Covers(s, d) /\ local \in Locals
           /\ s \in Seq(Nodes) /\ d \in Seq(Nodes) /\ Len(s) \in Nat /\ Len(d) \in Nat
           /\ p \in 1 .. q - 1 /\ q \in 1 .. Len(s) /\ p + 1 \in 1 .. Len(s) /\ 1 \in 1 .. Len(s)
           /\ local.left = s[1] /\ local.right = s[p + 1] /\ local.rightEnd = NodeAt(s, q + 1)
           /\ CellAt("dest", d, Len(d)) = IF local.ins = None THEN "dest" ELSE local.ins
<1>1. TwoLists(sib, "o", s, "dest", d) /\ Covers(s, d)
  BY DEF Shape, Lists
<1>2. s \in Seq(Nodes) /\ d \in Seq(Nodes) /\ Len(s) \in Nat /\ Len(d) \in Nat
  BY <1>1, HeadOf
<1>3. /\ local \in Locals
      /\ p \in 0 .. q /\ q \in 1 .. Len(s)
      /\ local.left = s[1]
      /\ local.right = NodeAt(s, p + 1) /\ local.rightEnd = NodeAt(s, q + 1)
      /\ local.ins = IF d = <<>> THEN None ELSE d[Len(d)]
  BY DEF Shape, Cursors
<1>4. p # q /\ p # 0
  <2>1. NodeAt(s, p + 1) # NodeAt(s, q + 1)
    BY <1>3 DEF UsedUp
  <2>2. p # q
    BY <2>1
  <2>3. p + 1 = 1 => NodeAt(s, p + 1) = s[1]
    BY <1>2, <1>3 DEF NodeAt
  <2>4. NodeAt(s, p + 1) # s[1]
    BY <1>3 DEF UsedUp
  <2>5. p + 1 # 1
    BY <2>3, <2>4
  <2>6. p = 0 => p + 1 = 1
    OBVIOUS
  <2> QED BY <2>2, <2>5, <2>6
<1>5. p \in 1 .. q - 1 /\ q \in 1 .. Len(s) /\ p + 1 \in 1 .. Len(s) /\ 1 \in 1 .. Len(s)
  BY <1>2, <1>3, <1>4
<1>6. NodeAt(s, p + 1) = s[p + 1]
  BY <1>5 DEF NodeAt
<1>7. CellAt("dest", d, Len(d)) = IF local.ins = None THEN "dest" ELSE local.ins
  <2>1. CASE d = <<>>
    <3>1. Len(d) = 0
      BY <2>1
    <3> QED BY <1>3, <2>1, <3>1 DEF CellAt
  <2>2. CASE d # <<>>
    <3>1. Len(d) # 0 /\ Len(d) \in 1 .. Len(d)
      BY <1>2, <2>2
    <3>2. d[Len(d)] # None
      BY <1>2, <3>1, CellsAssumption
    <3> QED BY <1>3, <2>2, <3>1, <3>2 DEF CellAt
  <2> QED BY <2>1, <2>2
<1> QED BY <1>1, <1>2, <1>3, <1>5, <1>6, <1>7

\* The nodes that are left in a merge.
LEMMA MergeLeft ==
    ASSUME NEW s \in Seq(Nodes), NEW q \in 1 .. Len(s), NEW p \in 1 .. q - 1,
           NEW k, NEW p1, Taken(s, p, k, p1),
           NEW s1, s1 = Removed(s, k)
    PROVE  /\ k \in 1 .. Len(s) /\ s1 \in Seq(Nodes) /\ Len(s1) = Len(s) - 1
           /\ p1 \in 0 .. q - 1 /\ q - 1 \in 1 .. Len(s1)
           /\ (q - 1) + 1 = q /\ NodeAt(s1, q) = NodeAt(s, q + 1)
           /\ s1[1] = IF k = 1 THEN NodeAt(s, 2) ELSE s[1]
           /\ NodeAt(s1, p1 + 1) = IF k = 1 THEN s[p + 1] ELSE NodeAt(s, p + 2)
<1>1. k \in {1, p + 1} /\ p1 = IF k = 1 THEN p - 1 ELSE p
  BY DEF Taken
<1>2. /\ Len(s) \in Nat /\ k \in 1 .. Len(s) /\ p1 \in 0 .. q - 1 /\ q \in 1 .. Len(s) /\ ~(q < k)
      /\ p1 + 1 \in 1 .. Len(s) /\ (q - 1) + 1 = q
      /\ p + 1 \in 1 .. Len(s) /\ q - 1 \in 1 .. Len(s) - 1
      /\ (k = 1 => ~(p1 + 1 < k) /\ (p1 + 1) + 1 = p + 1)
      /\ (k # 1 => ~(p1 + 1 < k) /\ (p1 + 1) + 1 = p + 2 /\ 1 < k)
      /\ 1 \in 1 .. Len(s) - 1
  BY <1>1
<1>3. s1 \in Seq(Nodes) /\ Len(s1) = Len(s) - 1
  BY <1>2, RemovedIs
<1>4. \A i \in 1 .. Len(s) : NodeAt(s1, i) = IF i < k THEN NodeAt(s, i) ELSE NodeAt(s, i + 1)
  <2>1. s \in Seq(Nodes) /\ k \in 1 .. Len(s)
    BY <1>2
  <2> QED BY <2>1, RemovedAt
<1>5. NodeAt(s1, q) = NodeAt(s, q + 1)
  BY <1>2, <1>4
<1>6. NodeAt(s1, 1) = IF k = 1 THEN NodeAt(s, 2) ELSE NodeAt(s, 1)
  <2>1. 1 \in 1 .. Len(s) /\ (k = 1 => ~(1 < k)) /\ 1 + 1 = 2
    BY <1>2
  <2> QED BY <1>2, <1>4, <2>1
<1>7. NodeAt(s1, p1 + 1) = IF k = 1 THEN NodeAt(s, p + 1) ELSE NodeAt(s, p + 2)
  <2>1. NodeAt(s1, p1 + 1) = NodeAt(s, (p1 + 1) + 1)
    BY <1>2, <1>4
  <2> QED BY <1>2, <2>1
<1>8. NodeAt(s1, 1) = s1[1] /\ NodeAt(s, 1) = s[1] /\ NodeAt(s, p + 1) = s[p + 1]
  <2>1. 1 \in 1 .. Len(s1) /\ 1 \in 1 .. Len(s)
    BY <1>2, <1>3
  <2> QED BY <1>2, <2>1 DEF NodeAt
<1> QED BY <1>2, <1>3, <1>5, <1>6, <1>7, <1>8

LEMMA MergeTokenShape ==
    ASSUME NEW f, NEW a, NEW s, NEW d, NEW p, NEW q, Shape(f, a, s, d, p, q), MergeToken
    PROVE  /\ s \in Seq(Nodes) /\ d \in Seq(Nodes) /\ q \in 1 .. Len(s) /\ p \in 1 .. q - 1
           /\ \E k \in 1 .. Len(s), p1 \in 0 .. q - 1 :
                 /\ Taken(s, p, k, p1)
                 /\ Shape(f, a, Removed(s, k), Inserted(d, Len(d), s[k]), p1, q - 1)'
                 /\ pc' = "merge" /\ local'.distance = local.distance
<1>1. pc = "merge" /\ ~UsedUp /\ pc' = "merge"
  BY DEF MergeToken
<1>2. /\ TwoLists(sib, "o", s, "dest", d) /\ Covers(s, d) /\ local \in Locals
      /\ s \in Seq(Nodes) /\ d \in Seq(Nodes) /\ Len(s) \in Nat /\ Len(d) \in Nat
      /\ p \in 1 .. q - 1 /\ q \in 1 .. Len(s) /\ p + 1 \in 1 .. Len(s) /\ 1 \in 1 .. Len(s)
      /\ local.left = s[1] /\ local.right = s[p + 1] /\ local.rightEnd = NodeAt(s, q + 1)
      /\ CellAt("dest", d, Len(d)) = IF local.ins = None THEN "dest" ELSE local.ins
  BY <1>1, MergeCursors
<1>3. PICK cell : cell = CellAt("dest", d, Len(d))
  OBVIOUS
<1>4. PICK side \in {"left", "right"} :
         /\ side = "left" <=> CompareTokens(local.left, local.right) <= 0
         /\ local' = [local EXCEPT ![side] = sib.next[local[side]], !.ins = local[side]]
         /\ sib' = InsertAfter(Del(sib, local[side]), cell, local[side])
  BY <1>2, <1>3, Zenon DEF MergeToken
<1>5. PICK k, p1 :
         /\ Taken(s, p, k, p1)
         /\ k = (IF side = "left" THEN 1 ELSE p + 1) /\ (k = 1 <=> side = "left")
  <2>1. CASE side = "left"
    <3>1. CompareTokens(s[1], s[p + 1]) <= 0
      BY <1>2, <1>4, <2>1
    <3>2. Taken(s, p, 1, p - 1)
      BY <3>1 DEF Taken
    <3> QED BY <2>1, <3>2
  <2>2. CASE side # "left"
    <3>1. ~(CompareTokens(s[1], s[p + 1]) <= 0)
      BY <1>2, <1>4, <2>2
    <3>2. Taken(s, p, p + 1, p)
      BY <3>1 DEF Taken
    <3>3. p + 1 # 1
      BY <1>2
    <3> QED BY <2>2, <3>2, <3>3
  <2> QED BY <2>1, <2>2
<1>6. PICK s1 : s1 = Removed(s, k)
  OBVIOUS
<1>7. /\ k \in 1 .. Len(s) /\ s1 \in Seq(Nodes) /\ Len(s1) = Len(s) - 1
      /\ p1 \in 0 .. q - 1 /\ q - 1 \in 1 .. Len(s1)
      /\ (q - 1) + 1 = q /\ NodeAt(s1, q) = NodeAt(s, q + 1)
      /\ s1[1] = IF k = 1 THEN NodeAt(s, 2) ELSE s[1]
      /\ NodeAt(s1, p1 + 1) = IF k = 1 THEN s[p + 1] ELSE NodeAt(s, p + 2)
  <2>1. s \in Seq(Nodes) /\ q \in 1 .. Len(s) /\ p \in 1 .. q - 1 /\ Taken(s, p, k, p1)
        /\ s1 = Removed(s, k)
    BY <1>2, <1>5, <1>6
  <2> QED BY <2>1, MergeLeft
<1>8. PICK work : work = s[k]
  OBVIOUS
<1>9. local[side] = work
  <2>1. side = "left" => k = 1 /\ local[side] = local.left
    BY <1>5
  <2>2. side # "left" => k = p + 1 /\ side = "right" /\ local[side] = local.right
    BY <1>4, <1>5
  <2> QED BY <1>2, <1>8, <2>1, <2>2
<1>10. PICK d1 : d1 = Inserted(d, Len(d), work)
  OBVIOUS
<1>11. Len(d) \in 0 .. Len(d)
  BY <1>2
<1>12. /\ TwoLists(sib', "o", s1, "dest", d1)
       /\ work \in Nodes /\ In(work, s)
       /\ \A n : In(n, s1) <=> n # work /\ In(n, s)
       /\ \A n : In(n, d1) <=> n = work \/ In(n, d)
  <2>1. sib' = InsertAfter(Del(sib, s[k]), CellAt("dest", d, Len(d)), s[k])
    BY <1>3, <1>4, <1>8, <1>9
  <2> QED BY <1>2, <1>6, <1>7, <1>8, <1>10, <1>11, <2>1, MoveNode
<1>13. d1 \in Seq(Nodes) /\ Len(d1) = Len(d) + 1 /\ d1[Len(d1)] = work /\ d1 # <<>>
  <2>1. /\ d1 \in Seq(Nodes) /\ Len(d1) = Len(d) + 1
        /\ \A i \in 1 .. Len(d) + 1 :
             d1[i] = IF i <= Len(d) THEN d[i] ELSE IF i = Len(d) + 1 THEN work ELSE d[i - 1]
    BY <1>2, <1>10, <1>11, <1>12, InsertedIs
  <2>2. Len(d) + 1 \in 1 .. Len(d) + 1 /\ ~(Len(d) + 1 <= Len(d)) /\ Len(d) + 1 # 0
    BY <1>2
  <2> QED BY <2>1, <2>2
<1>14. PICK second : second = NodeAt(s, k + 1)
  OBVIOUS
<1>15. sib.next[work] = second /\ second \in Pointers
  <2>1. k \in 0 .. Len(s) /\ k # 0 /\ k + 1 \in Nat
    BY <1>2, <1>7
  <2>2. sib.next[CellAt("o", s, k)] = NodeAt(s, k + 1)
    BY <1>2, <2>1 DEF TwoLists, Listed
  <2>3. second \in Pointers
    BY <1>2, <1>14, <2>1, CellsOn
  <2> QED BY <1>8, <1>14, <2>1, <2>2, <2>3 DEF CellAt
<1>16. local' = [local EXCEPT ![side] = second, !.ins = work] /\ work \in Pointers
  BY <1>4, <1>9, <1>12, <1>15, HeadsAre DEF Pointers
<1>17. /\ local' \in Locals /\ local'.distance = local.distance /\ local'.ins = work
       /\ local'.rightEnd = local.rightEnd
       /\ local'.left = (IF side = "left" THEN second ELSE local.left)
       /\ local'.right = (IF side = "left" THEN local.right ELSE second)
  <2>1. CASE side = "left"
    BY <1>2, <1>15, <1>16, <2>1 DEF Locals
  <2>2. CASE side = "right"
    BY <1>2, <1>15, <1>16, <2>2 DEF Locals
  <2> QED BY <1>4, <2>1, <2>2
<1>18. local'.left = s1[1] /\ local'.right = NodeAt(s1, p1 + 1)
  <2>1. k = 1 => k + 1 = 2
    OBVIOUS
  <2>2. k # 1 => k + 1 = p + 2
    BY <1>2, <1>5
  <2> QED BY <1>2, <1>5, <1>7, <1>14, <1>17, <2>1, <2>2
<1>19. local'.rightEnd = NodeAt(s1, (q - 1) + 1)
  BY <1>2, <1>7, <1>17
<1>20. PoolShape(f, a)' /\ Members(a)' /\ order' = order
  BY <1>1, SortMembers DEF SortStep, SortLabels
<1>21. Covers(s1, d1)
  <2>1. Len(s1) + Len(d1) = Len(s) + Len(d)
    BY <1>2, <1>7, <1>13
  <2>2. \A t \in Tokens : In(t, s1) \/ In(t, d1) <=> In(t, s) \/ In(t, d)
    BY <1>12
  <2> QED BY <1>2, <2>1, <2>2 DEF Covers
<1>22. Lists(a, s1, d1)'
  <2>1. Covers(s1, d1)'
    BY <1>20, <1>21 DEF Covers, In
  <2> QED BY <1>1, <1>12, <2>1 DEF Lists
<1>23. PICK q1 : q1 = q - 1
  OBVIOUS
<1>24. Cursors(s1, d1, p1, q1)'
  <2>1. local.distance # 0
    BY <1>1 DEF Shape, Cursors, SortLabels
  <2> QED BY <1>1, <1>7, <1>13, <1>17, <1>18, <1>19, <1>23, <2>1 DEF Cursors
<1>25. Shape(f, a, s1, d1, p1, q1)'
  BY <1>20, <1>22, <1>24 DEF Shape
<1> QED BY <1>1, <1>2, <1>5, <1>6, <1>7, <1>8, <1>10, <1>17, <1>23, <1>25

\* dest_list is the list of the object again.
LEMMA EndPassShape ==
    ASSUME NEW f, NEW a, NEW s, NEW d, NEW p, NEW q, Shape(f, a, s, d, p, q), EndPass
    PROVE  /\ s = <<>> /\ Shape(f, a, d, <<>>, p, q)'
           /\ pc' = "pass" /\ local'.distance = 2 * local.distance
<1>1. /\ pc = "passed" /\ pc' = "pass" /\ s = <<>>
      /\ sib' = Join(sib, "o", sib.next["dest"]) /\ local' = [local EXCEPT !.distance = 2 * @]
  BY DEF EndPass, Shape, Lists
<1>2. TwoLists(sib, "o", <<>>, "dest", d) /\ Covers(<<>>, d)
  BY <1>1 DEF Shape, Lists
<1>3. TwoHeads(sib', "o", d, "dest")
  BY <1>1, <1>2, TakeOver
<1>4. PoolShape(f, a)' /\ Members(a)' /\ order' = order
  BY <1>1, SortMembers DEF SortStep, SortLabels
<1>5. Covers(d, <<>>)
  <2>1. Len(d) + 0 = 0 + Len(d)
    BY <1>2, HeadOf
  <2> QED BY <1>2, <2>1, EmptyIn DEF Covers
<1>6. Lists(a, d, <<>>)'
  BY <1>1, <1>3, <1>4, <1>5 DEF Lists, Covers
<1>7. local \in Locals /\ local.distance # 0
  BY <1>1 DEF Shape, Cursors, SortLabels
<1>8. /\ local' \in Locals /\ local'.distance = 2 * local.distance /\ local'.distance # 0
  <2>1. local.distance \in Nat /\ 2 * local.distance \in Nat /\ 2 * local.distance # 0
    BY <1>7 DEF Locals
  <2> QED BY <1>1, <1>7, <2>1 DEF Locals
<1>9. Cursors(d, <<>>, p, q)'
  BY <1>1, <1>8 DEF Cursors
<1> QED BY <1>1, <1>4, <1>6, <1>8, <1>9 DEF Shape

\* The pointers are lists.
Shaped == \E f, a, s, d, p, q : Shape(f, a, s, d, p, q)

LEMMA ShapedInit == Init => Shaped
<1> SUFFICES ASSUME Init PROVE Shape(<<>>, <<>>, <<>>, <<>>, 0, 0)
  BY DEF Shaped
<1>1. /\ alloc = NoLinks /\ sib = NoLinks /\ pc = "init" /\ local = NoLocals /\ order = <<>>
      /\ value = None /\ name = [t \in Tokens |-> None]
  BY DEF Init
<1>2. TwoLists(alloc, "free", <<>>, "active", <<>>) /\ TwoLists(sib, "o", <<>>, "dest", <<>>)
  BY <1>1, HeadsAre, EmptyLists
<1>3. PoolShape(<<>>, <<>>)
  BY <1>1, <1>2 DEF PoolShape
<1>4. Members(<<>>)
  <2>1. order \in Seq(Tokens) /\ Distinct(order) /\ 1 .. Len(order) = {}
    BY <1>1 DEF Distinct
  <2>2. name \in [Tokens -> Names \cup {None}] /\ value \in Pointers
    BY <1>1 DEF Pointers
  <2> QED BY <1>1, <2>1, <2>2 DEF Members, SortLabels
<1>5. Lists(<<>>, <<>>, <<>>)
  <2>1. Covers(<<>>, <<>>)
    BY <1>1, EmptyIn DEF Covers
  <2> QED BY <1>1, <1>2, <2>1 DEF Lists
<1>6. Cursors(<<>>, <<>>, 0, 0)
  <2>1. NoLocals \in Locals
    BY BlockAssumption, HeadsAre DEF NoLocals, Locals, Pointers, Cells
  <2> QED BY <1>1, <2>1 DEF Cursors, SortLabels
<1> QED BY <1>3, <1>4, <1>5, <1>6 DEF Shape

\* Where the search for the place of the next token begins.
LEMMA SearchBegins ==
    ASSUME NEW f, NEW a, NEW s, NEW d, NEW p, NEW q, Shape(f, a, s, d, p, q), pc = "insert"
    PROVE  \E x \in 0 .. Len(d) :
              CellAt("dest", d, x) = IF local.cached # None /\ CompareTokens(local.cached, s[1]) <= 0
                                     THEN local.cached ELSE local.cursor
<1>1. TwoLists(sib, "o", s, "dest", d)
  BY DEF Shape, Lists
<1>2. Len(d) \in Nat
  BY <1>1, HeadOf
<1>3. /\ local.cached # None => In(local.cached, d)
      /\ \E k \in 0 .. Len(d) : local.cursor = CellAt("dest", d, k)
  BY DEF Shape, Cursors
<1>4. local.cached # None => \E x \in 0 .. Len(d) : CellAt("dest", d, x) = local.cached
  <2> SUFFICES ASSUME local.cached # None
               PROVE  \E x \in 0 .. Len(d) : CellAt("dest", d, x) = local.cached
    OBVIOUS
  <2>1. PICK x \in 1 .. Len(d) : d[x] = local.cached
    BY <1>3 DEF In
  <2>2. x \in 0 .. Len(d) /\ x # 0
    BY <1>2, <2>1
  <2> QED BY <2>1, <2>2 DEF CellAt
<1> QED BY <1>3, <1>4

LEMMA ShapedSort ==
    ASSUME Shaped, SortStep
    PROVE  Shaped'
<1>1. PICK f, a, s, d, p, q : Shape(f, a, s, d, p, q)
  BY DEF Shaped
<1>2. ASSUME NEW s1, NEW d1, NEW p1, NEW q1, Shape(f, a, s1, d1, p1, q1)' PROVE Shaped'
  BY <1>2 DEF Shaped
<1>3. CASE InsertInBlock
  <2>1. CASE s = <<>>
    <3>1. Shape(f, a, d, <<>>, p, q)'
      BY <1>1, <1>3, <2>1, InsertedAll
    <3> QED BY <1>2, <3>1
  <2>2. CASE s # <<>>
    <3>1. pc = "insert"
      BY <1>3 DEF InsertInBlock
    <3>2. PICK x \in 0 .. Len(d) :
             CellAt("dest", d, x) = IF local.cached # None /\ CompareTokens(local.cached, s[1]) <= 0
                                    THEN local.cached ELSE local.cursor
      BY <1>1, <3>1, SearchBegins
    <3>3. \E m \in x .. Len(d) : Shape(f, a, Removed(s, 1), Inserted(d, m, s[1]), p, q)'
      BY <1>1, <1>3, <2>2, <3>2, InsertShape
    <3> QED BY <1>2, <3>3
  <2> QED BY <2>1, <2>2
<1>4. CASE NextBlock
  <2>1. Shape(f, a, s, d, p, q)'
    BY <1>1, <1>4, NextBlockShape
  <2> QED BY <1>2, <2>1
<1>5. CASE BeginPass
  <2>1. Shape(f, a, s, d, p, q)' \/ \E w, q1 : Shape(f, a, s, d, w, q1)'
    BY <1>1, <1>5, BeginPassShape
  <2> QED BY <1>2, <2>1
<1>6. ASSUME NEW right, JoinRest(right), pc \in {"section", "merge"},
             right = local.rightEnd \/ right = local.left
      PROVE  Shaped'
  <2>1. \E p1, q1 : Shape(f, a, Rest(s, q), Moved(d, s, q), p1, q1)'
    BY <1>1, <1>6, JoinShape
  <2> QED BY <1>2, <2>1
<1>7. CASE SkipSections
  <2>1. PICK right : right = local.rightEnd
    OBVIOUS
  <2>2. JoinRest(right) /\ pc = "section"
    BY <1>7, <2>1 DEF SkipSections, JoinRest
  <2> QED BY <1>6, <2>1, <2>2
<1>8. CASE MergeRest
  <2>1. PICK right : right = local.right
    OBVIOUS
  <2>2. JoinRest(right) /\ pc = "merge" /\ (right = local.rightEnd \/ right = local.left)
    BY <1>8, <2>1 DEF MergeRest, JoinRest, UsedUp
  <2> QED BY <1>6, <2>2
<1>9. CASE MergeSections
  <2>1. Shape(f, a, s, d, p, q)'
    BY <1>1, <1>9, MergeSectionsShape
  <2> QED BY <1>2, <2>1
<1>10. CASE MergeToken
  <2>1. \E k, p1 : Shape(f, a, Removed(s, k), Inserted(d, Len(d), s[k]), p1, q - 1)'
    BY <1>1, <1>10, MergeTokenShape
  <2> QED BY <1>2, <2>1
<1>11. CASE EndPass
  <2>1. Shape(f, a, d, <<>>, p, q)'
    BY <1>1, <1>11, EndPassShape
  <2> QED BY <1>2, <2>1
<1> QED BY <1>3, <1>4, <1>5, <1>7, <1>8, <1>9, <1>10, <1>11 DEF SortStep

LEMMA ShapedNext == Shaped /\ [Next]_vars => Shaped'
<1> SUFFICES ASSUME Shaped, [Next]_vars PROVE Shaped'
  OBVIOUS
<1>1. PICK f, a, s, d, p, q : Shape(f, a, s, d, p, q)
  BY DEF Shaped
<1>2. ASSUME NEW f1, NEW a1, NEW s1, NEW d1, NEW p1, NEW q1, Shape(f1, a1, s1, d1, p1, q1)'
      PROVE  Shaped'
  BY <1>2 DEF Shaped
<1>3. CASE FillPool
  <2>1. \E f1 : Shape(f1, a, s, d, p, q)'
    BY <1>1, <1>3, FillPoolShape
  <2> QED BY <1>2, <2>1
<1>4. CASE OpenObject
  <2>1. \E f1, a1 : Shape(f1, a1, <<>>, <<>>, p, q)'
    BY <1>1, <1>4, OpenObjectShape
  <2> QED BY <1>2, <2>1
<1>5. ASSUME NEW n \in Names, ReadName(n) PROVE Shaped'
  <2>1. \E f1, a1 : Shape(f1, a1, s, d, p, q)'
    BY <1>1, <1>5, ReadNameShape
  <2> QED BY <1>2, <2>1
<1>6. CASE CutName
  <2>1. \E f1, a1 : Shape(f1, a1, s, d, p, q)'
    BY <1>1, <1>6, CutNameShape
  <2> QED BY <1>2, <2>1
<1>7. CASE ReadValue
  <2>1. \E s1 : Shape(f, a, s1, d, p, q)'
    BY <1>1, <1>7, ReadValueShape
  <2> QED BY <1>2, <2>1
<1>8. CASE CloseObject
  <2>1. PICK s1 : s1 = order
    OBVIOUS
  <2>2. order' = order
    BY <1>8 DEF CloseObject
  <2>3. Shape(f, a, s1, <<>>, p, q)'
    BY <1>1, <1>8, <2>1, <2>2, CloseObjectShape
  <2> QED BY <1>2, <2>3
<1>9. CASE Reset
  <2>1. Shape(f, a, s, d, p, q)'
    BY <1>1, <1>9, ResetShape
  <2> QED BY <1>2, <2>1
<1>10. CASE ResetToken
  <2>1. \E f1, a1 : Shape(f1, a1, <<>>, <<>>, p, q)'
    BY <1>1, <1>10, ResetTokenShape
  <2> QED BY <1>2, <2>1
<1>11. CASE SortStep
  BY <1>11, ShapedSort
<1>12. CASE UNCHANGED vars
  <2>1. Shape(f, a, s, d, p, q)'
    BY <1>1, <1>12 DEF vars, Shape, PoolShape, Members, Lists, Cursors, Covers, Loose, SortLabels, In
  <2> QED BY <1>2, <2>1
<1> QED BY <1>3, <1>4, <1>5, <1>6, <1>7, <1>8, <1>9, <1>10, <1>11, <1>12 DEF Next

LEMMA ShapedAlways == Spec => []Shaped
BY ShapedInit, ShapedNext, PTL DEF Spec

\* Which lists there are, at each place of the code.
LEMMA ShapedReads ==
    ASSUME Shaped
    PROVE  \E f, a, s, d :
              /\ TwoLists(alloc, "free", f, "active", a)
              /\ pc # "init" => \A t \in Tokens : In(t, f) \/ In(t, a)
              /\ order \in Seq(Tokens) /\ Distinct(order)
              /\ pc \in {"members", "closed"} \cup SortLabels => len = Len(order)
              /\ pc # "reset" /\ pc # "pass" => TwoLists(sib, "o", s, "dest", d)
              /\ pc = "pass" => TwoHeads(sib, "o", s, "dest")
              /\ pc # "reset" => Covers(s, d)
              /\ pc \in {"members", "closed"} => d = <<>>
BY DEF Shaped, Shape, PoolShape, Members, Lists

LEMMA ShapedLinked ==
    ASSUME Shaped
    PROVE  PoolLinked /\ MembersLinked
<1>1. PICK f, a, s, d :
         /\ TwoLists(alloc, "free", f, "active", a)
         /\ pc # "reset" /\ pc # "pass" => TwoLists(sib, "o", s, "dest", d)
         /\ pc = "pass" => TwoHeads(sib, "o", s, "dest")
  BY ShapedReads
<1>2. PoolLinked
  BY <1>1, ListsLinked DEF PoolLinked
<1>3. ASSUME NEW b \in Heads, NEW e \in Seq(Nodes), Chain(sib, b) = e, Linked(sib)
      PROVE  WellLinked(sib, b)
  <2>1. Range(e) \subseteq Nodes
    BY DEF Range
  <2>2. {b} \cup Range(e) \subseteq Cells
    BY <2>1 DEF Cells
  <2> QED BY <1>3, <2>2 DEF WellLinked, Linked
<1>4. ASSUME pc # "reset" /\ pc # "pass"
      PROVE  WellLinked(sib, "o") /\ WellLinked(sib, "dest")
  <2>1. Linked(sib)
    BY <1>1, <1>4, ListsLinked
  <2>2. Chain(sib, "o") = s /\ Chain(sib, "dest") = d
    BY <1>1, <1>4, ListsRead
  <2>3. s \in Seq(Nodes) /\ d \in Seq(Nodes) /\ "o" \in Heads /\ "dest" \in Heads
    BY <1>1, <1>4, HeadsAre DEF TwoLists, Disjoint
  <2> QED BY <1>3, <2>1, <2>2, <2>3
<1>5. ASSUME pc = "pass" PROVE WellLinked(sib, "o")
  <2>1. /\ Behind(sib, "o", s) /\ Chain(sib, "o") = s
        /\ \A i \in 1 .. Len(s) : sib.toSelf[s[i]] = CellAt("o", s, i - 1)
    BY <1>1, <1>5, TwoHeadsRead
  <2>2. /\ s \in Seq(Nodes) /\ Len(s) \in Nat
        /\ \A i \in 0 .. Len(s) : sib.next[CellAt("o", s, i)] = NodeAt(s, i + 1)
    BY <2>1 DEF Behind
  <2>3. ASSUME NEW i \in 0 .. Len(s), NEW c, c = CellAt("o", s, i), sib.next[c] # None
        PROVE  sib.toSelf[sib.next[c]] = c
    <3>1. sib.next[c] = NodeAt(s, i + 1)
      BY <2>2, <2>3
    <3>2. i + 1 \in 1 .. Len(s) /\ (i + 1) - 1 = i
      BY <2>2, <2>3, <3>1 DEF NodeAt
    <3>3. sib.next[c] = s[i + 1]
      BY <3>1, <3>2 DEF NodeAt
    <3> QED BY <2>1, <2>3, <3>2, <3>3
  <2>4. \A c \in {"o"} \cup Range(s) : \E i \in 0 .. Len(s) : c = CellAt("o", s, i)
    <3>1. 0 \in 0 .. Len(s) /\ CellAt("o", s, 0) = "o"
      BY <2>2 DEF CellAt
    <3>2. ASSUME NEW c \in Range(s) PROVE \E i \in 0 .. Len(s) : c = CellAt("o", s, i)
      <4>1. PICK i \in 1 .. Len(s) : c = s[i]
        BY <2>2 DEF Range
      <4>2. i \in 0 .. Len(s) /\ i # 0
        BY <2>2, <4>1
      <4> QED BY <4>1, <4>2 DEF CellAt
    <3> QED BY <3>1, <3>2
  <2> QED BY <2>1, <2>3, <2>4 DEF WellLinked
<1>6. SortLabels \ {"pass"} \subseteq {"insert", "section", "merge", "passed"}
  BY DEF SortLabels
<1>7. MembersLinked
  BY <1>4, <1>5, <1>6 DEF MembersLinked
<1> QED BY <1>2, <1>7

\* Two sequences without a node twice have as many nodes as they are long.
LEMMA CountNodes ==
    ASSUME NEW s \in Seq(Nodes), NEW d \in Seq(Nodes), Distinct(s), Distinct(d),
           \A i \in 1 .. Len(s), j \in 1 .. Len(d) : s[i] # d[j]
    PROVE  Partition(s, d, Range(s) \cup Range(d))
<1> DEFINE S == Range(s) \cup Range(d)
           n == Len(s) + Len(d)
           g == [i \in 1 .. n |-> IF i <= Len(s) THEN s[i] ELSE d[i - Len(s)]]
<1>1. /\ Len(s) \in Nat /\ Len(d) \in Nat /\ n \in Nat
      /\ Range(s) = {s[i] : i \in 1 .. Len(s)} /\ Range(d) = {d[i] : i \in 1 .. Len(d)}
  BY DEF Range
<1>2. \A i \in 1 .. n : IF i <= Len(s) THEN i \in 1 .. Len(s) ELSE i - Len(s) \in 1 .. Len(d)
  BY <1>1
<1>3. g \in [1 .. n -> S]
  BY <1>1, <1>2
<1>4. \A i \in 1 .. n : g[i] = IF i <= Len(s) THEN s[i] ELSE d[i - Len(s)]
  OBVIOUS
<1> HIDE DEF g
<1>5. \A i, j \in 1 .. n : g[i] = g[j] => i = j
  <2> SUFFICES ASSUME NEW i \in 1 .. n, NEW j \in 1 .. n, g[i] = g[j] PROVE i = j
    OBVIOUS
  <2>1. CASE i <= Len(s) /\ j <= Len(s)
    BY <1>2, <1>4, <2>1 DEF Distinct
  <2>2. CASE ~(i <= Len(s)) /\ ~(j <= Len(s))
    <3>1. i - Len(s) = j - Len(s)
      BY <1>2, <1>4, <2>2 DEF Distinct
    <3> QED BY <1>1, <3>1
  <2>3. CASE i <= Len(s) /\ ~(j <= Len(s))
    BY <1>2, <1>4, <2>3
  <2>4. CASE ~(i <= Len(s)) /\ j <= Len(s)
    BY <1>2, <1>4, <2>4
  <2> QED BY <2>1, <2>2, <2>3, <2>4
<1>6. \A x \in S : \E i \in 1 .. n : g[i] = x
  <2> SUFFICES ASSUME NEW x \in S PROVE \E i \in 1 .. n : g[i] = x
    OBVIOUS
  <2>1. CASE x \in Range(s)
    <3>1. PICK i \in 1 .. Len(s) : x = s[i]
      BY <1>1, <2>1
    <3>2. i \in 1 .. n /\ i <= Len(s)
      BY <1>1, <3>1
    <3> QED BY <1>4, <3>1, <3>2
  <2>2. CASE x \in Range(d)
    <3>1. PICK i \in 1 .. Len(d) : x = d[i]
      BY <1>1, <2>2
    <3>2. i + Len(s) \in 1 .. n /\ ~(i + Len(s) <= Len(s)) /\ (i + Len(s)) - Len(s) = i
      BY <1>1, <3>1
    <3> QED BY <1>4, <3>1, <3>2
  <2> QED BY <2>1, <2>2
<1>7. g \in Bijection(1 .. n, S)
  <2> HIDE DEF n, S
  <2>1. g \in Injection(1 .. n, S)
    BY <1>3, <1>5 DEF Injection, IsInjective
  <2>2. g \in Surjection(1 .. n, S)
    BY <1>3, <1>6 DEF Surjection
  <2> QED BY <2>1, <2>2 DEF Bijection
<1>8. ExistsBijection(1 .. n, S)
  BY <1>7 DEF ExistsBijection
<1>9. IsFiniteSet(1 .. n) /\ Cardinality(1 .. n) = n
  <2>1. 1 \in Int /\ n \in Int
    BY <1>1
  <2>2. IsFiniteSet(1 .. n) /\ Cardinality(1 .. n) = IF 1 > n THEN 0 ELSE n - 1 + 1
    BY <2>1, FS_Interval
  <2> HIDE DEF n
  <2> QED BY <1>1, <2>2
<1>10. Cardinality(S) = n
  <2> HIDE DEF n, S
  <2> QED BY <1>8, <1>9, FS_Bijection
<1> QED BY <1>10 DEF Partition

LEMMA CountLists ==
    ASSUME NEW h, NEW a, NEW s, NEW b, NEW d, TwoLists(h, a, s, b, d)
    PROVE  /\ Partition(Chain(h, a), Chain(h, b), Range(s) \cup Range(d))
           /\ \A t : t \in Range(s) \cup Range(d) <=> In(t, s) \/ In(t, d)
<1>1. /\ s \in Seq(Nodes) /\ d \in Seq(Nodes) /\ Distinct(s) /\ Distinct(d)
      /\ \A i \in 1 .. Len(s), j \in 1 .. Len(d) : s[i] # d[j]
  BY DEF TwoLists, Disjoint
<1>2. Partition(s, d, Range(s) \cup Range(d))
  BY <1>1, CountNodes
<1>3. Chain(h, a) = s /\ Chain(h, b) = d
  BY ListsRead
<1>4. \A t : t \in Range(s) \cup Range(d) <=> In(t, s) \/ In(t, d)
  BY <1>1 DEF Range, In
<1> QED BY <1>2, <1>3, <1>4

LEMMA CountOrder ==
    ASSUME NEW s \in Seq(Nodes), Distinct(s)
    PROVE  /\ Cardinality(Range(s)) = Len(s) /\ Range(s) \subseteq Nodes
           /\ \A t : t \in Range(s) <=> In(t, s)
<1>1. PICK e \in Seq(Nodes) : Len(e) = 0 /\ Range(e) = {} /\ Distinct(e)
  <2>1. <<>> \in Seq(Nodes) /\ Len(<<>>) = 0 /\ Range(<<>>) = {} /\ Distinct(<<>>)
    BY DEF Range, Distinct
  <2> QED BY <2>1
<1>2. Len(s) \in Nat /\ 1 .. Len(e) = {}
  BY <1>1
<1>3. Cardinality(Range(s)) = Len(s)
  <2>1. \A i \in 1 .. Len(s), j \in 1 .. Len(e) : s[i] # e[j]
    BY <1>2
  <2>2. Partition(s, e, Range(s) \cup Range(e))
    BY <1>1, <2>1, CountNodes
  <2>3. Range(s) \cup Range(e) = Range(s) /\ Len(s) + Len(e) = Len(s)
    BY <1>1, <1>2
  <2> QED BY <2>2, <2>3 DEF Partition
<1>4. Range(s) \subseteq Nodes /\ \A t : t \in Range(s) <=> In(t, s)
  BY DEF Range, In
<1> QED BY <1>3, <1>4

LEMMA ShapedCounts ==
    ASSUME Shaped
    PROVE  NoTokenLost
<1>1. PICK f, a, s, d :
         /\ TwoLists(alloc, "free", f, "active", a)
         /\ pc # "init" => \A t \in Tokens : In(t, f) \/ In(t, a)
         /\ order \in Seq(Tokens) /\ Distinct(order)
         /\ pc # "reset" /\ pc # "pass" => TwoLists(sib, "o", s, "dest", d)
         /\ pc # "reset" => Covers(s, d)
  BY ShapedReads
<1>2. ASSUME NEW b, NEW e, TwoLists(alloc, b, f, e, a), pc # "init"
      PROVE  Partition(Chain(alloc, b), Chain(alloc, e), Tokens)
  <2>1. /\ Partition(Chain(alloc, b), Chain(alloc, e), Range(f) \cup Range(a))
        /\ \A t : t \in Range(f) \cup Range(a) <=> In(t, f) \/ In(t, a)
    BY <1>2, CountLists
  <2>2. f \in Seq(Nodes) /\ a \in Seq(Nodes)
    BY <1>2, HeadOf
  <2>3. Range(f) \cup Range(a) \subseteq Nodes
    BY <2>2 DEF Range
  <2>4. Range(f) \cup Range(a) = Tokens
    BY <1>1, <1>2, <2>1, <2>3, HeadsAre
  <2> QED BY <2>1, <2>4
<1>3. ASSUME NEW b, NEW e, TwoLists(sib, b, s, e, d), Covers(s, d)
      PROVE  Partition(Chain(sib, b), Chain(sib, e), Range(order))
  <2>1. /\ Partition(Chain(sib, b), Chain(sib, e), Range(s) \cup Range(d))
        /\ \A t : t \in Range(s) \cup Range(d) <=> In(t, s) \/ In(t, d)
    BY <1>3, CountLists
  <2>2. s \in Seq(Nodes) /\ d \in Seq(Nodes)
    BY <1>3, HeadOf
  <2>3. Range(s) \cup Range(d) \subseteq Nodes
    BY <2>2 DEF Range
  <2>4. Range(order) \subseteq Nodes /\ \A t : t \in Range(order) <=> In(t, order)
    BY <1>1, CountOrder DEF Tokens
  <2>5. Range(s) \cup Range(d) = Range(order)
    BY <1>3, <2>1, <2>3, <2>4, HeadsAre DEF Covers
  <2> QED BY <2>1, <2>5
<1>4. SortLabels \ {"pass"} \subseteq {"insert", "section", "merge", "passed"}
  BY DEF SortLabels
<1> QED BY <1>1, <1>2, <1>3, <1>4 DEF NoTokenLost

LEMMA ShapedChildren ==
    ASSUME Shaped
    PROVE  ChildByIndex
<1> SUFFICES ASSUME pc \in {"members", "closed"} PROVE ChildByIndex
  BY DEF ChildByIndex
<1>1. PICK s : TwoLists(sib, "o", s, "dest", <<>>) /\ Covers(s, <<>>) /\ len = Len(order)
  BY ShapedReads
<1>2. /\ s \in Seq(Nodes) /\ Len(s) \in Nat /\ sib.next["o"] = NodeAt(s, 1)
      /\ Behind(sib, "o", s) /\ Chain(sib, "o") = s
  BY <1>1, HeadOf, ListsRead
<1>3. len = Len(s)
  BY <1>1, <1>2, EmptyIn DEF Covers
<1>4. \A i \in Nat : NthNext(sib, sib.next["o"], i) = NodeAt(s, 1 + i)
  <2> SUFFICES ASSUME NEW i \in Nat PROVE NthNext(sib, sib.next["o"], i) = NodeAt(s, 1 + i)
    OBVIOUS
  <2>1. 1 \in Nat /\ 1 # 0
    OBVIOUS
  <2>2. NthNext(sib, NodeAt(s, 1), i) = NodeAt(s, 1 + i)
    BY <1>2, <2>1, NthNextIs
  <2> QED BY <1>2, <2>2
<1>5. PICK n : n = Len(s)
  OBVIOUS
<1>6. ASSUME NEW i \in -n - 1 .. n
      PROVE  NthChild(i) = IF i \in 0 .. n - 1 THEN s[i + 1]
                           ELSE IF i \in -n .. -1 THEN s[n + i + 1]
                           ELSE None
  <2>0. n \in Nat /\ i \in Int /\ n = Len(s)
    BY <1>2, <1>5
  <2>1. CASE i \in 0 .. n - 1
    <3>1. ~(i < 0) /\ i \in Nat /\ 1 + i = i + 1 /\ i + 1 \in 1 .. Len(s)
      BY <2>0, <2>1
    <3>2. NthChild(i) = NodeAt(s, i + 1)
      BY <1>4, <3>1 DEF NthChild
    <3> QED BY <2>1, <3>1, <3>2 DEF NodeAt
  <2>2. CASE i = n
    <3>1. ~(i < 0) /\ i \in Nat /\ 1 + i \notin 1 .. Len(s) /\ i \notin 0 .. n - 1 /\ i \notin -n .. -1
      BY <2>0, <2>2
    <3>2. NthChild(i) = NodeAt(s, 1 + i)
      BY <1>4, <3>1 DEF NthChild
    <3> QED BY <3>1, <3>2 DEF NodeAt
  <2>3. CASE i \in -n .. -1
    <3>1. /\ i < 0 /\ ~(i + n < 0) /\ i + n \in Nat /\ 1 + (i + n) = n + i + 1
          /\ n + i + 1 \in 1 .. Len(s) /\ i \notin 0 .. n - 1
      BY <2>0, <2>3
    <3>2. NthChild(i) = NodeAt(s, 1 + (i + n))
      BY <1>3, <1>4, <1>5, <3>1 DEF NthChild
    <3> QED BY <2>3, <3>1, <3>2 DEF NodeAt
  <2>4. CASE i = -n - 1
    <3>1. i < 0 /\ i + n < 0 /\ i \notin 0 .. n - 1 /\ i \notin -n .. -1
      BY <2>0, <2>4
    <3>2. NthChild(i) = None
      BY <1>3, <1>5, <3>1 DEF NthChild
    <3> QED BY <3>1, <3>2
  <2> QED BY <2>0, <2>1, <2>2, <2>3, <2>4
<1> QED BY <1>2, <1>5, <1>6 DEF ChildByIndex

\* What the lists do not tell: v.len is a number even when no object has it.
Counted ==
    /\ pc \in {"init", "ready", "members", "closed", "reset"} \cup SortLabels
    /\ len \in 0 .. Cardinality(Tokens)

LEMMA CountBounded ==
    ASSUME NEW o \in Seq(Tokens), Distinct(o)
    PROVE  Len(o) \in 0 .. Cardinality(Tokens)
<1>1. Cardinality(Range(o)) = Len(o) /\ Range(o) \subseteq Tokens
  BY CountOrder DEF Tokens
<1>2. Cardinality(Range(o)) <= Cardinality(Tokens) /\ Cardinality(Tokens) \in Nat
  <2>1. Range(o) \in SUBSET Tokens
    BY <1>1
  <2> QED BY <2>1, PoolAssumption, FS_Subset, FS_CardinalityType
<1>3. Len(o) \in Nat
  OBVIOUS
<1> QED BY <1>1, <1>2, <1>3

LEMMA CountedNext == Counted /\ Shaped' /\ [Next]_vars => Counted'
<1> SUFFICES ASSUME Counted, Shaped', [Next]_vars PROVE Counted'
  OBVIOUS
<1>0. Cardinality(Tokens) \in Nat
  BY PoolAssumption, FS_CardinalityType
<1>1. ASSUME pc' \in {"init", "ready", "members", "closed", "reset"} \cup SortLabels,
             len' = len \/ len' = 0
      PROVE  Counted'
  BY <1>0, <1>1 DEF Counted
<1>2. CASE FillPool
  BY <1>1, <1>2 DEF FillPool, Counted
<1>3. CASE OpenObject
  BY <1>1, <1>3 DEF OpenObject
<1>4. ASSUME NEW n \in Names, ReadName(n) PROVE Counted'
  BY <1>1, <1>4 DEF ReadName
<1>5. CASE CutName
  BY <1>1, <1>5 DEF CutName
<1>6. CASE ReadValue
  <2>1. pc' = "members"
    BY <1>6 DEF ReadValue
  <2>2. PICK o : o = order'
    OBVIOUS
  <2>3. PICK n : n = len'
    OBVIOUS
  <2>4. o \in Seq(Tokens) /\ Distinct(o) /\ n = Len(o)
    <3>1. \E a : Members(a)'
      BY DEF Shaped, Shape
    <3>2. order' \in Seq(Tokens) /\ Distinct(order') /\ len' = Len(order')
      BY <2>1, <3>1 DEF Members, Distinct
    <3> QED BY <2>2, <2>3, <3>2
  <2>5. n \in 0 .. Cardinality(Tokens)
    BY <2>4, CountBounded
  <2> QED BY <2>1, <2>3, <2>5 DEF Counted
<1>7. CASE CloseObject
  BY <1>1, <1>7 DEF CloseObject, SortLabels
<1>8. CASE Reset
  BY <1>1, <1>8 DEF Reset
<1>9. CASE ResetToken
  BY <1>1, <1>9 DEF ResetToken
<1>10. CASE SortStep
  <2>1. ASSUME NEW right, JoinRest(right) PROVE len' = len /\ pc' \in SortLabels
    BY <2>1 DEF JoinRest, SortLabels
  <2>2. len' = len /\ pc' \in SortLabels \cup {"closed"}
    BY <1>10, <2>1 DEF SortStep, InsertInBlock, NextBlock, BeginPass, SkipSections,
                       MergeSections, MergeToken, MergeRest, EndPass, SortLabels
  <2> QED BY <1>1, <2>2
<1>11. CASE UNCHANGED vars
  BY <1>1, <1>11 DEF vars, Counted
<1> QED BY <1>2, <1>3, <1>4, <1>5, <1>6, <1>7, <1>8, <1>9, <1>10, <1>11 DEF Next

LEMMA CountedAlways == Spec => []Counted
<1>1. Init => Counted
  <2> SUFFICES ASSUME Init PROVE Counted
    OBVIOUS
  <2>1. Cardinality(Tokens) \in Nat
    BY PoolAssumption, FS_CardinalityType
  <2> QED BY <2>1 DEF Init, Counted
<1> QED BY <1>1, CountedNext, ShapedAlways, PTL DEF Spec

LEMMA ShapedTyped == Shaped /\ Counted => TypeOK
<1> SUFFICES ASSUME Shaped, Counted PROVE TypeOK
  OBVIOUS
<1>1. PICK f, a, s, d, p, q : Shape(f, a, s, d, p, q)
  BY DEF Shaped
<1>2. alloc \in Links
  BY <1>1 DEF Shape, PoolShape, TwoLists
<1>3. sib \in Links
  <2>1. CASE pc = "reset"
    BY <1>1, <2>1 DEF Shape, Lists, Loose
  <2>2. CASE pc = "pass"
    BY <1>1, <2>2 DEF Shape, Lists, TwoHeads
  <2>3. CASE pc \notin {"reset", "pass"}
    BY <1>1, <2>3 DEF Shape, Lists, TwoLists
  <2> QED BY <2>1, <2>2, <2>3
<1>4. name \in [Tokens -> Names \cup {None}] /\ value \in Pointers /\ order \in Seq(Tokens)
  BY <1>1 DEF Shape, Members
<1>5. local \in Locals
  BY <1>1 DEF Shape, Cursors
<1> QED BY <1>2, <1>3, <1>4, <1>5 DEF TypeOK, Counted

\* Every pointer is NULL or points into the pool, and every counter is within
\* its bounds, at every turn of the sort and of the reset.
THEOREM TypeCorrect == Spec => []TypeOK
BY ShapedAlways, CountedAlways, ShapedTyped, PTL

\* LINEAR_LINKER_WHOLE_ASSERT_ holds of the members at every turn of the sort:
\* a token and the pointer that leads to it know each other.
THEOREM MembersLinkedAlways == Spec => []MembersLinked
<1>1. Shaped => MembersLinked
  BY ShapedLinked
<1> QED BY <1>1, ShapedAlways, PTL

\* However the parser takes tokens, gives them back and resets, every pointer of
\* the pool to a token has its pointer back.
THEOREM PoolLinkedAlways == Spec => []PoolLinked
<1>1. Shaped => PoolLinked
  BY ShapedLinked
<1> QED BY <1>1, ShapedAlways, PTL

\* Neither the calls of the parser nor a turn of the sort loses a token or links
\* one twice.
THEOREM NoTokenIsLost == Spec => []NoTokenLost
<1>1. Shaped => NoTokenLost
  BY ShapedCounts
<1> QED BY <1>1, ShapedAlways, PTL

\* nmjson_token_nth_child counts from both ends.
THEOREM ChildrenCounted == Spec => []ChildByIndex
<1>1. Shaped => ChildByIndex
  BY ShapedChildren
<1> QED BY <1>1, ShapedAlways, PTL

\* Every node is in a list: something points to it.
AllLinked(h) == \A n \in Nodes : h.toSelf[n] # None

LEMMA ShapedPool == Shaped => (pc # "init" => AllLinked(alloc) /\ Acyclic(alloc))
<1> SUFFICES ASSUME Shaped, pc # "init" PROVE AllLinked(alloc) /\ Acyclic(alloc)
  OBVIOUS
<1>1. PICK f, a : TwoLists(alloc, "free", f, "active", a) /\ \A t \in Tokens : In(t, f) \/ In(t, a)
  BY ShapedReads
<1>2. Acyclic(alloc)
  BY <1>1, ListsRead
<1>3. AllLinked(alloc)
  <2> SUFFICES ASSUME NEW n \in Nodes PROVE alloc.toSelf[n] # None
    BY DEF AllLinked
  <2>1. On(n, f, a)
    BY <1>1, HeadsAre DEF In, On
  <2> QED BY <1>1, <2>1, ListedLinked
<1> QED BY <1>2, <1>3

\* After nmjson_parser_init no token is ever off both lists of the pool, and
\* neither runs in a circle: new_token_, del_token_ and the reset loop never meet
\* a to_self that is NULL.
THEOREM PoolKeepsTokens == Spec => [](pc # "init" => AllLinked(alloc) /\ Acyclic(alloc))
BY ShapedAlways, ShapedPool, PTL

-----------------------------------------------------------------------------
(* The order of the names.  Of two members with one name, the one that was  *)
(* read first is the lesser.                                                *)

\* token_compare_name_ orders the names.
LEMMA CompareIs ==
    ASSUME NEW n \in Names, NEW m \in Names
    PROVE  /\ Compare(n, m) \in Int /\ Compare(m, n) = -Compare(n, m)
           /\ Compare(n, m) = 0 <=> n = m
<1>1. n[1] \in Nat /\ n[2] \in Nat /\ m[1] \in Nat /\ m[2] \in Nat
      /\ (n[1] = m[1] /\ n[2] = m[2] => n = m)
  BY NamesAssumption
<1> QED BY <1>1 DEF Compare

LEMMA CompareTransitive ==
    ASSUME NEW n \in Names, NEW m \in Names, NEW o \in Names,
           Compare(n, m) <= 0, Compare(m, o) <= 0
    PROVE  /\ Compare(n, o) <= 0
           /\ Compare(n, o) = 0 => Compare(n, m) = 0 /\ Compare(m, o) = 0
<1>1. n[1] \in Nat /\ n[2] \in Nat /\ m[1] \in Nat /\ m[2] \in Nat /\ o[1] \in Nat /\ o[2] \in Nat
  BY NamesAssumption
<1> QED BY <1>1 DEF Compare

Earlier(t, u) ==
    \E i, j \in 1 .. Len(order) : i < j /\ order[i] = t /\ order[j] = u

Less(t, u) ==
    \/ CompareTokens(t, u) < 0
    \/ CompareTokens(t, u) = 0 /\ Earlier(t, u)

\* The members have names, and each is a member once.
Named ==
    /\ order \in Seq(Tokens) /\ Distinct(order)
    /\ \A i \in 1 .. Len(order) : name[order[i]] \in Names

LEMMA LessTransitive ==
    ASSUME Named, NEW t, NEW u, NEW x, In(t, order), In(u, order), In(x, order),
           Less(t, u), Less(u, x)
    PROVE  Less(t, x)
<1>1. name[t] \in Names /\ name[u] \in Names /\ name[x] \in Names
  BY DEF Named, In
<1>2. CompareTokens(t, u) \in Int /\ CompareTokens(u, x) \in Int /\ CompareTokens(t, x) \in Int
  BY <1>1, CompareIs DEF CompareTokens
<1>3. CompareTokens(t, u) <= 0 /\ CompareTokens(u, x) <= 0
  BY <1>2 DEF Less
<1>4. /\ CompareTokens(t, x) <= 0
      /\ CompareTokens(t, x) = 0 => CompareTokens(t, u) = 0 /\ CompareTokens(u, x) = 0
  BY <1>1, <1>3, CompareTransitive DEF CompareTokens
<1>5. ASSUME Earlier(t, u), Earlier(u, x) PROVE Earlier(t, x)
  <2>1. PICK i, j \in 1 .. Len(order) : i < j /\ order[i] = t /\ order[j] = u
    BY <1>5 DEF Earlier
  <2>2. PICK k, l \in 1 .. Len(order) : k < l /\ order[k] = u /\ order[l] = x
    BY <1>5 DEF Earlier
  <2>3. j = k
    BY <2>1, <2>2 DEF Named, Distinct
  <2>4. i < l
    BY <2>1, <2>2, <2>3
  <2> QED BY <2>1, <2>2, <2>4 DEF Earlier
<1>6. CASE CompareTokens(t, x) < 0
  BY <1>6 DEF Less
<1>7. CASE CompareTokens(t, x) = 0
  <2>1. CompareTokens(t, u) = 0 /\ CompareTokens(u, x) = 0
    BY <1>4, <1>7
  <2>2. Earlier(t, u) /\ Earlier(u, x)
    BY <2>1 DEF Less
  <2> QED BY <1>5, <1>7, <2>2 DEF Less
<1> QED BY <1>2, <1>4, <1>6, <1>7

\* Names that are not descending, or descending, and who was read first.
LEMMA LessByName ==
    ASSUME Named, NEW t, NEW u, In(t, order), In(u, order)
    PROVE  /\ CompareTokens(t, u) <= 0 /\ Earlier(t, u) => Less(t, u)
           /\ ~(CompareTokens(t, u) <= 0) => Less(u, t)
           /\ ~(CompareTokens(u, t) < 0) /\ Earlier(t, u) => Less(t, u)
           /\ Less(t, u) => CompareTokens(t, u) <= 0
<1>1. name[t] \in Names /\ name[u] \in Names
  BY DEF Named, In
<1>2. /\ CompareTokens(t, u) \in Int /\ CompareTokens(u, t) \in Int
      /\ CompareTokens(u, t) = -CompareTokens(t, u)
  BY <1>1, CompareIs DEF CompareTokens
<1>3. CompareTokens(t, u) <= 0 => CompareTokens(t, u) < 0 \/ CompareTokens(t, u) = 0
  BY <1>2
<1>4. ~(CompareTokens(t, u) <= 0) => CompareTokens(u, t) < 0
  BY <1>2
<1>5. ~(CompareTokens(u, t) < 0) => CompareTokens(t, u) <= 0
  BY <1>2
<1>6. CompareTokens(t, u) < 0 \/ CompareTokens(t, u) = 0 => CompareTokens(t, u) <= 0
  BY <1>2
<1> QED BY <1>3, <1>4, <1>5, <1>6 DEF Less

\* Names before a name that is not greater than the next.
LEMMA LessOrEqual ==
    ASSUME Named, NEW t, NEW u, NEW x, In(t, order), In(u, order), In(x, order),
           Less(t, u), CompareTokens(u, x) <= 0
    PROVE  CompareTokens(t, x) <= 0
<1>1. name[t] \in Names /\ name[u] \in Names /\ name[x] \in Names
  BY DEF Named, In
<1>2. CompareTokens(t, u) <= 0
  BY LessByName
<1> QED BY <1>1, <1>2, CompareTransitive DEF CompareTokens

-----------------------------------------------------------------------------
(* Runs. *)

Multiple(b, w) == \E k \in Nat : b = k * w

\* The nodes behind the b-th, up to the e-th, ascend.
Run(v, b, e) == \A i, j \in 1 .. Len(v) : b < i /\ i < j /\ j <= e => Less(v[i], v[j])

\* The first b nodes were read before all others.
Parted(v, b) == \A i, j \in 1 .. Len(v) : i <= b /\ b < j => Earlier(v[i], v[j])

\* So it is for every w nodes.
Runs(v, w, from, to) ==
    \A b \in from .. to : Multiple(b, w) /\ b < to => Run(v, b, b + w) /\ Parted(v, b)

LEMMA MultipleStep ==
    ASSUME NEW w \in Nat, w # 0, NEW b, NEW c, Multiple(b, w), Multiple(c, w)
    PROVE  /\ b \in Nat /\ c \in Nat
           /\ b < c => b + w <= c
           /\ Multiple(b + w, w) /\ Multiple(0, w)
<1>1. PICK k \in Nat : b = k * w
  BY DEF Multiple
<1>2. PICK l \in Nat : c = l * w
  BY DEF Multiple
<1>3. b \in Nat /\ c \in Nat
  BY <1>1, <1>2
<1>4. (k + 1) * w = k * w + w /\ 0 * w = 0 /\ k + 1 \in Nat
  OBVIOUS
<1>5. ASSUME b < c PROVE b + w <= c
  <2>1. k < l
    <3> SUFFICES ASSUME ~(k < l) PROVE FALSE
      OBVIOUS
    <3>1. k - l \in Nat /\ (k - l) * w \in Nat
      OBVIOUS
    <3>2. (k - l) * w = k * w - l * w
      OBVIOUS
    <3> QED BY <1>1, <1>2, <1>5, <3>1, <3>2
  <2>2. l - k - 1 \in Nat /\ (l - k - 1) * w \in Nat
    BY <2>1
  <2>3. (l - k - 1) * w = l * w - k * w - w
    OBVIOUS
  <2> QED BY <1>1, <1>2, <2>2, <2>3
<1> QED BY <1>1, <1>3, <1>4, <1>5 DEF Multiple

LEMMA MultipleDouble ==
    ASSUME NEW w \in Nat, NEW b, Multiple(b, 2 * w)
    PROVE  Multiple(b, w) /\ Multiple(b + w, w)
<1>1. PICK k \in Nat : b = k * (2 * w)
  BY DEF Multiple
<1>2. 2 * k \in Nat /\ 2 * k + 1 \in Nat
  OBVIOUS
<1>3. k * (2 * w) = (2 * k) * w /\ (2 * k) * w + w = (2 * k + 1) * w
  OBVIOUS
<1> QED BY <1>1, <1>2, <1>3 DEF Multiple

\* A shorter part of a run.
LEMMA RunPart ==
    ASSUME NEW v, NEW b \in Int, NEW e \in Int, Run(v, b, e), NEW c \in Int, NEW g \in Int,
           b <= c, g <= e \/ Len(v) <= e, Len(v) \in Nat
    PROVE  Run(v, c, g)
BY DEF Run

\* Two runs, the last of the one less than the first of the other.
LEMMA RunsMeet ==
    ASSUME Named, NEW v, \A i \in 1 .. Len(v) : In(v[i], order), Len(v) \in Nat,
           NEW b \in Nat, NEW c \in 1 .. Len(v) - 1, NEW e \in Nat,
           Run(v, b, c), Run(v, c, e), Less(v[c], v[c + 1])
    PROVE  Run(v, b, e)
<1> SUFFICES ASSUME NEW i \in 1 .. Len(v), NEW j \in 1 .. Len(v), b < i, i < j, j <= e
             PROVE  Less(v[i], v[j])
  BY DEF Run
<1>0. c \in 1 .. Len(v) /\ c + 1 \in 1 .. Len(v) /\ c \in Nat
  OBVIOUS
<1>1. CASE j <= c
  BY <1>1 DEF Run
<1>2. CASE c < i
  BY <1>2 DEF Run
<1>3. CASE i <= c /\ c < j
  <2>1. i = c \/ Less(v[i], v[c])
    <3>1. i # c => b < i /\ i < c /\ c <= c
      BY <1>0, <1>3
    <3> QED BY <1>0, <3>1 DEF Run
  <2>2. j = c + 1 \/ Less(v[c + 1], v[j])
    <3>1. j # c + 1 => c < c + 1 /\ c + 1 < j /\ j <= e
      BY <1>0, <1>3
    <3> QED BY <1>0, <3>1 DEF Run
  <2>3. Less(v[i], v[c + 1])
    BY <1>0, <2>1, LessTransitive
  <2> QED BY <1>0, <2>2, <2>3, LessTransitive
<1> QED BY <1>0, <1>1, <1>2, <1>3

-----------------------------------------------------------------------------
(* dest_list, with the list of the object behind it. *)

Whole(d, s) == Moved(d, s, Len(s))

LEMMA WholeIs ==
    ASSUME NEW d \in Seq(Nodes), NEW s \in Seq(Nodes)
    PROVE  /\ Whole(d, s) \in Seq(Nodes) /\ Len(Whole(d, s)) = Len(d) + Len(s)
           /\ Len(d) \in Nat /\ Len(s) \in Nat
           /\ \A i \in 1 .. Len(d) : Whole(d, s)[i] = d[i]
           /\ \A i \in 1 .. Len(s) : Whole(d, s)[Len(d) + i] = s[i]
           /\ \A n : (\E i \in 1 .. Len(Whole(d, s)) : Whole(d, s)[i] = n) <=> In(n, d) \/ In(n, s)
<1>1. Len(d) \in Nat /\ Len(s) \in Nat /\ Len(s) \in 0 .. Len(s)
  OBVIOUS
<1>2. PICK v : v = Whole(d, s)
  OBVIOUS
<1>3. /\ v \in Seq(Nodes) /\ Len(v) = Len(d) + Len(s)
      /\ \A i \in 1 .. Len(d) + Len(s) : v[i] = IF i <= Len(d) THEN d[i] ELSE s[i - Len(d)]
  BY <1>1, <1>2, MovedIs DEF Whole
<1>4. \A i \in 1 .. Len(d) : v[i] = d[i]
  <2> SUFFICES ASSUME NEW i \in 1 .. Len(d) PROVE v[i] = d[i]
    OBVIOUS
  <2>1. i \in 1 .. Len(d) + Len(s) /\ i <= Len(d)
    BY <1>1
  <2> QED BY <1>3, <2>1
<1>5. \A i \in 1 .. Len(s) : v[Len(d) + i] = s[i]
  <2> SUFFICES ASSUME NEW i \in 1 .. Len(s) PROVE v[Len(d) + i] = s[i]
    OBVIOUS
  <2>1. Len(d) + i \in 1 .. Len(d) + Len(s) /\ ~(Len(d) + i <= Len(d)) /\ (Len(d) + i) - Len(d) = i
    BY <1>1
  <2> QED BY <1>3, <2>1
<1>6. ASSUME NEW i \in 1 .. Len(v) PROVE In(v[i], d) \/ In(v[i], s)
  <2>1. CASE i <= Len(d)
    <3>1. i \in 1 .. Len(d)
      BY <1>1, <1>3, <2>1
    <3> QED BY <1>4, <3>1 DEF In
  <2>2. CASE ~(i <= Len(d))
    <3>1. i - Len(d) \in 1 .. Len(s) /\ Len(d) + (i - Len(d)) = i
      BY <1>1, <1>3, <2>2
    <3>2. v[Len(d) + (i - Len(d))] = s[i - Len(d)]
      BY <1>5, <3>1
    <3> QED BY <3>1, <3>2 DEF In
  <2> QED BY <2>1, <2>2
<1>7. ASSUME NEW i \in 1 .. Len(d) PROVE \E j \in 1 .. Len(v) : v[j] = d[i]
  <2>1. i \in 1 .. Len(v)
    BY <1>1, <1>3
  <2> QED BY <1>4, <2>1
<1>8. ASSUME NEW i \in 1 .. Len(s) PROVE \E j \in 1 .. Len(v) : v[j] = s[i]
  <2>1. Len(d) + i \in 1 .. Len(v)
    BY <1>1, <1>3
  <2> QED BY <1>5, <2>1
<1>9. \A n : (\E i \in 1 .. Len(v) : v[i] = n) <=> In(n, d) \/ In(n, s)
  <2>1. ASSUME NEW n, \E i \in 1 .. Len(v) : v[i] = n PROVE In(n, d) \/ In(n, s)
    BY <1>6, <2>1
  <2>2. ASSUME NEW n, In(n, d) \/ In(n, s) PROVE \E i \in 1 .. Len(v) : v[i] = n
    BY <1>7, <1>8, <2>2 DEF In
  <2> QED BY <2>1, <2>2
<1> QED BY <1>1, <1>2, <1>3, <1>4, <1>5, <1>9

\* The sequences are the same, node by node.
LEMMA SameSequence ==
    ASSUME NEW v \in Seq(Nodes), NEW u \in Seq(Nodes), Len(v) = Len(u),
           \A i \in 1 .. Len(v) : v[i] = u[i]
    PROVE  v = u
<1>1. Len(v) \in Nat /\ v \in [1 .. Len(v) -> Nodes] /\ u \in [1 .. Len(v) -> Nodes]
  OBVIOUS
<1> QED BY <1>1

LEMMA WholeMoved ==
    ASSUME NEW d \in Seq(Nodes), NEW s \in Seq(Nodes), NEW q \in 0 .. Len(s)
    PROVE  Whole(Moved(d, s, q), Rest(s, q)) = Whole(d, s)
<1>1. PICK d1, s1 : d1 = Moved(d, s, q) /\ s1 = Rest(s, q)
  OBVIOUS
<1>2. /\ d1 \in Seq(Nodes) /\ Len(d1) = Len(d) + q
      /\ \A i \in 1 .. Len(d) + q : d1[i] = IF i <= Len(d) THEN d[i] ELSE s[i - Len(d)]
  BY <1>1, MovedIs
<1>3. s1 \in Seq(Nodes) /\ Len(s1) = Len(s) - q /\ \A i \in 1 .. Len(s) - q : s1[i] = s[q + i]
  BY <1>1, RestIs
<1>4. PICK v, u : v = Whole(d, s) /\ u = Whole(d1, s1)
  OBVIOUS
<1>5. /\ v \in Seq(Nodes) /\ Len(v) = Len(d) + Len(s) /\ Len(d) \in Nat /\ Len(s) \in Nat
      /\ \A i \in 1 .. Len(d) : v[i] = d[i]
      /\ \A i \in 1 .. Len(s) : v[Len(d) + i] = s[i]
  BY <1>4, WholeIs
<1>6. /\ u \in Seq(Nodes) /\ Len(u) = Len(d1) + Len(s1)
      /\ \A i \in 1 .. Len(d1) : u[i] = d1[i]
      /\ \A i \in 1 .. Len(s1) : u[Len(d1) + i] = s1[i]
  BY <1>2, <1>3, <1>4, WholeIs
<1>7. q \in Nat /\ q <= Len(s) /\ Len(u) = Len(v)
  BY <1>2, <1>3, <1>5, <1>6
<1>8. ASSUME NEW i \in 1 .. Len(u) PROVE u[i] = v[i]
  <2>1. CASE i <= Len(d)
    <3>1. i \in 1 .. Len(d) /\ i \in 1 .. Len(d) + q /\ i \in 1 .. Len(d1)
      BY <1>2, <1>5, <1>7, <2>1
    <3> QED BY <1>2, <1>5, <1>6, <2>1, <3>1
  <2>2. CASE ~(i <= Len(d)) /\ i <= Len(d) + q
    <3>1. /\ i \in 1 .. Len(d1) /\ i \in 1 .. Len(d) + q /\ i - Len(d) \in 1 .. Len(s)
          /\ Len(d) + (i - Len(d)) = i
      BY <1>2, <1>5, <1>7, <2>2
    <3>2. v[Len(d) + (i - Len(d))] = s[i - Len(d)]
      BY <1>5, <3>1
    <3> QED BY <1>2, <1>6, <2>2, <3>1, <3>2
  <2>3. CASE ~(i <= Len(d) + q)
    <3>1. PICK j : j = i - Len(d) - q
      OBVIOUS
    <3>2. /\ j \in 1 .. Len(s1) /\ j \in 1 .. Len(s) - q /\ Len(d1) + j = i
          /\ q + j \in 1 .. Len(s) /\ Len(d) + (q + j) = i
      BY <1>2, <1>3, <1>5, <1>6, <1>7, <2>3, <3>1
    <3>3. u[Len(d1) + j] = s1[j] /\ s1[j] = s[q + j] /\ v[Len(d) + (q + j)] = s[q + j]
      BY <1>3, <1>5, <1>6, <3>2
    <3> QED BY <3>2, <3>3
  <2> QED BY <2>1, <2>2, <2>3
<1>9. u = v
  BY <1>5, <1>6, <1>7, <1>8, SameSequence
<1> QED BY <1>1, <1>4, <1>9

LEMMA WholeOfOne ==
    ASSUME NEW d \in Seq(Nodes)
    PROVE  Whole(d, <<>>) = d /\ Whole(<<>>, d) = d
<1>1. PICK e : e = <<>> /\ e \in Seq(Nodes) /\ Len(e) = 0
  <2>1. <<>> \in Seq(Nodes) /\ Len(<<>>) = 0
    BY EmptyIn
  <2> QED BY <2>1, Zenon
<1>2. PICK v, u : v = Whole(d, e) /\ u = Whole(e, d)
  OBVIOUS
<1>3. Len(d) \in Nat /\ Len(d) + 0 = Len(d) /\ 0 + Len(d) = Len(d)
  OBVIOUS
<1>4. v = d
  <2>1. v \in Seq(Nodes) /\ Len(v) = Len(d) + Len(e) /\ \A i \in 1 .. Len(d) : v[i] = d[i]
    <3>1. e \in Seq(Nodes) /\ d \in Seq(Nodes) /\ v = Whole(d, e)
      BY <1>1, <1>2
    <3> QED BY <3>1, WholeIs
  <2>2. Len(v) = Len(d)
    BY <1>1, <1>3, <2>1
  <2> QED BY <2>1, <2>2, SameSequence
<1>5. u = d
  <2>1. u \in Seq(Nodes) /\ Len(u) = Len(e) + Len(d) /\ \A i \in 1 .. Len(d) : u[Len(e) + i] = d[i]
    <3>1. e \in Seq(Nodes) /\ d \in Seq(Nodes) /\ u = Whole(e, d)
      BY <1>1, <1>2
    <3> QED BY <3>1, WholeIs
  <2>2. Len(u) = Len(d) /\ \A i \in 1 .. Len(d) : Len(e) + i = i
    BY <1>1, <1>3, <2>1
  <2>3. \A i \in 1 .. Len(u) : u[i] = d[i]
    BY <2>1, <2>2
  <2> QED BY <2>1, <2>2, <2>3, SameSequence
<1> QED BY <1>1, <1>2, <1>4, <1>5

-----------------------------------------------------------------------------
(* A node goes forward. *)

\* The node that was the b-th is the a-th now.
Was(a, b, i) == IF i = a THEN b ELSE IF a < i /\ i <= b THEN i - 1 ELSE i

Rotated(u, v, a, b) ==
    Len(u) = Len(v) /\ \A i \in 1 .. Len(v) : u[i] = v[Was(a, b, i)]

LEMMA WasIs ==
    ASSUME NEW n \in Nat, NEW b \in 1 .. n, NEW a \in 1 .. b, NEW i \in 1 .. n
    PROVE  /\ Was(a, b, i) \in 1 .. n
           /\ \A c \in Int : c < a \/ c >= b => (i <= c <=> Was(a, b, i) <= c)
           /\ i < a \/ i > b => Was(a, b, i) = i
           /\ Was(a, b, a) = b
           /\ a < i /\ i <= b => Was(a, b, i) = i - 1
BY DEF Was

IsInserted(t, s, k, x) ==
    /\ t \in Seq(Nodes) /\ Len(t) = Len(s) + 1
    /\ \A i \in 1 .. Len(s) + 1 :
         t[i] = IF i <= k THEN s[i] ELSE IF i = k + 1 THEN x ELSE s[i - 1]

LEMMA InsertedNodes ==
    ASSUME NEW s \in Seq(Nodes), NEW k \in 0 .. Len(s), NEW x \in Nodes, NEW t, t = Inserted(s, k, x)
    PROVE  IsInserted(t, s, k, x)
BY InsertedIs DEF IsInserted

IsWhole(v, d, s) ==
    /\ v \in Seq(Nodes) /\ Len(v) = Len(d) + Len(s)
    /\ \A i \in 1 .. Len(d) : v[i] = d[i]
    /\ \A i \in 1 .. Len(s) : v[Len(d) + i] = s[i]

LEMMA WholeSequence ==
    ASSUME NEW d \in Seq(Nodes), NEW s \in Seq(Nodes), NEW v, v = Whole(d, s)
    PROVE  IsWhole(v, d, s)
BY WholeIs DEF IsWhole

LEMMA WholeInserted ==
    ASSUME NEW d \in Seq(Nodes), NEW s \in Seq(Nodes), NEW k \in 1 .. Len(s), NEW m \in 0 .. Len(d)
    PROVE  Rotated(Whole(Inserted(d, m, s[k]), Removed(s, k)), Whole(d, s), m + 1, Len(d) + k)
<1>1. PICK d1, s1 : d1 = Inserted(d, m, s[k]) /\ s1 = Removed(s, k)
  OBVIOUS
<1>2. /\ d1 \in Seq(Nodes) /\ Len(d1) = Len(d) + 1
      /\ \A i \in 1 .. Len(d) + 1 : d1[i] = IF i <= m THEN d[i] ELSE IF i = m + 1 THEN s[k] ELSE d[i - 1]
  <2>1. PICK x \in Nodes : x = s[k]
    OBVIOUS
  <2>2. d \in Seq(Nodes) /\ m \in 0 .. Len(d) /\ x \in Nodes /\ d1 = Inserted(d, m, x)
    BY <1>1, <2>1
  <2>3. /\ d1 \in Seq(Nodes) /\ Len(d1) = Len(d) + 1
        /\ \A i \in 1 .. Len(d) + 1 : d1[i] = IF i <= m THEN d[i] ELSE IF i = m + 1 THEN x ELSE d[i - 1]
    <3>1. IsInserted(d1, d, m, x)
      BY <2>2, InsertedNodes
    <3> QED BY <3>1 DEF IsInserted
  <2> QED BY <2>1, <2>3
<1>3. s1 \in Seq(Nodes) /\ Len(s1) = Len(s) - 1
      /\ \A i \in 1 .. Len(s) - 1 : s1[i] = IF i < k THEN s[i] ELSE s[i + 1]
  BY <1>1, RemovedIs
<1>4. PICK v, u : v = Whole(d, s) /\ u = Whole(d1, s1)
  OBVIOUS
<1>5. /\ v \in Seq(Nodes) /\ Len(v) = Len(d) + Len(s) /\ Len(d) \in Nat /\ Len(s) \in Nat
      /\ \A i \in 1 .. Len(d) : v[i] = d[i]
      /\ \A i \in 1 .. Len(s) : v[Len(d) + i] = s[i]
  BY <1>4, WholeIs
<1>6. /\ u \in Seq(Nodes) /\ Len(u) = Len(d1) + Len(s1)
      /\ \A i \in 1 .. Len(d1) : u[i] = d1[i]
      /\ \A i \in 1 .. Len(s1) : u[Len(d1) + i] = s1[i]
  <2>1. d1 \in Seq(Nodes) /\ s1 \in Seq(Nodes) /\ u = Whole(d1, s1)
    BY <1>2, <1>3, <1>4
  <2>2. PICK y : y = Whole(d1, s1)
    OBVIOUS
  <2>3. /\ y \in Seq(Nodes) /\ Len(y) = Len(d1) + Len(s1)
        /\ \A i \in 1 .. Len(d1) : y[i] = d1[i]
        /\ \A i \in 1 .. Len(s1) : y[Len(d1) + i] = s1[i]
    <3>1. IsWhole(y, d1, s1)
      BY <2>1, <2>2, WholeSequence
    <3> QED BY <3>1 DEF IsWhole
  <2> QED BY <2>1, <2>2, <2>3
<1>7. k \in Nat /\ k <= Len(s) /\ k # 0 /\ Len(u) = Len(v) /\ m \in Nat /\ m <= Len(d)
  <2>1. Len(d1) = Len(d) + 1 /\ Len(s1) = Len(s) - 1
    BY <1>2, <1>3
  <2>2. Len(d) \in Nat /\ Len(s) \in Nat
    BY <1>5
  <2>3. Len(v) = Len(d) + Len(s) /\ Len(u) = Len(d1) + Len(s1)
    BY <1>5, <1>6
  <2>4. Len(u) = Len(v)
    BY <2>1, <2>2, <2>3
  <2> QED BY <2>2, <2>4
<1>8. ASSUME NEW i \in 1 .. Len(v) PROVE u[i] = v[Was(m + 1, Len(d) + k, i)]
  <2>1. CASE i <= m
    <3>1. /\ i \in 1 .. Len(d1) /\ i \in 1 .. Len(d) + 1 /\ i \in 1 .. Len(d)
          /\ Was(m + 1, Len(d) + k, i) = i
      BY <1>2, <1>5, <1>7, <2>1 DEF Was
    <3> QED BY <1>2, <1>5, <1>6, <2>1, <3>1
  <2>2. CASE i = m + 1
    <3>1. /\ i \in 1 .. Len(d1) /\ i \in 1 .. Len(d) + 1 /\ ~(i <= m)
          /\ Was(m + 1, Len(d) + k, i) = Len(d) + k
      BY <1>2, <1>5, <1>7, <2>2 DEF Was
    <3> QED BY <1>2, <1>5, <1>6, <2>2, <3>1
  <2>3. CASE m + 1 < i /\ i <= Len(d) + 1
    <3>1. /\ i \in 1 .. Len(d1) /\ i \in 1 .. Len(d) + 1 /\ ~(i <= m) /\ i # m + 1
          /\ i - 1 \in 1 .. Len(d) /\ Was(m + 1, Len(d) + k, i) = i - 1
      BY <1>2, <1>5, <1>7, <2>3 DEF Was
    <3>2. d1[i] = d[i - 1]
      BY <1>2, <3>1
    <3> QED BY <1>5, <1>6, <3>1, <3>2
  <2>4. CASE Len(d) + 1 < i /\ i <= Len(d) + k
    <3>1. PICK j : j = i - Len(d) - 1
      OBVIOUS
    <3>2. /\ j \in 1 .. Len(s1) /\ j \in 1 .. Len(s) - 1 /\ j < k /\ j \in 1 .. Len(s)
          /\ Len(d1) + j = i /\ Len(d) + j = i - 1 /\ Was(m + 1, Len(d) + k, i) = i - 1
      BY <1>2, <1>3, <1>5, <1>7, <2>4, <3>1 DEF Was
    <3>3. u[Len(d1) + j] = s1[j] /\ s1[j] = s[j] /\ v[Len(d) + j] = s[j]
      BY <1>3, <1>5, <1>6, <3>2
    <3> QED BY <3>2, <3>3
  <2>5. CASE Len(d) + k < i
    <3>1. PICK j : j = i - Len(d) - 1
      OBVIOUS
    <3>2. /\ j \in 1 .. Len(s1) /\ j \in 1 .. Len(s) - 1 /\ ~(j < k) /\ j + 1 \in 1 .. Len(s)
          /\ Len(d1) + j = i /\ Len(d) + (j + 1) = i /\ Was(m + 1, Len(d) + k, i) = i
      BY <1>2, <1>3, <1>5, <1>7, <2>5, <3>1 DEF Was
    <3>3. u[Len(d1) + j] = s1[j] /\ s1[j] = s[j + 1] /\ v[Len(d) + (j + 1)] = s[j + 1]
      BY <1>3, <1>5, <1>6, <3>2
    <3> QED BY <3>2, <3>3
  <2> QED BY <1>7, <2>1, <2>2, <2>3, <2>4, <2>5
<1> QED BY <1>1, <1>4, <1>7, <1>8 DEF Rotated

\* What lies before and behind stays as it was.
LEMMA RotatedApart ==
    ASSUME NEW v, Len(v) \in Nat, NEW b \in 1 .. Len(v), NEW a \in 1 .. b, NEW u, Rotated(u, v, a, b)
    PROVE  /\ \A c \in Int : (c < a \/ c >= b) /\ Parted(v, c) => Parted(u, c)
           /\ \A c, e \in Int : (e < a \/ c >= b) /\ Run(v, c, e) => Run(u, c, e)
<1>1. Len(u) = Len(v) /\ \A i \in 1 .. Len(v) : u[i] = v[Was(a, b, i)]
  BY DEF Rotated
<1>2. \A i \in 1 .. Len(v) : Was(a, b, i) \in 1 .. Len(v)
  BY WasIs
<1>3. ASSUME NEW c \in Int, c < a \/ c >= b, Parted(v, c) PROVE Parted(u, c)
  <2> SUFFICES ASSUME NEW i \in 1 .. Len(v), NEW j \in 1 .. Len(v), i <= c, c < j
               PROVE  Earlier(u[i], u[j])
    BY <1>1 DEF Parted
  <2>1. Was(a, b, i) <= c /\ ~(Was(a, b, j) <= c)
    <3>1. i <= c <=> Was(a, b, i) <= c
      BY <1>3, WasIs
    <3>2. j <= c <=> Was(a, b, j) <= c
      BY <1>3, WasIs
    <3>3. ~(j <= c)
      OBVIOUS
    <3> QED BY <3>1, <3>2, <3>3
  <2>2. PICK x \in 1 .. Len(v), y \in 1 .. Len(v) : x = Was(a, b, i) /\ y = Was(a, b, j)
    BY <1>2
  <2>3. x <= c /\ c < y
    BY <2>1, <2>2
  <2>4. Earlier(v[x], v[y])
    BY <1>3, <2>3 DEF Parted
  <2> QED BY <1>1, <2>2, <2>4
<1>4. ASSUME NEW c \in Int, NEW e \in Int, e < a \/ c >= b, Run(v, c, e) PROVE Run(u, c, e)
  <2> SUFFICES ASSUME NEW i \in 1 .. Len(v), NEW j \in 1 .. Len(v), c < i, i < j, j <= e
               PROVE  Less(u[i], u[j])
    BY <1>1 DEF Run
  <2>1. (i < a \/ i > b) /\ (j < a \/ j > b)
    BY <1>4
  <2>2. Was(a, b, i) = i /\ Was(a, b, j) = j
    <3>1. i < a \/ i > b => Was(a, b, i) = i
      BY WasIs
    <3>2. j < a \/ j > b => Was(a, b, j) = j
      BY WasIs
    <3> QED BY <2>1, <3>1, <3>2
  <2>3. Less(v[i], v[j])
    BY <1>4 DEF Run
  <2> QED BY <1>1, <2>2, <2>3
<1> QED BY <1>3, <1>4

-----------------------------------------------------------------------------
(* What a turn of the sort does to the runs. *)

\* A sequence of members.
Ordered(v) == Named /\ v \in Seq(Nodes) /\ \A i \in 1 .. Len(v) : In(v[i], order)

\* A node that goes to its place in the last run.
LEMMA RunInserted ==
    ASSUME NEW v, Ordered(v), NEW k \in 0 .. Len(v) - 1, NEW base \in 0 .. k, NEW m \in base .. k,
           Run(v, base, k),
           \A j \in base + 1 .. m : Less(v[j], v[k + 1]),
           m # k => Less(v[k + 1], v[m + 1]),
           NEW u, Rotated(u, v, m + 1, k + 1)
    PROVE  Run(u, base, k + 1)
<1>1. /\ Len(v) \in Nat /\ Len(u) = Len(v) /\ k + 1 \in 1 .. Len(v) /\ m + 1 \in 1 .. k + 1
      /\ k \in Nat /\ m \in Nat /\ base \in Nat /\ base <= m /\ m <= k
      /\ \A i \in 1 .. Len(v) : In(v[i], order)
      /\ \A i \in 1 .. Len(v) : u[i] = v[Was(m + 1, k + 1, i)]
  BY DEF Ordered, Rotated
<1>2. Named
  BY DEF Ordered
<1> SUFFICES ASSUME NEW i \in 1 .. Len(v), NEW j \in 1 .. Len(v), base < i, i < j, j <= k + 1
             PROVE  Less(u[i], u[j])
  BY <1>1 DEF Run
<1>3. ASSUME NEW x \in m + 1 .. k PROVE Less(v[k + 1], v[x])
  <2>1. m # k /\ m + 1 \in 1 .. Len(v) /\ x \in 1 .. Len(v)
    BY <1>1
  <2>2. x # m + 1 => Less(v[m + 1], v[x])
    <3>1. x # m + 1 => base < m + 1 /\ m + 1 < x /\ x <= k
      BY <1>1
    <3> QED BY <2>1, <3>1 DEF Run
  <2> QED BY <1>1, <1>2, <2>1, <2>2, LessTransitive
<1>4. CASE j <= m
  <2>1. Was(m + 1, k + 1, i) = i /\ Was(m + 1, k + 1, j) = j
    BY <1>1, <1>4 DEF Was
  <2>2. Less(v[i], v[j])
    BY <1>1, <1>4 DEF Run
  <2> QED BY <1>1, <2>1, <2>2
<1>5. CASE j = m + 1
  <2>1. Was(m + 1, k + 1, i) = i /\ Was(m + 1, k + 1, j) = k + 1 /\ i \in base + 1 .. m
    BY <1>1, <1>5 DEF Was
  <2> QED BY <1>1, <2>1
<1>6. CASE j > m + 1
  <2>1. Was(m + 1, k + 1, j) = j - 1 /\ j - 1 \in m + 1 .. k /\ j - 1 \in 1 .. Len(v)
    BY <1>1, <1>6 DEF Was
  <2>2. CASE i <= m
    <3>1. Was(m + 1, k + 1, i) = i /\ i < j - 1
      BY <1>1, <1>6, <2>2 DEF Was
    <3>2. base < i /\ i < j - 1 /\ j - 1 <= k /\ j - 1 \in 1 .. Len(v)
      BY <1>1, <2>1, <3>1
    <3>3. Less(v[i], v[j - 1])
      BY <3>2 DEF Run
    <3> QED BY <1>1, <2>1, <3>1, <3>3
  <2>3. CASE i = m + 1
    <3>1. Was(m + 1, k + 1, i) = k + 1
      BY <2>3 DEF Was
    <3>2. Less(v[k + 1], v[j - 1])
      BY <1>3, <2>1
    <3> QED BY <1>1, <2>1, <3>1, <3>2
  <2>4. CASE i > m + 1
    <3>1. Was(m + 1, k + 1, i) = i - 1 /\ i - 1 \in 1 .. Len(v) /\ base < i - 1 /\ i - 1 < j - 1 /\ j - 1 <= k
      BY <1>1, <2>4 DEF Was
    <3>2. Less(v[i - 1], v[j - 1])
      BY <2>1, <3>1 DEF Run
    <3> QED BY <1>1, <2>1, <3>1, <3>2
  <2> QED BY <1>1, <2>2, <2>3, <2>4
<1> QED BY <1>1, <1>4, <1>5, <1>6

\* The blocks before.
LEMMA RunsApart ==
    ASSUME NEW v, Len(v) \in Nat, NEW b \in 1 .. Len(v), NEW a \in 1 .. b, NEW u, Rotated(u, v, a, b),
           NEW w \in Nat, w # 0, NEW base \in Nat, Multiple(base, w), Runs(v, w, 0, base), base < a
    PROVE  Runs(u, w, 0, base)
<1> SUFFICES ASSUME NEW c \in 0 .. base, Multiple(c, w), c < base
             PROVE  Run(u, c, c + w) /\ Parted(u, c)
  BY DEF Runs
<1>1. Run(v, c, c + w) /\ Parted(v, c)
  BY DEF Runs
<1>2. c + w <= base /\ c \in Int /\ c + w \in Int
  <2>1. c < base => c + w <= base
    BY MultipleStep
  <2> QED BY <2>1
<1>3. c + w < a /\ c < a
  BY <1>2
<1> QED BY <1>1, <1>2, <1>3, RotatedApart

\* The blocks behind.
LEMMA RunsBehind ==
    ASSUME NEW v, Len(v) \in Nat, NEW b \in 1 .. Len(v), NEW a \in 1 .. b, NEW u, Rotated(u, v, a, b),
           NEW w \in Nat, NEW from \in Nat, NEW to \in Nat, Runs(v, w, from, to), b <= from
    PROVE  Runs(u, w, from, to)
<1> SUFFICES ASSUME NEW c \in from .. to, Multiple(c, w), c < to
             PROVE  Run(u, c, c + w) /\ Parted(u, c)
  BY DEF Runs
<1>1. Run(v, c, c + w) /\ Parted(v, c)
  BY DEF Runs
<1>2. c \in Int /\ c + w \in Int /\ c >= b
  OBVIOUS
<1> QED BY <1>1, <1>2, RotatedApart

LEMMA RunsPart ==
    ASSUME NEW v, NEW w, NEW from \in Int, NEW to \in Int, Runs(v, w, from, to), NEW c \in Int, from <= c
    PROVE  Runs(v, w, c, to)
BY DEF Runs

\* One more block is done.
LEMMA BlockDone ==
    ASSUME NEW v, Len(v) \in Nat, NEW w \in Nat, w # 0, NEW base \in Nat, Multiple(base, w),
           NEW e \in Nat, base <= e, Runs(v, w, 0, base), Run(v, base, e), Parted(v, base),
           e <= base + w, e = base + w \/ e = Len(v)
    PROVE  Runs(v, w, 0, e)
<1> SUFFICES ASSUME NEW c \in 0 .. e, Multiple(c, w), c < e
             PROVE  Run(v, c, c + w) /\ Parted(v, c)
  BY DEF Runs
<1>1. CASE c < base
  <2>1. c \in 0 .. base
    BY <1>1
  <2> QED BY <1>1, <2>1 DEF Runs
<1>2. CASE c = base
  <2>1. Run(v, c, c + w)
    <3>1. base \in Int /\ e \in Int /\ base + w \in Int
      OBVIOUS
    <3> QED BY <1>2, <3>1, RunPart
  <2> QED BY <1>2, <2>1
<1>3. CASE base < c
  <2>1. base + w <= c
    BY <1>3, MultipleStep
  <2> QED BY <2>1
<1> QED BY <1>1, <1>2, <1>3

-----------------------------------------------------------------------------
(* The places of the sort. *)

\* While the block behind the first `base` of dest_list is filled, i of it so far.
Inserting(s, d, w, base, i, cached, cursor) ==
    LET v == Whole(d, s) IN
    /\ base \in Nat /\ Multiple(base, w) /\ base + i = Len(d)
    /\ \A j \in 1 .. Len(s) : s[j] = order[Len(d) + j]
    /\ cursor = CellAt("dest", d, base)
    /\ cached # None => \E x \in base + 1 .. Len(d) : d[x] = cached
    /\ Runs(v, w, 0, base) /\ Run(v, base, Len(d)) /\ Parted(v, base)

\* Between two pairs of sections, k nodes are merged.
Blocks(v, w, k) ==
    k \in Nat /\ Multiple(k, 2 * w) /\ Runs(v, 2 * w, 0, k) /\ Runs(v, w, k, Len(v))

\* In a pair of sections, which begins behind the first `base`: k nodes are merged,
\* p of the left and then those of the right section follow, up to the (k + q)-th.
Merging(v, w, k, p, q, base) ==
    /\ base \in 0 .. k /\ Multiple(base, 2 * w) /\ Runs(v, 2 * w, 0, base) /\ Parted(v, base)
    /\ Runs(v, w, k + q, Len(v))
    /\ Run(v, k, k + p) /\ Run(v, k + p, k + q)
    /\ \A i, j \in 1 .. Len(v) : k < i /\ i <= k + p /\ k + p < j => Earlier(v[i], v[j])
    /\ \A i, j \in 1 .. Len(v) : base < i /\ i <= k /\ i < j /\ j <= k + q => Less(v[i], v[j])
    /\ k + q = IF base + 2 * w <= Len(v) THEN base + 2 * w ELSE Len(v)

LEMMA MergingBegins ==
    ASSUME NEW v, Len(v) \in Nat, NEW w \in Nat, w # 0, NEW k \in Nat, k < Len(v), Blocks(v, w, k),
           NEW p, p = (IF w <= Len(v) - k THEN w ELSE Len(v) - k),
           NEW q, q = (IF 2 * w <= Len(v) - k THEN 2 * w ELSE Len(v) - k)
    PROVE  Merging(v, w, k, p, q, k)
<1>1. /\ p \in Nat /\ q \in Nat /\ p <= q /\ 2 * w \in Nat /\ w <= 2 * w
      /\ k + q = IF k + 2 * w <= Len(v) THEN k + 2 * w ELSE Len(v)
      /\ k + p = IF k + w <= Len(v) THEN k + w ELSE Len(v)
  OBVIOUS
<1>2. Multiple(k, w) /\ Multiple(k + w, w) /\ Multiple(k, 2 * w)
  BY MultipleDouble DEF Blocks
<1>3. Run(v, k, k + w) /\ Parted(v, k)
  <2>1. k \in k .. Len(v)
    OBVIOUS
  <2> QED BY <1>2, <2>1 DEF Blocks, Runs
<1>4. k + w < Len(v) => Run(v, k + w, (k + w) + w) /\ Parted(v, k + w)
  <2>1. k + w < Len(v) => k + w \in k .. Len(v)
    OBVIOUS
  <2> QED BY <1>2, <2>1 DEF Blocks, Runs
<1>5. Run(v, k, k + p)
  BY <1>1, <1>3, RunPart
<1>6. Run(v, k + p, k + q)
  <2>1. CASE k + w < Len(v)
    <3>1. k + p = k + w /\ k + q <= (k + w) + w
      BY <1>1, <2>1
    <3> QED BY <1>1, <1>4, <2>1, <3>1, RunPart
  <2>2. CASE ~(k + w < Len(v))
    <3>1. k + p = Len(v)
      BY <1>1, <2>2
    <3> QED BY <3>1 DEF Run
  <2> QED BY <2>1, <2>2
<1>7. \A i, j \in 1 .. Len(v) : k < i /\ i <= k + p /\ k + p < j => Earlier(v[i], v[j])
  <2> SUFFICES ASSUME NEW i \in 1 .. Len(v), NEW j \in 1 .. Len(v), k < i, i <= k + p, k + p < j
               PROVE  Earlier(v[i], v[j])
    OBVIOUS
  <2>1. k + p = k + w /\ k + w < Len(v)
    BY <1>1
  <2> QED BY <1>4, <2>1 DEF Parted
<1>8. Runs(v, w, k + q, Len(v))
  <2>1. Runs(v, w, k, Len(v)) /\ k + q \in Int /\ k <= k + q
    BY <1>1 DEF Blocks
  <2> QED BY <2>1, RunsPart
<1>9. \A i, j \in 1 .. Len(v) : ~(k < i /\ i <= k)
  OBVIOUS
<1>10. k \in 0 .. k /\ Runs(v, 2 * w, 0, k)
  BY DEF Blocks
<1> QED BY <1>1, <1>2, <1>3, <1>5, <1>6, <1>7, <1>8, <1>9, <1>10 DEF Merging

\* The pair of sections is in order.
LEMMA MergingEnds ==
    ASSUME NEW v, Len(v) \in Nat, NEW w \in Nat, w # 0, NEW k \in Nat, NEW p, NEW q \in Nat, q # 0,
           NEW base, Merging(v, w, k, p, q, base), Run(v, base, k + q)
    PROVE  /\ Runs(v, 2 * w, 0, k + q)
           /\ k + q <= Len(v)
           /\ k + q # Len(v) => Blocks(v, w, k + q)
<1>1. PICK e, w2 : e = k + q /\ w2 = 2 * w /\ e \in Nat /\ w2 \in Nat /\ w2 # 0
  OBVIOUS
<1>2. /\ base \in Nat /\ base <= e /\ Multiple(base, w2) /\ Runs(v, w2, 0, base) /\ Parted(v, base)
      /\ Run(v, base, e) /\ e = (IF base + w2 <= Len(v) THEN base + w2 ELSE Len(v))
      /\ Runs(v, w, e, Len(v))
  BY <1>1 DEF Merging
<1>3. Runs(v, w2, 0, e)
  <2>1. e <= base + w2 /\ (e = base + w2 \/ e = Len(v))
    BY <1>1, <1>2
  <2> QED BY <1>1, <1>2, <2>1, BlockDone
<1>4. e # Len(v) => Multiple(e, w2)
  <2>1. Multiple(base + w2, w2)
    BY <1>1, <1>2, MultipleStep
  <2> QED BY <1>2, <2>1
<1>5. e <= Len(v)
  BY <1>1, <1>2
<1> QED BY <1>1, <1>2, <1>3, <1>4, <1>5 DEF Blocks

\* One section is used up.
LEMMA MergingUsedUp ==
    ASSUME NEW v, Len(v) \in Nat, NEW w \in Nat, NEW k \in Nat, NEW p \in Nat, NEW q \in Nat,
           NEW base, Merging(v, w, k, p, q, base), p = 0 \/ p = q
    PROVE  Run(v, base, k + q)
<1>1. Run(v, k, k + q)
  <2>1. k + 0 = k
    OBVIOUS
  <2> QED BY <2>1 DEF Merging
<1>2. \A i, j \in 1 .. Len(v) : base < i /\ i <= k /\ i < j /\ j <= k + q => Less(v[i], v[j])
  BY DEF Merging
<1>3. ASSUME NEW i \in 1 .. Len(v), NEW j \in 1 .. Len(v), base < i, i < j, j <= k + q
      PROVE  Less(v[i], v[j])
  <2>1. CASE i <= k
    BY <1>2, <1>3, <2>1
  <2>2. CASE k < i
    BY <1>1, <1>3, <2>2 DEF Run
  <2> QED BY <2>1, <2>2
<1> QED BY <1>3 DEF Run

\* The last of the left section is not greater than the first of the right one.
LEMMA MergingPresorted ==
    ASSUME NEW v, Ordered(v), NEW w \in Nat, NEW k \in Nat, NEW q \in Nat, NEW p \in 1 .. q,
           Merging(v, w, k, p, q, k), k + q <= Len(v),
           p # q => CompareTokens(v[k + p], v[k + p + 1]) <= 0
    PROVE  Run(v, k, k + q)
<1>1. Named /\ Len(v) \in Nat /\ \A i \in 1 .. Len(v) : In(v[i], order)
  BY DEF Ordered
<1>2. CASE p = q
  <2>1. p \in Nat
    OBVIOUS
  <2> QED BY <1>1, <1>2, <2>1, MergingUsedUp
<1>3. CASE p # q
  <2>1. PICK c : c = k + p
    OBVIOUS
  <2>2. /\ c \in 1 .. Len(v) - 1 /\ c \in 1 .. Len(v) /\ c + 1 \in 1 .. Len(v) /\ k + q \in Nat
        /\ k + p + 1 = c + 1
    BY <1>1, <1>3, <2>1
  <2>3. Run(v, k, c) /\ Run(v, c, k + q)
    BY <2>1 DEF Merging
  <2>4. Earlier(v[c], v[c + 1])
    <3>1. k < c /\ c <= k + p /\ k + p < c + 1
      BY <1>1, <2>1, <2>2
    <3> QED BY <2>2, <3>1 DEF Merging
  <2>5. CompareTokens(v[c], v[c + 1]) <= 0
    BY <1>3, <2>1, <2>2
  <2>6. In(v[c], order) /\ In(v[c + 1], order)
    BY <1>1, <2>2
  <2>7. Less(v[c], v[c + 1])
    BY <1>1, <2>4, <2>5, <2>6, LessByName
  <2> QED BY <1>1, <2>2, <2>3, <2>7, RunsMeet
<1> QED BY <1>2, <1>3

\* The first of the left section stays where it is.
LEMMA MergingLeft ==
    ASSUME NEW v, Ordered(v), NEW w \in Nat, NEW k \in Nat, NEW q \in Nat, NEW p \in 1 .. q - 1,
           NEW base, Merging(v, w, k, p, q, base), k + q <= Len(v),
           CompareTokens(v[k + 1], v[k + p + 1]) <= 0
    PROVE  Merging(v, w, k + 1, p - 1, q - 1, base)
<1>1. Named /\ Len(v) \in Nat /\ \A i \in 1 .. Len(v) : In(v[i], order)
  BY DEF Ordered
<1>2. PICK c, e : c = k + p /\ e = k + q
  OBVIOUS
<1>3. /\ c \in Nat /\ e \in Nat /\ k < c /\ c < e /\ e <= Len(v)
      /\ (k + 1) + (p - 1) = c /\ (k + 1) + (q - 1) = e /\ k + p + 1 = c + 1
      /\ k + 1 \in 1 .. Len(v) /\ c + 1 \in 1 .. Len(v) /\ k + 1 <= c
  BY <1>1, <1>2
<1>4. /\ base \in 0 .. k /\ Multiple(base, 2 * w) /\ Runs(v, 2 * w, 0, base) /\ Parted(v, base)
      /\ Runs(v, w, e, Len(v)) /\ Run(v, k, c) /\ Run(v, c, e)
      /\ \A i, j \in 1 .. Len(v) : k < i /\ i <= c /\ c < j => Earlier(v[i], v[j])
      /\ \A i, j \in 1 .. Len(v) : base < i /\ i <= k /\ i < j /\ j <= e => Less(v[i], v[j])
      /\ e = IF base + 2 * w <= Len(v) THEN base + 2 * w ELSE Len(v)
  BY <1>2 DEF Merging
<1>5. Less(v[k + 1], v[c + 1])
  <2>1. Earlier(v[k + 1], v[c + 1])
    <3>1. k < k + 1 /\ k + 1 <= c /\ c < c + 1
      BY <1>3
    <3> QED BY <1>3, <1>4, <3>1
  <2>2. In(v[k + 1], order) /\ In(v[c + 1], order)
    BY <1>1, <1>3
  <2>3. CompareTokens(v[k + 1], v[c + 1]) <= 0
    BY <1>3
  <2> QED BY <1>1, <2>1, <2>2, <2>3, LessByName
<1>6. ASSUME NEW j \in 1 .. Len(v), k + 1 < j, j <= e PROVE Less(v[k + 1], v[j])
  <2>1. CASE j <= c
    <3>1. k < k + 1
      OBVIOUS
    <3> QED BY <1>3, <1>4, <1>6, <2>1, <3>1 DEF Run
  <2>2. CASE j = c + 1
    BY <1>5, <2>2
  <2>3. CASE c + 1 < j
    <3>1. Less(v[c + 1], v[j])
      <4>1. c < c + 1
        BY <1>3
      <4> QED BY <1>3, <1>4, <1>6, <2>3, <4>1 DEF Run
    <3>2. In(v[k + 1], order) /\ In(v[c + 1], order) /\ In(v[j], order)
      BY <1>1, <1>3
    <3> QED BY <1>1, <1>5, <3>1, <3>2, LessTransitive
  <2> QED BY <1>3, <2>1, <2>2, <2>3
<1>7. \A i, j \in 1 .. Len(v) : base < i /\ i <= k + 1 /\ i < j /\ j <= e => Less(v[i], v[j])
  <2> SUFFICES ASSUME NEW i \in 1 .. Len(v), NEW j \in 1 .. Len(v), base < i, i <= k + 1, i < j, j <= e
               PROVE  Less(v[i], v[j])
    OBVIOUS
  <2>1. i <= k \/ i = k + 1
    OBVIOUS
  <2> QED BY <1>4, <1>6, <2>1
<1>8. Run(v, k + 1, c)
  BY <1>4 DEF Run
<1>9. \A i, j \in 1 .. Len(v) : k + 1 < i /\ i <= c /\ c < j => Earlier(v[i], v[j])
  <2>1. \A i \in 1 .. Len(v) : k + 1 < i => k < i
    OBVIOUS
  <2> QED BY <1>4, <2>1
<1>10. base \in 0 .. k + 1
  BY <1>4
<1> QED BY <1>3, <1>4, <1>7, <1>8, <1>9, <1>10 DEF Merging

\* The first of the right section goes before the left one.
LEMMA MergingRight ==
    ASSUME NEW v, Ordered(v), NEW w \in Nat, w # 0, NEW k \in Nat, NEW q \in Nat, NEW p \in 1 .. q - 1,
           NEW base, Merging(v, w, k, p, q, base), k + q <= Len(v),
           ~(CompareTokens(v[k + 1], v[k + p + 1]) <= 0),
           NEW u, Rotated(u, v, k + 1, k + p + 1)
    PROVE  Merging(u, w, k + 1, p, q - 1, base)
<1>1. Named /\ Len(v) \in Nat /\ \A i \in 1 .. Len(v) : In(v[i], order)
  BY DEF Ordered
<1>2. PICK c, e, w2 : c = k + p /\ e = k + q /\ w2 = 2 * w
  OBVIOUS
<1>3. /\ c \in Nat /\ e \in Nat /\ k < c /\ c < e /\ e <= Len(v)
      /\ (k + 1) + p = c + 1 /\ (k + 1) + (q - 1) = e /\ k + p + 1 = c + 1
      /\ k + 1 \in 1 .. Len(v) /\ c + 1 \in 1 .. Len(v) /\ k + 1 <= c /\ k + 1 \in 1 .. c + 1
      /\ w2 \in Nat /\ w2 # 0
  BY <1>1, <1>2
<1>4. /\ base \in 0 .. k /\ Multiple(base, w2) /\ Runs(v, w2, 0, base) /\ Parted(v, base)
      /\ Runs(v, w, e, Len(v)) /\ Run(v, k, c) /\ Run(v, c, e)
      /\ \A i, j \in 1 .. Len(v) : k < i /\ i <= c /\ c < j => Earlier(v[i], v[j])
      /\ \A i, j \in 1 .. Len(v) : base < i /\ i <= k /\ i < j /\ j <= e => Less(v[i], v[j])
      /\ e = IF base + w2 <= Len(v) THEN base + w2 ELSE Len(v)
  BY <1>2 DEF Merging
<1>5. Rotated(u, v, k + 1, c + 1)
  BY <1>3
<1>6. Len(u) = Len(v) /\ \A i \in 1 .. Len(v) : u[i] = v[Was(k + 1, c + 1, i)]
  BY <1>5 DEF Rotated
<1>7. base < k + 1 /\ base \in Nat
  BY <1>4
<1>8. Runs(u, w2, 0, base)
  BY <1>1, <1>3, <1>4, <1>5, <1>7, RunsApart
<1>9. Runs(u, w, e, Len(v))
  <2>1. c + 1 <= e
    BY <1>3
  <2> QED BY <1>1, <1>3, <1>4, <1>5, <2>1, RunsBehind
<1>10. Parted(u, base) /\ Run(u, c + 1, e)
  <2>1. Run(v, c + 1, e)
    BY <1>3, <1>4 DEF Run
  <2>2. base \in Int /\ c + 1 \in Int /\ e \in Int /\ c + 1 >= c + 1
    BY <1>3, <1>7
  <2>3. Len(v) \in Nat /\ c + 1 \in 1 .. Len(v) /\ k + 1 \in 1 .. c + 1 /\ Rotated(u, v, k + 1, c + 1)
    BY <1>1, <1>3, <1>5
  <2>4. /\ \A x \in Int : (x < k + 1 \/ x >= c + 1) /\ Parted(v, x) => Parted(u, x)
        /\ \A x, y \in Int : (y < k + 1 \/ x >= c + 1) /\ Run(v, x, y) => Run(u, x, y)
    BY <2>3, RotatedApart
  <2> QED BY <1>4, <1>7, <2>1, <2>2, <2>4
\* Where each node was.
<1>11. ASSUME NEW i \in 1 .. Len(v)
       PROVE  /\ i <= k => Was(k + 1, c + 1, i) = i
              /\ i = k + 1 => Was(k + 1, c + 1, i) = c + 1
              /\ k + 1 < i /\ i <= c + 1 => /\ Was(k + 1, c + 1, i) = i - 1 /\ i - 1 \in 1 .. Len(v)
                                            /\ k < i - 1 /\ i - 1 <= c
              /\ c + 1 < i => Was(k + 1, c + 1, i) = i
  BY <1>3, <1>11 DEF Was
<1>12. Run(u, k + 1, c + 1)
  <2> SUFFICES ASSUME NEW i \in 1 .. Len(v), NEW j \in 1 .. Len(v), k + 1 < i, i < j, j <= c + 1
               PROVE  Less(u[i], u[j])
    BY <1>6 DEF Run
  <2>1. i <= c + 1 /\ k + 1 < j
    BY <1>3
  <2>2. u[i] = v[i - 1] /\ u[j] = v[j - 1] /\ i - 1 \in 1 .. Len(v) /\ j - 1 \in 1 .. Len(v)
        /\ k < i - 1 /\ j - 1 <= c
    BY <1>6, <1>11, <2>1
  <2>3. i - 1 < j - 1
    OBVIOUS
  <2> QED BY <1>4, <2>2, <2>3 DEF Run
<1>13. \A i, j \in 1 .. Len(v) : k + 1 < i /\ i <= c + 1 /\ c + 1 < j => Earlier(u[i], u[j])
  <2> SUFFICES ASSUME NEW i \in 1 .. Len(v), NEW j \in 1 .. Len(v), k + 1 < i, i <= c + 1, c + 1 < j
               PROVE  Earlier(u[i], u[j])
    OBVIOUS
  <2>1. u[i] = v[i - 1] /\ u[j] = v[j] /\ i - 1 \in 1 .. Len(v) /\ k < i - 1 /\ i - 1 <= c
    BY <1>6, <1>11
  <2>2. c < j
    BY <1>3
  <2> QED BY <1>4, <2>1, <2>2
\* The node that goes before the others is less.
<1>14. ASSUME NEW y \in 1 .. Len(v), k < y, y <= e, y # c + 1 PROVE Less(v[c + 1], v[y])
  <2>0. /\ In(v[k + 1], order) /\ In(v[c + 1], order) /\ In(v[y], order)
        /\ ~(CompareTokens(v[k + 1], v[c + 1]) <= 0)
    BY <1>1, <1>3
  <2>1. Less(v[c + 1], v[k + 1])
    BY <1>1, <2>0, LessByName
  <2>2. CASE y <= c
    <3>1. y # k + 1 => Less(v[k + 1], v[y])
      <4>1. y # k + 1 => k < k + 1 /\ k + 1 < y
        BY <1>14
      <4> QED BY <1>3, <1>4, <2>2, <4>1 DEF Run
    <3> QED BY <1>1, <2>0, <2>1, <3>1, LessTransitive
  <2>3. CASE c + 1 < y
    <3>1. c < c + 1
      BY <1>3
    <3> QED BY <1>3, <1>4, <1>14, <2>3, <3>1 DEF Run
  <2> QED BY <1>3, <1>14, <2>2, <2>3
<1>15. \A i, j \in 1 .. Len(v) : base < i /\ i <= k + 1 /\ i < j /\ j <= e => Less(u[i], u[j])
  <2> SUFFICES ASSUME NEW i \in 1 .. Len(v), NEW j \in 1 .. Len(v), base < i, i <= k + 1, i < j, j <= e
               PROVE  Less(u[i], u[j])
    OBVIOUS
  <2>1. PICK y : y = Was(k + 1, c + 1, j)
    OBVIOUS
  <2>2. u[j] = v[y]
    BY <1>6, <2>1
  <2>3. /\ y \in 1 .. Len(v) /\ y <= e
        /\ j <= k => y = j
        /\ j = k + 1 => y = c + 1
        /\ k + 1 < j => k < y /\ y # c + 1
    <3>1. CASE j <= k
      BY <1>3, <1>11, <2>1, <3>1
    <3>2. CASE j = k + 1
      BY <1>3, <1>11, <2>1, <3>2
    <3>3. CASE k + 1 < j /\ j <= c + 1
      BY <1>3, <1>11, <2>1, <3>3
    <3>4. CASE c + 1 < j
      BY <1>3, <1>11, <2>1, <3>4
    <3> QED BY <1>3, <3>1, <3>2, <3>3, <3>4
  <2>4. CASE i <= k
    <3>1. u[i] = v[i]
      BY <1>6, <1>11, <2>4
    <3>2. i < y
      BY <1>3, <2>3, <2>4
    <3> QED BY <1>4, <2>2, <2>3, <2>4, <3>1, <3>2
  <2>5. CASE i = k + 1
    <3>1. u[i] = v[c + 1]
      BY <1>6, <1>11, <2>5
    <3>2. k < y /\ y # c + 1
      BY <2>3, <2>5
    <3> QED BY <1>14, <2>2, <2>3, <3>1, <3>2
  <2> QED BY <2>4, <2>5
<1>16. base \in 0 .. k + 1
  BY <1>4
<1> QED BY <1>2, <1>3, <1>4, <1>6, <1>8, <1>9, <1>10, <1>12, <1>13, <1>15, <1>16 DEF Merging

-----------------------------------------------------------------------------
(* The members are sorted block by block, and then run by run.              *)

Sorted(label, l, s, d, p, q, base) ==
    LET v == Whole(d, s)
        w == l.distance
    IN  /\ label = "insert" => Inserting(s, d, w, base, l.i, l.cached, l.cursor)
        /\ label = "pass" => Runs(v, w, 0, Len(v))
        /\ label = "section" => /\ Blocks(v, w, Len(d)) /\ SectionsOf(s, p, q, w)
                                /\ l.leftLast = NodeAt(s, w)
        /\ label = "merge" => Merging(v, w, Len(d), p, q, base)
        /\ label = "passed" => Runs(v, 2 * w, 0, Len(v))
        /\ label = "closed" => Run(v, 0, Len(v))

\* Nothing but the names and the order the members were read in tells whether
\* they are sorted.
LEMMA SortedSame ==
    ASSUME name' = name, order' = order, NEW label, NEW l, NEW s, NEW d, NEW p, NEW q, NEW base,
           Sorted(label, l, s, d, p, q, base)
    PROVE  Sorted(label, l, s, d, p, q, base)'
<1>1. \A t, u : Less(t, u)' <=> Less(t, u)
  BY DEF Less, Earlier, CompareTokens
<1>2. \A t, u : Earlier(t, u)' <=> Earlier(t, u)
  BY DEF Earlier
<1>3. \A v, b, e : Run(v, b, e)' <=> Run(v, b, e)
  BY <1>1 DEF Run
<1>4. \A v, b : Parted(v, b)' <=> Parted(v, b)
  BY <1>2 DEF Parted
<1>5. \A v, w, b, e : Runs(v, w, b, e)' <=> Runs(v, w, b, e)
  BY <1>3, <1>4 DEF Runs
<1>6. \A w, i, cached, cursor : Inserting(s, d, w, base, i, cached, cursor)
                                => Inserting(s, d, w, base, i, cached, cursor)'
  BY <1>3, <1>4, <1>5 DEF Inserting
<1>7. \A v, w, k : Blocks(v, w, k) => Blocks(v, w, k)'
  BY <1>5 DEF Blocks
<1>8. \A v, w, k : Merging(v, w, k, p, q, base) => Merging(v, w, k, p, q, base)'
  BY <1>1, <1>2, <1>3, <1>4, <1>5 DEF Merging
<1> QED BY <1>3, <1>5, <1>6, <1>7, <1>8 DEF Sorted

\* The members, while they are sorted.
LEMMA SortParts ==
    ASSUME NEW f, NEW a, NEW s, NEW d, NEW p, NEW q, Shape(f, a, s, d, p, q),
           pc \in SortLabels \cup {"closed"}
    PROVE  /\ s \in Seq(Nodes) /\ d \in Seq(Nodes) /\ Len(s) \in Nat /\ Len(d) \in Nat
           /\ Ordered(Whole(d, s)) /\ Covers(s, d) /\ Distinct(s)
           /\ Len(Whole(d, s)) = Len(d) + Len(s)
           /\ local \in Locals /\ local.distance \in Nat
           /\ pc \in SortLabels => local.distance # 0
<1>1. s \in Seq(Nodes) /\ d \in Seq(Nodes) /\ Distinct(s)
  <2>1. CASE pc = "pass"
    <3>1. TwoLists(Point(sib, "dest", None), "o", s, "dest", <<>>) /\ d = <<>>
      BY <2>1 DEF Shape, Lists, TwoHeads
    <3>2. <<>> \in Seq(Nodes)
      BY EmptyIn
    <3> QED BY <3>1, <3>2, Zenon DEF TwoLists, Disjoint
  <2>2. CASE pc # "pass"
    <3>1. TwoLists(sib, "o", s, "dest", d)
      BY <2>2 DEF Shape, Lists, SortLabels
    <3> QED BY <3>1 DEF TwoLists, Disjoint
  <2> QED BY <2>1, <2>2
<1>2. Covers(s, d)
  BY DEF Shape, Lists, SortLabels
<1>3. Named
  BY DEF Shape, Members, Named
<1>4. Len(s) \in Nat /\ Len(d) \in Nat
  BY <1>1
<1>5. PICK v : v = Whole(d, s)
  OBVIOUS
<1>6. /\ v \in Seq(Nodes) /\ Len(v) = Len(d) + Len(s)
      /\ \A n : (\E i \in 1 .. Len(v) : v[i] = n) <=> In(n, d) \/ In(n, s)
  <2>1. s \in Seq(Nodes) /\ d \in Seq(Nodes)
    BY <1>1
  <2>2. /\ Whole(d, s) \in Seq(Nodes) /\ Len(Whole(d, s)) = Len(d) + Len(s)
        /\ \A n : (\E i \in 1 .. Len(Whole(d, s)) : Whole(d, s)[i] = n) <=> In(n, d) \/ In(n, s)
    BY <2>1, WholeIs
  <2> QED BY <1>5, <2>2
<1>7. ASSUME NEW i \in 1 .. Len(v) PROVE In(v[i], order)
  <2>1. v[i] \in Tokens /\ (In(v[i], s) \/ In(v[i], d))
    BY <1>6, HeadsAre
  <2> QED BY <1>2, <2>1 DEF Covers
<1>8. Ordered(v)
  BY <1>3, <1>6, <1>7 DEF Ordered
<1>9. local \in Locals /\ (pc \in SortLabels => local.distance # 0)
  BY DEF Shape, Cursors
<1>10. local.distance \in Nat
  BY <1>9 DEF Locals
<1> QED BY <1>1, <1>2, <1>4, <1>5, <1>6, <1>8, <1>9, <1>10

\* The sort begins with the members in the order they were read in.
LEMMA CloseSorted ==
    ASSUME NEW f, NEW a, NEW s, NEW d, NEW p, NEW q, Shape(f, a, s, d, p, q), CloseObject,
           NEW label, label = pc', NEW l, l = local', NEW o, o = order
    PROVE  Sorted(label, l, o, <<>>, p, q, 0)
<1>1. label = "insert" /\ l = [NoLocals EXCEPT !.distance = BlockSize]
  BY DEF CloseObject
<1>2. l.i = 0 /\ l.cached = None /\ l.cursor = "dest" /\ l.distance = BlockSize /\ BlockSize \in Nat
  BY <1>1, BlockAssumption DEF NoLocals
<1>3. o \in Seq(Nodes)
  BY HeadsAre DEF Shape, Members
<1>4. PICK e : e = <<>>
  OBVIOUS
<1>5. e \in Seq(Nodes) /\ Len(e) = 0 /\ Len(o) \in Nat
  <2>1. <<>> \in Seq(Nodes) /\ Len(<<>>) = 0
    BY EmptyIn
  <2>2. e \in Seq(Nodes) /\ Len(e) = 0
    BY <1>4, <2>1, Zenon
  <2> QED BY <1>3, <2>2
<1>6. PICK v : v = Whole(e, o) /\ Len(v) = Len(o)
  <2>1. Whole(e, o) = o
    BY <1>3, <1>4, WholeOfOne
  <2> QED BY <2>1
<1>7. Multiple(0, BlockSize)
  BY <1>2, 0 * BlockSize = 0 DEF Multiple
<1>8. Runs(v, BlockSize, 0, 0) /\ Run(v, 0, 0) /\ Parted(v, 0)
  BY <1>5, <1>6 DEF Runs, Run, Parted
<1>9. \A j \in 1 .. Len(o) : o[j] = order[Len(e) + j]
  BY <1>5
<1>10. l.cursor = CellAt("dest", e, 0) /\ 0 \in Nat /\ 0 + l.i = Len(e)
  BY <1>2, <1>5 DEF CellAt
<1>11. Inserting(o, e, BlockSize, 0, l.i, l.cached, l.cursor)
  BY <1>2, <1>5, <1>6, <1>7, <1>8, <1>9, <1>10 DEF Inserting
<1>12. Sorted(label, l, o, e, p, q, 0)
  BY <1>1, <1>2, <1>11 DEF Sorted
<1> QED BY <1>4, <1>12

\* What of the members is not yet in dest_list was read after what is there.
LEMMA RestLater ==
    ASSUME NEW s \in Seq(Nodes), NEW d \in Seq(Nodes), Named, Covers(s, d), Distinct(s),
           \A j \in 1 .. Len(s) : s[j] = order[Len(d) + j],
           NEW n, In(n, d), ~In(n, s), NEW j \in 1 .. Len(s)
    PROVE  Earlier(n, s[j])
<1>1. /\ Len(s) \in Nat /\ Len(d) \in Nat /\ Len(s) + Len(d) = Len(order)
      /\ n \in Tokens
  BY HeadsAre DEF Covers, In
<1>2. In(n, order)
  BY <1>1 DEF Covers
<1>3. PICK i \in 1 .. Len(order) : order[i] = n
  BY <1>2 DEF In
<1>4. ~(i > Len(d))
  <2> SUFFICES ASSUME i > Len(d) PROVE FALSE
    OBVIOUS
  <2>1. PICK k : k = i - Len(d)
    OBVIOUS
  <2>2. k \in 1 .. Len(s) /\ Len(d) + k = i
    BY <1>1, <2>1
  <2>3. s[k] = n
    BY <1>3, <2>2
  <2> QED BY <2>2, <2>3 DEF In
<1>5. Len(d) + j \in 1 .. Len(order) /\ i < Len(d) + j
  BY <1>1, <1>4
<1>6. order[Len(d) + j] = s[j]
  OBVIOUS
<1> QED BY <1>3, <1>5, <1>6 DEF Earlier

\* The next block begins.
LEMMA NextBlockSorted ==
    ASSUME NEW f, NEW a, NEW s, NEW d, NEW p, NEW q, Shape(f, a, s, d, p, q), NextBlock,
           NEW base, Inserting(s, d, local.distance, base, local.i, local.cached, local.cursor),
           NEW label, label = pc', NEW l, l = local'
    PROVE  Sorted(label, l, s, d, p, q, Len(d))
<1>1. PICK w, k, v : w = local.distance /\ k = Len(d) /\ v = Whole(d, s)
  OBVIOUS
<1>2. /\ pc = "insert" /\ label = "insert" /\ local.i = w
      /\ l = [local EXCEPT !.i = 0, !.cached = None, !.cursor = CellAt("dest", d, k)]
  BY <1>1, NextBlockShape DEF NextBlock
<1>3. /\ s \in Seq(Nodes) /\ d \in Seq(Nodes) /\ Len(s) \in Nat /\ Len(d) \in Nat
      /\ Ordered(v) /\ Covers(s, d) /\ Distinct(s) /\ Len(v) = Len(d) + Len(s)
      /\ local \in Locals /\ w \in Nat /\ w # 0
  BY <1>1, <1>2, SortParts DEF SortLabels
<1>4. /\ base \in Nat /\ Multiple(base, w) /\ base + w = k
      /\ \A j \in 1 .. Len(s) : s[j] = order[k + j]
      /\ Runs(v, w, 0, base) /\ Run(v, base, k) /\ Parted(v, base)
  BY <1>1, <1>2 DEF Inserting
<1>5. Multiple(k, w) /\ k \in Nat /\ k <= Len(v) /\ base <= k
  <2>1. Multiple(base + w, w)
    BY <1>3, <1>4, MultipleStep
  <2> QED BY <1>1, <1>3, <1>4, <2>1
<1>6. Runs(v, w, 0, k)
  <2>1. Len(v) \in Nat
    BY <1>3
  <2> QED BY <1>3, <1>4, <1>5, <2>1, BlockDone
<1>7. Run(v, k, k)
  BY <1>3, <1>5 DEF Run
<1>8. Parted(v, k)
  <2> SUFFICES ASSUME NEW i \in 1 .. Len(v), NEW j \in 1 .. Len(v), i <= k, k < j
               PROVE  Earlier(v[i], v[j])
    BY DEF Parted
  <2>1. PICK n : n = j - k
    OBVIOUS
  <2>2. n \in 1 .. Len(s) /\ k + n = j /\ i \in 1 .. Len(d) /\ i \in 1 .. Len(order) /\ j \in 1 .. Len(order)
    BY <1>1, <1>3, <2>1 DEF Covers
  <2>3. v[j] = s[n] /\ v[i] = d[i]
    <3>1. /\ \A y \in 1 .. Len(d) : Whole(d, s)[y] = d[y]
          /\ \A y \in 1 .. Len(s) : Whole(d, s)[Len(d) + y] = s[y]
      BY <1>3, WholeIs
    <3> QED BY <1>1, <2>2, <3>1
  <2>4. Named /\ In(d[i], d)
    BY <1>3, <2>2 DEF Ordered, In
  <2>5. ~In(d[i], s)
    <3>1. TwoLists(sib, "o", s, "dest", d)
      BY <1>2 DEF Shape, Lists
    <3> QED BY <2>2, <3>1 DEF TwoLists, Disjoint, In
  <2>6. Earlier(d[i], s[n])
    <3>1. \A y \in 1 .. Len(s) : s[y] = order[Len(d) + y]
      BY <1>1, <1>4
    <3> QED BY <1>3, <2>2, <2>4, <2>5, <3>1, RestLater
  <2> QED BY <2>3, <2>6
<1>9. l.i = 0 /\ l.cached = None /\ l.cursor = CellAt("dest", d, k) /\ l.distance = w
  BY <1>1, <1>2, <1>3 DEF Locals
<1>10. k + 0 = k
  BY <1>5
<1>11. Inserting(s, d, w, k, 0, None, l.cursor)
  BY <1>1, <1>4, <1>5, <1>6, <1>7, <1>8, <1>9, <1>10 DEF Inserting
<1>12. Sorted(label, l, s, d, p, q, k)
  BY <1>2, <1>9, <1>11 DEF Sorted
<1> QED BY <1>1, <1>12

\* The last block is done.
LEMMA InsertedAllSorted ==
    ASSUME NEW f, NEW a, NEW d, NEW p, NEW q, NEW s, s = <<>>, Shape(f, a, s, d, p, q), InsertInBlock,
           NEW base, Inserting(s, d, local.distance, base, local.i, local.cached, local.cursor),
           NEW label, label = pc', NEW l, l = local'
    PROVE  Sorted(label, l, d, s, p, q, base)
<1>1. PICK w, k, v : w = local.distance /\ k = Len(d) /\ v = Whole(d, s)
  OBVIOUS
<1>2. pc = "insert" /\ local.i < w
  BY <1>1 DEF InsertInBlock
<1>3. label = "pass" /\ l = local
  BY InsertedAll
<1>4. /\ d \in Seq(Nodes) /\ Len(d) \in Nat /\ w \in Nat /\ w # 0 /\ local \in Locals
  BY <1>1, <1>2, SortParts DEF SortLabels
<1>5. v = d /\ Whole(s, d) = d
  BY <1>1, <1>4, WholeOfOne
<1>6. /\ base \in Nat /\ Multiple(base, w) /\ base + local.i = k
      /\ Runs(v, w, 0, base) /\ Run(v, base, k) /\ Parted(v, base)
  BY <1>1, <1>2 DEF Inserting
<1>7. local.i \in Nat
  BY <1>4, BlockAssumption DEF Locals
<1>8. Runs(v, w, 0, k)
  <2>1. k \in Nat /\ base <= k /\ k <= base + w /\ k = Len(v)
    BY <1>1, <1>2, <1>4, <1>5, <1>6, <1>7
  <2> QED BY <1>4, <1>6, <2>1, BlockDone
<1> QED BY <1>1, <1>3, <1>5, <1>8 DEF Sorted

\* Where the search begins: nothing before that place is greater.
LEMMA SearchFrom ==
    ASSUME NEW f, NEW a, NEW s, NEW d, NEW p, NEW q, Shape(f, a, s, d, p, q), pc = "insert", s # <<>>,
           NEW base, Inserting(s, d, local.distance, base, local.i, local.cached, local.cursor)
    PROVE  \E x \in base .. Len(d) :
              /\ CellAt("dest", d, x) = IF local.cached # None /\ CompareTokens(local.cached, s[1]) <= 0
                                        THEN local.cached ELSE local.cursor
              /\ \A j \in base + 1 .. x : Less(d[j], s[1])
<1>1. PICK w, k, v : w = local.distance /\ k = Len(d) /\ v = Whole(d, s)
  OBVIOUS
<1>2. /\ s \in Seq(Nodes) /\ d \in Seq(Nodes) /\ Len(s) \in Nat /\ Len(d) \in Nat
      /\ Ordered(v) /\ Covers(s, d) /\ Distinct(s) /\ Len(v) = Len(d) + Len(s)
      /\ local \in Locals
  BY <1>1, SortParts DEF SortLabels
<1>3. 1 \in 1 .. Len(s) /\ Len(s) # 0
  BY <1>2
<1>4. /\ base \in Nat /\ base + local.i = k
      /\ \A j \in 1 .. Len(s) : s[j] = order[Len(d) + j]
      /\ local.cursor = CellAt("dest", d, base)
      /\ local.cached # None => \E x \in base + 1 .. Len(d) : d[x] = local.cached
      /\ Run(v, base, k)
  BY <1>1 DEF Inserting
<1>5. base <= k /\ local.i \in Nat
  BY <1>2, <1>4, BlockAssumption DEF Locals
<1>6. \A y \in 1 .. Len(d) : v[y] = d[y]
  BY <1>1, <1>2, WholeIs
<1>7. CASE ~(local.cached # None /\ CompareTokens(local.cached, s[1]) <= 0)
  <2>1. base \in base .. Len(d) /\ \A j \in base + 1 .. base : FALSE
    BY <1>1, <1>2, <1>4, <1>5
  <2>2. CellAt("dest", d, base) = IF local.cached # None /\ CompareTokens(local.cached, s[1]) <= 0
                                  THEN local.cached ELSE local.cursor
    BY <1>4, <1>7
  <2> QED BY <2>1, <2>2
<1>8. CASE local.cached # None /\ CompareTokens(local.cached, s[1]) <= 0
  <2>1. PICK x \in base + 1 .. Len(d) : d[x] = local.cached
    BY <1>4, <1>8
  <2>2. x \in base .. Len(d) /\ x \in 1 .. Len(d) /\ x # 0 /\ x \in 1 .. Len(v) /\ x <= k
    BY <1>1, <1>2, <1>4, <2>1
  <2>3. CellAt("dest", d, x) = local.cached
    BY <2>1, <2>2 DEF CellAt
  <2>4. /\ Named /\ In(s[1], s) /\ In(s[1], order)
    <3>1. In(s[1], s) /\ s[1] \in Tokens
      BY <1>2, <1>3, HeadsAre DEF In
    <3> QED BY <1>2, <3>1 DEF Covers, Ordered
  <2>5. TwoLists(sib, "o", s, "dest", d)
    BY DEF Shape, Lists
  <2>6. ASSUME NEW j \in base + 1 .. x PROVE Less(d[j], s[1])
    <3>1. j \in 1 .. Len(d) /\ j \in 1 .. Len(v) /\ base < j /\ (j = x \/ j < x)
      BY <1>2, <1>4, <2>2
    <3>2. In(d[j], d) /\ ~In(d[j], s) /\ In(d[j], order) /\ In(d[x], order)
      <4>1. In(d[j], d)
        BY <3>1 DEF In
      <4>2. ~In(d[j], s)
        BY <2>5, <3>1 DEF TwoLists, Disjoint, In
      <4>3. In(v[j], order) /\ In(v[x], order)
        BY <1>2, <2>2, <3>1 DEF Ordered
      <4> QED BY <1>6, <2>2, <3>1, <4>1, <4>2, <4>3
    <3>3. Earlier(d[j], s[1])
      BY <1>2, <1>3, <1>4, <2>4, <3>2, RestLater
    <3>4. CompareTokens(d[x], s[1]) <= 0
      BY <1>8, <2>1
    <3>5. CompareTokens(d[j], s[1]) <= 0
      <4>1. CASE j = x
        BY <3>4, <4>1
      <4>2. CASE j < x
        <5>1. Less(v[j], v[x])
          BY <1>4, <2>2, <3>1, <4>2 DEF Run
        <5>2. Less(d[j], d[x])
          BY <1>6, <2>2, <3>1, <5>1
        <5> QED BY <2>4, <3>2, <3>4, <5>2, LessOrEqual
      <4> QED BY <3>1, <4>1, <4>2
    <3> QED BY <2>4, <3>2, <3>3, <3>5, LessByName
  <2> QED BY <1>8, <2>2, <2>3, <2>6
<1> QED BY <1>7, <1>8

\* One token goes to its place in the block.
LEMMA InsertSorted ==
    ASSUME NEW f, NEW a, NEW s, NEW d, NEW p, NEW q, Shape(f, a, s, d, p, q), InsertInBlock, s # <<>>,
           NEW base, Inserting(s, d, local.distance, base, local.i, local.cached, local.cursor),
           NEW label, label = pc', NEW l, l = local'
    PROVE  \E s1, d1 : Shape(f, a, s1, d1, p, q)' /\ Sorted(label, l, s1, d1, p, q, base)
<1>1. PICK w, k, v, work : w = local.distance /\ k = Len(d) /\ v = Whole(d, s) /\ work = s[1]
  OBVIOUS
<1>2. pc = "insert"
  BY DEF InsertInBlock
<1>3. /\ s \in Seq(Nodes) /\ d \in Seq(Nodes) /\ Len(s) \in Nat /\ Len(d) \in Nat
      /\ Ordered(v) /\ Covers(s, d) /\ Distinct(s) /\ Len(v) = Len(d) + Len(s)
      /\ local \in Locals /\ w \in Nat /\ w # 0
  BY <1>1, <1>2, SortParts DEF SortLabels
<1>4. 1 \in 1 .. Len(s) /\ Len(s) # 0 /\ work \in Nodes
  BY <1>1, <1>3
<1>5. /\ base \in Nat /\ Multiple(base, w) /\ base + local.i = k
      /\ \A j \in 1 .. Len(s) : s[j] = order[Len(d) + j]
      /\ local.cursor = CellAt("dest", d, base)
      /\ Runs(v, w, 0, base) /\ Run(v, base, k) /\ Parted(v, base)
  BY <1>1, <1>2 DEF Inserting
<1>6. PICK x \in base .. Len(d) :
              /\ CellAt("dest", d, x) = IF local.cached # None /\ CompareTokens(local.cached, s[1]) <= 0
                                        THEN local.cached ELSE local.cursor
              /\ \A j \in base + 1 .. x : Less(d[j], s[1])
  BY <1>2, SearchFrom
<1>7. x \in 0 .. Len(d)
  BY <1>3, <1>5
<1>8. PICK m \in x .. Len(d) :
              /\ Shape(f, a, Removed(s, 1), Inserted(d, m, s[1]), p, q)'
              /\ InsertedBehind(d, x, m, s[1])
              /\ pc' = "insert" /\ local' = [local EXCEPT !.i = @ + 1, !.cached = s[1]]
  BY <1>6, <1>7, InsertShape
<1>9. PICK s1, d1, u : s1 = Removed(s, 1) /\ d1 = Inserted(d, m, work) /\ u = Whole(d1, s1)
  OBVIOUS
<1>10. /\ m \in 0 .. k /\ m \in base .. k /\ m \in Nat /\ k \in Nat /\ base <= k /\ base <= m
       /\ k \in 0 .. Len(v) - 1 /\ base \in 0 .. k
       /\ k + 1 \in 1 .. Len(v) /\ m + 1 \in 1 .. k + 1 /\ Len(v) \in Nat
  BY <1>1, <1>3, <1>4, <1>5, <1>6
<1>11. Rotated(u, v, m + 1, k + 1)
  <2>1. Rotated(Whole(Inserted(d, m, s[1]), Removed(s, 1)), Whole(d, s), m + 1, Len(d) + 1)
    BY <1>1, <1>3, <1>4, <1>10, WholeInserted
  <2> QED BY <1>1, <1>9, <2>1
<1>12. /\ \A y \in 1 .. Len(d) : v[y] = d[y]
       /\ v[k + 1] = work
  <2>1. /\ \A y \in 1 .. Len(d) : Whole(d, s)[y] = d[y]
        /\ \A y \in 1 .. Len(s) : Whole(d, s)[Len(d) + y] = s[y]
    BY <1>3, WholeIs
  <2> QED BY <1>1, <1>4, <2>1
<1>13. ASSUME NEW j \in base + 1 .. m PROVE Less(v[j], v[k + 1])
  <2>1. j \in 1 .. Len(d) /\ j \in 1 .. Len(v)
    BY <1>1, <1>3, <1>5, <1>10
  <2>2. CASE j <= x
    <3>1. j \in base + 1 .. x
      BY <2>2
    <3> QED BY <1>1, <1>6, <1>12, <2>1, <3>1
  <2>3. CASE ~(j <= x)
    <3>1. j \in x + 1 .. m
      BY <1>7, <2>3
    <3>2. ~(CompareTokens(work, d[j]) < 0)
      BY <1>1, <1>8, <3>1 DEF InsertedBehind
    <3>3. TwoLists(sib, "o", s, "dest", d)
      BY <1>2 DEF Shape, Lists
    <3>4. In(d[j], d) /\ ~In(d[j], s)
      BY <2>1, <3>3 DEF TwoLists, Disjoint, In
    <3>5. Named
      BY <1>3 DEF Ordered
    <3>6. Earlier(d[j], s[1])
      BY <1>3, <1>4, <1>5, <3>4, <3>5, RestLater
    <3>7. In(d[j], order) /\ In(work, order)
      <4>1. In(v[j], order) /\ In(v[k + 1], order)
        BY <1>3, <1>10, <2>1 DEF Ordered
      <4> QED BY <1>12, <2>1, <4>1
    <3>8. Less(d[j], work)
      BY <1>1, <3>2, <3>5, <3>6, <3>7, LessByName
    <3> QED BY <1>12, <2>1, <3>8
  <2> QED BY <2>2, <2>3
<1>14. m # k => Less(v[k + 1], v[m + 1])
  <2> SUFFICES ASSUME m # k PROVE Less(v[k + 1], v[m + 1])
    OBVIOUS
  <2>1. m + 1 \in 1 .. Len(d)
    BY <1>1, <1>10
  <2>2. CompareTokens(work, d[m + 1]) < 0
    BY <1>1, <1>8 DEF InsertedBehind
  <2> QED BY <1>12, <2>1, <2>2 DEF Less
<1>15. Run(u, base, k + 1)
  BY <1>3, <1>5, <1>10, <1>11, <1>13, <1>14, RunInserted
<1>16. Runs(u, w, 0, base)
  <2>1. base < m + 1
    BY <1>10
  <2> QED BY <1>3, <1>5, <1>10, <1>11, <2>1, RunsApart
<1>17. Parted(u, base)
  <2>1. base < m + 1 /\ base \in Int
    BY <1>10
  <2> QED BY <1>5, <1>10, <1>11, <2>1, RotatedApart
<1>18. /\ Len(d1) = k + 1 /\ \A i \in 1 .. Len(d) + 1 :
                d1[i] = IF i <= m THEN d[i] ELSE IF i = m + 1 THEN work ELSE d[i - 1]
  <2>1. d \in Seq(Nodes) /\ m \in 0 .. Len(d) /\ work \in Nodes /\ d1 = Inserted(d, m, work)
    BY <1>1, <1>3, <1>4, <1>9, <1>10
  <2>2. IsInserted(d1, d, m, work)
    BY <2>1, InsertedNodes
  <2> QED BY <1>1, <2>2 DEF IsInserted
<1>19. Len(s1) = Len(s) - 1 /\ \A j \in 1 .. Len(s) - 1 : s1[j] = s[j + 1]
  <2>1. /\ Len(s1) = Len(s) - 1
        /\ \A i \in 1 .. Len(s) - 1 : s1[i] = IF i < 1 THEN s[i] ELSE s[i + 1]
    BY <1>3, <1>4, <1>9, RemovedIs
  <2>2. \A i \in 1 .. Len(s) - 1 : ~(i < 1)
    OBVIOUS
  <2> QED BY <2>1, <2>2
<1>20. \A j \in 1 .. Len(s1) : s1[j] = order[Len(d1) + j]
  <2> SUFFICES ASSUME NEW j \in 1 .. Len(s1) PROVE s1[j] = order[Len(d1) + j]
    OBVIOUS
  <2>1. j \in 1 .. Len(s) - 1 /\ j + 1 \in 1 .. Len(s) /\ Len(d1) + j = Len(d) + (j + 1)
    BY <1>1, <1>3, <1>18, <1>19
  <2> QED BY <1>5, <1>19, <2>1
<1>21. local.cursor = CellAt("dest", d1, base)
  <2>1. base # 0 => base \in 1 .. Len(d) + 1 /\ base <= m
    BY <1>1, <1>10
  <2> QED BY <1>5, <1>18, <2>1 DEF CellAt
<1>22. \E y \in base + 1 .. Len(d1) : d1[y] = work
  <2>1. m + 1 \in base + 1 .. Len(d1) /\ m + 1 \in 1 .. Len(d) + 1 /\ ~(m + 1 <= m)
    BY <1>1, <1>10, <1>18
  <2>2. d1[m + 1] = work
    BY <1>18, <2>1
  <2> QED BY <2>1, <2>2
<1>23. l.i = local.i + 1 /\ l.cached = work /\ l.cursor = local.cursor /\ l.distance = w /\ label = "insert"
  <2>1. l = [local EXCEPT !.i = @ + 1, !.cached = s[1]] /\ label = "insert"
    BY <1>8
  <2> QED BY <1>1, <1>3, <2>1 DEF Locals
<1>24. base + l.i = Len(d1)
  <2>1. local.i \in Nat
    BY <1>3, BlockAssumption DEF Locals
  <2> QED BY <1>1, <1>5, <1>18, <1>23, <2>1
<1>25. Inserting(s1, d1, w, base, l.i, l.cached, l.cursor)
  BY <1>5, <1>9, <1>15, <1>16, <1>17, <1>18, <1>20, <1>21, <1>22, <1>23, <1>24 DEF Inserting
<1>26. Sorted(label, l, s1, d1, p, q, base)
  BY <1>23, <1>25 DEF Sorted
<1> QED BY <1>1, <1>8, <1>9, <1>26

\* A pass begins, or all is in one run.
LEMMA BeginPassSorted ==
    ASSUME NEW f, NEW a, NEW s, NEW d, NEW p, NEW q, Shape(f, a, s, d, p, q), BeginPass,
           Runs(Whole(d, s), local.distance, 0, Len(Whole(d, s))),
           NEW label, label = pc', NEW l, l = local'
    PROVE  \E p1, q1 : Shape(f, a, s, d, p1, q1)' /\ Sorted(label, l, s, d, p1, q1, 0)
<1>1. PICK w, k, v, n : w = local.distance /\ k = Len(d) /\ v = Whole(d, s) /\ n = Len(v)
  OBVIOUS
<1>2. pc = "pass"
  BY DEF BeginPass
<1>3. /\ s \in Seq(Nodes) /\ d \in Seq(Nodes) /\ Len(s) \in Nat /\ n = Len(d) + Len(s)
      /\ w \in Nat /\ w # 0
  BY <1>1, <1>2, SortParts DEF SortLabels
<1>4. d = <<>>
  BY BeginPassShape
<1>5. k = 0 /\ n = Len(s) /\ n \in Nat
  <2>1. Len(<<>>) = 0
    BY EmptyIn
  <2>2. k = 0
    BY <1>1, <1>4, <2>1, Zenon
  <2> QED BY <1>1, <1>3, <2>2
<1>6. Runs(v, w, 0, n)
  BY <1>1
<1>7. Multiple(0, w) /\ Multiple(0, 2 * w)
  BY <1>3, 0 * w = 0, 0 * (2 * w) = 0 DEF Multiple
<1>8. CASE Shape(f, a, s, d, p, q)' /\ pc' = "closed" /\ Len(s) <= w
  <2>1. Run(v, 0, n)
    <3>1. CASE n = 0
      BY <1>1, <3>1 DEF Run
    <3>2. CASE n # 0
      <4>1. 0 \in 0 .. n /\ 0 < n
        BY <1>5, <3>2
      <4>2. Run(v, 0, 0 + w)
        BY <1>6, <1>7, <4>1 DEF Runs
      <4>3. n <= 0 + w /\ 0 + w \in Int /\ 0 \in Int /\ n \in Int /\ 0 <= 0
        BY <1>3, <1>5, <1>8
      <4> QED BY <1>1, <1>5, <4>2, <4>3, RunPart
    <3> QED BY <3>1, <3>2
  <2>2. Sorted(label, l, s, d, p, q, 0)
    BY <1>1, <1>8, <2>1 DEF Sorted
  <2> QED BY <1>8, <2>2
<1>9. ASSUME NEW q1 \in 1 .. Len(s), Shape(f, a, s, d, w, q1)', pc' = "section", w < Len(s),
             q1 = IF 2 * w <= Len(s) THEN 2 * w ELSE Len(s),
             local'.leftLast = NodeAt(s, w), local'.distance = w
      PROVE  \E p1, q2 : Shape(f, a, s, d, p1, q2)' /\ Sorted(label, l, s, d, p1, q2, 0)
  <2>1. SectionsOf(s, w, q1, w)
    <3>1. w = IF w <= Len(s) THEN w ELSE Len(s)
      BY <1>3, <1>9
    <3> QED BY <1>9, <3>1 DEF SectionsOf
  <2>2. Runs(v, 2 * w, 0, 0)
    <3>1. \A b \in 0 .. 0 : ~(b < 0)
      OBVIOUS
    <3> QED BY <3>1 DEF Runs
  <2>3. Blocks(v, w, k)
    BY <1>1, <1>5, <1>6, <1>7, <2>2 DEF Blocks
  <2>4. Sorted(label, l, s, d, w, q1, 0)
    BY <1>1, <1>9, <2>1, <2>3 DEF Sorted
  <2> QED BY <1>9, <2>4
<1>10. \/ Shape(f, a, s, d, p, q)' /\ pc' = "closed" /\ Len(s) <= w
       \/ \E q1 \in 1 .. Len(s) :
                    /\ Shape(f, a, s, d, w, q1)'
                    /\ pc' = "section" /\ w < Len(s)
                    /\ q1 = IF 2 * w <= Len(s) THEN 2 * w ELSE Len(s)
                    /\ local'.leftLast = NodeAt(s, w) /\ local'.distance = w
  <2>1. PICK x : x = local.distance
    OBVIOUS
  <2>2. \/ Shape(f, a, s, d, p, q)' /\ pc' = "closed" /\ Len(s) <= x
        \/ \E q1 \in 1 .. Len(s) :
                    /\ Shape(f, a, s, d, x, q1)'
                    /\ pc' = "section" /\ x < Len(s)
                    /\ q1 = IF 2 * x <= Len(s) THEN 2 * x ELSE Len(s)
                    /\ local'.leftLast = NodeAt(s, x) /\ local'.distance = x
    BY <2>1, BeginPassShape
  <2> QED BY <1>1, <2>1, <2>2
<1> QED BY <1>8, <1>9, <1>10

\* The two sections are one run, and what was left of them is in dest_list.
LEMMA JoinSorted ==
    ASSUME NEW f, NEW a, NEW s, NEW d, NEW p, NEW q, Shape(f, a, s, d, p, q), q \in 1 .. Len(s),
           pc \in {"section", "merge"}, NEW right, JoinRest(right),
           right = local.rightEnd \/ right = local.left, SortStep,
           NEW w, w = local.distance, NEW v, v = Whole(d, s),
           Runs(v, 2 * w, 0, Len(d) + q), Len(d) + q # Len(v) => Blocks(v, w, Len(d) + q),
           NEW label, label = pc', NEW l, l = local'
    PROVE  \E s1, d1, p1, q1 : Shape(f, a, s1, d1, p1, q1)' /\ Sorted(label, l, s1, d1, p1, q1, 0)
<1>1. PICK s1, d1 : s1 = Rest(s, q) /\ d1 = Moved(d, s, q)
  OBVIOUS
<1>2. PICK p1 \in 0 .. Len(s1), q1 \in 0 .. Len(s1) :
                  /\ Shape(f, a, s1, d1, p1, q1)'
                  /\ SectionsOf(s1, p1, q1, w)
                  /\ local'.distance = w /\ local'.leftLast = NodeAt(s1, w)
                  /\ pc' = IF s1 = <<>> THEN "passed" ELSE "section"
  BY <1>1, JoinShape
<1>3. /\ s \in Seq(Nodes) /\ d \in Seq(Nodes) /\ Len(s) \in Nat /\ Len(d) \in Nat
      /\ Len(v) = Len(d) + Len(s) /\ q \in 0 .. Len(s)
  BY SortParts DEF SortLabels
<1>4. Whole(d1, s1) = v
  BY <1>1, <1>3, WholeMoved
<1>5. Len(d1) = Len(d) + q
  BY <1>1, <1>3, MovedIs
<1>6. Len(s1) = Len(s) - q /\ s1 \in Seq(Nodes)
  BY <1>1, <1>3, RestIs
<1>7. CASE s1 = <<>>
  <2>1. Len(s1) = 0
    BY <1>7, EmptyIn, Zenon
  <2>2. Len(d) + q = Len(v)
    BY <1>3, <1>6, <2>1
  <2>3. label = "passed"
    BY <1>2, <1>7
  <2>4. Sorted(label, l, s1, d1, p1, q1, 0)
    BY <1>2, <1>4, <2>2, <2>3 DEF Sorted
  <2> QED BY <1>2, <2>4
<1>8. CASE s1 # <<>>
  <2>1. Len(s1) # 0
    BY <1>6, <1>8
  <2>2. Len(d) + q # Len(v)
    BY <1>3, <1>6, <2>1
  <2>3. label = "section"
    BY <1>2, <1>8
  <2>4. Sorted(label, l, s1, d1, p1, q1, 0)
    BY <1>2, <1>4, <1>5, <2>2, <2>3 DEF Sorted
  <2> QED BY <1>2, <2>4
<1> QED BY <1>7, <1>8

\* A pair of sections is there to be merged.
LEMMA SectionsMerging ==
    ASSUME NEW f, NEW a, NEW s, NEW d, NEW p, NEW q, Shape(f, a, s, d, p, q), pc = "section",
           NEW w, w = local.distance, NEW v, v = Whole(d, s), Blocks(v, w, Len(d)), SectionsOf(s, p, q, w)
    PROVE  /\ Merging(v, w, Len(d), p, q, Len(d))
           /\ p \in 1 .. q /\ q \in 1 .. Len(s) /\ (p # q => p = w)
<1>1. PICK k : k = Len(d)
  OBVIOUS
<1>2. /\ s \in Seq(Nodes) /\ d \in Seq(Nodes) /\ Len(s) \in Nat /\ k \in Nat
      /\ Len(v) = k + Len(s) /\ w \in Nat /\ w # 0
  BY <1>1, SortParts DEF SortLabels
<1>3. p \in 0 .. q /\ q \in 1 .. Len(s)
  BY DEF Shape, Cursors
<1>4. /\ p = IF w <= Len(s) THEN w ELSE Len(s)
      /\ q = IF 2 * w <= Len(s) THEN 2 * w ELSE Len(s)
  BY DEF SectionsOf
<1>5. Len(v) - k = Len(s) /\ k < Len(v) /\ Len(v) \in Nat
  BY <1>2, <1>3
<1>6. /\ p = IF w <= Len(v) - k THEN w ELSE Len(v) - k
      /\ q = IF 2 * w <= Len(v) - k THEN 2 * w ELSE Len(v) - k
  BY <1>4, <1>5
<1>7. Blocks(v, w, k)
  BY <1>1
<1>8. Merging(v, w, k, p, q, k)
  BY <1>2, <1>5, <1>6, <1>7, MergingBegins
<1>9. p \in 1 .. q /\ (p # q => p = w)
  BY <1>2, <1>3, <1>4
<1> QED BY <1>1, <1>3, <1>8, <1>9

LEMMA MergeSectionsSorted ==
    ASSUME NEW f, NEW a, NEW s, NEW d, NEW p, NEW q, Shape(f, a, s, d, p, q), MergeSections,
           NEW w, w = local.distance, Blocks(Whole(d, s), w, Len(d)), SectionsOf(s, p, q, w),
           NEW label, label = pc', NEW l, l = local'
    PROVE  Sorted(label, l, s, d, p, q, Len(d))
<1>1. pc = "section" /\ label = "merge" /\ l.distance = w
  BY DEF MergeSections
<1>2. PICK v : v = Whole(d, s)
  OBVIOUS
<1>3. Merging(v, w, Len(d), p, q, Len(d))
  BY <1>1, <1>2, SectionsMerging
<1> QED BY <1>1, <1>2, <1>3 DEF Sorted

\* A pair of sections in order is left as it is.
LEMMA SkipSorted ==
    ASSUME NEW f, NEW a, NEW s, NEW d, NEW p, NEW q, Shape(f, a, s, d, p, q), SkipSections,
           Blocks(Whole(d, s), local.distance, Len(d)), SectionsOf(s, p, q, local.distance),
           local.leftLast = NodeAt(s, local.distance),
           NEW label, label = pc', NEW l, l = local'
    PROVE  \E s1, d1, p1, q1 : Shape(f, a, s1, d1, p1, q1)' /\ Sorted(label, l, s1, d1, p1, q1, 0)
<1>1. PICK w, k, v, right : w = local.distance /\ k = Len(d) /\ v = Whole(d, s) /\ right = local.rightEnd
  OBVIOUS
<1>2. pc = "section" /\ Presorted /\ JoinRest(right) /\ SortStep
  <2>1. SkipSections => pc = "section" /\ Presorted /\ JoinRest(local.rightEnd)
    BY DEF SkipSections
  <2>2. JoinRest(right)
    BY <1>1, <2>1 DEF JoinRest
  <2> QED BY <2>1, <2>2 DEF SortStep
<1>3. /\ s \in Seq(Nodes) /\ d \in Seq(Nodes) /\ Len(s) \in Nat /\ k \in Nat
      /\ Ordered(v) /\ Len(v) = k + Len(s) /\ w \in Nat /\ w # 0
  BY <1>1, <1>2, SortParts DEF SortLabels
<1>4. Merging(v, w, k, p, q, k) /\ p \in 1 .. q /\ q \in 1 .. Len(s) /\ (p # q => p = w)
  BY <1>1, <1>2, SectionsMerging
<1>5. /\ q \in Nat /\ q # 0 /\ k + q <= Len(v) /\ Len(v) \in Nat
      /\ p \in 1 .. Len(s) /\ k + p \in 1 .. Len(v) /\ k + p + 1 = k + (p + 1)
      /\ p # q => p + 1 \in 1 .. Len(s) /\ k + p + 1 \in 1 .. Len(v)
  BY <1>3, <1>4
<1>6. p # q => CompareTokens(v[k + p], v[k + p + 1]) <= 0
  <2> SUFFICES ASSUME p # q PROVE CompareTokens(v[k + p], v[k + p + 1]) <= 0
    OBVIOUS
  <2>1. local.right = NodeAt(s, p + 1) /\ local.leftLast = NodeAt(s, p)
    BY <1>1, <1>2, <1>4 DEF Shape, Cursors
  <2>2. local.right = s[p + 1] /\ local.leftLast = s[p] /\ s[p + 1] # None
    BY <1>3, <1>5, <2>1, CellsAssumption DEF NodeAt
  <2>3. ~(CompareTokens(s[p], s[p + 1]) > 0)
    BY <1>2, <2>2 DEF Presorted
  <2>4. v[k + p] = s[p] /\ v[k + p + 1] = s[p + 1]
    <3>1. \A y \in 1 .. Len(s) : Whole(d, s)[Len(d) + y] = s[y]
      BY <1>3, WholeIs
    <3> QED BY <1>1, <1>5, <3>1
  <2>5. name[v[k + p]] \in Names /\ name[v[k + p + 1]] \in Names
    BY <1>3, <1>5 DEF Ordered, Named, In
  <2>6. CompareTokens(v[k + p], v[k + p + 1]) \in Int
    BY <2>5, CompareIs DEF CompareTokens
  <2> QED BY <2>3, <2>4, <2>6
<1>7. Run(v, k, k + q)
  BY <1>3, <1>4, <1>5, <1>6, MergingPresorted
<1>8. Runs(v, 2 * w, 0, k + q) /\ (k + q # Len(v) => Blocks(v, w, k + q))
  BY <1>3, <1>4, <1>5, <1>7, MergingEnds
<1>9. /\ q \in 1 .. Len(s) /\ pc \in {"section", "merge"} /\ right = local.rightEnd
      /\ w = local.distance /\ v = Whole(d, s)
      /\ Runs(v, 2 * w, 0, Len(d) + q) /\ (Len(d) + q # Len(v) => Blocks(v, w, Len(d) + q))
  BY <1>1, <1>2, <1>4, <1>8
<1> QED BY <1>2, <1>9, JoinSorted

\* What is left of one section when the other is used up.
LEMMA MergeRestSorted ==
    ASSUME NEW f, NEW a, NEW s, NEW d, NEW p, NEW q, Shape(f, a, s, d, p, q), MergeRest,
           NEW base, Merging(Whole(d, s), local.distance, Len(d), p, q, base),
           NEW label, label = pc', NEW l, l = local'
    PROVE  \E s1, d1, p1, q1 : Shape(f, a, s1, d1, p1, q1)' /\ Sorted(label, l, s1, d1, p1, q1, 0)
<1>1. PICK w, k, v, right : w = local.distance /\ k = Len(d) /\ v = Whole(d, s) /\ right = local.right
  OBVIOUS
<1>2. pc = "merge" /\ UsedUp /\ JoinRest(right) /\ SortStep
  <2>1. MergeRest => pc = "merge" /\ UsedUp /\ JoinRest(local.right)
    BY DEF MergeRest
  <2>2. JoinRest(right)
    BY <1>1, <2>1 DEF JoinRest
  <2> QED BY <2>1, <2>2 DEF SortStep
<1>3. /\ s \in Seq(Nodes) /\ d \in Seq(Nodes) /\ Len(s) \in Nat /\ k \in Nat /\ Distinct(s)
      /\ Len(v) = k + Len(s) /\ w \in Nat /\ w # 0
  BY <1>1, <1>2, SortParts DEF SortLabels
<1>4. Merging(v, w, k, p, q, base)
  BY <1>1
<1>5. /\ p \in 0 .. q /\ q \in 1 .. Len(s) /\ local.left = s[1]
      /\ local.right = NodeAt(s, p + 1) /\ local.rightEnd = NodeAt(s, q + 1)
  BY <1>2 DEF Shape, Cursors
<1>6. /\ p \in Nat /\ q \in Nat /\ q # 0 /\ k + q <= Len(v) /\ Len(v) \in Nat
  BY <1>3, <1>5
<1>7. p = 0 \/ p = q
  <2> SUFFICES ASSUME p # 0, p # q PROVE FALSE
    OBVIOUS
  <2>1. p + 1 \in 1 .. Len(s) /\ 1 \in 1 .. Len(s) /\ p + 1 # 1 /\ p + 1 # q + 1
    BY <1>3, <1>5
  <2>2. local.right = s[p + 1] /\ s[p + 1] # None
    BY <1>3, <1>5, <2>1, CellsAssumption DEF NodeAt
  <2>3. s[p + 1] # s[1]
    BY <1>3, <2>1 DEF Distinct
  <2>4. s[p + 1] # NodeAt(s, q + 1)
    BY <1>3, <2>1, <2>2 DEF NodeAt, Distinct
  <2> QED BY <1>2, <1>5, <2>2, <2>3, <2>4 DEF UsedUp
<1>8. Run(v, base, k + q)
  BY <1>3, <1>4, <1>6, <1>7, MergingUsedUp
<1>9. Runs(v, 2 * w, 0, k + q) /\ (k + q # Len(v) => Blocks(v, w, k + q))
  BY <1>3, <1>4, <1>6, <1>8, MergingEnds
<1>10. /\ q \in 1 .. Len(s) /\ pc \in {"section", "merge"}
       /\ (right = local.rightEnd \/ right = local.left)
       /\ w = local.distance /\ v = Whole(d, s)
       /\ Runs(v, 2 * w, 0, Len(d) + q) /\ (Len(d) + q # Len(v) => Blocks(v, w, Len(d) + q))
  BY <1>1, <1>2, <1>5, <1>9 DEF UsedUp
<1> QED BY <1>2, <1>10, JoinSorted

\* The lesser of the first two tokens of the sections goes to dest_list.
LEMMA MergeTokenSorted ==
    ASSUME NEW f, NEW a, NEW s, NEW d, NEW p, NEW q, Shape(f, a, s, d, p, q), MergeToken,
           NEW base, Merging(Whole(d, s), local.distance, Len(d), p, q, base),
           NEW label, label = pc', NEW l, l = local'
    PROVE  \E s1, d1, p1, q1 : Shape(f, a, s1, d1, p1, q1)' /\ Sorted(label, l, s1, d1, p1, q1, base)
<1>1. PICK w, k, v : w = local.distance /\ k = Len(d) /\ v = Whole(d, s)
  OBVIOUS
<1>2. pc = "merge"
  BY DEF MergeToken
<1>3. /\ s \in Seq(Nodes) /\ d \in Seq(Nodes) /\ Len(s) \in Nat /\ k \in Nat
      /\ Ordered(v) /\ Len(v) = k + Len(s) /\ w \in Nat /\ w # 0
  BY <1>1, <1>2, SortParts DEF SortLabels
<1>4. q \in 1 .. Len(s) /\ p \in 1 .. q - 1
  BY MergeTokenShape
<1>5. PICK x \in 1 .. Len(s), p1 \in 0 .. q - 1 :
                 /\ Taken(s, p, x, p1)
                 /\ Shape(f, a, Removed(s, x), Inserted(d, Len(d), s[x]), p1, q - 1)'
                 /\ pc' = "merge" /\ local'.distance = local.distance
  BY MergeTokenShape
<1>6. PICK s1, d1, u : s1 = Removed(s, x) /\ d1 = Inserted(d, Len(d), s[x]) /\ u = Whole(d1, s1)
  OBVIOUS
<1>7. /\ q \in Nat /\ k + q <= Len(v) /\ Len(v) \in Nat /\ 1 \in 1 .. Len(s) /\ p + 1 \in 1 .. Len(s)
      /\ k + p + 1 = k + (p + 1) /\ Len(d) \in 0 .. Len(d) /\ k = Len(d)
  BY <1>1, <1>3, <1>4
<1>8. Rotated(u, v, k + 1, k + x)
  <2>1. Rotated(Whole(Inserted(d, Len(d), s[x]), Removed(s, x)), Whole(d, s), Len(d) + 1, Len(d) + x)
    BY <1>3, <1>7, WholeInserted
  <2> QED BY <1>1, <1>6, <2>1
<1>9. v[k + 1] = s[1] /\ v[k + p + 1] = s[p + 1]
  <2>1. \A y \in 1 .. Len(s) : Whole(d, s)[Len(d) + y] = s[y]
    BY <1>3, <1>7, WholeIs
  <2> QED BY <1>1, <1>7, <2>1
<1>10. Len(d1) = k + 1 /\ d1 \in Seq(Nodes) /\ s1 \in Seq(Nodes)
  <2>1. d \in Seq(Nodes) /\ Len(d) \in 0 .. Len(d) /\ s[x] \in Nodes
    BY <1>3, <1>7
  <2>2. Len(d1) = Len(d) + 1 /\ d1 \in Seq(Nodes)
    BY <1>6, <2>1, InsertedIs
  <2>3. s1 \in Seq(Nodes)
    BY <1>3, <1>6, RemovedIs
  <2> QED BY <1>1, <2>2, <2>3
<1>11. Merging(v, w, k, p, q, base)
  BY <1>1
<1>12. Merging(u, w, k + 1, p1, q - 1, base)
  <2>1. CASE x = 1 /\ p1 = p - 1 /\ CompareTokens(s[1], s[p + 1]) <= 0
    <3>1. u = v
      <4>1. Len(u) = Len(v) /\ \A i \in 1 .. Len(v) : u[i] = v[Was(k + 1, k + 1, i)]
        BY <1>8, <2>1 DEF Rotated
      <4>2. \A i \in 1 .. Len(v) : Was(k + 1, k + 1, i) = i
        BY <1>3 DEF Was
      <4>3. u \in Seq(Nodes)
        BY <1>6, <1>10, WholeIs
      <4>4. v \in Seq(Nodes)
        BY <1>3 DEF Ordered
      <4> QED BY <4>1, <4>2, <4>3, <4>4, SameSequence
    <3>2. CompareTokens(v[k + 1], v[k + p + 1]) <= 0
      BY <1>9, <2>1
    <3>3. Merging(v, w, k + 1, p - 1, q - 1, base)
      BY <1>3, <1>4, <1>7, <1>11, <3>2, MergingLeft
    <3> QED BY <2>1, <3>1, <3>3
  <2>2. CASE x = p + 1 /\ p1 = p /\ ~(CompareTokens(s[1], s[p + 1]) <= 0)
    <3>1. Rotated(u, v, k + 1, k + p + 1)
      BY <1>7, <1>8, <2>2
    <3>2. ~(CompareTokens(v[k + 1], v[k + p + 1]) <= 0)
      BY <1>9, <2>2
    <3>3. Merging(u, w, k + 1, p, q - 1, base)
      BY <1>3, <1>4, <1>7, <1>11, <3>1, <3>2, MergingRight
    <3> QED BY <2>2, <3>3
  <2> QED BY <1>5, <2>1, <2>2 DEF Taken
<1>13. Sorted(label, l, s1, d1, p1, q - 1, base)
  BY <1>1, <1>5, <1>6, <1>10, <1>12 DEF Sorted
<1> QED BY <1>5, <1>6, <1>13

\* The pointers are lists, and the members are sorted as far as the sort has come.
Sorting ==
    \E f, a, s, d, p, q, base, label, l :
        label = pc /\ l = local /\ Shape(f, a, s, d, p, q) /\ Sorted(label, l, s, d, p, q, base)

\* Nothing is sorted.
Unsorted == pc \notin SortLabels \cup {"closed"}

LEMMA NotSorting == Shaped /\ Unsorted => Sorting
<1> SUFFICES ASSUME Shaped, Unsorted PROVE Sorting
  OBVIOUS
<1>1. PICK f, a, s, d, p, q : Shape(f, a, s, d, p, q)
  BY DEF Shaped
<1>2. PICK label, l : label = pc /\ l = local
  OBVIOUS
<1>3. Sorted(label, l, s, d, p, q, 0)
  BY <1>2 DEF Sorted, SortLabels, Unsorted
<1> QED BY <1>1, <1>2, <1>3 DEF Sorting

LEMMA EndPassSorted ==
    ASSUME NEW f, NEW a, NEW s, NEW d, NEW p, NEW q, Shape(f, a, s, d, p, q), EndPass,
           Runs(Whole(d, s), 2 * local.distance, 0, Len(Whole(d, s))),
           NEW label, label = pc', NEW l, l = local'
    PROVE  \E e : Shape(f, a, d, e, p, q)' /\ Sorted(label, l, d, e, p, q, 0)
<1>1. PICK e : e = <<>>
  OBVIOUS
<1>2. /\ s = <<>> /\ Shape(f, a, d, <<>>, p, q)'
      /\ label = "pass" /\ l.distance = 2 * local.distance
  BY EndPassShape
<1>3. Shape(f, a, d, e, p, q)'
  BY <1>1, <1>2
<1>4. pc = "passed"
  BY DEF EndPass
<1>5. d \in Seq(Nodes)
  BY <1>4, SortParts DEF SortLabels
<1>6. Whole(d, s) = Whole(e, d)
  BY <1>1, <1>2, <1>5, WholeOfOne
<1>7. Sorted(label, l, d, e, p, q, 0)
  BY <1>2, <1>6 DEF Sorted
<1> QED BY <1>3, <1>7

LEMMA SortingSort ==
    ASSUME Sorting, SortStep
    PROVE  Sorting'
<1>1. PICK f, a, s, d, p, q, base, label, l :
        label = pc /\ l = local /\ Shape(f, a, s, d, p, q) /\ Sorted(label, l, s, d, p, q, base)
  BY DEF Sorting
<1>2. PICK label1, l1 : label1 = pc' /\ l1 = local'
  OBVIOUS
<1>3. ASSUME NEW s1, NEW d1, NEW p1, NEW q1, NEW b1,
             Shape(f, a, s1, d1, p1, q1)', Sorted(label1, l1, s1, d1, p1, q1, b1)
      PROVE  Sorting'
  <2>1. name' = name /\ order' = order
    <3>1. pc \in SortLabels
      BY DEF SortStep, InsertInBlock, NextBlock, BeginPass, SkipSections, MergeSections,
             MergeToken, MergeRest, EndPass, SortLabels
    <3> QED BY <1>1, <3>1, SortMembers
  <2>2. Sorted(label1, l1, s1, d1, p1, q1, b1)'
    BY <1>3, <2>1, SortedSame
  <2> QED BY <1>2, <1>3, <2>2 DEF Sorting
<1>4. CASE InsertInBlock
  <2>1. Inserting(s, d, local.distance, base, local.i, local.cached, local.cursor)
    BY <1>1, <1>4 DEF InsertInBlock, Sorted
  <2>2. CASE s = <<>>
    <3>1. Shape(f, a, d, <<>>, p, q)'
      BY <1>1, <1>4, <2>2, InsertedAll
    <3>2. Shape(f, a, d, s, p, q)'
      BY <2>2, <3>1
    <3>3. Sorted(label1, l1, d, s, p, q, base)
      BY <1>1, <1>2, <1>4, <2>1, <2>2, InsertedAllSorted
    <3> QED BY <1>3, <3>2, <3>3
  <2>3. CASE s # <<>>
    <3>1. PICK s1, d1 : Shape(f, a, s1, d1, p, q)' /\ Sorted(label1, l1, s1, d1, p, q, base)
      BY <1>1, <1>2, <1>4, <2>1, <2>3, InsertSorted
    <3> QED BY <1>3, <3>1
  <2> QED BY <2>2, <2>3
<1>5. CASE NextBlock
  <2>1. Inserting(s, d, local.distance, base, local.i, local.cached, local.cursor)
    BY <1>1, <1>5 DEF NextBlock, Sorted
  <2>2. Shape(f, a, s, d, p, q)'
    BY <1>1, <1>5, NextBlockShape
  <2>3. Sorted(label1, l1, s, d, p, q, Len(d))
    BY <1>1, <1>2, <1>5, <2>1, NextBlockSorted
  <2> QED BY <1>3, <2>2, <2>3
<1>6. CASE BeginPass
  <2>1. Runs(Whole(d, s), local.distance, 0, Len(Whole(d, s)))
    BY <1>1, <1>6 DEF BeginPass, Sorted
  <2>2. PICK p1, q1 : Shape(f, a, s, d, p1, q1)' /\ Sorted(label1, l1, s, d, p1, q1, 0)
    BY <1>1, <1>2, <1>6, <2>1, BeginPassSorted
  <2> QED BY <1>3, <2>2
<1>7. CASE SkipSections
  <2>1. /\ Blocks(Whole(d, s), local.distance, Len(d)) /\ SectionsOf(s, p, q, local.distance)
        /\ local.leftLast = NodeAt(s, local.distance)
    BY <1>1, <1>7 DEF SkipSections, Sorted
  <2>2. PICK s1, d1, p1, q1 : Shape(f, a, s1, d1, p1, q1)' /\ Sorted(label1, l1, s1, d1, p1, q1, 0)
    BY <1>1, <1>2, <1>7, <2>1, SkipSorted
  <2> QED BY <1>3, <2>2
<1>8. CASE MergeSections
  <2>1. PICK w : w = local.distance
    OBVIOUS
  <2>2. Blocks(Whole(d, s), w, Len(d)) /\ SectionsOf(s, p, q, w)
    BY <1>1, <1>8, <2>1 DEF MergeSections, Sorted
  <2>3. Shape(f, a, s, d, p, q)'
    BY <1>1, <1>8, MergeSectionsShape
  <2>4. Sorted(label1, l1, s, d, p, q, Len(d))
    BY <1>1, <1>2, <1>8, <2>1, <2>2, MergeSectionsSorted
  <2> QED BY <1>3, <2>3, <2>4
<1>9. CASE MergeToken
  <2>1. Merging(Whole(d, s), local.distance, Len(d), p, q, base)
    BY <1>1, <1>9 DEF MergeToken, Sorted
  <2>2. PICK s1, d1, p1, q1 : Shape(f, a, s1, d1, p1, q1)' /\ Sorted(label1, l1, s1, d1, p1, q1, base)
    BY <1>1, <1>2, <1>9, <2>1, MergeTokenSorted
  <2> QED BY <1>3, <2>2
<1>10. CASE MergeRest
  <2>1. Merging(Whole(d, s), local.distance, Len(d), p, q, base)
    BY <1>1, <1>10 DEF MergeRest, Sorted
  <2>2. PICK s1, d1, p1, q1 : Shape(f, a, s1, d1, p1, q1)' /\ Sorted(label1, l1, s1, d1, p1, q1, 0)
    BY <1>1, <1>2, <1>10, <2>1, MergeRestSorted
  <2> QED BY <1>3, <2>2
<1>11. CASE EndPass
  <2>1. Runs(Whole(d, s), 2 * local.distance, 0, Len(Whole(d, s)))
    BY <1>1, <1>11 DEF EndPass, Sorted
  <2>2. PICK e : Shape(f, a, d, e, p, q)' /\ Sorted(label1, l1, d, e, p, q, 0)
    BY <1>1, <1>2, <1>11, <2>1, EndPassSorted
  <2> QED BY <1>3, <2>2
<1> QED BY <1>4, <1>5, <1>6, <1>7, <1>8, <1>9, <1>10, <1>11 DEF SortStep

LEMMA SortingNext == Sorting /\ [Next]_vars => Sorting'
<1> SUFFICES ASSUME Sorting, [Next]_vars PROVE Sorting'
  OBVIOUS
<1>1. PICK f, a, s, d, p, q, base, label, l :
        label = pc /\ l = local /\ Shape(f, a, s, d, p, q) /\ Sorted(label, l, s, d, p, q, base)
  BY DEF Sorting
<1>2. Shaped'
  <2>1. Shaped
    BY <1>1 DEF Shaped
  <2> QED BY <2>1, ShapedNext
<1>3. Unsorted' => Sorting'
  <2>1. Shaped' /\ Unsorted' => Sorting'
    BY NotSorting, PTL
  <2> QED BY <1>2, <2>1
<1>4. Unsorted' \/ CloseObject \/ SortStep \/ UNCHANGED vars
  <2>1. FillPool \/ OpenObject \/ CutName \/ ReadValue \/ (\E n \in Names : ReadName(n)) \/ Reset \/ ResetToken
        => pc' \in {"init", "ready", "members", "reset"}
    BY DEF FillPool, OpenObject, CutName, ReadValue, ReadName, Reset, ResetToken
  <2>2. \A x \in {"init", "ready", "members", "reset"} : x \notin SortLabels \cup {"closed"}
    BY DEF SortLabels
  <2> QED BY <2>1, <2>2 DEF Next, Unsorted
<1>5. CASE CloseObject
  <2>1. PICK o, e, label1, l1 : o = order /\ e = <<>> /\ label1 = pc' /\ l1 = local'
    OBVIOUS
  <2>2. order' = order /\ name' = name
    BY <1>5 DEF CloseObject
  <2>3. Shape(f, a, o, <<>>, p, q)'
    BY <1>1, <1>5, <2>1, <2>2, CloseObjectShape
  <2>4. Sorted(label1, l1, o, <<>>, p, q, 0)
    BY <1>1, <1>5, <2>1, CloseSorted
  <2>5. Shape(f, a, o, e, p, q)' /\ Sorted(label1, l1, o, e, p, q, 0)
    BY <2>1, <2>3, <2>4
  <2>6. Sorted(label1, l1, o, e, p, q, 0)'
    BY <2>2, <2>5, SortedSame
  <2> QED BY <2>1, <2>5, <2>6 DEF Sorting
<1>6. CASE SortStep
  BY <1>6, SortingSort
<1>7. CASE UNCHANGED vars
  <2>1. Shape(f, a, s, d, p, q)'
    BY <1>1, <1>7 DEF vars, Shape, PoolShape, Members, Lists, Cursors, Covers, Loose, SortLabels, In
  <2>2. name' = name /\ order' = order /\ label = pc' /\ l = local'
    BY <1>1, <1>7 DEF vars
  <2>3. Sorted(label, l, s, d, p, q, base)'
    BY <1>1, <2>2, SortedSame
  <2> QED BY <2>1, <2>2, <2>3 DEF Sorting
<1> QED BY <1>3, <1>4, <1>5, <1>6, <1>7

LEMMA SortingAlways == Spec => []Sorting
<1>1. Init => Sorting
  <2>1. Init => Unsorted
    BY DEF Init, SortLabels, Unsorted
  <2> QED BY <2>1, ShapedInit, NotSorting
<1> QED BY <1>1, SortingNext, PTL DEF Spec

-----------------------------------------------------------------------------
(* nmjson_object_token. *)

\* The search ends at the first name that is not less.
SearchedUpTo(n, s, k) ==
    /\ k \in 1 .. Len(s) + 1
    /\ \A i \in 1 .. Len(s) : i < k => Compare(n, name[s[i]]) > 0
    /\ k # Len(s) + 1 => Compare(n, name[s[k]]) <= 0

LEMMA ObjectTokenIs ==
    ASSUME NEW n \in Names, NEW s, Acyclic(sib), Behind(sib, "o", s),
           \A i \in 1 .. Len(s) : name[s[i]] \in Names
    PROVE  \E k : /\ SearchedUpTo(n, s, k)
                  /\ ObjectToken(n) = IF k # Len(s) + 1 /\ Compare(n, name[s[k]]) = 0 THEN s[k] ELSE None
<1> DEFINE T(c) == sib.next[c]
           C(c) == IF T(c) = None THEN 0
                   ELSE IF n[1] # name[T(c)][1] THEN n[1] - name[T(c)][1]
                   ELSE n[2] - name[T(c)][2]
           Body(f) == [c \in Cells |-> IF T(c) = None \/ C(c) < 0 THEN None
                                       ELSE IF C(c) > 0 THEN f[T(c)] ELSE T(c)]
           F == CHOOSE f : f = Body(f)
           S == Nodes \cup {None}
<1>0. PICK rank : Descends(sib, rank)
  BY DEF Acyclic
<1>1. /\ \A c \in Cells : T(c) \in S
      /\ None \notin Nodes /\ Nodes \subseteq Cells
  BY CellsAssumption DEF Behind, Links, Cells
<1>2. \E f : f = Body(f)
  <2> DEFINE onward(c) == IF T(c) = None THEN c ELSE T(c)
             found(c) == IF T(c) = None \/ C(c) < 0 THEN None ELSE T(c)
             stop == {c \in Cells : T(c) = None \/ C(c) < 0 \/ ~(C(c) > 0)}
             base == [c \in Cells |-> found(c)]
             next == [c \in Cells |-> onward(c)]
             l == [stop |-> stop, base |-> base, next |-> next, rank |-> rank]
  <2> HIDE DEF C
  <2>1. \A c \in Cells : onward(c) \in Cells /\ found(c) \in S
    BY <1>1
  <2>2. stop \in SUBSET Cells /\ base \in [Cells -> S] /\ next \in [Cells -> Cells]
    <3> HIDE DEF onward, found
    <3> QED BY <2>1
  <2>3. \A c \in Cells : /\ c \in stop <=> T(c) = None \/ C(c) < 0 \/ ~(C(c) > 0)
                         /\ base[c] = IF T(c) = None \/ C(c) < 0 THEN None ELSE T(c)
                         /\ T(c) # None => next[c] = T(c)
    OBVIOUS
  <2>4. l \in Iterations(Cells, S)
    <3>1. \A c \in Cells \ stop : rank[next[c]] < rank[c]
      <4> HIDE DEF stop, next
      <4> QED BY <1>0, <2>3 DEF Descends
    <3>2. rank \in [Cells -> Nat]
      BY <1>0 DEF Descends
    <3>3. l = [stop |-> stop, base |-> base, next |-> next, rank |-> rank]
      OBVIOUS
    <3> HIDE DEF l, stop, next, base
    <3> QED BY <2>2, <3>1, <3>2, <3>3 DEF Iterations
  <2>5. l.stop = stop /\ l.base = base /\ l.next = next
    OBVIOUS
  <2> HIDE DEF l, stop, next, base
  <2>6. PICK f : f \in Outcomes(Cells, S, l)
    BY <2>4, IterationDefined
  <2>7. f \in [Cells -> S] /\ \A c \in Cells : f[c] = IF c \in stop THEN base[c] ELSE f[next[c]]
    BY <2>5, <2>6 DEF Outcomes
  <2>8. \A c \in Cells : f[c] = IF T(c) = None \/ C(c) < 0 THEN None
                                ELSE IF C(c) > 0 THEN f[T(c)] ELSE T(c)
    <3> HIDE DEF T
    <3> QED BY <2>3, <2>7
  <2>9. f = Body(f)
    BY <2>7, <2>8
  <2> QED BY <2>9
<1>3. F = Body(F)
  <2> HIDE DEF Body
  <2> QED BY <1>2
<1>4. ObjectToken(n) = F["o"]
  BY DEF ObjectToken
<1> HIDE DEF F
<1>5. \A c \in Cells : F[c] = IF T(c) = None \/ C(c) < 0 THEN None
                              ELSE IF C(c) > 0 THEN F[T(c)] ELSE T(c)
  <2> HIDE DEF C, T
  <2> QED BY <1>3
<1>6. s \in Seq(Nodes) /\ Len(s) \in Nat
      /\ \A i \in 1 .. Len(s) : s[i] \in Nodes /\ s[i] # None
  BY <1>1 DEF Behind
<1>7. \A i \in 0 .. Len(s) : CellAt("o", s, i) \in Cells /\ T(CellAt("o", s, i)) = NodeAt(s, i + 1)
  <2>1. \A i \in 0 .. Len(s) : i = 0 \/ i \in 1 .. Len(s)
    BY <1>6
  <2> QED BY <1>1, <1>6, <2>1 DEF Behind, CellAt
<1>8. ASSUME NEW i \in 1 .. Len(s)
      PROVE  /\ CellAt("o", s, i - 1) \in Cells /\ T(CellAt("o", s, i - 1)) = s[i]
             /\ C(CellAt("o", s, i - 1)) = Compare(n, name[s[i]])
             /\ Compare(n, name[s[i]]) \in Int
  <2>1. i - 1 \in 0 .. Len(s) /\ (i - 1) + 1 = i
    BY <1>6
  <2>2. CellAt("o", s, i - 1) \in Cells /\ T(CellAt("o", s, i - 1)) = s[i] /\ s[i] # None
    BY <1>6, <1>7, <2>1 DEF NodeAt
  <2>3. C(CellAt("o", s, i - 1)) = Compare(n, name[s[i]])
    BY <2>2 DEF Compare
  <2>4. Compare(n, name[s[i]]) \in Int
    BY CompareIs
  <2> QED BY <2>2, <2>3, <2>4
<1> HIDE DEF C, T
<1>9. PICK k : SearchedUpTo(n, s, k)
  <2> DEFINE ends == {i \in 1 .. Len(s) + 1 : i # Len(s) + 1 => Compare(n, name[s[i]]) <= 0}
  <2>1. ends \subseteq Nat /\ Len(s) + 1 \in ends
    BY <1>6
  <2>2. PICK k \in ends : \A j \in ends : k <= j
    <3> HIDE DEF ends
    <3> QED BY <2>1, Least
  <2>3. ASSUME NEW i \in 1 .. Len(s), i < k PROVE Compare(n, name[s[i]]) > 0
    <3>1. i \notin ends
      BY <1>6, <2>2, <2>3
    <3>2. ~(Compare(n, name[s[i]]) <= 0)
      BY <1>6, <3>1
    <3> QED BY <1>8, <3>2
  <2> QED BY <2>2, <2>3 DEF SearchedUpTo
<1>10. k \in 1 .. Len(s) + 1 /\ k - 1 \in 0 .. Len(s)
  BY <1>6, <1>9 DEF SearchedUpTo
<1>11. F["o"] = F[CellAt("o", s, k - 1)]
  <2> DEFINE wrong == {i \in 0 .. k - 1 : F[CellAt("o", s, i)] # F["o"]}
  <2> SUFFICES ASSUME wrong # {} PROVE FALSE
    BY <1>6, <1>10
  <2>1. wrong \subseteq Nat
    BY <1>6, <1>10
  <2>2. PICK i \in wrong : \A j \in wrong : i <= j
    <3> HIDE DEF wrong
    <3> QED BY <2>1, Least
  <2>3. i # 0
    BY <2>2 DEF CellAt
  <2>4. i \in 1 .. Len(s) /\ i < k /\ i - 1 \in 0 .. k - 1 /\ ~(i <= i - 1) /\ i # 0
    BY <1>6, <1>10, <2>2, <2>3
  <2>5. F[CellAt("o", s, i - 1)] = F["o"]
    BY <2>2, <2>4
  <2>6. Compare(n, name[s[i]]) > 0
    BY <1>9, <2>4 DEF SearchedUpTo
  <2>7. F[CellAt("o", s, i - 1)] = F[s[i]]
    <3>1. C(CellAt("o", s, i - 1)) > 0 /\ ~(C(CellAt("o", s, i - 1)) < 0)
      BY <1>8, <2>4, <2>6
    <3>2. T(CellAt("o", s, i - 1)) = s[i] /\ s[i] # None /\ CellAt("o", s, i - 1) \in Cells
      BY <1>6, <1>8, <2>4
    <3> QED BY <1>5, <3>1, <3>2
  <2>8. CellAt("o", s, i) = s[i]
    BY <2>4 DEF CellAt
  <2> QED BY <2>2, <2>5, <2>7, <2>8
<1>12. CASE k = Len(s) + 1
  <2>1. k - 1 = Len(s) /\ Len(s) \in 0 .. Len(s) /\ Len(s) + 1 \notin 1 .. Len(s)
    BY <1>6, <1>12
  <2>2. T(CellAt("o", s, k - 1)) = None /\ CellAt("o", s, k - 1) \in Cells
    BY <1>7, <2>1 DEF NodeAt
  <2>3. F["o"] = None
    BY <1>5, <1>11, <2>2
  <2> QED BY <1>4, <1>9, <1>12, <2>3
<1>13. CASE k # Len(s) + 1
  <2>1. k \in 1 .. Len(s)
    BY <1>6, <1>10, <1>13
  <2>2. /\ CellAt("o", s, k - 1) \in Cells /\ T(CellAt("o", s, k - 1)) = s[k] /\ s[k] # None
        /\ C(CellAt("o", s, k - 1)) = Compare(n, name[s[k]])
        /\ Compare(n, name[s[k]]) \in Int
    BY <1>6, <1>8, <2>1
  <2>3. Compare(n, name[s[k]]) <= 0
    BY <1>9, <1>13 DEF SearchedUpTo
  <2>4. CASE Compare(n, name[s[k]]) = 0
    <3>1. ~(C(CellAt("o", s, k - 1)) < 0) /\ ~(C(CellAt("o", s, k - 1)) > 0)
      BY <2>2, <2>4
    <3>2. F["o"] = s[k]
      BY <1>5, <1>11, <2>2, <3>1
    <3> QED BY <1>4, <1>9, <1>13, <2>4, <3>2
  <2>5. CASE Compare(n, name[s[k]]) # 0
    <3>1. C(CellAt("o", s, k - 1)) < 0
      BY <2>2, <2>3, <2>5
    <3>2. F["o"] = None
      BY <1>5, <1>11, <2>2, <3>1
    <3> QED BY <1>4, <1>9, <2>5, <3>2
  <2> QED BY <2>4, <2>5
<1> QED BY <1>12, <1>13

\* What the search finds has the name.
LEMMA FoundHasName ==
    ASSUME Named, NEW n \in Names, NEW s, Acyclic(sib), Behind(sib, "o", s),
           \A i \in 1 .. Len(s) : In(s[i], order)
    PROVE  \E k : /\ SearchedUpTo(n, s, k)
                  /\ ObjectToken(n) = IF k # Len(s) + 1 /\ name[s[k]] = n THEN s[k] ELSE None
<1>1. \A i \in 1 .. Len(s) : name[s[i]] \in Names
  BY DEF Named, In
<1>2. PICK k : /\ SearchedUpTo(n, s, k)
               /\ ObjectToken(n) = IF k # Len(s) + 1 /\ Compare(n, name[s[k]]) = 0 THEN s[k] ELSE None
  BY <1>1, ObjectTokenIs
<1>3. k # Len(s) + 1 => (Compare(n, name[s[k]]) = 0 <=> name[s[k]] = n)
  <2>1. Len(s) \in Nat
    BY DEF Behind
  <2>2. k # Len(s) + 1 => k \in 1 .. Len(s)
    BY <1>2, <2>1 DEF SearchedUpTo
  <2> QED BY <1>1, <2>2, CompareIs
<1> QED BY <1>2, <1>3

\* The search of a closed object.
LEMMA FoundFirst ==
    ASSUME Named, NEW n \in Names, NEW s, Len(s) \in Nat, Run(s, 0, Len(s)),
           \A i \in 1 .. Len(s) : In(s[i], order),
           NEW k, SearchedUpTo(n, s, k), NEW j \in 1 .. Len(s), name[s[j]] = n
    PROVE  k \in 1 .. j /\ name[s[k]] = n /\ (k # j => Earlier(s[k], s[j]))
<1>1. k \in 1 .. Len(s) + 1
  BY DEF SearchedUpTo
<1>2. Compare(n, name[s[j]]) = 0
  BY CompareIs
<1>3. k <= j
  <2> SUFFICES ASSUME ~(k <= j) PROVE FALSE
    OBVIOUS
  <2>1. j < k
    BY <1>1
  <2>2. Compare(n, name[s[j]]) > 0
    BY <2>1 DEF SearchedUpTo
  <2> QED BY <1>2, <2>2
<1>4. CASE k = j
  BY <1>4
<1>5. CASE k # j
  <2>1. k \in 1 .. Len(s) /\ k < j /\ 0 < k /\ k # Len(s) + 1
    BY <1>1, <1>3, <1>5
  <2>2. Less(s[k], s[j])
    BY <2>1 DEF Run
  <2>3. In(s[k], order) /\ In(s[j], order)
    BY <2>1
  <2>4. name[s[k]] \in Names
    BY <2>3 DEF Named, In
  <2>5. PICK m \in Names : m = name[s[k]]
    BY <2>4
  <2>6. Compare(n, m) <= 0
    BY <2>1, <2>5 DEF SearchedUpTo
  <2>7. CompareTokens(s[k], s[j]) = Compare(m, n)
    BY <2>5 DEF CompareTokens
  <2>8. Compare(m, n) <= 0
    BY <2>2, <2>3, <2>7, LessByName
  <2>9. Compare(n, m) = 0 /\ Compare(m, n) = 0 /\ n = m
    BY <2>6, <2>8, CompareIs
  <2>10. Earlier(s[k], s[j])
    BY <2>2, <2>7, <2>9 DEF Less
  <2> QED BY <1>3, <2>1, <2>5, <2>9, <2>10
<1> QED BY <1>1, <1>3, <1>4, <1>5

LEMMA SortingLookup == Sorting => LookupExact
<1> SUFFICES ASSUME Sorting, NEW n \in Names
             PROVE  LET read == {i \in DOMAIN order : name[order[i]] = n}
                        first == {i \in read : \A j \in read : i <= j}
                    IN  /\ pc = "closed" =>
                              ObjectToken(n) = IF read = {} THEN None
                                               ELSE order[CHOOSE i \in first : TRUE]
                        /\ pc = "members" => ObjectToken(n) \in {None} \cup {order[i] : i \in read}
  BY DEF LookupExact
<1>1. PICK f, a, s, d, p, q, base, label, l :
        label = pc /\ l = local /\ Shape(f, a, s, d, p, q) /\ Sorted(label, l, s, d, p, q, base)
  BY DEF Sorting
<1> DEFINE read == {i \in DOMAIN order : name[order[i]] = n}
           first == {i \in read : \A j \in read : i <= j}
<1>2. Named /\ Len(order) \in Nat /\ DOMAIN order = 1 .. Len(order)
  BY <1>1 DEF Shape, Members, Named
<1> SUFFICES ASSUME pc \in {"members", "closed"}
             PROVE  /\ pc = "closed" =>
                          ObjectToken(n) = IF read = {} THEN None
                                           ELSE order[CHOOSE i \in first : TRUE]
                    /\ pc = "members" => ObjectToken(n) \in {None} \cup {order[i] : i \in read}
  OBVIOUS
<1>3. TwoLists(sib, "o", s, "dest", d) /\ Covers(s, d) /\ d = <<>>
  BY <1>1 DEF Shape, Lists
<1>4. Acyclic(sib) /\ Behind(sib, "o", s)
  BY <1>3, ListsRead
<1>5. s \in Seq(Nodes) /\ Len(s) \in Nat
  BY <1>3, HeadOf
<1>6. \A t \in Tokens : In(t, s) <=> In(t, order)
  <2>1. \A t : ~In(t, d)
    BY <1>3, EmptyIn, Zenon
  <2> QED BY <1>3, <2>1 DEF Covers
<1>7. \A i \in 1 .. Len(s) : In(s[i], order)
  BY <1>5, <1>6, HeadsAre DEF In
<1>8. PICK k : /\ SearchedUpTo(n, s, k)
               /\ ObjectToken(n) = IF k # Len(s) + 1 /\ name[s[k]] = n THEN s[k] ELSE None
  BY <1>2, <1>4, <1>7, FoundHasName
<1>9. \A j \in 1 .. Len(s) : name[s[j]] = n => \E i \in read : order[i] = s[j]
  BY <1>2, <1>7 DEF In
<1>10. \A i \in read : \E j \in 1 .. Len(s) : s[j] = order[i]
  <2> TAKE i \in read
  <2>1. order[i] \in Tokens /\ In(order[i], order)
    BY <1>2 DEF Named, In
  <2> QED BY <1>6, <2>1 DEF In
<1>11. k # Len(s) + 1 => k \in 1 .. Len(s)
  BY <1>5, <1>8 DEF SearchedUpTo
<1>12. ObjectToken(n) \in {None} \cup {order[i] : i \in read}
  BY <1>8, <1>9, <1>11
<1>13. ASSUME pc = "closed", read = {} PROVE ObjectToken(n) = None
  BY <1>8, <1>9, <1>11, <1>13
<1>14. ASSUME pc = "closed", read # {} PROVE ObjectToken(n) = order[CHOOSE i \in first : TRUE]
  <2>1. read \subseteq Nat
    BY <1>2
  <2>2. PICK i \in read : \A j \in read : i <= j
    <3> HIDE DEF read
    <3> QED BY <1>14, <2>1, Least
  <2>3. PICK c : c = CHOOSE x \in first : TRUE
    OBVIOUS
  <2>4. c \in first
    <3>1. i \in first
      BY <2>2
    <3> HIDE DEF first
    <3> QED BY <2>3, <3>1
  <2>5. c \in read /\ \A x \in read : c <= x
    BY <2>4
  <2>6. PICK j \in 1 .. Len(s) : s[j] = order[c]
    BY <1>10, <2>5
  <2>7. name[s[j]] = n
    BY <2>5, <2>6
  <2>8. Run(s, 0, Len(s))
    <3>1. Run(Whole(d, s), 0, Len(Whole(d, s)))
      BY <1>1, <1>14 DEF Sorted
    <3>2. Whole(d, s) = s
      BY <1>3, <1>5, WholeOfOne
    <3> QED BY <3>1, <3>2
  <2>9. k \in 1 .. j /\ name[s[k]] = n /\ (k # j => Earlier(s[k], s[j]))
    BY <1>2, <1>5, <1>7, <1>8, <2>7, <2>8, FoundFirst
  <2>10. k = j
    <3> SUFFICES ASSUME k # j PROVE FALSE
      OBVIOUS
    <3>1. PICK x, y \in 1 .. Len(order) : x < y /\ order[x] = s[k] /\ order[y] = s[j]
      BY <2>9 DEF Earlier
    <3>2. y = c
      BY <1>2, <2>5, <2>6, <3>1 DEF Named, Distinct
    <3>3. x \in read
      BY <1>2, <2>9, <3>1
    <3>4. c <= x /\ c \in Nat /\ x \in Nat
      BY <2>1, <2>5, <3>3
    <3> QED BY <3>1, <3>2, <3>4
  <2>11. k # Len(s) + 1
    BY <1>5, <2>10
  <2>12. ObjectToken(n) = order[c]
    BY <1>8, <2>6, <2>9, <2>10, <2>11
  <2> QED BY <2>3, <2>12
<1> QED BY <1>12, <1>13, <1>14

\* nmjson_object_token: the sort puts the members so that the search, which gives
\* up at the first greater name, finds the one that was read first under the name.
THEOREM LookupIsExact == Spec => []LookupExact
BY SortingAlways, SortingLookup, PTL

-----------------------------------------------------------------------------
(* The lists implement TokenStore.tla. *)

\* What the store is mapped to: two stacks, and the members with their names.
Free == Chain(alloc, "free")
Active == Chain(alloc, "active")
Held == WithNames(IF pc \in {"members", "closed"} THEN Chain(sib, "o") ELSE order)

Pairs(s, nm) == [i \in DOMAIN s |-> [token |-> s[i], name |-> nm[s[i]]]]

LEMMA InsertedFirst ==
    ASSUME NEW s \in Seq(Nodes), NEW x \in Nodes
    PROVE  Inserted(s, 0, x) = <<x>> \o s
<1>1. PICK t : t = Inserted(s, 0, x)
  OBVIOUS
<1>2. 0 \in 0 .. Len(s) /\ Len(s) \in Nat
  OBVIOUS
<1>3. t \in Seq(Nodes) /\ Len(t) = Len(s) + 1
      /\ \A i \in 1 .. Len(s) + 1 : t[i] = IF i <= 0 THEN s[i] ELSE IF i = 0 + 1 THEN x ELSE s[i - 1]
  BY <1>1, <1>2, InsertedIs
<1>4. PICK u : u = <<x>> \o s
  OBVIOUS
<1>5. u \in Seq(Nodes) /\ Len(u) = Len(s) + 1
      /\ \A i \in 1 .. Len(s) + 1 : u[i] = IF i = 1 THEN x ELSE s[i - 1]
  <2>1. <<x>> \in Seq(Nodes) /\ Len(<<x>>) = 1 /\ <<x>>[1] = x
    OBVIOUS
  <2>2. u \in Seq(Nodes) /\ Len(u) = 1 + Len(s)
        /\ \A i \in 1 .. 1 + Len(s) : u[i] = IF i <= 1 THEN <<x>>[i] ELSE s[i - 1]
    BY <1>4, <2>1, ConcatProperties
  <2>3. \A i \in 1 .. Len(s) + 1 : i <= 1 <=> i = 1
    OBVIOUS
  <2> QED BY <1>2, <2>1, <2>2, <2>3
<1>6. \A i \in 1 .. Len(s) + 1 : t[i] = u[i]
  BY <1>2, <1>3, <1>5
<1>7. t = u
  BY <1>3, <1>5, <1>6, SameSequence
<1> QED BY <1>1, <1>4, <1>7

LEMMA RemovedFirst ==
    ASSUME NEW s \in Seq(Nodes), s # <<>>
    PROVE  /\ Removed(s, 1) = Tail(s) /\ s[1] = Head(s) /\ 1 \in 1 .. Len(s)
           /\ Head(s) \in Nodes /\ Tail(s) \in Seq(Nodes) /\ <<Head(s)>> \o Tail(s) = s
<1>1. PICK t : t = Removed(s, 1)
  OBVIOUS
<1>2. 1 \in 1 .. Len(s) /\ Len(s) \in Nat
  OBVIOUS
<1>3. t \in Seq(Nodes) /\ Len(t) = Len(s) - 1
      /\ \A i \in 1 .. Len(s) - 1 : t[i] = IF i < 1 THEN s[i] ELSE s[i + 1]
  BY <1>1, <1>2, RemovedIs
<1>4. PICK u : u = Tail(s)
  OBVIOUS
<1>5. u \in Seq(Nodes) /\ Len(u) = Len(s) - 1 /\ \A i \in 1 .. Len(s) - 1 : u[i] = s[i + 1]
  BY <1>2, <1>4
<1>6. \A i \in 1 .. Len(s) - 1 : t[i] = u[i]
  BY <1>2, <1>3, <1>5
<1>7. Len(t) = Len(u) /\ \A i \in 1 .. Len(t) : t[i] = u[i]
  BY <1>3, <1>5, <1>6
<1>8. t = u
  BY <1>3, <1>5, <1>7, SameSequence
<1>9. s[1] = Head(s) /\ s[1] \in Nodes
  BY <1>2
<1>10. PICK y : y = s[1]
  OBVIOUS
<1>11. PICK v : v = <<y>> \o u
  OBVIOUS
<1>12. v \in Seq(Nodes) /\ Len(v) = Len(s) /\ \A i \in 1 .. Len(s) : v[i] = s[i]
  <2>1. <<y>> \in Seq(Nodes) /\ Len(<<y>>) = 1 /\ <<y>>[1] = y
    BY <1>9, <1>10
  <2>2. v \in Seq(Nodes) /\ Len(v) = 1 + Len(u)
        /\ \A i \in 1 .. 1 + Len(u) : v[i] = IF i <= 1 THEN <<y>>[i] ELSE u[i - 1]
    BY <1>5, <1>11, <2>1, ConcatProperties
  <2>3. \A i \in 1 .. Len(s) : (i <= 1 => i = 1) /\ (~(i <= 1) => i - 1 \in 1 .. Len(s) - 1 /\ (i - 1) + 1 = i)
    BY <1>2
  <2>4. 1 + Len(u) = Len(s)
    BY <1>2, <1>5
  <2> QED BY <1>5, <1>10, <2>1, <2>2, <2>3, <2>4
<1>13. v = s
  BY <1>12, SameSequence
<1> QED BY <1>1, <1>2, <1>4, <1>5, <1>8, <1>9, <1>10, <1>11, <1>13

\* The head of one list becomes the head of the other.
LEMMA StackMoves ==
    ASSUME NEW h, NEW x, NEW s, NEW y, NEW d, TwoLists(h, x, s, y, d), s # <<>>,
           NEW g, g = InsertAfter(Pop(h, x), y, h.next[x])
    PROVE  /\ h.next[x] = Head(s) /\ Head(s) \in Nodes /\ ~In(Head(s), d)
           /\ Pop(h, x) = Del(h, Head(s))
           /\ TwoLists(g, x, Tail(s), y, <<Head(s)>> \o d)
<1>1. s \in Seq(Nodes) /\ d \in Seq(Nodes) /\ Len(d) \in Nat
  BY HeadOf
<1>2. PICK n : n = s[1]
  OBVIOUS
<1>3. /\ Removed(s, 1) = Tail(s) /\ n = Head(s) /\ 1 \in 1 .. Len(s) /\ n \in Nodes
  BY <1>1, <1>2, RemovedFirst
<1>4. h.next[x] = n /\ Pop(h, x) = Del(h, n)
  BY <1>2, PopIsDel
<1>5. 0 \in 0 .. Len(d) /\ CellAt(y, d, 0) = y
  BY <1>1 DEF CellAt
<1>6. /\ TwoLists(InsertAfter(Del(h, s[1]), CellAt(y, d, 0), s[1]), x, Removed(s, 1), y, Inserted(d, 0, s[1]))
      /\ ~In(s[1], d)
  BY <1>3, <1>5, MoveNode
<1>7. Inserted(d, 0, n) = <<n>> \o d
  BY <1>1, <1>3, InsertedFirst
<1>8. g = InsertAfter(Del(h, n), y, n)
  BY <1>4
<1> QED BY <1>2, <1>3, <1>4, <1>5, <1>6, <1>7, <1>8

LEMMA PairsSame ==
    ASSUME NEW s, NEW m, NEW n, \A i \in DOMAIN s : m[s[i]] = n[s[i]]
    PROVE  Pairs(s, m) = Pairs(s, n)
BY DEF Pairs

\* Until the object closes, the store has its members as they were read.
HeldAsRead ==
    /\ pc # "closed" => Held = Pairs(order, name)
    /\ pc \in {"init", "ready", "reset"} => order = <<>>
    /\ order \in Seq(Nodes) /\ Named

LEMMA ShapedHeld == Shaped => HeldAsRead
<1> SUFFICES ASSUME Shaped PROVE HeldAsRead
  OBVIOUS
<1>1. PICK f, a, s, d, p, q : Shape(f, a, s, d, p, q)
  BY DEF Shaped
<1>2. Named /\ (pc \in {"init", "ready", "reset"} => order = <<>>) /\ order \in Seq(Nodes)
  BY <1>1 DEF Shape, Members, Named, Tokens
<1>3. ASSUME pc # "closed" PROVE Held = Pairs(order, name)
  <2>1. CASE pc = "members"
    <3>1. TwoLists(sib, "o", s, "dest", d) /\ s = order
      BY <1>1, <2>1 DEF Shape, Lists
    <3>2. Chain(sib, "o") = order
      BY <3>1, ListsRead
    <3> QED BY <2>1, <3>2 DEF Held, WithNames, Pairs
  <2>2. CASE pc # "members"
    BY <1>3, <2>2 DEF Held, WithNames, Pairs
  <2> QED BY <2>1, <2>2
<1> QED BY <1>2, <1>3 DEF HeldAsRead

\* When it is closed, the store has them sorted.
HeldSorted ==
    pc = "closed" =>
        \E s \in Seq(Nodes) :
            /\ Held = Pairs(s, name) /\ Len(s) = Len(order)
            /\ \A t \in Tokens : In(t, s) <=> In(t, order)
            /\ Run(s, 0, Len(s))

LEMMA SortingHeld == Sorting => HeldSorted
<1> SUFFICES ASSUME Sorting, pc = "closed"
             PROVE  \E s \in Seq(Nodes) :
                        /\ Held = Pairs(s, name) /\ Len(s) = Len(order)
                        /\ \A t \in Tokens : In(t, s) <=> In(t, order)
                        /\ Run(s, 0, Len(s))
  BY DEF HeldSorted
<1>1. PICK f, a, s, d, p, q, base, label, l :
        label = pc /\ l = local /\ Shape(f, a, s, d, p, q) /\ Sorted(label, l, s, d, p, q, base)
  BY DEF Sorting
<1>2. TwoLists(sib, "o", s, "dest", d) /\ Covers(s, d) /\ d = <<>>
  BY <1>1 DEF Shape, Lists
<1>3. s \in Seq(Nodes) /\ Len(s) \in Nat
  BY <1>2, HeadOf
<1>4. Held = Pairs(s, name)
  <2>1. Chain(sib, "o") = s
    BY <1>2, ListsRead
  <2> QED BY <2>1 DEF Held, WithNames, Pairs
<1>5. (\A t : ~In(t, d)) /\ Len(d) = 0
  BY <1>2, EmptyIn, Zenon
<1>6. Len(s) = Len(order)
  <2>1. Len(s) + Len(d) = Len(order)
    BY <1>2 DEF Covers
  <2> QED BY <1>3, <1>5, <2>1
<1>7. \A t \in Tokens : In(t, s) <=> In(t, order)
  BY <1>2, <1>5 DEF Covers
<1>8. Run(s, 0, Len(s))
  <2>1. Run(Whole(d, s), 0, Len(Whole(d, s)))
    BY <1>1 DEF Sorted
  <2>2. Whole(d, s) = s
    BY <1>2, <1>3, WholeOfOne
  <2> QED BY <2>1, <2>2
<1> QED BY <1>3, <1>4, <1>6, <1>7, <1>8

\* What sorts the members is a sort of the store.
LEMMA RunIsStable ==
    ASSUME Named, order \in Seq(Nodes), NEW s \in Seq(Nodes), Len(s) = Len(order),
           \A t \in Tokens : In(t, s) <=> In(t, order), Run(s, 0, Len(s)),
           NEW x, x = Pairs(s, name), NEW y, y = Pairs(order, name)
    PROVE  x \in [DOMAIN y -> Store!Range(y)] /\ Store!StableSorted(x, y)
<1>1. PICK n \in Nat : n = Len(s) /\ n = Len(order) /\ DOMAIN s = 1 .. n /\ DOMAIN order = 1 .. n
  OBVIOUS
<1>2. /\ DOMAIN x = 1 .. n /\ DOMAIN y = 1 .. n
      /\ \A i \in 1 .. n : x[i] = [token |-> s[i], name |-> name[s[i]]]
      /\ \A i \in 1 .. n : y[i] = [token |-> order[i], name |-> name[order[i]]]
  BY <1>1 DEF Pairs
<1>3. Len(x) = n /\ Len(y) = n /\ x = [i \in 1 .. n |-> x[i]]
  BY <1>1, <1>2 DEF Pairs
<1>4. \A i \in 1 .. n : s[i] \in Tokens /\ order[i] \in Tokens
  BY <1>1, HeadsAre
<1>5. \A i \in 1 .. n : \E j \in 1 .. n : order[j] = s[i]
  <2> TAKE i \in 1 .. n
  <2>1. In(s[i], s)
    BY <1>1 DEF In
  <2> QED BY <1>1, <1>4, <2>1 DEF In
<1>6. \A i \in 1 .. n : \E j \in 1 .. n : s[j] = order[i]
  <2> TAKE i \in 1 .. n
  <2>1. In(order[i], order)
    BY <1>1 DEF In
  <2> QED BY <1>1, <1>4, <2>1 DEF In
<1>7. \A i \in 1 .. n : \E j \in 1 .. n : y[j] = x[i]
  <2> TAKE i \in 1 .. n
  <2>1. PICK j \in 1 .. n : order[j] = s[i]
    BY <1>5
  <2>2. y[j] = x[i]
    BY <1>2, <2>1
  <2> QED BY <2>2
<1>8. \A i \in 1 .. n : \E j \in 1 .. n : x[j] = y[i]
  <2> TAKE i \in 1 .. n
  <2>1. PICK j \in 1 .. n : s[j] = order[i]
    BY <1>6
  <2>2. x[j] = y[i]
    BY <1>2, <2>1
  <2> QED BY <2>2
<1>9. Store!Range(y) = {y[i] : i \in 1 .. n} /\ Store!Range(x) = {x[i] : i \in 1 .. n}
  BY <1>2 DEF Store!Range
<1>10. x \in [DOMAIN y -> Store!Range(y)]
  <2>1. \A i \in 1 .. n : x[i] \in Store!Range(y)
    BY <1>7, <1>9
  <2> QED BY <1>2, <1>3, <2>1
<1>11. Store!Range(x) = Store!Range(y)
  <2>1. ASSUME NEW e \in Store!Range(x) PROVE e \in Store!Range(y)
    <3>1. PICK i \in 1 .. n : e = x[i]
      BY <1>9
    <3> QED BY <1>7, <1>9, <3>1
  <2>2. ASSUME NEW e \in Store!Range(y) PROVE e \in Store!Range(x)
    <3>1. PICK i \in 1 .. n : e = y[i]
      BY <1>9
    <3> QED BY <1>8, <1>9, <3>1
  <2> QED BY <2>1, <2>2, Zenon
<1>12. ASSUME NEW i \in 1 .. n, NEW j \in 1 .. n, i < j
       PROVE  \/ NameBefore(x[i].name, x[j].name)
              \/ /\ ~NameBefore(x[j].name, x[i].name)
                 /\ \E k, l \in 1 .. n : k < l /\ y[k] = x[i] /\ y[l] = x[j]
  <2>1. Less(s[i], s[j])
    BY <1>1, <1>12 DEF Run
  <2>2. x[i].name = name[s[i]] /\ x[j].name = name[s[j]]
    BY <1>2
  <2>3. name[s[i]] \in Names /\ name[s[j]] \in Names
    BY <1>1, <1>5 DEF Named
  <2>4. CASE CompareTokens(s[i], s[j]) < 0
    BY <2>2, <2>4 DEF NameBefore, CompareTokens
  <2>5. CASE CompareTokens(s[i], s[j]) = 0 /\ Earlier(s[i], s[j])
    <3>1. PICK k, l \in 1 .. n : k < l /\ order[k] = s[i] /\ order[l] = s[j]
      BY <1>1, <2>5 DEF Earlier
    <3>2. y[k] = x[i] /\ y[l] = x[j]
      BY <1>2, <3>1
    <3>3. ~(Compare(name[s[j]], name[s[i]]) < 0)
      <4>1. /\ Compare(name[s[i]], name[s[j]]) \in Int
            /\ Compare(name[s[j]], name[s[i]]) = -Compare(name[s[i]], name[s[j]])
        BY <2>3, CompareIs
      <4> QED BY <2>5, <4>1 DEF CompareTokens
    <3>4. ~NameBefore(x[j].name, x[i].name)
      BY <2>2, <3>3 DEF NameBefore
    <3> QED BY <3>1, <3>2, <3>4
  <2> QED BY <2>1, <2>4, <2>5 DEF Less
<1>13. Store!StableSorted(x, y)
  BY <1>2, <1>3, <1>11, <1>12 DEF Store!StableSorted
<1> QED BY <1>10, <1>13

\* The stacks of the store are the lists of the pool.
LEMMA PoolRead ==
    ASSUME NEW f, NEW a, TwoLists(alloc, "free", f, "active", a)
    PROVE  Free = f /\ Active = a /\ f \in Seq(Nodes) /\ a \in Seq(Nodes)
BY ListsRead, HeadOf DEF Free, Active

LEMMA PoolReadNext ==
    ASSUME NEW f, NEW a, TwoLists(alloc', "free", f, "active", a)
    PROVE  Free' = f /\ Active' = a
BY ListsRead DEF Free, Active

\* The steps of the store.
LEMMA StoreStutters ==
    ASSUME Free' = Free, Active' = Active, Held' = Held
    PROVE  [Store!Next]_(Store!vars)
BY DEF Store!vars, Free, Active, Held

LEMMA StoreTakes ==
    ASSUME Free # <<>>, Active' = <<Head(Free)>> \o Active, Free' = Tail(Free), Held' = Held
    PROVE  [Store!Next]_(Store!vars)
BY DEF Store!Next, Store!Take, Store!Pushed, Free, Active, Held

LEMMA StoreReturns ==
    ASSUME Active # <<>>, Free' = <<Head(Active)>> \o Free, Active' = Tail(Active), Held' = Held
    PROVE  [Store!Next]_(Store!vars)
BY DEF Store!Next, Store!Return, Store!Pushed, Free, Active, Held

LEMMA StoreSupplies ==
    ASSUME NEW t \in Tokens, t \notin Store!Range(Free) \cup Store!Range(Active),
           Free' = <<t>> \o Free, Active' = Active, Held' = Held
    PROVE  [Store!Next]_(Store!vars)
BY DEF Store!Next, Store!Supply, Store!Pushed, Free, Active, Held

LEMMA StoreAttaches ==
    ASSUME NEW t \in Store!Range(Active), NEW n \in Names,
           \A m \in Store!Range(Held) : m.token # t,
           Held' = Append(Held, [token |-> t, name |-> n]), Free' = Free, Active' = Active
    PROVE  [Store!Next]_(Store!vars)
BY DEF Store!Next, Store!Attach, Free, Active, Held

LEMMA StoreSorts ==
    ASSUME Held' \in [DOMAIN Held -> Store!Range(Held)], Store!StableSorted(Held', Held),
           Free' = Free, Active' = Active
    PROVE  [Store!Next]_(Store!vars)
BY DEF Store!Next, Store!Sort, Free, Active, Held

LEMMA StoreForgets ==
    ASSUME Held' = <<>>, Free' = Free, Active' = Active
    PROVE  [Store!Next]_(Store!vars)
BY DEF Store!Next, Store!Forget, Free, Active, Held

\* While it is as it was read, a step that changes only the names of tokens that are
\* no members leaves it alone.
LEMMA HeldStays ==
    ASSUME HeldAsRead, HeldAsRead', pc # "closed", pc' # "closed", order' = order,
           \A i \in DOMAIN order : name'[order[i]] = name[order[i]]
    PROVE  Held' = Held
<1>1. PICK o, m, n : o = order /\ m = name /\ n = name'
  OBVIOUS
<1>2. Held = Pairs(o, m) /\ Held' = Pairs(o, n)
  BY <1>1 DEF HeldAsRead
<1>3. Pairs(o, m) = Pairs(o, n)
  BY <1>1, PairsSame
<1> QED BY <1>2, <1>3

LEMMA PoolStays ==
    ASSUME alloc' = alloc
    PROVE  Free' = Free /\ Active' = Active
BY DEF Free, Active

\* nmjson_parser_init
LEMMA FillPoolStores ==
    ASSUME NEW f, NEW a, PoolShape(f, a), HeldAsRead, HeldAsRead', FillPool
    PROVE  [Store!Next]_(Store!vars)
<1>1. /\ pc = "init" /\ pc' \in {"init", "ready"} /\ order' = order /\ name' = name
      /\ TwoLists(alloc, "free", f, "active", a)
  BY DEF FillPool, PoolShape
<1>2. Held' = Held
  BY <1>1, HeldStays
<1>3. CASE alloc' = alloc
  BY <1>2, <1>3, PoolStays, StoreStutters
<1>4. CASE alloc' # alloc
  <2>1. PICK t \in Tokens : alloc.toSelf[t] = None /\ alloc' = InsertAfter(alloc, "free", t)
    BY <1>4 DEF FillPool
  <2>2. Free = f /\ Active = a /\ f \in Seq(Nodes) /\ a \in Seq(Nodes)
    BY <1>1, PoolRead
  <2>3. t \in Nodes /\ ~On(t, f, a)
    BY <1>1, <2>1, ListedLinked, HeadsAre
  <2>4. 0 \in 0 .. Len(f) /\ CellAt("free", f, 0) = "free"
    BY <2>2 DEF CellAt
  <2>5. TwoLists(alloc', "free", Inserted(f, 0, t), "active", a)
    BY <1>1, <2>1, <2>3, <2>4, InsertList
  <2>6. Free' = Inserted(f, 0, t) /\ Active' = a
    BY <2>5, PoolReadNext
  <2>7. Free' = <<t>> \o f
    BY <2>2, <2>3, <2>6, InsertedFirst
  <2>8. t \notin Store!Range(f) \cup Store!Range(a)
    BY <2>2, <2>3 DEF On, Store!Range
  <2> QED BY <1>2, <2>1, <2>2, <2>6, <2>7, <2>8, StoreSupplies
<1> QED BY <1>3, <1>4

\* new_token_
LEMMA TakeStores ==
    ASSUME NEW f, NEW a, PoolShape(f, a), TakeToken(Newest)
    PROVE  /\ Newest \in Nodes /\ ~In(Newest, a)
           /\ Free # <<>> /\ Free' = Tail(Free) /\ Active' = <<Head(Free)>> \o Active
<1>1. TwoLists(alloc, "free", f, "active", a)
  BY DEF PoolShape
<1>2. Free = f /\ Active = a
  BY <1>1, PoolRead
<1>3. alloc.next["free"] # None /\ alloc' = InsertAfter(Pop(alloc, "free"), "active", alloc.next["free"])
  BY DEF TakeToken, Newest
<1>4. f # <<>>
  BY <1>1, <1>3, HeadOf
<1>5. /\ alloc.next["free"] = Head(f) /\ Head(f) \in Nodes /\ ~In(Head(f), a)
      /\ TwoLists(alloc', "free", Tail(f), "active", <<Head(f)>> \o a)
  BY <1>1, <1>3, <1>4, StackMoves
<1>6. Free' = Tail(f) /\ Active' = <<Head(f)>> \o a
  BY <1>5, PoolReadNext
<1> QED BY <1>2, <1>4, <1>5, <1>6 DEF Newest

LEMMA OpenObjectStores ==
    ASSUME NEW f, NEW a, PoolShape(f, a), HeldAsRead, HeldAsRead', OpenObject
    PROVE  [Store!Next]_(Store!vars)
<1>1. TakeToken(Newest) /\ pc = "ready" /\ pc' = "members" /\ order' = order /\ name' = name
  BY DEF OpenObject
<1>2. Held' = Held
  BY <1>1, HeldStays
<1>3. Free # <<>> /\ Free' = Tail(Free) /\ Active' = <<Head(Free)>> \o Active
  BY <1>1, TakeStores
<1> QED BY <1>2, <1>3, StoreTakes

\* A token that is not in use is no member.
LEMMA NoMember ==
    ASSUME NEW a, Members(a), NEW t, ~In(t, a)
    PROVE  \A i \in DOMAIN order : order[i] \in Tokens /\ order[i] # t
<1>1. DOMAIN order = 1 .. Len(order) /\ \A i \in 1 .. Len(order) : order[i] \in Tokens /\ In(order[i], a)
  BY DEF Members
<1> QED BY <1>1

LEMMA ReadNameStores ==
    ASSUME NEW f, NEW a, PoolShape(f, a), Members(a), HeldAsRead, HeldAsRead',
           NEW n \in Names, ReadName(n)
    PROVE  [Store!Next]_(Store!vars)
<1>1. TakeToken(Newest) /\ pc = "members" /\ pc' = "members" /\ order' = order
      /\ name' = [name EXCEPT ![Newest] = n]
  BY DEF ReadName
<1>2. ~In(Newest, a) /\ Free # <<>> /\ Free' = Tail(Free) /\ Active' = <<Head(Free)>> \o Active
  BY <1>1, TakeStores
<1>3. PICK x : x = Newest
  OBVIOUS
<1>4. name \in [Tokens -> Names \cup {None}] /\ \A i \in DOMAIN order : order[i] \in Tokens /\ order[i] # x
  BY <1>2, <1>3, NoMember DEF Members
<1>5. \A i \in DOMAIN order : name'[order[i]] = name[order[i]]
  BY <1>1, <1>3, <1>4
<1>6. Held' = Held
  BY <1>1, <1>5, HeldStays
<1> QED BY <1>2, <1>6, StoreTakes

\* The token of a name that is cut goes back to where it was.
LEMMA CutNameStores ==
    ASSUME NEW f, NEW a, PoolShape(f, a), Members(a), HeldAsRead, HeldAsRead', CutName
    PROVE  [Store!Next]_(Store!vars)
<1>1. TwoLists(alloc, "free", f, "active", a) /\ pc = "members" /\ pc' = "members" /\ order' = order
  BY DEF PoolShape, CutName
<1>2. PICK x : x = Newest
  OBVIOUS
<1>3. PICK g : g = InsertAfter(Pop(alloc, "free"), "active", alloc.next["free"])
  OBVIOUS
<1>4. /\ x # None /\ x = alloc.next["free"] /\ alloc' = InsertAfter(Del(g, x), "free", x)
      /\ name' = [name EXCEPT ![x] = None]
  BY <1>2, <1>3 DEF CutName, Newest
<1>5. f # <<>> /\ f \in Seq(Nodes) /\ a \in Seq(Nodes)
  BY <1>1, <1>4, HeadOf
<1>6. PICK f1, a1 : f1 = Tail(f) /\ a1 = <<x>> \o a
  OBVIOUS
<1>7. x = Head(f) /\ x \in Nodes /\ ~In(x, a) /\ TwoLists(g, "free", f1, "active", a1)
  <2>1. /\ alloc.next["free"] = Head(f) /\ Head(f) \in Nodes /\ ~In(Head(f), a)
        /\ TwoLists(g, "free", Tail(f), "active", <<Head(f)>> \o a)
    BY <1>1, <1>3, <1>5, StackMoves
  <2> QED BY <1>4, <1>6, <2>1
<1>8. a1 # <<>> /\ Head(a1) = x /\ Tail(a1) = a
  BY <1>5, <1>6, <1>7
<1>9. TwoLists(g, "active", a1, "free", f1)
  BY <1>7, Swap
<1>10. PICK e : e = InsertAfter(Pop(g, "active"), "free", g.next["active"])
  OBVIOUS
<1>11. /\ g.next["active"] = x /\ Pop(g, "active") = Del(g, x)
       /\ TwoLists(e, "active", a, "free", <<x>> \o f1)
  BY <1>8, <1>9, <1>10, StackMoves
<1>12. e = alloc' /\ <<x>> \o f1 = f
  BY <1>4, <1>5, <1>6, <1>7, <1>10, <1>11, RemovedFirst
<1>13. TwoLists(alloc', "free", f, "active", a)
  BY <1>11, <1>12, Swap
<1>14. Free' = Free /\ Active' = Active
  BY <1>1, <1>13, PoolRead, PoolReadNext
<1>15. name \in [Tokens -> Names \cup {None}] /\ \A i \in DOMAIN order : order[i] \in Tokens /\ order[i] # x
  BY <1>7, NoMember DEF Members
<1>16. \A i \in DOMAIN order : name'[order[i]] = name[order[i]]
  BY <1>4, <1>15
<1>17. Held' = Held
  BY <1>1, <1>16, HeldStays
<1> QED BY <1>14, <1>17, StoreStutters

\* json_token_add_
LEMMA ReadValueStores ==
    ASSUME NEW f, NEW a, PoolShape(f, a), Members(a), HeldAsRead, HeldAsRead', ReadValue
    PROVE  [Store!Next]_(Store!vars)
<1>1. PICK t, n, o, m : t = value /\ n = name[value] /\ o = order /\ m = name
  OBVIOUS
<1>2. pc = "members" /\ pc' = "members" /\ t # None /\ order' = Append(o, t) /\ name' = m /\ alloc' = alloc
  BY <1>1 DEF ReadValue
<1>3. In(t, a) /\ ~In(t, o) /\ n \in Names /\ m[t] = n /\ o \in Seq(Nodes) /\ a \in Seq(Nodes) /\ t \in Nodes
  <2>1. In(value, a) /\ ~In(value, order) /\ name[value] \in Names
    BY <1>1, <1>2 DEF Members
  <2>2. a \in Seq(Nodes)
    BY HeadOf DEF PoolShape
  <2>3. order \in Seq(Nodes) /\ value \in Nodes
    BY <1>1, <1>2, HeadsAre DEF Members, Pointers
  <2> QED BY <1>1, <2>1, <2>2, <2>3
<1>4. Held = Pairs(o, m) /\ Held' = Pairs(Append(o, t), m)
  <2>1. Held = Pairs(order, name) /\ Held' = Pairs(order', name')
    BY <1>2 DEF HeldAsRead
  <2> QED BY <1>1, <1>2, <2>1
<1>5. PICK k \in Nat : k = Len(o)
  BY <1>3
<1>6. PICK x : x = Pairs(o, m)
  OBVIOUS
<1>7. DOMAIN x = 1 .. k /\ x = [i \in 1 .. k |-> [token |-> o[i], name |-> m[o[i]]]]
  BY <1>3, <1>5, <1>6 DEF Pairs
<1>8. Append(x, [token |-> t, name |-> n]) = Pairs(Append(o, t), m)
  <2>1. PICK e : e = [token |-> t, name |-> n]
    OBVIOUS
  <2>2. PICK u : u = Append(o, t)
    OBVIOUS
  <2>3. DOMAIN u = 1 .. k + 1 /\ \A i \in 1 .. k + 1 : u[i] = IF i = k + 1 THEN t ELSE o[i]
    BY <1>3, <1>5, <2>2
  <2>4. Pairs(u, m) = [i \in 1 .. k + 1 |-> [token |-> u[i], name |-> m[u[i]]]]
    BY <2>3 DEF Pairs
  <2>5. Len(x) = k
    BY <1>7
  <2>6. Append(x, e) = [i \in 1 .. k + 1 |-> IF i = k + 1 THEN e ELSE x[i]]
    <3>1. PICK S : S = {x[i] : i \in 1 .. k} \cup {e}
      OBVIOUS
    <3>2. x \in [1 .. k -> S] /\ e \in S
      BY <1>7, <3>1
    <3>3. x \in Seq(S)
      BY <3>2
    <3>4. PICK z : z = Append(x, e)
      OBVIOUS
    <3>5. /\ z \in Seq(S) /\ Len(z) = k + 1
          /\ \A i \in 1 .. k + 1 : z[i] = IF i = k + 1 THEN e ELSE x[i]
      BY <2>5, <3>2, <3>3, <3>4
    <3>6. z = [i \in 1 .. k + 1 |-> z[i]]
      BY <3>5
    <3> QED BY <3>4, <3>5, <3>6
  <2>7. ASSUME NEW i \in 1 .. k + 1
        PROVE  [token |-> u[i], name |-> m[u[i]]] = IF i = k + 1 THEN e ELSE x[i]
    <3>1. CASE i = k + 1
      BY <1>3, <2>1, <2>3, <3>1
    <3>2. CASE i # k + 1
      <4>1. i \in 1 .. k
        BY <3>2
      <4> QED BY <1>7, <2>3, <3>2, <4>1
    <3> QED BY <3>1, <3>2
  <2> QED BY <2>1, <2>2, <2>4, <2>6, <2>7
<1>9. Active = a
  BY PoolRead DEF PoolShape
<1>10. t \in Store!Range(Active)
  BY <1>3, <1>9 DEF In, Store!Range
<1>11. \A e \in Store!Range(Held) : e.token # t
  <2> TAKE e \in Store!Range(Held)
  <2>1. PICK i \in 1 .. k : e = x[i]
    BY <1>4, <1>6, <1>7 DEF Store!Range
  <2>2. e.token = o[i]
    BY <1>7, <2>1
  <2> QED BY <1>3, <1>5, <2>2 DEF In
<1>12. Free' = Free /\ Active' = Active
  BY <1>2, PoolStays
<1> QED BY <1>3, <1>4, <1>6, <1>8, <1>10, <1>11, <1>12, StoreAttaches

\* nmjson_parser_reset
LEMMA ResetStores ==
    ASSUME HeldAsRead', Reset
    PROVE  [Store!Next]_(Store!vars)
<1>1. pc' = "reset" /\ order' = <<>> /\ alloc' = alloc
  BY DEF Reset
<1>2. Held' = <<>>
  <2>1. PICK n : n = name'
    OBVIOUS
  <2>2. Held' = Pairs(<<>>, n)
    BY <1>1, <2>1 DEF HeldAsRead
  <2>3. Pairs(<<>>, n) = <<>>
    BY DEF Pairs
  <2> QED BY <2>2, <2>3
<1>3. Free' = Free /\ Active' = Active
  BY <1>1, PoolStays
<1> QED BY <1>2, <1>3, StoreForgets

LEMMA ResetTokenStores ==
    ASSUME NEW f, NEW a, PoolShape(f, a), HeldAsRead, HeldAsRead', ResetToken
    PROVE  [Store!Next]_(Store!vars)
<1>1. pc = "reset" /\ pc' \in {"reset", "ready"} /\ order' = order /\ TwoLists(alloc, "free", f, "active", a)
  BY DEF ResetToken, PoolShape
<1>2. Held' = Held
  <2>1. order = <<>>
    BY <1>1 DEF HeldAsRead
  <2>2. \A i \in DOMAIN order : name'[order[i]] = name[order[i]]
    BY <2>1
  <2> QED BY <1>1, <2>2, HeldStays
<1>3. CASE alloc.next["active"] = None
  <2>1. alloc' = alloc
    BY <1>3 DEF ResetToken
  <2> QED BY <1>2, <2>1, PoolStays, StoreStutters
<1>4. CASE alloc.next["active"] # None
  <2>1. alloc' = InsertAfter(Pop(alloc, "active"), "free", alloc.next["active"])
    BY <1>4 DEF ResetToken
  <2>2. TwoLists(alloc, "active", a, "free", f)
    BY <1>1, Swap
  <2>3. a # <<>>
    BY <1>4, <2>2, HeadOf
  <2>4. TwoLists(alloc', "active", Tail(a), "free", <<Head(a)>> \o f)
    BY <2>1, <2>2, <2>3, StackMoves
  <2>5. TwoLists(alloc', "free", <<Head(a)>> \o f, "active", Tail(a))
    BY <2>4, Swap
  <2>6. Free = f /\ Active = a
    BY <1>1, PoolRead
  <2>7. Free' = <<Head(a)>> \o f /\ Active' = Tail(a)
    BY <2>5, PoolReadNext
  <2> QED BY <1>2, <2>3, <2>6, <2>7, StoreReturns
<1> QED BY <1>3, <1>4

\* Until the last pass is over, the sort does not show.
LEMMA SortStores ==
    ASSUME NEW f, NEW a, NEW s, NEW d, NEW p, NEW q, Shape(f, a, s, d, p, q),
           HeldAsRead, HeldAsRead', HeldSorted', SortStep
    PROVE  [Store!Next]_(Store!vars)
<1>1. pc \in SortLabels /\ alloc' = alloc
  <2>1. ASSUME NEW right, JoinRest(right) PROVE alloc' = alloc
    BY <2>1 DEF JoinRest
  <2> QED BY <2>1 DEF SortStep, InsertInBlock, NextBlock, BeginPass, SkipSections, MergeSections,
                      MergeToken, MergeRest, EndPass, SortLabels
<1>2. order' = order /\ name' = name /\ pc' \in SortLabels \cup {"closed"}
  BY <1>1, SortMembers
<1>3. Free' = Free /\ Active' = Active
  BY <1>1, PoolStays
<1>4. pc # "closed"
  BY <1>1 DEF SortLabels
<1>5. CASE pc' # "closed"
  <2>1. Held' = Held
    BY <1>2, <1>4, <1>5, HeldStays
  <2> QED BY <1>3, <2>1, StoreStutters
<1>6. CASE pc' = "closed"
  <2>1. PICK t \in Seq(Nodes) :
           /\ Held' = Pairs(t, name') /\ Len(t) = Len(order')
           /\ \A u \in Tokens : In(u, t) <=> In(u, order')
           /\ Run(t, 0, Len(t))'
    BY <1>6 DEF HeldSorted
  <2>2. Run(t, 0, Len(t))
    BY <1>2, <2>1 DEF Run, Less, CompareTokens, Earlier
  <2>3. PICK x, y : x = Pairs(t, name) /\ y = Pairs(order, name)
    OBVIOUS
  <2>4. Held' = x /\ Held = y
    BY <1>2, <1>4, <2>1, <2>3 DEF HeldAsRead
  <2>5. /\ Named /\ order \in Seq(Nodes) /\ Len(t) = Len(order)
        /\ \A u \in Tokens : In(u, t) <=> In(u, order)
    BY <1>2, <2>1 DEF HeldAsRead
  <2>6. x \in [DOMAIN y -> Store!Range(y)] /\ Store!StableSorted(x, y)
    BY <2>2, <2>3, <2>5, RunIsStable
  <2>7. Held' \in [DOMAIN Held -> Store!Range(Held)] /\ Store!StableSorted(Held', Held)
    BY <2>4, <2>6
  <2> QED BY <1>3, <2>7, StoreSorts
<1> QED BY <1>5, <1>6

LEMMA StoreInit == Init => Store!Init
<1> SUFFICES ASSUME Init PROVE Store!Init
  OBVIOUS
<1>1. alloc = NoLinks /\ order = <<>> /\ pc = "init"
  BY DEF Init
<1>2. TwoLists(alloc, "free", <<>>, "active", <<>>)
  BY <1>1, HeadsAre, EmptyLists
<1>3. Free = <<>> /\ Active = <<>>
  BY <1>2, PoolRead
<1>4. Held = <<>>
  BY <1>1 DEF Held, WithNames
<1> QED BY <1>3, <1>4 DEF Store!Init, Free, Active, Held

LEMMA StoreNext ==
    Shaped /\ Shaped' /\ Sorting' /\ [Next]_vars => [Store!Next]_(Store!vars)
<1> SUFFICES ASSUME Shaped, Shaped', Sorting', [Next]_vars PROVE [Store!Next]_(Store!vars)
  OBVIOUS
<1>1. PICK f, a, s, d, p, q : Shape(f, a, s, d, p, q)
  BY DEF Shaped
<1>2. PoolShape(f, a) /\ Members(a)
  BY <1>1 DEF Shape
<1>3. HeldAsRead /\ HeldAsRead' /\ HeldSorted'
  <2>1. Shaped' => HeldAsRead'
    BY ShapedHeld, PTL
  <2>2. Sorting' => HeldSorted'
    BY SortingHeld, PTL
  <2> QED BY <2>1, <2>2, ShapedHeld
<1>4. CASE FillPool
  BY <1>2, <1>3, <1>4, FillPoolStores
<1>5. CASE OpenObject
  BY <1>2, <1>3, <1>5, OpenObjectStores
<1>6. CASE CutName
  BY <1>2, <1>3, <1>6, CutNameStores
<1>7. CASE ReadValue
  BY <1>2, <1>3, <1>7, ReadValueStores
<1>8. CASE CloseObject
  <2>1. /\ pc = "members" /\ pc' = "insert" /\ alloc' = alloc /\ order' = order /\ name' = name
    BY <1>8 DEF CloseObject
  <2>2. Held' = Held
    BY <1>3, <2>1, HeldStays
  <2> QED BY <2>1, <2>2, PoolStays, StoreStutters
<1>9. ASSUME NEW n \in Names, ReadName(n) PROVE [Store!Next]_(Store!vars)
  BY <1>2, <1>3, <1>9, ReadNameStores
<1>10. CASE Reset
  BY <1>3, <1>10, ResetStores
<1>11. CASE ResetToken
  BY <1>2, <1>3, <1>11, ResetTokenStores
<1>12. CASE SortStep
  BY <1>1, <1>3, <1>12, SortStores
<1>13. CASE UNCHANGED vars
  <2>1. Held' = Held /\ alloc' = alloc
    BY <1>13 DEF vars, Held, WithNames
  <2> QED BY <2>1, PoolStays, StoreStutters
<1> QED BY <1>4, <1>5, <1>6, <1>7, <1>8, <1>9, <1>10, <1>11, <1>12, <1>13 DEF Next

\* The pool is two stacks, whatever is cut, sorted or reset, and an object's members
\* are in the order they were read in until LINEAR_LINKER_SORT_ is through; then they
\* are sorted by name, equal ones in the order they were read in.
THEOREM ListsImplementStore == Spec => ImplementsStore
BY StoreInit, StoreNext, ShapedAlways, SortingAlways, PTL DEF Spec, ImplementsStore, Store!Spec
=============================================================================
