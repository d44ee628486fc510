---------------------------- MODULE LinksProofs ----------------------------
(***************************************************************************)
(* What the macros of Links.tla do to two lists that share no node, given  *)
(* as sequences: each puts its node where it says, takes none from the     *)
(* other list, and leaves every pointer with its pointer back.             *)
(***************************************************************************)
EXTENDS Links, Sequences, SequencesExt, FiniteSets, Numbers,
        FiniteSetTheorems, SequenceTheorems, TLAPS

-----------------------------------------------------------------------------
(* What the macros do, cell by cell.                                        *)
LEMMA InsertCells ==
    ASSUME NEW h \in Links, NEW cell \in Cells, NEW node \in Nodes, node # cell,
           h.next[cell] # node
    PROVE  LET r == InsertAfter(h, cell, node)
           IN  /\ r \in Links
               /\ \A c \in Cells : r.next[c] = IF c = cell THEN node
                                               ELSE IF c = node THEN h.next[cell]
                                               ELSE h.next[c]
               /\ \A n \in Nodes : r.toSelf[n] = IF n = node THEN cell
                                                 ELSE IF n = h.next[cell] THEN node
                                                 ELSE h.toSelf[n]
<1> DEFINE old == h.next[cell]
           o == Own(h, old, node)
           f == [o EXCEPT !.next[node] = old]
           r == Join(f, cell, node)
<1>1. node \in Cells /\ old \in Nodes \cup {None} /\ node # None
  BY CellsAssumption DEF Links, Cells
<1>2. o \in Links /\ o.next = h.next
      /\ \A n \in Nodes : o.toSelf[n] = IF n = old THEN node ELSE h.toSelf[n]
  <2>1. CASE old = None
    BY <1>1, <2>1, CellsAssumption DEF Own
  <2>2. CASE old # None
    BY <1>1, <2>2 DEF Own, Links
  <2> QED BY <2>1, <2>2
<1>3. f \in Links /\ f.toSelf = o.toSelf /\ f.next = [h.next EXCEPT ![node] = old]
  BY <1>1, <1>2 DEF Links
<1>4. /\ r \in Links
      /\ r.next = [f.next EXCEPT ![cell] = node]
      /\ r.toSelf = [f.toSelf EXCEPT ![node] = cell]
  BY <1>1, <1>3 DEF Join, Own, Point, Links
<1>5. InsertAfter(h, cell, node) = r
  BY DEF InsertAfter
<1>6. h.next \in [Cells -> Nodes \cup {None}] /\ f.next \in [Cells -> Nodes \cup {None}]
      /\ f.toSelf \in [Nodes -> Cells \cup {None}]
  BY <1>3 DEF Links
<1>7. \A c \in Cells : r.next[c] = IF c = cell THEN node
                                   ELSE IF c = node THEN old ELSE h.next[c]
  <2> HIDE DEF old, o, f, r
  <2> QED BY <1>1, <1>3, <1>4, <1>6
<1>8. \A n \in Nodes : r.toSelf[n] = IF n = node THEN cell
                                     ELSE IF n = old THEN node ELSE h.toSelf[n]
  <2>1. \A n \in Nodes : r.toSelf[n] = IF n = node THEN cell ELSE o.toSelf[n]
    <3> HIDE DEF old, o, f, r
    <3> QED BY <1>1, <1>3, <1>4, <1>6
  <2>2. \A n \in Nodes : o.toSelf[n] = IF n = old THEN node ELSE h.toSelf[n]
    BY <1>2
  <2> HIDE DEF old, o, f, r
  <2> QED BY <2>1, <2>2
<1> HIDE DEF r
<1> QED BY <1>4, <1>5, <1>7, <1>8

LEMMA DelCells ==
    ASSUME NEW h \in Links, NEW node \in Nodes, h.toSelf[node] # None,
           h.next[node] # node, h.toSelf[node] # node
    PROVE  LET cell == h.toSelf[node]
               r == Del(h, node)
           IN  /\ r \in Links
               /\ \A c \in Cells : r.next[c] = IF c = node THEN None
                                               ELSE IF c = cell THEN h.next[node]
                                               ELSE h.next[c]
               /\ \A n \in Nodes : r.toSelf[n] = IF n = node THEN None
                                                 ELSE IF n = h.next[node] THEN cell
                                                 ELSE h.toSelf[n]
<1> DEFINE cell == h.toSelf[node]
           second == h.next[node]
           p == Point(h, cell, second)
           j == Own(p, second, cell)
           r == Unlinked(j, node)
<1>1. node \in Cells /\ cell \in Cells /\ second \in Nodes \cup {None}
  BY DEF Links, Cells
<1>2. p \in Links /\ p.toSelf = h.toSelf /\ p.next = [h.next EXCEPT ![cell] = second]
  BY <1>1 DEF Point, Links
<1>3. j \in Links /\ j.next = p.next
      /\ \A n \in Nodes : j.toSelf[n] = IF n = second THEN cell ELSE h.toSelf[n]
  <2>1. CASE second = None
    BY <1>1, <1>2, <2>1, CellsAssumption DEF Own
  <2>2. CASE second # None
    BY <1>1, <1>2, <2>2 DEF Own, Links
  <2> QED BY <2>1, <2>2
<1>4. /\ r \in Links
      /\ r.next = [j.next EXCEPT ![node] = None]
      /\ r.toSelf = [j.toSelf EXCEPT ![node] = None]
  BY <1>1, <1>3 DEF Unlinked, Links
<1>5. Del(h, node) = r
  BY DEF Del, Join
<1>6. \A c \in Cells : r.next[c] = IF c = node THEN None
                                   ELSE IF c = cell THEN second ELSE h.next[c]
  <2>1. h.next \in [Cells -> Nodes \cup {None}] /\ j.next \in [Cells -> Nodes \cup {None}]
    BY <1>3 DEF Links
  <2> HIDE DEF cell, second, p, j, r
  <2> QED BY <1>1, <1>2, <1>3, <1>4, <2>1
<1>7. \A n \in Nodes : r.toSelf[n] = IF n = node THEN None
                                     ELSE IF n = second THEN cell ELSE h.toSelf[n]
  <2>1. j.toSelf \in [Nodes -> Cells \cup {None}]
    BY <1>3 DEF Links
  <2> HIDE DEF cell, second, p, j, r
  <2> QED BY <1>1, <1>3, <1>4, <2>1
<1> HIDE DEF r
<1> QED BY <1>4, <1>5, <1>6, <1>7

LEMMA JoinCells ==
    ASSUME NEW h \in Links, NEW cell \in Cells, NEW node \in Nodes \cup {None}
    PROVE  LET r == Join(h, cell, node)
           IN  /\ r \in Links
               /\ \A c \in Cells : r.next[c] = IF c = cell THEN node ELSE h.next[c]
               /\ \A n \in Nodes : r.toSelf[n] = IF n = node THEN cell ELSE h.toSelf[n]
<1> DEFINE p == Point(h, cell, node)
           r == Own(p, node, cell)
<1>1. p \in Links /\ p.toSelf = h.toSelf /\ p.next = [h.next EXCEPT ![cell] = node]
  BY DEF Point, Links
<1>2. r \in Links /\ r.next = p.next
      /\ \A n \in Nodes : r.toSelf[n] = IF n = node THEN cell ELSE h.toSelf[n]
  <2>1. CASE node = None
    BY <1>1, <2>1, CellsAssumption DEF Own
  <2>2. CASE node # None
    BY <1>1, <2>2 DEF Own, Links
  <2> QED BY <2>1, <2>2
<1>3. h.next \in [Cells -> Nodes \cup {None}]
  BY DEF Links
<1>4. \A c \in Cells : r.next[c] = IF c = cell THEN node ELSE h.next[c]
  <2> HIDE DEF p, r
  <2> QED BY <1>1, <1>2, <1>3
<1>5. Join(h, cell, node) = r
  BY DEF Join
<1> HIDE DEF r
<1> QED BY <1>2, <1>4, <1>5

LEMMA PointCells ==
    ASSUME NEW h \in Links, NEW cell \in Cells, NEW node \in Nodes \cup {None}
    PROVE  LET r == Point(h, cell, node)
           IN  /\ r \in Links /\ r.toSelf = h.toSelf
               /\ \A c \in Cells : r.next[c] = IF c = cell THEN node ELSE h.next[c]
BY DEF Point, Links

LEMMA UnlinkedCells ==
    ASSUME NEW h \in Links, NEW node \in Nodes
    PROVE  LET r == Unlinked(h, node)
           IN  /\ r \in Links
               /\ \A c \in Cells : r.next[c] = IF c = node THEN None ELSE h.next[c]
               /\ \A n \in Nodes : r.toSelf[n] = IF n = node THEN None ELSE h.toSelf[n]
<1>1. node \in Cells
  BY DEF Cells
<1> QED BY <1>1 DEF Unlinked, Links

-----------------------------------------------------------------------------
(* Two lists. *)

\* The nodes of a list, and its cells: the head and the `next` of every node.
NodeAt(s, i) == IF i \in 1 .. Len(s) THEN s[i] ELSE None
CellAt(head, s, i) == IF i = 0 THEN head ELSE s[i]

Distinct(s) == \A i, j \in 1 .. Len(s) : s[i] = s[j] => i = j

\* The list of a head.
Listed(h, head, s) ==
    /\ \A i \in 0 .. Len(s) : h.next[CellAt(head, s, i)] = NodeAt(s, i + 1)
    /\ \A i \in 1 .. Len(s) : h.toSelf[s[i]] = CellAt(head, s, i - 1)

\* Two heads and two sequences of nodes, each node once.
Disjoint(a, s, b, d) ==
    /\ a \in Heads /\ b \in Heads /\ a # b
    /\ s \in Seq(Nodes) /\ Distinct(s) /\ d \in Seq(Nodes) /\ Distinct(d)
    /\ \A i \in 1 .. Len(s), j \in 1 .. Len(d) : s[i] # d[j]

On(n, s, d) == (\E i \in 1 .. Len(s) : s[i] = n) \/ (\E i \in 1 .. Len(d) : d[i] = n)

\* Of all links, these two lists are set and no others.
TwoLists(h, a, s, b, d) ==
    /\ h \in Links /\ Disjoint(a, s, b, d)
    /\ Listed(h, a, s) /\ Listed(h, b, d)
    /\ \A c \in Cells : c # a /\ c # b /\ ~On(c, s, d) => h.next[c] = None
    /\ \A n \in Nodes : ~On(n, s, d) => h.toSelf[n] = None

LEMMA Swap ==
    ASSUME NEW h, NEW a, NEW s, NEW b, NEW d
    PROVE  TwoLists(h, a, s, b, d) <=> TwoLists(h, b, d, a, s)
<1>1. \A n : On(n, s, d) <=> On(n, d, s)
  BY DEF On
<1>2. Disjoint(a, s, b, d) <=> Disjoint(b, d, a, s)
  BY DEF Disjoint
<1> QED BY <1>1, <1>2 DEF TwoLists

\* The cells of the two lists are cells, each once.
LEMMA CellsOf ==
    ASSUME NEW a, NEW s, NEW b, NEW d, Disjoint(a, s, b, d)
    PROVE  /\ Len(s) \in Nat /\ Len(d) \in Nat /\ a \in Cells /\ a \notin Nodes
           /\ \A i \in 1 .. Len(s) : s[i] \in Nodes /\ s[i] \in Cells /\ s[i] # a /\ s[i] # None
           /\ \A i \in 0 .. Len(s) : CellAt(a, s, i) \in Cells
           /\ \A i \in 1 .. Len(s) + 1 : NodeAt(s, i) \in Nodes \cup {None}
           /\ \A i, j \in 0 .. Len(s) : CellAt(a, s, i) = CellAt(a, s, j) => i = j
           /\ \A i \in 0 .. Len(s), j \in 0 .. Len(d) : CellAt(a, s, i) # CellAt(b, d, j)
<1>1. s \in Seq(Nodes) /\ Len(s) \in Nat /\ Len(d) \in Nat /\ d \in Seq(Nodes)
  BY DEF Disjoint
<1>2. \A i \in 1 .. Len(s) : s[i] \in Nodes
  BY <1>1
<1>3. \A i \in 1 .. Len(d) : d[i] \in Nodes
  BY <1>1
<1>4. a \in Cells /\ a \notin Nodes /\ b \notin Nodes /\ Nodes \subseteq Cells /\ None \notin Nodes
  BY CellsAssumption DEF Disjoint, Cells
<1>5. \A i \in 0 .. Len(s) : i = 0 \/ i \in 1 .. Len(s)
  BY <1>1
<1>6. \A i \in 0 .. Len(d) : i = 0 \/ i \in 1 .. Len(d)
  BY <1>1
<1>7. \A i, j \in 0 .. Len(s) : CellAt(a, s, i) = CellAt(a, s, j) => i = j
  BY <1>2, <1>4, <1>5 DEF CellAt, Disjoint, Distinct
<1>8. \A i \in 0 .. Len(s), j \in 0 .. Len(d) : CellAt(a, s, i) # CellAt(b, d, j)
  BY <1>2, <1>3, <1>4, <1>5, <1>6 DEF CellAt, Disjoint
<1>9. \A i \in 0 .. Len(s) : CellAt(a, s, i) \in Cells
  BY <1>2, <1>4, <1>5 DEF CellAt
<1> QED BY <1>1, <1>2, <1>4, <1>7, <1>8, <1>9 DEF NodeAt

\* A step that leaves a list alone.
LEMMA Frame ==
    ASSUME NEW h, NEW r, NEW a, NEW s, NEW b, NEW d, Disjoint(a, s, b, d), Listed(h, b, d),
           \A i \in 0 .. Len(d) : r.next[CellAt(b, d, i)] = h.next[CellAt(b, d, i)],
           \A i \in 1 .. Len(d) : r.toSelf[d[i]] = h.toSelf[d[i]]
    PROVE  Listed(r, b, d)
BY DEF Listed

-----------------------------------------------------------------------------
(* A node more, a node less. *)

\* The sequence s with x behind its first k.
Inserted(s, k, x) ==
    [i \in 1 .. Len(s) + 1 |-> IF i <= k THEN s[i] ELSE IF i = k + 1 THEN x ELSE s[i - 1]]

\* The sequence s without its k-th.
Removed(s, k) == [i \in 1 .. Len(s) - 1 |-> IF i < k THEN s[i] ELSE s[i + 1]]

LEMMA InsertedIs ==
    ASSUME NEW s \in Seq(Nodes), NEW k \in 0 .. Len(s), NEW x \in Nodes
    PROVE  /\ Inserted(s, k, x) \in Seq(Nodes)
           /\ Len(Inserted(s, k, x)) = Len(s) + 1
           /\ \A i \in 1 .. Len(s) + 1 :
                Inserted(s, k, x)[i] = IF i <= k THEN s[i] ELSE IF i = k + 1 THEN x ELSE s[i - 1]
<1>1. \A i \in 1 .. Len(s) + 1 : (IF i <= k THEN s[i] ELSE IF i = k + 1 THEN x ELSE s[i - 1]) \in Nodes
  OBVIOUS
<1>2. Inserted(s, k, x) \in [1 .. Len(s) + 1 -> Nodes]
  BY <1>1 DEF Inserted
<1>3. Len(s) + 1 \in Nat
  OBVIOUS
<1>4. Inserted(s, k, x) \in Seq(Nodes) /\ Len(Inserted(s, k, x)) = Len(s) + 1
  BY <1>2, <1>3
<1> QED BY <1>4 DEF Inserted

LEMMA RemovedIs ==
    ASSUME NEW s \in Seq(Nodes), NEW k \in 1 .. Len(s)
    PROVE  /\ Removed(s, k) \in Seq(Nodes)
           /\ Len(Removed(s, k)) = Len(s) - 1
           /\ \A i \in 1 .. Len(s) - 1 : Removed(s, k)[i] = IF i < k THEN s[i] ELSE s[i + 1]
<1>1. \A i \in 1 .. Len(s) - 1 : (IF i < k THEN s[i] ELSE s[i + 1]) \in Nodes
  OBVIOUS
<1>2. Removed(s, k) \in [1 .. Len(s) - 1 -> Nodes]
  BY <1>1 DEF Removed
<1>3. Len(s) - 1 \in Nat
  OBVIOUS
<1>4. Removed(s, k) \in Seq(Nodes) /\ Len(Removed(s, k)) = Len(s) - 1
  BY <1>2, <1>3
<1> QED BY <1>4 DEF Removed

\* Their cells and nodes.
LEMMA InsertedAt ==
    ASSUME NEW a, NEW s \in Seq(Nodes), NEW k \in 0 .. Len(s), NEW x \in Nodes
    PROVE  LET t == Inserted(s, k, x) IN
           /\ \A i \in 0 .. Len(s) + 1 :
                CellAt(a, t, i) = IF i <= k THEN CellAt(a, s, i)
                                  ELSE IF i = k + 1 THEN x ELSE CellAt(a, s, i - 1)
           /\ \A i \in 1 .. Len(s) + 2 :
                NodeAt(t, i) = IF i <= k THEN NodeAt(s, i)
                               ELSE IF i = k + 1 THEN x ELSE NodeAt(s, i - 1)
<1> DEFINE t == Inserted(s, k, x)
<1>0. /\ Len(t) = Len(s) + 1
      /\ \A i \in 1 .. Len(s) + 1 : t[i] = IF i <= k THEN s[i] ELSE IF i = k + 1 THEN x ELSE s[i - 1]
  <2> HIDE DEF t
  <2> QED BY InsertedIs DEF t
<1> HIDE DEF t
<1>1. /\ Len(t) = Len(s) + 1 /\ Len(s) \in Nat
      /\ \A i \in 1 .. Len(s) + 1 : t[i] = IF i <= k THEN s[i] ELSE IF i = k + 1 THEN x ELSE s[i - 1]
  BY <1>0
<1>2. \A i \in 0 .. Len(s) + 1 :
        CellAt(a, t, i) = IF i <= k THEN CellAt(a, s, i)
                          ELSE IF i = k + 1 THEN x ELSE CellAt(a, s, i - 1)
  <2> TAKE i \in 0 .. Len(s) + 1
  <2>1. CASE i = 0
    BY <2>1 DEF CellAt
  <2>2. CASE i # 0
    <3>1. i \in 1 .. Len(s) + 1 /\ (i - 1 = 0 => i <= k \/ i = k + 1)
      BY <1>1, <2>2
    <3> QED BY <1>1, <2>2, <3>1 DEF CellAt
  <2> QED BY <2>1, <2>2
<1>3. \A i \in 1 .. Len(s) + 2 :
        NodeAt(t, i) = IF i <= k THEN NodeAt(s, i)
                       ELSE IF i = k + 1 THEN x ELSE NodeAt(s, i - 1)
  <2> TAKE i \in 1 .. Len(s) + 2
  <2>1. CASE i \in 1 .. Len(s) + 1
    BY <1>1, <2>1 DEF NodeAt
  <2>2. CASE i = Len(s) + 2
    BY <1>1, <2>2 DEF NodeAt
  <2> QED BY <1>1, <2>1, <2>2
<1> QED BY <1>2, <1>3 DEF t

LEMMA RemovedAt ==
    ASSUME NEW a, NEW s \in Seq(Nodes), NEW k \in 1 .. Len(s)
    PROVE  LET t == Removed(s, k) IN
           /\ \A i \in 0 .. Len(s) - 1 :
                CellAt(a, t, i) = IF i < k THEN CellAt(a, s, i) ELSE CellAt(a, s, i + 1)
           /\ \A i \in 1 .. Len(s) :
                NodeAt(t, i) = IF i < k THEN NodeAt(s, i) ELSE NodeAt(s, i + 1)
<1> DEFINE t == Removed(s, k)
<1>1. /\ Len(t) = Len(s) - 1 /\ Len(s) \in Nat
      /\ \A i \in 1 .. Len(s) - 1 : t[i] = IF i < k THEN s[i] ELSE s[i + 1]
  <2>1. /\ Len(Removed(s, k)) = Len(s) - 1
        /\ \A i \in 1 .. Len(s) - 1 : Removed(s, k)[i] = IF i < k THEN s[i] ELSE s[i + 1]
    BY RemovedIs
  <2>2. Len(s) \in Nat
    OBVIOUS
  <2> QED BY <2>1, <2>2
<1> HIDE DEF t
<1>2. \A i \in 0 .. Len(s) - 1 :
        CellAt(a, t, i) = IF i < k THEN CellAt(a, s, i) ELSE CellAt(a, s, i + 1)
  <2> TAKE i \in 0 .. Len(s) - 1
  <2>1. CASE i = 0
    BY <2>1 DEF CellAt
  <2>2. CASE i # 0
    <3>1. i \in 1 .. Len(s) - 1 /\ i + 1 # 0
      BY <1>1, <2>2
    <3> QED BY <1>1, <2>2, <3>1 DEF CellAt
  <2> QED BY <2>1, <2>2
<1>3. \A i \in 1 .. Len(s) :
        NodeAt(t, i) = IF i < k THEN NodeAt(s, i) ELSE NodeAt(s, i + 1)
  <2> TAKE i \in 1 .. Len(s)
  <2>1. CASE i \in 1 .. Len(s) - 1
    BY <1>1, <2>1 DEF NodeAt
  <2>2. CASE i = Len(s)
    BY <1>1, <2>2 DEF NodeAt
  <2> QED BY <1>1, <2>1, <2>2
<1> QED BY <1>2, <1>3 DEF t

\* LINEAR_LINKER_INSERT_AFTER_ behind the k-th cell of a list.
LEMMA InsertList ==
    ASSUME NEW h, NEW a, NEW s, NEW b, NEW d, TwoLists(h, a, s, b, d),
           NEW k \in 0 .. Len(s), NEW x \in Nodes, ~On(x, s, d)
    PROVE  TwoLists(InsertAfter(h, CellAt(a, s, k), x), a, Inserted(s, k, x), b, d)
<1> DEFINE t == Inserted(s, k, x)
           r == InsertAfter(h, CellAt(a, s, k), x)
<1>1. PICK cell : cell = CellAt(a, s, k)
  OBVIOUS
<1>2. PICK old : old = NodeAt(s, k + 1)
  OBVIOUS
<1>3. h \in Links /\ Disjoint(a, s, b, d) /\ s \in Seq(Nodes) /\ d \in Seq(Nodes)
  BY DEF TwoLists, Disjoint
<1>4. /\ Len(s) \in Nat /\ Len(d) \in Nat
      /\ \A i \in 1 .. Len(s) : s[i] \in Nodes /\ s[i] \in Cells /\ s[i] # a /\ s[i] # None
      /\ \A i \in 0 .. Len(s) : CellAt(a, s, i) \in Cells
      /\ \A i, j \in 0 .. Len(s) : CellAt(a, s, i) = CellAt(a, s, j) => i = j
      /\ \A i \in 0 .. Len(s), j \in 0 .. Len(d) : CellAt(a, s, i) # CellAt(b, d, j)
  BY <1>3, CellsOf
<1>5. /\ a # x /\ b # x /\ x # None /\ x \in Cells
      /\ \A i \in 1 .. Len(s) : s[i] # x
      /\ \A i \in 1 .. Len(d) : d[i] # x
      /\ \A i \in 0 .. Len(s) : CellAt(a, s, i) # x
      /\ \A i \in 0 .. Len(d) : CellAt(b, d, i) # x
  <2>1. a \in Heads /\ b \in Heads /\ x \notin Heads /\ x # None /\ x \in Cells
    BY <1>3, CellsAssumption DEF Disjoint, Cells
  <2>2. \A i \in 1 .. Len(s) : s[i] # x
    BY DEF On
  <2>3. \A i \in 1 .. Len(d) : d[i] # x
    BY DEF On
  <2>4. \A i \in 0 .. Len(s) : i = 0 \/ i \in 1 .. Len(s)
    BY <1>4
  <2>5. \A i \in 0 .. Len(d) : i = 0 \/ i \in 1 .. Len(d)
    BY <1>4
  <2> QED BY <2>1, <2>2, <2>3, <2>4, <2>5 DEF CellAt
<1>6. cell \in Cells /\ x # cell /\ h.next[cell] = old /\ old # x
  <2>1. h.next[cell] = old
    BY <1>1, <1>2 DEF TwoLists, Listed
  <2>2. old # x
    BY <1>2, <1>5 DEF NodeAt
  <2> QED BY <1>1, <1>4, <1>5, <2>1, <2>2
<1>7. /\ r \in Links
      /\ \A c \in Cells : r.next[c] = IF c = cell THEN x ELSE IF c = x THEN old ELSE h.next[c]
      /\ \A n \in Nodes : r.toSelf[n] = IF n = x THEN cell ELSE IF n = old THEN x ELSE h.toSelf[n]
  <2>1. r = InsertAfter(h, cell, x)
    BY <1>1
  <2> QED BY <1>3, <1>6, <2>1, InsertCells
<1> HIDE DEF r
<1>8. /\ t \in Seq(Nodes) /\ Len(t) = Len(s) + 1
      /\ \A i \in 1 .. Len(s) + 1 : t[i] = IF i <= k THEN s[i] ELSE IF i = k + 1 THEN x ELSE s[i - 1]
  <2> HIDE DEF t
  <2> QED BY <1>3, InsertedIs DEF t
<1>9. /\ \A i \in 0 .. Len(s) + 1 :
           CellAt(a, t, i) = IF i <= k THEN CellAt(a, s, i)
                             ELSE IF i = k + 1 THEN x ELSE CellAt(a, s, i - 1)
      /\ \A i \in 1 .. Len(s) + 2 :
           NodeAt(t, i) = IF i <= k THEN NodeAt(s, i)
                          ELSE IF i = k + 1 THEN x ELSE NodeAt(s, i - 1)
  <2> HIDE DEF t
  <2> QED BY <1>3, InsertedAt DEF t
<1> HIDE DEF t
<1>10. \A i \in 0 .. Len(t) : r.next[CellAt(a, t, i)] = NodeAt(t, i + 1)
  <2> TAKE i \in 0 .. Len(t)
  <2>1. i \in 0 .. Len(s) + 1 /\ i + 1 \in 1 .. Len(s) + 2 /\ k \in 0 .. Len(s) /\ (i + 1) - 1 = i
    BY <1>4, <1>8
  <2>2. CASE i < k
    <3>1. i \in 0 .. Len(s) /\ i # k /\ i <= k /\ i + 1 <= k
      BY <2>1, <2>2
    <3>2. CellAt(a, t, i) = CellAt(a, s, i) /\ NodeAt(t, i + 1) = NodeAt(s, i + 1)
      BY <1>9, <2>1, <3>1
    <3>3. CellAt(a, s, i) # cell /\ CellAt(a, s, i) # x /\ CellAt(a, s, i) \in Cells
      BY <1>1, <1>4, <1>5, <2>1, <3>1
    <3>4. h.next[CellAt(a, s, i)] = NodeAt(s, i + 1)
      BY <3>1 DEF TwoLists, Listed
    <3> QED BY <1>7, <3>2, <3>3, <3>4
  <2>3. CASE i = k
    <3>1. CellAt(a, t, i) = cell /\ NodeAt(t, i + 1) = x
      BY <1>1, <1>9, <2>1, <2>3
    <3> QED BY <1>6, <1>7, <3>1
  <2>4. CASE i = k + 1
    <3>1. CellAt(a, t, i) = x /\ NodeAt(t, i + 1) = old
      BY <1>2, <1>9, <2>1, <2>4
    <3> QED BY <1>5, <1>6, <1>7, <3>1
  <2>5. CASE i > k + 1
    <3>1. i - 1 \in 0 .. Len(s) /\ i - 1 # k /\ ~(i <= k) /\ i # k + 1 /\ ~(i + 1 <= k) /\ i + 1 # k + 1
          /\ (i - 1) + 1 = i
      BY <1>4, <2>1, <2>5
    <3>2. CellAt(a, t, i) = CellAt(a, s, i - 1) /\ NodeAt(t, i + 1) = NodeAt(s, i)
      BY <1>9, <2>1, <3>1
    <3>3. CellAt(a, s, i - 1) # cell /\ CellAt(a, s, i - 1) # x /\ CellAt(a, s, i - 1) \in Cells
      BY <1>1, <1>4, <1>5, <2>1, <3>1
    <3>4. h.next[CellAt(a, s, i - 1)] = NodeAt(s, i)
      BY <3>1 DEF TwoLists, Listed
    <3> QED BY <1>7, <3>2, <3>3, <3>4
  <2> QED BY <2>1, <2>2, <2>3, <2>4, <2>5
<1>11. \A i \in 1 .. Len(t) : r.toSelf[t[i]] = CellAt(a, t, i - 1)
  <2> TAKE i \in 1 .. Len(t)
  <2>1. i \in 1 .. Len(s) + 1 /\ i - 1 \in 0 .. Len(s) + 1 /\ k \in 0 .. Len(s) /\ (k + 1) - 1 = k
    BY <1>4, <1>8
  <2>2. CASE i <= k
    <3>1. i \in 1 .. Len(s) /\ i - 1 <= k
      BY <2>1, <2>2
    <3>2. t[i] = s[i] /\ CellAt(a, t, i - 1) = CellAt(a, s, i - 1)
      BY <1>8, <1>9, <2>1, <2>2, <3>1
    <3>3. s[i] # x /\ s[i] # old /\ s[i] \in Nodes
      <4>1. old = None \/ (k + 1 \in 1 .. Len(s) /\ old = s[k + 1])
        BY <1>2 DEF NodeAt
      <4>2. i # k + 1
        BY <2>1, <2>2
      <4> QED BY <1>3, <1>4, <1>5, <3>1, <4>1, <4>2 DEF Disjoint, Distinct
    <3>4. h.toSelf[s[i]] = CellAt(a, s, i - 1)
      BY <3>1 DEF TwoLists, Listed
    <3> QED BY <1>7, <3>2, <3>3, <3>4
  <2>3. CASE i = k + 1
    <3>1. t[i] = x /\ CellAt(a, t, i - 1) = cell
      <4>1. i - 1 = k /\ ~(i <= k)
        BY <2>1, <2>3
      <4> QED BY <1>1, <1>8, <1>9, <2>1, <2>3, <4>1
    <3> QED BY <1>7, <3>1
  <2>4. CASE i = k + 2
    <3>1. i - 1 \in 1 .. Len(s) /\ i - 1 = k + 1 /\ ~(i - 1 <= k) /\ ~(i <= k) /\ i # k + 1
      BY <1>4, <2>1, <2>4
    <3>2. t[i] = s[i - 1] /\ CellAt(a, t, i - 1) = x /\ old = s[i - 1]
      BY <1>2, <1>8, <1>9, <2>1, <3>1 DEF NodeAt
    <3> QED BY <1>4, <1>5, <1>7, <3>1, <3>2
  <2>5. CASE i > k + 2
    <3>1. /\ i - 1 \in 1 .. Len(s) /\ i - 1 # k + 1 /\ ~(i - 1 <= k) /\ ~(i <= k) /\ i # k + 1
          /\ (i - 1) - 1 \in 0 .. Len(s)
      BY <1>4, <2>1, <2>5
    <3>2. t[i] = s[i - 1] /\ CellAt(a, t, i - 1) = CellAt(a, s, (i - 1) - 1)
      BY <1>8, <1>9, <2>1, <3>1
    <3>3. s[i - 1] # x /\ s[i - 1] # old /\ s[i - 1] \in Nodes
      <4>1. old = None \/ (k + 1 \in 1 .. Len(s) /\ old = s[k + 1])
        BY <1>2 DEF NodeAt
      <4> QED BY <1>3, <1>4, <1>5, <3>1, <4>1 DEF Disjoint, Distinct
    <3>4. h.toSelf[s[i - 1]] = CellAt(a, s, (i - 1) - 1)
      BY <3>1 DEF TwoLists, Listed
    <3> QED BY <1>7, <3>2, <3>3, <3>4
  <2> QED BY <2>1, <2>2, <2>3, <2>4, <2>5
<1>12. Disjoint(a, t, b, d)
  <2>1. Distinct(t)
    <3> SUFFICES ASSUME NEW i \in 1 .. Len(t), NEW j \in 1 .. Len(t), t[i] = t[j] PROVE i = j
      BY DEF Distinct
    <3>0. t[k + 1] = x
      <4>1. k + 1 \in 1 .. Len(s) + 1 /\ ~(k + 1 <= k)
        BY <1>4
      <4> QED BY <1>8, <4>1
    <3>1. i \in 1 .. Len(s) + 1 /\ j \in 1 .. Len(s) + 1
      BY <1>8
    <3>2. \A m \in 1 .. Len(s) + 1 : (m <= k => m \in 1 .. Len(s)) /\ (m > k + 1 => m - 1 \in 1 .. Len(s) /\ m - 1 > k)
      BY <1>4
    <3>3. \A m, n \in 1 .. Len(s) : s[m] = s[n] => m = n
      BY <1>3 DEF Disjoint, Distinct
    <3>4. CASE i <= k
      <4>1. t[i] = s[i] /\ i \in 1 .. Len(s) /\ s[i] # x
        BY <1>5, <1>8, <3>1, <3>2, <3>4
      <4>2. CASE j <= k
        BY <1>8, <3>1, <3>2, <3>3, <4>1, <4>2
      <4>3. CASE j = k + 1
        BY <3>0, <4>1, <4>3
      <4>4. CASE j > k + 1
        <5>1. t[j] = s[j - 1] /\ j - 1 \in 1 .. Len(s) /\ j - 1 > k
          BY <1>8, <3>1, <3>2, <4>4
        <5>2. i = j - 1
          BY <3>3, <4>1, <5>1
        <5> QED BY <3>1, <3>4, <5>1, <5>2
      <4> QED BY <3>1, <4>2, <4>3, <4>4
    <3>5. CASE i = k + 1
      <4>1. t[i] = x
        BY <1>8, <3>1, <3>5
      <4>2. CASE j # k + 1
        <5>1. t[j] \in {s[m] : m \in 1 .. Len(s)}
          BY <1>8, <3>1, <3>2, <4>2
        <5> QED BY <1>5, <4>1, <5>1
      <4> QED BY <3>5, <4>2
    <3>6. CASE i > k + 1
      <4>1. t[i] = s[i - 1] /\ i - 1 \in 1 .. Len(s) /\ i - 1 > k /\ s[i - 1] # x
        BY <1>5, <1>8, <3>1, <3>2, <3>6
      <4>2. CASE j <= k
        <5>1. t[j] = s[j] /\ j \in 1 .. Len(s)
          BY <1>8, <3>1, <3>2, <4>2
        <5>2. j = i - 1
          BY <3>3, <4>1, <5>1
        <5> QED BY <3>1, <4>1, <4>2, <5>2
      <4>3. CASE j = k + 1
        BY <3>0, <4>1, <4>3
      <4>4. CASE j > k + 1
        <5>1. t[j] = s[j - 1] /\ j - 1 \in 1 .. Len(s)
          BY <1>8, <3>1, <3>2, <4>4
        <5>2. i - 1 = j - 1
          BY <3>3, <4>1, <5>1
        <5> QED BY <3>1, <5>2
      <4> QED BY <3>1, <4>2, <4>3, <4>4
    <3> QED BY <3>1, <3>4, <3>5, <3>6
  <2>2. \A i \in 1 .. Len(t), j \in 1 .. Len(d) : t[i] # d[j]
    <3>1. \A i \in 1 .. Len(t) : t[i] = x \/ \E m \in 1 .. Len(s) : t[i] = s[m]
      <4> TAKE i \in 1 .. Len(t)
      <4>1. i \in 1 .. Len(s) + 1 /\ (i <= k => i \in 1 .. Len(s)) /\ (i > k + 1 => i - 1 \in 1 .. Len(s))
        BY <1>4, <1>8
      <4> QED BY <1>8, <4>1
    <3> QED BY <1>3, <1>5, <3>1 DEF Disjoint
  <2> QED BY <1>3, <1>8, <2>1, <2>2 DEF Disjoint
<1>13. \A n : On(n, t, d) <=> n = x \/ On(n, s, d)
  <2>1. \A i \in 1 .. Len(t) : t[i] = x \/ \E m \in 1 .. Len(s) : t[i] = s[m]
    <3> TAKE i \in 1 .. Len(t)
    <3>1. i \in 1 .. Len(s) + 1 /\ (i <= k => i \in 1 .. Len(s)) /\ (i > k + 1 => i - 1 \in 1 .. Len(s))
      BY <1>4, <1>8
    <3> QED BY <1>8, <3>1
  <2>2. k + 1 \in 1 .. Len(t) /\ t[k + 1] = x
    BY <1>4, <1>8
  <2>3. \A m \in 1 .. Len(s) : \E i \in 1 .. Len(t) : t[i] = s[m]
    <3> TAKE m \in 1 .. Len(s)
    <3>1. CASE m <= k
      <4>1. m \in 1 .. Len(t) /\ t[m] = s[m]
        BY <1>4, <1>8, <3>1
      <4> QED BY <4>1
    <3>2. CASE m > k
      <4>1. m + 1 \in 1 .. Len(t) /\ m + 1 \in 1 .. Len(s) + 1 /\ ~(m + 1 <= k) /\ m + 1 # k + 1 /\ (m + 1) - 1 = m
        BY <1>4, <1>8, <3>2
      <4>2. t[m + 1] = s[m]
        BY <1>8, <4>1
      <4> QED BY <4>1, <4>2
    <3> QED BY <1>4, <3>1, <3>2
  <2> QED BY <2>1, <2>2, <2>3 DEF On
<1>14. Listed(r, b, d)
  <2>1. \A i \in 0 .. Len(d) : r.next[CellAt(b, d, i)] = h.next[CellAt(b, d, i)]
    <3> TAKE i \in 0 .. Len(d)
    <3>1. CellAt(b, d, i) # cell /\ CellAt(b, d, i) # x
      BY <1>1, <1>4, <1>5
    <3>2. CellAt(b, d, i) \in Cells
      <4>1. Disjoint(b, d, a, s)
        BY <1>3 DEF Disjoint
      <4> QED BY <4>1, CellsOf
    <3> QED BY <1>7, <3>1, <3>2
  <2>2. \A i \in 1 .. Len(d) : r.toSelf[d[i]] = h.toSelf[d[i]]
    <3> TAKE i \in 1 .. Len(d)
    <3>1. d[i] # x /\ d[i] \in Nodes
      BY <1>3, <1>5
    <3>2. d[i] # old
      BY <1>2, <1>3, <3>1, CellsAssumption DEF NodeAt, Disjoint
    <3> QED BY <1>7, <3>1, <3>2
  <2>3. Listed(h, b, d)
    BY DEF TwoLists
  <2> QED BY <1>3, <2>1, <2>2, <2>3, Frame
<1>15. \A c \in Cells : c # a /\ c # b /\ ~On(c, t, d) => r.next[c] = None
  <2> TAKE c \in Cells
  <2> HAVE c # a /\ c # b /\ ~On(c, t, d)
  <2>1. c # x /\ ~On(c, s, d)
    BY <1>13
  <2>2. c # cell
    <3>1. k = 0 \/ k \in 1 .. Len(s)
      BY <1>4
    <3> QED BY <1>1, <2>1, <3>1 DEF CellAt, On
  <2> QED BY <1>7, <2>1, <2>2 DEF TwoLists
<1>16. \A n \in Nodes : ~On(n, t, d) => r.toSelf[n] = None
  <2> TAKE n \in Nodes
  <2> HAVE ~On(n, t, d)
  <2>1. n # x /\ ~On(n, s, d)
    BY <1>13
  <2>2. n # old
    BY <1>2, <2>1, CellsAssumption DEF NodeAt, On
  <2> QED BY <1>7, <2>1, <2>2 DEF TwoLists
<1>17. TwoLists(r, a, t, b, d)
  BY <1>7, <1>10, <1>11, <1>12, <1>14, <1>15, <1>16 DEF TwoLists, Listed
<1> QED BY <1>17 DEF r, t

\* LINEAR_LINKER_DEL_ of the k-th node of a list.
LEMMA DeleteList ==
    ASSUME NEW h, NEW a, NEW s, NEW b, NEW d, TwoLists(h, a, s, b, d), NEW k \in 1 .. Len(s)
    PROVE  /\ TwoLists(Del(h, s[k]), a, Removed(s, k), b, d)
           /\ \A n : On(n, Removed(s, k), d) <=> n # s[k] /\ On(n, s, d)
<1> DEFINE t == Removed(s, k)
           r == Del(h, s[k])
<1>1. PICK cell : cell = CellAt(a, s, k - 1)
  OBVIOUS
<1>2. PICK second : second = NodeAt(s, k + 1)
  OBVIOUS
<1>3. PICK node : node = s[k]
  OBVIOUS
<1>4. h \in Links /\ Disjoint(a, s, b, d) /\ s \in Seq(Nodes) /\ d \in Seq(Nodes)
  BY DEF TwoLists, Disjoint
<1>5. /\ Len(s) \in Nat /\ Len(d) \in Nat
      /\ \A i \in 1 .. Len(s) : s[i] \in Nodes /\ s[i] \in Cells /\ s[i] # a /\ s[i] # None
      /\ \A i \in 0 .. Len(s) : CellAt(a, s, i) \in Cells
      /\ \A i, j \in 0 .. Len(s) : CellAt(a, s, i) = CellAt(a, s, j) => i = j
      /\ \A i \in 0 .. Len(s), j \in 0 .. Len(d) : CellAt(a, s, i) # CellAt(b, d, j)
  BY <1>4, CellsOf
<1>6. /\ k \in 0 .. Len(s) /\ k - 1 \in 0 .. Len(s) /\ k - 1 # k /\ (k - 1) + 1 = k
      /\ node = CellAt(a, s, k) /\ node = NodeAt(s, k)
      /\ \A i, j \in 1 .. Len(s) : s[i] = s[j] => i = j
  BY <1>3, <1>4, <1>5 DEF CellAt, NodeAt, Disjoint, Distinct
<1>7. /\ node \in Nodes /\ node \in Cells /\ cell \in Cells /\ node # cell /\ cell # None
      /\ h.next[cell] = node /\ h.next[node] = second /\ h.toSelf[node] = cell
      /\ second # node
  <2>1. h.next[cell] = node /\ h.next[node] = second
    BY <1>1, <1>2, <1>6 DEF TwoLists, Listed
  <2>2. h.toSelf[node] = cell
    BY <1>1, <1>3 DEF TwoLists, Listed
  <2>3. node # cell /\ cell \in Cells /\ node \in Nodes /\ node \in Cells
    BY <1>1, <1>3, <1>5, <1>6
  <2>4. second # node
    <3>1. second = None \/ (k + 1 \in 1 .. Len(s) /\ second = s[k + 1])
      BY <1>2 DEF NodeAt
    <3>2. k + 1 # k
      BY <1>6
    <3> QED BY <1>3, <1>5, <1>6, <3>1, <3>2
  <2> QED BY <2>1, <2>2, <2>3, <2>4, CellsAssumption DEF Cells
<1>8. /\ r \in Links
      /\ \A c \in Cells : r.next[c] = IF c = node THEN None ELSE IF c = cell THEN second ELSE h.next[c]
      /\ \A n \in Nodes : r.toSelf[n] = IF n = node THEN None ELSE IF n = second THEN cell ELSE h.toSelf[n]
  <2>1. r = Del(h, node)
    BY <1>3
  <2> QED BY <1>4, <1>7, <2>1, DelCells
<1> HIDE DEF r
<1>9. /\ t \in Seq(Nodes) /\ Len(t) = Len(s) - 1
      /\ \A i \in 1 .. Len(s) - 1 : t[i] = IF i < k THEN s[i] ELSE s[i + 1]
  <2> HIDE DEF t
  <2> QED BY <1>4, RemovedIs DEF t
<1>10. /\ \A i \in 0 .. Len(s) - 1 :
            CellAt(a, t, i) = IF i < k THEN CellAt(a, s, i) ELSE CellAt(a, s, i + 1)
       /\ \A i \in 1 .. Len(s) :
            NodeAt(t, i) = IF i < k THEN NodeAt(s, i) ELSE NodeAt(s, i + 1)
  <2> HIDE DEF t
  <2> QED BY <1>4, RemovedAt DEF t
<1> HIDE DEF t
<1>11. \A i \in 0 .. Len(t) : r.next[CellAt(a, t, i)] = NodeAt(t, i + 1)
  <2> TAKE i \in 0 .. Len(t)
  <2>1. i \in 0 .. Len(s) - 1 /\ i + 1 \in 1 .. Len(s) /\ k \in 1 .. Len(s)
    BY <1>5, <1>9
  <2>2. CASE i < k - 1
    <3>1. i \in 0 .. Len(s) /\ i # k - 1 /\ i # k /\ i < k /\ i + 1 < k
      BY <1>5, <2>1, <2>2
    <3>2. CellAt(a, t, i) = CellAt(a, s, i) /\ NodeAt(t, i + 1) = NodeAt(s, i + 1)
      BY <1>10, <2>1, <3>1
    <3>3. CellAt(a, s, i) # cell /\ CellAt(a, s, i) # node /\ CellAt(a, s, i) \in Cells
      BY <1>1, <1>5, <1>6, <3>1
    <3>4. h.next[CellAt(a, s, i)] = NodeAt(s, i + 1)
      BY <3>1 DEF TwoLists, Listed
    <3> QED BY <1>8, <3>2, <3>3, <3>4
  <2>3. CASE i = k - 1
    <3>1. i < k /\ i + 1 = k /\ ~(i + 1 < k) /\ (i + 1) + 1 = k + 1
      BY <2>1, <2>3
    <3>2. CellAt(a, t, i) = cell /\ NodeAt(t, i + 1) = second
      BY <1>1, <1>2, <1>10, <2>1, <2>3, <3>1
    <3> QED BY <1>7, <1>8, <3>2
  <2>4. CASE i >= k
    <3>1. i + 1 \in 0 .. Len(s) /\ i + 1 # k - 1 /\ i + 1 # k /\ ~(i < k) /\ ~(i + 1 < k)
      BY <1>5, <2>1, <2>4
    <3>2. CellAt(a, t, i) = CellAt(a, s, i + 1) /\ NodeAt(t, i + 1) = NodeAt(s, (i + 1) + 1)
      BY <1>10, <2>1, <3>1
    <3>3. CellAt(a, s, i + 1) # cell /\ CellAt(a, s, i + 1) # node /\ CellAt(a, s, i + 1) \in Cells
      BY <1>1, <1>5, <1>6, <3>1
    <3>4. h.next[CellAt(a, s, i + 1)] = NodeAt(s, (i + 1) + 1)
      BY <3>1 DEF TwoLists, Listed
    <3> QED BY <1>8, <3>2, <3>3, <3>4
  <2> QED BY <2>1, <2>2, <2>3, <2>4
<1>12. \A i \in 1 .. Len(t) : r.toSelf[t[i]] = CellAt(a, t, i - 1)
  <2> TAKE i \in 1 .. Len(t)
  <2>1. i \in 1 .. Len(s) - 1 /\ i - 1 \in 0 .. Len(s) - 1 /\ k \in 1 .. Len(s) /\ i \in 1 .. Len(s)
        /\ i + 1 \in 1 .. Len(s) /\ (i - 1) + 1 = i /\ (i + 1) - 1 = i
    BY <1>5, <1>9
  <2>2. CASE i < k
    <3>1. i # k /\ i # k + 1 /\ i - 1 < k
      BY <2>1, <2>2
    <3>2. t[i] = s[i] /\ CellAt(a, t, i - 1) = CellAt(a, s, i - 1)
      BY <1>9, <1>10, <2>1, <2>2, <3>1
    <3>3. s[i] # node /\ s[i] # second /\ s[i] \in Nodes
      <4>1. second = None \/ (k + 1 \in 1 .. Len(s) /\ second = s[k + 1])
        BY <1>2 DEF NodeAt
      <4> QED BY <1>3, <1>5, <1>6, <2>1, <3>1, <4>1
    <3>4. h.toSelf[s[i]] = CellAt(a, s, i - 1)
      BY <2>1 DEF TwoLists, Listed
    <3> QED BY <1>8, <3>2, <3>3, <3>4
  <2>3. CASE i = k
    <3>1. i - 1 < k /\ ~(i < k) /\ i - 1 = k - 1
      BY <2>1, <2>3
    <3>2. t[i] = second /\ CellAt(a, t, i - 1) = cell
      BY <1>1, <1>2, <1>9, <1>10, <2>1, <2>3, <3>1 DEF NodeAt
    <3>3. second \in Nodes
      BY <1>9, <3>2
    <3> QED BY <1>7, <1>8, <3>2, <3>3
  <2>4. CASE i > k
    <3>1. ~(i < k) /\ ~(i - 1 < k) /\ i + 1 # k /\ i + 1 # k + 1
      BY <2>1, <2>4
    <3>2. t[i] = s[i + 1] /\ CellAt(a, t, i - 1) = CellAt(a, s, i)
      BY <1>9, <1>10, <2>1, <3>1
    <3>3. s[i + 1] # node /\ s[i + 1] # second /\ s[i + 1] \in Nodes
      <4>1. second = None \/ (k + 1 \in 1 .. Len(s) /\ second = s[k + 1])
        BY <1>2 DEF NodeAt
      <4> QED BY <1>3, <1>5, <1>6, <2>1, <3>1, <4>1
    <3>4. h.toSelf[s[i + 1]] = CellAt(a, s, i)
      BY <2>1 DEF TwoLists, Listed
    <3> QED BY <1>8, <3>2, <3>3, <3>4
  <2> QED BY <2>1, <2>2, <2>3, <2>4
<1>13. \A i \in 1 .. Len(t) : \E m \in 1 .. Len(s) : t[i] = s[m] /\ m # k
  <2> TAKE i \in 1 .. Len(t)
  <2>1. i \in 1 .. Len(s) - 1 /\ i \in 1 .. Len(s) /\ i + 1 \in 1 .. Len(s) /\ (i < k => i # k) /\ (~(i < k) => i + 1 # k)
    BY <1>5, <1>9
  <2> QED BY <1>9, <2>1
<1>14. Disjoint(a, t, b, d)
  <2>1. Distinct(t)
    <3> SUFFICES ASSUME NEW i \in 1 .. Len(t), NEW j \in 1 .. Len(t), t[i] = t[j] PROVE i = j
      BY DEF Distinct
    <3>1. /\ i \in 1 .. Len(s) - 1 /\ j \in 1 .. Len(s) - 1 /\ i + 1 \in 1 .. Len(s) /\ j + 1 \in 1 .. Len(s)
          /\ i \in 1 .. Len(s) /\ j \in 1 .. Len(s)
      BY <1>5, <1>9
    <3>2. (IF i < k THEN i ELSE i + 1) = (IF j < k THEN j ELSE j + 1)
      BY <1>6, <1>9, <3>1
    <3> QED BY <3>1, <3>2
  <2>2. \A i \in 1 .. Len(t), j \in 1 .. Len(d) : t[i] # d[j]
    BY <1>4, <1>13 DEF Disjoint
  <2> QED BY <1>4, <1>9, <2>1, <2>2 DEF Disjoint
<1>15. \A n : On(n, t, d) <=> n # node /\ On(n, s, d)
  <2>1. \A m \in 1 .. Len(s) : m # k => \E i \in 1 .. Len(t) : t[i] = s[m]
    <3> TAKE m \in 1 .. Len(s)
    <3> HAVE m # k
    <3>1. CASE m < k
      <4>1. m \in 1 .. Len(t) /\ m \in 1 .. Len(s) - 1
        BY <1>5, <1>9, <3>1
      <4>2. t[m] = s[m]
        BY <1>9, <3>1, <4>1
      <4> QED BY <4>1, <4>2
    <3>2. CASE m > k
      <4>1. m - 1 \in 1 .. Len(t) /\ m - 1 \in 1 .. Len(s) - 1 /\ ~(m - 1 < k) /\ (m - 1) + 1 = m
        BY <1>5, <1>9, <3>2
      <4>2. t[m - 1] = s[m]
        BY <1>9, <4>1
      <4> QED BY <4>1, <4>2
    <3> QED BY <1>5, <3>1, <3>2
  <2>2. \A i \in 1 .. Len(t) : t[i] # node
    BY <1>3, <1>6, <1>13
  <2>3. \A j \in 1 .. Len(d) : d[j] # node
    BY <1>3, <1>4 DEF Disjoint
  <2> QED BY <1>3, <1>13, <2>1, <2>2, <2>3 DEF On
<1>16. Listed(r, b, d)
  <2>1. \A i \in 0 .. Len(d) : r.next[CellAt(b, d, i)] = h.next[CellAt(b, d, i)]
    <3> TAKE i \in 0 .. Len(d)
    <3>1. CellAt(b, d, i) # cell /\ CellAt(b, d, i) # node
      BY <1>1, <1>5, <1>6
    <3>2. CellAt(b, d, i) \in Cells
      <4>1. Disjoint(b, d, a, s)
        BY <1>4 DEF Disjoint
      <4> QED BY <4>1, CellsOf
    <3> QED BY <1>8, <3>1, <3>2
  <2>2. \A i \in 1 .. Len(d) : r.toSelf[d[i]] = h.toSelf[d[i]]
    <3> TAKE i \in 1 .. Len(d)
    <3>1. d[i] # node /\ d[i] \in Nodes
      BY <1>3, <1>4 DEF Disjoint
    <3>2. d[i] # second
      BY <1>2, <1>4, <3>1, CellsAssumption DEF NodeAt, Disjoint
    <3> QED BY <1>8, <3>1, <3>2
  <2>3. Listed(h, b, d)
    BY DEF TwoLists
  <2> QED BY <1>4, <2>1, <2>2, <2>3, Frame
<1>17. \A c \in Cells : c # a /\ c # b /\ ~On(c, t, d) => r.next[c] = None
  <2> TAKE c \in Cells
  <2> HAVE c # a /\ c # b /\ ~On(c, t, d)
  <2>1. CASE c = node
    BY <1>8, <2>1
  <2>2. CASE c # node
    <3>1. ~On(c, s, d)
      BY <1>15, <2>2
    <3>2. c # cell
      <4>1. k - 1 = 0 \/ k - 1 \in 1 .. Len(s)
        BY <1>5
      <4> QED BY <1>1, <3>1, <4>1 DEF CellAt, On
    <3> QED BY <1>8, <2>2, <3>1, <3>2 DEF TwoLists
  <2> QED BY <2>1, <2>2
<1>18. \A n \in Nodes : ~On(n, t, d) => r.toSelf[n] = None
  <2> TAKE n \in Nodes
  <2> HAVE ~On(n, t, d)
  <2>1. CASE n = node
    BY <1>8, <2>1
  <2>2. CASE n # node
    <3>1. ~On(n, s, d)
      BY <1>15, <2>2
    <3>2. n # second
      BY <1>2, <3>1, CellsAssumption DEF NodeAt, On
    <3> QED BY <1>8, <2>2, <3>1, <3>2 DEF TwoLists
  <2> QED BY <2>1, <2>2
<1>19. TwoLists(r, a, t, b, d)
  BY <1>8, <1>11, <1>12, <1>14, <1>16, <1>17, <1>18 DEF TwoLists, Listed
<1> QED BY <1>3, <1>15, <1>19 DEF r, t

\* LINEAR_LINKER_POP_ deletes the first node of a list.
LEMMA PopIsDel ==
    ASSUME NEW h, NEW a, NEW s, NEW b, NEW d, TwoLists(h, a, s, b, d), s # <<>>
    PROVE  1 \in 1 .. Len(s) /\ h.next[a] = s[1] /\ Pop(h, a) = Del(h, s[1])
<1>1. s \in Seq(Nodes)
  BY DEF TwoLists, Disjoint
<1>2. 1 \in 1 .. Len(s) /\ 0 \in 0 .. Len(s) /\ 1 - 1 = 0 /\ 0 + 1 = 1
  BY <1>1
<1>3. h.next[CellAt(a, s, 0)] = NodeAt(s, 1) /\ h.toSelf[s[1]] = CellAt(a, s, 0)
  BY <1>2 DEF TwoLists, Listed
<1>4. h.next[a] = s[1] /\ h.toSelf[s[1]] = a
  BY <1>2, <1>3 DEF CellAt, NodeAt
<1>5. s[1] # None
  BY <1>1, <1>2, CellsAssumption
<1> QED BY <1>2, <1>4, <1>5 DEF Pop, Del

-----------------------------------------------------------------------------
(* Loops over a list. *)

\* Numbers that descend along every list: no list runs in a circle.
Descends(h, rank) ==
    /\ h \in Links /\ rank \in [Cells -> Nat]
    /\ \A c \in Cells : h.next[c] # None => rank[h.next[c]] < rank[c]

Acyclic(h) == \E rank : Descends(h, rank)

\* A sequence of nodes behind a cell.
Behind(h, head, s) ==
    /\ h \in Links /\ head \in Cells /\ s \in Seq(Nodes)
    /\ \A i \in 0 .. Len(s) : h.next[CellAt(head, s, i)] = NodeAt(s, i + 1)

LEMMA TwoListsAcyclic ==
    ASSUME NEW h, NEW a, NEW s, NEW b, NEW d, TwoLists(h, a, s, b, d)
    PROVE  \E rank : /\ Descends(h, rank)
                     /\ \A i \in 0 .. Len(s) : rank[CellAt(a, s, i)] = Len(s) - i
<1> DEFINE At(c) == CHOOSE i \in 0 .. Len(s) : CellAt(a, s, i) = c
           Bt(c) == CHOOSE i \in 0 .. Len(d) : CellAt(b, d, i) = c
           inA(c) == \E i \in 0 .. Len(s) : CellAt(a, s, i) = c
           inB(c) == \E i \in 0 .. Len(d) : CellAt(b, d, i) = c
           value(c) == IF inA(c) THEN Len(s) - At(c) ELSE IF inB(c) THEN Len(d) - Bt(c) ELSE 0
           rank == [c \in Cells |-> value(c)]
<1>1. Disjoint(a, s, b, d) /\ Disjoint(b, d, a, s)
  BY DEF TwoLists, Disjoint
<1>2. /\ Len(s) \in Nat /\ Len(d) \in Nat
      /\ \A i \in 0 .. Len(s) : CellAt(a, s, i) \in Cells
      /\ \A i, j \in 0 .. Len(s) : CellAt(a, s, i) = CellAt(a, s, j) => i = j
      /\ \A i \in 0 .. Len(s), j \in 0 .. Len(d) : CellAt(a, s, i) # CellAt(b, d, j)
  BY <1>1, CellsOf
<1>3. /\ \A i \in 0 .. Len(d) : CellAt(b, d, i) \in Cells
      /\ \A i, j \in 0 .. Len(d) : CellAt(b, d, i) = CellAt(b, d, j) => i = j
  BY <1>1, CellsOf
<1>4. \A i \in 0 .. Len(s) : inA(CellAt(a, s, i)) /\ At(CellAt(a, s, i)) = i
  BY <1>2
<1>5. \A i \in 0 .. Len(d) : inB(CellAt(b, d, i)) /\ ~inA(CellAt(b, d, i)) /\ Bt(CellAt(b, d, i)) = i
  BY <1>2, <1>3
<1>6. /\ \A i \in 0 .. Len(s) : value(CellAt(a, s, i)) = Len(s) - i
      /\ \A i \in 0 .. Len(d) : value(CellAt(b, d, i)) = Len(d) - i
      /\ \A c : ~inA(c) /\ ~inB(c) => value(c) = 0
  <2> HIDE DEF At, Bt, inA, inB
  <2> QED BY <1>4, <1>5
<1> HIDE DEF value
<1>7. \A c \in Cells : value(c) \in Nat
  <2> TAKE c \in Cells
  <2>1. CASE inA(c)
    <3>1. PICK i \in 0 .. Len(s) : CellAt(a, s, i) = c
      BY <2>1
    <3>2. Len(s) - i \in Nat
      BY <1>2
    <3> QED BY <1>6, <3>1, <3>2
  <2>2. CASE inB(c)
    <3>1. PICK i \in 0 .. Len(d) : CellAt(b, d, i) = c
      BY <2>2
    <3>2. Len(d) - i \in Nat
      BY <1>2
    <3> QED BY <1>6, <3>1, <3>2
  <2> HIDE DEF inA, inB
  <2> QED BY <1>6, <2>1, <2>2
<1>8. rank \in [Cells -> Nat] /\ \A c \in Cells : rank[c] = value(c)
  BY <1>7
<1>9. ASSUME NEW c \in Cells, h.next[c] # None PROVE rank[h.next[c]] < rank[c]
  <2>1. inA(c) \/ inB(c)
    <3> SUFFICES ASSUME ~inA(c), ~inB(c) PROVE FALSE
      OBVIOUS
    <3>1. c # a /\ c # b /\ ~On(c, s, d)
      <4>1. 0 \in 0 .. Len(s) /\ 0 \in 0 .. Len(d)
        BY <1>2
      <4>2. \A i \in 1 .. Len(s) : i \in 0 .. Len(s) /\ i # 0
        BY <1>2
      <4>3. \A i \in 1 .. Len(d) : i \in 0 .. Len(d) /\ i # 0
        BY <1>2
      <4> QED BY <4>1, <4>2, <4>3 DEF CellAt, On
    <3> QED BY <1>9, <3>1 DEF TwoLists
  <2>2. CASE inA(c)
    <3>1. PICK i \in 0 .. Len(s) : CellAt(a, s, i) = c
      BY <2>2
    <3>2. h.next[c] = NodeAt(s, i + 1)
      BY <3>1 DEF TwoLists, Listed
    <3>3. i + 1 \in 1 .. Len(s) /\ h.next[c] = s[i + 1] /\ i + 1 # 0 /\ i + 1 \in 0 .. Len(s)
      BY <1>2, <1>9, <3>2 DEF NodeAt
    <3>4. h.next[c] = CellAt(a, s, i + 1)
      BY <3>3 DEF CellAt
    <3>5. value(h.next[c]) = Len(s) - (i + 1) /\ value(c) = Len(s) - i /\ h.next[c] \in Cells
      BY <1>2, <1>6, <3>1, <3>3, <3>4
    <3>6. Len(s) - (i + 1) < Len(s) - i
      BY <1>2
    <3> QED BY <1>8, <3>5, <3>6
  <2>3. CASE inB(c)
    <3>1. PICK i \in 0 .. Len(d) : CellAt(b, d, i) = c
      BY <2>3
    <3>2. h.next[c] = NodeAt(d, i + 1)
      BY <3>1 DEF TwoLists, Listed
    <3>3. i + 1 \in 1 .. Len(d) /\ h.next[c] = d[i + 1] /\ i + 1 # 0 /\ i + 1 \in 0 .. Len(d)
      BY <1>2, <1>9, <3>2 DEF NodeAt
    <3>4. h.next[c] = CellAt(b, d, i + 1)
      BY <3>3 DEF CellAt
    <3>5. value(h.next[c]) = Len(d) - (i + 1) /\ value(c) = Len(d) - i /\ h.next[c] \in Cells
      BY <1>3, <1>6, <3>1, <3>3, <3>4
    <3>6. Len(d) - (i + 1) < Len(d) - i
      BY <1>2
    <3> QED BY <1>8, <3>5, <3>6
  <2> QED BY <2>1, <2>2, <2>3
<1>10. \A i \in 0 .. Len(s) : rank[CellAt(a, s, i)] = Len(s) - i
  BY <1>2, <1>6, <1>8
<1>11. h \in Links
  BY DEF TwoLists
<1> QED BY <1>8, <1>9, <1>10, <1>11 DEF Descends

\* The list of a head, as it is read from its pointers.
LEMMA ChainIs ==
    ASSUME NEW h, Acyclic(h), NEW head, NEW s, Behind(h, head, s)
    PROVE  Chain(h, head) = s
<1> DEFINE Body(f) == [c \in Cells |-> IF h.next[c] = None THEN <<>>
                                       ELSE <<h.next[c]>> \o f[h.next[c]]]
           F == CHOOSE f : f = Body(f)
           S == Seq(Nodes)
<1>0. PICK rank : Descends(h, rank)
  BY DEF Acyclic
<1>1. /\ \A c \in Cells : h.next[c] \in Nodes \cup {None}
      /\ None \notin Nodes /\ Nodes \subseteq Cells
  BY CellsAssumption DEF Behind, Links, Cells
<1>2. \E f : f = Body(f)
  <2> DEFINE onward(c) == IF h.next[c] = None THEN c ELSE h.next[c]
             grown(c, x) == IF h.next[c] = None THEN x ELSE <<h.next[c]>> \o x
             r == [stop |-> {c \in Cells : h.next[c] = None},
                   base |-> [c \in Cells |-> <<>>],
                   next |-> [c \in Cells |-> onward(c)],
                   step |-> [c \in Cells |-> [x \in S |-> grown(c, x)]],
                   rank |-> rank]
  <2>1. \A c \in Cells : onward(c) \in Cells
    BY <1>1
  <2>2. \A c \in Cells : \A x \in S : grown(c, x) \in S
    <3> TAKE c \in Cells
    <3> TAKE x \in S
    <3>1. CASE h.next[c] # None
      <4>1. h.next[c] \in Nodes
        BY <1>1, <3>1
      <4>2. <<h.next[c]>> \in S
        BY <4>1
      <4>3. <<h.next[c]>> \o x \in S
        BY <4>2
      <4> QED BY <3>1, <4>3
    <3> QED BY <3>1
  <2> DEFINE stop == r.stop
             base == r.base
             next == r.next
             step == r.step
  <2>3. /\ stop \in SUBSET Cells /\ base \in [Cells -> S] /\ next \in [Cells -> Cells]
        /\ step \in [Cells -> [S -> S]]
    <3>1. step \in [Cells -> [S -> S]]
      <4> HIDE DEF grown, onward
      <4> QED BY <2>2
    <3> HIDE DEF onward, grown
    <3> QED BY <2>1, <3>1
  <2>4. \A c \in Cells : /\ c \in stop <=> h.next[c] = None
                         /\ base[c] = <<>>
                         /\ h.next[c] # None => next[c] = h.next[c]
                         /\ h.next[c] # None => \A x \in S : step[c][x] = <<h.next[c]>> \o x
    OBVIOUS
  <2>5. r \in Recursions(Cells, S)
    <3>1. \A c \in Cells \ stop : rank[next[c]] < rank[c]
      <4> HIDE DEF stop, next
      <4> QED BY <1>0, <2>4 DEF Descends
    <3>2. r = [stop |-> stop, base |-> base, next |-> next, step |-> step, rank |-> rank]
      OBVIOUS
    <3>3. rank \in [Cells -> Nat]
      BY <1>0 DEF Descends
    <3> HIDE DEF r, stop, next, base, step
    <3> QED BY <2>3, <3>1, <3>2, <3>3 DEF Recursions
  <2>6. r.stop = stop /\ r.base = base /\ r.next = next /\ r.step = step
    OBVIOUS
  <2> HIDE DEF r, stop, next, base, step
  <2>7. PICK f : f \in Solutions(Cells, S, r)
    BY <2>5, RecursionDefined
  <2>8. f \in [Cells -> S] /\ \A c \in Cells :
           f[c] = IF c \in stop THEN base[c] ELSE step[c][f[next[c]]]
    BY <2>6, <2>7 DEF Solutions
  <2>9. \A c \in Cells : f[c] = IF h.next[c] = None THEN <<>> ELSE <<h.next[c]>> \o f[h.next[c]]
    <3> TAKE c \in Cells
    <3>1. CASE h.next[c] = None
      BY <2>4, <2>8, <3>1
    <3>2. CASE h.next[c] # None
      <4>1. h.next[c] \in Cells /\ f[h.next[c]] \in S
        BY <1>1, <2>8, <3>2
      <4>2. f[c] = step[c][f[h.next[c]]]
        BY <2>4, <2>8, <3>2
      <4>3. \A x \in S : step[c][x] = <<h.next[c]>> \o x
        BY <2>4, <3>2
      <4> HIDE DEF S
      <4> QED BY <3>2, <4>1, <4>2, <4>3
    <3> QED BY <3>1, <3>2
  <2>10. f = Body(f)
    BY <2>8, <2>9
  <2> QED BY <2>10
<1>3. F = Body(F)
  <2> HIDE DEF Body
  <2> QED BY <1>2
<1>4. Chain(h, head) = F[head]
  BY DEF Chain
<1> HIDE DEF F
<1>5. \A c \in Cells : F[c] = IF h.next[c] = None THEN <<>> ELSE <<h.next[c]>> \o F[h.next[c]]
  BY <1>3
<1>6. s \in Seq(Nodes) /\ Len(s) \in Nat /\ head \in Cells
      /\ \A i \in 1 .. Len(s) : s[i] \in Nodes /\ s[i] \in Cells /\ s[i] # None
  BY <1>1 DEF Behind
<1> DEFINE Right(k) == /\ F[CellAt(head, s, Len(s) - k)] \in Seq(Nodes)
                       /\ Len(F[CellAt(head, s, Len(s) - k)]) = k
                       /\ \A j \in 1 .. k : F[CellAt(head, s, Len(s) - k)][j] = s[Len(s) - k + j]
           wrong == {k \in 0 .. Len(s) : ~Right(k)}
<1>7. \A i \in 0 .. Len(s) : CellAt(head, s, i) \in Cells /\ h.next[CellAt(head, s, i)] = NodeAt(s, i + 1)
  <2>1. \A i \in 0 .. Len(s) : i = 0 \/ i \in 1 .. Len(s)
    BY <1>6
  <2> QED BY <1>6, <2>1 DEF Behind, CellAt
<1>8. Right(0)
  <2>1. Len(s) \in 0 .. Len(s) /\ Len(s) - 0 = Len(s) /\ Len(s) + 1 \notin 1 .. Len(s)
    BY <1>6
  <2>2. F[CellAt(head, s, Len(s))] = <<>>
    BY <1>5, <1>7, <2>1 DEF NodeAt
  <2>3. F[CellAt(head, s, Len(s) - 0)] = <<>>
    BY <2>1, <2>2
  <2>4. <<>> \in Seq(Nodes) /\ Len(<<>>) = 0 /\ \A j \in 1 .. 0 : FALSE
    OBVIOUS
  <2> QED BY <2>3, <2>4, Zenon
<1>9. ASSUME NEW k \in 0 .. Len(s), k # Len(s), Right(k) PROVE Right(k + 1)
  <2>1. PICK i : i = Len(s) - (k + 1)
    OBVIOUS
  <2>2. /\ i \in 0 .. Len(s) /\ i + 1 \in 1 .. Len(s) /\ i + 1 = Len(s) - k /\ i + 1 # 0
        /\ k \in Nat
    BY <1>6, <1>9, <2>1
  <2>3. CellAt(head, s, i) \in Cells /\ h.next[CellAt(head, s, i)] = s[i + 1] /\ s[i + 1] # None
    BY <1>6, <1>7, <2>2 DEF NodeAt
  <2>4. CellAt(head, s, Len(s) - k) = s[i + 1]
    BY <2>2 DEF CellAt
  <2>5. PICK x : x = F[s[i + 1]]
    OBVIOUS
  <2>6. /\ x \in Seq(Nodes) /\ Len(x) = k
        /\ \A j \in 1 .. k : x[j] = s[(i + 1) + j]
    BY <1>9, <2>2, <2>4, <2>5
  <2>7. F[CellAt(head, s, i)] = <<s[i + 1]>> \o x
    BY <1>5, <2>3, <2>5
  <2>8. PICK y : y = <<s[i + 1]>>
    OBVIOUS
  <2>9. y \in Seq(Nodes) /\ Len(y) = 1 /\ y[1] = s[i + 1]
    BY <1>6, <2>2, <2>8
  <2>10. /\ y \o x \in Seq(Nodes) /\ Len(y \o x) = 1 + k
         /\ \A j \in 1 .. 1 + k : (y \o x)[j] = IF j <= 1 THEN y[j] ELSE x[j - 1]
    <3>1. /\ y \o x \in Seq(Nodes) /\ Len(y \o x) = Len(y) + Len(x)
          /\ \A j \in 1 .. Len(y) + Len(x) : (y \o x)[j] = IF j <= Len(y) THEN y[j] ELSE x[j - Len(y)]
      BY <2>6, <2>9, ConcatProperties
    <3> QED BY <2>6, <2>9, <3>1
  <2>11. \A j \in 1 .. k + 1 : (y \o x)[j] = s[i + j]
    <3> TAKE j \in 1 .. k + 1
    <3>1. CASE j = 1
      BY <2>2, <2>9, <2>10, <3>1
    <3>2. CASE j # 1
      <4>1. j - 1 \in 1 .. k /\ (i + 1) + (j - 1) = i + j /\ j \in 1 .. 1 + k /\ ~(j <= 1)
        BY <2>2, <3>2
      <4> QED BY <2>6, <2>10, <4>1
    <3> QED BY <3>1, <3>2
  <2>12. 1 + k = k + 1
    BY <2>2
  <2> QED BY <2>1, <2>7, <2>8, <2>10, <2>11, <2>12
<1>10. wrong = {}
  <2> SUFFICES ASSUME wrong # {} PROVE FALSE
    OBVIOUS
  <2>1. wrong \subseteq Nat
    BY <1>6
  <2>2. PICK k \in wrong : \A j \in wrong : k <= j
    <3> HIDE DEF wrong
    <3> QED BY <2>1, Least
  <2>3. k \in 0 .. Len(s) /\ ~Right(k)
    OBVIOUS
  <2> HIDE DEF Right
  <2>4. k # 0
    BY <1>8, <2>3
  <2>5. k - 1 \in 0 .. Len(s) /\ k - 1 # Len(s) /\ (k - 1) + 1 = k /\ ~(k <= k - 1)
    BY <1>6, <2>3, <2>4
  <2>6. Right(k - 1)
    BY <2>2, <2>5
  <2>7. Right((k - 1) + 1)
    BY <1>9, <2>5, <2>6
  <2> QED BY <2>3, <2>5, <2>7
<1>11. Right(Len(s)) /\ Len(s) - Len(s) = 0 /\ Len(s) \in Nat
  <2>1. Len(s) \in 0 .. Len(s)
    BY <1>6
  <2> HIDE DEF Right
  <2> QED BY <1>6, <1>10, <2>1
<1>12. /\ F[head] \in Seq(Nodes) /\ Len(F[head]) = Len(s)
       /\ \A j \in 1 .. Len(s) : F[head][j] = s[j]
  BY <1>11 DEF CellAt
<1>13. F[head] = s
  BY <1>6, <1>12, SeqEqual
<1> QED BY <1>4, <1>13

\* A search along the list, up to the first cell of T.
Searches(h, T) ==
    {f \in [Cells -> Cells] : \A c \in Cells : f[c] = IF c \in T THEN c ELSE f[h.next[c]]}

LEMMA SearchDefined ==
    ASSUME NEW h, Acyclic(h), NEW T, T \subseteq Cells, \A c \in Cells : h.next[c] = None => c \in T
    PROVE  Searches(h, T) # {}
<1>0. PICK rank : Descends(h, rank)
  BY DEF Acyclic
<1>1. \A c \in Cells : h.next[c] \in Nodes \cup {None} /\ (h.next[c] # None => h.next[c] \in Cells)
  BY <1>0 DEF Descends, Links, Cells
<1> DEFINE onward(c) == IF c \in T THEN c ELSE h.next[c]
           base == [c \in Cells |-> c]
           next == [c \in Cells |-> onward(c)]
           l == [stop |-> T, base |-> base, next |-> next, rank |-> rank]
<1>2. \A c \in Cells : onward(c) \in Cells /\ (c \notin T => onward(c) = h.next[c])
  BY <1>1
<1> HIDE DEF onward
<1>3. base \in [Cells -> Cells] /\ next \in [Cells -> Cells] /\ T \in SUBSET Cells
  BY <1>2
<1>4. \A c \in Cells : base[c] = c /\ (c \notin T => next[c] = h.next[c])
  BY <1>2
<1>5. l.stop = T /\ l.base = base /\ l.next = next /\ l.rank = rank
  OBVIOUS
<1>6. l \in Iterations(Cells, Cells)
  <2>1. rank \in [Cells -> Nat] /\ \A c \in Cells \ T : rank[next[c]] < rank[c]
    <3> HIDE DEF next
    <3> QED BY <1>0, <1>4 DEF Descends
  <2> HIDE DEF next, base
  <2> QED BY <1>3, <2>1 DEF Iterations
<1> HIDE DEF l, next, base
<1>7. PICK f \in [Cells -> Cells] :
         \A c \in Cells : f[c] = IF c \in l.stop THEN l.base[c] ELSE f[l.next[c]]
  BY <1>6, IterationDefined DEF Outcomes
<1>8. \A c \in Cells : f[c] = IF c \in T THEN c ELSE f[h.next[c]]
  BY <1>4, <1>5, <1>7
<1> QED BY <1>8 DEF Searches

\* It has no other result.
LEMMA SearchTyped ==
    ASSUME NEW h, Acyclic(h), NEW T, \A c \in Cells : h.next[c] = None => c \in T,
           NEW F, F = [c \in Cells |-> F[c]],
           \A c \in Cells : F[c] = IF c \in T THEN c ELSE F[h.next[c]]
    PROVE  F \in Searches(h, T)
<1>1. PICK rank : Descends(h, rank)
  BY DEF Acyclic
<1> DEFINE G == {c \in Cells : F[c] \in Cells}
<1>2. ASSUME NEW c \in Cells, \A e \in Cells : rank[e] < rank[c] => e \in G PROVE c \in G
  <2>1. CASE c \in T
    BY <2>1
  <2>2. CASE c \notin T
    <3>1. h.next[c] \in Cells /\ rank[h.next[c]] < rank[c]
      BY <1>1, <2>2 DEF Descends, Links, Cells
    <3>2. h.next[c] \in G
      BY <1>2, <3>1
    <3> QED BY <2>2, <3>2
  <2> QED BY <2>1, <2>2
<1>3. G \in SUBSET Cells /\ rank \in [Cells -> Nat]
  BY <1>1 DEF Descends
<1> HIDE DEF G
<1>4. G = Cells
  BY <1>2, <1>3, RankInduction
<1>5. \A c \in Cells : F[c] \in Cells
  BY <1>4 DEF G
<1>6. F \in [Cells -> Cells]
  BY <1>5
<1> QED BY <1>6 DEF Searches

\* It ends at the first cell of T from where it began.
LEMMA SearchEnds ==
    ASSUME NEW h, NEW head, NEW s, Behind(h, head, s), NEW T,
           \A c \in Cells : h.next[c] = None => c \in T,
           NEW f, f \in Searches(h, T), NEW i \in 0 .. Len(s)
    PROVE  \E k \in i .. Len(s) : /\ f[CellAt(head, s, i)] = CellAt(head, s, k)
                                  /\ CellAt(head, s, k) \in T
                                  /\ \A j \in i .. k - 1 : CellAt(head, s, j) \notin T
<1>1. Len(s) \in Nat /\ \A j \in 1 .. Len(s) : s[j] \in Nodes /\ s[j] # None /\ s[j] \in Cells
  BY CellsAssumption DEF Behind, Cells
<1>2. \A j \in 0 .. Len(s) : CellAt(head, s, j) \in Cells /\ h.next[CellAt(head, s, j)] = NodeAt(s, j + 1)
  <2>1. \A j \in 0 .. Len(s) : j = 0 \/ j \in 1 .. Len(s)
    BY <1>1
  <2> QED BY <1>1, <2>1 DEF Behind, CellAt
<1> DEFINE ends == {k \in i .. Len(s) : CellAt(head, s, k) \in T}
<1>3. Len(s) \in ends /\ ends \subseteq Nat
  <2>1. Len(s) \in i .. Len(s) /\ Len(s) \in 0 .. Len(s) /\ Len(s) + 1 \notin 1 .. Len(s)
        /\ i .. Len(s) \subseteq Nat
    BY <1>1
  <2>2. h.next[CellAt(head, s, Len(s))] = None
    BY <1>2, <2>1 DEF NodeAt
  <2> QED BY <1>2, <2>1, <2>2
<1>4. PICK k \in ends : \A j \in ends : k <= j
  <2> HIDE DEF ends
  <2> QED BY <1>3, Least
<1>5. k \in i .. Len(s) /\ CellAt(head, s, k) \in T /\ k \in Nat
  BY <1>3
<1>6. \A j \in i .. k - 1 : CellAt(head, s, j) \notin T
  <2> TAKE j \in i .. k - 1
  <2>1. j \in i .. Len(s) /\ ~(k <= j)
    BY <1>1, <1>5
  <2> QED BY <1>4, <2>1
<1>7. f[CellAt(head, s, k)] = CellAt(head, s, k)
  <2>1. k \in 0 .. Len(s)
    BY <1>1, <1>5
  <2> QED BY <1>2, <1>5, <2>1 DEF Searches
<1>8. \A j \in i .. k - 1 : f[CellAt(head, s, j)] = f[CellAt(head, s, j + 1)]
  <2> TAKE j \in i .. k - 1
  <2>1. j \in 0 .. Len(s) /\ j + 1 \in 1 .. Len(s) /\ j + 1 # 0
    BY <1>1, <1>5
  <2>2. h.next[CellAt(head, s, j)] = CellAt(head, s, j + 1)
    BY <1>2, <2>1 DEF NodeAt, CellAt
  <2>3. CellAt(head, s, j) \notin T /\ CellAt(head, s, j) \in Cells
    BY <1>2, <1>6, <2>1
  <2> QED BY <2>2, <2>3 DEF Searches
<1> DEFINE wrong == {n \in 0 .. k - i : f[CellAt(head, s, k - n)] # CellAt(head, s, k)}
<1>9. wrong = {}
  <2> SUFFICES ASSUME wrong # {} PROVE FALSE
    OBVIOUS
  <2>1. wrong \subseteq Nat
    BY <1>5
  <2>2. PICK n \in wrong : \A m \in wrong : n <= m
    <3> HIDE DEF wrong
    <3> QED BY <2>1, Least
  <2>3. n \in 0 .. k - i /\ f[CellAt(head, s, k - n)] # CellAt(head, s, k)
    OBVIOUS
  <2>4. n # 0
    BY <1>5, <1>7, <2>3
  <2>5. n - 1 \in 0 .. k - i /\ ~(n <= n - 1) /\ k - n \in i .. k - 1 /\ (k - n) + 1 = k - (n - 1)
    BY <1>5, <2>3, <2>4
  <2>6. f[CellAt(head, s, k - (n - 1))] = CellAt(head, s, k)
    BY <2>2, <2>5
  <2> QED BY <1>8, <2>3, <2>5, <2>6
<1>10. k - i \in 0 .. k - i /\ k - (k - i) = i
  BY <1>5
<1>11. f[CellAt(head, s, i)] = CellAt(head, s, k)
  BY <1>9, <1>10
<1> QED BY <1>5, <1>6, <1>11

\* The last cell of a list, from any cell of it.
LEMMA TailIs ==
    ASSUME NEW h, Acyclic(h), NEW head, NEW s, Behind(h, head, s), NEW i \in 0 .. Len(s)
    PROVE  TailCell(h, CellAt(head, s, i)) = CellAt(head, s, Len(s))
<1> DEFINE T == {c \in Cells : h.next[c] = None}
           Body(f) == [c \in Cells |-> IF h.next[c] = None THEN c ELSE f[h.next[c]]]
           F == CHOOSE f : f = Body(f)
<1>1. T \subseteq Cells /\ (\A c \in Cells : h.next[c] = None => c \in T)
      /\ \A c \in Cells : c \in T <=> h.next[c] = None
  OBVIOUS
<1>2. \E f : f = Body(f)
  <2> HIDE DEF T
  <2>1. PICK f : f \in Searches(h, T)
    BY <1>1, SearchDefined
  <2>2. f \in [Cells -> Cells] /\ \A c \in Cells : f[c] = IF h.next[c] = None THEN c ELSE f[h.next[c]]
    BY <1>1, <2>1 DEF Searches
  <2>3. f = Body(f)
    BY <2>2
  <2> QED BY <2>3
<1>3. F = Body(F)
  <2> HIDE DEF Body
  <2> QED BY <1>2
<1>4. TailCell(h, CellAt(head, s, i)) = F[CellAt(head, s, i)]
  BY DEF TailCell
<1> HIDE DEF F
<1>5. /\ F = [c \in Cells |-> F[c]]
      /\ \A c \in Cells : F[c] = IF c \in T THEN c ELSE F[h.next[c]]
  BY <1>1, <1>3
<1> HIDE DEF T
<1>6. F \in Searches(h, T)
  BY <1>1, <1>5, SearchTyped
<1>7. PICK k \in i .. Len(s) : /\ F[CellAt(head, s, i)] = CellAt(head, s, k)
                               /\ CellAt(head, s, k) \in T
  BY <1>1, <1>6, SearchEnds
<1>8. k = Len(s)
  <2>1. Len(s) \in Nat
    BY DEF Behind
  <2>2. k \in 0 .. Len(s) /\ (k # Len(s) => k + 1 \in 1 .. Len(s))
    BY <2>1
  <2>3. h.next[CellAt(head, s, k)] = NodeAt(s, k + 1) /\ s \in Seq(Nodes)
    BY <2>2 DEF Behind
  <2>4. NodeAt(s, k + 1) = None
    <3>1. k = 0 \/ k \in 1 .. Len(s)
      BY <2>1, <2>2
    <3>2. CellAt(head, s, k) \in Cells
      BY <2>3, <3>1 DEF Behind, CellAt, Cells
    <3> QED BY <1>1, <1>7, <2>3, <3>2
  <2>5. \A n \in 1 .. Len(s) : s[n] # None
    BY <2>3, CellsAssumption
  <2> QED BY <2>2, <2>4, <2>5 DEF NodeAt
<1> QED BY <1>4, <1>7, <1>8

\* LINEAR_LINKER_INSERT_INORDER_ inserts before the first greater node behind the
\* cell it begins at.
LEMMA PlaceIs ==
    ASSUME NEW h, Acyclic(h), NEW head, NEW s, Behind(h, head, s), NEW i \in 0 .. Len(s),
           NEW node, NEW greater
    PROVE  \E k \in i .. Len(s) :
              /\ InsertInOrder(h, CellAt(head, s, i), node, greater)
                    = InsertAfter(h, CellAt(head, s, k), node)
              /\ NodeAt(s, k + 1) \in greater \cup {None}
              /\ \A j \in i .. k - 1 : NodeAt(s, j + 1) \notin greater
<1> DEFINE T == {c \in Cells : h.next[c] \in greater \cup {None}}
           Body(f) == [c \in Cells |-> IF h.next[c] \in greater \cup {None} THEN c ELSE f[h.next[c]]]
           F == CHOOSE f : f = Body(f)
<1>1. T \subseteq Cells /\ (\A c \in Cells : h.next[c] = None => c \in T)
      /\ \A c \in Cells : c \in T <=> h.next[c] \in greater \cup {None}
  OBVIOUS
<1>2. \E f : f = Body(f)
  <2> HIDE DEF T
  <2>1. PICK f : f \in Searches(h, T)
    BY <1>1, SearchDefined
  <2>2. f \in [Cells -> Cells]
        /\ \A c \in Cells : f[c] = IF h.next[c] \in greater \cup {None} THEN c ELSE f[h.next[c]]
    BY <1>1, <2>1 DEF Searches
  <2>3. f = Body(f)
    BY <2>2
  <2> QED BY <2>3
<1>3. F = Body(F)
  <2> HIDE DEF Body
  <2> QED BY <1>2
<1>4. InsertInOrder(h, CellAt(head, s, i), node, greater)
        = InsertAfter(h, F[CellAt(head, s, i)], node)
  BY DEF InsertInOrder
<1> HIDE DEF F
<1>5. /\ F = [c \in Cells |-> F[c]]
      /\ \A c \in Cells : F[c] = IF c \in T THEN c ELSE F[h.next[c]]
  BY <1>1, <1>3
<1> HIDE DEF T
<1>6. F \in Searches(h, T)
  BY <1>1, <1>5, SearchTyped
<1>7. PICK k \in i .. Len(s) : /\ F[CellAt(head, s, i)] = CellAt(head, s, k)
                               /\ CellAt(head, s, k) \in T
                               /\ \A j \in i .. k - 1 : CellAt(head, s, j) \notin T
  BY <1>1, <1>6, SearchEnds
<1>8. Len(s) \in Nat /\ \A j \in 1 .. Len(s) : s[j] \in Cells
  BY DEF Behind, Cells
<1>9. \A j \in 0 .. Len(s) : CellAt(head, s, j) \in Cells /\ h.next[CellAt(head, s, j)] = NodeAt(s, j + 1)
  <2>1. \A j \in 0 .. Len(s) : j = 0 \/ j \in 1 .. Len(s)
    BY <1>8
  <2> QED BY <1>8, <2>1 DEF Behind, CellAt
<1>10. k \in 0 .. Len(s) /\ \A j \in i .. k - 1 : j \in 0 .. Len(s)
  BY <1>8
<1>11. NodeAt(s, k + 1) \in greater \cup {None}
  BY <1>1, <1>7, <1>9, <1>10
<1>12. \A j \in i .. k - 1 : NodeAt(s, j + 1) \notin greater
  BY <1>1, <1>7, <1>9, <1>10
<1> QED BY <1>4, <1>7, <1>11, <1>12

\* LINEAR_LINKER_NEXT_
LEMMA NextIs ==
    ASSUME NEW h, NEW head, NEW s, Behind(h, head, s)
    PROVE  \A j \in Nat : j # 0 => NextOf(h, NodeAt(s, j)) = NodeAt(s, j + 1)
<1>0. Len(s) \in Nat /\ \A j \in 1 .. Len(s) : s[j] \in Nodes /\ s[j] # None
  BY CellsAssumption DEF Behind
<1> TAKE j \in Nat
<1> HAVE j # 0
<1>1. CASE j \in 1 .. Len(s)
  <2>1. j \in 0 .. Len(s) /\ CellAt(head, s, j) = s[j] /\ NodeAt(s, j) = s[j]
    BY <1>0, <1>1 DEF CellAt, NodeAt
  <2>2. h.next[s[j]] = NodeAt(s, j + 1)
    BY <2>1 DEF Behind
  <2> QED BY <1>0, <1>1, <2>1, <2>2 DEF NextOf
<1>2. CASE j \notin 1 .. Len(s)
  <2>1. j + 1 \notin 1 .. Len(s)
    BY <1>0, <1>2
  <2> QED BY <1>2, <2>1 DEF NodeAt, NextOf
<1> QED BY <1>1, <1>2

\* LINEAR_LINKER_NTH_NEXT_
LEMMA NthNextIs ==
    ASSUME NEW h, NEW head, NEW s, Behind(h, head, s), NEW n \in Nat, NEW i \in Nat, i # 0
    PROVE  NthNext(h, NodeAt(s, i), n) = NodeAt(s, i + n)
<1> DEFINE Body(f) == [j \in 0 .. n |-> IF j = 0 THEN NodeAt(s, i) ELSE NextOf(h, f[j - 1])]
           F == CHOOSE f : f = Body(f)
           g == [j \in 0 .. n |-> NodeAt(s, i + j)]
<1>2. \A j \in Nat : j # 0 => NextOf(h, NodeAt(s, j)) = NodeAt(s, j + 1)
  BY NextIs
<1>3. \A j \in 0 .. n : j # 0 => j - 1 \in 0 .. n /\ i + (j - 1) \in Nat /\ i + (j - 1) # 0
                               /\ (i + (j - 1)) + 1 = i + j
  OBVIOUS
<1>4. i + 0 = i /\ n \in 0 .. n
  OBVIOUS
<1>5. \E f : f = Body(f)
  <2>1. \A j \in 0 .. n : g[j] = NodeAt(s, i + j)
    OBVIOUS
  <2>2. \A j \in 0 .. n : g[j] = IF j = 0 THEN NodeAt(s, i) ELSE NextOf(h, g[j - 1])
    <3> TAKE j \in 0 .. n
    <3> HIDE DEF g
    <3>1. CASE j = 0
      BY <1>4, <2>1, <3>1
    <3>2. CASE j # 0
      BY <1>2, <1>3, <2>1, <3>2
    <3> QED BY <3>1, <3>2
  <2>3. g = Body(g)
    <3>1. g = [j \in 0 .. n |-> g[j]]
      OBVIOUS
    <3> HIDE DEF g
    <3> QED BY <2>2, <3>1
  <2> QED BY <2>3
<1>6. F = Body(F)
  <2> HIDE DEF Body
  <2> QED BY <1>5
<1>7. NthNext(h, NodeAt(s, i), n) = F[n]
  BY DEF NthNext
<1> HIDE DEF F, g
<1>8. \A j \in 0 .. n : F[j] = IF j = 0 THEN NodeAt(s, i) ELSE NextOf(h, F[j - 1])
  BY <1>6
<1> DEFINE wrong == {j \in 0 .. n : F[j] # NodeAt(s, i + j)}
<1>9. wrong = {}
  <2> SUFFICES ASSUME wrong # {} PROVE FALSE
    OBVIOUS
  <2>1. PICK j \in wrong : \A l \in wrong : j <= l
    <3>1. wrong \subseteq Nat
      OBVIOUS
    <3> HIDE DEF wrong
    <3> QED BY <3>1, Least
  <2>2. j \in 0 .. n /\ F[j] # NodeAt(s, i + j)
    OBVIOUS
  <2>3. j # 0
    BY <1>4, <1>8, <2>2
  <2>4. j - 1 \in 0 .. n /\ ~(j <= j - 1)
    BY <2>2, <2>3
  <2>5. F[j - 1] = NodeAt(s, i + (j - 1))
    BY <2>1, <2>4
  <2>6. F[j] = NextOf(h, NodeAt(s, i + (j - 1)))
    BY <1>8, <2>2, <2>3, <2>5
  <2> QED BY <1>2, <1>3, <2>2, <2>3, <2>6
<1> QED BY <1>4, <1>7, <1>9

-----------------------------------------------------------------------------
(* The first nodes of a list move to the end of another.                    *)

Rest(s, q) == [i \in 1 .. Len(s) - q |-> s[q + i]]
Moved(d, s, q) == [i \in 1 .. Len(d) + q |-> IF i <= Len(d) THEN d[i] ELSE s[i - Len(d)]]

LEMMA RestIs ==
    ASSUME NEW s \in Seq(Nodes), NEW q \in 0 .. Len(s)
    PROVE  /\ Rest(s, q) \in Seq(Nodes) /\ Len(Rest(s, q)) = Len(s) - q
           /\ \A i \in 1 .. Len(s) - q : Rest(s, q)[i] = s[q + i]
           /\ \A i \in Nat : i # 0 => NodeAt(Rest(s, q), i) = NodeAt(s, q + i)
<1>1. Len(s) - q \in Nat /\ Len(s) \in Nat
  OBVIOUS
<1>2. \A i \in 1 .. Len(s) - q : s[q + i] \in Nodes
  BY <1>1
<1>3. Rest(s, q) \in [1 .. Len(s) - q -> Nodes]
  BY <1>2 DEF Rest
<1>4. /\ Rest(s, q) \in Seq(Nodes) /\ Len(Rest(s, q)) = Len(s) - q
  BY <1>1, <1>3
<1>5. \A i \in 1 .. Len(s) - q : Rest(s, q)[i] = s[q + i]
  BY DEF Rest
<1>6. \A i \in Nat : i # 0 => NodeAt(Rest(s, q), i) = NodeAt(s, q + i)
  <2> TAKE i \in Nat
  <2> HAVE i # 0
  <2>1. i \in 1 .. Len(Rest(s, q)) <=> q + i \in 1 .. Len(s)
    BY <1>1, <1>4
  <2> QED BY <1>4, <1>5, <2>1 DEF NodeAt
<1> QED BY <1>4, <1>5, <1>6

LEMMA MovedIs ==
    ASSUME NEW s \in Seq(Nodes), NEW q \in 0 .. Len(s), NEW d \in Seq(Nodes)
    PROVE  /\ Moved(d, s, q) \in Seq(Nodes) /\ Len(Moved(d, s, q)) = Len(d) + q
           /\ \A i \in 1 .. Len(d) + q :
                Moved(d, s, q)[i] = IF i <= Len(d) THEN d[i] ELSE s[i - Len(d)]
<1>1. Len(s) \in Nat /\ Len(d) \in Nat /\ Len(d) + q \in Nat
  OBVIOUS
<1>2. \A i \in 1 .. Len(d) + q : (IF i <= Len(d) THEN d[i] ELSE s[i - Len(d)]) \in Nodes
  BY <1>1
<1>3. Moved(d, s, q) \in [1 .. Len(d) + q -> Nodes]
  BY <1>2 DEF Moved
<1> QED BY <1>1, <1>3 DEF Moved

LEMMA MoveFront ==
    ASSUME NEW h, NEW a, NEW s, NEW b, NEW d, TwoLists(h, a, s, b, d), NEW q \in 1 .. Len(s),
           NEW r \in Links,
           \A c \in Cells : r.next[c] = IF c = CellAt(b, d, Len(d)) THEN s[1]
                                        ELSE IF c = s[q] THEN None
                                        ELSE IF c = a THEN NodeAt(s, q + 1)
                                        ELSE h.next[c],
           \A n \in Nodes : r.toSelf[n] = IF n = s[1] THEN CellAt(b, d, Len(d))
                                          ELSE IF n = NodeAt(s, q + 1) THEN a
                                          ELSE h.toSelf[n]
    PROVE  /\ TwoLists(r, a, Rest(s, q), b, Moved(d, s, q))
           /\ \A n : On(n, Rest(s, q), Moved(d, s, q)) <=> On(n, s, d)
<1>1. PICK t : t = Rest(s, q)
  OBVIOUS
<1>2. PICK e : e = Moved(d, s, q)
  OBVIOUS
<1>3. h \in Links /\ Disjoint(a, s, b, d) /\ s \in Seq(Nodes) /\ d \in Seq(Nodes)
      /\ Disjoint(b, d, a, s) /\ Listed(h, a, s) /\ Listed(h, b, d)
  BY DEF TwoLists, Disjoint
<1>4. /\ Len(s) \in Nat /\ Len(d) \in Nat /\ a \in Cells /\ a \notin Nodes
      /\ \A i \in 1 .. Len(s) : s[i] \in Nodes /\ s[i] \in Cells /\ s[i] # a /\ s[i] # None
      /\ \A i, j \in 0 .. Len(s) : CellAt(a, s, i) = CellAt(a, s, j) => i = j
      /\ \A i \in 0 .. Len(s), j \in 0 .. Len(d) : CellAt(a, s, i) # CellAt(b, d, j)
  BY <1>3, CellsOf
<1>5. /\ b \in Cells /\ b \notin Nodes /\ a # b
      /\ \A i \in 1 .. Len(d) : d[i] \in Nodes /\ d[i] \in Cells /\ d[i] # None
      /\ \A i \in 0 .. Len(d) : CellAt(b, d, i) \in Cells
      /\ \A i, j \in 0 .. Len(d) : CellAt(b, d, i) = CellAt(b, d, j) => i = j
  BY <1>3, CellsOf DEF Disjoint
<1>6. /\ \A i, j \in 1 .. Len(s) : s[i] = s[j] => i = j
      /\ \A i, j \in 1 .. Len(d) : d[i] = d[j] => i = j
      /\ \A i \in 1 .. Len(s), j \in 1 .. Len(d) : s[i] # d[j]
  BY <1>3 DEF Disjoint, Distinct
<1>7. /\ t \in Seq(Nodes) /\ Len(t) = Len(s) - q
      /\ \A i \in 1 .. Len(s) - q : t[i] = s[q + i]
      /\ \A i \in Nat : i # 0 => NodeAt(t, i) = NodeAt(s, q + i)
  <2>1. q \in 0 .. Len(s)
    BY <1>4
  <2> QED BY <1>1, <1>3, <2>1, RestIs
<1>8. /\ e \in Seq(Nodes) /\ Len(e) = Len(d) + q
      /\ \A i \in 1 .. Len(d) + q : e[i] = IF i <= Len(d) THEN d[i] ELSE s[i - Len(d)]
  <2>1. q \in 0 .. Len(s)
    BY <1>4
  <2> QED BY <1>2, <1>3, <2>1, MovedIs
<1>9. /\ \A i \in 1 .. Len(s) : CellAt(a, s, i) = s[i]
      /\ CellAt(a, s, 0) = a
      /\ \A i \in 0 .. Len(d) : CellAt(b, d, i) = IF i = 0 THEN b ELSE d[i]
  BY <1>4 DEF CellAt
<1>10. PICK last : last = CellAt(b, d, Len(d))
  OBVIOUS
<1>11. PICK after : after = NodeAt(s, q + 1)
  OBVIOUS
<1>12. /\ \A c \in Cells : r.next[c] = IF c = last THEN s[1] ELSE IF c = s[q] THEN None
                                       ELSE IF c = a THEN after ELSE h.next[c]
       /\ \A n \in Nodes : r.toSelf[n] = IF n = s[1] THEN last ELSE IF n = after THEN a
                                         ELSE h.toSelf[n]
  BY <1>10, <1>11
<1>13. /\ q \in Nat /\ q # 0 /\ q <= Len(s) /\ 1 \in 1 .. Len(s) /\ q \in 1 .. Len(s) /\ s[q] \in Nodes /\ s[1] \in Nodes
       /\ Len(d) \in 0 .. Len(d) /\ 0 \in 0 .. Len(s) /\ 0 \in 0 .. Len(d) /\ q \in 0 .. Len(s)
  BY <1>4
<1>14. last \in Cells /\ last # a /\ \A i \in 1 .. Len(s) : last # s[i]
  <2>1. \A i \in 1 .. Len(s) : i \in 0 .. Len(s)
    BY <1>4
  <2> QED BY <1>4, <1>5, <1>9, <1>10, <1>13, <2>1
<1>15. after = None \/ (q + 1 \in 1 .. Len(s) /\ after = s[q + 1])
  BY <1>11 DEF NodeAt
<1>16. \A i \in 1 .. Len(s) : i # q + 1 => s[i] # after
  BY <1>4, <1>6, <1>15
<1>17. \A i \in 1 .. Len(d) : d[i] # after /\ d[i] # s[1] /\ d[i] # s[q] /\ d[i] # a
  BY <1>4, <1>5, <1>6, <1>13, <1>15
<1>18. \A i \in 0 .. Len(t) : r.next[CellAt(a, t, i)] = NodeAt(t, i + 1)
  <2> TAKE i \in 0 .. Len(t)
  <2>1. CASE i = 0
    <3>1. CellAt(a, t, i) = a /\ NodeAt(t, i + 1) = after
      BY <1>7, <1>11, <2>1 DEF CellAt
    <3>2. a # s[q]
      BY <1>4, <1>13
    <3> QED BY <1>4, <1>12, <1>14, <3>1, <3>2
  <2>2. CASE i # 0
    <3>1. /\ i \in 1 .. Len(s) - q /\ q + i \in 1 .. Len(s) /\ q + i # q /\ i + 1 \in Nat /\ i + 1 # 0
          /\ q + (i + 1) = (q + i) + 1 /\ q + i \in 0 .. Len(s)
      BY <1>4, <1>7, <1>13, <2>2
    <3>2. CellAt(a, t, i) = s[q + i] /\ NodeAt(t, i + 1) = NodeAt(s, (q + i) + 1)
      BY <1>7, <2>2, <3>1 DEF CellAt
    <3>3. h.next[s[q + i]] = NodeAt(s, (q + i) + 1)
      BY <1>3, <1>9, <3>1 DEF Listed
    <3>4. s[q + i] # last /\ s[q + i] # s[q] /\ s[q + i] # a /\ s[q + i] \in Cells
      BY <1>4, <1>6, <1>13, <1>14, <3>1
    <3> QED BY <1>12, <3>2, <3>3, <3>4
  <2> QED BY <2>1, <2>2
<1>19. \A i \in 1 .. Len(t) : r.toSelf[t[i]] = CellAt(a, t, i - 1)
  <2> TAKE i \in 1 .. Len(t)
  <2>0. i \in 1 .. Len(s) - q /\ q + i \in 1 .. Len(s) /\ q + i # 1
    BY <1>4, <1>7, <1>13
  <2>1. /\ i \in 1 .. Len(s) - q /\ q + i \in 1 .. Len(s) /\ q + i # 1 /\ t[i] = s[q + i] /\ s[q + i] \in Nodes
    BY <1>4, <1>7, <2>0
  <2>2. s[q + i] # s[1]
    BY <1>6, <1>13, <2>1
  <2>3. CASE i = 1
    <3>1. s[q + i] = after /\ CellAt(a, t, i - 1) = a
      BY <1>11, <2>1, <2>3 DEF NodeAt, CellAt
    <3> QED BY <1>12, <2>1, <2>2, <3>1
  <2>4. CASE i # 1
    <3>1. i - 1 \in 1 .. Len(s) - q /\ i - 1 # 0 /\ q + (i - 1) = (q + i) - 1 /\ q + i # q + 1 /\ (q + i) - 1 # 0
      BY <1>4, <1>13, <2>1, <2>4
    <3>2. CellAt(a, t, i - 1) = s[(q + i) - 1]
      BY <1>7, <3>1 DEF CellAt
    <3>3. h.toSelf[s[q + i]] = s[(q + i) - 1]
      BY <1>3, <2>1, <3>1 DEF Listed, CellAt
    <3>4. s[q + i] # after
      BY <1>16, <2>1, <3>1
    <3> QED BY <1>12, <2>1, <2>2, <3>2, <3>3, <3>4
  <2> QED BY <2>3, <2>4
<1>20. \A i \in 0 .. Len(e) : r.next[CellAt(b, e, i)] = NodeAt(e, i + 1)
  <2> TAKE i \in 0 .. Len(e)
  <2>0. i \in Nat /\ i <= Len(d) + q
    BY <1>4, <1>8, <1>13
  <2>1. CASE i < Len(d)
    <3>1. i \in 0 .. Len(d) /\ i + 1 \in 1 .. Len(d) /\ i + 1 \in 1 .. Len(d) + q /\ (i # 0 => i \in 1 .. Len(d) + q) /\ i # Len(d)
      BY <1>4, <1>13, <2>0, <2>1
    <3>2. CellAt(b, e, i) = CellAt(b, d, i) /\ NodeAt(e, i + 1) = d[i + 1]
      BY <1>8, <1>9, <3>1 DEF CellAt, NodeAt
    <3>3. h.next[CellAt(b, d, i)] = d[i + 1]
      BY <1>3, <3>1 DEF Listed, NodeAt
    <3>4. CellAt(b, d, i) # last /\ CellAt(b, d, i) # s[q] /\ CellAt(b, d, i) # a /\ CellAt(b, d, i) \in Cells
      BY <1>4, <1>5, <1>9, <1>10, <1>13, <3>1
    <3> QED BY <1>12, <3>2, <3>3, <3>4
  <2>2. CASE i = Len(d)
    <3>1. i + 1 \in 1 .. Len(d) + q /\ ~(i + 1 <= Len(d)) /\ (i + 1) - Len(d) = 1 /\ (i # 0 => i \in 1 .. Len(d) + q)
          /\ i <= Len(d)
      BY <1>4, <1>13, <2>0, <2>2
    <3>2. NodeAt(e, i + 1) = s[1]
      BY <1>8, <3>1 DEF NodeAt
    <3>3. CellAt(b, e, i) = last
      BY <1>8, <1>10, <2>2, <3>1 DEF CellAt
    <3> QED BY <1>12, <1>14, <3>2, <3>3
  <2>3. CASE i > Len(d)
    <3>1. PICK j \in 1 .. q : i = Len(d) + j
      <4>1. i - Len(d) \in 1 .. q /\ i = Len(d) + (i - Len(d))
        BY <1>4, <1>13, <2>0, <2>3
      <4> QED BY <4>1
    <3>2. /\ i \in 1 .. Len(d) + q /\ ~(i <= Len(d)) /\ i - Len(d) = j /\ i # 0 /\ j \in 1 .. Len(s)
          /\ j \in 0 .. Len(s)
      BY <1>4, <1>13, <2>0, <2>3, <3>1
    <3>3. CellAt(b, e, i) = s[j] /\ s[j] \in Cells
      BY <1>4, <1>8, <3>2 DEF CellAt
    <3>4. CASE j = q
      <4>1. i + 1 \notin 1 .. Len(d) + q
        BY <1>4, <1>13, <3>1, <3>4
      <4>2. NodeAt(e, i + 1) = None
        BY <1>8, <4>1 DEF NodeAt
      <4> QED BY <1>12, <1>14, <3>2, <3>3, <3>4, <4>2
    <3>5. CASE j # q
      <4>1. i + 1 \in 1 .. Len(d) + q /\ ~(i + 1 <= Len(d)) /\ (i + 1) - Len(d) = j + 1 /\ j + 1 \in 1 .. Len(s)
        BY <1>4, <1>13, <3>1, <3>5
      <4>2. NodeAt(e, i + 1) = s[j + 1]
        BY <1>8, <4>1 DEF NodeAt
      <4>3. h.next[s[j]] = s[j + 1]
        BY <1>3, <1>9, <3>2, <4>1 DEF Listed, NodeAt
      <4>4. s[j] # s[q] /\ s[j] # a /\ s[j] # last
        BY <1>4, <1>6, <1>13, <1>14, <3>2, <3>5
      <4> QED BY <1>12, <3>3, <4>2, <4>3, <4>4
    <3> QED BY <3>4, <3>5
  <2> QED BY <1>4, <2>0, <2>1, <2>2, <2>3
<1>21. \A i \in 1 .. Len(e) : r.toSelf[e[i]] = CellAt(b, e, i - 1)
  <2> TAKE i \in 1 .. Len(e)
  <2>0. i \in Nat /\ i # 0 /\ i <= Len(d) + q /\ i \in 1 .. Len(d) + q
    BY <1>4, <1>8, <1>13
  <2>1. CASE i <= Len(d)
    <3>1. i \in 1 .. Len(d) /\ i - 1 \in 0 .. Len(d) /\ (i - 1 # 0 => i - 1 \in 1 .. Len(d) + q) /\ i - 1 <= Len(d)
      BY <1>4, <1>13, <2>0, <2>1
    <3>2. e[i] = d[i] /\ CellAt(b, e, i - 1) = CellAt(b, d, i - 1)
      BY <1>8, <1>9, <2>0, <2>1, <3>1 DEF CellAt
    <3>3. h.toSelf[d[i]] = CellAt(b, d, i - 1)
      BY <1>3, <3>1 DEF Listed
    <3> QED BY <1>5, <1>12, <1>17, <3>1, <3>2, <3>3
  <2>2. CASE i = Len(d) + 1
    <3>1. e[i] = s[1]
      <4>1. ~(i <= Len(d)) /\ i - Len(d) = 1
        BY <1>4, <2>2
      <4> QED BY <1>8, <2>0, <4>1
    <3>2. CellAt(b, e, i - 1) = last
      <4>1. i - 1 = Len(d) /\ (Len(d) # 0 => Len(d) \in 1 .. Len(d) + q) /\ Len(d) <= Len(d)
        BY <1>4, <1>13, <2>2
      <4> QED BY <1>8, <1>10, <4>1 DEF CellAt
    <3> QED BY <1>12, <1>13, <3>1, <3>2
  <2>3. CASE i > Len(d) + 1
    <3>1. PICK j : j = i - Len(d)
      OBVIOUS
    <3>2. /\ j \in 1 .. Len(s) /\ j - 1 \in 1 .. Len(s) /\ j # 1 /\ j # q + 1 /\ j - 1 # 0
          /\ i - 1 \in 1 .. Len(d) + q /\ ~(i - 1 <= Len(d)) /\ (i - 1) - Len(d) = j - 1 /\ i - 1 # 0
          /\ ~(i <= Len(d))
      BY <1>4, <1>13, <2>0, <2>3, <3>1
    <3>3. e[i] = s[j] /\ CellAt(b, e, i - 1) = s[j - 1]
      BY <1>8, <2>0, <3>1, <3>2 DEF CellAt
    <3>4. h.toSelf[s[j]] = s[j - 1]
      BY <1>3, <3>2 DEF Listed, CellAt
    <3>5. s[j] # s[1] /\ s[j] # after /\ s[j] \in Nodes
      BY <1>4, <1>6, <1>13, <1>16, <3>2
    <3> QED BY <1>12, <3>3, <3>4, <3>5
  <2> QED BY <1>4, <2>0, <2>1, <2>2, <2>3
<1>22. /\ \A i \in 1 .. Len(t) : \E m \in 1 .. Len(s) : t[i] = s[m] /\ m = q + i /\ m > q
       /\ \A i \in 1 .. Len(e) : \/ i \in 1 .. Len(d) /\ e[i] = d[i]
                                 \/ \E m \in 1 .. Len(s) : e[i] = s[m] /\ m = i - Len(d) /\ m <= q
  <2>1. ASSUME NEW i \in 1 .. Len(t) PROVE q + i \in 1 .. Len(s) /\ t[i] = s[q + i] /\ q + i > q
    BY <1>4, <1>7, <1>13
  <2>2. ASSUME NEW i \in 1 .. Len(e)
        PROVE  \/ i \in 1 .. Len(d) /\ e[i] = d[i]
               \/ i - Len(d) \in 1 .. Len(s) /\ e[i] = s[i - Len(d)] /\ i - Len(d) <= q
    <3>1. i \in 1 .. Len(d) + q
      BY <1>8
    <3>2. CASE i <= Len(d)
      BY <1>8, <3>1, <3>2
    <3>3. CASE ~(i <= Len(d))
      <4>1. i - Len(d) \in 1 .. Len(s) /\ i - Len(d) <= q
        BY <1>4, <1>13, <3>1, <3>3
      <4> QED BY <1>8, <3>1, <3>3, <4>1
    <3> QED BY <3>2, <3>3
  <2> QED BY <2>1, <2>2
<1>23. Distinct(t) /\ Distinct(e) /\ \A i \in 1 .. Len(t), j \in 1 .. Len(e) : t[i] # e[j]
  <2>1. Distinct(t)
    <3> SUFFICES ASSUME NEW i \in 1 .. Len(t), NEW j \in 1 .. Len(t), t[i] = t[j] PROVE i = j
      BY DEF Distinct
    <3>1. i \in Int /\ j \in Int /\ q + i = q + j
      BY <1>6, <1>22
    <3> QED BY <1>13, <3>1
  <2>2. Distinct(e)
    <3> SUFFICES ASSUME NEW i \in 1 .. Len(e), NEW j \in 1 .. Len(e), e[i] = e[j] PROVE i = j
      BY DEF Distinct
    <3>1. i \in 1 .. Len(d) + q /\ j \in 1 .. Len(d) + q
      BY <1>8
    <3>2. CASE i <= Len(d) /\ j <= Len(d)
      <4>1. i \in 1 .. Len(d) /\ j \in 1 .. Len(d) /\ d[i] = d[j]
        BY <1>4, <1>8, <3>1, <3>2
      <4> QED BY <1>6, <4>1
    <3>3. CASE i <= Len(d) /\ ~(j <= Len(d))
      <4>1. i \in 1 .. Len(d) /\ j - Len(d) \in 1 .. Len(s)
        BY <1>4, <1>13, <3>1, <3>3
      <4>2. d[i] = s[j - Len(d)]
        BY <1>8, <3>1, <3>3
      <4> QED BY <1>6, <4>1, <4>2
    <3>4. CASE ~(i <= Len(d)) /\ j <= Len(d)
      <4>1. j \in 1 .. Len(d) /\ i - Len(d) \in 1 .. Len(s)
        BY <1>4, <1>13, <3>1, <3>4
      <4>2. d[j] = s[i - Len(d)]
        BY <1>8, <3>1, <3>4
      <4> QED BY <1>6, <4>1, <4>2
    <3>5. CASE ~(i <= Len(d)) /\ ~(j <= Len(d))
      <4>1. j - Len(d) \in 1 .. Len(s) /\ i - Len(d) \in 1 .. Len(s)
        BY <1>4, <1>13, <3>1, <3>5
      <4>2. s[j - Len(d)] = s[i - Len(d)]
        BY <1>8, <3>1, <3>5
      <4>3. j - Len(d) = i - Len(d)
        BY <1>6, <4>1, <4>2
      <4> QED BY <1>4, <3>1, <4>3
    <3> QED BY <3>2, <3>3, <3>4, <3>5
  <2>3. ASSUME NEW i \in 1 .. Len(t), NEW j \in 1 .. Len(e) PROVE t[i] # e[j]
    <3>1. PICK m \in 1 .. Len(s) : t[i] = s[m] /\ m > q
      BY <1>22
    <3>2. CASE j \in 1 .. Len(d) /\ e[j] = d[j]
      BY <1>6, <3>1, <3>2
    <3>3. CASE \E n \in 1 .. Len(s) : e[j] = s[n] /\ n <= q
      <4>1. PICK n \in 1 .. Len(s) : e[j] = s[n] /\ n <= q
        BY <3>3
      <4>2. m # n
        BY <1>13, <3>1, <4>1
      <4> QED BY <1>6, <3>1, <4>1, <4>2
    <3> QED BY <1>22, <3>2, <3>3
  <2> QED BY <2>1, <2>2, <2>3
<1>24. Disjoint(a, t, b, e)
  BY <1>3, <1>7, <1>8, <1>23 DEF Disjoint
<1>25. ASSUME NEW n PROVE On(n, t, e) <=> On(n, s, d)
  <2>1. ASSUME On(n, t, e) PROVE On(n, s, d)
    BY <1>22, <2>1 DEF On
  <2>2. ASSUME NEW m \in 1 .. Len(s), n = s[m] PROVE On(n, t, e)
    <3>1. CASE m <= q
      <4>1. Len(d) + m \in 1 .. Len(e) /\ Len(d) + m \in 1 .. Len(d) + q /\ ~(Len(d) + m <= Len(d)) /\ (Len(d) + m) - Len(d) = m
        BY <1>4, <1>8, <1>13, <3>1
      <4>2. e[Len(d) + m] = s[m]
        BY <1>8, <4>1
      <4> QED BY <2>2, <4>1, <4>2 DEF On
    <3>2. CASE m > q
      <4>1. m - q \in 1 .. Len(t) /\ m - q \in 1 .. Len(s) - q /\ q + (m - q) = m
        BY <1>4, <1>7, <1>13, <3>2
      <4>2. t[m - q] = s[m]
        BY <1>7, <4>1
      <4> QED BY <2>2, <4>1, <4>2 DEF On
    <3> QED BY <1>13, <3>1, <3>2
  <2>3. ASSUME NEW m \in 1 .. Len(d), n = d[m] PROVE On(n, t, e)
    <3>1. m \in 1 .. Len(e) /\ m \in 1 .. Len(d) + q /\ m <= Len(d)
      BY <1>4, <1>8, <1>13
    <3>2. e[m] = d[m]
      BY <1>8, <3>1
    <3> QED BY <2>3, <3>1, <3>2 DEF On
  <2> QED BY <2>1, <2>2, <2>3 DEF On
<1>26. \A c \in Cells : c # a /\ c # b /\ ~On(c, t, e) => r.next[c] = None
  <2> TAKE c \in Cells
  <2> HAVE c # a /\ c # b /\ ~On(c, t, e)
  <2>1. ~On(c, s, d)
    BY <1>25
  <2>2. c # last /\ c # s[q]
    <3>1. last = b \/ \E i \in 1 .. Len(d) : last = d[i]
      <4>1. Len(d) = 0 \/ Len(d) \in 1 .. Len(d)
        BY <1>4
      <4> QED BY <1>10, <4>1 DEF CellAt
    <3> QED BY <1>13, <2>1, <3>1 DEF On
  <2>3. h.next[c] = None
    BY <2>1 DEF TwoLists
  <2> QED BY <1>12, <2>2, <2>3
<1>27. \A n \in Nodes : ~On(n, t, e) => r.toSelf[n] = None
  <2> TAKE n \in Nodes
  <2> HAVE ~On(n, t, e)
  <2>1. ~On(n, s, d)
    BY <1>25
  <2>2. n # s[1] /\ n # after
    BY <1>13, <1>15, <2>1, CellsAssumption DEF On
  <2>3. h.toSelf[n] = None
    BY <2>1 DEF TwoLists
  <2> QED BY <1>12, <2>2, <2>3
<1>28. TwoLists(r, a, t, b, e)
  BY <1>18, <1>19, <1>20, <1>21, <1>24, <1>26, <1>27 DEF TwoLists, Listed
<1> QED BY <1>1, <1>2, <1>25, <1>28

\* The pointers JoinRest sets: `end` is the new first node of the list `a`, the
\* nodes before it, from `work` on, follow the cell.
Rejoined(h, a, end, cell, work) ==
    LET cutOff == Point(h, a, end)
        parted == IF end = None THEN cutOff
                  ELSE Own(Point(cutOff, cutOff.toSelf[end], None), end, a)
    IN  Join(parted, cell, work)

LEMMA RejoinLists ==
    ASSUME NEW h, NEW a, NEW s, NEW b, NEW d, TwoLists(h, a, s, b, d), NEW q \in 1 .. Len(s)
    PROVE  LET r == Rejoined(h, a, NodeAt(s, q + 1), CellAt(b, d, Len(d)), s[1])
           IN  /\ TwoLists(r, a, Rest(s, q), b, Moved(d, s, q))
               /\ \A n : On(n, Rest(s, q), Moved(d, s, q)) <=> On(n, s, d)
<1>1. PICK end : end = NodeAt(s, q + 1)
  OBVIOUS
<1>2. PICK cell : cell = CellAt(b, d, Len(d))
  OBVIOUS
<1>3. PICK work : work = s[1]
  OBVIOUS
<1>4. PICK last : last = s[q]
  OBVIOUS
<1>5. h \in Links /\ Disjoint(a, s, b, d) /\ s \in Seq(Nodes) /\ Disjoint(b, d, a, s)
  BY DEF TwoLists, Disjoint
<1>6. /\ Len(s) \in Nat /\ Len(d) \in Nat /\ a \in Cells /\ a \notin Nodes
      /\ \A i \in 1 .. Len(s) : s[i] \in Nodes /\ s[i] \in Cells /\ s[i] # a /\ s[i] # None
      /\ \A i \in 0 .. Len(s), j \in 0 .. Len(d) : CellAt(a, s, i) # CellAt(b, d, j)
  BY <1>5, CellsOf
<1>7. \A i \in 0 .. Len(d) : CellAt(b, d, i) \in Cells
  BY <1>5, CellsOf
<1>8. /\ q \in 1 .. Len(s) /\ q \in 0 .. Len(s) /\ 1 \in 1 .. Len(s) /\ q # 0 /\ 0 \in 0 .. Len(s)
      /\ Len(d) \in 0 .. Len(d) /\ q + 1 \in Nat /\ q + 1 # 1
  BY <1>6
<1>9. /\ cell \in Cells /\ work \in Nodes /\ last \in Nodes /\ last \in Cells /\ last # a
      /\ cell # a /\ cell # last /\ work # None /\ a \in Cells /\ last # None
  <2>1. CellAt(a, s, q) = last /\ CellAt(a, s, 0) = a
    BY <1>4, <1>8 DEF CellAt
  <2> QED BY <1>2, <1>3, <1>4, <1>6, <1>7, <1>8, <2>1
<1>10. h.next[last] = end
  <2>1. h.next[CellAt(a, s, q)] = NodeAt(s, q + 1)
    BY <1>8 DEF TwoLists, Listed
  <2> QED BY <1>1, <1>4, <1>8, <2>1 DEF CellAt
<1>11. end = None \/ (end \in Nodes /\ end # None /\ h.toSelf[end] = last /\ end # work)
  <2> SUFFICES ASSUME end # None PROVE end \in Nodes /\ h.toSelf[end] = last /\ end # work
    OBVIOUS
  <2>1. q + 1 \in 1 .. Len(s) /\ end = s[q + 1] /\ (q + 1) - 1 = q
    BY <1>1, <1>8 DEF NodeAt
  <2>2. h.toSelf[s[q + 1]] = CellAt(a, s, (q + 1) - 1)
    BY <2>1 DEF TwoLists, Listed
  <2>3. h.toSelf[end] = last
    BY <1>4, <1>8, <2>1, <2>2 DEF CellAt
  <2>4. s[q + 1] # s[1]
    BY <1>5, <1>8, <2>1 DEF Disjoint, Distinct
  <2> QED BY <1>3, <1>6, <2>1, <2>3, <2>4
<1>a. end \in Nodes \cup {None} /\ None \in Nodes \cup {None} /\ work \in Nodes \cup {None}
  BY <1>9, <1>11
<1>12. PICK cutOff : cutOff = Point(h, a, end)
  OBVIOUS
<1>13. /\ cutOff \in Links /\ cutOff.toSelf = h.toSelf
       /\ \A c \in Cells : cutOff.next[c] = IF c = a THEN end ELSE h.next[c]
  <2>1. h \in Links /\ a \in Cells
    BY <1>5, <1>9
  <2> QED BY <2>1, <1>a, <1>12, PointCells
<1>14. PICK parted : parted = IF end = None THEN cutOff
                              ELSE Own(Point(cutOff, cutOff.toSelf[end], None), end, a)
  OBVIOUS
<1>15. /\ parted \in Links
       /\ \A c \in Cells : parted.next[c] = IF c = last THEN None ELSE IF c = a THEN end ELSE h.next[c]
       /\ \A n \in Nodes : parted.toSelf[n] = IF n = end THEN a ELSE h.toSelf[n]
  <2>1. CASE end = None
    <3>1. parted = cutOff /\ \A n \in Nodes : n # end
      BY <1>14, <2>1, CellsAssumption
    <3> QED BY <1>9, <1>10, <1>13, <2>1, <3>1
  <2>2. CASE end # None
    <3>1. PICK p : p = Point(cutOff, last, None)
      OBVIOUS
    <3>2. /\ p \in Links /\ p.toSelf = cutOff.toSelf
          /\ \A c \in Cells : p.next[c] = IF c = last THEN None ELSE cutOff.next[c]
      <4>1. last \in Cells /\ cutOff \in Links
        BY <1>9, <1>13
      <4> QED BY <4>1, <1>a, <3>1, PointCells
    <3>3. parted = Own(p, end, a)
      BY <1>11, <1>13, <1>14, <2>2, <3>1
    <3>4. parted \in Links /\ parted.next = p.next
          /\ \A n \in Nodes : parted.toSelf[n] = IF n = end THEN a ELSE p.toSelf[n]
      BY <1>9, <1>11, <2>2, <3>2, <3>3 DEF Own, Links
    <3> QED BY <1>13, <3>2, <3>4
  <2> QED BY <2>1, <2>2
<1>16. PICK r : r = Join(parted, cell, work)
  OBVIOUS
<1>17. /\ r \in Links
       /\ \A c \in Cells : r.next[c] = IF c = cell THEN work ELSE parted.next[c]
       /\ \A n \in Nodes : r.toSelf[n] = IF n = work THEN cell ELSE parted.toSelf[n]
  <2>1. cell \in Cells /\ parted \in Links
    BY <1>9, <1>15
  <2> QED BY <2>1, <1>a, <1>16, JoinCells
<1>18. /\ \A c \in Cells : r.next[c] = IF c = cell THEN work ELSE IF c = last THEN None
                                       ELSE IF c = a THEN end ELSE h.next[c]
       /\ \A n \in Nodes : r.toSelf[n] = IF n = work THEN cell ELSE IF n = end THEN a
                                         ELSE h.toSelf[n]
  BY <1>15, <1>17
<1>19. /\ TwoLists(r, a, Rest(s, q), b, Moved(d, s, q))
       /\ \A n : On(n, Rest(s, q), Moved(d, s, q)) <=> On(n, s, d)
  BY <1>1, <1>2, <1>3, <1>4, <1>17, <1>18, MoveFront
<1>20. Rejoined(h, a, NodeAt(s, q + 1), CellAt(b, d, Len(d)), s[1]) = r
  BY <1>1, <1>2, <1>3, <1>12, <1>14, <1>16 DEF Rejoined
<1> QED BY <1>19, <1>20

\* Between two passes the list has two heads.
TwoHeads(h, a, s, b) ==
    /\ h \in Links
    /\ h.next[b] = h.next[a]
    /\ TwoLists(Point(h, b, None), a, s, b, <<>>)

\* An empty list takes over the nodes of the other.
LEMMA TakeOver ==
    ASSUME NEW h, NEW a, NEW b, NEW d, TwoLists(h, a, <<>>, b, d)
    PROVE  TwoHeads(Join(h, a, h.next[b]), a, d, b)
<1>1. PICK first : first = h.next[b]
  OBVIOUS
<1>2. PICK r : r = Join(h, a, first)
  OBVIOUS
<1>3. PICK p : p = Point(r, b, None)
  OBVIOUS
<1>4. h \in Links /\ Disjoint(b, d, a, <<>>) /\ d \in Seq(Nodes) /\ Len(d) \in Nat /\ a # b
      /\ a \in Cells /\ b \in Cells /\ a \notin Nodes /\ b \notin Nodes /\ Len(<<>>) = 0
  <2>1. Disjoint(a, <<>>, b, d) /\ Disjoint(b, d, a, <<>>)
    BY DEF TwoLists, Disjoint
  <2> QED BY <2>1, CellsAssumption DEF TwoLists, Disjoint, Cells
<1>5. \A i \in 1 .. Len(d) : d[i] \in Nodes /\ d[i] \in Cells /\ d[i] # a /\ d[i] # b
  BY <1>4 DEF Cells
<1>6. first = NodeAt(d, 1) /\ first \in Nodes \cup {None}
  <2>1. 0 \in 0 .. Len(d) /\ 0 + 1 = 1
    BY <1>4
  <2>2. h.next[CellAt(b, d, 0)] = NodeAt(d, 1)
    BY <2>1 DEF TwoLists, Listed
  <2> QED BY <1>1, <1>5, <2>2 DEF CellAt, NodeAt
<1>7. /\ r \in Links
      /\ \A c \in Cells : r.next[c] = IF c = a THEN first ELSE h.next[c]
      /\ \A n \in Nodes : r.toSelf[n] = IF n = first THEN a ELSE h.toSelf[n]
  BY <1>2, <1>4, <1>6, JoinCells
<1>8. /\ p \in Links /\ p.toSelf = r.toSelf
      /\ \A c \in Cells : p.next[c] = IF c = b THEN None ELSE r.next[c]
  BY <1>3, <1>4, <1>7, PointCells
<1>9. Listed(p, a, d)
  <2>1. ASSUME NEW i \in 0 .. Len(d) PROVE p.next[CellAt(a, d, i)] = NodeAt(d, i + 1)
    <3>1. CASE i = 0
      BY <1>4, <1>6, <1>7, <1>8, <3>1 DEF CellAt
    <3>2. CASE i # 0
      <4>1. i \in 1 .. Len(d)
        BY <1>4, <3>2
      <4>2. h.next[d[i]] = NodeAt(d, i + 1)
        BY <3>2 DEF TwoLists, Listed, CellAt
      <4> QED BY <1>5, <1>7, <1>8, <3>2, <4>1, <4>2 DEF CellAt
    <3> QED BY <3>1, <3>2
  <2>2. ASSUME NEW i \in 1 .. Len(d) PROVE p.toSelf[d[i]] = CellAt(a, d, i - 1)
    <3>1. CASE i = 1
      <4>1. d[i] = first
        BY <1>6, <3>1 DEF NodeAt
      <4> QED BY <1>5, <1>7, <1>8, <3>1, <4>1 DEF CellAt
    <3>2. CASE i # 1
      <4>1. d[i] # first
        <5>1. 1 \in 1 .. Len(d) => d[i] # d[1]
          BY <1>4, <3>2 DEF Disjoint, Distinct
        <5>2. d[i] # None
          BY <1>5, CellsAssumption
        <5> QED BY <1>6, <5>1, <5>2 DEF NodeAt
      <4>2. h.toSelf[d[i]] = CellAt(b, d, i - 1) /\ i - 1 # 0
        BY <1>4, <3>2 DEF TwoLists, Listed
      <4> QED BY <1>5, <1>7, <1>8, <4>1, <4>2 DEF CellAt
    <3> QED BY <3>1, <3>2
  <2> QED BY <2>1, <2>2 DEF Listed
<1>10. Listed(p, b, <<>>)
  <2>1. \A i \in 0 .. 0 : i = 0
    OBVIOUS
  <2>2. 0 + 1 \notin 1 .. 0 /\ \A i \in 1 .. 0 : FALSE
    OBVIOUS
  <2>3. p.next[b] = None
    BY <1>4, <1>8
  <2>4. CellAt(b, <<>>, 0) = b
    BY DEF CellAt
  <2>5. NodeAt(<<>>, 0 + 1) = None
    BY <1>4, <2>2 DEF NodeAt
  <2> QED BY <1>4, <2>1, <2>2, <2>3, <2>4, <2>5 DEF Listed
<1>11. Disjoint(a, d, b, <<>>)
  BY <1>4 DEF Disjoint
<1>12. \A n : On(n, d, <<>>) <=> On(n, <<>>, d)
  BY DEF On
<1>13. \A c \in Cells : c # a /\ c # b /\ ~On(c, d, <<>>) => p.next[c] = None
  BY <1>7, <1>8, <1>12 DEF TwoLists
<1>14. \A n \in Nodes : ~On(n, d, <<>>) => p.toSelf[n] = None
  <2> TAKE n \in Nodes
  <2> HAVE ~On(n, d, <<>>)
  <2>1. n # first
    BY <1>6, CellsAssumption DEF NodeAt, On
  <2> QED BY <1>7, <1>8, <1>12, <2>1 DEF TwoLists
<1>15. TwoLists(p, a, d, b, <<>>)
  BY <1>8, <1>9, <1>10, <1>11, <1>13, <1>14 DEF TwoLists
<1>16. r.next[b] = r.next[a]
  BY <1>1, <1>4, <1>7
<1> QED BY <1>1, <1>2, <1>3, <1>7, <1>15, <1>16 DEF TwoHeads

\* What the loops over the lists read.
LEMMA ListsRead ==
    ASSUME NEW h, NEW a, NEW s, NEW b, NEW d, TwoLists(h, a, s, b, d)
    PROVE  /\ Acyclic(h) /\ Behind(h, a, s) /\ Behind(h, b, d)
           /\ Chain(h, a) = s /\ Chain(h, b) = d
<1>1. Acyclic(h)
  BY TwoListsAcyclic DEF Acyclic
<1>2. Behind(h, a, s) /\ Behind(h, b, d)
  BY DEF TwoLists, Disjoint, Behind, Listed, Cells
<1> QED BY <1>1, <1>2, ChainIs

LEMMA TwoHeadsRead ==
    ASSUME NEW h, NEW a, NEW s, NEW b, TwoHeads(h, a, s, b)
    PROVE  /\ Acyclic(h) /\ Behind(h, a, s) /\ Chain(h, a) = s
           /\ \A i \in 1 .. Len(s) : h.toSelf[s[i]] = CellAt(a, s, i - 1)
<1>1. PICK p : p = Point(h, b, None)
  OBVIOUS
<1>2. TwoLists(p, a, s, b, <<>>) /\ h \in Links /\ h.next[b] = h.next[a]
  BY <1>1 DEF TwoHeads
<1>3. a \in Cells /\ b \in Cells /\ a # b /\ b \notin Nodes /\ s \in Seq(Nodes) /\ None \in Nodes \cup {None}
  BY <1>2, CellsAssumption DEF TwoLists, Disjoint, Cells
<1>4. p.toSelf = h.toSelf /\ \A c \in Cells : p.next[c] = IF c = b THEN None ELSE h.next[c]
  BY <1>1, <1>2, <1>3, PointCells
<1>5. PICK rank : Descends(p, rank)
  BY <1>2, TwoListsAcyclic
<1>6. \A c \in Cells : h.next[c] \in Nodes \cup {None}
  BY <1>2 DEF Links
<1>7. Acyclic(h)
  <2> DEFINE f == [c \in Cells |-> IF c = b THEN rank[a] ELSE rank[c]]
  <2>1. rank \in [Cells -> Nat] /\ \A c \in Cells : p.next[c] # None => rank[p.next[c]] < rank[c]
    BY <1>5 DEF Descends
  <2>2. f \in [Cells -> Nat] /\ \A c \in Cells : f[c] = IF c = b THEN rank[a] ELSE rank[c]
    BY <1>3, <2>1
  <2> HIDE DEF f
  <2>3. ASSUME NEW c \in Cells, h.next[c] # None PROVE f[h.next[c]] < f[c]
    <3>1. h.next[c] \in Nodes /\ h.next[c] \in Cells /\ h.next[c] # b
      BY <1>3, <1>6, <2>3 DEF Cells
    <3>2. CASE c = b
      <4>1. p.next[a] = h.next[c] /\ f[c] = rank[a] /\ f[h.next[c]] = rank[h.next[c]]
        BY <1>2, <1>3, <1>4, <2>2, <3>1, <3>2
      <4> QED BY <1>3, <2>1, <2>3, <4>1
    <3>3. CASE c # b
      <4>1. p.next[c] = h.next[c] /\ f[c] = rank[c] /\ f[h.next[c]] = rank[h.next[c]]
        BY <1>4, <2>2, <3>1, <3>3
      <4> QED BY <2>1, <2>3, <4>1
    <3> QED BY <3>2, <3>3
  <2> QED BY <1>2, <2>2, <2>3 DEF Acyclic, Descends
<1>8. Behind(h, a, s)
  <2>1. Behind(p, a, s)
    BY <1>2, ListsRead
  <2>2. \A i \in 0 .. Len(s) : CellAt(a, s, i) \in Cells /\ CellAt(a, s, i) # b
    <3>1. \A i \in 0 .. Len(s) : i = 0 \/ i \in 1 .. Len(s)
      BY <1>3
    <3> QED BY <1>3, <3>1 DEF CellAt, Cells
  <2> QED BY <1>2, <1>4, <2>1, <2>2 DEF Behind
<1>9. \A i \in 1 .. Len(s) : h.toSelf[s[i]] = CellAt(a, s, i - 1)
  BY <1>2, <1>4 DEF TwoLists, Listed
<1> QED BY <1>7, <1>8, <1>9, ChainIs

\* An empty list stays empty.
LEMMA PointEmpty ==
    ASSUME NEW h, NEW a, NEW s, NEW b, TwoLists(h, a, s, b, <<>>)
    PROVE  Point(h, b, None) = h
<1>1. h \in Links /\ b \in Cells
  BY DEF TwoLists, Disjoint, Cells
<1>2. h.next[b] = None
  <2>1. 0 \in 0 .. Len(<<>>) /\ 0 + 1 \notin 1 .. Len(<<>>)
    OBVIOUS
  <2>2. h.next[CellAt(b, <<>>, 0)] = NodeAt(<<>>, 0 + 1)
    BY <2>1 DEF TwoLists, Listed
  <2> QED BY <2>1, <2>2 DEF CellAt, NodeAt
<1>3. [h.next EXCEPT ![b] = None] = h.next
  BY <1>1, <1>2 DEF Links
<1>4. h = [next |-> h.next, toSelf |-> h.toSelf]
  BY <1>1 DEF Links
<1>5. Point(h, b, None) = [next |-> [h.next EXCEPT ![b] = None], toSelf |-> h.toSelf]
  BY <1>1 DEF Point, Links
<1> QED BY <1>3, <1>4, <1>5

\* A node off the lists has no links.
LEMMA UnlinkedOff ==
    ASSUME NEW h, NEW a, NEW s, NEW b, NEW d, TwoLists(h, a, s, b, d),
           NEW n \in Nodes, ~On(n, s, d)
    PROVE  Unlinked(h, n) = h /\ h.next[n] = None
<1>1. h \in Links /\ a # n /\ b # n /\ n \in Cells
  BY CellsAssumption DEF TwoLists, Disjoint, Cells
<1>2. h.next[n] = None /\ h.toSelf[n] = None
  BY <1>1 DEF TwoLists
<1>3. PICK r : r = Unlinked(h, n)
  OBVIOUS
<1>4. /\ r \in Links
      /\ \A c \in Cells : r.next[c] = IF c = n THEN None ELSE h.next[c]
      /\ \A m \in Nodes : r.toSelf[m] = IF m = n THEN None ELSE h.toSelf[m]
  BY <1>1, <1>3, UnlinkedCells
<1>5. r.next = h.next
  BY <1>1, <1>2, <1>4 DEF Links
<1>6. r.toSelf = h.toSelf
  BY <1>1, <1>2, <1>4 DEF Links
<1>7. r = h
  BY <1>1, <1>4, <1>5, <1>6 DEF Links
<1> QED BY <1>2, <1>3, <1>7

\* LINEAR_LINKER_ADD_
LEMMA AddIs ==
    ASSUME NEW h, NEW a, NEW s, NEW b, NEW d, TwoLists(h, a, s, b, d),
           NEW n \in Nodes, ~On(n, s, d)
    PROVE  Add(h, a, n) = InsertAfter(h, CellAt(a, s, Len(s)), n)
<1>1. h \in Links /\ a # n /\ b # n /\ n \in Cells /\ h.next[n] = None /\ s \in Seq(Nodes) /\ Len(s) \in Nat
  BY UnlinkedOff, CellsAssumption DEF TwoLists, Disjoint, Cells
<1>2. [h EXCEPT !.next[n] = None] = h
  <2>1. [h.next EXCEPT ![n] = None] = h.next
    BY <1>1 DEF Links
  <2>2. h = [next |-> h.next, toSelf |-> h.toSelf]
    BY <1>1 DEF Links
  <2>3. [h EXCEPT !.next[n] = None] = [next |-> [h.next EXCEPT ![n] = None], toSelf |-> h.toSelf]
    BY <1>1 DEF Links
  <2> QED BY <2>1, <2>2, <2>3
<1>3. TailCell(h, a) = CellAt(a, s, Len(s))
  <2>1. 0 \in 0 .. Len(s) /\ CellAt(a, s, 0) = a
    BY <1>1 DEF CellAt
  <2>2. TailCell(h, CellAt(a, s, 0)) = CellAt(a, s, Len(s))
    BY <2>1, ListsRead, TailIs
  <2> QED BY <2>1, <2>2
<1>4. PICK cell : cell = CellAt(a, s, Len(s))
  OBVIOUS
<1>5. h.next[cell] = None
  <2>1. Len(s) \in 0 .. Len(s) /\ Len(s) + 1 \notin 1 .. Len(s)
    BY <1>1
  <2> QED BY <1>4, <2>1 DEF TwoLists, Listed, NodeAt
<1>6. InsertAfter(h, cell, n) = Join([h EXCEPT !.next[n] = None], cell, n)
  BY <1>5 DEF InsertAfter, Own
<1> QED BY <1>2, <1>3, <1>4, <1>6 DEF Add

LEMMA EmptyLists ==
    ASSUME NEW a \in Heads, NEW b \in Heads, a # b
    PROVE  TwoLists(NoLinks, a, <<>>, b, <<>>)
<1>1. /\ <<>> \in Seq(Nodes) /\ Len(<<>>) = 0 /\ (\A i \in 1 .. 0 : FALSE) /\ (\A i \in 0 .. 0 : i = 0)
      /\ 0 + 1 \notin 1 .. 0
  OBVIOUS
<1>2. NoLinks \in Links /\ a \in Cells /\ b \in Cells
  BY DEF NoLinks, Links, Cells
<1>3. \A c \in Cells : NoLinks.next[c] = None
  BY DEF NoLinks
<1>4. \A n \in Nodes : NoLinks.toSelf[n] = None
  BY DEF NoLinks
<1>5. NodeAt(<<>>, 0 + 1) = None /\ CellAt(a, <<>>, 0) = a /\ CellAt(b, <<>>, 0) = b
  BY <1>1 DEF NodeAt, CellAt
<1>6. Listed(NoLinks, a, <<>>) /\ Listed(NoLinks, b, <<>>)
  BY <1>1, <1>2, <1>3, <1>5 DEF Listed
<1>7. Disjoint(a, <<>>, b, <<>>)
  BY <1>1 DEF Disjoint, Distinct
<1> QED BY <1>2, <1>3, <1>4, <1>6, <1>7 DEF TwoLists

\* Every cell and the node it points to know each other.
LEMMA ListsLinked ==
    ASSUME NEW h, NEW a, NEW s, NEW b, NEW d, TwoLists(h, a, s, b, d)
    PROVE  Linked(h)
<1>1. h \in Links /\ Disjoint(a, s, b, d) /\ Disjoint(b, d, a, s) /\ Listed(h, a, s) /\ Listed(h, b, d)
  BY DEF TwoLists, Disjoint
<1>2. /\ Len(s) \in Nat /\ Len(d) \in Nat
      /\ \A i \in 1 .. Len(s) : s[i] \in Nodes /\ s[i] # None
  BY <1>1, CellsOf
<1>3. \A i \in 1 .. Len(d) : d[i] \in Nodes /\ d[i] # None
  BY <1>1, CellsOf
<1>4. ASSUME NEW i \in 0 .. Len(s), h.next[CellAt(a, s, i)] # None
      PROVE  h.toSelf[h.next[CellAt(a, s, i)]] = CellAt(a, s, i)
  <2>1. h.next[CellAt(a, s, i)] = NodeAt(s, i + 1)
    BY <1>1 DEF Listed
  <2>2. i + 1 \in 1 .. Len(s) /\ NodeAt(s, i + 1) = s[i + 1] /\ (i + 1) - 1 = i
    BY <1>2, <1>4, <2>1 DEF NodeAt
  <2>3. h.toSelf[s[i + 1]] = CellAt(a, s, (i + 1) - 1)
    BY <1>1, <2>2 DEF Listed
  <2> QED BY <2>1, <2>2, <2>3
<1>5. ASSUME NEW i \in 0 .. Len(d), h.next[CellAt(b, d, i)] # None
      PROVE  h.toSelf[h.next[CellAt(b, d, i)]] = CellAt(b, d, i)
  <2>1. h.next[CellAt(b, d, i)] = NodeAt(d, i + 1)
    BY <1>1 DEF Listed
  <2>2. i + 1 \in 1 .. Len(d) /\ NodeAt(d, i + 1) = d[i + 1] /\ (i + 1) - 1 = i
    BY <1>2, <1>5, <2>1 DEF NodeAt
  <2>3. h.toSelf[d[i + 1]] = CellAt(b, d, (i + 1) - 1)
    BY <1>1, <2>2 DEF Listed
  <2> QED BY <2>1, <2>2, <2>3
<1>6. \A c \in Cells : \/ \E i \in 0 .. Len(s) : c = CellAt(a, s, i)
                       \/ \E i \in 0 .. Len(d) : c = CellAt(b, d, i)
                       \/ h.next[c] = None
  <2> TAKE c \in Cells
  <2>1. 0 \in 0 .. Len(s) /\ 0 \in 0 .. Len(d) /\ CellAt(a, s, 0) = a /\ CellAt(b, d, 0) = b
    BY <1>2 DEF CellAt
  <2>2. \A i \in 1 .. Len(s) : i \in 0 .. Len(s) /\ CellAt(a, s, i) = s[i]
    BY <1>2 DEF CellAt
  <2>3. \A i \in 1 .. Len(d) : i \in 0 .. Len(d) /\ CellAt(b, d, i) = d[i]
    BY <1>2 DEF CellAt
  <2> QED BY <2>1, <2>2, <2>3 DEF TwoLists, On
<1>7. \A c \in Cells : h.next[c] # None => h.toSelf[h.next[c]] = c
  BY <1>4, <1>5, <1>6
<1>8. \A n \in Nodes : h.toSelf[n] # None => h.next[h.toSelf[n]] = n
  <2> TAKE n \in Nodes
  <2> HAVE h.toSelf[n] # None
  <2>1. On(n, s, d)
    BY DEF TwoLists
  <2>2. ASSUME NEW i \in 1 .. Len(s), n = s[i] PROVE h.next[h.toSelf[n]] = n
    <3>1. i - 1 \in 0 .. Len(s) /\ (i - 1) + 1 = i
      BY <1>2
    <3>2. h.toSelf[n] = CellAt(a, s, i - 1) /\ h.next[CellAt(a, s, i - 1)] = NodeAt(s, (i - 1) + 1)
      BY <1>1, <2>2, <3>1 DEF Listed
    <3> QED BY <2>2, <3>1, <3>2 DEF NodeAt
  <2>3. ASSUME NEW i \in 1 .. Len(d), n = d[i] PROVE h.next[h.toSelf[n]] = n
    <3>1. i - 1 \in 0 .. Len(d) /\ (i - 1) + 1 = i
      BY <1>2
    <3>2. h.toSelf[n] = CellAt(b, d, i - 1) /\ h.next[CellAt(b, d, i - 1)] = NodeAt(d, (i - 1) + 1)
      BY <1>1, <2>3, <3>1 DEF Listed
    <3> QED BY <2>3, <3>1, <3>2 DEF NodeAt
  <2> QED BY <2>1, <2>2, <2>3 DEF On
<1> QED BY <1>7, <1>8 DEF Linked
=============================================================================
