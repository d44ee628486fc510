--------------------------- MODULE PrinterProofs ---------------------------
(***************************************************************************)
(* The walk of Printer.tla, for every number of tokens: it prints what     *)
(* recursion over the tree would.                                          *)
(*                                                                         *)
(* Children and siblings have greater numbers than a token, parents        *)
(* smaller ones.  That is what makes the recursive definitions over the    *)
(* tree mean something, and what induction over the tree goes by.          *)
(***************************************************************************)
EXTENDS Printer, Numbers, SequenceTheorems, TLAPS

-----------------------------------------------------------------------------
(* The tree. *)

\* How many tokens there are.
N == Len(tree.parent)

\* What the proofs need of a tree: its tokens are numbered, from parents to children.
IsTree ==
    /\ N \in 1 .. MaxTokens
    /\ Tokens = 1 .. N
    /\ \A t \in Tokens : tree.parent[t] \in 0 .. t - 1 /\ (tree.parent[t] = 0 <=> t = 1)
    /\ \A t \in Tokens : t # 1 => IsContainer(tree.parent[t])

LEMMA TreesAreTrees ==
    ASSUME tree \in Trees
    PROVE  IsTree
<1> USE TokensAssumption
<1>1. PICK n \in 1 .. MaxTokens :
          /\ tree \in [parent : [1 .. n -> 0 .. n - 1], type : [1 .. n -> Types]]
          /\ \A i \in 1 .. n :
                /\ IF i = 1 THEN tree.parent[i] = 0 ELSE tree.parent[i] \in 1 .. i - 1
                /\ i > 1 => tree.type[tree.parent[i]] \in Containers
  BY DEF Trees
<1>2. n \in Nat /\ tree.parent \in [1 .. n -> 0 .. n - 1]
  BY <1>1
<1>3. tree.parent \in Seq(0 .. n - 1) /\ N = n
  BY <1>2 DEF N
<1>4. Tokens = 1 .. n
  BY <1>2 DEF Tokens
<1>5. ASSUME NEW t \in 1 .. n
      PROVE  /\ tree.parent[t] \in 0 .. t - 1 /\ (tree.parent[t] = 0 <=> t = 1)
             /\ t # 1 => IsContainer(tree.parent[t])
  <2>1. t = 1 \/ t > 1
    BY <1>2
  <2> QED BY <1>1, <2>1 DEF IsContainer
<1> QED BY <1>3, <1>4, <1>5 DEF IsTree

\* The first of a set of tokens is its least.
LEMMA FirstOfIs ==
    ASSUME NEW S, S \subseteq Nat \ {0}
    PROVE  /\ FirstOf(S) = 0 <=> S = {}
           /\ S # {} => FirstOf(S) \in S /\ \A u \in S : FirstOf(S) <= u
<1>1. CASE S = {}
  BY <1>1 DEF FirstOf
<1>2. CASE S # {}
  <2>1. S \subseteq Nat
    OBVIOUS
  <2>2. \E x \in S : \A y \in S : x <= y
    BY <1>2, <2>1, Least
  <2>3. Min(S) \in S /\ \A u \in S : Min(S) <= u
    BY <2>2 DEF Min
  <2> QED BY <1>2, <2>3 DEF FirstOf
<1> QED BY <1>1, <1>2

\* The first child comes behind its parent, and names it.
LEMMA ChildIs ==
    ASSUME IsTree, NEW t \in Tokens
    PROVE  /\ Child(t) \in 0 .. N
           /\ Child(t) # 0 => /\ Child(t) \in Tokens /\ Child(t) > t
                              /\ tree.parent[Child(t)] = t
           /\ Child(t) = 0 => \A u \in Tokens : tree.parent[u] # t
<1> DEFINE S == {u \in Tokens : tree.parent[u] = t}
<1>1. S \subseteq Nat \ {0} /\ Child(t) = FirstOf(S)
  BY DEF IsTree, Child
<1>2. /\ FirstOf(S) = 0 <=> S = {}
      /\ S # {} => FirstOf(S) \in S
  <2> HIDE DEF S
  <2> QED BY <1>1, FirstOfIs
<1>3. Child(t) # 0 => Child(t) \in Tokens /\ tree.parent[Child(t)] = t
  BY <1>1, <1>2
<1>4. Child(t) # 0 => Child(t) > t /\ Child(t) \in 1 .. N
  BY <1>3 DEF IsTree
<1>5. 0 \in 0 .. N
  BY DEF IsTree
<1>6. Child(t) = 0 => \A u \in Tokens : tree.parent[u] # t
  BY <1>1, <1>2
<1> QED BY <1>3, <1>4, <1>5, <1>6 DEF IsTree

\* The next sibling comes behind its brother, and has the same parent.
LEMMA SiblingIs ==
    ASSUME IsTree, NEW t \in Tokens
    PROVE  /\ Sibling(t) \in 0 .. N
           /\ Sibling(t) # 0 => /\ Sibling(t) \in Tokens /\ Sibling(t) > t
                                /\ tree.parent[Sibling(t)] = tree.parent[t]
                                /\ t # 1
<1> DEFINE S == {u \in Tokens : u > t /\ tree.parent[u] = tree.parent[t]}
<1>1. S \subseteq Nat \ {0} /\ Sibling(t) = FirstOf(S)
  BY DEF IsTree, Sibling
<1>2. /\ FirstOf(S) = 0 <=> S = {}
      /\ S # {} => FirstOf(S) \in S
  <2> HIDE DEF S
  <2> QED BY <1>1, FirstOfIs
<1>3. Sibling(t) # 0 => /\ Sibling(t) \in Tokens /\ Sibling(t) > t
                        /\ tree.parent[Sibling(t)] = tree.parent[t]
  BY <1>1, <1>2
<1>4. Sibling(t) # 0 => t # 1 /\ Sibling(t) \in 1 .. N
  BY <1>3 DEF IsTree
<1>5. 0 \in 0 .. N
  BY DEF IsTree
<1> QED BY <1>3, <1>4, <1>5 DEF IsTree

-----------------------------------------------------------------------------
(* Recursion over the tree. *)

\* A recursion to parents has a solution.
LEMMA UpwardDefined ==
    ASSUME IsTree,
           NEW S, NEW base \in S, NEW step \in [Tokens -> [S -> S]], NEW Stop, 0 \in Stop
    PROVE  \E f \in [0 .. N -> S] :
               f = [t \in 0 .. N |-> IF t \in Stop THEN base ELSE step[t][f[tree.parent[t]]]]
<1> DEFINE E(f, t) == IF t \in Stop THEN base ELSE step[t][f[tree.parent[t]]]
           Partly(k) == \E f \in [0 .. N -> S] : \A t \in 0 .. k : f[t] = E(f, t)
           bad == {k \in Nat : k <= N /\ ~Partly(k)}
<1>0. /\ N \in Nat /\ Tokens = 1 .. N
      /\ \A t \in Tokens : tree.parent[t] \in 0 .. N /\ tree.parent[t] < t
  BY DEF IsTree
<1>1. Partly(0)
  <2> DEFINE f == [t \in 0 .. N |-> base]
  <2>1. f \in [0 .. N -> S] /\ \A t \in 0 .. 0 : f[t] = E(f, t)
    BY <1>0
  <2> HIDE DEF f, E
  <2> QED BY <2>1
<1>2. ASSUME NEW k \in Nat, k < N, Partly(k) PROVE Partly(k + 1)
  <2>1. PICK f \in [0 .. N -> S] : \A t \in 0 .. k : f[t] = E(f, t)
    BY <1>2
  <2> DEFINE m == k + 1
             g == [f EXCEPT ![m] = E(f, m)]
  <2>2. m \in Tokens /\ m \in 0 .. N
    BY <1>0, <1>2
  <2>3. \A t \in 1 .. m : t \in Tokens /\ tree.parent[t] \in 0 .. N /\ tree.parent[t] < m
    BY <1>0, <2>2
  <2>4. E(f, m) \in S
    <3>1. f[tree.parent[m]] \in S
      BY <2>2, <2>3
    <3> HIDE DEF m
    <3> QED BY <2>2, <3>1
  <2>5. g \in [0 .. N -> S] /\ g[m] = E(f, m) /\ \A t \in 0 .. N : t # m => g[t] = f[t]
    <3> HIDE DEF E, m
    <3> QED BY <2>2, <2>4
  <2>6. \A t \in 0 .. m : E(g, t) = E(f, t)
    <3> HIDE DEF g, m
    <3>1. \A t \in 1 .. m : g[tree.parent[t]] = f[tree.parent[t]]
      BY <2>3, <2>5
    <3>2. \A t \in 0 .. m : t \in Stop \/ t \in 1 .. m
      BY <1>0, <2>2
    <3> QED BY <3>1, <3>2
  <2>7. \A t \in 0 .. k + 1 : g[t] = E(g, t)
    <3> HIDE DEF g, E
    <3>1. \A t \in 0 .. k + 1 : t = m \/ (t \in 0 .. k /\ t # m /\ t \in 0 .. N)
      BY <1>0, <1>2
    <3> QED BY <2>1, <2>5, <2>6, <3>1
  <2> HIDE DEF g, E
  <2> QED BY <2>5, <2>7
<1>3. Partly(N)
  <2> SUFFICES ASSUME bad # {} PROVE FALSE
    <3> HIDE DEF Partly
    <3> QED BY <1>0
  <2> HIDE DEF Partly
  <2>1. PICK k \in bad : \A j \in bad : k <= j
    <3> HIDE DEF bad
    <3>1. bad \subseteq Nat
      BY DEF bad
    <3> QED BY <3>1, Least
  <2>2. k \in Nat /\ k # 0 /\ k <= N /\ ~Partly(k)
    BY <1>1
  <2>3. k - 1 \in Nat /\ k - 1 < N /\ Partly(k - 1)
    BY <1>0, <2>1, <2>2
  <2>4. Partly((k - 1) + 1)
    BY <1>2, <2>3
  <2>5. (k - 1) + 1 = k
    BY <2>2
  <2> QED BY <2>2, <2>4, <2>5
<1>4. PICK f \in [0 .. N -> S] : \A t \in 0 .. N : f[t] = E(f, t)
  BY <1>3
<1> HIDE DEF E
<1>5. f = [t \in 0 .. N |-> E(f, t)]
  BY <1>4
<1> QED BY <1>5 DEF E

\* Induction from parents to children.
LEMMA UpwardInduction ==
    ASSUME IsTree, NEW G, 0 \in G,
           \A t \in Tokens : tree.parent[t] \in G => t \in G
    PROVE  0 .. N \subseteq G
<1> DEFINE bad == {t \in 0 .. N : t \notin G}
<1> SUFFICES ASSUME bad # {} PROVE FALSE
  OBVIOUS
<1>1. PICK t \in bad : \A u \in bad : t <= u
  <2>1. bad \subseteq Nat
    BY DEF IsTree
  <2> HIDE DEF bad
  <2> QED BY <2>1, Least
<1>2. t \in Tokens /\ t \in 0 .. N /\ tree.parent[t] \in 0 .. N /\ tree.parent[t] < t
  BY DEF IsTree
<1>3. tree.parent[t] \notin bad
  <2> HIDE DEF bad
  <2>1. N \in Nat
    BY DEF IsTree
  <2> QED BY <1>1, <1>2, <2>1
<1> QED BY <1>2, <1>3

\* Induction over the tree: what holds of nothing, and of a token when it holds of
\* its first child and its next sibling, holds of every token.
LEMMA DownwardInduction ==
    ASSUME IsTree, NEW G, 0 \in G,
           \A t \in Tokens : Child(t) \in G /\ Sibling(t) \in G => t \in G
    PROVE  0 .. N \subseteq G
<1> DEFINE bad == {k \in Nat : k < N /\ N - k \notin G}
<1>1. ASSUME bad # {} PROVE FALSE
  <2>1. PICK k \in bad : \A j \in bad : k <= j
    <3> HIDE DEF bad
    <3>1. bad \subseteq Nat
      BY DEF bad
    <3> QED BY <1>1, <3>1, Least
  <2> DEFINE t == N - k
  <2>2. t \in Tokens /\ t \notin G
    BY DEF IsTree
  <2>3. ASSUME NEW u \in 0 .. N, u = 0 \/ u > t PROVE u \in G
    <3>1. CASE u = 0
      BY <3>1
    <3>2. CASE u # 0
      <4>1. N - u \in Nat /\ N - u < N /\ N - u < k /\ N - (N - u) = u
        BY <2>2, <2>3, <3>2 DEF IsTree
      <4>2. N - u \notin bad
        BY <2>1, <4>1
      <4> QED BY <4>1, <4>2
    <3> QED BY <3>1, <3>2
  <2> HIDE DEF t
  <2>4. Child(t) \in G
    BY <2>2, <2>3, ChildIs
  <2>5. Sibling(t) \in G
    BY <2>2, <2>3, SiblingIs
  <2> QED BY <2>2, <2>4, <2>5
<1>2. ASSUME NEW u \in 0 .. N, u \notin G PROVE FALSE
  <2>1. N - u \in Nat /\ N - u < N /\ N - (N - u) = u
    BY <1>2 DEF IsTree
  <2> QED BY <1>1, <1>2, <2>1
<1> QED BY <1>2

-----------------------------------------------------------------------------
(* The text. *)

\* What is printed of the tokens of a tree.
Lexemes == [lexeme : {"name", "open", "close", "value", "comma"}, of : Tokens]

Lexeme == {"name", "open", "close", "value", "comma"}

LEMMA PutIs ==
    ASSUME NEW t \in Tokens, NEW condition, NEW x \in Lexeme
    PROVE  Put(condition, x, t) \in Seq(Lexemes)
<1> DEFINE r == [lexeme |-> x, of |-> t]
<1>1. r \in Lexemes
  BY DEF Lexemes, Lexeme
<1>2. Put(condition, x, t) = <<r>> \/ Put(condition, x, t) = <<>>
  BY Zenon DEF Put
<1> HIDE DEF r
<1>3. <<r>> \in Seq(Lexemes) /\ <<>> \in Seq(Lexemes)
  BY <1>1
<1> QED BY <1>2, <1>3, Zenon

\* What recursion prints of a token, its children and its siblings behind it.
LEMMA ListedIs ==
    ASSUME IsTree
    PROVE  /\ Listed[0] = <<>>
           /\ \A t \in Tokens :
                 Listed[t] = Put(HasName(t), "name", t)
                             \o (IF IsContainer(t)
                                 THEN Put(TRUE, "open", t) \o Listed[Child(t)]
                                      \o Put(TRUE, "close", t)
                                 ELSE Put(TRUE, "value", t))
                             \o Put(Sibling(t) # 0, "comma", t)
                             \o Listed[Sibling(t)]
<1> DEFINE E(f, t) == IF t = 0 THEN <<>>
                      ELSE Put(HasName(t), "name", t)
                           \o (IF IsContainer(t)
                               THEN Put(TRUE, "open", t) \o f[Child(t)] \o Put(TRUE, "close", t)
                               ELSE Put(TRUE, "value", t))
                           \o Put(Sibling(t) # 0, "comma", t)
                           \o f[Sibling(t)]
           Done(k) == {0} \cup (N - k + 1 .. N)
           Partly(k) == \E f : /\ f = [t \in 0 .. N |-> f[t]]
                               /\ \A t \in Done(k) : f[t] = E(f, t)
           bad == {k \in Nat : k <= N /\ ~Partly(k)}
<1>1. N \in Nat /\ Tokens = 1 .. N
  BY DEF IsTree
<1>3. ASSUME NEW f, NEW g, NEW t \in Tokens,
             f[Child(t)] = g[Child(t)], f[Sibling(t)] = g[Sibling(t)]
      PROVE  E(f, t) = E(g, t)
  BY <1>3, Zenon
<1>4. \A f : E(f, 0) = <<>>
  OBVIOUS
<1>5. Partly(0)
  <2> DEFINE f == [t \in 0 .. N |-> <<>>]
  <2>1. f = [t \in 0 .. N |-> f[t]]
    BY Zenon
  <2>2. \A t \in Done(0) : t = 0
    BY <1>1
  <2>3. f[0] = <<>>
    BY <1>1
  <2> HIDE DEF f, E, Done
  <2>4. \A t \in Done(0) : f[t] = E(f, t)
    BY <1>4, <2>2, <2>3
  <2> QED BY <2>1, <2>4
<1>6. ASSUME NEW k \in Nat, k < N, Partly(k) PROVE Partly(k + 1)
  <2>1. PICK f : /\ f = [t \in 0 .. N |-> f[t]]
                 /\ \A t \in Done(k) : f[t] = E(f, t)
    BY <1>6
  <2> DEFINE m == N - k
             g == [t \in 0 .. N |-> IF t = m THEN E(f, m) ELSE f[t]]
  <2>2. m \in Tokens
    BY <1>1, <1>6
  <2>3. g = [t \in 0 .. N |-> g[t]]
    BY Zenon
  <2>4. g[m] = E(f, m) /\ \A t \in 0 .. N : t # m => g[t] = f[t]
    <3> HIDE DEF E, m
    <3> QED BY <1>1, <2>2
  <2> HIDE DEF g, E
  <2>5. ASSUME NEW t \in Tokens, t >= m PROVE E(g, t) = E(f, t)
    <3>1. Child(t) \in 0 .. N /\ Child(t) # m
      BY <1>1, <2>2, <2>5, ChildIs
    <3>2. Sibling(t) \in 0 .. N /\ Sibling(t) # m
      BY <1>1, <2>2, <2>5, SiblingIs
    <3> HIDE DEF m
    <3> QED BY <1>3, <2>4, <3>1, <3>2
  <2>6. ASSUME NEW t \in Done(k + 1) PROVE g[t] = E(g, t)
    <3>1. t = 0 \/ (t \in Tokens /\ t >= m)
      BY <1>1, <1>6
    <3>2. CASE t = m
      <4> HIDE DEF m
      <4> QED BY <2>2, <2>4, <2>5, <3>1, <3>2
    <3>3. CASE t # m
      <4>1. t \in Done(k) /\ t \in 0 .. N
        BY <1>1, <1>6, <3>1, <3>3
      <4>2. f[t] = E(f, t) /\ g[t] = f[t]
        BY <2>1, <2>4, <3>3, <4>1
      <4> HIDE DEF m
      <4> QED BY <1>4, <2>5, <3>1, <4>2
    <3> QED BY <3>2, <3>3
  <2> HIDE DEF Done
  <2> QED BY <2>3, <2>6
<1>7. Partly(N)
  <2> SUFFICES ASSUME bad # {} PROVE FALSE
    <3> HIDE DEF Partly
    <3> QED BY <1>1
  <2> HIDE DEF Partly
  <2>1. PICK k \in bad : \A j \in bad : k <= j
    <3> HIDE DEF bad
    <3>1. bad \subseteq Nat
      BY DEF bad
    <3> QED BY <3>1, Least
  <2>2. k \in Nat /\ k # 0 /\ k <= N /\ ~Partly(k)
    BY <1>5
  <2>3. k - 1 \in Nat /\ k - 1 < N /\ Partly(k - 1)
    BY <1>1, <2>1, <2>2
  <2>4. Partly((k - 1) + 1)
    BY <1>6, <2>3
  <2>5. (k - 1) + 1 = k
    BY <2>2
  <2> QED BY <2>2, <2>4, <2>5
<1> HIDE DEF E
<1>8. PICK f : /\ f = [t \in 0 .. N |-> f[t]]
               /\ \A t \in Done(N) : f[t] = E(f, t)
  BY <1>7
<1>9. \A t \in 0 .. N : t \in Done(N)
  BY <1>1
<1>10. f = [t \in 0 .. N |-> E(f, t)]
  <2> HIDE DEF Done
  <2> QED BY <1>8, <1>9
<1>11. Listed = [t \in 0 .. N |-> E(Listed, t)]
  <2> USE DEF E
  <2> QED BY <1>10 DEF Listed, N
<1>12. \A t \in 0 .. N : Listed[t] = E(Listed, t)
  BY <1>11
<1>13. 0 \in 0 .. N /\ \A t \in Tokens : t \in 0 .. N /\ t # 0
  BY <1>1
<1> QED BY <1>12, <1>13 DEF E

\* The text is one of lexemes.
LEMMA ListedTyped ==
    ASSUME IsTree
    PROVE  \A t \in 0 .. N : Listed[t] \in Seq(Lexemes)
<1> DEFINE G == {t \in 0 .. N : Listed[t] \in Seq(Lexemes)}
<1>1. 0 \in G
  <2>1. Listed[0] = <<>>
    BY ListedIs
  <2>2. 0 \in 0 .. N
    BY DEF IsTree
  <2> QED BY <2>1, <2>2, EmptySeq
<1>2. ASSUME NEW t \in Tokens, Child(t) \in G, Sibling(t) \in G PROVE t \in G
  <2> DEFINE a == Put(HasName(t), "name", t)
             o == Put(TRUE, "open", t)
             c == Put(TRUE, "close", t)
             v == Put(TRUE, "value", t)
             m == Put(Sibling(t) # 0, "comma", t)
             L == Listed[Child(t)]
             X == Listed[Sibling(t)]
  <2>1. /\ a \in Seq(Lexemes) /\ o \in Seq(Lexemes) /\ c \in Seq(Lexemes)
        /\ v \in Seq(Lexemes) /\ m \in Seq(Lexemes)
    <3> HIDE DEF Lexemes
    <3> QED BY PutIs DEF Lexeme
  <2>2. L \in Seq(Lexemes) /\ X \in Seq(Lexemes)
    BY <1>2
  <2>3. Listed[t] = a \o (IF IsContainer(t) THEN o \o L \o c ELSE v) \o m \o X
    BY ListedIs
  <2>4. t \in 0 .. N
    BY DEF IsTree
  <2> HIDE DEF a, o, c, v, m, L, X
  <2>5. PICK b \in Seq(Lexemes) : b = IF IsContainer(t) THEN o \o L \o c ELSE v
    BY <2>1, <2>2, ConcatProperties
  <2>6. a \o b \o m \o X \in Seq(Lexemes)
    BY <2>1, <2>2, ConcatProperties
  <2> QED BY <2>3, <2>4, <2>5, <2>6
<1> HIDE DEF G
<1>3. 0 .. N \subseteq G
  BY <1>1, <1>2, DownwardInduction
<1> QED BY <1>3 DEF G

\* What is printed behind a token below self, until self has been printed.
Rest[t \in 0 .. N] ==
    IF t \in {0, 1, self} THEN <<>>
    ELSE Put(Sibling(t) # 0, "comma", t) \o Listed[Sibling(t)]
         \o Put(TRUE, "close", tree.parent[t]) \o Rest[tree.parent[t]]

LEMMA RestIs ==
    ASSUME IsTree
    PROVE  /\ \A t \in 0 .. N : Rest[t] \in Seq(Lexemes)
           /\ \A t \in Tokens \ {1, self} :
                 Rest[t] = Put(Sibling(t) # 0, "comma", t) \o Listed[Sibling(t)]
                           \o Put(TRUE, "close", tree.parent[t]) \o Rest[tree.parent[t]]
           /\ self \in Tokens => Rest[self] = <<>>
<1> DEFINE S == Seq(Lexemes)
           Stop == {0, 1, self}
           front == [t \in Tokens |-> IF t = 1 THEN <<>>
                                      ELSE Put(Sibling(t) # 0, "comma", t) \o Listed[Sibling(t)]
                                           \o Put(TRUE, "close", tree.parent[t])]
           step == [t \in Tokens |-> [x \in S |-> front[t] \o x]]
<1>1. N \in Nat /\ Tokens = 1 .. N
  BY DEF IsTree
<1>2. \A t \in Tokens \ {1} : tree.parent[t] \in Tokens
  BY DEF IsTree
<1>3. front \in [Tokens -> S]
  <2> SUFFICES ASSUME NEW t \in Tokens, t # 1
               PROVE  Put(Sibling(t) # 0, "comma", t) \o Listed[Sibling(t)]
                      \o Put(TRUE, "close", tree.parent[t]) \in Seq(Lexemes)
    BY EmptySeq
  <2>1. /\ Put(Sibling(t) # 0, "comma", t) \in Seq(Lexemes)
        /\ Put(TRUE, "close", tree.parent[t]) \in Seq(Lexemes)
    BY <1>2, PutIs DEF Lexeme
  <2>2. Listed[Sibling(t)] \in Seq(Lexemes)
    BY SiblingIs, ListedTyped
  <2> QED BY <2>1, <2>2, ConcatProperties
<1>4. <<>> \in S /\ 0 \in Stop
  BY EmptySeq
<1>5. step \in [Tokens -> [S -> S]]
  <2> HIDE DEF front
  <2> QED BY <1>3, ConcatProperties
<1>6. PICK f \in [0 .. N -> S] :
          f = [t \in 0 .. N |-> IF t \in Stop THEN <<>> ELSE step[t][f[tree.parent[t]]]]
  <2> DEFINE none == <<>>
  <2>1. none \in S
    BY <1>4
  <2> HIDE DEF S, Stop, step, none
  <2>2. \E f \in [0 .. N -> S] :
            f = [t \in 0 .. N |-> IF t \in Stop THEN none ELSE step[t][f[tree.parent[t]]]]
    BY <1>4, <1>5, <2>1, UpwardDefined
  <2> QED BY <2>2 DEF none
<1> DEFINE E(g, t) == IF t \in {0, 1, self} THEN <<>>
                      ELSE Put(Sibling(t) # 0, "comma", t) \o Listed[Sibling(t)]
                           \o Put(TRUE, "close", tree.parent[t]) \o g[tree.parent[t]]
<1>7. ASSUME NEW t \in 0 .. N PROVE f[t] = E(f, t)
  <2>1. CASE t \in Stop
    BY <1>6, <2>1
  <2>2. CASE t \notin Stop
    <3>1. t \in Tokens \ {1}
      BY <1>1, <2>2
    <3>2. tree.parent[t] \in 0 .. N
      BY <1>1, <1>2, <3>1
    <3>3. f[tree.parent[t]] \in S
      BY <1>6, <3>2
    <3>4. f[t] = step[t][f[tree.parent[t]]]
      <4> HIDE DEF step, Stop
      <4> QED BY <1>6, <2>2
    <3>5. f[t] = front[t] \o f[tree.parent[t]]
      <4> HIDE DEF front
      <4> QED BY <3>1, <3>3, <3>4
    <3> QED BY <2>2, <3>1, <3>5
  <2> QED BY <2>1, <2>2
<1> HIDE DEF E
<1>8. f = [t \in 0 .. N |-> E(f, t)]
  BY <1>6, <1>7
<1>9. Rest = [t \in 0 .. N |-> E(Rest, t)]
  BY <1>8 DEF E, Rest
<1>10. \A t \in 0 .. N : Rest[t] = E(Rest, t)
  BY <1>9
<1>11. \A t \in Tokens : t \in 0 .. N /\ t # 0
  BY <1>1
<1>12. \A t \in Tokens \ {1, self} :
          Rest[t] = Put(Sibling(t) # 0, "comma", t) \o Listed[Sibling(t)]
                    \o Put(TRUE, "close", tree.parent[t]) \o Rest[tree.parent[t]]
  BY <1>10, <1>11 DEF E
<1>13. \A t \in 0 .. N : t \in Stop => Rest[t] = <<>>
  BY <1>10 DEF E
<1> DEFINE G == {t \in 0 .. N : Rest[t] \in S}
<1>14. 0 \in G
  <2>1. 0 \in 0 .. N
    BY <1>1
  <2>2. Rest[0] = <<>>
    BY <1>4, <1>13, <2>1
  <2> QED BY <1>4, <2>1, <2>2
<1>15. ASSUME NEW t \in Tokens, tree.parent[t] \in G PROVE t \in G
  <2>1. CASE t \in Stop
    BY <1>4, <1>11, <1>13, <2>1
  <2>2. CASE t \notin Stop
    <3>1. front[t] \o Rest[tree.parent[t]] \in S
      <4> HIDE DEF front
      <4> QED BY <1>3, <1>15, ConcatProperties
    <3>2. Rest[t] = front[t] \o Rest[tree.parent[t]]
      BY <1>12, <2>2
    <3> HIDE DEF front
    <3> QED BY <1>11, <3>1, <3>2
  <2> QED BY <2>1, <2>2
<1>16. 0 .. N \subseteq G
  <2> HIDE DEF G
  <2> QED BY <1>14, <1>15, UpwardInduction
<1> QED BY <1>11, <1>12, <1>13, <1>16

\* The depth of a token is that of its parent and one.
LEMMA DepthIs ==
    ASSUME IsTree
    PROVE  /\ \A t \in 0 .. N : Depth[t] \in Nat
           /\ \A t \in Tokens : Depth[t] = IF t = self THEN 0 ELSE 1 + Depth[tree.parent[t]]
<1> DEFINE S == Nat
           zero == 0
           Stop == {0, self}
           step == [t \in Tokens |-> [d \in S |-> 1 + d]]
<1>1. N \in Nat /\ Tokens = 1 .. N
  BY DEF IsTree
<1>2. zero \in S /\ 0 \in Stop /\ step \in [Tokens -> [S -> S]]
  OBVIOUS
<1>3. PICK f \in [0 .. N -> S] :
          f = [t \in 0 .. N |-> IF t \in Stop THEN zero ELSE step[t][f[tree.parent[t]]]]
  <2> HIDE DEF S, zero, Stop, step
  <2> QED BY <1>2, UpwardDefined
<1>4. f = [t \in 0 .. N |-> IF t \in {0, self} THEN 0 ELSE 1 + f[tree.parent[t]]]
  <2>1. ASSUME NEW t \in 0 .. N, t # 0
        PROVE  step[t][f[tree.parent[t]]] = 1 + f[tree.parent[t]]
    <3>1. t \in Tokens
      BY <1>1, <2>1
    <3>2. tree.parent[t] \in 0 .. N
      BY <1>1, <3>1 DEF IsTree
    <3> QED BY <1>3, <3>1, <3>2
  <2> HIDE DEF step
  <2> QED BY <1>3, <2>1
<1>5. Depth = [t \in 0 .. N |-> IF t \in {0, self} THEN 0 ELSE 1 + Depth[tree.parent[t]]]
  BY <1>4 DEF Depth, N
<1>6. \A t \in 0 .. N : Depth[t] = IF t \in {0, self} THEN 0 ELSE 1 + Depth[tree.parent[t]]
  BY <1>5
<1>7. \A t \in Tokens : t \in 0 .. N /\ t # 0
  BY <1>1
<1>8. \A t \in Tokens : Depth[t] = IF t = self THEN 0 ELSE 1 + Depth[tree.parent[t]]
  BY <1>6, <1>7
<1> DEFINE G == {t \in 0 .. N : Depth[t] \in Nat}
<1>9. 0 \in G
  BY <1>1, <1>6
<1>10. ASSUME NEW t \in Tokens, tree.parent[t] \in G PROVE t \in G
  <2>1. t \in 0 .. N /\ Depth[tree.parent[t]] \in Nat
    BY <1>7, <1>10
  <2>2. Depth[t] = 0 \/ Depth[t] = 1 + Depth[tree.parent[t]]
    BY <1>8, <1>10
  <2>3. Depth[t] \in Nat
    BY <2>1, <2>2
  <2> QED BY <2>1, <2>3
<1>11. 0 .. N \subseteq G
  <2> HIDE DEF G
  <2> QED BY <1>9, <1>10, UpwardInduction
<1> QED BY <1>8, <1>11

-----------------------------------------------------------------------------
(* Below self. *)

\* The tokens that are self or below it: the least set that holds self and, with a
\* token, its children.
Under(t) ==
    \A S \in SUBSET Tokens :
       self \in S /\ (\A u \in Tokens : tree.parent[u] \in S => u \in S) => t \in S

LEMMA UnderIs ==
    ASSUME IsTree, self \in Tokens, NEW t, Under(t)
    PROVE  /\ t \in Tokens /\ t >= self
           /\ \A u \in Tokens : tree.parent[u] = t => Under(u)
           /\ t # self => t # 1 /\ Under(tree.parent[t])
<1>1. Under(self) /\ self \in Tokens
  BY DEF Under
<1>2. t \in Tokens
  BY DEF Under, IsTree
<1>3. t >= self
  <2> DEFINE S == {u \in Tokens : u >= self}
  <2>1. \A u \in Tokens : tree.parent[u] \in S => u \in S
    BY DEF IsTree
  <2>2. self \in S
    BY DEF IsTree
  <2> HIDE DEF S
  <2>3. S \in SUBSET Tokens
    BY DEF S
  <2>4. t \in S
    BY <2>1, <2>2, <2>3 DEF Under
  <2> QED BY <2>4 DEF S
<1>4. \A u \in Tokens : tree.parent[u] = t => Under(u)
  BY DEF Under
<1>5. ASSUME t # self PROVE Under(tree.parent[t])
  <2> SUFFICES ASSUME NEW S \in SUBSET Tokens, self \in S,
                      \A u \in Tokens : tree.parent[u] \in S => u \in S,
                      tree.parent[t] \notin S
               PROVE  FALSE
    BY DEF Under
  <2>1. S \ {t} \in SUBSET Tokens /\ self \in S \ {t}
    BY <1>5
  <2>2. \A u \in Tokens : tree.parent[u] \in S \ {t} => u \in S \ {t}
    OBVIOUS
  <2>3. t \in S \ {t}
    BY <2>1, <2>2 DEF Under
  <2> QED BY <2>3
<1>6. t # self => t # 1
  BY <1>2, <1>3 DEF IsTree
<1> QED BY <1>2, <1>3, <1>4, <1>5, <1>6

\* A token below self is no deeper than its number allows.
LEMMA DepthBounded ==
    ASSUME IsTree, self \in Tokens, NEW t, Under(t)
    PROVE  Depth[t] \in 0 .. t - 1
<1> DEFINE G == {u \in 0 .. N : Under(u) => Depth[u] <= u - 1}
<1>1. Tokens = 1 .. N /\ N \in Nat
  BY DEF IsTree
<1>2. 0 \in G
  BY <1>1, UnderIs
<1>3. ASSUME NEW u \in Tokens, tree.parent[u] \in G PROVE u \in G
  <2>1. u \in 0 .. N /\ tree.parent[u] < u /\ tree.parent[u] \in 0 .. N
    BY <1>1 DEF IsTree
  <2>2. CASE u = self
    <3>1. Depth[u] = 0
      BY <2>2, DepthIs
    <3> QED BY <1>1, <2>1, <3>1
  <2>3. CASE u # self /\ Under(u)
    <3>1. Under(tree.parent[u])
      BY <2>3, UnderIs
    <3>2. Depth[tree.parent[u]] <= tree.parent[u] - 1
      BY <1>3, <3>1
    <3>3. Depth[tree.parent[u]] \in Nat /\ Depth[u] = 1 + Depth[tree.parent[u]]
      BY <2>1, <2>3, DepthIs
    <3> QED BY <2>1, <3>2, <3>3
  <2>4. CASE ~Under(u)
    BY <2>1, <2>4
  <2> QED BY <2>2, <2>3, <2>4
<1>4. 0 .. N \subseteq G
  <2> HIDE DEF G
  <2> QED BY <1>2, <1>3, UpwardInduction
<1>5. t \in Tokens /\ t \in 0 .. N
  BY <1>1, UnderIs
<1>6. Depth[t] \in Nat
  BY <1>5, DepthIs
<1> QED BY <1>1, <1>4, <1>5, <1>6

-----------------------------------------------------------------------------
(* Printing. *)

\* What is printed and was due is due no longer; and of what was due, a part is left.
LEMMA PrintedIs ==
    ASSUME NEW L, NEW p \in Seq(L), NEW q \in Seq(L), due = p \o q
    PROVE  /\ Printed(p) => due' = q
           /\ \A n \in 0 .. Len(p) - 1 : Printed(SubSeq(p, 1, n)) => due' \in Seq(L)
<1>1. ASSUME NEW n \in 0 .. Len(p)
      PROVE  LET r == SubSeq(p, 1, n)
             IN  r \in Seq(L) /\ Len(r) = n /\ IsPrefix(r, due)
  <2> DEFINE r == SubSeq(p, 1, n)
  <2>1. r \in Seq(L) /\ Len(r) = n /\ \A i \in 1 .. n : r[i] = p[i]
    BY SubSeqProperties, LenProperties, ElementOfSeq
  <2>2. due \in Seq(L) /\ Len(due) = Len(p) + Len(q) /\ \A i \in 1 .. n : due[i] = p[i]
    BY ConcatProperties, LenProperties
  <2> HIDE DEF r
  <2>3. SubSeq(r, 1, n) = SubSeq(due, 1, n)
    BY <2>1, <2>2
  <2>4. n <= Len(due)
    BY <2>2, LenProperties
  <2> QED BY <2>1, <2>3, <2>4 DEF r, IsPrefix
<1>2. SubSeq(p, 1, Len(p)) = p /\ Len(p) \in Nat /\ Len(q) \in Nat
  BY SubSeqFull, LenProperties
<1>3. ASSUME Printed(p) PROVE due' = q
  <2>1. IsPrefix(p, due)
    <3>1. Len(p) \in 0 .. Len(p)
      BY <1>2
    <3>2. IsPrefix(SubSeq(p, 1, Len(p)), due)
      BY <1>1, <3>1
    <3> QED BY <1>2, <3>2
  <2>2. due' = SubSeq(due, Len(p) + 1, Len(due))
    BY <1>3, <2>1 DEF Printed
  <2>3. /\ Len(due) = Len(p) + Len(q)
        /\ \A i \in Len(p) + 1 .. Len(due) : due[i] = q[i - Len(p)]
        /\ \A i \in 1 .. Len(due) : due[i] \in L
    BY <1>2, ConcatProperties, ElementOfSeq
  <2>4. /\ due' \in Seq(L) /\ Len(due') = Len(q)
        /\ \A i \in 1 .. Len(q) : due'[i] = due[Len(p) + 1 + i - 1]
    BY <1>2, <2>2, <2>3, SubSeqProperties
  <2>5. ASSUME NEW i \in 1 .. Len(q) PROVE due'[i] = q[i]
    <3> DEFINE j == Len(p) + 1 + i - 1
    <3>1. j \in Len(p) + 1 .. Len(due) /\ j - Len(p) = i
      BY <1>2, <2>3
    <3>2. due'[i] = due[j]
      BY <2>4
    <3> HIDE DEF j
    <3> QED BY <2>3, <3>1, <3>2
  <2> QED BY <2>4, <2>5, SeqEqual
<1>4. ASSUME NEW n \in 0 .. Len(p) - 1, Printed(SubSeq(p, 1, n)) PROVE due' \in Seq(L)
  <2>1. n \in 0 .. Len(p)
    BY <1>2
  <2>2. due' = SubSeq(due, n + 1, Len(due))
    BY <1>1, <1>4, <2>1 DEF Printed
  <2>3. Len(due) \in Nat /\ \A i \in 1 .. Len(due) : due[i] \in L
    BY ConcatProperties, ElementOfSeq, LenProperties
  <2>4. \A i \in n + 1 .. Len(due) : due[i] \in L
    BY <2>1, <2>3
  <2> QED BY <2>1, <2>2, <2>3, <2>4, SubSeqProperties
<1> QED BY <1>3, <1>4

\* What is still due, a turn under way: what the token has left, and what comes behind it.
Own == IF retFlg THEN Put(TRUE, "close", token) ELSE Text(token)

\* What remains when the turn has been printed.
Left ==
    IF Descends THEN Listed[Child(token)] \o Put(TRUE, "close", token) \o Rest[token]
    ELSE IF token = self THEN <<>>
    ELSE IF GoesOn
    THEN Listed[Sibling(token)] \o Put(TRUE, "close", tree.parent[token])
         \o Rest[tree.parent[token]]
    ELSE Put(TRUE, "close", tree.parent[token]) \o Rest[tree.parent[token]]

\* Only containers are come back to.
Returning == retFlg => IsContainer(token)

\* Lexemes in a row.  How they are grouped makes no difference.
Cat(s, t) == s \o t

LEMMA Grouping ==
    ASSUME NEW S
    PROVE  /\ \A s, t, u \in Seq(S) : Cat(Cat(s, t), u) = Cat(s, Cat(t, u))
           /\ \A s, t \in Seq(S) : Cat(s, t) \in Seq(S)
           /\ \A s \in Seq(S) : Cat(s, <<>>) = s /\ Cat(<<>>, s) = s
           /\ <<>> \in Seq(S)
BY ConcatAssociative, ConcatProperties, ConcatEmptySeq, EmptySeq DEF Cat

\* A turn that does not go down prints all that its token has left.
LEMMA TurnEndsToken ==
    ASSUME IsTree, token \in Tokens, retFlg \in BOOLEAN, Returning, ~Descends
    PROVE  /\ Own \in Seq(Lexemes)
           /\ Turn = Cat(Own, Put(GoesOn, "comma", token))
<1> DEFINE a == Put(HasName(token), "name", token)
           o == Put(TRUE, "open", token)
           c == Put(TRUE, "close", token)
           v == Put(TRUE, "value", token)
           m == Put(GoesOn, "comma", token)
<1>1. /\ a \in Seq(Lexemes) /\ o \in Seq(Lexemes) /\ c \in Seq(Lexemes)
      /\ v \in Seq(Lexemes) /\ m \in Seq(Lexemes)
  <2> HIDE DEF Lexemes
  <2> QED BY PutIs DEF Lexeme
<1>2. CASE retFlg
  <2>1. IsContainer(token)
    BY <1>2 DEF Returning
  <2>2. Turn = Cat(Cat(Cat(Cat(<<>>, <<>>), c), <<>>), m)
    BY <1>2, <2>1, Zenon DEF Turn, Put, Cat
  <2>3. Own = c
    BY <1>2 DEF Own
  <2> HIDE DEF a, o, c, m, v
  <2>4. Cat(<<>>, <<>>) = <<>> /\ Cat(<<>>, c) = c /\ Cat(c, <<>>) = c
    BY <1>1, Grouping
  <2> QED BY <1>1, <2>2, <2>3, <2>4 DEF m
<1>3. CASE ~retFlg /\ IsContainer(token)
  <2>1. Child(token) = 0 /\ Listed[Child(token)] = <<>>
    BY <1>3, ListedIs DEF Descends
  <2>2. Put(HasName(token) /\ ~retFlg, "name", token) = a
    <3>1. (HasName(token) /\ ~retFlg) <=> HasName(token)
      BY <1>3
    <3> QED BY <3>1, Zenon DEF Put
  <2>3. Turn = Cat(Cat(Cat(Cat(a, o), c), <<>>), m)
    BY <1>3, <2>2, Zenon DEF Turn, Put, Cat
  <2>4. Own = Cat(a, Cat(Cat(o, <<>>), c))
    BY <1>3, <2>1, Zenon DEF Own, Text, Cat
  <2> HIDE DEF a, o, c, m, v
  <2>5. Cat(o, <<>>) = o /\ Cat(a, o) \in Seq(Lexemes) /\ Cat(a, Cat(o, c)) = Cat(Cat(a, o), c)
    BY <1>1, Grouping
  <2>6. Cat(Cat(a, o), c) \in Seq(Lexemes)
    BY <1>1, <2>5, Grouping
  <2>7. Cat(Cat(Cat(a, o), c), <<>>) = Cat(Cat(a, o), c)
    BY <2>6, Grouping
  <2> QED BY <2>3, <2>4, <2>5, <2>6, <2>7 DEF m
<1>4. CASE ~retFlg /\ ~IsContainer(token)
  <2>1. Put(HasName(token) /\ ~retFlg, "name", token) = a
    <3>1. (HasName(token) /\ ~retFlg) <=> HasName(token)
      BY <1>4
    <3> QED BY <3>1, Zenon DEF Put
  <2>2. Turn = Cat(Cat(Cat(Cat(a, <<>>), <<>>), v), m)
    BY <1>4, <2>1, Zenon DEF Turn, Put, Cat
  <2>3. Own = Cat(a, v)
    BY <1>4, Zenon DEF Own, Text, Cat
  <2> HIDE DEF a, o, c, m, v
  <2>4. Cat(a, <<>>) = a /\ Cat(a, v) \in Seq(Lexemes)
    BY <1>1, Grouping
  <2> QED BY <2>2, <2>3, <2>4 DEF m
<1> QED BY <1>2, <1>3, <1>4

\* What is due is what the turn prints, and what it leaves.
LEMMA TurnIsDue ==
    ASSUME IsTree, self \in Tokens, Under(token), retFlg \in BOOLEAN, Returning
    PROVE  /\ Turn \in Seq(Lexemes) /\ Left \in Seq(Lexemes)
           /\ Cat(Own, Rest[token]) = Cat(Turn, Left)
<1>1. token \in Tokens /\ token \in 0 .. N
  BY UnderIs DEF IsTree
<1> DEFINE a == Put(HasName(token), "name", token)
           o == Put(TRUE, "open", token)
           c == Put(TRUE, "close", token)
           m == Put(GoesOn, "comma", token)
           L == Listed[Child(token)]
           X == Listed[Sibling(token)]
           P == Put(TRUE, "close", tree.parent[token])
           Q == Rest[tree.parent[token]]
           R == Rest[token]
<1>2. /\ a \in Seq(Lexemes) /\ o \in Seq(Lexemes) /\ c \in Seq(Lexemes)
      /\ m \in Seq(Lexemes)
  <2> HIDE DEF Lexemes
  <2> QED BY <1>1, PutIs DEF Lexeme
<1>3. L \in Seq(Lexemes) /\ X \in Seq(Lexemes) /\ R \in Seq(Lexemes)
  BY <1>1, ChildIs, SiblingIs, ListedTyped, RestIs
<1>4. CASE Descends
  <2>1. Put(HasName(token) /\ ~retFlg, "name", token) = a
    <3>1. (HasName(token) /\ ~retFlg) <=> HasName(token)
      BY <1>4 DEF Descends
    <3> QED BY <3>1, Zenon DEF Put
  <2>2. Turn = Cat(Cat(Cat(Cat(a, o), <<>>), <<>>), <<>>)
    BY <1>4, <2>1, Zenon DEF Turn, Put, Descends, GoesOn, Cat
  <2>3. Own = Cat(a, Cat(Cat(o, L), c))
    BY <1>4, Zenon DEF Own, Text, Descends, Cat
  <2>4. Left = Cat(Cat(L, c), R)
    BY <1>4, Zenon DEF Left, Cat
  <2> HIDE DEF a, o, c, m, L, X, P, Q, R
  <2>5. Cat(a, o) \in Seq(Lexemes) /\ Cat(Cat(L, c), R) \in Seq(Lexemes)
    BY <1>2, <1>3, Grouping
  <2>6. Turn = Cat(a, o)
    BY <2>2, <2>5, Grouping
  <2>7. Cat(Cat(a, Cat(Cat(o, L), c)), R) = Cat(Cat(a, o), Cat(Cat(L, c), R))
    <3>1. Cat(L, c) \in Seq(Lexemes) /\ Cat(Cat(o, L), c) = Cat(o, Cat(L, c))
      BY <1>2, <1>3, Grouping
    <3>2. Cat(a, Cat(o, Cat(L, c))) = Cat(Cat(a, o), Cat(L, c))
      BY <1>2, <3>1, Grouping
    <3>3. Cat(Cat(Cat(a, o), Cat(L, c)), R) = Cat(Cat(a, o), Cat(Cat(L, c), R))
      BY <1>3, <2>5, <3>1, Grouping
    <3> QED BY <3>1, <3>2, <3>3
  <2>8. Cat(Own, R) = Cat(Turn, Left)
    BY <2>3, <2>4, <2>6, <2>7
  <2> QED BY <2>4, <2>5, <2>6, <2>8 DEF R
<1>5. CASE ~Descends
  <2>1. Own \in Seq(Lexemes) /\ Turn = Cat(Own, m)
    BY <1>1, <1>5, TurnEndsToken
  <2>2. R = Cat(m, Left) /\ Left \in Seq(Lexemes)
    <3>1. CASE token = self
      <4>1. m = <<>> /\ Left = <<>> /\ R = <<>>
        BY <1>1, <1>5, <3>1, RestIs DEF GoesOn, Left, Put
      <4> HIDE DEF m, R
      <4> QED BY <4>1, Grouping
    <3>2. CASE token # self
      <4>1. token # 1 /\ Under(tree.parent[token])
        BY <3>2, UnderIs
      <4>2. tree.parent[token] \in Tokens /\ tree.parent[token] \in 0 .. N
        BY <4>1, UnderIs DEF IsTree
      <4>3. P \in Seq(Lexemes) /\ Q \in Seq(Lexemes)
        <5> HIDE DEF Lexemes
        <5> QED BY <4>2, PutIs, RestIs DEF Lexeme
      <4> DEFINE M == Put(Sibling(token) # 0, "comma", token)
      <4>4. R = M \o X \o P \o Q
        BY <1>1, <3>2, <4>1, RestIs
      <4>5. R = Cat(Cat(Cat(M, X), P), Q)
        BY <4>4, Zenon DEF Cat
      <4>6. CASE Sibling(token) # 0
        <5>1. GoesOn
          BY <1>5, <3>2, <4>6 DEF GoesOn
        <5>2. Left = Cat(Cat(X, P), Q)
          BY <1>5, <3>2, <5>1, Zenon DEF Left, Cat
        <5>3. m = M
          BY <4>6, <5>1, Zenon DEF Put
        <5> HIDE DEF m, X, P, Q, R, M
        <5> QED BY <1>2, <1>3, <4>3, <4>5, <5>2, <5>3, Grouping
      <4>7. CASE Sibling(token) = 0
        <5>1. ~GoesOn /\ X = <<>>
          BY <4>7, ListedIs DEF GoesOn
        <5>2. Left = Cat(P, Q)
          BY <1>5, <3>2, <5>1, Zenon DEF Left, Cat
        <5>3. m = <<>> /\ M = <<>>
          BY <4>7, <5>1, Zenon DEF Put
        <5> HIDE DEF m, X, P, Q, R, M
        <5>4. Cat(P, Q) \in Seq(Lexemes) /\ Cat(<<>>, <<>>) = <<>> /\ Cat(<<>>, P) = P
          BY <4>3, Grouping
        <5>5. Cat(<<>>, Cat(P, Q)) = Cat(P, Q)
          BY <5>4, Grouping
        <5> QED BY <4>5, <5>1, <5>2, <5>3, <5>4, <5>5
      <4> QED BY <4>6, <4>7
    <3> QED BY <3>1, <3>2
  <2> HIDE DEF m, R
  <2>3. Cat(Own, R) = Cat(Turn, Left) /\ Turn \in Seq(Lexemes)
    BY <1>2, <2>1, <2>2, Grouping
  <2> QED BY <2>2, <2>3 DEF R
<1> QED BY <1>4, <1>5

-----------------------------------------------------------------------------
(* The walk. *)

\* The walk is below self, it comes back to containers only, and what a reader of
\* the tree waits for is what the token has left, with what comes behind it.
WalkInv ==
    /\ tree \in Trees /\ self \in Tokens
    /\ Under(token)
    /\ retFlg \in BOOLEAN /\ Returning
    /\ indent = Depth[token]
    /\ due \in Seq(Lexemes)
    /\ result \in {"printing", "done", "failed"}
    /\ result = "printing" => due = Cat(Own, Rest[token])
    /\ result = "done" => due = <<>>

LEMMA WalkImplies ==
    ASSUME WalkInv
    PROVE  TypeOK /\ PrintsTheTree /\ IndentIsDepth
<1>1. IsTree
  BY TreesAreTrees DEF WalkInv
<1>2. token \in Tokens /\ Depth[token] \in 0 .. token - 1
  BY <1>1, UnderIs, DepthBounded DEF WalkInv
<1>3. indent \in 0 .. MaxTokens - 1
  BY <1>1, <1>2, TokensAssumption DEF IsTree, WalkInv
<1>4. \A i \in DOMAIN due : due[i] \in Lexemes
  <2>1. due \in Seq(Lexemes)
    BY DEF WalkInv
  <2> HIDE DEF Lexemes
  <2> QED BY <2>1, LenProperties, ElementOfSeq
<1>5. \A i \in DOMAIN due : due[i].of \in 0 .. Len(tree.parent) /\ due[i].lexeme # "wrong"
  <2>1. \A u \in Tokens : u \in 0 .. Len(tree.parent)
    BY <1>1 DEF IsTree, N
  <2>2. \A r \in Lexemes : r.of \in Tokens /\ r.lexeme # "wrong"
    BY DEF Lexemes
  <2> QED BY <1>4, <2>1, <2>2
<1>6. TypeOK
  BY <1>2, <1>3, <1>5 DEF TypeOK, WalkInv
<1>7. due # Wrong
  <2> SUFFICES ASSUME due = Wrong PROVE FALSE
    OBVIOUS
  <2>1. 1 \in DOMAIN due /\ due[1].lexeme = "wrong"
    BY DEF Wrong
  <2> QED BY <1>5, <2>1
<1> QED BY <1>6, <1>7 DEF PrintsTheTree, IndentIsDepth, WalkInv

\* The text of a token is one of lexemes, and is what its parent lists it with.
LEMMA TextTyped ==
    ASSUME IsTree, NEW t \in Tokens
    PROVE  /\ Text(t) \in Seq(Lexemes)
           /\ Listed[t] = Cat(Cat(Text(t), Put(Sibling(t) # 0, "comma", t)), Listed[Sibling(t)])
<1> DEFINE a == Put(HasName(t), "name", t)
           o == Put(TRUE, "open", t)
           c == Put(TRUE, "close", t)
           v == Put(TRUE, "value", t)
           L == Listed[Child(t)]
<1>1. /\ a \in Seq(Lexemes) /\ o \in Seq(Lexemes) /\ c \in Seq(Lexemes)
      /\ v \in Seq(Lexemes)
  <2> HIDE DEF Lexemes
  <2> QED BY PutIs DEF Lexeme
<1>2. L \in Seq(Lexemes)
  BY ChildIs, ListedTyped
<1>3. Text(t) = Cat(a, IF IsContainer(t) THEN Cat(Cat(o, L), c) ELSE v)
  BY Zenon DEF Text, Cat
<1> HIDE DEF a, o, c, v, L
<1>4. Cat(Cat(o, L), c) \in Seq(Lexemes)
  BY <1>1, <1>2, Grouping
<1>5. Cat(a, Cat(Cat(o, L), c)) \in Seq(Lexemes) /\ Cat(a, v) \in Seq(Lexemes)
  BY <1>1, <1>4, Grouping
<1>6. Text(t) \in Seq(Lexemes)
  BY <1>3, <1>5
<1>7. Listed[t] = Text(t) \o Put(Sibling(t) # 0, "comma", t) \o Listed[Sibling(t)]
  BY ListedIs, Zenon DEF Text
<1> QED BY <1>6, <1>7, Zenon DEF Cat

\* To go on to a child or a sibling is to owe what is below it and behind it.
LEMMA NextIsDue ==
    ASSUME IsTree, NEW u \in Tokens, u \notin {1, self}
    PROVE  Listed[u] \o Put(TRUE, "close", tree.parent[u]) \o Rest[tree.parent[u]]
           = Cat(Text(u), Rest[u])
<1>1. tree.parent[u] \in Tokens /\ tree.parent[u] \in 0 .. N
  BY DEF IsTree
<1> DEFINE t == Text(u)
           m == Put(Sibling(u) # 0, "comma", u)
           X == Listed[Sibling(u)]
           P == Put(TRUE, "close", tree.parent[u])
           Q == Rest[tree.parent[u]]
<1>2. m \in Seq(Lexemes) /\ P \in Seq(Lexemes)
  <2> HIDE DEF Lexemes
  <2> QED BY <1>1, PutIs DEF Lexeme
<1>3. t \in Seq(Lexemes) /\ X \in Seq(Lexemes) /\ Q \in Seq(Lexemes)
  BY <1>1, TextTyped, SiblingIs, ListedTyped, RestIs
<1>4. Listed[u] = Cat(Cat(t, m), X)
  BY TextTyped
<1>5. Rest[u] = m \o X \o P \o Q
  BY RestIs
<1>6. Rest[u] = Cat(Cat(Cat(m, X), P), Q)
  BY <1>5, Zenon DEF Cat
<1> HIDE DEF t, m, X, P, Q
<1>7. Cat(Cat(Cat(Cat(t, m), X), P), Q) = Cat(t, Cat(Cat(Cat(m, X), P), Q))
  <2>1. Cat(m, X) \in Seq(Lexemes) /\ Cat(Cat(t, m), X) = Cat(t, Cat(m, X))
    BY <1>2, <1>3, Grouping
  <2>2. /\ Cat(Cat(m, X), P) \in Seq(Lexemes)
        /\ Cat(Cat(t, Cat(m, X)), P) = Cat(t, Cat(Cat(m, X), P))
    BY <1>2, <1>3, <2>1, Grouping
  <2>3. Cat(Cat(t, Cat(Cat(m, X), P)), Q) = Cat(t, Cat(Cat(Cat(m, X), P), Q))
    BY <1>3, <2>2, Grouping
  <2> QED BY <2>1, <2>2, <2>3
<1>8. Cat(Cat(Listed[u], P), Q) = Cat(t, Rest[u])
  BY <1>4, <1>6, <1>7
<1> QED BY <1>8, Zenon DEF t, P, Q, Cat

LEMMA InitWalks ==
    ASSUME Init
    PROVE  WalkInv
<1>1. IsTree /\ tree \in Trees /\ self \in Tokens /\ token = self /\ self \in 0 .. N
  BY TreesAreTrees DEF Init, IsTree
<1>2. Under(token)
  BY <1>1 DEF Under
<1>3. indent = Depth[token]
  BY <1>1, DepthIs DEF Init
<1>4. retFlg = FALSE /\ Returning /\ Own = Text(self) /\ due = Text(self)
  BY <1>1 DEF Init, Returning, Own
<1>5. Turn \in Seq(Lexemes) /\ Left \in Seq(Lexemes) /\ Cat(Own, Rest[token]) = Cat(Turn, Left)
  BY <1>1, <1>2, <1>4, TurnIsDue
<1>6. Rest[token] = <<>>
  BY <1>1, RestIs
<1>7. Text(self) \in Seq(Lexemes)
  BY <1>1, TextTyped
<1>8. due = Cat(Own, Rest[token])
  BY <1>4, <1>6, <1>7, Grouping
<1> QED BY <1>1, <1>2, <1>3, <1>4, <1>7, <1>8 DEF Init, WalkInv

\* What the definitions over the tree say, they say of the next state too.
LEMMA TreeStays ==
    ASSUME UNCHANGED <<tree, self>>
    PROVE  /\ Listed' = Listed /\ Depth' = Depth /\ Rest' = Rest
           /\ Tokens' = Tokens /\ Lexemes' = Lexemes /\ Trees' = Trees
           /\ \A t : /\ Text(t)' = Text(t) /\ IsContainer(t)' = IsContainer(t)
                     /\ Under(t)' = Under(t)
<1>1. tree' = tree /\ self' = self
  OBVIOUS
<1>2. Listed' = Listed
  BY <1>1 DEF Listed, Put, HasName, IsContainer, Child, Sibling, Tokens
<1>3. Depth' = Depth
  BY <1>1 DEF Depth
<1>4. Rest' = Rest
  BY <1>1, <1>2 DEF Rest, N, Put, Sibling, Tokens
<1>5. Tokens' = Tokens /\ Lexemes' = Lexemes /\ Trees' = Trees
  BY <1>1 DEF Tokens, Lexemes, Trees
<1>6. \A t : /\ Text(t)' = Text(t) /\ IsContainer(t)' = IsContainer(t)
             /\ Under(t)' = Under(t)
  BY <1>1, <1>2 DEF Text, Put, HasName, IsContainer, Child, Tokens, Under
<1> QED BY <1>2, <1>3, <1>4, <1>5, <1>6

\* A turn prints the beginning of what is due.
LEMMA TurnPrints ==
    ASSUME WalkInv, result = "printing"
    PROVE  /\ Printed(Turn) => due' = Left
           /\ \A n \in 0 .. Len(Turn) - 1 : Printed(SubSeq(Turn, 1, n)) => due' \in Seq(Lexemes)
           /\ Left \in Seq(Lexemes)
<1>1. /\ Turn \in Seq(Lexemes) /\ Left \in Seq(Lexemes)
      /\ Cat(Own, Rest[token]) = Cat(Turn, Left)
  BY TreesAreTrees, TurnIsDue DEF WalkInv
<1>2. due = Turn \o Left
  BY <1>1, Zenon DEF WalkInv, Cat
<1> QED BY <1>1, <1>2, PrintedIs

\* The walk goes on with the token u.
LEMMA WalksOn ==
    ASSUME WalkInv, NEW u, Under(u),
           UNCHANGED <<tree, self, result>>, result = "printing", token' = u,
           indent' = Depth[u],
           retFlg' \in BOOLEAN, retFlg' => IsContainer(u),
           due' = Cat(IF retFlg' THEN Put(TRUE, "close", u) ELSE Text(u), Rest[u]),
           due' \in Seq(Lexemes)
    PROVE  WalkInv'
<1>1. /\ Depth' = Depth /\ Rest' = Rest /\ Tokens' = Tokens /\ Lexemes' = Lexemes
      /\ Trees' = Trees
      /\ \A t : /\ Text(t)' = Text(t) /\ IsContainer(t)' = IsContainer(t)
                /\ Under(t)' = Under(t)
  BY TreeStays
<1>2. (tree \in Trees)' /\ (self \in Tokens)' /\ (due \in Seq(Lexemes))'
  BY <1>1 DEF WalkInv
<1>3. Under(token)'
  BY <1>1 DEF Under
<1>4. Returning'
  BY <1>1 DEF Returning, IsContainer
<1>5. Own' = IF retFlg' THEN Put(TRUE, "close", u) ELSE Text(u)
  BY <1>1 DEF Own, Put
<1>6. (due = Cat(Own, Rest[token]))'
  BY <1>1, <1>5 DEF Cat
<1>7. (indent = Depth[token])'
  BY <1>1
<1>8. (result = "printing")'
  OBVIOUS
<1> QED BY <1>2, <1>3, <1>4, <1>6, <1>7, <1>8 DEF WalkInv

LEMMA DescendWalks ==
    ASSUME WalkInv, Descend
    PROVE  WalkInv'
<1> DEFINE u == Child(token)
<1>1. IsTree /\ token \in Tokens /\ token >= self /\ self \in Tokens
  BY TreesAreTrees, UnderIs DEF WalkInv
<1>2. u \in Tokens /\ u > token /\ tree.parent[u] = token
  BY <1>1, ChildIs DEF Descend, Descends
<1>3. u \notin {1, self} /\ Under(u)
  BY <1>1, <1>2, UnderIs DEF WalkInv, IsTree
<1>4. Listed[u] \o Put(TRUE, "close", token) \o Rest[token] = Cat(Text(u), Rest[u])
  BY <1>1, <1>2, <1>3, NextIsDue
<1>5. due' = Cat(Text(u), Rest[u]) /\ due' \in Seq(Lexemes)
  BY <1>4, TurnPrints DEF Descend, Left
<1>6. indent' = Depth[u]
  <2>1. token \in 0 .. N
    BY <1>1 DEF IsTree
  <2>2. Depth[token] \in Nat /\ Depth[u] = 1 + Depth[token]
    BY <1>1, <1>2, <1>3, <2>1, DepthIs
  <2> QED BY <2>2 DEF Descend, WalkInv
<1>7. /\ UNCHANGED <<tree, self, result>> /\ token' = u
      /\ retFlg' = FALSE /\ result = "printing"
  BY DEF Descend, Descends, WalkInv
<1> HIDE DEF u
<1> QED BY <1>3, <1>5, <1>6, <1>7, WalksOn

LEMMA PassWalks ==
    ASSUME WalkInv, Pass
    PROVE  WalkInv'
<1> DEFINE u == Sibling(token)
<1>1. IsTree /\ token \in Tokens /\ token >= self /\ self \in Tokens /\ token # self
  BY TreesAreTrees, UnderIs DEF WalkInv, Pass, GoesOn
<1>2. u \in Tokens /\ u > token /\ tree.parent[u] = tree.parent[token]
  BY <1>1, SiblingIs DEF Pass, GoesOn
<1>3. u \notin {1, self} /\ Under(u)
  <2>1. Under(tree.parent[token])
    BY <1>1, UnderIs DEF WalkInv
  <2>2. Under(u)
    BY <1>1, <1>2, <2>1, UnderIs
  <2> QED BY <1>1, <1>2, <2>2 DEF IsTree
<1>4. Listed[u] \o Put(TRUE, "close", tree.parent[token]) \o Rest[tree.parent[token]]
      = Cat(Text(u), Rest[u])
  BY <1>1, <1>2, <1>3, NextIsDue
<1>5. due' = Cat(Text(u), Rest[u]) /\ due' \in Seq(Lexemes)
  BY <1>1, <1>4, TurnPrints DEF Pass, GoesOn, Left
<1>6. indent' = Depth[u]
  BY <1>1, <1>2, <1>3, DepthIs DEF Pass, WalkInv
<1>7. /\ UNCHANGED <<tree, self, result>> /\ token' = u
      /\ retFlg' = FALSE /\ result = "printing"
  BY DEF Pass, WalkInv, Returning
<1> HIDE DEF u
<1> QED BY <1>3, <1>5, <1>6, <1>7, WalksOn

LEMMA ReturnWalks ==
    ASSUME WalkInv, Return
    PROVE  WalkInv'
<1> DEFINE u == tree.parent[token]
<1>1. IsTree /\ token \in Tokens /\ self \in Tokens /\ token # self
  BY TreesAreTrees, UnderIs DEF WalkInv, Return
<1>2. token # 1 /\ Under(u)
  BY <1>1, UnderIs DEF WalkInv
<1>3. u \in 0 .. N /\ IsContainer(u)
  BY <1>1, <1>2 DEF IsTree
<1>4. due' = Put(TRUE, "close", u) \o Rest[u] /\ due' \in Seq(Lexemes)
  BY <1>1, TurnPrints DEF Return, Left
<1>5. due' = Cat(Put(TRUE, "close", u), Rest[u])
  BY <1>4, Zenon DEF Cat
<1>6. indent' = Depth[u]
  <2>1. Depth[u] \in Nat /\ Depth[token] = 1 + Depth[u]
    BY <1>1, <1>3, DepthIs
  <2> QED BY <2>1 DEF Return, WalkInv
<1>7. /\ UNCHANGED <<tree, self, result>> /\ token' = u
      /\ retFlg' = TRUE /\ result = "printing"
  BY DEF Return
<1> HIDE DEF u
<1> QED BY <1>2, <1>3, <1>4, <1>5, <1>6, <1>7, WalksOn

\* The walk is over: nothing is due, or a write has failed.
LEMMA WalkStops ==
    ASSUME WalkInv, UNCHANGED <<tree, self, token, indent>>,
           retFlg' \in BOOLEAN, retFlg' => retFlg,
           due' \in Seq(Lexemes), result' \in {"done", "failed"},
           result' = "done" => due' = <<>>
    PROVE  WalkInv'
<1>1. /\ Depth' = Depth /\ Tokens' = Tokens /\ Lexemes' = Lexemes /\ Trees' = Trees
      /\ \A t : Under(t)' = Under(t)
  BY TreeStays
<1>2. (tree \in Trees)' /\ (self \in Tokens)' /\ (due \in Seq(Lexemes))'
  BY <1>1 DEF WalkInv
<1>3. Under(token)'
  BY <1>1 DEF WalkInv, Under
<1>4. Returning'
  BY DEF WalkInv, Returning, IsContainer
<1>5. (indent = Depth[token])'
  BY <1>1 DEF WalkInv
<1> QED BY <1>2, <1>3, <1>4, <1>5 DEF WalkInv

LEMMA WalkKept ==
    ASSUME WalkInv, [Next]_vars
    PROVE  WalkInv'
<1>1. CASE Descend
  BY <1>1, DescendWalks
<1>2. CASE Pass
  BY <1>2, PassWalks
<1>3. CASE Return
  BY <1>3, ReturnWalks
<1>4. CASE Finish
  <2>1. due' = <<>>
    BY <1>4, TurnPrints DEF Finish, Left
  <2>2. due' \in Seq(Lexemes)
    BY <2>1, EmptySeq
  <2> QED BY <1>4, <2>1, <2>2, WalkStops DEF Finish, WalkInv
<1>5. CASE Fail
  <2>1. due' \in Seq(Lexemes)
    BY <1>5, TurnPrints DEF Fail
  <2> QED BY <1>5, <2>1, WalkStops DEF Fail, WalkInv
<1>6. CASE UNCHANGED vars
  <2>1. /\ Depth' = Depth /\ Rest' = Rest /\ Tokens' = Tokens /\ Lexemes' = Lexemes
        /\ Trees' = Trees
        /\ \A t : Text(t)' = Text(t) /\ Under(t)' = Under(t)
    BY <1>6, TreeStays DEF vars
  <2>2. Own' = Own /\ Returning' = Returning
    BY <1>6, <2>1 DEF vars, Own, Put, Returning, IsContainer
  <2>3. Under(token)' /\ (indent = Depth[token])'
    BY <1>6, <2>1 DEF vars, WalkInv, Under
  <2>4. (result = "printing" => due = Cat(Own, Rest[token]))'
    BY <1>6, <2>1, <2>2 DEF vars, WalkInv, Cat
  <2> QED BY <1>6, <2>1, <2>2, <2>3, <2>4 DEF vars, WalkInv
<1> QED BY <1>1, <1>2, <1>3, <1>4, <1>5, <1>6 DEF Next

LEMMA WalkAlways == Spec => []WalkInv
<1>1. Init => WalkInv
  BY InitWalks
<1>2. WalkInv /\ [Next]_vars => WalkInv'
  BY WalkKept
<1> QED BY <1>1, <1>2, PTL DEF Spec

-----------------------------------------------------------------------------
(* The theorems. *)

\* The walk stays in the tree, and its counter of indents in its range.
THEOREM TypeCorrect == Spec => []TypeOK
<1>1. WalkInv => TypeOK
  BY WalkImplies
<1> QED BY <1>1, WalkAlways, PTL

\* Whatever the tree, the token and the writes that fail: what the loop of
\* nmjson_token_fout3 prints is the beginning of what recursion over the tree
\* would print, and all of it when it returns a length.
THEOREM WalkPrintsTheTree == Spec => []PrintsTheTree
<1>1. WalkInv => PrintsTheTree
  BY WalkImplies
<1> QED BY <1>1, WalkAlways, PTL

\* indent is how deep the token is below the one that is printed, however the
\* walk came there: going down and coming back cancel out.
THEOREM IndentIsAlwaysDepth == Spec => []IndentIsDepth
<1>1. WalkInv => IndentIsDepth
  BY WalkImplies
<1> QED BY <1>1, WalkAlways, PTL
=============================================================================
