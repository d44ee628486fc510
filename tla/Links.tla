------------------------------- MODULE Links -------------------------------
(***************************************************************************)
(* The list macros of src/local_header/linear_linker.h.  A node has        *)
(* `next`, and `to_self`: the address of the `next`, or of the list head,  *)
(* that points to the node.  Such an address is a cell: a node stands for  *)
(* its own `next`, the other cells are list heads.  h = [next, toSelf] is  *)
(* what all cells and nodes hold.                                          *)
(***************************************************************************)
EXTENDS Integers, Sequences

CONSTANTS
    Nodes,      \* all nodes
    Heads,      \* all list heads
    None        \* NULL

ASSUME CellsAssumption == Nodes \cap Heads = {} /\ None \notin Nodes \cup Heads

Cells == Nodes \cup Heads

Links == [next : [Cells -> Nodes \cup {None}], toSelf : [Nodes -> Cells \cup {None}]]

\* Every list is empty.
NoLinks == [next |-> [c \in Cells |-> None], toSelf |-> [n \in Nodes |-> None]]

\* *cell = node
Point(h, cell, node) == [h EXCEPT !.next[cell] = node]

\* if(node != NULL){ node->to_self = cell; }
Own(h, node, cell) == IF node = None THEN h ELSE [h EXCEPT !.toSelf[node] = cell]

\* Both: the cell points to the node, which knows it.
Join(h, cell, node) == Own(Point(h, cell, node), node, cell)

Unlinked(h, node) == [h EXCEPT !.next[node] = None, !.toSelf[node] = None]

\* Mutant: the second node does not learn that it is the first one now.
PopWithoutOwner(h, head) ==
    LET node == h.next[head]
    IN  IF node = None THEN h ELSE Unlinked(Point(h, head, h.next[node]), node)

\* LINEAR_LINKER_POP_; what it returns is h.next[head].
Pop(h, head) ==
    LET node == h.next[head]
    IN  IF node = None THEN h ELSE Unlinked(Join(h, head, h.next[node]), node)

\* LINEAR_LINKER_INSERT_AFTER_: the cell is the `next` of the node it is to
\* follow, or the head when that node is NULL.
InsertAfter(h, cell, node) ==
    LET old == h.next[cell]
        freed == Own(h, old, node)
    IN  Join([freed EXCEPT !.next[node] = old], cell, node)

\* Mutant: the node behind keeps the address of the one that leaves.
DelWithoutOwner(h, node) == Unlinked(Point(h, h.toSelf[node], h.next[node]), node)

\* LINEAR_LINKER_DEL_
Del(h, node) == Unlinked(Join(h, h.toSelf[node], h.next[node]), node)

\* The last cell of the list that goes on at the cell.
TailCell(h, cell) ==
    LET tail[c \in Cells] == IF h.next[c] = None THEN c ELSE tail[h.next[c]]
    IN  tail[cell]

\* LINEAR_LINKER_ADD_
Add(h, head, node) ==
    Join([h EXCEPT !.next[node] = None], TailCell(h, head), node)

\* LINEAR_LINKER_NEXT_
NextOf(h, node) == IF node = None THEN None ELSE h.next[node]

\* LINEAR_LINKER_NTH_NEXT_
NthNext(h, node, n) ==
    LET nth[i \in 0 .. n] == IF i = 0 THEN node ELSE NextOf(h, nth[i - 1])
    IN  nth[n]

\* LINEAR_LINKER_INSERT_INORDER_ behind the cell `from`: before the first of the
\* nodes that are greater.
InsertInOrder(h, from, node, greater) ==
    LET place[c \in Cells] ==
            IF h.next[c] \in greater \cup {None} THEN c ELSE place[h.next[c]]
    IN  InsertAfter(h, place[from], node)

\* The nodes of the list of a head, in order, if the list has an end.
Chain(h, head) ==
    LET from[c \in Cells] ==
            IF h.next[c] = None THEN <<>> ELSE <<h.next[c]>> \o from[h.next[c]]
    IN  from[head]

-----------------------------------------------------------------------------
\* What LINEAR_LINKER_WHOLE_ASSERT_ asserts of every list: a cell and the node
\* it points to know each other.
Linked(h) ==
    /\ \A c \in Cells : h.next[c] # None => h.toSelf[h.next[c]] = c
    /\ \A n \in Nodes : h.toSelf[n] # None => h.next[h.toSelf[n]] = n
=============================================================================
