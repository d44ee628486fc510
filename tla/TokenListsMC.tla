---------------------------- MODULE TokenListsMC ----------------------------
(***************************************************************************)
(* TokenLists.tla for TLC, and its refinement of TokenStore.tla.           *)
(***************************************************************************)
EXTENDS TokenLists

\* Two names of one length and a longer one.
ThreeNames == {<<1, 1>>, <<1, 3>>, <<2, 2>>}

NameBefore(n, m) == Compare(n, m) < 0

WithNames(s) == [i \in DOMAIN s |-> [token |-> s[i], name |-> name[s[i]]]]

Store == INSTANCE TokenStore
    WITH free <- Chain(alloc, "free"),
         active <- Chain(alloc, "active"),
         members <- WithNames(IF pc \in {"members", "closed"}
                              THEN Chain(sib, "o") ELSE order),
         Before <- NameBefore

\* The pool is two stacks, an object's members are in the order they were read
\* in until it closes, and then in the order of their names, equal ones in the
\* order they were read in: whatever the length, the blocks and the passes.
ImplementsStore == Store!Spec
=============================================================================
