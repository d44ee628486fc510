----------------------------- MODULE TokenStore -----------------------------
(***************************************************************************)
(* What TokenLists.tla promises, without a pointer: two stacks of tokens,  *)
(* one free and one in use, and the members of an object, which are in the *)
(* order they were read in until they are sorted, once, by a sort that     *)
(* keeps the order of equal names.                                         *)
(***************************************************************************)
EXTENDS Naturals, Sequences, SequencesExt, Functions

CONSTANTS
    Tokens,         \* all tokens
    Names,          \* all member names
    Before(_, _)    \* the first name is less than the second

VARIABLES
    free, active,   \* stacks of tokens
    members         \* of the object: tokens with their names

vars == <<free, active, members>>

Pushed(t, stack) == <<t>> \o stack

\* The caller's array is handed over, token by token.
Supply ==
    /\ \E t \in Tokens \ (Range(free) \cup Range(active)) : free' = Pushed(t, free)
    /\ UNCHANGED <<active, members>>

Take ==
    /\ free # <<>>
    /\ active' = Pushed(Head(free), active)
    /\ free' = Tail(free)
    /\ UNCHANGED members

\* The token that was taken last comes back first.
Return ==
    /\ active # <<>>
    /\ free' = Pushed(Head(active), free)
    /\ active' = Tail(active)
    /\ UNCHANGED members

Attach ==
    /\ \E t \in Range(active), n \in Names :
          /\ \A m \in Range(members) : m.token # t
          /\ members' = Append(members, [token |-> t, name |-> n])
    /\ UNCHANGED <<free, active>>

\* Ascending names; between equal ones, the one that was read first.
StableSorted(s, t) ==
    /\ Len(s) = Len(t) /\ Range(s) = Range(t)
    /\ \A i, j \in DOMAIN s : i < j =>
          \/ Before(s[i].name, s[j].name)
          \/ /\ ~Before(s[j].name, s[i].name)
             /\ \E k, l \in DOMAIN t : k < l /\ t[k] = s[i] /\ t[l] = s[j]

Sort ==
    /\ members' \in {s \in [DOMAIN members -> Range(members)] : StableSorted(s, members)}
    /\ UNCHANGED <<free, active>>

Forget == members' = <<>> /\ UNCHANGED <<free, active>>

Init == free = <<>> /\ active = <<>> /\ members = <<>>

Next == Supply \/ Take \/ Return \/ Attach \/ Sort \/ Forget

Spec == Init /\ [][Next]_vars
=============================================================================
