----------------------------- MODULE TokenLists -----------------------------
(***************************************************************************)
(* The lists the parser keeps its tokens in, pointer by pointer: the free  *)
(* and the active list of the pool (alloc_link), and the members of one    *)
(* object (sibling_link), which are appended as they are read, sorted by   *)
(* name when the object closes, and searched by the readers of             *)
(* include/nmjson/json_token.h.  Parser.tla has sets and sequences in      *)
(* their place; TokenStore.tla says what the lists promise.                *)
(*                                                                         *)
(* LINEAR_LINKER_SORT_ is one action per turn of its loops.  A pool given  *)
(* to nmjson_parser_init, no malloc; the calls come in the order the       *)
(* parser makes them in, for an object that is the root and whose members  *)
(* are scalars.                                                            *)
(***************************************************************************)
EXTENDS Links, Sequences, SequencesExt, FiniteSets

CONSTANTS
    Names,      \* member names: length, then rank in memcmp's order
    BlockSize   \* divide_distance at the start of the sort: 16 in the code

Tokens == Nodes

\* The pool is an array.
ASSUME PoolAssumption == IsFiniteSet(Tokens)
ASSUME HeadsAssumption == {"free", "active", "o", "dest"} \subseteq Heads
ASSUME NamesAssumption == Names \subseteq Nat \X Nat /\ None \notin Names
ASSUME BlockAssumption == BlockSize \in Nat /\ BlockSize > 1

VARIABLES
    alloc,      \* the alloc_link of all tokens, free_head and active_head
    sib,        \* the sibling_link of all tokens, v.value.o, dest_list
    name,       \* n.name and n.len of all tokens
    len,        \* v.len of the object
    value,      \* self->token.value while the object does not have it
    pc,         \* where the parser, the sort or the reset is
    local,      \* the local variables of LINEAR_LINKER_SORT_
    order       \* history: the members in the order they were read in

vars == <<alloc, sib, name, len, value, pc, local, order>>

SortLabels == {"insert", "pass", "section", "merge", "passed"}

Pointers == Tokens \cup {None}

NoLocals ==
    [distance |-> 0, i |-> 0, cached |-> None, cursor |-> "dest",
     left |-> None, leftLast |-> None, right |-> None, rightEnd |-> None,
     ins |-> None]

Locals ==
    [distance : Nat, i : 0 .. BlockSize, cached : Pointers, cursor : Cells,
     left : Pointers, leftLast : Pointers, right : Pointers,
     rightEnd : Pointers, ins : Pointers]

TypeOK ==
    /\ alloc \in Links /\ sib \in Links
    /\ name \in [Tokens -> Names \cup {None}]
    /\ len \in 0 .. Cardinality(Tokens)
    /\ value \in Pointers
    /\ pc \in {"init", "ready", "members", "closed", "reset"} \cup SortLabels
    /\ local \in Locals
    /\ order \in Seq(Tokens)

-----------------------------------------------------------------------------
(* The pool. *)

\* The token new_token_ would return; NULL when the pool is empty.
Newest == alloc.next["free"]

\* new_token_: from the head of one list to the head of the other.
TakeToken(t) ==
    /\ t = Newest /\ t # None
    /\ alloc' = InsertAfter(Pop(alloc, "free"), "active", t)

\* del_token_, for a token of the pool
DelToken(t) == alloc' = InsertAfter(Del(alloc, t), "free", t)

-----------------------------------------------------------------------------
(* The parser. *)

\* nmjson_parser_init: the tokens of the array go to the free list, one after
\* the other.
FillPool ==
    /\ pc = "init"
    /\ LET rest == {t \in Tokens : alloc.toSelf[t] = None} IN
       IF rest = {} THEN pc' = "ready" /\ UNCHANGED alloc
       ELSE alloc' = InsertAfter(alloc, "free", CHOOSE t \in rest : TRUE) /\ UNCHANGED pc
    /\ UNCHANGED <<sib, name, len, value, local, order>>

\* Mutant: new_token_ without memset(&ret->v).
OpenObjectWithLength ==
    /\ pc = "ready"
    /\ TakeToken(Newest)
    /\ pc' = "members"
    /\ sib' = Point(Unlinked(sib, Newest), "o", None)
    /\ UNCHANGED <<name, len, value, local, order>>

OpenObject ==
    /\ pc = "ready"
    /\ TakeToken(Newest)
    /\ pc' = "members"
    /\ len' = 0
    /\ sib' = Point(Unlinked(sib, Newest), "o", None)
    /\ UNCHANGED <<name, value, local, order>>

ReadName(n) ==
    /\ pc = "members" /\ value = None
    /\ TakeToken(Newest)
    /\ value' = Newest
    /\ name' = [name EXCEPT ![Newest] = n]
    /\ sib' = Unlinked(sib, Newest)
    /\ UNCHANGED <<len, pc, local, order>>

\* The name is cut: its token goes back, in the same turn.
CutName ==
    /\ pc = "members" /\ value = None /\ Newest # None
    /\ LET taken == InsertAfter(Pop(alloc, "free"), "active", Newest)
       IN  alloc' = InsertAfter(Del(taken, Newest), "free", Newest)
    /\ name' = [name EXCEPT ![Newest] = None]
    /\ sib' = Unlinked(sib, Newest)
    /\ UNCHANGED <<len, value, pc, local, order>>

\* json_token_add_
ReadValue ==
    /\ pc = "members" /\ value # None
    /\ sib' = Add(sib, "o", value)
    /\ len' = len + 1
    /\ order' = Append(order, value)
    /\ value' = None
    /\ UNCHANGED <<alloc, name, pc, local>>

CloseObject ==
    /\ pc = "members" /\ value = None
    /\ pc' = "insert"
    /\ local' = [NoLocals EXCEPT !.distance = BlockSize]
    /\ sib' = Point(sib, "dest", None)
    /\ UNCHANGED <<alloc, name, len, value, order>>

\* nmjson_parser_reset: the caller may give up the document at any time.
Reset ==
    /\ pc \in {"members", "closed"}
    /\ pc' = "reset"
    /\ order' = <<>>
    /\ UNCHANGED <<alloc, sib, name, len, value, local>>

\* What a free token holds is dead until new_token_ clears it; it is cleared here
\* already, to have fewer states.
ResetToken ==
    /\ pc = "reset"
    /\ LET t == alloc.next["active"] IN
       IF t = None
       THEN /\ pc' = "ready" /\ value' = None
            /\ sib' = Point(sib, "o", None)
            /\ UNCHANGED <<alloc, name>>
       ELSE /\ alloc' = InsertAfter(Pop(alloc, "active"), "free", t)
            /\ name' = [name EXCEPT ![t] = None]
            /\ sib' = Unlinked(sib, t)
            /\ UNCHANGED <<pc, value>>
    /\ UNCHANGED <<len, local, order>>

-----------------------------------------------------------------------------
(* LINEAR_LINKER_SORT_(&vessel->v.value.o, token_compare_name_). *)

\* Mutant: memcmp decides before the length does.
CompareMemFirst(n, m) == IF n[2] # m[2] THEN n[2] - m[2] ELSE n[1] - m[1]

\* token_compare_name_
Compare(n, m) == IF n[1] # m[1] THEN n[1] - m[1] ELSE n[2] - m[2]

CompareTokens(t, u) == Compare(name[t], name[u])

\* One turn of the insertion within a block, while the block is not full.
\* The search starts at the token inserted last, if that is not greater.
InsertInBlock ==
    /\ pc = "insert" /\ local.i < local.distance
    /\ LET work == sib.next["o"]
           from == IF local.cached # None /\ CompareTokens(local.cached, work) <= 0
                   THEN local.cached ELSE local.cursor
           greater == {t \in Range(Chain(sib, "dest")) : CompareTokens(work, t) < 0}
       IN  IF work = None
           THEN /\ sib' = Join(sib, "o", sib.next["dest"])
                /\ pc' = "pass"
                /\ UNCHANGED local
           ELSE /\ sib' = InsertInOrder(Pop(sib, "o"), from, work, greater)
                /\ local' = [local EXCEPT !.i = @ + 1, !.cached = work]
                /\ UNCHANGED pc
    /\ UNCHANGED <<alloc, name, len, value, order>>

\* The next block begins behind the last token of this one.
NextBlock ==
    /\ pc = "insert" /\ local.i = local.distance
    /\ local' = [local EXCEPT !.i = 0, !.cached = None,
                              !.cursor = TailCell(sib, local.cached)]
    /\ UNCHANGED <<alloc, sib, name, len, value, pc, order>>

\* The left section of `distance` tokens that begins at the token `left`, and
\* the right one behind it.
Sections(h, left, distance) ==
    LET last == NthNext(h, left, distance - 1)
        right == NextOf(h, last)
    IN  [local EXCEPT !.left = left, !.leftLast = last, !.right = right,
                      !.rightEnd = NthNext(h, right, distance)]

\* A pass over the list; there is none if all is in one left section.
BeginPass ==
    /\ pc = "pass"
    /\ sib' = Point(sib, "dest", None)
    /\ LET l == Sections(sib, sib.next["o"], local.distance)
       IN  IF l.right = None THEN pc' = "closed" /\ local' = NoLocals
           ELSE pc' = "section" /\ local' = [l EXCEPT !.ins = None]
    /\ UNCHANGED <<alloc, name, len, value, order>>

\* What is left of the two sections joins dest_list as it is: the left one if
\* the right one is used up, and else the right one.
JoinRest(right) ==
    LET cell == IF local.ins = None THEN "dest" ELSE local.ins
        work == IF right = local.rightEnd THEN local.left ELSE right
        cutOff == Point(sib, "o", local.rightEnd)
        parted == IF local.rightEnd = None THEN cutOff
                  ELSE Own(Point(cutOff, cutOff.toSelf[local.rightEnd], None),
                           local.rightEnd, "o")
        joined == Join(parted, cell, work)
    IN  /\ sib' = joined
        /\ local' = [Sections(joined, local.rightEnd, local.distance)
                        EXCEPT !.ins = TailCell(joined, work)]
        /\ pc' = IF local.rightEnd = None THEN "passed" ELSE "section"
        /\ UNCHANGED <<alloc, name, len, value, order>>

Presorted ==
    ~(local.right # None /\ CompareTokens(local.leftLast, local.right) > 0)

SkipSections  == pc = "section" /\ Presorted /\ JoinRest(local.rightEnd)

MergeSections ==
    /\ pc = "section" /\ ~Presorted
    /\ pc' = "merge"
    /\ UNCHANGED <<alloc, sib, name, len, value, local, order>>

UsedUp == local.right = local.rightEnd \/ local.left = local.right

\* Mutant: of two equal names the one on the right goes first.
MergeTokenUnstable ==
    /\ pc = "merge" /\ ~UsedUp
    /\ \E side \in {"left", "right"} :
       LET work == local[side] IN
       /\ side = "left" <=> CompareTokens(local.left, local.right) < 0
       /\ local' = [local EXCEPT ![side] = sib.next[work], !.ins = work]
       /\ sib' = InsertAfter(Del(sib, work),
                    IF local.ins = None THEN "dest" ELSE local.ins, work)
    /\ UNCHANGED <<alloc, name, len, value, pc, order>>

\* The lesser token moves to the end of dest_list.
MergeToken ==
    /\ pc = "merge" /\ ~UsedUp
    /\ \E side \in {"left", "right"} :
       LET work == local[side] IN
       /\ side = "left" <=> CompareTokens(local.left, local.right) <= 0
       /\ local' = [local EXCEPT ![side] = sib.next[work], !.ins = work]
       /\ sib' = InsertAfter(Del(sib, work),
                    IF local.ins = None THEN "dest" ELSE local.ins, work)
    /\ UNCHANGED <<alloc, name, len, value, pc, order>>

MergeRest == pc = "merge" /\ UsedUp /\ JoinRest(local.right)

\* Mutant: the sections of the next pass are as long as those of this one.
EndPassSameDistance ==
    /\ pc = "passed"
    /\ sib' = Join(sib, "o", sib.next["dest"])
    /\ pc' = "pass"
    /\ UNCHANGED <<alloc, name, len, value, local, order>>

EndPass ==
    /\ pc = "passed"
    /\ sib' = Join(sib, "o", sib.next["dest"])
    /\ local' = [local EXCEPT !.distance = 2 * @]
    /\ pc' = "pass"
    /\ UNCHANGED <<alloc, name, len, value, order>>

SortStep ==
    \/ InsertInBlock \/ NextBlock
    \/ BeginPass \/ SkipSections \/ MergeSections \/ MergeToken \/ MergeRest \/ EndPass

-----------------------------------------------------------------------------
Init ==
    /\ alloc = NoLinks /\ sib = NoLinks
    /\ name = [t \in Tokens |-> None]
    /\ len = 0 /\ value = None
    /\ pc = "init" /\ local = NoLocals
    /\ order = <<>>

Next ==
    \/ FillPool \/ OpenObject \/ CutName \/ ReadValue \/ CloseObject
    \/ \E n \in Names : ReadName(n)
    \/ Reset \/ ResetToken
    \/ SortStep

\* A function that was called runs on; that the caller goes on is not promised.
Spec == Init /\ [][Next]_vars /\ WF_vars(SortStep) /\ WF_vars(ResetToken)

-----------------------------------------------------------------------------
(* The readers of a closed object. *)

\* Mutant: an index from the end counts from -0.
NthChildOffByOne(index) ==
    LET i == IF index < 0 THEN index + len - 1 ELSE index
    IN  IF i < 0 THEN None ELSE NthNext(sib, sib.next["o"], i)

\* nmjson_token_nth_child: from the end, when the index is negative.
NthChild(index) ==
    LET i == IF index < 0 THEN index + len ELSE index
    IN  IF i < 0 THEN None ELSE NthNext(sib, sib.next["o"], i)

\* nmjson_object_token: gives up at the first greater name.
ObjectToken(n) ==
    LET found[c \in Cells] ==
            LET t == sib.next[c]
                less == IF t = None THEN 0
                        ELSE IF n[1] # name[t][1] THEN n[1] - name[t][1]
                        ELSE n[2] - name[t][2]
            IN  IF t = None \/ less < 0 THEN None
                ELSE IF less > 0 THEN found[t]
                ELSE t
    IN  found["o"]

-----------------------------------------------------------------------------
(* Properties. *)

\* What LINEAR_LINKER_WHOLE_ASSERT_ asserts, of one list.
WellLinked(h, head) ==
    \A c \in {head} \cup Range(Chain(h, head)) :
        h.next[c] # None => h.toSelf[h.next[c]] = c

\* In the pool every pointer to a token has its pointer back: a DEL never
\* writes through a to_self that something else has come to own.
PoolLinked == Linked(alloc)

\* So it is for the members, at every step of the sort; dest_list is left as it
\* was between two passes.
MembersLinked ==
    /\ pc # "reset" => WellLinked(sib, "o")
    /\ pc \in SortLabels \ {"pass"} => WellLinked(sib, "dest")

\* The lists a and b together hold every token of S once.
Partition(a, b, S) ==
    Range(a) \cup Range(b) = S /\ Len(a) + Len(b) = Cardinality(S)

\* No sequence of calls loses a token of the pool or has it twice, and no step of
\* the sort does so with a member.
NoTokenLost ==
    /\ pc # "init" => Partition(Chain(alloc, "free"), Chain(alloc, "active"), Tokens)
    /\ pc \in SortLabels \ {"pass"} =>
          Partition(Chain(sib, "o"), Chain(sib, "dest"), Range(order))

\* The search that gives up early finds the member of a closed object that was
\* read first under the name, and finds it whenever there is one.  Of an object
\* that is still open it may miss members, but returns no other.
LookupExact ==
    \A n \in Names :
        LET read == {i \in DOMAIN order : name[order[i]] = n}
            first == {i \in read : \A j \in read : i <= j}
        IN  /\ pc = "closed" =>
                  ObjectToken(n) = IF read = {} THEN None
                                   ELSE order[CHOOSE i \in first : TRUE]
            /\ pc = "members" => ObjectToken(n) \in {None} \cup {order[i] : i \in read}

\* Children are counted from either end, and v.len, which is counted apart from
\* the list, is right when it is needed for that.
ChildByIndex ==
    pc \in {"members", "closed"} =>
        LET children == Chain(sib, "o")
            n == Len(children)
        IN  \A i \in -n - 1 .. n :
               NthChild(i) = IF i \in 0 .. n - 1 THEN children[i + 1]
                             ELSE IF i \in -n .. -1 THEN children[n + i + 1]
                             ELSE None

\* The sort ends, at every length; so does a reset.
LoopsEnd ==
    /\ pc = "insert" ~> pc = "closed"
    /\ pc = "reset" ~> pc = "ready"
=============================================================================
