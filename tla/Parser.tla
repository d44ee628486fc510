------------------------------- MODULE Parser -------------------------------
(***************************************************************************)
(* nmjson_parser_parse (src/parser/nmjson_parser_parse.c) and the reset    *)
(* functions of nmjson_parser_.c: the incremental JSON parser, its modes,  *)
(* its token pool and the tree it builds.                                  *)
(*                                                                         *)
(* One action is one turn of the parse loop: it reads one lexeme.  What    *)
(* the lexeme scanners answer is an input: "ok" (a whole lexeme), "cut"    *)
(* (the buffer ends inside it) or "bad".  A cut lexeme is read again from  *)
(* its first character by the next call, so `cut` remembers its class.     *)
(* White space, and a buffer that ends between two lexemes, leave every    *)
(* variable alone and are stuttering steps.  The cursor belongs to the     *)
(* buffer layer.                                                           *)
(***************************************************************************)
EXTENDS Naturals, Sequences, SequencesExt, Functions

CONSTANTS
    Static,     \* the tokens given to nmjson_parser_init; none: heap mode
    Heap,       \* bound: the tokens malloc may hand out in heap mode
    None,       \* NULL
    Names,      \* member names, as their rank in token_compare_name_'s order
    Supersets   \* the dialects the caller resets the parser to

Tokens == Static \cup Heap

\* The lexemes that need a scan, by first character: t f n - 0..9; + I N . ;
\* the rest; '"'; '\''; '/'.
Words   == {"plain", "extended", "other"}
Quotes  == {"dquote", "squote"}
Classes == Words \cup Quotes \cup {"comment"}

ASSUME PoolAssumption == Static \cap Heap = {} /\ None \notin Tokens \cup Classes
ASSUME NameAssumption == Names \subseteq Nat /\ None \notin Names
ASSUME SupersetAssumption == Supersets \subseteq {"none", "jsonc", "json5", "rough"}

VARIABLES
    isTreatingValue, isInInput,     \* the two mode flags
    superset,
    isAllocAllowed,
    free, active,                   \* the members of the two alloc_link lists
    tok,                            \* the contents of every token
    root, vessel, value,            \* self->token
    code,                           \* self->error.code
    cut                             \* class of the lexeme the buffer cut

mode  == <<isTreatingValue, isInInput>>
pool  == <<isAllocAllowed, free, active>>
cursors == <<root, vessel, value>>
vars  == <<isTreatingValue, isInInput, superset, isAllocAllowed, free, active,
           tok, root, vessel, value, code, cut>>

Kinds == {"leaf", "object", "array"}    \* v.type; "leaf" is any scalar
Codes == {"complete", "incomplete", "syntax", "tokens"}
Scans == {"ok", "cut", "bad"}

Contents == [kind: Kinds, name: Names \cup {None}, parent: Tokens \cup {None},
             kids: Seq(Tokens), alloced: BOOLEAN]

TypeOK ==
    /\ isTreatingValue \in BOOLEAN /\ isInInput \in BOOLEAN
    /\ superset \in Supersets \cup {"none"}
    /\ isAllocAllowed \in BOOLEAN
    /\ free \subseteq Tokens /\ active \subseteq Tokens
    /\ tok \in [Tokens -> Contents]
    /\ root \in Tokens \cup {None}
    /\ vessel \in Tokens \cup {None}
    /\ value \in Tokens \cup {None}
    /\ code \in Codes
    /\ cut \in Classes \cup {None}

-----------------------------------------------------------------------------
(* Dialects. *)
IsEcma5           == superset = "json5"
IsCommentEnabled  == superset \in {"jsonc", "json5"}
IsTailCommaEnabled == superset \in {"jsonc", "json5"}

(* The pool.  The free list is LIFO; which of the equal free tokens comes   *)
(* out is left open, and malloc is taken to succeed.                        *)
Blank == [kind |-> "leaf", name |-> None, parent |-> None, kids |-> <<>>,
          alloced |-> FALSE]

\* The tokens new_token_ may return: a free one, else one from malloc.
Takeable ==
    IF free # {} THEN free
    ELSE IF isAllocAllowed THEN Heap \ active ELSE {}

Exhausted == free = {} /\ ~isAllocAllowed

\* new_token_: t leaves the free list or malloc, cleared, and is active.
NewToken(t) ==
    /\ t \in Takeable
    /\ free' = free \ {t}
    /\ active' = active \cup {t}
    /\ UNCHANGED isAllocAllowed

\* Mutant: new_token_ without memset(&ret->v).
ClearedNotValue(t) ==
    [Blank EXCEPT !.alloced = t \notin free, !.kids = tok[t].kids]

Cleared(t) == [Blank EXCEPT !.alloced = t \notin free]

\* new_token_ and then del_token_ of the same token: a pool token is back in
\* the free list, one that malloc gave is freed.
TakeAndReturn(t) ==
    /\ t \in Takeable
    /\ tok' = [tok EXCEPT ![t] = Cleared(t)]
    /\ UNCHANGED pool

(* The token a value or name is written to: a new one, or the one that      *)
(* already holds the name of the member.                                    *)
Obtain(new, t) ==
    IF new THEN NewToken(t) ELSE t = value /\ value # None /\ UNCHANGED pool

Missing(new) == IF new THEN Exhausted ELSE value = None

Obtained(new, t) == IF new THEN Cleared(t) ELSE tok[t]

\* json_token_add_: the finished token joins the children of the vessel.
Attached(t, contents) ==
    [u \in Tokens |->
        IF u = t THEN [contents EXCEPT !.parent = vessel]
        ELSE IF u = vessel THEN [tok[u] EXCEPT !.kids = Append(@, t)]
        ELSE tok[u]]

VesselIs(k) == vessel # None /\ tok[vessel].kind = k

-----------------------------------------------------------------------------
(* The caller goes on parsing only after nmjson_error_incomplete, and the   *)
(* next call starts at the lexeme that was cut.                             *)
Reads(class) == code = "incomplete" /\ cut \in {None, class}

\* parser_put_err_ with an error after which nothing can be parsed.
Stop(c) == code' = c /\ cut' = None

Fail(c) ==
    /\ Stop(c)
    /\ UNCHANGED <<mode, superset, pool, tok, cursors>>

\* Mutant: the buffer layer's code for a pool that is empty.
FailWithBufferCode(c) ==
    /\ Stop("buffer")
    /\ value' = None
    /\ UNCHANGED <<mode, superset, pool, tok, root, vessel>>

\* The token pointer the failing new_token_ was assigned to is NULL.
FailWithoutToken(c) ==
    /\ Stop(c)
    /\ value' = None
    /\ UNCHANGED <<mode, superset, pool, tok, root, vessel>>

\* A rejected value or name: its token stays in self->token.value.
FailHolding(new, t) ==
    /\ Obtain(new, t)
    /\ tok' = [tok EXCEPT ![t] = Obtained(new, t)]
    /\ value' = t
    /\ Stop("syntax")
    /\ UNCHANGED <<mode, superset, root, vessel>>

\* Mutants: no del_token_ for the token of a cut lexeme; or del_token_ without
\* value = NULL after it.
SuspendKeeping(class, new, t) ==
    /\ IF new THEN NewToken(t) /\ tok' = [tok EXCEPT ![t] = Cleared(t)] /\ value' = None
              ELSE t = value /\ value # None /\ UNCHANGED <<pool, tok, value>>
    /\ cut' = class
    /\ UNCHANGED <<mode, superset, root, vessel, code>>

SuspendDangling(class, new, t) ==
    /\ IF new THEN TakeAndReturn(t) /\ value' = t
              ELSE t = value /\ value # None /\ UNCHANGED <<pool, tok, value>>
    /\ cut' = class
    /\ UNCHANGED <<mode, superset, root, vessel, code>>

\* A cut value or name: a token taken for it goes back.
Suspend(class, new, t) ==
    /\ IF new THEN TakeAndReturn(t) /\ value' = None
              ELSE t = value /\ value # None /\ UNCHANGED <<pool, tok, value>>
    /\ cut' = class
    /\ UNCHANGED <<mode, superset, root, vessel, code>>

\* A whole value: it joins its vessel.
TakeValue(new, t) ==
    /\ Obtain(new, t)
    /\ tok' = Attached(t, Obtained(new, t))
    /\ value' = None
    /\ isInInput' = FALSE
    /\ cut' = None
    /\ UNCHANGED <<isTreatingValue, superset, root, vessel, code>>

\* A whole name: its token waits for the value.
TakeName(t) ==
    /\ NewToken(t)
    /\ \E n \in Names : tok' = [tok EXCEPT ![t] = [Cleared(t) EXCEPT !.name = n]]
    /\ value' = t
    /\ isInInput' = FALSE
    /\ cut' = None
    /\ UNCHANGED <<isTreatingValue, superset, root, vessel, code>>

-----------------------------------------------------------------------------
(* '{' and '[' *)
ReadOpen(k) ==
    LET new == vessel = None \/ VesselIs("array") IN
    /\ Reads(None)
    /\ \/ ~(isInInput /\ isTreatingValue) /\ Fail("syntax")
       \/ /\ isInInput /\ isTreatingValue /\ Missing(new)
          /\ FailWithoutToken(IF vessel = None THEN "syntax" ELSE "tokens")
       \/ /\ isInInput /\ isTreatingValue
          /\ \E t \in Tokens :
                /\ Obtain(new, t)
                /\ LET contents == [Obtained(new, t) EXCEPT !.kind = k] IN
                   tok' = IF vessel = None THEN [tok EXCEPT ![t] = contents]
                                           ELSE Attached(t, contents)
                /\ root' = IF vessel = None THEN t ELSE root
                /\ vessel' = t
          /\ value' = None
          /\ isTreatingValue' = (k = "array")
          /\ isInInput' = TRUE
          /\ UNCHANGED <<superset, code, cut>>

\* Mutant: a token is taken for the members of arrays only, not for names.
ReadStringIntoValue(quote, scan) ==
    LET new == VesselIs("array") IN
    /\ Reads(quote)
    /\ isInInput /\ vessel # None /\ quote = "dquote"
    /\ \/ Missing(new) /\ FailWithoutToken("tokens")
       \/ \E t \in Tokens :
             scan = "ok" /\ IF isTreatingValue THEN TakeValue(new, t) ELSE TakeName(t)

(* '"' and, in JSON5, '\'' : a value, or the name of a member. *)
ReadString(quote, scan) ==
    LET allowed == quote = "squote" => IsEcma5
        ready   == allowed /\ isInInput /\ vessel # None
        new     == VesselIs("array") \/ ~isTreatingValue
    IN
    /\ Reads(quote)
    /\ \/ ~ready /\ Fail("syntax")
       \/ ready /\ Missing(new) /\ FailWithoutToken("tokens")
       \/ /\ ready
          /\ \E t \in Tokens :
                \/ scan = "bad" /\ FailHolding(new, t)
                \/ scan = "cut" /\ Suspend(quote, new, t)
                \/ scan = "ok" /\ isTreatingValue /\ TakeValue(new, t)
                \/ scan = "ok" /\ ~isTreatingValue /\ TakeName(t)

(* ':' *)
ReadColon ==
    /\ Reads(None)
    /\ \/ (isInInput \/ isTreatingValue) /\ Fail("syntax")
       \/ /\ ~isInInput /\ ~isTreatingValue
          /\ isInInput' = TRUE
          /\ isTreatingValue' = TRUE
          /\ UNCHANGED <<superset, pool, tok, cursors, code, cut>>

\* Mutant: one comma may follow another.
ReadCommaAgain ==
    /\ Reads(None)
    /\ isTreatingValue /\ vessel # None
    /\ isInInput' = TRUE
    /\ isTreatingValue' = VesselIs("array")
    /\ UNCHANGED <<superset, pool, tok, cursors, code, cut>>

(* ',' *)
ReadComma ==
    /\ Reads(None)
    /\ \/ ~(~isInInput /\ isTreatingValue) /\ Fail("syntax")
       \/ /\ ~isInInput /\ isTreatingValue
          /\ isInInput' = TRUE
          /\ isTreatingValue' = VesselIs("array")
          /\ UNCHANGED <<superset, pool, tok, cursors, code, cut>>

\* Mutant: the members stay in the order they were read in.
Unsorted(s) == {s}

(* What LINEAR_LINKER_SORT_ promises for an object's members: they come in  *)
(* the order of their names, members of one name in the order they were     *)
(* read.                                                                    *)
SortedByName(s) ==
    {[i \in DOMAIN s |-> s[p[i]]] : p \in
        {q \in Bijection(DOMAIN s, DOMAIN s) : \A i, j \in DOMAIN s : i < j =>
            \/ tok[s[q[i]]].name < tok[s[q[j]]].name
            \/ tok[s[q[i]]].name = tok[s[q[j]]].name /\ q[i] < q[j]}}

\* Mutant: a container may not close while it waits for input, empty or not.
ReadCloseAfterMember(k) ==
    LET inPlace ==
            /\ vessel # None
            /\ value = None
            /\ isInInput => IsTailCommaEnabled
            /\ tok[vessel].kind = k
    IN
    /\ Reads(None)
    /\ ~inPlace /\ Fail("syntax")

(* '}' and ']' *)
ReadClose(k) ==
    LET inPlace ==
            /\ vessel # None
            /\ value = None
            /\ isInInput /\ tok[vessel].kids # <<>> => IsTailCommaEnabled
            /\ tok[vessel].kind = k
    IN
    /\ Reads(None)
    /\ \/ ~inPlace /\ Fail("syntax")
       \/ /\ inPlace
          /\ IF k = "object"
             THEN \E s \in SortedByName(tok[vessel].kids) :
                     tok' = [tok EXCEPT ![vessel].kids = s]
             ELSE UNCHANGED tok
          /\ vessel' = tok[vessel].parent
          /\ isInInput' = FALSE
          /\ isTreatingValue' = TRUE
          /\ code' = IF vessel' = None THEN "complete" ELSE "incomplete"
          /\ UNCHANGED <<superset, pool, root, value, cut>>

(* '/' *)
ReadComment(scan) ==
    /\ Reads("comment")
    /\ \/ (~IsCommentEnabled \/ scan = "bad") /\ Fail("syntax")
       \/ /\ IsCommentEnabled /\ scan # "bad"
          /\ cut' = IF scan = "cut" THEN "comment" ELSE None
          /\ UNCHANGED <<mode, superset, pool, tok, cursors, code>>

-----------------------------------------------------------------------------
(* Every other character: a number, true, false or null; in JSON5 perhaps a *)
(* bare name.                                                               *)
StartsValue(class) == class = "plain" \/ (class = "extended" /\ IsEcma5)

AsValue(class) ==
    StartsValue(class) /\ vessel # None /\ isInInput /\ isTreatingValue

AsIdent(class) ==
    /\ IsEcma5
    /\ class = "other" \/ (vessel # None /\ isInInput /\ ~isTreatingValue)

ReadScalar(class, scan) ==
    LET new == VesselIs("array") IN
    \/ Missing(new) /\ FailWithoutToken("tokens")
    \/ \E t \in Tokens :
          \/ scan = "bad" /\ FailHolding(new, t)
          \/ scan = "cut" /\ Suspend(class, new, t)
          \/ scan = "ok" /\ TakeValue(new, t)

\* Mutant: a bare name is taken without looking whether a name is due.
ReadIdentAnywhere(class, scan) ==
    /\ VesselIs("object") /\ scan = "ok"
    /\ \E t \in Tokens : TakeName(t)

ReadIdent(class, scan) ==
    LET ready == VesselIs("object") /\ ~isTreatingValue IN
    \/ ~ready /\ Fail("syntax")
    \/ ready /\ Exhausted /\ FailWithoutToken("tokens")
    \/ /\ ready
       /\ \E t \in Tokens :
             \/ scan = "bad" /\ FailHolding(TRUE, t)
             \/ scan = "cut" /\ Suspend(class, TRUE, t)
             \/ scan = "ok" /\ TakeName(t)

ReadWord(class, scan) ==
    /\ Reads(class)
    /\ \/ ~AsValue(class) /\ ~AsIdent(class) /\ Fail("syntax")
       \/ AsValue(class) /\ ReadScalar(class, scan)
       \/ AsIdent(class) /\ ReadIdent(class, scan)

-----------------------------------------------------------------------------
\* Mutant: the active tokens are dropped and not put back.
ResetWithoutReturn(s) ==
    /\ active' = {}
    /\ isTreatingValue' = TRUE
    /\ isInInput' = TRUE
    /\ isAllocAllowed' = (free = {})
    /\ superset' = s
    /\ root' = None /\ vessel' = None /\ value' = None
    /\ code' = "incomplete"
    /\ cut' = None
    /\ UNCHANGED <<tok, free>>

(* nmjson_parser_reset_as_superset; nmjson_parser_reset is the case "none". *)
(* Allowed at any moment: in the middle of a document too.                  *)
ResetAsSuperset(s) ==
    /\ free' = free \cup active
    /\ active' = {}
    /\ isTreatingValue' = TRUE
    /\ isInInput' = TRUE
    /\ isAllocAllowed' = (free' = {})
    /\ superset' = s
    /\ root' = None /\ vessel' = None /\ value' = None
    /\ code' = "incomplete"
    /\ cut' = None
    /\ UNCHANGED tok

(* nmjson_parser_init *)
Init ==
    /\ tok = [t \in Tokens |-> Blank]
    /\ free = Static
    /\ active = {}
    /\ isTreatingValue = TRUE
    /\ isInInput = TRUE
    /\ isAllocAllowed = (Static = {})
    /\ superset = "none"
    /\ root = None /\ vessel = None /\ value = None
    /\ code = "incomplete"
    /\ cut = None

Next ==
    \/ \E k \in {"object", "array"} : ReadOpen(k) \/ ReadClose(k)
    \/ \E quote \in Quotes, scan \in Scans : ReadString(quote, scan)
    \/ \E class \in Words, scan \in Scans : ReadWord(class, scan)
    \/ \E scan \in Scans : ReadComment(scan)
    \/ ReadColon
    \/ ReadComma
    \/ \E s \in Supersets \cup {"none"} : ResetAsSuperset(s)

Spec == Init /\ [][Next]_vars

-----------------------------------------------------------------------------
(* Safety. *)

\* A token is never on both lists, and no token the caller gave is ever lost
\* or marked for free(): whatever the documents, cuts, errors and resets, the
\* next document finds the whole pool (new_token_, del_token_, reset).
PoolConserved ==
    /\ free \cap active = {}
    /\ Static \subseteq free \cup active
    /\ \A t \in Static : ~tok[t].alloced

\* The flags, the vessel and the pending token agree, which is what the
\* handlers rely on when they test only some of them: an object that waits for
\* a value has a token that holds its name, one that waits for a name or a
\* comma has none, and an array always waits for values.  (In JSON5 a bare name
\* right after another one replaces it; when that one is cut, the name is gone
\* until the next call reads the second one.)
ModeCoherent ==
    code = "incomplete" =>
        /\ vessel = None => isTreatingValue /\ isInInput /\ value = None /\ root = None
        /\ VesselIs("array") => isTreatingValue /\ value = None
        /\ VesselIs("object") =>
             (value # None <=> /\ isTreatingValue = isInInput
                               /\ ~(cut \in Words /\ ~isInInput))
        /\ vessel # None => tok[vessel].kind \in {"object", "array"} /\ root # None
        /\ value # None => tok[value].name # None /\ tok[value].parent = None

\* "Tokens" is reported only when the pool really is empty: never for an
\* object's value, whose token its name took.
TokensErrorIsReal == code = "tokens" => Exhausted

\* No pointer of the parser or of the tree leads outside the active list: to a
\* recycled token, or to one that del_token_ freed.
NoDangling ==
    /\ {root, vessel, value} \subseteq active \cup {None}
    /\ \A t \in active :
          /\ tok[t].parent \in active \cup {None}
          /\ ToSet(tok[t].kids) \subseteq active

\* Parents and children agree: a token hangs exactly once, under its parent.
TreeLinked ==
    /\ \A t \in active : \A i \in DOMAIN tok[t].kids :
          /\ tok[tok[t].kids[i]].parent = t
          /\ \A j \in DOMAIN tok[t].kids : tok[t].kids[i] = tok[t].kids[j] => i = j
    /\ \A t \in active : tok[t].parent # None =>
          t \in ToSet(tok[tok[t].parent].kids)

\* The tokens the user can walk to from nmjson_parser_get_root: the least set
\* that has root and, with a token, its children.
DownClosed(S) ==
    /\ root # None => root \in S
    /\ \A t \in S : ToSet(tok[t].kids) \subseteq S

Reachable == {t \in Tokens : \A S \in SUBSET Tokens : DownClosed(S) => t \in S}

\* Every active token is in the tree, or is the one being filled: no lexeme
\* takes a token that the document then does not use.
NoOrphan == active = Reachable \cup ({value} \ {None})

\* The containers still open: the vessel and, with a token, its parent.
UpClosed(S) ==
    /\ vessel # None => vessel \in S
    /\ \A t \in S : tok[t].parent # None => tok[t].parent \in S

OpenPath == {t \in Tokens : \A S \in SUBSET Tokens : UpClosed(S) => t \in S}

\* Once an object is closed its members are in name order, and stay so: the
\* early exit of nmjson_object_token's search depends on it.
ClosedObjectsSorted ==
    \A t \in Reachable \ OpenPath : tok[t].kind = "object" =>
        \A i, j \in DOMAIN tok[t].kids :
            i < j => tok[tok[t].kids[i]].name <= tok[tok[t].kids[j]].name

\* Complete means that every bracket is closed, nothing is half read, and every
\* token in use belongs to the tree.
CompleteIsWhole ==
    code = "complete" => vessel = None /\ value = None /\ root # None
                         /\ active = Reachable

(* Action properties. *)

\* A cut lexeme leaves no trace: with it read again from its start, the parse
\* goes on from the pool, the tree and the modes it was cut in.
CutIsInvisible ==
    [][cut' # None =>
         /\ UNCHANGED <<mode, pool, root, vessel, value, code>>
         /\ \A t \in active : tok'[t] = tok[t]]_vars

\* A name is entered only while the parser waits for input, as the comment on
\* the bare names of JSON5 says (nmjson_parser_parse.c:530-531).
NameOnlyInInputMode ==
    [][code' = "incomplete" /\ value' # None /\ value' # value => isInInput]_vars
=============================================================================
