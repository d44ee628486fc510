------------------------------ MODULE Printer -------------------------------
(***************************************************************************)
(* nmjson_token_fout3 (src/token/nmjson_token_fout.c): a token and what is *)
(* below it, printed without recursion, by its links to children, siblings *)
(* and parents, to a FILE any write of which may fail.                     *)
(*                                                                         *)
(* One action is one turn of the loop.  What is printed is kept as what a  *)
(* reader of the tree still waits for: a sequence of lexemes, each with    *)
(* its token.  White space and the characters of a lexeme are left out.    *)
(***************************************************************************)
EXTENDS SequencesExt, FiniteSetsExt, Integers, TLC

CONSTANT MaxTokens      \* bound: tokens of the tree

ASSUME TokensAssumption == MaxTokens \in Nat \ {0}

VARIABLES
    tree,       \* parent and type of every token; siblings in the order of their numbers
    self,       \* the token that is printed
    token, retFlg, indent,
    due,        \* the lexemes that have still to be printed
    result      \* printing, done, failed

vars == <<tree, self, token, retFlg, indent, due, result>>

Containers == {"object", "array"}
Types == Containers \cup {"scalar"}

\* Token 1 is the root, whose parent is 0; only containers are parents.
Trees ==
    UNION {{t \in [parent : [1 .. n -> 0 .. n - 1], type : [1 .. n -> Types]] :
               \A i \in 1 .. n :
                  /\ IF i = 1 THEN t.parent[i] = 0 ELSE t.parent[i] \in 1 .. i - 1
                  /\ i > 1 => t.type[t.parent[i]] \in Containers} : n \in 1 .. MaxTokens}

Tokens == DOMAIN tree.parent

\* The first token of a set, 0 (NULL) if it is empty.
FirstOf(S) == IF S = {} THEN 0 ELSE Min(S)
Child(t) == FirstOf({u \in Tokens : tree.parent[u] = t})
Sibling(t) == FirstOf({u \in Tokens : u > t /\ tree.parent[u] = tree.parent[t]})

IsContainer(t) == tree.type[t] \in Containers

\* do_print_name_
HasName(t) == tree.parent[t] # 0 /\ tree.type[tree.parent[t]] = "object"

\* A lexeme of token t, in a sequence, when it is printed.
Put(condition, lexeme, t) == IF condition THEN <<[lexeme |-> lexeme, of |-> t]>> ELSE <<>>

TypeOK ==
    /\ tree \in Trees
    /\ self \in Tokens /\ token \in Tokens
    /\ retFlg \in BOOLEAN
    /\ indent \in 0 .. MaxTokens - 1
    /\ \A i \in DOMAIN due : due[i].of \in 0 .. Len(tree.parent)
    /\ result \in {"printing", "done", "failed"}

-----------------------------------------------------------------------------
(* What is expected: the text of a token, by recursion over the tree. *)

\* The text of a token and of its siblings behind it.
Listed[t \in 0 .. Len(tree.parent)] ==
    IF t = 0 THEN <<>>
    ELSE Put(HasName(t), "name", t)
         \o (IF IsContainer(t)
             THEN Put(TRUE, "open", t) \o Listed[Child(t)] \o Put(TRUE, "close", t)
             ELSE Put(TRUE, "value", t))
         \o Put(Sibling(t) # 0, "comma", t)
         \o Listed[Sibling(t)]

\* The text of a token alone.
Text(t) ==
    Put(HasName(t), "name", t)
    \o (IF IsContainer(t)
        THEN Put(TRUE, "open", t) \o Listed[Child(t)] \o Put(TRUE, "close", t)
        ELSE Put(TRUE, "value", t))

-----------------------------------------------------------------------------
(* The loop. *)

\* Something else than what a reader of the tree waits for.
Wrong == <<[lexeme |-> "wrong", of |-> 0]>>

Printed(lexemes) ==
    due' = IF IsPrefix(lexemes, due) THEN SubSeq(due, Len(lexemes) + 1, Len(due)) ELSE Wrong

\* The turn goes down: a container that has children and was not come back to.
Descends == IsContainer(token) /\ ~retFlg /\ Child(token) # 0

\* Mutant: the walk goes on to the siblings of self.
GoesOnBehindSelf == ~Descends /\ Sibling(token) # 0

\* It goes on to the next sibling: neither down, nor from self, nor up.
GoesOn == ~Descends /\ token # self /\ Sibling(token) # 0

\* What the turn prints.  The white space before it is left out: sout_indent_
\* may fail, and the turn goes on (:134).
Turn ==
    Put(HasName(token) /\ ~retFlg, "name", token)
    \o Put(IsContainer(token) /\ ~retFlg, "open", token)
    \o Put(IsContainer(token) /\ ~Descends, "close", token)
    \o Put(~IsContainer(token), "value", token)
    \o Put(GoesOn, "comma", token)

Descend ==
    /\ result = "printing" /\ Descends
    /\ Printed(Turn)
    /\ token' = Child(token) /\ indent' = indent + 1
    /\ UNCHANGED <<tree, self, retFlg, result>>

\* Mutant: a container that was come back to stays so.
PassReturning ==
    /\ result = "printing" /\ GoesOn
    /\ Printed(Turn)
    /\ token' = Sibling(token)
    /\ UNCHANGED <<tree, self, retFlg, indent, result>>

Pass ==
    /\ result = "printing" /\ GoesOn
    /\ Printed(Turn)
    /\ token' = Sibling(token)
    /\ retFlg' = (retFlg /\ ~IsContainer(token))
    /\ UNCHANGED <<tree, self, indent, result>>

\* Mutant: the indent of the children is kept.
ReturnKeepingIndent ==
    /\ result = "printing" /\ ~Descends /\ token # self /\ ~GoesOn
    /\ Printed(Turn)
    /\ token' = tree.parent[token] /\ retFlg' = TRUE
    /\ UNCHANGED <<tree, self, indent, result>>

\* Mutant: whoever is come back to is entered again.
ReturnAfresh ==
    /\ result = "printing" /\ ~Descends /\ token # self /\ ~GoesOn
    /\ Printed(Turn)
    /\ token' = tree.parent[token] /\ indent' = indent - 1
    /\ UNCHANGED <<tree, self, retFlg, result>>

Return ==
    /\ result = "printing" /\ ~Descends /\ token # self /\ ~GoesOn
    /\ Printed(Turn)
    /\ token' = tree.parent[token] /\ retFlg' = TRUE /\ indent' = indent - 1
    /\ UNCHANGED <<tree, self, result>>

\* self has been printed; with easy_to_look a line feed follows, which may fail.
Finish ==
    /\ result = "printing" /\ ~Descends /\ token = self
    /\ Printed(Turn)
    /\ retFlg' = (retFlg /\ ~IsContainer(token))
    /\ result' \in {"done", "failed"}
    /\ UNCHANGED <<tree, self, token, indent>>

\* A write of the turn fails: what is before its lexeme has been printed.  The
\* last character of a name or a string may fail unseen (sout_encode_str_ looks
\* at tmp only before the next one): the lexeme counts as printed then.
Fail ==
    /\ result = "printing"
    /\ \E n \in 0 .. Len(Turn) - 1 : Printed(SubSeq(Turn, 1, n))
    /\ result' = "failed"
    /\ UNCHANGED <<tree, self, token, retFlg, indent>>

Init ==
    /\ tree \in Trees
    /\ self \in Tokens
    /\ token = self /\ retFlg = FALSE /\ indent = 0
    /\ due = Text(self)
    /\ result = "printing"

Next == Descend \/ Pass \/ Return \/ Finish \/ Fail

\* The loop runs in its caller's thread and waits for nothing.
Spec == Init /\ [][Next]_vars /\ WF_vars(Next)

-----------------------------------------------------------------------------
(* Properties. *)

\* The walk without recursion prints what recursion over the tree would: every
\* lexeme once, in order, of self and of what is below it and of nothing else,
\* and all of them when it returns a length.
PrintsTheTree ==
    /\ due # Wrong
    /\ result = "done" => due = <<>>

\* indent is how deep the token is below self, so that the unsigned counter
\* never goes below zero (indent --, :241).
Depth[t \in 0 .. Len(tree.parent)] ==
    IF t \in {0, self} THEN 0 ELSE 1 + Depth[tree.parent[t]]
IndentIsDepth == indent = Depth[token]

\* The loop over children, siblings and parents ends.
WalkEnds == <>(result # "printing")
=============================================================================
