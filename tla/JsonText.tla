------------------------------ MODULE JsonText ------------------------------
(***************************************************************************)
(* The beginning of a JSON document, as its reader keeps it in mind: a     *)
(* stack of open containers and what the innermost one waits for.  The     *)
(* root is an object or an array, as libnmjson's parser and writer both    *)
(* have it.  JsonGrammar.tla makes an acceptor of it, which the parser     *)
(* implements; Writer.tla says with it what the writer writes.             *)
(***************************************************************************)
EXTENDS Sequences, SequencesExt

Kinds == {"object", "array"}

\* "first": nothing read in the container; "next": a comma was read;
\* "colon": a name was read; "value": a colon was read, or nothing at all;
\* "sep": a member was read.
Dues == {"first", "next", "colon", "value", "sep"}

\* open: the kinds of the open containers, outermost first; trailing: the
\* dialect allows a comma before a closing bracket.
Texts == [open : Seq(Kinds), due : Dues, trailing : BOOLEAN,
          verdict : {"reading", "accepted", "rejected"}]

\* Nothing read yet.
NoText(trailing) ==
    [open |-> <<>>, due |-> "value", trailing |-> trailing, verdict |-> "reading"]

-----------------------------------------------------------------------------
(* Which lexeme the text t admits. *)
Inside(t, k) == t.open # <<>> /\ Last(t.open) = k

ValueDue(t) ==
    \/ t.due = "value"
    \/ Inside(t, "array") /\ t.due \in {"first", "next"}

CanOpen(t)   == t.verdict = "reading" /\ ValueDue(t)
CanScalar(t) == t.verdict = "reading" /\ ValueDue(t) /\ t.open # <<>>
CanName(t)   == t.verdict = "reading" /\ Inside(t, "object") /\ t.due \in {"first", "next"}
CanColon(t)  == t.verdict = "reading" /\ t.due = "colon"
CanComma(t)  == t.verdict = "reading" /\ t.due = "sep"
CanClose(t, k) ==
    /\ t.verdict = "reading"
    /\ Inside(t, k)
    /\ t.due \in {"first", "sep"} \/ (t.due = "next" /\ t.trailing)

-----------------------------------------------------------------------------
(* The text t with one more lexeme, which it admits. *)
Opened(t, k) == [t EXCEPT !.open = Append(@, k), !.due = "first"]

\* A scalar, a name, a colon, a comma: what is due after it.
Then(t, due) == [t EXCEPT !.due = due]

Closed(t, k) ==
    [t EXCEPT !.open = Front(@), !.due = "sep",
              !.verdict = IF Len(t.open) = 1 THEN "accepted" ELSE @]
=============================================================================
