----------------------------- MODULE ParserText -----------------------------
(***************************************************************************)
(* What the parser of Parser.tla has read, as JsonGrammar.tla sees it.     *)
(***************************************************************************)
EXTENDS Parser, FiniteSets

\* The open containers, outermost first, up the parent pointers.
PathUp[i \in 1 .. Cardinality(OpenPath)] ==
    IF i = Cardinality(OpenPath) THEN vessel ELSE tok[PathUp[i + 1]].parent

OpenKinds == [i \in 1 .. Cardinality(OpenPath) |-> tok[PathUp[i]].kind]

Due ==
    IF vessel = None THEN IF root = None THEN "value" ELSE "sep"
    ELSE CASE isInInput /\ VesselIs("object") /\ isTreatingValue -> "value"
           [] isInInput /\ ~(VesselIs("object") /\ isTreatingValue) ->
                IF tok[vessel].kids = <<>> THEN "first" ELSE "next"
           [] ~isInInput /\ isTreatingValue -> "sep"
           [] OTHER -> "colon"

TextRead ==
    [open     |-> OpenKinds,
     due      |-> Due,
     trailing |-> IsTailCommaEnabled,
     verdict  |-> CASE code = "incomplete" -> "reading"
                    [] code = "complete" -> "accepted"
                    [] OTHER -> "rejected"]

Grammar == INSTANCE JsonGrammar WITH text <- TextRead

\* Every lexeme moves the parser as the JSON grammar says, or stops it: the
\* parser accepts no document that is not JSON (JSONC with comments dropped).
ImplementsGrammar == Grammar!GSpec

\* And it stops for a reason: a well-formed lexeme is a syntax error exactly
\* where the grammar does not admit it.
RejectsOnlyUngrammatical ==
    [][LET refused == code' = "syntax" IN
       /\ \A k \in {"object", "array"} :
            /\ ReadOpen(k) => (refused <=> ~Grammar!CanOpen(TextRead))
            /\ ReadClose(k) => (refused <=> ~Grammar!CanClose(TextRead, k))
       /\ ReadColon => (refused <=> ~Grammar!CanColon(TextRead))
       /\ ReadComma => (refused <=> ~Grammar!CanComma(TextRead))
       /\ ReadWord("plain", "ok") => (refused <=> ~Grammar!CanScalar(TextRead))
       /\ ReadString("dquote", "ok") =>
            (refused <=> ~Grammar!CanScalar(TextRead) /\ ~Grammar!CanName(TextRead))]_vars
=============================================================================
