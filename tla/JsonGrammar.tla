---------------------------- MODULE JsonGrammar ----------------------------
(***************************************************************************)
(* What libnmjson's parser promises about the order of lexemes: the        *)
(* pushdown acceptor of JSON documents.  It knows nothing of tokens, pools *)
(* or buffers.  Parser.tla implements it.                                  *)
(***************************************************************************)
EXTENDS JsonText

VARIABLE text

GInit == text = NoText(FALSE)

Open(k)  == CanOpen(text) /\ text' = Opened(text, k)
Close(k) == CanClose(text, k) /\ text' = Closed(text, k)
Scalar   == CanScalar(text) /\ text' = Then(text, "sep")
Name     == CanName(text)   /\ text' = Then(text, "colon")
Colon    == CanColon(text)  /\ text' = Then(text, "value")
Comma    == CanComma(text)  /\ text' = Then(text, "next")

Reject == text.verdict = "reading" /\ text' = [text EXCEPT !.verdict = "rejected"]

\* A new document, in the dialect the caller chooses.
Restart == \E trailing \in BOOLEAN : text' = NoText(trailing)

GNext ==
    \/ \E k \in Kinds : Open(k) \/ Close(k)
    \/ Scalar \/ Name \/ Colon \/ Comma
    \/ Reject
    \/ Restart

GSpec == GInit /\ [][GNext]_text
=============================================================================
