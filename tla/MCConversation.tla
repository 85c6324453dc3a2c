--------------------------- MODULE MCConversation --------------------------
(* Small instances of the conversation for TLC. *)
EXTENDS Conversation

CONSTANT x

OneTitle == {x}

\* One task the user asks for, dated and phrased as a deadline
OneDraft == {[title |-> x, dated |-> TRUE, timed |-> FALSE, deadline |-> FALSE, phrased |-> TRUE]}
=============================================================================
