--------------------------- MODULE MCConversation ---------------------------
(* A short history of three messages at most, two threads that compact it.   *)
EXTENDS Conversation
=============================================================================
