--------------------------- MODULE MCConversation ---------------------------
(* Windows of two user messages and one recent block, three turns.          *)
EXTENDS Conversation
=============================================================================
