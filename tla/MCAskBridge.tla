----------------------------- MODULE MCAskBridge -----------------------------
(* Two questions in turn, and more requests than questions.                 *)
EXTENDS AskBridge, TLC
=============================================================================
