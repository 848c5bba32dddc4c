------------------------- MODULE MCSessionDirectory -------------------------
(* Three creates of one id, a close or close_all, and the sweeper; room for   *)
(* two sessions, so that creates of the id overlap.                          *)
EXTENDS SessionDirectory, TLC
=============================================================================
