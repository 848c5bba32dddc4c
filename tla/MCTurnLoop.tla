----------------------------- MODULE MCTurnLoop -----------------------------
(* Two deliverables wanted, two assets that can be made, one provider job.    *)
EXTENDS TurnLoop, TLC
=============================================================================
