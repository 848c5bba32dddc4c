--------------------------- MODULE MCToolReceipts ---------------------------
(* Two paid calls of one run that fit the cap only one at a time.           *)
EXTENDS ToolReceipts, TLC

CONSTANTS r1, k1, k2

MCRuns     == {r1}
MCKeys     == {k1, k2}
MCEstimate == (<<r1, k1>> :> 2) @@ (<<r1, k2>> :> 1)
=============================================================================
