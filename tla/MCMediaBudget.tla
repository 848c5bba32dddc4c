---------------------------- MODULE MCMediaBudget ----------------------------
(* Three videos: neither all three estimates, nor three videos, nor the two  *)
(* longest together fit the limits.                                        *)
EXTENDS MediaBudget, TLC

CONSTANTS c1, c2, c3, k1

MCCalls        == {c1, c2, c3}
MCEstimate     == (c1 :> 2) @@ (c2 :> 3) @@ (c3 :> 2)
MCVideos       == {c1, c2, c3}
MCSeconds      == (c1 :> 1) @@ (c2 :> 2) @@ (c3 :> 2)
MCImportKeys   == {k1}
MCImportAmount == k1 :> 1
==============================================================================
