--------------------------- MODULE MCProjectStore ---------------------------
(* Writers are interchangeable and no property here is a liveness property.  *)
EXTENDS ProjectStore, TLC

WriterSymmetry == Permutations(Writers)
=============================================================================
