-------------------------- MODULE MCProductionRun --------------------------
\* Two threads and two exports of a run that is being rendered.
EXTENDS ProductionRun, TLC

Symmetry == Permutations(Threads) \union Permutations(Masters)
=============================================================================
