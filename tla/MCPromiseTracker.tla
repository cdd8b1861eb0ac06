--------------------------- MODULE MCPromiseTracker ---------------------------
EXTENDS PromiseTracker, TLC

Symmetry == Permutations(Promises)
=============================================================================
