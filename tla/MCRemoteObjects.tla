-------------------------- MODULE MCRemoteObjects --------------------------
EXTENDS RemoteObjects, TLC

\* The model does not tell the objects apart.
Symmetry == Permutations(Objects)
=============================================================================
