----------------------------- MODULE MCAccess -----------------------------
EXTENDS Access

Symmetry == Permutations(Requests)
=============================================================================
