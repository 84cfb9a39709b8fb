---------------------------- MODULE MCLifecycle ----------------------------
(* Instances of SessionLifecycle.  Connections are interchangeable.        *)
EXTENDS SessionLifecycle, TLC

Symmetry == Permutations(Connections)
=============================================================================
