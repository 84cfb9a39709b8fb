---------------------------- MODULE MCProtocol ----------------------------
(* Instances of SessionProtocol.  Connections are interchangeable.         *)
EXTENDS SessionProtocol, TLC

Symmetry == Permutations(Connections)
=============================================================================
