---------------------------- MODULE MCVersions ----------------------------
(* Instances of VersionLog: one consumer, or two that share a root layer.  *)
EXTENDS VersionLog, TLC

Symmetry == Permutations(Prims) \cup Permutations(Connections)
=============================================================================
