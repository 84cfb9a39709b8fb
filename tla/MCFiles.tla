------------------------------ MODULE MCFiles ------------------------------
(* Instances of FileServing.  The two files have one stem, say x.usda and   *)
(* x.usdz, so that they share a thumbnail.                                  *)
EXTENDS FileServing

OneStem == [n \in Names |-> "x"]

Symmetry == Permutations(Uploads)
=============================================================================
