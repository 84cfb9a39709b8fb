---------------------------- MODULE MCScheduler ----------------------------
EXTENDS Scheduler, TLC
Symmetry == Permutations(Workers) \cup Permutations(Submitters)
=============================================================================
