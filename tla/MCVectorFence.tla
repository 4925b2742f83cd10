---------------------------- MODULE MCVectorFence ----------------------------
(* Small instances of VectorFence for TLC.                                 *)
EXTENDS VectorFence, TLC

Symmetry == Permutations(Batches) \cup Permutations(Writers) \cup Permutations(Cleaners)
=============================================================================
