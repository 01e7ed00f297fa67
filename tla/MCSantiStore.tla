---------------------------- MODULE MCSantiStore ----------------------------
(* Small instances of SantiStore.  Ids are interchangeable: the store only  *)
(* compares them for equality.                                              *)
EXTENDS SantiStore, TLC

Symmetry == Permutations(Sessions) \cup Permutations(Messages) \cup Permutations(Turns)
=============================================================================
