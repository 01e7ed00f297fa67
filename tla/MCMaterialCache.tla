-------------------------- MODULE MCMaterialCache --------------------------
(* A small instance of MaterialCache: two memory files, each read in one   *)
(* step.                                                                   *)
EXTENDS MaterialCache, TLC

Symmetry == Permutations(Callers)
=============================================================================
