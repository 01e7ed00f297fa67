------------------------------ MODULE MCMqueue ------------------------------
(* A small instance of Mqueue: one turn, two sessions to move between.      *)
EXTENDS Mqueue, TLC

MCPayloads == Kinds \X Turns

Symmetry == Permutations(Sessions) \cup Permutations(Slots)
=============================================================================
