------------------------- MODULE MCProviderStreams -------------------------
(* A small instance of ProviderStreams: two calls in a response, two ids    *)
(* that are compared for equality only.                                     *)
EXTENDS ProviderStreams

Symmetry == Permutations(Ids)
=============================================================================
