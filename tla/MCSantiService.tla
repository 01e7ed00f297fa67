--------------------------- MODULE MCSantiService ---------------------------
(* Small instances of SantiService: the ids of one run are those its turns  *)
(* can draw.                                                                *)
EXTENDS SantiService, TLC

MCMessages == {"user", "reply", "partial", "system"} \X Turns
MCSpans    == Turns \X (1 .. MaxEvents)

\* Turns are interchangeable, their ids, messages and spans with them.
Symmetry == Permutations(Turns)
=============================================================================
