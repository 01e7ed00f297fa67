------------------------------ MODULE MCCells ------------------------------
(***************************************************************************)
(* A small instance of Cells: two launches of the server when the client   *)
(* knows of no other, one when the environment names a server elsewhere.   *)
(***************************************************************************)
EXTENDS Cells

CONSTANTS l1, l2

MCStarted(url) == IF url = NoPort THEN {l1, l2} ELSE {l1}
=============================================================================
