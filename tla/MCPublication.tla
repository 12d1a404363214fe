--------------------------- MODULE MCPublication ---------------------------
(***************************************************************************)
(* A ballot published twice, in one bucket or in two.                      *)
(***************************************************************************)
EXTENDS Publication

CONSTANTS p1, p2
=============================================================================
