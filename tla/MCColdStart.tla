---------------------------- MODULE MCColdStart ----------------------------
(***************************************************************************)
(* Two contests pull from one peer that may not be ready yet and whose    *)
(* roots move; our own replica already has what one of the contests finds *)
(* first.                                                                  *)
(***************************************************************************)
EXTENDS ColdStart

CONSTANTS a, b, p

const_ownRoot == [t \in Topic |-> IF t = a THEN 1 ELSE 0]
=============================================================================
