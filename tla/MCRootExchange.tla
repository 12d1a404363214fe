--------------------------- MODULE MCRootExchange ---------------------------
(***************************************************************************)
(* Three nodes, so that a record may match one node's and differ from the  *)
(* other's, and a vote some of them have at first.                         *)
(***************************************************************************)
EXTENDS RootExchange

CONSTANTS n1, n2, n3, b1
=============================================================================
