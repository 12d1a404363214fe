---------------------------- MODULE MCLifecycle ----------------------------
(***************************************************************************)
(* Two contests of a voter, by a host that awaits its calls or does not.   *)
(***************************************************************************)
EXTENDS Lifecycle

CONSTANTS e1, e2
=============================================================================
