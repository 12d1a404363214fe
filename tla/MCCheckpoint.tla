---------------------------- MODULE MCCheckpoint ----------------------------
(***************************************************************************)
(* Two votes of one wallet, the later one a bucket later; the first one    *)
(* this node published itself, without the offline checks.                 *)
(***************************************************************************)
EXTENDS Checkpoint, TLC

CONSTANTS first, later, w1

const_Wallet == {w1}
const_address == [b \in Bundle |-> w1]
const_blockNumber == [b \in Bundle |-> IF b = later THEN 1 ELSE 0]
const_cidRank == [b \in Bundle |-> IF b = first THEN 1 ELSE 2]

(* The properties say nothing about what follows a race.                   *)
Unraced == ~ raced
=============================================================================
