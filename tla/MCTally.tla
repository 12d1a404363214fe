------------------------------ MODULE MCTally -------------------------------
(***************************************************************************)
(* Every arrival order of three bundles of one wallet (two at one block,   *)
(* told apart by their CIDs) and one of another, while one view is updated *)
(* and stopped.                                                            *)
(***************************************************************************)
EXTENDS Tally

CONSTANTS old, lowCid, highCid, other, w1, w2, x, y, v1

const_Bundle == {old, lowCid, highCid, other}
const_Wallet == {w1, w2}
const_address == [b \in const_Bundle |-> IF b = other THEN w2 ELSE w1]
const_blockNumber ==
  (old :> 0) @@ (lowCid :> 2) @@ (highCid :> 2) @@ (other :> 3)
const_cidRank == (old :> 3) @@ (lowCid :> 1) @@ (highCid :> 2) @@ (other :> 4)
const_choice == (old :> {x, y}) @@ (lowCid :> {}) @@ (highCid :> {x}) @@ (other :> {x})
const_addressRank == (w1 :> 2) @@ (w2 :> 1)
const_size == (old :> 1) @@ (lowCid :> 2) @@ (highCid :> 3) @@ (other :> 1)

\* Bound: an observed contest hears of one bundle (which comes, settles, is
\* evicted, decays and comes again), an unobserved one of all four.
ObservedIsSmall ==
  listeners # {} \/ AtWork # {} \/ cached # <<>> => Cardinality(live) <= 1
=============================================================================
