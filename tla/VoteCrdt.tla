------------------------------ MODULE VoteCrdt ------------------------------
(***************************************************************************)
(* The working set of one contest's CRDT (src/crdt/crdt.ts) driven by its  *)
(* engine (ContestEngine in src/client/voter.ts): bundles are integrated,  *)
(* their deferred checks settle or evict them, and decayed or superseded   *)
(* ones are pruned while the gating chain's bucket advances.               *)
(*                                                                         *)
(* The promise of the component is stated against a node that never prunes *)
(* anything: `live` is every bundle ever integrated and never evicted.  It *)
(* is not kept where a settled bundle's verdict is taken back, by an       *)
(* eviction or by an admission that makes it provisional again: what was   *)
(* pruned beneath it while it was settled does not come back, and leaves   *)
(* `live` with it.                                                         *)
(***************************************************************************)
EXTENDS Lww

VARIABLES
  bundles,      \* the Map of crdt.ts: what the working set holds now
  provisional,  \* held bundles whose deferred checks are pending
  live,         \* history: integrated, neither evicted nor lost since
  bucket        \* the current bucket of the gating chain

vars == <<bundles, provisional, live, bucket>>

TypeOK ==
  /\ bundles \in SUBSET Bundle
  /\ provisional \in SUBSET bundles
  /\ live \in SUBSET Bundle
  /\ bucket \in 0..MaxBucket

Init ==
  /\ bundles = {}
  /\ provisional = {}
  /\ live = {}
  /\ bucket = 0

----------------------------------------------------------------------------
\* pruned because b was settled, and lost if that verdict is taken back
lostWith(b) ==
  IF b \in bundles \ provisional THEN Beneath(b, live \ bundles) ELSE {}

(***************************************************************************)
(* A bundle enters through the gossip gate with its checks settled, or     *)
(* through the chase, the restore or an own publish with them pending.     *)
(* One that is held stays, and its checks are recorded anew: gossip        *)
(* settles a pending one, an own ballot signed again or a chase that asked *)
(* before gossip admitted it makes a settled one pending.                  *)
(***************************************************************************)
Integrate(b, settled) ==
  /\ bundles' = bundles \cup {b}
  /\ provisional' = IF settled THEN provisional \ {b} ELSE provisional \cup {b}
  /\ live' = (IF settled THEN live ELSE live \ lostWith(b)) \cup {b}
  /\ UNCHANGED bucket

(* The background verifier confirmed the bundle's deferred checks.         *)
Settle(b) ==
  /\ b \in provisional
  /\ provisional' = provisional \ {b}
  /\ UNCHANGED <<bundles, live, bucket>>

(* A deferred check failed: the bundle leaves the set, also when gossip    *)
(* has settled it since the check was asked.                               *)
Remove(b) ==
  /\ b \in bundles
  /\ bundles' = bundles \ {b}
  /\ provisional' = provisional \ {b}
  /\ live' = live \ ({b} \cup lostWith(b))
  /\ UNCHANGED bucket

Prune ==
  LET removed == Prunable(bundles, bucket, provisional)
  IN  /\ bundles' = bundles \ removed
      /\ provisional' = provisional \ removed
      /\ UNCHANGED <<live, bucket>>

AdvanceBucket ==
  /\ bucket < MaxBucket
  /\ bucket' = bucket + 1
  /\ UNCHANGED <<bundles, provisional, live>>

Next ==
  \/ \E b \in Bundle, settled \in BOOLEAN : Integrate(b, settled)
  \/ \E b \in Bundle : Settle(b) \/ Remove(b)
  \/ Prune
  \/ AdvanceBucket

Spec == Init /\ [][Next]_vars

----------------------------------------------------------------------------
(***************************************************************************)
(* The tally reads the reduction of everything held.  Pruning, in any      *)
(* order with evictions, settlements and late arrivals of older bundles,   *)
(* never changes it: the set shows what an unpruned set would show, but    *)
(* for what is lost with a settled bundle that does not stay settled.      *)
(***************************************************************************)
TallyIgnoresPruning ==
  currentEntries(bundles, bucket) = currentEntries(live, bucket)

(***************************************************************************)
(* The checkpoint serves the reduction of the settled bundles only.  While *)
(* a wallet's newest bundle is provisional the checkpoint falls back to    *)
(* its newest settled one, and pruning must not have lost that fallback.   *)
(***************************************************************************)
CheckpointIgnoresPruning ==
  currentEntries(bundles \ provisional, bucket)
    = currentEntries(live \ provisional, bucket)
=============================================================================
