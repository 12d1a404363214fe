--------------------------- MODULE DeferredChecks ---------------------------
(***************************************************************************)
(* What the background verifier (src/verify/background.ts) promises about  *)
(* the bundles handed to it: each is owed one verdict at a time.  Its gate *)
(* is reported at most once, before the bundle is verified; it is verified *)
(* or evicted once, and only then may it be handed over anew.              *)
(***************************************************************************)
CONSTANT Bundle

VARIABLES
  pending,   \* bundles whose deferred checks have not settled
  notified,  \* pending bundles whose gate was reported
  outcome    \* [Bundle -> the last verdict]

vars == <<pending, notified, outcome>>

Outcome == {"none", "verified", "evicted"}

Init == pending = {} /\ notified = {} /\ outcome = [b \in Bundle |-> "none"]

(* enqueue: a bundle that is pending already is not taken again.           *)
Enqueue(entries) ==
  /\ pending' = pending \cup entries
  /\ outcome' = [b \in Bundle |-> IF b \in entries \ pending THEN "none" ELSE outcome[b]]
  /\ UNCHANGED notified

GateVerified(b) ==
  /\ b \in pending \ notified
  /\ notified' = notified \cup {b}
  /\ UNCHANGED <<pending, outcome>>

Settled(b, verdict) ==
  /\ b \in pending
  /\ verdict = "verified" => b \in notified
  /\ pending' = pending \ {b} /\ notified' = notified \ {b}
  /\ outcome' = [outcome EXCEPT ![b] = verdict]

Next ==
  \/ \E entries \in SUBSET Bundle : Enqueue(entries)
  \/ \E b \in Bundle : GateVerified(b)
  \/ \E b \in Bundle, verdict \in {"verified", "evicted"} : Settled(b, verdict)

Spec == Init /\ [][Next]_vars
=============================================================================
