------------------------- MODULE BackgroundVerifier -------------------------
(***************************************************************************)
(* The background verifier of src/verify/background.ts: bundles admitted   *)
(* provisionally are queued, drained in rounds (one batched gate read,     *)
(* then each bundle's names), retried after infrastructure failures,       *)
(* re-examined while a refusal nobody is blamed for is within its grace    *)
(* window, and paused by stop.  Each step is the code between two awaits.  *)
(*                                                                         *)
(* The queue and the batch are sets: nothing depends on their order.       *)
(* Delays are left out, except that an item's age says whether its grace   *)
(* window is over.                                                         *)
(***************************************************************************)
EXTENDS Integers, FiniteSets

CONSTANTS
  Bundle,
  NoBundle,     \* no item at hand
  Name,
  claims,       \* [Bundle -> SUBSET Name], the community.names it carries
  wrongKey,     \* bundles that claim another key than their names have
  gateAnswers,  \* [Bundle -> SUBSET GateAnswer], what gate reads may answer
  nameAnswers,  \* [Name -> SUBSET {"key", "missing"}], what it may resolve to
  GateGrace,    \* gateGraceMs, in ticks
  MaxOutages    \* bound: how often chain reads and resolvers throw

GateAnswer == {"pass", "reject", "notYet"}

ASSUME VerifierAssumption ==
  /\ NoBundle \notin Bundle
  /\ claims \in [Bundle -> SUBSET Name]
  /\ wrongKey \in SUBSET Bundle
  /\ gateAnswers \in [Bundle -> SUBSET GateAnswer]
  /\ nameAnswers \in [Name -> SUBSET {"key", "missing"}]
  /\ GateGrace \in Nat /\ MaxOutages \in Nat

VARIABLES
  queue, inFlight,
  gate,           \* [Bundle -> gate answer, or "none" while ~gateDone]
  gateNotified,   \* bundles in flight whose onGateVerified fired
  resolvedNames,  \* [Bundle -> names resolved to the claimed key]
  age,            \* [Bundle -> ticks since queuedAt]
  pc,             \* "idle", or where the round is: "gate", "items"
  batch, at, requeue, notYet,
  resolutions,    \* [Name -> the round's one resolution of it]
  retryTimer, stopped, failedRounds,
  idleAsked,      \* an idle() promise waits
  outages,        \* infrastructure failures so far
  outcome         \* history: the last verdict on a bundle

item == <<gate, gateNotified, resolvedNames>>
round == <<pc, batch, at, requeue, notYet, resolutions>>
vars == <<queue, inFlight, item, age, round, retryTimer, stopped, failedRounds,
          idleAsked, outages, outcome>>

TypeOK ==
  /\ queue \in SUBSET Bundle /\ inFlight \in SUBSET Bundle
  /\ gate \in [Bundle -> GateAnswer \cup {"none"}]
  /\ gateNotified \in SUBSET Bundle
  /\ resolvedNames \in [Bundle -> SUBSET Name]
  /\ age \in [Bundle -> 0..GateGrace]
  /\ pc \in {"idle", "gate", "items"}
  /\ batch \in SUBSET Bundle /\ at \in Bundle \cup {NoBundle}
  /\ requeue \in SUBSET Bundle /\ notYet \in SUBSET Bundle
  /\ resolutions \in [Name -> {"none", "key", "missing", "throws"}]
  /\ retryTimer \in BOOLEAN /\ stopped \in BOOLEAN
  /\ failedRounds \in 0..outages /\ outages \in 0..MaxOutages
  /\ idleAsked \in BOOLEAN
  /\ outcome \in [Bundle -> {"none", "verified", "evicted"}]

Init ==
  /\ queue = {} /\ inFlight = {}
  /\ gate = [b \in Bundle |-> "none"] /\ gateNotified = {}
  /\ resolvedNames = [b \in Bundle |-> {}]
  /\ age = [b \in Bundle |-> 0]
  /\ pc = "idle" /\ batch = {} /\ at = NoBundle /\ requeue = {} /\ notYet = {}
  /\ resolutions = [n \in Name |-> "none"]
  /\ retryTimer = FALSE /\ stopped = FALSE /\ failedRounds = 0
  /\ idleAsked = FALSE /\ outages = 0
  /\ outcome = [b \in Bundle |-> "none"]

draining == pc # "idle"

----------------------------------------------------------------------------
(* The drain.                                                              *)

(* A round takes the whole queue.                                          *)
StartRound(q) ==
  /\ pc' = "gate" /\ batch' = q /\ queue' = {}
  /\ at' = NoBundle /\ requeue' = {} /\ notYet' = {}
  /\ resolutions' = [n \in Name |-> "none"]
  /\ UNCHANGED idleAsked

(* No round starts: an empty queue with no retry armed resolves idle.      *)
Rest(q) ==
  /\ queue' = q
  /\ idleAsked' = (idleAsked /\ (q # {} \/ retryTimer'))

(* The drain stops here, or was not running.                               *)
NoRound ==
  /\ pc' = "idle" /\ batch' = {} /\ at' = NoBundle /\ requeue' = {} /\ notYet' = {}
  /\ resolutions' = [n \in Name |-> "none"]

mayDrain(q) == ~ stopped' /\ ~ retryTimer' /\ q # {}

kickDrain(q) ==
  IF draining
  THEN queue' = q /\ UNCHANGED <<round, idleAsked>>
  ELSE IF mayDrain(q) THEN StartRound(q) ELSE Rest(q) /\ NoRound

(* The loop of the drain after a round that left q queued.                 *)
DrainOn(q) == IF mayDrain(q) THEN StartRound(q) ELSE Rest(q) /\ NoRound

----------------------------------------------------------------------------
(* The interface.                                                          *)

(* Mutant: a bundle in flight is taken again.                              *)
enqueue_Again(entries) ==
  /\ inFlight' = inFlight \cup entries
  /\ gate' = [b \in Bundle |-> IF b \in entries THEN "none" ELSE gate[b]]
  /\ gateNotified' = gateNotified \ entries
  /\ resolvedNames' = [b \in Bundle |-> IF b \in entries THEN {} ELSE resolvedNames[b]]
  /\ age' = [b \in Bundle |-> IF b \in entries THEN 0 ELSE age[b]]
  /\ outcome' = [b \in Bundle |-> IF b \in entries THEN "none" ELSE outcome[b]]
  /\ UNCHANGED <<retryTimer, stopped, failedRounds, outages>>
  /\ kickDrain(queue \cup entries)

enqueue(entries) ==
  LET new == entries \ inFlight IN
  /\ inFlight' = inFlight \cup new
  /\ gate' = [b \in Bundle |-> IF b \in new THEN "none" ELSE gate[b]]
  /\ gateNotified' = gateNotified \ new
  /\ resolvedNames' = [b \in Bundle |-> IF b \in new THEN {} ELSE resolvedNames[b]]
  /\ age' = [b \in Bundle |-> IF b \in new THEN 0 ELSE age[b]]
  /\ outcome' = [b \in Bundle |-> IF b \in new THEN "none" ELSE outcome[b]]
  /\ UNCHANGED <<retryTimer, stopped, failedRounds, outages>>
  /\ kickDrain(queue \cup new)

idle ==
  /\ idleAsked' = (queue # {} \/ draining \/ retryTimer)
  /\ UNCHANGED <<queue, inFlight, item, age, round, retryTimer, stopped, failedRounds,
                 outages, outcome>>

stop ==
  /\ stopped' = TRUE /\ retryTimer' = FALSE
  /\ idleAsked' = (idleAsked /\ (queue # {} \/ draining))
  /\ UNCHANGED <<queue, inFlight, item, age, round, failedRounds, outages, outcome>>

(* Mutant: a resumed verifier waits for the next bundle.                   *)
resume_NoKick ==
  /\ stopped' = FALSE
  /\ UNCHANGED <<queue, inFlight, item, age, round, retryTimer, failedRounds,
                 idleAsked, outages, outcome>>

resume ==
  /\ stopped' = FALSE
  /\ UNCHANGED <<inFlight, item, age, retryTimer, failedRounds, outages, outcome>>
  /\ kickDrain(queue)

RetryTimerFires ==
  /\ retryTimer /\ retryTimer' = FALSE
  /\ UNCHANGED <<inFlight, item, age, stopped, failedRounds, outages, outcome>>
  /\ kickDrain(queue)

(* Time passes for every item that waits.                                  *)
Tick ==
  /\ \E b \in inFlight : age[b] < GateGrace
  /\ age' = [b \in Bundle |-> IF b \in inFlight /\ age[b] < GateGrace THEN age[b] + 1 ELSE age[b]]
  /\ UNCHANGED <<queue, inFlight, item, round, retryTimer, stopped, failedRounds,
                 idleAsked, outages, outcome>>

----------------------------------------------------------------------------
(* A round: the gate stage for the whole batch, then its items.            *)

interface == <<retryTimer, stopped, failedRounds, idleAsked>>

gateStage ==
  /\ pc = "gate" /\ pc' = "items"
  /\ \E answer \in [Bundle -> GateAnswer] :
       /\ \A b \in Bundle : answer[b] \in gateAnswers[b]
       /\ gate' = [b \in Bundle |->
                    IF b \in batch /\ gate[b] = "none" THEN answer[b] ELSE gate[b]]
  /\ UNCHANGED <<queue, inFlight, gateNotified, resolvedNames, age, batch, at, requeue,
                 notYet, resolutions, interface, outages, outcome>>

Outage == outages < MaxOutages /\ outages' = outages + 1

(* One failed read leaves every item of the batch ungated.                 *)
GateStageThrows ==
  /\ pc = "gate" /\ pc' = "items"
  /\ \E b \in batch : gate[b] = "none"
  /\ Outage
  /\ UNCHANGED <<queue, inFlight, item, age, batch, at, requeue, notYet, resolutions,
                 interface, outcome>>

TakeItem(b) == pc = "items" /\ at = NoBundle /\ b \in batch /\ batch' = batch \ {b}

ItemUngated(b) ==
  /\ TakeItem(b) /\ gate[b] = "none"
  /\ requeue' = requeue \cup {b}
  /\ UNCHANGED <<queue, inFlight, item, age, pc, at, notYet, resolutions, interface,
                 outages, outcome>>

(* settle, with the verdict that is reported.                              *)
settle(b, verdict) ==
  /\ inFlight' = inFlight \ {b}
  /\ gateNotified' = gateNotified \ {b}
  /\ outcome' = [outcome EXCEPT ![b] = verdict]

(* Blamed on the sender, or still refused after the grace window.          *)
GateEvicts(b) ==
  /\ TakeItem(b)
  /\ gate[b] = "reject" \/ (gate[b] = "notYet" /\ age[b] >= GateGrace)
  /\ settle(b, "evicted")
  /\ UNCHANGED <<queue, gate, resolvedNames, age, pc, at, requeue, notYet, resolutions,
                 interface, outages>>

(* Mutant: each look at the item restarts its grace window.                *)
NotYet_RestartsGrace(b) ==
  /\ TakeItem(b) /\ gate[b] = "notYet" /\ age[b] < GateGrace
  /\ gate' = [gate EXCEPT ![b] = "none"]
  /\ age' = [age EXCEPT ![b] = 0]
  /\ notYet' = notYet \cup {b}
  /\ UNCHANGED <<queue, inFlight, gateNotified, resolvedNames, pc, at, requeue,
                 resolutions, interface, outages, outcome>>

NotYet(b) ==
  /\ TakeItem(b) /\ gate[b] = "notYet" /\ age[b] < GateGrace
  /\ gate' = [gate EXCEPT ![b] = "none"]
  /\ notYet' = notYet \cup {b}
  /\ UNCHANGED <<queue, inFlight, gateNotified, resolvedNames, age, pc, at, requeue,
                 resolutions, interface, outages, outcome>>

GatePasses(b) ==
  /\ TakeItem(b) /\ gate[b] = "pass"
  /\ gateNotified' = gateNotified \cup {b}
  /\ at' = b
  /\ UNCHANGED <<queue, inFlight, gate, resolvedNames, age, pc, requeue, notYet,
                 resolutions, interface, outages, outcome>>

----------------------------------------------------------------------------
(* The names of the item at hand; a round resolves each name once.         *)

resolveName(n) ==
  /\ at # NoBundle /\ n \in claims[at] \ resolvedNames[at] /\ resolutions[n] = "none"
  /\ \/ /\ \E answer \in nameAnswers[n] : resolutions' = [resolutions EXCEPT ![n] = answer]
        /\ UNCHANGED outages
     \/ Outage /\ resolutions' = [resolutions EXCEPT ![n] = "throws"]
  /\ UNCHANGED <<queue, inFlight, item, age, pc, batch, at, requeue, notYet, interface,
                 outcome>>

NameResolved(n) ==
  /\ at # NoBundle /\ n \in claims[at] \ resolvedNames[at]
  /\ resolutions[n] = "key" /\ at \notin wrongKey
  /\ resolvedNames' = [resolvedNames EXCEPT ![at] = @ \cup {n}]
  /\ UNCHANGED <<queue, inFlight, gate, gateNotified, age, round, interface, outages, outcome>>

NameEvicts(n) ==
  /\ at # NoBundle /\ n \in claims[at] \ resolvedNames[at]
  /\ resolutions[n] = "missing" \/ (resolutions[n] = "key" /\ at \in wrongKey)
  /\ settle(at, "evicted")
  /\ at' = NoBundle
  /\ UNCHANGED <<queue, gate, resolvedNames, age, pc, batch, requeue, notYet, resolutions,
                 interface, outages>>

NameThrows(n) ==
  /\ at # NoBundle /\ n \in claims[at] \ resolvedNames[at] /\ resolutions[n] = "throws"
  /\ requeue' = requeue \cup {at} /\ at' = NoBundle
  /\ UNCHANGED <<queue, inFlight, item, age, pc, batch, notYet, resolutions, interface,
                 outages, outcome>>

(* Mutant: a verified item stays in flight.                                *)
ItemVerified_KeepsInFlight ==
  /\ at # NoBundle /\ claims[at] \subseteq resolvedNames[at]
  /\ outcome' = [outcome EXCEPT ![at] = "verified"]
  /\ gateNotified' = gateNotified \ {at}
  /\ at' = NoBundle
  /\ UNCHANGED <<queue, inFlight, gate, resolvedNames, age, pc, batch, requeue, notYet,
                 resolutions, interface, outages>>

ItemVerified ==
  /\ at # NoBundle /\ claims[at] \subseteq resolvedNames[at]
  /\ settle(at, "verified")
  /\ at' = NoBundle
  /\ UNCHANGED <<queue, gate, resolvedNames, age, pc, batch, requeue, notYet, resolutions,
                 interface, outages>>

----------------------------------------------------------------------------
(* The end of a round: a failure arms the backoff, an unblamed refusal the *)
(* fixed re-examination interval.                                          *)

RoundOver == pc = "items" /\ at = NoBundle /\ batch = {}

RoundEnd ==
  /\ RoundOver
  /\ failedRounds' = IF requeue # {} THEN failedRounds + 1 ELSE 0
  /\ retryTimer' = (requeue \cup notYet # {} /\ ~ stopped)
  /\ UNCHANGED <<inFlight, item, age, stopped, outages, outcome>>
  /\ DrainOn(queue \cup requeue \cup notYet)

RoundStep ==
  \/ gateStage \/ GateStageThrows \/ ItemVerified \/ RoundEnd
  \/ \E b \in Bundle : ItemUngated(b) \/ GateEvicts(b) \/ NotYet(b) \/ GatePasses(b)
  \/ \E n \in Name : resolveName(n) \/ NameResolved(n) \/ NameEvicts(n) \/ NameThrows(n)

Next ==
  \/ \E entries \in SUBSET Bundle \ {{}} : enqueue(entries)
  \/ idle \/ stop \/ resume \/ RetryTimerFires \/ Tick
  \/ RoundStep

Spec == Init /\ [][Next]_vars

(* Reads and resolvers answer or throw, timers fire, and time passes.      *)
FairSpec == Spec /\ WF_vars(RoundStep) /\ WF_vars(RetryTimerFires) /\ WF_vars(Tick)

----------------------------------------------------------------------------
(* Every bundle in flight is in exactly one place of the machinery, and    *)
(* nothing else is: an item that infrastructure failed, or whose refusal   *)
(* is not final, is neither lost nor taken twice (background.ts:154).      *)
Places == <<queue, batch, requeue, notYet, {at} \cap Bundle>>

InFlightIsHeld ==
  /\ inFlight = UNION {Places[i] : i \in DOMAIN Places}
  /\ \A i, j \in DOMAIN Places : i # j => Places[i] \cap Places[j] = {}

(* Queued work has a round running or a retry armed, unless stopped, and   *)
(* a retry is never armed while a round runs (background.ts:394-405).      *)
WorkIsScheduled ==
  /\ (queue # {} /\ ~ stopped) => draining \/ retryTimer
  /\ ~ (retryTimer /\ (draining \/ stopped))

(* idle() resolves only once every queued bundle has settled               *)
(* (background.ts:109).                                                    *)
IdleIsHonest == [][idleAsked /\ ~ idleAsked' => inFlight' = {}]_vars

(* A bundle handed over is verified or evicted, or the verifier is         *)
(* stopped: outages end and grace windows close (background.ts:378-409).   *)
Settles == \A b \in Bundle : b \in inFlight ~> (b \notin inFlight \/ stopped)

(* The rounds, retries and pauses implement the promise of one verdict.    *)
Checks == INSTANCE DeferredChecks WITH pending <- inFlight, notified <- gateNotified

ImplementsDeferredChecks == Checks!Spec
=============================================================================
