--------------------------- MODULE VerifierProofs ---------------------------
(***************************************************************************)
(* Theorems about the background verifier and the gate it evaluates.       *)
(* First BackgroundVerifier, for every set of bundles and names, every     *)
(* answer the chain and the resolvers may give, every grace window and     *)
(* every number of outages; then Gate, for every set of rules, every set   *)
(* of trees and every answer.                                              *)
(***************************************************************************)
EXTENDS BackgroundVerifier, Gate, FiniteSetTheorems, WellFoundedInduction, TLAPS


(* The places a bundle in flight can be in, spelled out.                   *)
Held ==
  /\ inFlight = queue \cup batch \cup requeue \cup notYet \cup ({at} \cap Bundle)
  /\ queue \cap batch = {} /\ queue \cap requeue = {} /\ queue \cap notYet = {}
  /\ batch \cap requeue = {} /\ batch \cap notYet = {} /\ requeue \cap notYet = {}
  /\ at \notin queue \cup batch \cup requeue \cup notYet

(* What the round's variables hold between rounds and before the items.    *)
RoundShape ==
  /\ pc = "idle" => batch = {}
  /\ pc # "items" => requeue = {} /\ notYet = {} /\ at = NoBundle
  /\ pc # "items" => \A n \in Name : resolutions[n] = "none"

(* The gate is reported of bundles in flight, of the item at hand always.  *)
GateReported ==
  /\ gateNotified \subseteq inFlight
  /\ at # NoBundle => at \in gateNotified

(* A round that will count as failed has met an outage of its own: this is *)
(* what bounds failedRounds by outages.                                    *)
FailureSeen ==
  \/ requeue # {}
  \/ \E b \in batch : gate[b] = "none"
  \/ \E n \in Name : resolutions[n] = "throws"

FailuresCounted == pc = "items" /\ FailureSeen => failedRounds < outages

IInv ==
  TypeOK /\ Held /\ RoundShape /\ GateReported /\ FailuresCounted /\ WorkIsScheduled

----------------------------------------------------------------------------
(* The drain's operators.                                                  *)

(* Whatever the drain does with the queue q it is given, it types.         *)
LEMMA DrainTypes ==
  ASSUME TypeOK, NEW q \in SUBSET Bundle, kickDrain(q) \/ DrainOn(q)
  PROVE  /\ queue' \in SUBSET Bundle /\ batch' \in SUBSET Bundle
         /\ pc' \in {"idle", "gate", "items"} /\ at' \in Bundle \cup {NoBundle}
         /\ requeue' \in SUBSET Bundle /\ notYet' \in SUBSET Bundle
         /\ resolutions' \in [Name -> {"none", "key", "missing", "throws"}]
         /\ idleAsked' \in BOOLEAN
<1>1. CASE draining /\ kickDrain(q)
  BY <1>1 DEF TypeOK, kickDrain, round
<1>2. CASE StartRound(q)
  BY <1>2 DEF TypeOK, StartRound
<1>3. CASE Rest(q) /\ NoRound
  BY <1>3 DEF TypeOK, Rest, NoRound
<1> QED
  BY <1>1, <1>2, <1>3 DEF kickDrain, DrainOn

(* Outside a round the bundles of q are exactly those held afterwards, and *)
(* the round's variables have the shape of a fresh round or of none.       *)
LEMMA DrainHolds ==
  ASSUME NEW q \in SUBSET Bundle, VerifierAssumption,
         DrainOn(q), inFlight' = q
  PROVE  Held' /\ RoundShape' /\ at' = NoBundle /\ pc' # "items"
<1>1. CASE StartRound(q)
  BY <1>1 DEF StartRound, Held, RoundShape, VerifierAssumption
<1>2. CASE Rest(q) /\ NoRound
  BY <1>2 DEF Rest, NoRound, Held, RoundShape, VerifierAssumption
<1> QED
  BY <1>1, <1>2 DEF DrainOn

(* After the drain decided, work waits only for a retry or for a resume.   *)
LEMMA DrainSchedules ==
  ASSUME NEW q, DrainOn(q), retryTimer' \in BOOLEAN, stopped' \in BOOLEAN,
         ~ (retryTimer' /\ stopped')
  PROVE  WorkIsScheduled'
BY DEF DrainOn, mayDrain, StartRound, Rest, NoRound, WorkIsScheduled, draining

(* Outside a round kickDrain decides as the end of a round does.           *)
LEMMA KickIdle ==
  ASSUME NEW q, kickDrain(q), pc = "idle"
  PROVE  DrainOn(q)
BY DEF kickDrain, DrainOn, draining

----------------------------------------------------------------------------
(* The steps that hand work to the drain.                                  *)

(* Taking bundles keeps the invariant: new ones are in no other place.     *)
LEMMA EnqueueInvariant ==
  ASSUME IInv, VerifierAssumption, NEW entries \in SUBSET Bundle, enqueue(entries)
  PROVE  IInv'
<1> DEFINE new == entries \ inFlight
<1> DEFINE q == queue \cup new
<1>1. q \in SUBSET Bundle /\ kickDrain(q) /\ inFlight' = inFlight \cup new
  BY DEF IInv, TypeOK, enqueue
<1>2. TypeOK'
  <2>1. /\ gate' \in [Bundle -> GateAnswer \cup {"none"}]
        /\ gateNotified' \in SUBSET Bundle
        /\ resolvedNames' \in [Bundle -> SUBSET Name]
        /\ age' \in [Bundle -> 0..GateGrace]
        /\ outcome' \in [Bundle -> {"none", "verified", "evicted"}]
    BY DEF IInv, TypeOK, enqueue, VerifierAssumption
  <2>2. QED
    BY <1>1, <2>1, DrainTypes DEF IInv, TypeOK, enqueue
<1>3. CASE draining
  <2>1. queue' = q /\ UNCHANGED <<pc, batch, at, requeue, notYet, resolutions, idleAsked>>
    BY <1>1, <1>3 DEF kickDrain, round
  <2>2. Held'
    BY <1>1, <2>1 DEF IInv, Held
  <2>3. RoundShape' /\ WorkIsScheduled'
    BY <1>3, <2>1 DEF IInv, RoundShape, WorkIsScheduled, draining, enqueue
  <2>4. GateReported'
    BY <1>1, <2>1 DEF IInv, GateReported, enqueue
  <2>5. FailuresCounted'
    <3>1. \A b \in batch : b \in Bundle /\ b \notin new
      BY DEF IInv, Held, TypeOK
    <3>2. \A b \in batch : gate'[b] = gate[b]
      BY <3>1 DEF enqueue
    <3>3. QED
      BY <2>1, <3>2 DEF IInv, FailuresCounted, FailureSeen, enqueue
  <2>6. QED
    BY <1>2, <2>2, <2>3, <2>4, <2>5 DEF IInv
<1>4. CASE pc = "idle"
  <2>1. DrainOn(q) /\ inFlight' = q
    BY <1>1, <1>4, KickIdle DEF IInv, Held, RoundShape, VerifierAssumption
  <2>2. Held' /\ RoundShape' /\ at' = NoBundle /\ pc' # "items"
    BY <1>1, <2>1, DrainHolds
  <2>3. WorkIsScheduled'
    BY <2>1, DrainSchedules DEF IInv, TypeOK, WorkIsScheduled, enqueue
  <2>4. GateReported'
    BY <1>1, <2>2 DEF IInv, GateReported, enqueue
  <2>5. QED
    BY <1>2, <2>2, <2>3, <2>4 DEF IInv, FailuresCounted
<1>5. QED
  BY <1>3, <1>4 DEF draining

(* Resuming, and the retry timer, kick the drain with the queue as it is.  *)
LEMMA KickInvariant ==
  ASSUME IInv, VerifierAssumption, resume \/ RetryTimerFires
  PROVE  IInv'
<1>1. /\ queue \in SUBSET Bundle /\ kickDrain(queue)
      /\ UNCHANGED <<inFlight, gate, gateNotified, resolvedNames, age, failedRounds,
                     outages, outcome>>
      /\ retryTimer' \in BOOLEAN /\ stopped' \in BOOLEAN
  BY DEF IInv, TypeOK, resume, RetryTimerFires, item
<1>2. TypeOK'
  BY <1>1, DrainTypes DEF IInv, TypeOK
<1>3. CASE draining
  <2>1. UNCHANGED <<queue, pc, batch, at, requeue, notYet, resolutions, idleAsked>>
    BY <1>1, <1>3 DEF kickDrain, round
  <2>2. ~ retryTimer'
    BY <1>3 DEF IInv, WorkIsScheduled, resume, RetryTimerFires
  <2>3. WorkIsScheduled'
    BY <1>3, <2>1, <2>2 DEF WorkIsScheduled, draining
  <2>4. Held' /\ RoundShape' /\ GateReported' /\ FailuresCounted'
    BY <1>1, <2>1
    DEF IInv, Held, RoundShape, GateReported, FailuresCounted, FailureSeen
  <2>5. QED
    BY <1>2, <2>3, <2>4 DEF IInv
<1>4. CASE pc = "idle"
  <2>1. DrainOn(queue) /\ inFlight' = queue
    BY <1>1, <1>4, KickIdle DEF IInv, Held, RoundShape, VerifierAssumption
  <2>2. Held' /\ RoundShape' /\ at' = NoBundle /\ pc' # "items"
    BY <1>1, <2>1, DrainHolds
  <2>3. ~ (retryTimer' /\ stopped')
    BY DEF resume, RetryTimerFires
  <2>4. WorkIsScheduled'
    BY <1>1, <2>1, <2>3, DrainSchedules
  <2>5. GateReported'
    BY <1>1, <2>2 DEF IInv, GateReported
  <2>6. QED
    BY <1>2, <2>2, <2>4, <2>5 DEF IInv, FailuresCounted
<1>5. QED
  BY <1>3, <1>4 DEF draining

(* A finished round puts its requeued items back and settles none.         *)
LEMMA RoundEndInvariant ==
  ASSUME IInv, VerifierAssumption, RoundEnd
  PROVE  IInv'
<1> DEFINE q == queue \cup requeue \cup notYet
<1>1. /\ q \in SUBSET Bundle /\ DrainOn(q)
      /\ UNCHANGED <<inFlight, gate, gateNotified, resolvedNames, age, stopped, outages,
                     outcome>>
      /\ retryTimer' \in BOOLEAN
  BY DEF IInv, TypeOK, RoundEnd, item
<1>2. failedRounds' \in 0..outages
  <2>1. failedRounds \in 0..outages /\ outages \in Nat
    BY DEF IInv, TypeOK, VerifierAssumption
  <2>2. requeue # {} => failedRounds < outages
    BY DEF IInv, FailuresCounted, FailureSeen, RoundEnd, RoundOver
  <2>3. failedRounds' = IF requeue # {} THEN failedRounds + 1 ELSE 0
    BY DEF RoundEnd
  <2>4. QED
    BY <2>1, <2>2, <2>3
<1>3. TypeOK'
  BY <1>1, <1>2, DrainTypes DEF IInv, TypeOK
<1>4. inFlight' = q
  BY <1>1 DEF IInv, Held, RoundEnd, RoundOver, VerifierAssumption
<1>5. Held' /\ RoundShape' /\ at' = NoBundle /\ pc' # "items"
  BY <1>1, <1>4, DrainHolds
<1>6. WorkIsScheduled'
  <2>1. stopped' = stopped /\ stopped \in BOOLEAN
    BY <1>1 DEF IInv, TypeOK
  <2>2. retryTimer' = (requeue \cup notYet # {} /\ ~ stopped)
    BY DEF RoundEnd
  <2>3. ~ (retryTimer' /\ stopped')
    BY <2>1, <2>2, Zenon
  <2>4. QED
    BY <1>1, <2>1, <2>3, DrainSchedules
<1>7. GateReported'
  BY <1>1, <1>5 DEF IInv, GateReported
<1>8. QED
  BY <1>3, <1>5, <1>6, <1>7 DEF IInv, FailuresCounted

----------------------------------------------------------------------------
(* The other steps.                                                        *)

(* Asking for idle, stopping, and time leave the round alone.              *)
LEMMA InterfaceInvariant ==
  ASSUME IInv, VerifierAssumption, idle \/ stop \/ Tick
  PROVE  IInv'
<1>1. UNCHANGED <<queue, inFlight, gate, gateNotified, resolvedNames, pc, batch, at,
                  requeue, notYet, resolutions, failedRounds, outages, outcome>>
  BY DEF idle, stop, Tick, item, round
<1>2. age' \in [Bundle -> 0..GateGrace]
  BY DEF IInv, TypeOK, idle, stop, Tick, VerifierAssumption
<1>3. idleAsked' \in BOOLEAN
  BY DEF IInv, TypeOK, idle, stop, Tick
<1>4. /\ retryTimer' \in BOOLEAN /\ stopped' \in BOOLEAN
      /\ WorkIsScheduled'
  <2>1. CASE stop
    BY <2>1 DEF stop, WorkIsScheduled
  <2>2. CASE idle \/ Tick
    <3>1. UNCHANGED <<retryTimer, stopped>>
      BY <2>2 DEF idle, Tick
    <3>2. QED
      BY <1>1, <3>1 DEF IInv, TypeOK, WorkIsScheduled, draining
  <2>3. QED
    BY <2>1, <2>2
<1>5. TypeOK'
  BY <1>1, <1>2, <1>3, <1>4 DEF IInv, TypeOK
<1>6. Held' /\ RoundShape' /\ GateReported' /\ FailuresCounted'
  BY <1>1
  DEF IInv, Held, RoundShape, GateReported, FailuresCounted, FailureSeen
<1>7. QED
  BY <1>4, <1>5, <1>6 DEF IInv

(* A gate read answers for the whole batch or throws for it: it is the     *)
(* outage that counts the round as failed.                                 *)
LEMMA GateStageInvariant ==
  ASSUME IInv, VerifierAssumption, gateStage \/ GateStageThrows
  PROVE  IInv'
<1>1. /\ pc = "gate" /\ pc' = "items"
      /\ UNCHANGED <<queue, inFlight, gateNotified, resolvedNames, age, batch, at,
                     requeue, notYet, resolutions, retryTimer, stopped, failedRounds, idleAsked,
                     outcome>>
  BY DEF gateStage, GateStageThrows, item, interface
<1>2. gate' \in [Bundle -> GateAnswer \cup {"none"}] /\ outages' \in 0..MaxOutages
      /\ outages <= outages'
  BY DEF IInv, TypeOK, gateStage, GateStageThrows, Outage, item, VerifierAssumption
<1>3. TypeOK'
  BY <1>1, <1>2 DEF IInv, TypeOK, VerifierAssumption
<1>4. FailuresCounted'
  <2>1. CASE gateStage
    <3>1. \A b \in batch : gate'[b] # "none"
      BY <2>1 DEF IInv, TypeOK, gateStage, GateAnswer
    <3>2. ~ FailureSeen'
      BY <1>1, <3>1 DEF IInv, RoundShape, FailureSeen
    <3>3. QED
      BY <3>2 DEF FailuresCounted
  <2>2. CASE GateStageThrows
    BY <1>1, <2>2 DEF IInv, TypeOK, GateStageThrows, Outage, FailuresCounted,
                      VerifierAssumption
  <2>3. QED
    BY <2>1, <2>2
<1>5. Held' /\ RoundShape' /\ GateReported'
  BY <1>1 DEF IInv, Held, RoundShape, GateReported
<1>6. WorkIsScheduled'
  BY <1>1 DEF IInv, WorkIsScheduled, draining
<1>7. QED
  BY <1>3, <1>4, <1>5, <1>6 DEF IInv

(* An item leaves the batch for one place: requeued, re-examined later, at *)
(* hand, or settled.                                                       *)
LEMMA ItemInvariant ==
  ASSUME IInv, VerifierAssumption, NEW b \in Bundle,
         ItemUngated(b) \/ GateEvicts(b) \/ NotYet(b) \/ GatePasses(b)
  PROVE  IInv'
<1>1. /\ pc = "items" /\ at = NoBundle /\ b \in batch /\ batch' = batch \ {b}
      /\ UNCHANGED <<queue, resolvedNames, age, pc, resolutions, retryTimer, stopped,
                     failedRounds, idleAsked, outages>>
  BY DEF ItemUngated, GateEvicts, NotYet, GatePasses, TakeItem, item, interface
<1>2. TypeOK'
  BY <1>1 DEF IInv, TypeOK, ItemUngated, GateEvicts, NotYet, GatePasses, settle, item
<1>3. Held'
  <2>1. CASE ItemUngated(b)
    BY <1>1, <2>1 DEF IInv, Held, ItemUngated, VerifierAssumption
  <2>2. CASE GateEvicts(b)
    BY <1>1, <2>2 DEF IInv, Held, GateEvicts, settle, VerifierAssumption
  <2>3. CASE NotYet(b)
    BY <1>1, <2>3 DEF IInv, Held, NotYet, VerifierAssumption
  <2>4. CASE GatePasses(b)
    BY <1>1, <2>4 DEF IInv, Held, GatePasses, VerifierAssumption
  <2>5. QED
    BY <2>1, <2>2, <2>3, <2>4
<1>4. RoundShape' /\ WorkIsScheduled'
  BY <1>1 DEF IInv, RoundShape, WorkIsScheduled, draining
<1>5. GateReported'
  BY <1>1 DEF IInv, Held, GateReported, ItemUngated, GateEvicts, NotYet, GatePasses,
              settle, item, VerifierAssumption
<1>6. FailuresCounted'
  <2>1. \A c \in batch' : c \in batch /\ gate'[c] = gate[c]
    BY <1>1 DEF IInv, TypeOK, ItemUngated, GateEvicts, NotYet, GatePasses, item
  <2>2. requeue' = requeue \/ gate[b] = "none"
    BY DEF ItemUngated, GateEvicts, NotYet, GatePasses
  <2>3. QED
    BY <1>1, <2>1, <2>2 DEF IInv, FailuresCounted, FailureSeen
<1>7. QED
  BY <1>2, <1>3, <1>4, <1>5, <1>6 DEF IInv

(* The names of the item at hand resolve, evict it or send it back; with   *)
(* all of them resolved it is verified.                                    *)
LEMMA NameInvariant ==
  ASSUME IInv, VerifierAssumption,
         \/ ItemVerified
         \/ \E n \in Name : resolveName(n) \/ NameResolved(n) \/ NameEvicts(n) \/ NameThrows(n)
  PROVE  IInv'
<1>1. /\ at # NoBundle /\ at \in Bundle /\ pc = "items"
      /\ UNCHANGED <<queue, gate, age, pc, batch, notYet, retryTimer, stopped,
                     failedRounds, idleAsked>>
  BY DEF IInv, TypeOK, RoundShape, ItemVerified, resolveName, NameResolved, NameEvicts,
         NameThrows, item, round, interface
<1>2. RoundShape' /\ WorkIsScheduled'
  BY <1>1 DEF IInv, RoundShape, WorkIsScheduled, draining
<1>3. CASE ItemVerified \/ \E n \in Name : NameEvicts(n)
  <2>1. /\ inFlight' = inFlight \ {at} /\ gateNotified' = gateNotified \ {at}
        /\ at' = NoBundle
        /\ outcome' \in [Bundle -> {"none", "verified", "evicted"}]
        /\ UNCHANGED <<resolvedNames, requeue, resolutions, outages>>
    BY <1>1, <1>3 DEF IInv, TypeOK, ItemVerified, NameEvicts, settle
  <2>2. TypeOK'
    BY <1>1, <2>1 DEF IInv, TypeOK
  <2>3. Held'
    BY <1>1, <2>1 DEF IInv, TypeOK, Held, VerifierAssumption
  <2>4. GateReported' /\ FailuresCounted'
    BY <1>1, <2>1 DEF IInv, GateReported, FailuresCounted, FailureSeen
  <2>5. QED
    BY <1>2, <2>2, <2>3, <2>4 DEF IInv
<1>4. ASSUME NEW n \in Name, resolveName(n)
      PROVE  IInv'
  <2>1. UNCHANGED <<inFlight, gateNotified, resolvedNames, at, requeue, outcome>>
    BY <1>4 DEF resolveName, item
  <2>2. /\ resolutions' \in [Name -> {"none", "key", "missing", "throws"}]
        /\ outages' \in 0..MaxOutages /\ outages <= outages'
    BY <1>4 DEF IInv, TypeOK, resolveName, Outage, VerifierAssumption
  <2>3. TypeOK'
    BY <1>1, <2>1, <2>2 DEF IInv, TypeOK
  <2>4. FailuresCounted'
    <3>1. \/ /\ outages' = outages
             /\ \A m \in Name : resolutions'[m] = "throws" => resolutions[m] = "throws"
          \/ outages' = outages + 1
      BY <1>4 DEF IInv, TypeOK, resolveName, Outage, VerifierAssumption
    <3>2. failedRounds <= outages /\ failedRounds \in Nat /\ outages \in Nat
      BY DEF IInv, TypeOK
    <3>3. QED
      BY <1>1, <2>1, <3>1, <3>2 DEF IInv, FailuresCounted, FailureSeen
  <2>5. Held' /\ GateReported'
    BY <1>1, <2>1 DEF IInv, Held, GateReported
  <2>6. QED
    BY <1>2, <2>3, <2>4, <2>5 DEF IInv
<1>5. ASSUME NEW n \in Name, NameResolved(n)
      PROVE  IInv'
  <2>1. UNCHANGED <<inFlight, gateNotified, at, requeue, resolutions, outages, outcome>>
    BY <1>5 DEF NameResolved, round
  <2>2. TypeOK'
    BY <1>1, <1>5, <2>1 DEF IInv, TypeOK, NameResolved
  <2>3. Held' /\ GateReported' /\ FailuresCounted'
    BY <1>1, <2>1 DEF IInv, Held, GateReported, FailuresCounted, FailureSeen
  <2>4. QED
    BY <1>2, <2>2, <2>3 DEF IInv
<1>6. ASSUME NEW n \in Name, NameThrows(n)
      PROVE  IInv'
  <2>1. /\ requeue' = requeue \cup {at} /\ at' = NoBundle /\ resolutions[n] = "throws"
        /\ UNCHANGED <<inFlight, gateNotified, resolvedNames, resolutions, outages, outcome>>
    BY <1>6 DEF NameThrows, item
  <2>2. TypeOK'
    BY <1>1, <2>1 DEF IInv, TypeOK
  <2>3. Held'
    BY <1>1, <2>1 DEF IInv, TypeOK, Held, VerifierAssumption
  <2>4. GateReported' /\ FailuresCounted'
    BY <1>1, <2>1 DEF IInv, GateReported, FailuresCounted, FailureSeen
  <2>5. QED
    BY <1>2, <2>2, <2>3, <2>4 DEF IInv
<1>7. QED
  BY <1>3, <1>4, <1>5, <1>6

----------------------------------------------------------------------------
(* The theorems.                                                           *)

LEMMA InitInvariant ==
  ASSUME Init, VerifierAssumption
  PROVE  IInv
<1>1. TypeOK
  <2>1. 0 \in 0..GateGrace /\ 0 \in 0..MaxOutages /\ 0 \in 0..0
    BY DEF VerifierAssumption
  <2>2. age \in [Bundle -> 0..GateGrace]
    BY <2>1 DEF Init
  <2>3. /\ gate \in [Bundle -> GateAnswer \cup {"none"}]
        /\ resolvedNames \in [Bundle -> SUBSET Name]
        /\ resolutions \in [Name -> {"none", "key", "missing", "throws"}]
        /\ outcome \in [Bundle -> {"none", "verified", "evicted"}]
    BY DEF Init
  <2>4. QED
    BY <2>1, <2>2, <2>3 DEF Init, TypeOK
<1>2. Held /\ RoundShape /\ GateReported
  BY DEF Init, Held, RoundShape, GateReported, VerifierAssumption
<1>3. FailuresCounted /\ WorkIsScheduled
  BY DEF Init, FailuresCounted, WorkIsScheduled
<1>4. QED
  BY <1>1, <1>2, <1>3 DEF IInv

LEMMA StepInvariant ==
  ASSUME IInv, VerifierAssumption, [Next]_vars
  PROVE  IInv'
<1>1. ASSUME NEW entries \in SUBSET Bundle, enqueue(entries) PROVE IInv'
  BY <1>1, EnqueueInvariant
<1>2. CASE resume \/ RetryTimerFires
  BY <1>2, KickInvariant
<1>3. CASE idle \/ stop \/ Tick
  BY <1>3, InterfaceInvariant
<1>4. CASE gateStage \/ GateStageThrows
  BY <1>4, GateStageInvariant
<1>5. CASE RoundEnd
  BY <1>5, RoundEndInvariant
<1>6. ASSUME NEW b \in Bundle,
             ItemUngated(b) \/ GateEvicts(b) \/ NotYet(b) \/ GatePasses(b)
      PROVE  IInv'
  BY <1>6, ItemInvariant
<1>7. CASE \/ ItemVerified
           \/ \E n \in Name :
                resolveName(n) \/ NameResolved(n) \/ NameEvicts(n) \/ NameThrows(n)
  BY <1>7, NameInvariant
<1>8. CASE UNCHANGED vars
  BY <1>8 DEF vars, item, round, IInv, TypeOK, Held, RoundShape, GateReported,
              FailuresCounted, FailureSeen, WorkIsScheduled, draining
<1>9. QED
  BY <1>1, <1>2, <1>3, <1>4, <1>5, <1>6, <1>7, <1>8 DEF Next, RoundStep

LEMMA Invariant == Spec => []IInv
<1>1. Init => IInv
  BY InitInvariant, VerifierAssumption
<1>2. IInv /\ [Next]_vars => IInv'
  BY StepInvariant, VerifierAssumption
<1>3. QED
  BY <1>1, <1>2, PTL DEF Spec

(* The state has its types; in particular no round counts as failed        *)
(* without an infrastructure failure of its own (background.ts:365-378).   *)
THEOREM TypeCorrect == Spec => []TypeOK
<1>1. IInv => TypeOK
  BY DEF IInv
<1>2. QED
  BY <1>1, Invariant, PTL

(* No queued, batched, requeued or re-examined bundle is lost or held      *)
(* twice, whatever fails in between (background.ts:154, 278-381).          *)
THEOREM NoneLostOrDoubled == Spec => []InFlightIsHeld
<1>1. IInv => InFlightIsHeld
  <2> SUFFICES ASSUME IInv PROVE InFlightIsHeld
    OBVIOUS
  <2>1. /\ DOMAIN Places = 1..5
        /\ Places[1] = queue /\ Places[2] = batch /\ Places[3] = requeue
        /\ Places[4] = notYet /\ Places[5] = {at} \cap Bundle
    BY DEF Places
  <2> HIDE DEF Places
  <2>2. UNION {Places[i] : i \in DOMAIN Places}
          = Places[1] \cup Places[2] \cup Places[3] \cup Places[4] \cup Places[5]
    BY <2>1
  <2>3. inFlight = UNION {Places[i] : i \in DOMAIN Places}
    BY <2>1, <2>2 DEF IInv, Held
  <2>4. ASSUME NEW i \in 1..5, NEW j \in 1..5, i # j
        PROVE  Places[i] \cap Places[j] = {}
    BY <2>1, <2>4 DEF IInv, Held
  <2>5. QED
    BY <2>1, <2>3, <2>4 DEF InFlightIsHeld
<1>2. QED
  BY <1>1, Invariant, PTL

(* Queued work is never left without a round, a retry or a resume to come  *)
(* (background.ts:383-408, 435-444).                                       *)
THEOREM WorkNeverStranded == Spec => []WorkIsScheduled
<1>1. IInv => WorkIsScheduled
  BY DEF IInv
<1>2. QED
  BY <1>1, Invariant, PTL

(* idle() resolves on an empty verifier only (background.ts:109, 167-172). *)
THEOREM IdleResolvesWhenEmpty == Spec => IdleIsHonest
<1>1. ASSUME IInv, [Next]_vars, idleAsked, ~ idleAsked'
      PROVE  inFlight' = {}
  <2>1. CASE \E entries \in SUBSET Bundle : enqueue(entries)
    <3>1. PICK entries \in SUBSET Bundle : enqueue(entries)
      BY <2>1
    <3>2. PICK q : kickDrain(q) /\ q = queue \cup (entries \ inFlight)
      BY <3>1 DEF enqueue
    <3>3. ~ draining /\ q = {}
      BY <1>1, <3>2 DEF kickDrain, StartRound, Rest
    <3>4. QED
      BY <1>1, <3>1, <3>2, <3>3, VerifierAssumption
      DEF IInv, Held, RoundShape, draining, enqueue
  <2>2. CASE resume \/ RetryTimerFires
    <3>1. kickDrain(queue) /\ inFlight' = inFlight
      BY <2>2 DEF resume, RetryTimerFires
    <3>2. ~ draining /\ queue = {}
      BY <1>1, <3>1 DEF kickDrain, StartRound, Rest
    <3>3. QED
      BY <1>1, <3>1, <3>2, VerifierAssumption DEF IInv, Held, RoundShape, draining
  <2>3. CASE idle \/ stop
    BY <1>1, <2>3, VerifierAssumption DEF IInv, Held, RoundShape, draining, idle, stop
  <2>4. CASE RoundEnd
    <3>1. inFlight' = inFlight /\ DrainOn(queue \cup requeue \cup notYet)
      BY <2>4 DEF RoundEnd
    <3>2. queue \cup requeue \cup notYet = {}
      BY <1>1, <3>1 DEF DrainOn, StartRound, Rest
    <3>3. QED
      BY <1>1, <2>4, <3>1, <3>2, VerifierAssumption DEF IInv, Held, RoundEnd, RoundOver
  <2>5. CASE idleAsked' = idleAsked
    BY <1>1, <2>5
  <2>6. QED
    BY <1>1, <2>1, <2>2, <2>3, <2>4, <2>5
    DEF Next, RoundStep, Tick, gateStage, GateStageThrows, ItemUngated, GateEvicts, NotYet,
        GatePasses, resolveName, NameResolved, NameEvicts, NameThrows, ItemVerified,
        interface, vars
<1>2. IInv /\ [Next]_vars => [idleAsked /\ ~ idleAsked' => inFlight' = {}]_vars
  BY <1>1
<1>3. QED
  BY <1>2, Invariant, PTL DEF Spec, IdleIsHonest

(* Rounds, retries, pauses and grace windows implement the promise of one  *)
(* verdict per bundle handed over, its gate reported at most once and      *)
(* before it is verified (background.ts:81-86, 294-364).                   *)
THEOREM Refinement == Spec => ImplementsDeferredChecks
<1>1. Init => Checks!Init
  BY DEF Init, Checks!Init
<1>2. ASSUME IInv, [Next]_vars
      PROVE  [Checks!Next]_Checks!vars
  <2>1. ASSUME NEW entries \in SUBSET Bundle, enqueue(entries)
        PROVE  Checks!Enqueue(entries)
    <3>1. gateNotified' = gateNotified
      BY <1>2, <2>1 DEF IInv, GateReported, enqueue
    <3>2. QED
      BY <2>1, <3>1 DEF enqueue, Checks!Enqueue
  <2>2. ASSUME NEW b \in Bundle, GatePasses(b)
        PROVE  Checks!GateVerified(b) \/ UNCHANGED Checks!vars
    <3>1. b \in inFlight
      BY <1>2, <2>2 DEF IInv, Held, GatePasses, TakeItem
    <3>2. gateNotified' = gateNotified \cup {b} /\ UNCHANGED <<inFlight, outcome>>
      BY <2>2 DEF GatePasses
    <3>3. QED
      BY <3>1, <3>2 DEF Checks!GateVerified, Checks!vars
  <2>3. ASSUME NEW b \in Bundle, GateEvicts(b)
        PROVE  Checks!Settled(b, "evicted")
    BY <1>2, <2>3 DEF IInv, Held, GateEvicts, TakeItem, settle, Checks!Settled
  <2>4. ASSUME NEW n \in Name, NameEvicts(n)
        PROVE  at \in Bundle /\ Checks!Settled(at, "evicted")
    BY <1>2, <2>4 DEF IInv, TypeOK, Held, NameEvicts, settle, Checks!Settled
  <2>5. ASSUME ItemVerified
        PROVE  at \in Bundle /\ Checks!Settled(at, "verified")
    BY <1>2, <2>5
    DEF IInv, TypeOK, Held, GateReported, ItemVerified, settle, Checks!Settled
  <2>6. CASE UNCHANGED <<inFlight, gateNotified, outcome>>
    BY <2>6 DEF Checks!vars
  <2>7. QED
    BY <1>2, <2>1, <2>2, <2>3, <2>4, <2>5, <2>6
    DEF Next, RoundStep, vars, item, round, idle, stop, resume, RetryTimerFires, Tick,
        gateStage, GateStageThrows, ItemUngated, NotYet, resolveName, NameResolved,
        NameThrows, RoundEnd, Checks!Next
<1>3. QED
  BY <1>1, <1>2, Invariant, PTL DEF Spec, ImplementsDeferredChecks, Checks!Spec

----------------------------------------------------------------------------
(* Gate: tables of nodes.                                                  *)

(* A nonempty set of numbers has a least one.                              *)
LEMMA LeastOf ==
  ASSUME NEW T \in SUBSET Nat, T # {}
  PROVE  \E n \in T : \A m \in T : n <= m
<1>1. IsWellFoundedOn(OpToRel(<, Nat), Nat)
  BY NatLessThanWellFounded
<1>2. PICK n \in T : \A m \in T : ~ (<<m, n>> \in OpToRel(<, Nat))
  BY <1>1, WFMin
<1>3. ASSUME NEW m \in T, m < n
      PROVE  <<m, n>> \in OpToRel(<, Nat)
  BY <1>3 DEF OpToRel
<1>4. \A m \in T : ~ (m < n)
  BY <1>2, <1>3
<1>5. QED
  BY <1>4

\* a value for each of N nodes from those of the nodes before it
IsStep(step, V, N) ==
  /\ step \in [1..N -> [[1..N -> V] -> V]]
  /\ \A n \in 1..N : \A f, g \in [1..N -> V] :
       (\A m \in 1..n - 1 : f[m] = g[m]) => step[n][f] = step[n][g]

IsTable(f, step, V, N) == f \in [1..N -> V] /\ \A n \in 1..N : f[n] = step[n][f]

(* The table of such values exists: one that is right below k can be made  *)
(* right at k.                                                             *)
LEMMA TableExists ==
  ASSUME NEW V, NEW v \in V, NEW N \in Nat, NEW step, IsStep(step, V, N)
  PROVE  \E f : IsTable(f, step, V, N)
<1> USE DEF IsStep, IsTable
<1> DEFINE Right(k) == \E f \in [1..N -> V] : \A n \in 1..k : f[n] = step[n][f]
           T == {k \in 0..N : ~ Right(k)}
<1>1. SUFFICES ASSUME T # {} PROVE FALSE
  <2>1. N \in 0..N
    OBVIOUS
  <2>2. ASSUME T = {} PROVE Right(N)
    <3> HIDE DEF Right
    <3> QED BY <2>1, <2>2
  <2>3. QED
    BY <2>2
<1>2. PICK k \in T : \A m \in T : k <= m
  <2>1. T \in SUBSET Nat
    OBVIOUS
  <2>2. QED
    <3> HIDE DEF T
    <3> QED BY <1>1, <2>1, LeastOf
<1>3. k \in 0..N /\ ~ Right(k)
  <2> HIDE DEF Right
  <2> QED BY <1>2
<1>4. k # 0
  <2>1. Right(0)
    <3>1. [m \in 1..N |-> v] \in [1..N -> V]
      OBVIOUS
    <3>2. \A n \in 1..0 : FALSE
      OBVIOUS
    <3>3. QED
      BY <3>1, <3>2
  <2>2. QED
    <3> HIDE DEF Right
    <3> QED BY <1>3, <2>1
<1>5. PICK f \in [1..N -> V] : \A n \in 1..k - 1 : f[n] = step[n][f]
  <2>1. k - 1 \in 0..N /\ ~ (k <= k - 1)
    BY <1>3, <1>4
  <2>2. Right(k - 1)
    <3> HIDE DEF Right
    <3> QED BY <1>2, <2>1
  <2>3. QED
    BY <2>2
<1> DEFINE g == [f EXCEPT ![k] = step[k][f]]
<1>6. k \in 1..N
  BY <1>3, <1>4
<1>7. g \in [1..N -> V]
  BY <1>6
<1>8. ASSUME NEW n \in 1..k PROVE g[n] = step[n][g]
  <2>1. n \in 1..N /\ \A m \in 1..n - 1 : f[m] = g[m]
    BY <1>6
  <2>2. step[n][f] = step[n][g]
    <3> HIDE DEF g
    <3> QED BY <1>7, <2>1
  <2>3. CASE n = k
    BY <1>6, <2>2, <2>3
  <2>4. CASE n # k
    <3>1. n \in 1..k - 1 /\ g[n] = f[n]
      BY <1>6, <2>4
    <3>2. QED
      <4> HIDE DEF g
      <4> QED BY <1>5, <2>2, <3>1
  <2>5. QED
    BY <2>3, <2>4
<1>9. Right(k)
  <2> HIDE DEF g
  <2> QED BY <1>7, <1>8
<1>10. QED
  <2> HIDE DEF Right
  <2> QED BY <1>3, <1>9

\* what the gates of a contest are assumed to be
IsTree(tree) ==
  /\ tree \in Seq(Node) /\ tree # <<>>
  /\ \A n \in DOMAIN tree : tree[n].kind # "leaf" =>
       /\ tree[n].children # <<>>
       /\ \A i \in DOMAIN tree[n].children : tree[n].children[i] \in 1..n - 1

(* What holds of the leaves and of a branch whose children have it holds   *)
(* of every node.                                                          *)
LEMMA NodeInduction ==
  ASSUME NEW tree, IsTree(tree), NEW S,
         \A n \in DOMAIN tree : tree[n].kind = "leaf" => n \in S,
         \A n \in DOMAIN tree :
            /\ tree[n].kind # "leaf"
            /\ \A i \in DOMAIN tree[n].children : tree[n].children[i] \in S
            => n \in S
  PROVE  DOMAIN tree \subseteq S
<1> DEFINE T == DOMAIN tree \ S
<1>1. DOMAIN tree = 1..Len(tree) /\ Len(tree) \in Nat
  BY DEF IsTree
<1>2. SUFFICES ASSUME T # {} PROVE FALSE
  OBVIOUS
<1>3. PICK n \in T : \A m \in T : n <= m
  <2>1. T \in SUBSET Nat
    BY <1>1
  <2>2. QED
    <3> HIDE DEF T
    <3> QED BY <1>2, <2>1, LeastOf
<1>4. \A m \in 1..n - 1 : m \in S
  BY <1>1, <1>3
<1>5. QED
  BY <1>3, <1>4 DEF IsTree

(* The shape of a node.                                                    *)
LEMMA NodeShape ==
  ASSUME NEW tree, IsTree(tree), NEW n \in DOMAIN tree
  PROVE  /\ Len(tree) \in DOMAIN tree /\ DOMAIN tree = 1..Len(tree) /\ Len(tree) \in Nat
         /\ tree[n].kind \in {"leaf", "all", "any"}
         /\ tree[n].kind = "leaf" => tree[n].question \in Question
         /\ tree[n].kind # "leaf" =>
              /\ DOMAIN tree[n].children = 1..Len(tree[n].children)
              /\ Len(tree[n].children) \in Nat \ {0}
              /\ \A i \in DOMAIN tree[n].children : tree[n].children[i] \in 1..n - 1
              /\ \A i \in DOMAIN tree[n].children : tree[n].children[i] \in DOMAIN tree
<1>1. DOMAIN tree = 1..Len(tree) /\ Len(tree) \in Nat /\ tree[n] \in Node
  BY DEF IsTree
<1>2. tree[n].kind \in {"leaf", "all", "any"}
  BY <1>1 DEF Node
<1>3. tree[n].kind = "leaf" => tree[n].question \in Question
  BY <1>1 DEF Node
<1>4. Len(tree) # 0
  BY DEF IsTree
<1>5. ASSUME tree[n].kind # "leaf"
      PROVE  /\ tree[n].children \in Seq(Nat) /\ tree[n].children # <<>>
             /\ \A i \in DOMAIN tree[n].children : tree[n].children[i] \in 1..n - 1
  BY <1>1, <1>5 DEF IsTree, Node
<1>6. tree[n].kind # "leaf" => Len(tree[n].children) # 0
  BY <1>5
<1>7. QED
  BY <1>1, <1>2, <1>3, <1>4, <1>5, <1>6

----------------------------------------------------------------------------
(* What a gate is evaluated to.                                            *)

Verdict == {"yes", "no", "unknown"}

Result ==
  [satisfied : Verdict, score : 0..MaxScore, blame : SUBSET Nat, penalize : BOOLEAN,
   leaves : SUBSET Nat, unevaluated : SUBSET Nat, next : SUBSET Question]

\* what a question may have come to
Known == Answer \cup {Unread, Threw}

(* The score of a branch is that of one of its children.                   *)
LEMMA ScoreIsAChilds ==
  ASSUME NEW kind, NEW scores \in SUBSET (0..MaxScore)
  PROVE  /\ scores = {} => gateScore(kind, scores) = 0
         /\ scores # {} => gateScore(kind, scores) \in scores
<1> USE GateAssumption DEF GateAssumption
<1>1. scores = {} => gateScore(kind, scores) = 0
  BY DEF gateScore
<1>2. SUFFICES ASSUME scores # {} PROVE gateScore(kind, scores) \in scores
  BY <1>1
<1>3. Min(scores) \in scores
  <2>1. \E x \in scores : \A y \in scores : x <= y
    <3>1. scores \in SUBSET Nat
      OBVIOUS
    <3>2. QED
      BY <1>2, <3>1, LeastOf
  <2>2. QED
    BY <2>1 DEF Min
<1>4. Max(scores) \in scores
  <2> DEFINE under == {MaxScore - s : s \in scores}
  <2>1. under \in SUBSET Nat /\ under # {}
    <3>1. \A s \in scores : MaxScore - s \in Nat
      OBVIOUS
    <3>2. QED
      BY <1>2, <3>1
  <2>2. PICK m \in under : \A k \in under : m <= k
    <3> HIDE DEF under
    <3> QED BY <2>1, LeastOf
  <2>3. PICK x \in scores : m = MaxScore - x
    OBVIOUS
  <2>4. \A y \in scores : MaxScore - x <= MaxScore - y
    BY <2>2, <2>3
  <2>5. \A y \in scores : x >= y
    BY <2>4
  <2>6. QED
    BY <2>5 DEF Max
<1>5. QED
  BY <1>2, <1>3, <1>4 DEF gateScore

(* A rule's answer, or the want of one, has these fields.                  *)
LEMMA AnswerFields ==
  ASSUME NEW answer \in Known
  PROVE  /\ answer.score \in 0..MaxScore
         /\ answer.read = "none" <=> answer = Unread
         /\ answer.read = "failed" <=> answer = Threw
         /\ answer.read = "answered" <=> answer \in Answer
         /\ answer \in Answer \/ answer = Unread \/ answer = Threw
<1>1. MaxScore \in Nat
  BY GateAssumption DEF GateAssumption
<1>2. Unread.read = "none" /\ Threw.read = "failed" /\ Unread.score = 0 /\ Threw.score = 0
  BY DEF Unread, Threw
<1>3. ASSUME answer \in Answer PROVE answer.read = "answered" /\ answer.score \in 0..MaxScore
  <2>1. \/ \E n \in 0..MaxScore : answer = Pass(n)
        \/ answer = Refuse(TRUE) \/ answer = Refuse(FALSE)
    BY <1>3 DEF Answer
  <2>2. CASE answer = Refuse(TRUE) \/ answer = Refuse(FALSE)
    BY <1>1, <2>2 DEF Refuse
  <2>3. CASE \E n \in 0..MaxScore : answer = Pass(n)
    <3>1. PICK n \in 0..MaxScore : answer = Pass(n)
      BY <2>3
    <3>2. QED
      BY <1>1, <3>1 DEF Pass
  <2>4. QED
    BY <2>1, <2>2, <2>3
<1>4. answer \in Answer \/ answer = Unread \/ answer = Threw
  BY DEF Known
<1>5. QED
  BY <1>1, <1>2, <1>3, <1>4

LEMMA LeafTypes ==
  ASSUME NEW n \in Nat, NEW q \in Question, NEW answer \in Known
  PROVE  LeafResult(n, q, answer) \in Result
<1> DEFINE verdict == IF ~Evaluated(answer) THEN "unknown" ELSE IF Admits(answer) THEN "yes" ELSE "no"
<1>1. /\ verdict \in Verdict
      /\ (IF verdict = "yes" THEN answer.score ELSE 0) \in 0..MaxScore
      /\ Blamable(answer) \in BOOLEAN
  <2>1. 0 \in 0..MaxScore
    BY GateAssumption DEF GateAssumption
  <2>2. answer.score \in 0..MaxScore
    BY AnswerFields
  <2>3. verdict \in Verdict
    BY DEF Verdict
  <2>4. QED
    BY <2>1, <2>2, <2>3 DEF Blamable
<1> HIDE DEF verdict
<1>2. [satisfied   |-> verdict,
       score       |-> IF verdict = "yes" THEN answer.score ELSE 0,
       blame       |-> IF verdict = "no" THEN {n} ELSE {},
       penalize    |-> Blamable(answer),
       leaves      |-> {n},
       unevaluated |-> IF verdict = "unknown" THEN {n} ELSE {},
       next        |-> IF answer = Unread THEN {q} ELSE {}] \in Result
  BY <1>1 DEF Result
<1>3. QED
  BY <1>2 DEF LeafResult, verdict

LEMMA BranchTypes ==
  ASSUME NEW kind \in {"all", "any"}, NEW k \in Nat, NEW results \in [1..k -> Result],
         NEW lazy \in BOOLEAN
  PROVE  BranchResult(kind, results, lazy) \in Result
<1> DEFINE stops    == {i \in DOMAIN results : Stops(kind, results[i])}
           reached  == IF lazy THEN {i \in DOMAIN results : \A j \in stops : i <= j} ELSE DOMAIN results
           verdict  == IF lazy /\ stops # {} THEN DecidesAt(kind) ELSE foldSatisfied(kind, results)
           passing  == {i \in reached : results[i].satisfied = "yes"}
           failing  == {i \in reached : results[i].satisfied = "no"}
           open     == {i \in DOMAIN results : results[i].next # {}}
           working  == {i \in open : \A j \in open \cup stops : i <= j}
<1>1. verdict \in Verdict
  BY DEF Verdict, DecidesAt, foldSatisfied, Other
<1>2. reached \subseteq 1..k /\ passing \subseteq 1..k /\ failing \subseteq 1..k /\ working \subseteq 1..k
  OBVIOUS
<1>3. \A i \in 1..k : results[i] \in Result
  OBVIOUS
<1> HIDE DEF reached, verdict, passing, failing, working
<1>4. gateScore(kind, {results[i].score : i \in passing}) \in 0..MaxScore
  <2>1. {results[i].score : i \in passing} \in SUBSET (0..MaxScore)
    BY <1>2, <1>3 DEF Result
  <2>2. QED
    BY <2>1, ScoreIsAChilds, GateAssumption DEF GateAssumption
<1>5. (IF verdict = "no" THEN UNION {results[i].blame : i \in failing} ELSE {}) \in SUBSET Nat
  BY <1>2, <1>3 DEF Result
<1>6. UNION {results[i].leaves : i \in DOMAIN results} \in SUBSET Nat
  BY <1>2, <1>3 DEF Result
<1>7. UNION {IF i \in reached THEN results[i].unevaluated ELSE results[i].leaves : i \in DOMAIN results}
        \in SUBSET Nat
  BY <1>2, <1>3 DEF Result
<1>8. UNION {results[i].next : i \in working} \in SUBSET Question
  BY <1>2, <1>3 DEF Result
<1>9. (verdict = "no" /\ gatePenalize(kind, failing, {i \in failing : results[i].penalize})) \in BOOLEAN
  BY DEF gatePenalize
<1>10. QED
  BY <1>1, <1>4, <1>5, <1>6, <1>7, <1>8, <1>9
  DEF BranchResult, Result, gateBlame, verdict, reached, passing, failing, working

\* the answers that a tree can be evaluated from
Answers(tree) == UNION {[S -> Known] : S \in {T \in SUBSET Question : gateLeaves(tree) \subseteq T}}

\* the results of a node's children
Children(tree, n, result) == [i \in DOMAIN tree[n].children |-> result[tree[n].children[i]]]

\* a node's result from those of its children
ResultAt(tree, known, lazy, n, result) ==
  IF tree[n].kind = "leaf" THEN LeafResult(n, tree[n].question, known[tree[n].question])
  ELSE BranchResult(tree[n].kind, Children(tree, n, result), lazy)

(* A node's result is of the type of results, and depends on those of the  *)
(* nodes before it only.                                                   *)
LEMMA ResultAtTypes ==
  ASSUME NEW tree, IsTree(tree), NEW known \in Answers(tree), NEW lazy \in BOOLEAN,
         NEW n \in DOMAIN tree, NEW f, \A m \in 1..n - 1 : f[m] \in Result
  PROVE  ResultAt(tree, known, lazy, n, f) \in Result
<1>1. CASE tree[n].kind = "leaf"
  <2>1. tree[n].question \in Question /\ n \in Nat
    BY <1>1, NodeShape
  <2>2. known[tree[n].question] \in Known
    BY <1>1 DEF Answers, gateLeaves, Leaves
  <2>3. QED
    BY <1>1, <2>1, <2>2, LeafTypes DEF ResultAt
<1>2. CASE tree[n].kind # "leaf"
  <2>1. tree[n].kind \in {"all", "any"}
    BY <1>2, NodeShape
  <2>2. Children(tree, n, f) \in [1..Len(tree[n].children) -> Result] /\ Len(tree[n].children) \in Nat
    BY <1>2, NodeShape DEF Children
  <2>3. QED
    BY <1>2, <2>1, <2>2, BranchTypes DEF ResultAt
<1>3. QED
  BY <1>1, <1>2

LEMMA ResultAtDepends ==
  ASSUME NEW tree, IsTree(tree), NEW known, NEW lazy, NEW n \in DOMAIN tree,
         NEW f, NEW g, \A m \in 1..n - 1 : f[m] = g[m]
  PROVE  ResultAt(tree, known, lazy, n, f) = ResultAt(tree, known, lazy, n, g)
<1>1. CASE tree[n].kind = "leaf"
  BY <1>1 DEF ResultAt
<1>2. CASE tree[n].kind # "leaf"
  <2>1. Children(tree, n, f) = Children(tree, n, g)
    BY <1>2, NodeShape DEF Children
  <2>2. QED
    BY <1>2, <2>1 DEF ResultAt
<1>3. QED
  BY <1>1, <1>2

\* R is what the nodes of the tree are evaluated to
IsRun(R, tree, known, lazy) ==
  /\ R \in [DOMAIN tree -> Result]
  /\ \A n \in DOMAIN tree : R[n] = ResultAt(tree, known, lazy, n, R)

(* Run gives every node its result from those of its children.             *)
LEMMA RunUnfolds ==
  ASSUME NEW tree, IsTree(tree), NEW known \in Answers(tree), NEW lazy \in BOOLEAN
  PROVE  IsRun(Run(tree, known, lazy), tree, known, lazy)
<1> DEFINE N == Len(tree)
           E(f) == [n \in DOMAIN tree |-> ResultAt(tree, known, lazy, n, f)]
           run == CHOOSE f : f = E(f)
<1>1. DOMAIN tree = 1..N /\ N \in Nat
  BY DEF IsTree
<1>2. Run(tree, known, lazy) = run
  BY DEF Run, ResultAt, Children
<1>3. PICK f \in [1..N -> Result] : \A n \in 1..N : f[n] = ResultAt(tree, known, lazy, n, f)
  <2> DEFINE step == [n \in 1..N |-> [h \in [1..N -> Result] |-> ResultAt(tree, known, lazy, n, h)]]
  <2>1. step \in [1..N -> [[1..N -> Result] -> Result]]
    <3>1. ASSUME NEW n \in 1..N, NEW h \in [1..N -> Result]
          PROVE  ResultAt(tree, known, lazy, n, h) \in Result
      <4>1. n \in DOMAIN tree /\ \A m \in 1..n - 1 : h[m] \in Result
        BY <1>1
      <4> HIDE DEF E, run, step
      <4>2. QED
        BY <4>1, ResultAtTypes
    <3>2. QED
      BY <3>1
  <2>2. ASSUME NEW n \in 1..N, NEW h \in [1..N -> Result], NEW g \in [1..N -> Result],
               \A m \in 1..n - 1 : h[m] = g[m]
        PROVE  step[n][h] = step[n][g]
    BY <1>1, <2>2, ResultAtDepends
  <2>3. PICK v : v \in Result
    <3>1. [satisfied |-> "yes", score |-> 0, blame |-> {}, penalize |-> TRUE, leaves |-> {},
           unevaluated |-> {}, next |-> {}] \in Result
      BY GateAssumption DEF GateAssumption, Result, Verdict
    <3>2. QED
      BY <3>1
  <2>4. IsStep(step, Result, N)
    <3> HIDE DEF step, N
    <3> QED BY <2>1, <2>2 DEF IsStep
  <2>5. PICK f : IsTable(f, step, Result, N)
    <3>1. N \in Nat
      BY <1>1
    <3> HIDE DEF step, N
    <3>2. QED
      BY <2>3, <2>4, <3>1, TableExists
  <2>6. QED
    BY <2>5 DEF IsTable
<1>4. f = E(f)
  BY <1>1, <1>3
<1>5. run = E(run)
  <2> HIDE DEF E
  <2> QED BY <1>4
<1> HIDE DEF run
<1>6. \A n \in DOMAIN tree : run[n] = ResultAt(tree, known, lazy, n, run)
  BY <1>5
<1>7. DOMAIN tree \subseteq {n \in DOMAIN tree : run[n] \in Result}
  <2> DEFINE S == {n \in DOMAIN tree : run[n] \in Result}
  <2>1. ASSUME NEW n \in DOMAIN tree, tree[n].kind = "leaf" PROVE n \in S
    <3>1. ResultAt(tree, known, lazy, n, run) = ResultAt(tree, known, lazy, n, f)
      BY <2>1 DEF ResultAt
    <3>2. QED
      BY <1>1, <1>3, <1>6, <3>1
  <2>2. ASSUME NEW n \in DOMAIN tree, tree[n].kind # "leaf",
               \A i \in DOMAIN tree[n].children : tree[n].children[i] \in S
        PROVE  n \in S
    <3>1. Children(tree, n, run) \in [1..Len(tree[n].children) -> Result] /\ Len(tree[n].children) \in Nat
      BY <2>2, NodeShape DEF Children
    <3>2. tree[n].kind \in {"all", "any"}
      BY <2>2, NodeShape
    <3>3. run[n] = BranchResult(tree[n].kind, Children(tree, n, run), lazy)
      BY <1>6, <2>2 DEF ResultAt
    <3>4. run[n] \in Result
      BY <3>1, <3>2, <3>3, BranchTypes
    <3>5. QED
      BY <3>4
  <2>3. DOMAIN tree \subseteq S
    <3> HIDE DEF S
    <3> QED BY <2>1, <2>2, NodeInduction
  <2>4. QED
    BY <2>3
<1>8. run \in [DOMAIN tree -> Result]
  BY <1>5, <1>7
<1>9. QED
  BY <1>2, <1>6, <1>8 DEF IsRun

----------------------------------------------------------------------------
(* One branch.                                                             *)

StopsOf(kind, results) == {i \in DOMAIN results : Stops(kind, results[i])}

ReachedOf(kind, results, lazy) ==
  IF lazy THEN {i \in DOMAIN results : \A j \in StopsOf(kind, results) : i <= j} ELSE DOMAIN results

VerdictOf(kind, results, lazy) ==
  IF lazy /\ StopsOf(kind, results) # {} THEN DecidesAt(kind) ELSE foldSatisfied(kind, results)

ReachedWith(kind, results, lazy, verdict) ==
  {i \in ReachedOf(kind, results, lazy) : results[i].satisfied = verdict}

\* B is what the branch is evaluated to
HasFields(B, kind, results, lazy) ==
  LET reached == ReachedOf(kind, results, lazy)
      failing == ReachedWith(kind, results, lazy, "no")
      open    == {i \in DOMAIN results : results[i].next # {}}
  IN /\ B.satisfied = VerdictOf(kind, results, lazy)
     /\ B.score = gateScore(kind, {results[i].score : i \in ReachedWith(kind, results, lazy, "yes")})
     /\ B.blame = IF B.satisfied = "no" THEN UNION {results[i].blame : i \in failing} ELSE {}
     /\ B.penalize = (/\ B.satisfied = "no"
                      /\ gatePenalize(kind, failing, {i \in failing : results[i].penalize}))
     /\ B.leaves = UNION {results[i].leaves : i \in DOMAIN results}
     /\ B.unevaluated = UNION {IF i \in reached THEN results[i].unevaluated ELSE results[i].leaves :
                                 i \in DOMAIN results}
     /\ B.next = UNION {results[i].next :
                          i \in {j \in open : \A m \in open \cup StopsOf(kind, results) : j <= m}}

LEMMA BranchFields ==
  ASSUME NEW kind, NEW results, NEW lazy
  PROVE  HasFields(BranchResult(kind, results, lazy), kind, results, lazy)
  BY DEF HasFields, BranchResult, gateBlame, StopsOf, ReachedOf, VerdictOf, ReachedWith

\* the verdict of a branch from what is known of all its k children
FoldsAll(B, kind, k, results) ==
  /\ kind = "all" =>
       /\ B.satisfied = "no" <=> \E i \in 1..k : results[i].satisfied = "no"
       /\ B.satisfied = "yes" <=> \A i \in 1..k : results[i].satisfied = "yes"
  /\ kind = "any" =>
       /\ B.satisfied = "yes" <=> \E i \in 1..k : results[i].satisfied = "yes"
       /\ B.satisfied = "no" <=> \A i \in 1..k : results[i].satisfied = "no"

\* whether its refusal is attributable
BlamesAll(B, kind, k, results) ==
  LET Blamed(i) == results[i].satisfied = "no" /\ results[i].penalize
  IN B.penalize = IF kind = "all" THEN \E i \in 1..k : Blamed(i) ELSE \A i \in 1..k : Blamed(i)

(* A branch whose children have all been evaluated, or have been as far as *)
(* they could.                                                             *)
LEMMA EagerBranch ==
  ASSUME NEW kind \in {"all", "any"}, NEW k \in Nat \ {0}, NEW results \in [1..k -> Result],
         NEW B, B = BranchResult(kind, results, FALSE)
  PROVE  FoldsAll(B, kind, k, results) /\ BlamesAll(B, kind, k, results)
<1> DEFINE failing == {i \in 1..k : results[i].satisfied = "no"}
           blamed == {i \in failing : results[i].penalize}
<1>1. DOMAIN results = 1..k /\ 1 \in 1..k
  OBVIOUS
<1>2. HasFields(B, kind, results, FALSE)
  BY BranchFields
<1>3. FoldsAll(B, kind, k, results)
  BY <1>1, <1>2 DEF HasFields, VerdictOf, FoldsAll, foldSatisfied, DecidesAt, Other
<1>4. B.penalize = (B.satisfied = "no" /\ gatePenalize(kind, failing, blamed))
  <2>1. ReachedWith(kind, results, FALSE, "no") = failing
    BY <1>1 DEF ReachedWith, ReachedOf
  <2>2. QED
    BY <1>2, <2>1 DEF HasFields
<1>5. CASE kind = "all"
  <2>1. B.satisfied = "no" <=> failing # {}
    BY <1>3, <1>5 DEF FoldsAll
  <2>2. (B.satisfied = "no" /\ gatePenalize(kind, failing, blamed)) <=> blamed # {}
    BY <1>5, <2>1 DEF gatePenalize
  <2>3. QED
    BY <1>3, <1>4, <1>5, <2>2 DEF BlamesAll
<1>6. CASE kind = "any"
  <2>1. B.satisfied = "no" <=> \A i \in 1..k : results[i].satisfied = "no"
    BY <1>3, <1>6 DEF FoldsAll
  <2>2. gatePenalize(kind, failing, blamed) <=> failing # {} /\ \A i \in failing : results[i].penalize
    <3>1. blamed = failing <=> \A i \in failing : results[i].penalize
      OBVIOUS
    <3>2. QED
      <4> HIDE DEF blamed, failing
      <4> QED BY <1>6, <3>1 DEF gatePenalize
  <2>3. (B.satisfied = "no" /\ gatePenalize(kind, failing, blamed))
           <=> \A i \in 1..k : results[i].satisfied = "no" /\ results[i].penalize
    BY <1>1, <2>1, <2>2
  <2>4. QED
    BY <1>3, <1>4, <1>6, <2>3 DEF BlamesAll
<1>7. QED
  BY <1>5, <1>6

(* The score of an admitting branch.                                       *)
LEMMA EagerScore ==
  ASSUME NEW kind \in {"all", "any"}, NEW k \in Nat \ {0}, NEW results \in [1..k -> Result],
         NEW B, B = BranchResult(kind, results, FALSE), B.satisfied = "yes",
         \A i \in 1..k : results[i].satisfied = "yes" => results[i].score > 0
  PROVE  B.score > 0
<1> DEFINE passing == ReachedWith(kind, results, FALSE, "yes")
           scores == {results[i].score : i \in passing}
<1>1. DOMAIN results = 1..k /\ 1 \in 1..k
  OBVIOUS
<1>2. passing = {i \in 1..k : results[i].satisfied = "yes"}
  BY <1>1 DEF ReachedWith, ReachedOf
<1>3. passing # {}
  <2>1. FoldsAll(B, kind, k, results)
    BY EagerBranch
  <2>2. \E i \in 1..k : results[i].satisfied = "yes"
    BY <1>1, <2>1 DEF FoldsAll
  <2>3. QED
    BY <1>2, <2>2
<1>4. \A i \in 1..k : results[i].score \in 0..MaxScore
  BY DEF Result
<1>5. scores \in SUBSET (0..MaxScore) /\ scores # {}
  BY <1>2, <1>3, <1>4
<1>6. \A s \in scores : s > 0
  BY <1>2
<1>7. gateScore(kind, scores) \in scores
  <2> HIDE DEF scores
  <2> QED BY <1>5, ScoreIsAChilds
<1>8. B.score = gateScore(kind, scores)
  <2>1. HasFields(B, kind, results, FALSE)
    BY BranchFields
  <2>2. QED
    BY <2>1 DEF HasFields
<1>9. QED
  <2> HIDE DEF scores
  <2> QED BY <1>6, <1>7, <1>8

\* the refusal is attributable: so is that of one child of an `all` that the
\* evaluation came to, and of each of an `any`
Convinces(B, kind, k, results, lazy) ==
  /\ B.satisfied = "no"
  /\ kind = "all" =>
       \E i \in 1..k : /\ i \in ReachedWith(kind, results, lazy, "no")
                      /\ results[i].penalize /\ results[i].blame \subseteq B.blame
  /\ kind = "any" => \A i \in 1..k : results[i].penalize /\ results[i].blame \subseteq B.blame

(* A branch, lazily evaluated or not, whose refusal is attributable.       *)
LEMMA BlamedBranch ==
  ASSUME NEW kind \in {"all", "any"}, NEW k \in Nat \ {0}, NEW results \in [1..k -> Result],
         NEW lazy \in BOOLEAN, NEW B, B = BranchResult(kind, results, lazy), B.penalize
  PROVE  Convinces(B, kind, k, results, lazy)
<1> DEFINE failing == ReachedWith(kind, results, lazy, "no")
           blamed == {i \in failing : results[i].penalize}
<1>1. DOMAIN results = 1..k
  OBVIOUS
<1>2. HasFields(B, kind, results, lazy)
  BY BranchFields
<1>3. /\ B.satisfied = "no" /\ gatePenalize(kind, failing, blamed)
      /\ B.satisfied = VerdictOf(kind, results, lazy)
      /\ B.blame = UNION {results[i].blame : i \in failing}
  BY <1>2 DEF HasFields
<1>4. failing \subseteq 1..k
  BY <1>1 DEF ReachedWith, ReachedOf
<1> HIDE DEF failing
<1>5. CASE kind = "all"
  <2>1. PICK i \in failing : results[i].penalize
    BY <1>3, <1>5 DEF gatePenalize
  <2>2. i \in ReachedWith(kind, results, lazy, "no")
    BY DEF failing
  <2>3. QED
    BY <1>3, <1>4, <1>5, <2>1, <2>2 DEF Convinces
<1>6. CASE kind = "any"
  <2>1. \A i \in failing : results[i].penalize
    <3>1. blamed = failing
      BY <1>3, <1>6 DEF gatePenalize
    <3>2. QED
      BY <3>1
  <2>2. ~ (lazy /\ StopsOf(kind, results) # {}) /\ foldSatisfied(kind, results) = "no"
    BY <1>3, <1>6 DEF VerdictOf, DecidesAt
  <2>3. \A i \in 1..k : results[i].satisfied = "no"
    BY <1>1, <1>6, <2>2 DEF foldSatisfied, DecidesAt, Other
  <2>4. ReachedOf(kind, results, lazy) = 1..k
    BY <1>1, <2>2 DEF ReachedOf
  <2>5. failing = 1..k
    BY <2>3, <2>4 DEF failing, ReachedWith
  <2>6. QED
    BY <1>3, <1>6, <2>1, <2>5 DEF Convinces
<1>7. QED
  BY <1>5, <1>6

(* A lazy evaluation that has nothing left to ask has come to a child that *)
(* stops it, or through all of them.                                       *)
LEMMA LazyBranch ==
  ASSUME NEW kind \in {"all", "any"}, NEW k \in Nat \ {0}, NEW results \in [1..k -> Result],
         NEW B, B = BranchResult(kind, results, TRUE), B.next = {}
  PROVE  \/ /\ \A i \in 1..k : results[i].next = {} /\ ~ Stops(kind, results[i])
            /\ B.satisfied = foldSatisfied(kind, results)
         \/ \E i \in 1..k :
              /\ \A j \in 1..i : results[j].next = {}
              /\ Stops(kind, results[i])
              /\ B.satisfied = DecidesAt(kind)
              /\ ReachedWith(kind, results, TRUE, "no") \subseteq 1..i
<1> DEFINE stops == StopsOf(kind, results)
           open == {i \in 1..k : results[i].next # {}}
           working == {i \in open : \A j \in open \cup stops : i <= j}
<1>1. DOMAIN results = 1..k
  OBVIOUS
<1>2. /\ B.satisfied = VerdictOf(kind, results, TRUE)
      /\ B.next = UNION {results[i].next : i \in working}
  <2>1. HasFields(B, kind, results, TRUE)
    BY BranchFields
  <2>2. QED
    BY <1>1, <2>1 DEF HasFields
<1>3. working = {}
  <2>1. ASSUME NEW i \in working PROVE FALSE
    <3>1. results[i].next # {} /\ results[i].next \subseteq B.next
      BY <1>2
    <3>2. QED
      BY <3>1
  <2>2. QED
    BY <2>1
<1>4. stops \subseteq 1..k
  BY <1>1 DEF StopsOf
<1>5. CASE open \cup stops = {}
  <2>1. \A i \in 1..k : results[i].next = {} /\ ~ Stops(kind, results[i])
    BY <1>1, <1>5 DEF StopsOf
  <2>2. B.satisfied = foldSatisfied(kind, results)
    BY <1>2, <1>5 DEF VerdictOf
  <2>3. QED
    BY <2>1, <2>2
<1>6. CASE open \cup stops # {}
  <2>1. PICK i \in open \cup stops : \A j \in open \cup stops : i <= j
    <3>1. open \cup stops \in SUBSET Nat
      BY <1>4
    <3>2. QED
      <4> HIDE DEF open, stops
      <4> QED BY <1>6, <3>1, LeastOf
  <2>2. i \notin open /\ i \in stops /\ i \in 1..k
    BY <1>3, <1>4, <2>1
  <2>3. \A j \in 1..i : results[j].next = {}
    <3>1. ASSUME NEW j \in 1..i, j \in open PROVE FALSE
      <4>1. i <= j
        BY <2>1, <3>1
      <4>2. i = j
        BY <2>2, <4>1
      <4>3. QED
        BY <2>2, <3>1, <4>2
    <3>2. \A j \in 1..i : j \in 1..k
      BY <2>2
    <3>3. QED
      BY <3>1, <3>2
  <2>4. Stops(kind, results[i])
    BY <1>1, <2>2 DEF StopsOf
  <2>5. B.satisfied = DecidesAt(kind)
    BY <1>2, <2>2 DEF VerdictOf
  <2>6. ReachedWith(kind, results, TRUE, "no") \subseteq 1..i
    <3>1. \A j \in ReachedOf(kind, results, TRUE) : j \in 1..k /\ j <= i
      BY <1>1, <2>2 DEF ReachedOf
    <3>2. ASSUME NEW j \in ReachedWith(kind, results, TRUE, "no") PROVE j \in 1..i
      <4>1. j \in ReachedOf(kind, results, TRUE)
        BY <3>2 DEF ReachedWith
      <4>2. j \in 1..k /\ j <= i /\ i \in 1..k
        BY <2>2, <3>1, <4>1
      <4>3. QED
        BY <4>2
    <3>3. QED
      BY <3>2
  <2>7. QED
    BY <2>2, <2>3, <2>4, <2>5, <2>6
<1>7. QED
  BY <1>5, <1>6

\* the leaves that would have to pass for a node to be satisfied, and more
Wanting(B) == B.blame \cup B.unevaluated

\* a child may have been skipped, or what it wants the branch wants too
Covered(B, result) == result.leaves \subseteq Wanting(B) \/ Wanting(result) \subseteq Wanting(B)

\* of an `any` it is enough to look at one child, or at all
WantsEnough(B, kind, k, results) ==
  /\ kind = "all" => \A i \in 1..k : Covered(B, results[i])
  /\ kind = "any" => \E i \in 1..k : Covered(B, results[i])

(* What a branch wants.                                                    *)
LEMMA WantingBranch ==
  ASSUME NEW kind \in {"all", "any"}, NEW k \in Nat \ {0}, NEW results \in [1..k -> Result],
         NEW lazy \in BOOLEAN, NEW B, B = BranchResult(kind, results, lazy),
         \A i \in 1..k : results[i].satisfied # "no" => results[i].blame = {}
  PROVE  WantsEnough(B, kind, k, results)
<1> DEFINE reached == ReachedOf(kind, results, lazy)
<1>1. DOMAIN results = 1..k
  OBVIOUS
<1>2. /\ B.satisfied = VerdictOf(kind, results, lazy)
      /\ B.blame = IF B.satisfied = "no"
                   THEN UNION {results[i].blame : i \in ReachedWith(kind, results, lazy, "no")} ELSE {}
      /\ B.unevaluated = UNION {IF i \in reached THEN results[i].unevaluated ELSE results[i].leaves :
                                  i \in 1..k}
  <2>1. HasFields(B, kind, results, lazy)
    BY BranchFields
  <2>2. QED
    BY <1>1, <2>1 DEF HasFields
<1>3. ASSUME NEW i \in 1..k, i \notin reached PROVE Covered(B, results[i])
  BY <1>2, <1>3 DEF Wanting, Covered
<1>4. ASSUME NEW i \in 1..k, i \in reached PROVE results[i].unevaluated \subseteq B.unevaluated
  BY <1>2, <1>4
<1>5. ASSUME NEW i \in 1..k, results[i].satisfied # "no" \/ B.satisfied = "no" PROVE Covered(B, results[i])
  <2>1. CASE i \notin reached
    BY <1>3, <2>1
  <2>2. CASE i \in reached /\ results[i].satisfied # "no"
    BY <1>4, <2>2 DEF Wanting, Covered
  <2>3. CASE i \in reached /\ results[i].satisfied = "no"
    <3>1. i \in ReachedWith(kind, results, lazy, "no")
      BY <2>3 DEF ReachedWith
    <3>2. results[i].blame \subseteq B.blame
      BY <1>2, <1>5, <2>3, <3>1
    <3>3. QED
      BY <1>4, <2>3, <3>2 DEF Wanting, Covered
  <2>4. QED
    BY <2>1, <2>2, <2>3
<1>6. CASE kind = "all"
  <2>1. ASSUME NEW i \in 1..k, results[i].satisfied = "no" PROVE B.satisfied = "no"
    BY <1>1, <1>2, <1>6, <2>1 DEF VerdictOf, foldSatisfied, DecidesAt
  <2>2. QED
    BY <1>5, <1>6, <2>1 DEF WantsEnough
<1>7. CASE kind = "any"
  <2>1. CASE B.satisfied = "no"
    BY <1>5, <1>7, <2>1 DEF WantsEnough
  <2>2. CASE B.satisfied # "no"
    <3>1. \E i \in 1..k : results[i].satisfied # "no"
      <4>1. CASE lazy /\ StopsOf(kind, results) # {}
        BY <1>1, <1>7, <4>1 DEF StopsOf, Stops, DecidesAt
      <4>2. CASE ~ (lazy /\ StopsOf(kind, results) # {})
        BY <1>1, <1>2, <1>7, <2>2, <4>2 DEF VerdictOf, foldSatisfied, DecidesAt, Other
      <4>3. QED
        BY <4>1, <4>2
    <3>2. QED
      BY <1>5, <1>7, <3>1 DEF WantsEnough
  <2>3. QED
    BY <2>1, <2>2
<1>8. QED
  BY <1>6, <1>7

----------------------------------------------------------------------------
(* Every node of a tree.                                                   *)

\* L is what the leaf is evaluated to
LeafFields(L, n, q, answer) ==
  /\ ~ Evaluated(answer) => L.satisfied = "unknown" /\ L.blame = {} /\ L.unevaluated = {n}
  /\ Evaluated(answer) /\ Admits(answer) =>
       L.satisfied = "yes" /\ L.score = answer.score /\ L.score > 0 /\ L.blame = {} /\ L.unevaluated = {}
  /\ Evaluated(answer) /\ ~ Admits(answer) =>
       L.satisfied = "no" /\ L.blame = {n} /\ L.unevaluated = {}
  /\ L.penalize = Blamable(answer)
  /\ L.leaves = {n}
  /\ L.next = IF answer = Unread THEN {q} ELSE {}

LEMMA LeafVerdict ==
  ASSUME NEW n, NEW q, NEW answer
  PROVE  LeafFields(LeafResult(n, q, answer), n, q, answer)
  BY DEF LeafResult, LeafFields, Admits

(* What a node is evaluated to.                                            *)
LEMMA LeafAt ==
  ASSUME NEW tree, IsTree(tree), NEW known \in Answers(tree), NEW lazy,
         NEW n \in DOMAIN tree, tree[n].kind = "leaf", NEW R, IsRun(R, tree, known, lazy)
  PROVE  /\ LeafFields(R[n], n, tree[n].question, known[tree[n].question])
         /\ tree[n].question \in gateLeaves(tree) /\ known[tree[n].question] \in Known
<1>1. LeafFields(R[n], n, tree[n].question, known[tree[n].question])
  <2>1. R[n] = LeafResult(n, tree[n].question, known[tree[n].question])
    BY DEF IsRun, ResultAt
  <2>2. QED
    BY <2>1, LeafVerdict
<1>2. tree[n].question \in gateLeaves(tree) /\ known[tree[n].question] \in Known
  BY DEF Answers, gateLeaves, Leaves
<1>3. QED
  BY <1>1, <1>2

\* a branch and its children, k of them
IsBranchAt(R, tree, n, lazy, results, k) ==
  /\ tree[n].kind \in {"all", "any"} /\ k \in Nat \ {0} /\ results \in [1..k -> Result]
  /\ R[n] = BranchResult(tree[n].kind, results, lazy)
  /\ DOMAIN tree[n].children = 1..k
  /\ \A i \in 1..k : results[i] = R[tree[n].children[i]] /\ tree[n].children[i] \in DOMAIN tree

LEMMA BranchAt ==
  ASSUME NEW tree, IsTree(tree), NEW known, NEW lazy,
         NEW n \in DOMAIN tree, tree[n].kind # "leaf", NEW R, IsRun(R, tree, known, lazy)
  PROVE  IsBranchAt(R, tree, n, lazy, Children(tree, n, R), Len(tree[n].children))
<1> DEFINE k == Len(tree[n].children)
<1>1. /\ tree[n].kind \in {"all", "any"} /\ k \in Nat \ {0} /\ DOMAIN tree[n].children = 1..k
      /\ \A i \in 1..k : tree[n].children[i] \in DOMAIN tree
  BY NodeShape
<1>2. R[n] = BranchResult(tree[n].kind, Children(tree, n, R), lazy)
  BY DEF IsRun, ResultAt
<1>3. /\ Children(tree, n, R) \in [1..k -> Result]
      /\ \A i \in 1..k : Children(tree, n, R)[i] = R[tree[n].children[i]]
  BY <1>1 DEF IsRun, Children
<1>4. QED
  BY <1>1, <1>2, <1>3 DEF IsBranchAt

\* a way the leaves that gave no answer could have answered
Completes(tree, known, full) ==
  /\ full \in [gateLeaves(tree) -> Answer]
  /\ \A q \in gateLeaves(tree) : Evaluated(known[q]) => full[q] = known[q]

(* With every answer in hand every node is decided.                        *)
LEMMA CompleteIsDecided ==
  ASSUME NEW tree, IsTree(tree), NEW full \in Answers(tree),
         \A q \in gateLeaves(tree) : Evaluated(full[q]),
         NEW R, IsRun(R, tree, full, FALSE)
  PROVE  \A n \in DOMAIN tree : R[n].satisfied \in {"yes", "no"}
<1> DEFINE S == {n \in DOMAIN tree : R[n].satisfied \in {"yes", "no"}}
<1>1. ASSUME NEW n \in DOMAIN tree, tree[n].kind = "leaf" PROVE n \in S
  <2>1. /\ LeafFields(R[n], n, tree[n].question, full[tree[n].question])
        /\ Evaluated(full[tree[n].question])
    BY <1>1, LeafAt
  <2>2. QED
    BY <2>1 DEF LeafFields
<1>2. ASSUME NEW n \in DOMAIN tree, tree[n].kind # "leaf",
             \A i \in DOMAIN tree[n].children : tree[n].children[i] \in S
      PROVE  n \in S
  <2>1. PICK results, k : IsBranchAt(R, tree, n, FALSE, results, k)
    BY <1>2, BranchAt
  <2>2. \A i \in 1..k : results[i].satisfied \in {"yes", "no"}
    BY <1>2, <2>1 DEF IsBranchAt
  <2>3. FoldsAll(R[n], tree[n].kind, k, results)
    BY <2>1, EagerBranch DEF IsBranchAt
  <2>4. R[n].satisfied \in {"yes", "no"}
    BY <2>1, <2>2, <2>3 DEF FoldsAll, IsBranchAt
  <2>5. QED
    BY <2>4
<1>3. DOMAIN tree \subseteq S
  <2> HIDE DEF S
  <2> QED BY <1>1, <1>2, NodeInduction
<1>4. QED
  BY <1>3

(* The completions of a set of answers are answers themselves, and there   *)
(* are some, whether the missing ones admit or not.                        *)
LEMMA CompletesAnswers ==
  ASSUME NEW tree, IsTree(tree)
  PROVE  /\ gateLeaves(tree) \subseteq Question
         /\ [gateLeaves(tree) -> Known] \subseteq Answers(tree)
         /\ \A full \in [gateLeaves(tree) -> Answer] :
              /\ full \in Answers(tree)
              /\ \A q \in gateLeaves(tree) : Evaluated(full[q])
<1>1. gateLeaves(tree) \subseteq Question
  BY NodeShape DEF gateLeaves, Leaves
<1>2. [gateLeaves(tree) -> Known] \subseteq Answers(tree)
  BY <1>1 DEF Answers
<1>3. ASSUME NEW full \in [gateLeaves(tree) -> Answer]
      PROVE  /\ full \in [gateLeaves(tree) -> Known]
             /\ \A q \in gateLeaves(tree) : Evaluated(full[q])
  <2>1. full \in [gateLeaves(tree) -> Known]
    BY DEF Known
  <2>2. \A q \in gateLeaves(tree) : full[q] \in Answer /\ full[q] \in Known
    BY <2>1
  <2>3. QED
    BY <2>1, <2>2, AnswerFields DEF Evaluated
<1>4. QED
  BY <1>1, <1>2, <1>3

LEMMA CompletionExists ==
  ASSUME NEW tree, IsTree(tree), NEW known \in Answers(tree), NEW answer \in Answer
  PROVE  LET full == [q \in gateLeaves(tree) |-> IF Evaluated(known[q]) THEN known[q] ELSE answer]
         IN Completes(tree, known, full)
<1>1. \A q \in gateLeaves(tree) : known[q] \in Known
  BY DEF Answers
<1>2. \A q \in gateLeaves(tree) : Evaluated(known[q]) => known[q] \in Answer
  BY <1>1, AnswerFields DEF Evaluated
<1>3. QED
  BY <1>2 DEF Completes

\* F decides all that K does, and the same way
Upholds(tree, K, F) ==
  \A n \in DOMAIN tree : K[n].satisfied # "unknown" => F[n].satisfied = K[n].satisfied

(* What is decided stays decided, whatever the other leaves answer.        *)
LEMMA Monotone ==
  ASSUME NEW tree, IsTree(tree), NEW known \in Answers(tree),
         NEW full, Completes(tree, known, full),
         NEW K, IsRun(K, tree, known, FALSE), NEW F, IsRun(F, tree, full, FALSE)
  PROVE  Upholds(tree, K, F)
<1> DEFINE S == {n \in DOMAIN tree : K[n].satisfied # "unknown" => F[n].satisfied = K[n].satisfied}
<1>1. ASSUME NEW n \in DOMAIN tree, tree[n].kind = "leaf" PROVE n \in S
  <2>1. full \in Answers(tree)
    BY CompletesAnswers DEF Completes
  <2>2. /\ LeafFields(K[n], n, tree[n].question, known[tree[n].question])
        /\ LeafFields(F[n], n, tree[n].question, full[tree[n].question])
        /\ tree[n].question \in gateLeaves(tree)
    BY <1>1, <2>1, LeafAt
  <2>3. Evaluated(known[tree[n].question]) => full[tree[n].question] = known[tree[n].question]
    BY <2>2 DEF Completes
  <2>4. QED
    BY <2>2, <2>3 DEF LeafFields
<1>2. ASSUME NEW n \in DOMAIN tree, tree[n].kind # "leaf",
             \A i \in DOMAIN tree[n].children : tree[n].children[i] \in S
      PROVE  n \in S
  <2> DEFINE k == Len(tree[n].children)
             known_results == Children(tree, n, K)
             full_results == Children(tree, n, F)
  <2>1. IsBranchAt(K, tree, n, FALSE, known_results, k) /\ IsBranchAt(F, tree, n, FALSE, full_results, k)
    BY <1>2, BranchAt
  <2> HIDE DEF k, known_results, full_results
  <2>2. \A i \in 1..k : known_results[i].satisfied # "unknown" =>
          full_results[i].satisfied = known_results[i].satisfied
    BY <1>2, <2>1 DEF IsBranchAt
  <2>3. FoldsAll(K[n], tree[n].kind, k, known_results) /\ FoldsAll(F[n], tree[n].kind, k, full_results)
    BY <2>1, EagerBranch DEF IsBranchAt
  <2>4. tree[n].kind \in {"all", "any"} /\ K[n].satisfied \in Verdict
    BY <2>1 DEF IsBranchAt, IsRun, Result
  <2>5. K[n].satisfied # "unknown" => F[n].satisfied = K[n].satisfied
    BY <2>2, <2>3, <2>4 DEF FoldsAll, Verdict
  <2>6. QED
    BY <2>5
<1>3. DOMAIN tree \subseteq S
  <2> HIDE DEF S
  <2> QED BY <1>1, <1>2, NodeInduction
<1>4. QED
  BY <1>3 DEF Upholds

\* what K leaves open F decides as v
Tips(tree, K, F, v) ==
  \A n \in DOMAIN tree : K[n].satisfied = "unknown" => F[n].satisfied = v

(* What is undecided is decided by the leaves that gave no answer, one way *)
(* or the other.                                                           *)
LEMMA Undecided ==
  ASSUME NEW tree, IsTree(tree), NEW known \in Answers(tree), NEW v \in {"yes", "no"},
         NEW full, Completes(tree, known, full),
         \A q \in gateLeaves(tree) : ~ Evaluated(known[q]) => (Admits(full[q]) <=> v = "yes"),
         NEW K, IsRun(K, tree, known, FALSE), NEW F, IsRun(F, tree, full, FALSE)
  PROVE  Tips(tree, K, F, v)
<1> DEFINE S == {n \in DOMAIN tree : K[n].satisfied = "unknown" => F[n].satisfied = v}
<1>1. ASSUME NEW n \in DOMAIN tree, tree[n].kind = "leaf" PROVE n \in S
  <2>1. full \in Answers(tree) /\ \A q \in gateLeaves(tree) : Evaluated(full[q])
    BY CompletesAnswers DEF Completes
  <2>2. /\ LeafFields(K[n], n, tree[n].question, known[tree[n].question])
        /\ LeafFields(F[n], n, tree[n].question, full[tree[n].question])
        /\ tree[n].question \in gateLeaves(tree)
    BY <1>1, <2>1, LeafAt
  <2>3. K[n].satisfied = "unknown" => ~ Evaluated(known[tree[n].question])
    BY <2>2 DEF LeafFields
  <2>4. K[n].satisfied = "unknown" => (Admits(full[tree[n].question]) <=> v = "yes")
    BY <2>2, <2>3
  <2>5. Evaluated(full[tree[n].question])
    BY <2>1, <2>2
  <2>6. K[n].satisfied = "unknown" => F[n].satisfied = v
    BY <2>2, <2>4, <2>5 DEF LeafFields
  <2>7. QED
    BY <2>6
<1>2. ASSUME NEW n \in DOMAIN tree, tree[n].kind # "leaf",
             \A i \in DOMAIN tree[n].children : tree[n].children[i] \in S
      PROVE  n \in S
  <2> DEFINE k == Len(tree[n].children)
             known_results == Children(tree, n, K)
             full_results == Children(tree, n, F)
  <2>1. IsBranchAt(K, tree, n, FALSE, known_results, k) /\ IsBranchAt(F, tree, n, FALSE, full_results, k)
    BY <1>2, BranchAt
  <2> HIDE DEF k, known_results, full_results
  <2>2. \A i \in 1..k :
          /\ known_results[i].satisfied \in Verdict
          /\ known_results[i].satisfied = "unknown" => full_results[i].satisfied = v
          /\ known_results[i].satisfied # "unknown" =>
               full_results[i].satisfied = known_results[i].satisfied
    <3>1. \A i \in 1..k : known_results[i].satisfied = "unknown" => full_results[i].satisfied = v
      BY <1>2, <2>1 DEF IsBranchAt
    <3>2. \A i \in 1..k : known_results[i].satisfied # "unknown" =>
            full_results[i].satisfied = known_results[i].satisfied
      <4>1. Upholds(tree, K, F)
        BY Monotone
      <4>2. QED
        BY <2>1, <4>1 DEF IsBranchAt, Upholds
    <3>3. \A i \in 1..k : known_results[i].satisfied \in Verdict
      BY <2>1 DEF IsBranchAt, Result
    <3>4. QED
      BY <3>1, <3>2, <3>3
  <2>3. FoldsAll(K[n], tree[n].kind, k, known_results) /\ FoldsAll(F[n], tree[n].kind, k, full_results)
    BY <2>1, EagerBranch DEF IsBranchAt
  <2>4. tree[n].kind \in {"all", "any"}
    BY <2>1 DEF IsBranchAt
  <2>5. K[n].satisfied = "unknown" => F[n].satisfied = v
    <3>1. CASE tree[n].kind = "all"
      BY <2>2, <2>3, <3>1 DEF FoldsAll, Verdict
    <3>2. CASE tree[n].kind = "any"
      BY <2>2, <2>3, <3>2 DEF FoldsAll, Verdict
    <3>3. QED
      BY <2>4, <3>1, <3>2
  <2>6. QED
    BY <2>5
<1>3. DOMAIN tree \subseteq S
  <2> HIDE DEF S
  <2> QED BY <1>1, <1>2, NodeInduction
<1>4. QED
  BY <1>3 DEF Tips

\* where L has nothing to ask F agrees
Agree(tree, L, F) ==
  \A n \in DOMAIN tree : L[n].next = {} =>
    /\ L[n].satisfied \in {"yes", "no"} /\ F[n].satisfied = L[n].satisfied
    /\ L[n].penalize => F[n].penalize

(* A lazy evaluation that has nothing left to ask has come to the verdict  *)
(* of the full one, and blames the sender only if that one does.           *)
LEMMA LazyAgrees ==
  ASSUME NEW tree, IsTree(tree), NEW known \in Answers(tree),
         \A q \in gateLeaves(tree) : known[q] # Threw,
         NEW full, Completes(tree, known, full),
         NEW L, IsRun(L, tree, known, TRUE), NEW F, IsRun(F, tree, full, FALSE)
  PROVE  Agree(tree, L, F)
<1> DEFINE AgreesAt(n) == L[n].next = {} =>
             /\ L[n].satisfied \in {"yes", "no"} /\ F[n].satisfied = L[n].satisfied
             /\ L[n].penalize => F[n].penalize
           S == {n \in DOMAIN tree : AgreesAt(n)}
<1>1. ASSUME NEW n \in DOMAIN tree, tree[n].kind = "leaf" PROVE n \in S
  <2>1. full \in Answers(tree)
    BY CompletesAnswers DEF Completes
  <2>2. /\ LeafFields(L[n], n, tree[n].question, known[tree[n].question])
        /\ LeafFields(F[n], n, tree[n].question, full[tree[n].question])
        /\ tree[n].question \in gateLeaves(tree) /\ known[tree[n].question] \in Known
    BY <1>1, <2>1, LeafAt
  <2>3. SUFFICES ASSUME L[n].next = {}
                 PROVE  /\ L[n].satisfied \in {"yes", "no"} /\ F[n].satisfied = L[n].satisfied
                        /\ L[n].penalize => F[n].penalize
    OBVIOUS
  <2>4. known[tree[n].question] # Unread
    BY <2>2, <2>3 DEF LeafFields
  <2>5. Evaluated(known[tree[n].question])
    BY <2>2, <2>4, AnswerFields DEF Evaluated
  <2>6. full[tree[n].question] = known[tree[n].question]
    BY <2>2, <2>5 DEF Completes
  <2>7. QED
    BY <2>2, <2>5, <2>6 DEF LeafFields
<1>2. ASSUME NEW n \in DOMAIN tree, tree[n].kind # "leaf",
             \A i \in DOMAIN tree[n].children : tree[n].children[i] \in S
      PROVE  n \in S
  <2> DEFINE k == Len(tree[n].children)
             lazy_results == Children(tree, n, L)
             full_results == Children(tree, n, F)
             kind == tree[n].kind
             SameAt(i) == /\ lazy_results[i].satisfied \in {"yes", "no"}
                          /\ full_results[i].satisfied = lazy_results[i].satisfied
                          /\ lazy_results[i].penalize => full_results[i].penalize
  <2>1. IsBranchAt(L, tree, n, TRUE, lazy_results, k) /\ IsBranchAt(F, tree, n, FALSE, full_results, k)
    BY <1>2, BranchAt
  <2> HIDE DEF k, lazy_results, full_results
  <2>2. \A i \in 1..k : lazy_results[i].next = {} => SameAt(i)
    BY <1>2, <2>1 DEF IsBranchAt
  <2>3. FoldsAll(F[n], kind, k, full_results) /\ BlamesAll(F[n], kind, k, full_results)
    BY <2>1, EagerBranch DEF IsBranchAt
  <2>4. /\ kind \in {"all", "any"} /\ k \in Nat \ {0} /\ lazy_results \in [1..k -> Result]
        /\ L[n] = BranchResult(kind, lazy_results, TRUE)
    BY <2>1 DEF IsBranchAt
  <2> HIDE DEF kind
  <2>5. ASSUME L[n].penalize
        PROVE  /\ L[n].satisfied = "no"
               /\ kind = "all" =>
                    \E i \in 1..k : /\ i \in ReachedWith(kind, lazy_results, TRUE, "no")
                                   /\ lazy_results[i].penalize
               /\ kind = "any" => \A i \in 1..k : lazy_results[i].penalize
    <3>1. Convinces(L[n], kind, k, lazy_results, TRUE)
      BY <2>4, <2>5, BlamedBranch
    <3>2. QED
      BY <3>1 DEF Convinces
  <2>6. SUFFICES ASSUME L[n].next = {}
                 PROVE  /\ L[n].satisfied \in {"yes", "no"} /\ F[n].satisfied = L[n].satisfied
                        /\ L[n].penalize => F[n].penalize
    OBVIOUS
  <2>7. \A i \in ReachedWith(kind, lazy_results, TRUE, "no") : lazy_results[i].satisfied = "no"
    BY DEF ReachedWith
  <2>8. CASE /\ \A i \in 1..k : lazy_results[i].next = {} /\ ~ Stops(kind, lazy_results[i])
             /\ L[n].satisfied = foldSatisfied(kind, lazy_results)
    <3>1. \A i \in 1..k : SameAt(i) /\ ~ Stops(kind, lazy_results[i])
      BY <2>2, <2>8
    <3>2. CASE kind = "all"
      <4>1. \A i \in 1..k : lazy_results[i].satisfied = "yes" /\ full_results[i].satisfied = "yes"
        BY <3>1, <3>2 DEF Stops, DecidesAt
      <4>2. F[n].satisfied = "yes"
        BY <2>3, <3>2, <4>1 DEF FoldsAll
      <4>3. L[n].satisfied = "yes"
        BY <2>4, <2>8, <3>2, <4>1 DEF foldSatisfied, DecidesAt, Other
      <4>4. QED
        BY <2>5, <4>2, <4>3
    <3>3. CASE kind = "any"
      <4>1. \A i \in 1..k : lazy_results[i].satisfied = "no" /\ full_results[i].satisfied = "no"
        BY <3>1, <3>3 DEF Stops, DecidesAt
      <4>2. F[n].satisfied = "no"
        BY <2>3, <3>3, <4>1 DEF FoldsAll
      <4>3. L[n].satisfied = "no"
        BY <2>4, <2>8, <3>3, <4>1 DEF foldSatisfied, DecidesAt, Other
      <4>4. ASSUME L[n].penalize PROVE F[n].penalize
        <5>1. \A i \in 1..k : full_results[i].satisfied = "no" /\ full_results[i].penalize
          BY <2>5, <3>1, <3>3, <4>1, <4>4
        <5>2. QED
          BY <2>3, <3>3, <5>1 DEF BlamesAll
      <4>5. QED
        BY <4>2, <4>3, <4>4
    <3>4. QED
      BY <2>4, <3>2, <3>3
  <2>9. CASE \E i \in 1..k :
               /\ \A j \in 1..i : lazy_results[j].next = {}
               /\ Stops(kind, lazy_results[i])
               /\ L[n].satisfied = DecidesAt(kind)
               /\ ReachedWith(kind, lazy_results, TRUE, "no") \subseteq 1..i
    <3>1. PICK i \in 1..k :
               /\ \A j \in 1..i : lazy_results[j].next = {}
               /\ Stops(kind, lazy_results[i])
               /\ L[n].satisfied = DecidesAt(kind)
               /\ ReachedWith(kind, lazy_results, TRUE, "no") \subseteq 1..i
      BY <2>9
    <3>2. \A j \in 1..i : j \in 1..k
      BY <2>4
    <3>3. i \in 1..i
      BY <2>4
    <3>4. \A j \in 1..i : SameAt(j)
      BY <2>2, <3>1, <3>2
    <3>5. SameAt(i)
      BY <3>3, <3>4
    <3>6. CASE kind = "all"
      <4>1. full_results[i].satisfied = "no" /\ L[n].satisfied = "no"
        BY <3>1, <3>5, <3>6 DEF Stops, DecidesAt
      <4>2. F[n].satisfied = "no"
        BY <2>3, <3>6, <4>1 DEF FoldsAll
      <4>3. ASSUME L[n].penalize PROVE F[n].penalize
        <5>1. PICK j \in ReachedWith(kind, lazy_results, TRUE, "no") : lazy_results[j].penalize
          BY <2>5, <3>6, <4>3
        <5>2. j \in 1..i /\ lazy_results[j].satisfied = "no"
          BY <2>7, <3>1, <5>1
        <5>3. j \in 1..k /\ full_results[j].satisfied = "no" /\ full_results[j].penalize
          BY <3>2, <3>4, <5>1, <5>2
        <5>4. QED
          BY <2>3, <3>6, <5>3 DEF BlamesAll
      <4>4. QED
        BY <4>1, <4>2, <4>3
    <3>7. CASE kind = "any"
      <4>1. full_results[i].satisfied = "yes" /\ L[n].satisfied = "yes"
        BY <3>1, <3>5, <3>7 DEF Stops, DecidesAt
      <4>2. F[n].satisfied = "yes"
        BY <2>3, <3>7, <4>1 DEF FoldsAll
      <4>3. QED
        BY <2>5, <4>1, <4>2
    <3>8. QED
      BY <2>4, <3>6, <3>7
  <2>10. QED
    <3> HIDE DEF SameAt
    <3> QED BY <2>4, <2>6, <2>8, <2>9, LazyBranch
<1>3. DOMAIN tree \subseteq S
  <2> HIDE DEF S
  <2> QED BY <1>1, <1>2, NodeInduction
<1>4. QED
  BY <1>3 DEF Agree

\* where R blames leaves of X only F refuses too
Follows(tree, R, F, X) ==
  \A n \in DOMAIN tree : R[n].penalize /\ R[n].blame \subseteq X => F[n].satisfied = "no"

(* An attributable refusal holds wherever the refusals it blames do.       *)
LEMMA BlameConvinces ==
  ASSUME NEW tree, IsTree(tree), NEW known \in Answers(tree), NEW lazy \in BOOLEAN,
         NEW full \in [gateLeaves(tree) -> Answer], NEW X,
         \A m \in X : Blamable(known[tree[m].question]) => ~ Admits(full[tree[m].question]),
         NEW R, IsRun(R, tree, known, lazy), NEW F, IsRun(F, tree, full, FALSE)
  PROVE  Follows(tree, R, F, X)
<1> DEFINE S == {n \in DOMAIN tree : R[n].penalize /\ R[n].blame \subseteq X => F[n].satisfied = "no"}
<1>1. ASSUME NEW n \in DOMAIN tree, tree[n].kind = "leaf" PROVE n \in S
  <2>1. full \in Answers(tree) /\ \A q \in gateLeaves(tree) : Evaluated(full[q])
    BY CompletesAnswers
  <2>2. /\ LeafFields(R[n], n, tree[n].question, known[tree[n].question])
        /\ LeafFields(F[n], n, tree[n].question, full[tree[n].question])
        /\ tree[n].question \in gateLeaves(tree)
    BY <1>1, <2>1, LeafAt
  <2>3. SUFFICES ASSUME R[n].penalize, R[n].blame \subseteq X PROVE F[n].satisfied = "no"
    OBVIOUS
  <2>4. Blamable(known[tree[n].question])
    BY <2>2, <2>3 DEF LeafFields
  <2>5. R[n].blame = {n}
    BY <2>2, <2>4 DEF LeafFields, Blamable
  <2>6. ~ Admits(full[tree[n].question]) /\ Evaluated(full[tree[n].question])
    BY <2>1, <2>2, <2>3, <2>4, <2>5
  <2>7. QED
    BY <2>2, <2>6 DEF LeafFields
<1>2. ASSUME NEW n \in DOMAIN tree, tree[n].kind # "leaf",
             \A i \in DOMAIN tree[n].children : tree[n].children[i] \in S
      PROVE  n \in S
  <2> DEFINE k == Len(tree[n].children)
             results == Children(tree, n, R)
             full_results == Children(tree, n, F)
  <2>1. IsBranchAt(R, tree, n, lazy, results, k) /\ IsBranchAt(F, tree, n, FALSE, full_results, k)
    BY <1>2, BranchAt
  <2> HIDE DEF k, results, full_results
  <2>2. \A i \in 1..k : results[i].penalize /\ results[i].blame \subseteq X => full_results[i].satisfied = "no"
    <3>1. \A i \in 1..k : tree[n].children[i] \in S
      <4> HIDE DEF S
      <4> QED BY <1>2, <2>1 DEF IsBranchAt
    <3>2. QED
      BY <2>1, <3>1 DEF IsBranchAt
  <2>3. FoldsAll(F[n], tree[n].kind, k, full_results) /\ tree[n].kind \in {"all", "any"}
    BY <2>1, EagerBranch DEF IsBranchAt
  <2>4. SUFFICES ASSUME R[n].penalize, R[n].blame \subseteq X PROVE F[n].satisfied = "no"
    OBVIOUS
  <2>5. /\ tree[n].kind = "all" => \E i \in 1..k : results[i].penalize /\ results[i].blame \subseteq R[n].blame
        /\ tree[n].kind = "any" => \A i \in 1..k : results[i].penalize /\ results[i].blame \subseteq R[n].blame
    <3>1. Convinces(R[n], tree[n].kind, k, results, lazy)
      BY <2>1, <2>4, BlamedBranch DEF IsBranchAt
    <3>2. QED
      BY <3>1 DEF Convinces
  <2>6. /\ tree[n].kind = "all" => \E i \in 1..k : full_results[i].satisfied = "no"
        /\ tree[n].kind = "any" => \A i \in 1..k : full_results[i].satisfied = "no"
    BY <2>2, <2>4, <2>5
  <2>7. QED
    BY <2>3, <2>6 DEF FoldsAll
<1>3. DOMAIN tree \subseteq S
  <2> HIDE DEF S
  <2> QED BY <1>1, <1>2, NodeInduction
<1>4. QED
  BY <1>3 DEF Follows

(* An admitting node has a score.                                          *)
LEMMA AdmittedScores ==
  ASSUME NEW tree, IsTree(tree), NEW known \in Answers(tree), NEW R, IsRun(R, tree, known, FALSE)
  PROVE  \A n \in DOMAIN tree : R[n].satisfied = "yes" => R[n].score > 0
<1> DEFINE S == {n \in DOMAIN tree : R[n].satisfied = "yes" => R[n].score > 0}
<1>1. ASSUME NEW n \in DOMAIN tree, tree[n].kind = "leaf" PROVE n \in S
  <2>1. LeafFields(R[n], n, tree[n].question, known[tree[n].question])
    BY <1>1, LeafAt
  <2>2. R[n].satisfied = "yes" => R[n].score > 0
    BY <2>1 DEF LeafFields
  <2>3. QED
    BY <2>2
<1>2. ASSUME NEW n \in DOMAIN tree, tree[n].kind # "leaf",
             \A i \in DOMAIN tree[n].children : tree[n].children[i] \in S
      PROVE  n \in S
  <2> DEFINE k == Len(tree[n].children)
             results == Children(tree, n, R)
  <2>1. IsBranchAt(R, tree, n, FALSE, results, k)
    BY <1>2, BranchAt
  <2> HIDE DEF k, results
  <2>2. \A i \in 1..k : results[i].satisfied = "yes" => results[i].score > 0
    BY <1>2, <2>1 DEF IsBranchAt
  <2>3. R[n].satisfied = "yes" => R[n].score > 0
    BY <2>1, <2>2, EagerScore DEF IsBranchAt
  <2>4. QED
    BY <2>3
<1>3. DOMAIN tree \subseteq S
  <2> HIDE DEF S
  <2> QED BY <1>1, <1>2, NodeInduction
<1>4. QED
  BY <1>3

(* Only a refusal blames leaves.                                           *)
LEMMA RefusalsBlame ==
  ASSUME NEW tree, IsTree(tree), NEW known \in Answers(tree), NEW lazy, NEW R, IsRun(R, tree, known, lazy)
  PROVE  \A n \in DOMAIN tree : R[n].satisfied # "no" => R[n].blame = {}
<1> SUFFICES ASSUME NEW n \in DOMAIN tree, R[n].satisfied # "no" PROVE R[n].blame = {}
  OBVIOUS
<1>1. CASE tree[n].kind = "leaf"
  <2>1. LeafFields(R[n], n, tree[n].question, known[tree[n].question])
    BY <1>1, LeafAt
  <2>2. QED
    BY <2>1 DEF LeafFields
<1>2. CASE tree[n].kind # "leaf"
  <2>1. PICK results, k : IsBranchAt(R, tree, n, lazy, results, k)
    BY <1>2, BranchAt
  <2>2. HasFields(R[n], tree[n].kind, results, lazy)
    BY <2>1, BranchFields DEF IsBranchAt
  <2>3. QED
    BY <2>2 DEF HasFields
<1>3. QED
  BY <1>1, <1>2

\* the answers cured admit where known does, and at the leaves X
Cures(tree, known, cured, X) ==
  /\ cured \in Answers(tree)
  /\ \A q \in gateLeaves(tree) :
       Evaluated(known[q]) /\ Admits(known[q]) => Evaluated(cured[q]) /\ Admits(cured[q])
  /\ \A n \in X \cap Leaves(tree) :
       Evaluated(cured[tree[n].question]) /\ Admits(cured[tree[n].question])

\* the nodes all of whose leaves are of X admit
AdmitsBelow(tree, R, C, X) ==
  \A n \in DOMAIN tree : R[n].leaves \subseteq X => C[n].satisfied = "yes"

(* Were all leaves below a node to admit, it would.                        *)
LEMMA AllCured ==
  ASSUME NEW tree, IsTree(tree), NEW known \in Answers(tree), NEW lazy, NEW cured, NEW X,
         Cures(tree, known, cured, X),
         NEW R, IsRun(R, tree, known, lazy), NEW C, IsRun(C, tree, cured, FALSE)
  PROVE  AdmitsBelow(tree, R, C, X)
<1> DEFINE S == {n \in DOMAIN tree : R[n].leaves \subseteq X => C[n].satisfied = "yes"}
<1>1. ASSUME NEW n \in DOMAIN tree, tree[n].kind = "leaf" PROVE n \in S
  <2>1. /\ LeafFields(R[n], n, tree[n].question, known[tree[n].question])
        /\ LeafFields(C[n], n, tree[n].question, cured[tree[n].question])
    BY <1>1, LeafAt DEF Cures
  <2>2. SUFFICES ASSUME R[n].leaves \subseteq X PROVE C[n].satisfied = "yes"
    OBVIOUS
  <2>3. n \in X \cap Leaves(tree)
    BY <1>1, <2>1, <2>2 DEF LeafFields, Leaves
  <2>4. Evaluated(cured[tree[n].question]) /\ Admits(cured[tree[n].question])
    BY <2>3 DEF Cures
  <2>5. QED
    BY <2>1, <2>4 DEF LeafFields
<1>2. ASSUME NEW n \in DOMAIN tree, tree[n].kind # "leaf",
             \A i \in DOMAIN tree[n].children : tree[n].children[i] \in S
      PROVE  n \in S
  <2> DEFINE k == Len(tree[n].children)
             results == Children(tree, n, R)
             cured_results == Children(tree, n, C)
  <2>1. IsBranchAt(R, tree, n, lazy, results, k) /\ IsBranchAt(C, tree, n, FALSE, cured_results, k)
    BY <1>2, BranchAt
  <2> HIDE DEF k, results, cured_results
  <2>2. \A i \in 1..k : results[i].leaves \subseteq X => cured_results[i].satisfied = "yes"
    BY <1>2, <2>1 DEF IsBranchAt
  <2>3. R[n].leaves = UNION {results[i].leaves : i \in 1..k}
    <3>1. HasFields(R[n], tree[n].kind, results, lazy)
      BY <2>1, BranchFields DEF IsBranchAt
    <3>2. DOMAIN results = 1..k
      BY <2>1 DEF IsBranchAt
    <3>3. QED
      BY <3>1, <3>2 DEF HasFields
  <2>4. SUFFICES ASSUME R[n].leaves \subseteq X PROVE C[n].satisfied = "yes"
    OBVIOUS
  <2>5. \A i \in 1..k : cured_results[i].satisfied = "yes"
    BY <2>2, <2>3, <2>4
  <2>6. FoldsAll(C[n], tree[n].kind, k, cured_results)
    BY <2>1, EagerBranch DEF IsBranchAt
  <2>7. tree[n].kind \in {"all", "any"} /\ 1 \in 1..k
    BY <2>1 DEF IsBranchAt
  <2>8. QED
    BY <2>5, <2>6, <2>7 DEF FoldsAll
<1>3. DOMAIN tree \subseteq S
  <2> HIDE DEF S
  <2> QED BY <1>1, <1>2, NodeInduction
<1>4. QED
  BY <1>3 DEF AdmitsBelow

\* the nodes that want leaves of X only admit
AdmitsWanting(tree, R, C, X) ==
  \A n \in DOMAIN tree : Wanting(R[n]) \subseteq X => C[n].satisfied = "yes"

(* Were those to admit that a node wants, it would.                        *)
LEMMA WantedCured ==
  ASSUME NEW tree, IsTree(tree), NEW known \in Answers(tree), NEW lazy \in BOOLEAN, NEW cured, NEW X,
         Cures(tree, known, cured, X),
         NEW R, IsRun(R, tree, known, lazy), NEW C, IsRun(C, tree, cured, FALSE)
  PROVE  AdmitsWanting(tree, R, C, X)
<1> DEFINE S == {n \in DOMAIN tree : Wanting(R[n]) \subseteq X => C[n].satisfied = "yes"}
<1>1. ASSUME NEW n \in DOMAIN tree, tree[n].kind = "leaf" PROVE n \in S
  <2>1. /\ LeafFields(R[n], n, tree[n].question, known[tree[n].question])
        /\ LeafFields(C[n], n, tree[n].question, cured[tree[n].question])
        /\ tree[n].question \in gateLeaves(tree)
    BY <1>1, LeafAt DEF Cures
  <2>2. SUFFICES ASSUME Wanting(R[n]) \subseteq X PROVE C[n].satisfied = "yes"
    OBVIOUS
  <2>3. Evaluated(cured[tree[n].question]) /\ Admits(cured[tree[n].question])
    <3>1. CASE Evaluated(known[tree[n].question]) /\ Admits(known[tree[n].question])
      BY <2>1, <3>1 DEF Cures
    <3>2. CASE ~ (Evaluated(known[tree[n].question]) /\ Admits(known[tree[n].question]))
      <4>1. R[n].blame = {n} \/ R[n].unevaluated = {n}
        BY <2>1, <3>2 DEF LeafFields
      <4>2. n \in X \cap Leaves(tree)
        BY <1>1, <2>2, <4>1 DEF Wanting, Leaves
      <4>3. QED
        BY <4>2 DEF Cures
    <3>3. QED
      BY <3>1, <3>2
  <2>4. QED
    BY <2>1, <2>3 DEF LeafFields
<1>2. ASSUME NEW n \in DOMAIN tree, tree[n].kind # "leaf",
             \A i \in DOMAIN tree[n].children : tree[n].children[i] \in S
      PROVE  n \in S
  <2> DEFINE k == Len(tree[n].children)
             results == Children(tree, n, R)
             cured_results == Children(tree, n, C)
  <2>1. IsBranchAt(R, tree, n, lazy, results, k) /\ IsBranchAt(C, tree, n, FALSE, cured_results, k)
    BY <1>2, BranchAt
  <2> HIDE DEF k, results, cured_results
  <2>2. \A i \in 1..k :
          /\ results[i].leaves \subseteq X => cured_results[i].satisfied = "yes"
          /\ Wanting(results[i]) \subseteq X => cured_results[i].satisfied = "yes"
    <3>1. \A i \in 1..k : tree[n].children[i] \in S
      <4> HIDE DEF S
      <4> QED BY <1>2, <2>1 DEF IsBranchAt
    <3>2. \A i \in 1..k : Wanting(results[i]) \subseteq X => cured_results[i].satisfied = "yes"
      BY <2>1, <3>1 DEF IsBranchAt
    <3>3. AdmitsBelow(tree, R, C, X)
      BY AllCured
    <3>4. \A i \in 1..k : results[i].leaves \subseteq X => cured_results[i].satisfied = "yes"
      BY <2>1, <3>3 DEF IsBranchAt, AdmitsBelow
    <3>5. QED
      BY <3>2, <3>4
  <2>3. \A i \in 1..k : results[i].satisfied # "no" => results[i].blame = {}
    BY <2>1, RefusalsBlame DEF IsBranchAt
  <2>4. /\ tree[n].kind \in {"all", "any"} /\ k \in Nat \ {0} /\ results \in [1..k -> Result]
        /\ R[n] = BranchResult(tree[n].kind, results, lazy)
    BY <2>1 DEF IsBranchAt
  <2>5. WantsEnough(R[n], tree[n].kind, k, results)
    BY <2>3, <2>4, WantingBranch
  <2>6. SUFFICES ASSUME Wanting(R[n]) \subseteq X PROVE C[n].satisfied = "yes"
    OBVIOUS
  <2>7. /\ tree[n].kind = "all" => \A i \in 1..k : cured_results[i].satisfied = "yes"
        /\ tree[n].kind = "any" => \E i \in 1..k : cured_results[i].satisfied = "yes"
    BY <2>2, <2>5, <2>6 DEF WantsEnough, Covered
  <2>8. FoldsAll(C[n], tree[n].kind, k, cured_results)
    BY <2>1, EagerBranch DEF IsBranchAt
  <2>9. QED
    BY <2>4, <2>7, <2>8 DEF FoldsAll
<1>3. DOMAIN tree \subseteq S
  <2> HIDE DEF S
  <2> QED BY <1>1, <1>2, NodeInduction
<1>4. QED
  BY <1>3 DEF AdmitsWanting

(* A lazy evaluation asks next what has not been asked.                    *)
LEMMA NextIsUnread ==
  ASSUME NEW tree, IsTree(tree), NEW known \in Answers(tree), NEW lazy, NEW R, IsRun(R, tree, known, lazy)
  PROVE  \A n \in DOMAIN tree : R[n].next \subseteq {q \in gateLeaves(tree) : known[q] = Unread}
<1> DEFINE S == {n \in DOMAIN tree : R[n].next \subseteq {q \in gateLeaves(tree) : known[q] = Unread}}
<1>1. ASSUME NEW n \in DOMAIN tree, tree[n].kind = "leaf" PROVE n \in S
  <2>1. /\ LeafFields(R[n], n, tree[n].question, known[tree[n].question])
        /\ tree[n].question \in gateLeaves(tree)
    BY <1>1, LeafAt
  <2>2. R[n].next \subseteq {q \in gateLeaves(tree) : known[q] = Unread}
    BY <2>1 DEF LeafFields
  <2>3. QED
    BY <2>2
<1>2. ASSUME NEW n \in DOMAIN tree, tree[n].kind # "leaf",
             \A i \in DOMAIN tree[n].children : tree[n].children[i] \in S
      PROVE  n \in S
  <2>1. PICK results, k : IsBranchAt(R, tree, n, lazy, results, k)
    BY <1>2, BranchAt
  <2>2. \A i \in 1..k : results[i].next \subseteq {q \in gateLeaves(tree) : known[q] = Unread}
    BY <1>2, <2>1 DEF IsBranchAt
  <2>3. DOMAIN results = 1..k
    BY <2>1 DEF IsBranchAt
  <2>4. HasFields(R[n], tree[n].kind, results, lazy)
    BY <2>1, BranchFields DEF IsBranchAt
  <2>5. R[n].next \subseteq UNION {results[i].next : i \in 1..k}
    BY <2>3, <2>4 DEF HasFields
  <2>6. R[n].next \subseteq {q \in gateLeaves(tree) : known[q] = Unread}
    BY <2>2, <2>5
  <2>7. QED
    BY <2>6
<1>3. DOMAIN tree \subseteq S
  <2> HIDE DEF S
  <2> QED BY <1>1, <1>2, NodeInduction
<1>4. QED
  BY <1>3

----------------------------------------------------------------------------
(* The root.                                                               *)

LEMMA RootRun ==
  ASSUME NEW tree, IsTree(tree), NEW known \in Answers(tree), NEW lazy \in BOOLEAN
  PROVE  \E R : /\ IsRun(R, tree, known, lazy)
                /\ Evaluate(tree, known, lazy) = R[Len(tree)]
                /\ Len(tree) \in DOMAIN tree
<1>1. IsRun(Run(tree, known, lazy), tree, known, lazy)
  BY RunUnfolds
<1>2. Len(tree) \in DOMAIN tree
  BY DEF IsTree
<1>3. QED
  BY <1>1, <1>2 DEF Evaluate

\* every completion is evaluated to the verdict given
AllComeTo(tree, known, verdict) ==
  \A full : Completes(tree, known, full) => Evaluate(tree, full, FALSE).satisfied = verdict

\* every completion blames the sender
AllBlame(tree, known) ==
  \A full : Completes(tree, known, full) => Evaluate(tree, full, FALSE).penalize

(* A completion is decided, and there is one.                              *)
LEMMA CompletionDecided ==
  ASSUME NEW tree, IsTree(tree), NEW known \in Answers(tree), NEW full, Completes(tree, known, full)
  PROVE  Evaluate(tree, full, FALSE).satisfied \in {"yes", "no"}
<1>1. full \in Answers(tree) /\ \A q \in gateLeaves(tree) : Evaluated(full[q])
  BY CompletesAnswers DEF Completes
<1>2. PICK F : /\ IsRun(F, tree, full, FALSE)
               /\ Evaluate(tree, full, FALSE) = F[Len(tree)]
               /\ Len(tree) \in DOMAIN tree
  BY <1>1, RootRun
<1>3. QED
  BY <1>1, <1>2, CompleteIsDecided

LEMMA RootLazy ==
  ASSUME NEW tree, IsTree(tree), NEW known \in Answers(tree),
         \A q \in gateLeaves(tree) : known[q] # Threw,
         NEW D, D = Evaluate(tree, known, TRUE), D.next = {}
  PROVE  /\ D.satisfied \in {"yes", "no"} /\ AllComeTo(tree, known, D.satisfied)
         /\ D.penalize => AllBlame(tree, known)
<1>1. PICK L : /\ IsRun(L, tree, known, TRUE)
               /\ D = L[Len(tree)] /\ Len(tree) \in DOMAIN tree
  BY RootRun
<1>2. ASSUME NEW full, Completes(tree, known, full)
      PROVE  /\ D.satisfied \in {"yes", "no"} /\ Evaluate(tree, full, FALSE).satisfied = D.satisfied
             /\ D.penalize => Evaluate(tree, full, FALSE).penalize
  <2>1. full \in Answers(tree)
    BY <1>2, CompletesAnswers DEF Completes
  <2>2. PICK F : /\ IsRun(F, tree, full, FALSE)
                 /\ Evaluate(tree, full, FALSE) = F[Len(tree)]
    BY <2>1, RootRun
  <2>3. Agree(tree, L, F)
    BY <1>1, <1>2, <2>2, LazyAgrees
  <2>4. QED
    BY <1>1, <2>2, <2>3 DEF Agree
<1>3. \E full : Completes(tree, known, full)
  <2>1. Refuse(TRUE) \in Answer
    BY DEF Answer
  <2>2. QED
    BY <2>1, CompletionExists
<1>4. QED
  BY <1>2, <1>3 DEF AllComeTo, AllBlame

LEMMA RootDecided ==
  ASSUME NEW tree, IsTree(tree), NEW known \in Answers(tree),
         NEW D, D = Evaluate(tree, known, FALSE), D.satisfied # "unknown"
  PROVE  AllComeTo(tree, known, D.satisfied)
<1>1. PICK K : /\ IsRun(K, tree, known, FALSE)
               /\ D = K[Len(tree)] /\ Len(tree) \in DOMAIN tree
  BY RootRun
<1>2. ASSUME NEW full, Completes(tree, known, full)
      PROVE  Evaluate(tree, full, FALSE).satisfied = D.satisfied
  <2>1. full \in Answers(tree)
    BY <1>2, CompletesAnswers DEF Completes
  <2>2. PICK F : /\ IsRun(F, tree, full, FALSE)
                 /\ Evaluate(tree, full, FALSE) = F[Len(tree)]
    BY <2>1, RootRun
  <2>3. Upholds(tree, K, F)
    BY <1>1, <1>2, <2>2, Monotone
  <2>4. QED
    BY <1>1, <2>2, <2>3 DEF Upholds
<1>3. QED
  BY <1>2 DEF AllComeTo

(* An open verdict means both are possible.                                *)
LEMMA RootUndecided ==
  ASSUME NEW tree, IsTree(tree), NEW known \in Answers(tree),
         Evaluate(tree, known, FALSE).satisfied = "unknown", NEW v \in {"yes", "no"}
  PROVE  \E full : Completes(tree, known, full) /\ Evaluate(tree, full, FALSE).satisfied = v
<1> DEFINE answer == IF v = "yes" THEN Pass(1) ELSE Refuse(TRUE)
           full == [q \in gateLeaves(tree) |-> IF Evaluated(known[q]) THEN known[q] ELSE answer]
<1>1. 1 \in 0..MaxScore
  BY GateAssumption DEF GateAssumption
<1>2. answer \in Answer /\ (Admits(answer) <=> v = "yes")
  <2>1. CASE v = "yes"
    <3>1. answer \in Answer
      BY <1>1, <2>1 DEF Answer
    <3>2. answer.success = TRUE /\ answer.score = 1
      BY <2>1 DEF Pass
    <3>3. Admits(answer)
      <4> HIDE DEF answer
      <4>1. answer.score > 0
        BY <3>2
      <4>2. QED
        BY <3>2, <4>1, Zenon DEF Admits
    <3>4. QED
      BY <2>1, <3>1, <3>3
  <2>2. CASE v = "no"
    <3>1. answer \in Answer
      BY <2>2 DEF Answer
    <3>2. answer.success = FALSE
      BY <2>2 DEF Refuse
    <3>3. ~ Admits(answer)
      BY <3>2 DEF Admits
    <3>4. QED
      BY <2>2, <3>1, <3>3
  <2>3. QED
    BY <2>1, <2>2
<1> HIDE DEF answer
<1>3. Completes(tree, known, full)
  BY <1>2, CompletionExists
<1>4. \A q \in gateLeaves(tree) : ~ Evaluated(known[q]) => full[q] = answer
  OBVIOUS
<1> HIDE DEF full
<1>5. \A q \in gateLeaves(tree) : ~ Evaluated(known[q]) => (Admits(full[q]) <=> v = "yes")
  BY <1>2, <1>4
<1>6. PICK K : /\ IsRun(K, tree, known, FALSE)
               /\ Evaluate(tree, known, FALSE) = K[Len(tree)] /\ Len(tree) \in DOMAIN tree
  BY RootRun
<1>7. full \in Answers(tree)
  BY <1>3, CompletesAnswers DEF Completes
<1>8. PICK F : /\ IsRun(F, tree, full, FALSE)
               /\ Evaluate(tree, full, FALSE) = F[Len(tree)]
  BY <1>7, RootRun
<1>9. Tips(tree, K, F, v)
  BY <1>3, <1>5, <1>6, <1>8, Undecided
<1>10. Evaluate(tree, full, FALSE).satisfied = v
  BY <1>6, <1>8, <1>9 DEF Tips
<1>11. QED
  BY <1>3, <1>10

(* Read completely and without failure, a tree is decided.                 *)
LEMMA RootComplete ==
  ASSUME NEW tree, IsTree(tree), NEW known \in Answers(tree),
         \A q \in gateLeaves(tree) : known[q] # Unread,
         Evaluate(tree, known, FALSE).satisfied = "unknown"
  PROVE  \E q \in gateLeaves(tree) : known[q] = Threw
<1> SUFFICES ASSUME \A q \in gateLeaves(tree) : known[q] # Threw PROVE FALSE
  OBVIOUS
<1>1. \A q \in gateLeaves(tree) : known[q] \in Known
  BY DEF Answers
<1>2. \A q \in gateLeaves(tree) : Evaluated(known[q])
  BY <1>1, AnswerFields DEF Evaluated
<1>3. PICK K : /\ IsRun(K, tree, known, FALSE)
               /\ Evaluate(tree, known, FALSE) = K[Len(tree)] /\ Len(tree) \in DOMAIN tree
  BY RootRun
<1>4. K[Len(tree)].satisfied \in {"yes", "no"}
  BY <1>2, <1>3, CompleteIsDecided
<1>5. QED
  BY <1>3, <1>4

LEMMA RootBlame ==
  ASSUME NEW tree, IsTree(tree), NEW known \in Answers(tree), NEW lazy \in BOOLEAN,
         NEW D, D = Evaluate(tree, known, lazy), D.penalize,
         NEW full \in [gateLeaves(tree) -> Answer],
         \A n \in D.blame : Blamable(known[tree[n].question]) => ~ Admits(full[tree[n].question])
  PROVE  Evaluate(tree, full, FALSE).satisfied = "no"
<1>1. PICK R : /\ IsRun(R, tree, known, lazy)
               /\ D = R[Len(tree)] /\ Len(tree) \in DOMAIN tree
  BY RootRun
<1>2. full \in Answers(tree)
  BY CompletesAnswers
<1>3. PICK F : /\ IsRun(F, tree, full, FALSE)
               /\ Evaluate(tree, full, FALSE) = F[Len(tree)]
  BY <1>2, RootRun
<1>4. Follows(tree, R, F, D.blame)
  BY <1>1, <1>3, BlameConvinces
<1>5. QED
  BY <1>1, <1>3, <1>4 DEF Follows

LEMMA RootCured ==
  ASSUME NEW tree, IsTree(tree), NEW known \in Answers(tree), NEW lazy \in BOOLEAN,
         NEW D, D = Evaluate(tree, known, lazy), NEW cured, Cures(tree, known, cured, Wanting(D))
  PROVE  LET result == Evaluate(tree, cured, FALSE) IN result.satisfied = "yes" /\ result.score > 0
<1>1. PICK R : /\ IsRun(R, tree, known, lazy)
               /\ D = R[Len(tree)] /\ Len(tree) \in DOMAIN tree
  BY RootRun
<1>2. cured \in Answers(tree)
  BY DEF Cures
<1>3. PICK C : /\ IsRun(C, tree, cured, FALSE)
               /\ Evaluate(tree, cured, FALSE) = C[Len(tree)]
  BY <1>2, RootRun
<1>4. AdmitsWanting(tree, R, C, Wanting(D))
  BY <1>1, <1>3, WantedCured
<1>5. Evaluate(tree, cured, FALSE).satisfied = "yes"
  BY <1>1, <1>3, <1>4 DEF AdmitsWanting
<1>6. \A n \in DOMAIN tree : C[n].satisfied = "yes" => C[n].score > 0
  BY <1>2, <1>3, AdmittedScores
<1>7. QED
  BY <1>1, <1>3, <1>5, <1>6

----------------------------------------------------------------------------
(* The invariant.                                                          *)

(* A read that failed ends the fold at once, unless failures are           *)
(* tolerated.                                                              *)
NoneFailed == \A q \in gateLeaves(rules) : got[q] # Threw

AllRead == \A q \in gateLeaves(rules) : got[q] # Unread

PendingShape == phase = "pending" /\ mode # "tolerant" => NoneFailed

(* A decision is what the answers read come to.                            *)
FoldedShape ==
  Folded =>
    /\ decision = Evaluate(rules, got, mode = "lazy") /\ decision.satisfied # "unknown"
    /\ mode = "lazy" => decision.next = {} /\ NoneFailed

(* The error the caller gets is that of a read.                            *)
ThrownShape ==
  phase = "thrown" =>
    /\ \E q \in gateLeaves(rules) : got[q] = Threw
    /\ mode = "tolerant" => Evaluate(rules, got, FALSE).satisfied = "unknown"

GateIInv == GateTypeOK /\ PendingShape /\ FoldedShape /\ ThrownShape

(* The rules in force make a tree, and what was read answers it.           *)
LEMMA RulesAreTree ==
  ASSUME GateTypeOK
  PROVE  IsTree(rules) /\ got \in Answers(rules)
<1>1. IsTree(rules)
  BY GateAssumption DEF GateTypeOK, GateAssumption, IsTree
<1>2. got \in [Question -> Known]
  BY DEF GateTypeOK, Known
<1>3. gateLeaves(rules) \subseteq Question
  BY <1>1, CompletesAnswers
<1>4. Question \in {T \in SUBSET Question : gateLeaves(rules) \subseteq T}
  BY <1>3
<1>5. \E S \in {T \in SUBSET Question : gateLeaves(rules) \subseteq T} : got \in [S -> Known]
  BY <1>2, <1>4
<1>6. got \in Answers(rules)
  BY <1>5, Zenon DEF Answers
<1>7. QED
  BY <1>1, <1>6

(* What a tree is evaluated to is a result.                                *)
LEMMA RootTypes ==
  ASSUME NEW tree, IsTree(tree), NEW known \in Answers(tree), NEW lazy \in BOOLEAN
  PROVE  LET D == Evaluate(tree, known, lazy) IN
         D.satisfied \in Verdict /\ D.next \subseteq {q \in gateLeaves(tree) : known[q] = Unread}
<1>1. PICK R : /\ IsRun(R, tree, known, lazy)
               /\ Evaluate(tree, known, lazy) = R[Len(tree)]
               /\ Len(tree) \in DOMAIN tree
  BY RootRun
<1>2. R[Len(tree)].next \subseteq {q \in gateLeaves(tree) : known[q] = Unread}
  BY <1>1, NextIsUnread
<1>3. R[Len(tree)] \in Result
  BY <1>1 DEF IsRun
<1>4. QED
  BY <1>1, <1>2, <1>3 DEF Result

LEMMA GateInitInvariant ==
  ASSUME GateInit
  PROVE  GateIInv
<1>1. Unread # Threw
  BY DEF Unread, Threw
<1>2. /\ rules \in Gates /\ mode \in {"lazy", "all", "tolerant"}
      /\ got = [q \in Question |-> Unread] /\ asked = {} /\ phase = "pending"
      /\ decision.satisfied = "unknown"
  BY DEF GateInit
<1>3. GateTypeOK
  BY <1>2 DEF GateTypeOK
<1>4. gateLeaves(rules) \subseteq Question
  BY <1>3, RulesAreTree, CompletesAnswers
<1>5. NoneFailed
  BY <1>1, <1>2, <1>4 DEF NoneFailed
<1>6. QED
  BY <1>2, <1>3, <1>5 DEF GateIInv, PendingShape, FoldedShape, ThrownShape, Folded

LEMMA AskInvariant ==
  ASSUME GateIInv, Ask
  PROVE  GateIInv'
<1>1. phase = "pending" /\ UNCHANGED <<rules, mode, got, phase, decision>>
  BY DEF Ask
<1>2. asked' \subseteq {q \in gateLeaves(rules) : got[q] = Unread}
  <2>1. CASE mode = "lazy"
    BY <2>1, RulesAreTree, RootTypes DEF Ask, GateIInv
  <2>2. CASE mode # "lazy"
    BY <2>2 DEF Ask
  <2>3. QED
    BY <2>1, <2>2
<1>3. GateTypeOK'
  BY <1>1, <1>2 DEF GateIInv, GateTypeOK
<1>4. PendingShape' /\ FoldedShape' /\ ThrownShape'
  BY <1>1 DEF GateIInv, PendingShape, FoldedShape, ThrownShape, Folded, NoneFailed
<1>5. QED
  BY <1>3, <1>4 DEF GateIInv

LEMMA ReadInvariant ==
  ASSUME GateIInv, NEW q \in Question, Answered(q) \/ ReadThrows(q)
  PROVE  GateIInv'
<1>1. /\ phase = "pending" /\ q \in asked /\ asked' = asked \ {q}
      /\ UNCHANGED <<rules, mode, decision>>
  BY DEF Answered, ReadThrows
<1>2. PICK answer \in Known :
        /\ got' = [got EXCEPT ![q] = answer]
        /\ Answered(q) => answer \in Answer /\ phase' = phase
        /\ ReadThrows(q) =>
             answer = Threw /\ phase' = IF mode = "tolerant" THEN phase ELSE "thrown"
        /\ Answered(q) \/ ReadThrows(q)
  <2>1. CASE Answered(q) /\ ~ ReadThrows(q)
    BY <2>1 DEF Answered, Known
  <2>2. CASE ReadThrows(q) /\ ~ Answered(q)
    BY <2>2 DEF ReadThrows, Known
  <2>3. CASE ReadThrows(q) /\ Answered(q)
    <3>1. PICK answer \in Answer : got' = [got EXCEPT ![q] = answer]
      BY <2>3 DEF Answered
    <3>2. got'[q] = answer /\ got'[q] = Threw
      BY <2>3, <3>1 DEF ReadThrows, GateIInv, GateTypeOK
    <3>3. QED
      BY <2>3, <3>1, <3>2 DEF ReadThrows, Answered, Known
  <2>4. QED
    BY <2>1, <2>2, <2>3
<1>3. got \in [Question -> Known] /\ got' \in [Question -> Known]
  BY <1>2 DEF GateIInv, GateTypeOK, Known
<1>4. got'[q] = answer /\ \A r \in Question : r # q => got'[r] = got[r]
  BY <1>2, <1>3
<1>5. gateLeaves(rules) \subseteq Question
  BY RulesAreTree, CompletesAnswers DEF GateIInv
<1>6. GateTypeOK'
  <2>1. asked' \subseteq {r \in gateLeaves(rules) : got'[r] = Unread}
    BY <1>1, <1>4, <1>5 DEF GateIInv, GateTypeOK
  <2>2. phase' \in {"pending", "folded", "thrown"}
    BY <1>2 DEF GateIInv, GateTypeOK
  <2>3. QED
    BY <1>1, <1>3, <2>1, <2>2 DEF GateIInv, GateTypeOK, Known
<1>7. phase' # "folded"
  BY <1>1, <1>2
<1>8. PendingShape'
  <2>1. SUFFICES ASSUME phase' = "pending", mode # "tolerant" PROVE NoneFailed'
    BY <1>1 DEF PendingShape
  <2>2. answer \in Answer
    BY <1>2, <2>1
  <2>3. answer # Threw
    BY <2>2, AnswerFields DEF Threw
  <2>4. NoneFailed
    BY <1>1, <2>1 DEF GateIInv, PendingShape
  <2>5. QED
    BY <1>1, <1>4, <1>5, <2>3, <2>4 DEF NoneFailed
<1>9. ThrownShape'
  <2>1. SUFFICES ASSUME phase' = "thrown"
                 PROVE  (\E r \in gateLeaves(rules) : got'[r] = Threw) /\ mode # "tolerant"
    BY <1>1 DEF ThrownShape
  <2>2. ReadThrows(q) /\ mode # "tolerant"
    BY <1>1, <1>2, <2>1
  <2>3. q \in gateLeaves(rules) /\ got'[q] = Threw
    BY <1>1, <1>2, <1>4, <2>2 DEF GateIInv, GateTypeOK
  <2>4. QED
    BY <2>2, <2>3
<1>10. QED
  BY <1>6, <1>7, <1>8, <1>9 DEF GateIInv, FoldedShape, Folded

(* The fold: what it throws for is the want of an answer, which only a     *)
(* failed read leaves.                                                     *)
LEMMA FoldInvariant ==
  ASSUME GateIInv, Fold
  PROVE  GateIInv'
<1> DEFINE D == Evaluate(rules, got, mode = "lazy")
<1>1. /\ phase = "pending" /\ decision' = D
      /\ phase' = IF D.satisfied = "unknown" THEN "thrown" ELSE "folded"
      /\ UNCHANGED <<rules, mode, got, asked>>
  BY DEF Fold
<1>2. IsTree(rules) /\ got \in Answers(rules) /\ (mode = "lazy") \in BOOLEAN
  BY RulesAreTree DEF GateIInv
<1>3. D.satisfied \in Verdict
  BY <1>2, RootTypes
<1>4. GateTypeOK'
  BY <1>1, <1>3 DEF GateIInv, GateTypeOK, Verdict
<1>5. PendingShape'
  BY <1>1 DEF PendingShape
<1>6. mode = "lazy" => D = Evaluate(rules, got, TRUE) /\ D.next = {} /\ NoneFailed
  BY <1>1 DEF GateIInv, PendingShape, Fold
<1>7. mode # "lazy" => D = Evaluate(rules, got, FALSE) /\ AllRead
  BY DEF Fold, AllRead
<1> HIDE DEF D
<1>8. FoldedShape'
  <2>1. SUFFICES ASSUME phase' = "folded"
                 PROVE  /\ D = Evaluate(rules, got, mode = "lazy") /\ D.satisfied # "unknown"
                        /\ mode = "lazy" => D.next = {} /\ NoneFailed
    BY <1>1 DEF FoldedShape, Folded, NoneFailed
  <2>2. D.satisfied # "unknown"
    BY <1>1, <2>1
  <2>3. QED
    BY <1>6, <2>2 DEF D
<1>9. ThrownShape'
  <2>1. SUFFICES ASSUME D.satisfied = "unknown"
                 PROVE  /\ \E q \in gateLeaves(rules) : got[q] = Threw
                        /\ mode = "tolerant" => Evaluate(rules, got, FALSE).satisfied = "unknown"
    BY <1>1 DEF ThrownShape
  <2>2. mode # "lazy"
    BY <1>2, <1>6, <2>1, RootLazy DEF NoneFailed
  <2>3. \E q \in gateLeaves(rules) : got[q] = Threw
    BY <1>2, <1>7, <2>1, <2>2, RootComplete DEF AllRead
  <2>4. QED
    BY <1>7, <2>1, <2>2, <2>3
<1>10. QED
  BY <1>4, <1>5, <1>8, <1>9 DEF GateIInv

LEMMA GateInvariant == GateSpec => []GateIInv
<1>1. GateInit => GateIInv
  BY GateInitInvariant
<1>2. GateIInv /\ [GateNext]_gateVars => GateIInv'
  <2>1. SUFFICES ASSUME GateIInv, [GateNext]_gateVars PROVE GateIInv'
    OBVIOUS
  <2>2. CASE Ask
    BY <2>1, <2>2, AskInvariant
  <2>3. CASE Fold
    BY <2>1, <2>3, FoldInvariant
  <2>4. CASE \E q \in Question : Answered(q) \/ ReadThrows(q)
    BY <2>1, <2>4, ReadInvariant
  <2>5. CASE UNCHANGED gateVars
    BY <2>1, <2>5 DEF gateVars, GateIInv, GateTypeOK, PendingShape, FoldedShape, ThrownShape, Folded,
                      NoneFailed
  <2>6. QED
    BY <2>1, <2>2, <2>3, <2>4, <2>5 DEF GateNext
<1>3. QED
  BY <1>1, <1>2, PTL DEF GateSpec

----------------------------------------------------------------------------
(* What the invariant says of the verdicts.                                *)

LEMMA CompletionsComplete ==
  ASSUME NEW full
  PROVE  full \in Completions <=> Completes(rules, got, full)
  BY DEF Completions, Completes

LEMMA FoldedComesTo ==
  ASSUME GateIInv, Folded
  PROVE  AllComeTo(rules, got, decision.satisfied)
<1>1. IsTree(rules) /\ got \in Answers(rules)
  BY RulesAreTree DEF GateIInv
<1>2. CASE mode = "lazy"
  <2>1. decision = Evaluate(rules, got, TRUE) /\ decision.next = {} /\ NoneFailed
    BY <1>2 DEF GateIInv, FoldedShape
  <2>2. QED
    BY <1>1, <2>1, RootLazy DEF NoneFailed
<1>3. CASE mode # "lazy"
  <2>1. decision = Evaluate(rules, got, FALSE) /\ decision.satisfied # "unknown"
    BY <1>3 DEF GateIInv, FoldedShape
  <2>2. QED
    BY <1>1, <2>1, RootDecided
<1>4. QED
  BY <1>2, <1>3

LEMMA LazyFromInvariant == GateIInv => LazyIsFull
<1> SUFFICES ASSUME GateIInv, Folded, mode = "lazy", NEW full \in Completions
             PROVE  /\ Evaluate(rules, full, FALSE).satisfied = decision.satisfied
                    /\ decision.penalize => Evaluate(rules, full, FALSE).penalize
  BY DEF LazyIsFull
<1>1. IsTree(rules) /\ got \in Answers(rules) /\ Completes(rules, got, full)
  BY RulesAreTree, CompletionsComplete DEF GateIInv
<1>2. decision = Evaluate(rules, got, TRUE) /\ decision.next = {} /\ NoneFailed
  BY DEF GateIInv, FoldedShape
<1>3. Evaluate(rules, full, FALSE).satisfied = decision.satisfied
  BY <1>1, FoldedComesTo DEF AllComeTo
<1>4. ASSUME decision.penalize PROVE Evaluate(rules, full, FALSE).penalize
  <2>1. AllBlame(rules, got)
    BY <1>1, <1>2, <1>4, RootLazy DEF NoneFailed
  <2>2. QED
    BY <1>1, <2>1 DEF AllBlame
<1>5. QED
  BY <1>3, <1>4

LEMMA OutagesFromInvariant == GateIInv => OutagesDecideNothing
<1> DEFINE verdicts == {Evaluate(rules, full, FALSE).satisfied : full \in Completions}
<1> SUFFICES ASSUME GateIInv
             PROVE  /\ Folded => verdicts = {decision.satisfied}
                    /\ phase = "thrown" => \E q \in gateLeaves(rules) : got[q] = Threw
                    /\ phase = "thrown" /\ mode = "tolerant" => Cardinality(verdicts) > 1
  BY DEF OutagesDecideNothing
<1>1. IsTree(rules) /\ got \in Answers(rules)
  BY RulesAreTree DEF GateIInv
<1>2. ASSUME Folded PROVE verdicts = {decision.satisfied}
  <2>1. \A full \in Completions : Evaluate(rules, full, FALSE).satisfied = decision.satisfied
    BY <1>2, FoldedComesTo, CompletionsComplete DEF AllComeTo
  <2>2. \E full : full \in Completions
    <3>1. Refuse(TRUE) \in Answer
      BY DEF Answer
    <3>2. QED
      BY <1>1, <3>1, CompletionExists, CompletionsComplete
  <2>3. QED
    BY <2>1, <2>2
<1>3. phase = "thrown" => \E q \in gateLeaves(rules) : got[q] = Threw
  BY DEF GateIInv, ThrownShape
<1>4. ASSUME phase = "thrown", mode = "tolerant" PROVE Cardinality(verdicts) > 1
  <2>1. Evaluate(rules, got, FALSE).satisfied = "unknown"
    BY <1>4 DEF GateIInv, ThrownShape
  <2>2. "yes" \in verdicts
    <3>1. PICK full : Completes(rules, got, full) /\ Evaluate(rules, full, FALSE).satisfied = "yes"
      BY <1>1, <2>1, RootUndecided
    <3>2. QED
      BY <3>1, CompletionsComplete
  <2>3. "no" \in verdicts
    <3>1. PICK full : Completes(rules, got, full) /\ Evaluate(rules, full, FALSE).satisfied = "no"
      BY <1>1, <2>1, RootUndecided
    <3>2. QED
      BY <3>1, CompletionsComplete
  <2>4. verdicts \subseteq {"yes", "no"}
    BY <1>1, CompletionDecided, CompletionsComplete
  <2> HIDE DEF verdicts
  <2>5. verdicts = {"yes"} \cup {"no"} /\ "no" \notin {"yes"}
    BY <2>2, <2>3, <2>4
  <2>6. Cardinality(verdicts) = 1 + 1
    <3>1. IsFiniteSet({"yes"}) /\ Cardinality({"yes"}) = 1
      BY FS_Singleton
    <3>2. Cardinality({"yes"} \cup {"no"}) = Cardinality({"yes"}) + 1
      BY <2>5, <3>1, FS_AddElement
    <3>3. QED
      BY <2>5, <3>1, <3>2
  <2>7. QED
    BY <2>6
<1>5. QED
  BY <1>2, <1>3, <1>4

LEMMA BlamedFromInvariant == GateIInv => BlamedRefusalsAreCertain
<1> SUFFICES ASSUME GateIInv, Folded, decision.penalize, NEW other \in [gateLeaves(rules) -> Answer],
                    \A n \in decision.blame :
                      Blamable(got[rules[n].question]) => ~ Admits(other[rules[n].question])
             PROVE  Evaluate(rules, other, FALSE).satisfied = "no"
  BY DEF BlamedRefusalsAreCertain
<1>1. IsTree(rules) /\ got \in Answers(rules) /\ (mode = "lazy") \in BOOLEAN
  BY RulesAreTree DEF GateIInv
<1>2. decision = Evaluate(rules, got, mode = "lazy")
  BY DEF GateIInv, FoldedShape
<1>3. QED
  BY <1>1, <1>2, RootBlame

LEMMA CuredFromInvariant == GateIInv => BlameIsEnough
<1> DEFINE named == {rules[n].question : n \in decision.blame \cup decision.unevaluated}
           cured == [q \in gateLeaves(rules) |-> IF q \in named THEN Pass(1) ELSE got[q]]
<1> SUFFICES ASSUME GateIInv, Folded, decision.satisfied = "no"
             PROVE  LET result == Evaluate(rules, cured, FALSE) IN result.satisfied = "yes" /\ result.score > 0
  BY DEF BlameIsEnough
<1>1. IsTree(rules) /\ got \in Answers(rules) /\ (mode = "lazy") \in BOOLEAN
  BY RulesAreTree DEF GateIInv
<1>2. decision = Evaluate(rules, got, mode = "lazy")
  BY DEF GateIInv, FoldedShape
<1>3. Pass(1) \in Answer /\ Evaluated(Pass(1)) /\ Admits(Pass(1))
  <2>1. Pass(1) \in Answer
    <3>1. 1 \in 0..MaxScore
      BY GateAssumption DEF GateAssumption
    <3>2. QED
      BY <3>1 DEF Answer
  <2>2. Pass(1).read = "answered" /\ Pass(1).success = TRUE /\ Pass(1).score = 1
    BY DEF Pass
  <2>3. Pass(1).score > 0
    BY <2>2
  <2>4. QED
    BY <2>1, <2>2, <2>3, Zenon DEF Evaluated, Admits
<1>4. cured \in Answers(rules)
  <2>1. \A q \in gateLeaves(rules) : got[q] \in Known
    BY <1>1 DEF Answers
  <2>2. cured \in [gateLeaves(rules) -> Known]
    BY <1>3, <2>1 DEF Known
  <2>3. QED
    BY <1>1, <2>2, CompletesAnswers
<1>5. \A q \in gateLeaves(rules) : cured[q] = IF q \in named THEN Pass(1) ELSE got[q]
  OBVIOUS
<1>6. ASSUME NEW n \in Wanting(decision) \cap Leaves(rules)
      PROVE  rules[n].question \in named /\ rules[n].question \in gateLeaves(rules)
  BY <1>6 DEF Wanting, gateLeaves
<1> HIDE DEF cured, named
<1>7. Cures(rules, got, cured, Wanting(decision))
  <2>1. \A q \in gateLeaves(rules) :
          Evaluated(got[q]) /\ Admits(got[q]) => Evaluated(cured[q]) /\ Admits(cured[q])
    BY <1>3, <1>5
  <2>2. \A n \in Wanting(decision) \cap Leaves(rules) :
          Evaluated(cured[rules[n].question]) /\ Admits(cured[rules[n].question])
    BY <1>3, <1>5, <1>6
  <2>3. QED
    BY <1>4, <2>1, <2>2 DEF Cures
<1>8. QED
  BY <1>1, <1>2, <1>7, RootCured

(* Stopping early never changes the verdict, whatever the leaves it did    *)
(* not ask would have answered, and blames nobody the full evaluation      *)
(* would not (evaluateGate, collectAll off).                               *)
THEOREM LazyEvaluationSound == GateSpec => []LazyIsFull
<1>1. QED
  BY GateInvariant, LazyFromInvariant, PTL

(* A read that failed decides nothing: the verdict is the one every answer *)
(* it could have given leads to, and where the answers disagree the caller *)
(* gets the error instead (foldSatisfied, checkGates).                     *)
THEOREM OutagesSound == GateSpec => []OutagesDecideNothing
<1>1. QED
  BY GateInvariant, OutagesFromInvariant, PTL

(* A refusal blamed on the sender holds for every verifier for which the   *)
(* blamed leaves refuse, and the leaves a refused wallet is told of are    *)
(* enough to admit it (gatePenalize, gateBlame, gateScore).                *)
THEOREM BlameSound == GateSpec => []GateInv
<1>1. GateIInv => GateInv
  BY BlamedFromInvariant, CuredFromInvariant DEF GateIInv, GateInv
<1>2. QED
  BY <1>1, GateInvariant, PTL
=============================================================================
