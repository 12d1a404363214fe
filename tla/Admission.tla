----------------------------- MODULE Admission -----------------------------
(***************************************************************************)
(* How bundles enter, settle in and leave one contest's winner-set:        *)
(* ContestEngine (src/client/voter.ts) with the forward gate of gossip     *)
(* (src/transport/gossip-validator.ts), the divergence chase               *)
(* (src/transport/chase.ts), own publishes, and the background verifier's  *)
(* verdicts (src/verify/background.ts).  The four run interleaved: each    *)
(* step below is the code between two awaits.                              *)
(*                                                                         *)
(* What a network answers is a choice among the answers the bundle can     *)
(* get.  The history variables record what was established about a bundle, *)
(* and what was done with it; no action reads them.                        *)
(***************************************************************************)
EXTENDS Lww, Sequences

CONSTANTS
  choice,          \* [Bundle -> votes], as far as two bundles' votes differ
  carriesName,     \* bundles with a community.name claim
  offlineInvalid,  \* bundles whose signature or constraints are bad
  gateAnswers,     \* [Bundle -> SUBSET GateAnswer], what gate reads may answer
  nameAnswers,     \* [Bundle -> SUBSET NameAnswer], what resolvers may answer
  ownBundles,      \* bundles this node's voter may sign
  Slot,            \* concurrent gossip validations
  Chase,           \* concurrent chases
  NoBundle,        \* no bundle: an idle validation or chase
  infraFails,      \* may a head read or a blockstore write fail?
  VerdictCacheMax, \* maxEntries of the verdict cache
  AcceptedMax      \* maxEntries of the accepted-dedup

(* A gate 0n blamed on the sender is a reject, otherwise it is "not yet".  *)
GateAnswer == {"pass", "reject", "notYet"}
NameAnswer == {"ok", "bad"}

ASSUME AnswerAssumption ==
  /\ NoBundle \notin Bundle
  /\ carriesName \in SUBSET Bundle
  /\ gateAnswers \in [Bundle -> SUBSET GateAnswer]
  /\ nameAnswers \in [Bundle -> SUBSET NameAnswer]
  /\ infraFails \in BOOLEAN

(***************************************************************************)
(* A rule that blames the sender stands behind its answer: every verifier  *)
(* computes the same score, so no other answer is ever given.              *)
(***************************************************************************)
ASSUME BlameAssumption ==
  \A b \in Bundle : "reject" \in gateAnswers[b] => gateAnswers[b] = {"reject"}

ASSUME BoundAssumption ==
  /\ VerdictCacheMax \in Nat \ {0}
  /\ AcceptedMax \in Nat \ {0}

bucketOf(b) == bucketForBlock(blockNumber[b])

keyFor(b) == <<address[b], bucketOf(b), choice[b]>>

VARIABLES
  head, currentBucketCache,
  signing,                      \* own bundles dated by a head read, being signed
  crdt,                         \* the CRDT's working set
  admitted,                     \* the keys of #checks
  chainPending, namePending,    \* #checks flags that are false
  verdictCache, acceptedDedup,  \* FIFO-bounded caches
  gossip, chase,                \* the validations and chases in flight
  background,                   \* stage of every queued deferred check
  ownPublishes,                 \* own bundles whose verdict is still owed
  gatePassed, namesPassed,      \* history: checks that really succeeded
  forwarded, penalized          \* history: verdicts handed to gossipsub

clock   == <<head, currentBucketCache, signing>>
checks  == <<crdt, admitted, chainPending, namePending>>
caches  == <<verdictCache, acceptedDedup>>
passed  == <<gatePassed, namesPassed>>
verdicts == <<forwarded, penalized>>
vars == <<clock, checks, caches, gossip, chase, background, passed, verdicts, ownPublishes>>

IdleSlot  == [pc |-> "idle", cid |-> NoBundle, late |-> FALSE]
IdleChase == [pc |-> "idle", todo |-> {}, cid |-> NoBundle, verified |-> FALSE, pending |-> {}]

TypeOK ==
  /\ head \in 0..MaxBucket /\ currentBucketCache \in 0..MaxBucket
  /\ signing \subseteq ownBundles
  /\ crdt \in SUBSET Bundle /\ admitted \in SUBSET Bundle
  /\ chainPending \in SUBSET admitted /\ namePending \in SUBSET (admitted \cap carriesName)
  /\ verdictCache \in Seq([cid : Bundle, verdict : {"valid", "reject"}])
  /\ Len(verdictCache) <= VerdictCacheMax
  /\ acceptedDedup \in Seq({keyFor(b) : b \in Bundle}) /\ Len(acceptedDedup) <= AcceptedMax
  /\ gossip \in [Slot -> [pc : {"idle", "fresh", "verify", "admit"},
                          cid : Bundle \cup {NoBundle}, late : BOOLEAN]]
  /\ \A s \in Slot : gossip[s].cid = NoBundle <=> gossip[s].pc = "idle"
  /\ chase \in [Chase -> [pc : {"idle", "next", "offline", "admit"}, todo : SUBSET Bundle,
                          cid : Bundle \cup {NoBundle}, verified : BOOLEAN, pending : SUBSET Bundle]]
  /\ \A c \in Chase : chase[c].pc \in {"offline", "admit"} => chase[c].cid # NoBundle
  /\ background \in [Bundle -> {"out", "gate", "names"}]
  /\ ownPublishes \in SUBSET Bundle
  /\ gatePassed \in SUBSET Bundle /\ namesPassed \in SUBSET Bundle
  /\ forwarded \in SUBSET Bundle /\ penalized \in SUBSET Bundle

Init ==
  /\ head = 0 /\ currentBucketCache = 0 /\ signing = {}
  /\ crdt = {} /\ admitted = {} /\ chainPending = {} /\ namePending = {}
  /\ verdictCache = <<>> /\ acceptedDedup = <<>>
  /\ gossip = [s \in Slot |-> IdleSlot]
  /\ chase = [c \in Chase |-> IdleChase]
  /\ background = [b \in Bundle |-> "out"]
  /\ ownPublishes = {}
  /\ gatePassed = {} /\ namesPassed = {}
  /\ forwarded = {} /\ penalized = {}

----------------------------------------------------------------------------
(* Caches bounded by dropping their oldest entry; setting a key again      *)
(* neither changes it nor refreshes its place.                             *)

Elements(s) == {s[i] : i \in 1..Len(s)}

FifoAdd(fifo, entry, max) ==
  IF Len(fifo) >= max THEN Append(Tail(fifo), entry) ELSE Append(fifo, entry)

CachedVerdict(b, verdict) == [cid |-> b, verdict |-> verdict] \in Elements(verdictCache)
Cached(b) == \E verdict \in {"valid", "reject"} : CachedVerdict(b, verdict)

CacheVerdict(b, verdict) ==
  verdictCache' = IF Cached(b) THEN verdictCache
                  ELSE FifoAdd(verdictCache, [cid |-> b, verdict |-> verdict], VerdictCacheMax)

RecordAccepted(b) ==
  acceptedDedup' = IF keyFor(b) \in Elements(acceptedDedup) THEN acceptedDedup
                   ELSE FifoAdd(acceptedDedup, keyFor(b), AcceptedMax)

----------------------------------------------------------------------------
(* The engine's check state.                                               *)

(* Mutant: an unresolved name does not make a bundle pending.              *)
isPending_GateOnly(b) == b \in admitted /\ b \in chainPending

isPending(b) == b \in admitted /\ (b \in chainPending \/ b \in namePending)

isFullyVerified(b) == b \in admitted /\ b \notin chainPending /\ b \notin namePending

served == currentEntries({b \in crdt : isFullyVerified(b)}, currentBucketCache)

(* Merge into the CRDT and (over)write the check state.                    *)
Admit(b, settled, nameSettled) ==
  /\ crdt' = crdt \cup {b}
  /\ admitted' = admitted \cup {b}
  /\ chainPending' = IF settled THEN chainPending \ {b} ELSE chainPending \cup {b}
  /\ namePending' = IF nameSettled \/ b \notin carriesName
                    THEN namePending \ {b} ELSE namePending \cup {b}

(* Both flags of #settleCheck; a bundle no longer recorded is left alone.  *)
SettleCheck(b, chain, name) ==
  /\ chainPending' = IF chain THEN chainPending \ {b} ELSE chainPending
  /\ namePending' = IF name THEN namePending \ {b} ELSE namePending
  /\ UNCHANGED <<crdt, admitted>>
  /\ IF b \in ownPublishes /\ b \in admitted /\ b \notin chainPending' /\ b \notin namePending'
     THEN ownPublishes' = ownPublishes \ {b}
     ELSE UNCHANGED ownPublishes

(* Mutant: an eviction drops the check state and not the bundle.           *)
EvictBundle_ChecksOnly(b) ==
  /\ admitted' = admitted \ {b}
  /\ chainPending' = chainPending \ {b}
  /\ namePending' = namePending \ {b}
  /\ ownPublishes' = ownPublishes \ {b}
  /\ UNCHANGED crdt

EvictBundle(b) ==
  /\ crdt' = crdt \ {b}
  /\ admitted' = admitted \ {b}
  /\ chainPending' = chainPending \ {b}
  /\ namePending' = namePending \ {b}
  /\ ownPublishes' = ownPublishes \ {b}

(* enqueue skips a bundle that is already in flight.                       *)
Enqueue(bs) ==
  background' = [b \in Bundle |-> IF b \in bs /\ background[b] = "out" THEN "gate" ELSE background[b]]

----------------------------------------------------------------------------
(* The chain's clock.  A coalesced head read may trail the head.           *)

HeadSamples == {n \in {head - 1, head} : n >= 0}

AdvanceHead ==
  /\ head < MaxBucket
  /\ head' = head + 1
  /\ UNCHANGED <<currentBucketCache, signing, checks, caches, gossip, chase, background, passed, verdicts, ownPublishes>>

RefreshBucket ==
  /\ currentBucketCache' \in HeadSamples
  /\ UNCHANGED <<head, signing, checks, caches, gossip, chase, background, passed, verdicts, ownPublishes>>

(* A bundle of a bucket ahead of ours costs a head read, unless the last   *)
(* one is recent.                                                          *)
IsEvaluableNow(b, evaluable) ==
  \/ /\ bucketOf(b) <= currentBucketCache
     /\ evaluable
     /\ UNCHANGED currentBucketCache
  \/ /\ bucketOf(b) > currentBucketCache
     /\ \/ ~ evaluable /\ UNCHANGED currentBucketCache
        \/ /\ currentBucketCache' \in HeadSamples
           /\ evaluable <=> bucketOf(b) <= currentBucketCache'

----------------------------------------------------------------------------
(* The forward gate.  Past the deadline gossipsub has been told `ignore`,  *)
(* but the validation itself runs on.                                      *)

Verdict(late, b, verdict) ==
  /\ forwarded' = IF ~ late /\ verdict = "accept" THEN forwarded \cup {b} ELSE forwarded
  /\ penalized' = IF ~ late /\ verdict = "reject" THEN penalized \cup {b} ELSE penalized

Finish(s, verdict) ==
  /\ Verdict(gossip[s].late, gossip[s].cid, verdict)
  /\ gossip' = [gossip EXCEPT ![s] = IdleSlot]

(* A message arrives; a bundle with a cached verdict is answered at once.  *)
GossipKnown(b) ==
  /\ \E verdict \in {"valid", "reject"} :
       /\ CachedVerdict(b, verdict)
       /\ Verdict(FALSE, b, IF verdict = "valid" THEN "accept" ELSE "reject")
  /\ UNCHANGED <<clock, checks, caches, gossip, chase, background, passed, ownPublishes>>

GossipArrive(s, b) ==
  /\ gossip[s].pc = "idle"
  /\ ~ Cached(b)
  /\ gossip' = [gossip EXCEPT ![s] = [pc |-> "fresh", cid |-> b, late |-> FALSE]]
  /\ UNCHANGED <<clock, checks, caches, chase, background, passed, verdicts, ownPublishes>>

(* Freshness, then the re-sign guard; neither verdict is cached.           *)
GossipFresh(s) ==
  /\ gossip[s].pc = "fresh"
  /\ \E evaluable \in BOOLEAN :
       /\ IsEvaluableNow(gossip[s].cid, evaluable)
       /\ IF evaluable /\ keyFor(gossip[s].cid) \notin Elements(acceptedDedup)
          THEN gossip' = [gossip EXCEPT ![s].pc = "verify"] /\ UNCHANGED verdicts
          ELSE Finish(s, "ignore")
  /\ UNCHANGED <<head, signing, checks, caches, chase, background, passed, ownPublishes>>

(* The full pipeline answers: offline checks, gate, names.                 *)
GossipVerifyFails(s) ==
  LET b == gossip[s].cid IN
  /\ gossip[s].pc = "verify"
  /\ \/ /\ b \in offlineInvalid \/ "reject" \in gateAnswers[b]
        /\ CacheVerdict(b, "reject")
        /\ Finish(s, "reject")
     \/ /\ b \notin offlineInvalid
        /\ \/ "notYet" \in gateAnswers[b]
           \/ "pass" \in gateAnswers[b] /\ b \in carriesName /\ "bad" \in nameAnswers[b]
        /\ Finish(s, "ignore")
        /\ UNCHANGED verdictCache
  /\ UNCHANGED <<clock, checks, acceptedDedup, chase, background, passed, ownPublishes>>

GossipVerifyPasses(s) ==
  LET b == gossip[s].cid IN
  /\ gossip[s].pc = "verify"
  /\ b \notin offlineInvalid
  /\ "pass" \in gateAnswers[b]
  /\ b \in carriesName => "ok" \in nameAnswers[b]
  /\ CacheVerdict(b, "valid")
  /\ gossip' = [gossip EXCEPT ![s].pc = "admit"]
  /\ gatePassed' = gatePassed \cup {b}
  /\ namesPassed' = namesPassed \cup {b}
  /\ UNCHANGED <<clock, checks, acceptedDedup, chase, background, verdicts, ownPublishes>>

(* The block is stored: merge, record the checks as settled, accept.       *)
GossipAdmit(s) ==
  LET b == gossip[s].cid IN
  /\ gossip[s].pc = "admit"
  /\ Admit(b, TRUE, TRUE)
  /\ RecordAccepted(b)
  /\ Finish(s, "accept")
  /\ UNCHANGED <<clock, verdictCache, chase, background, passed, ownPublishes>>

(* A throw anywhere in the pipeline is an `ignore`.                        *)
GossipThrows(s) ==
  /\ infraFails
  /\ gossip[s].pc # "idle"
  /\ Finish(s, "ignore")
  /\ UNCHANGED <<clock, checks, caches, chase, background, passed, ownPublishes>>

GossipDeadline(s) ==
  /\ gossip[s].pc # "idle"
  /\ ~ gossip[s].late
  /\ gossip' = [gossip EXCEPT ![s].late = TRUE]
  /\ UNCHANGED <<clock, checks, caches, chase, background, passed, verdicts, ownPublishes>>

----------------------------------------------------------------------------
(* The chase of one advertised root, which decodes to the bundles ws.      *)

ChaseStart(c, ws) ==
  /\ chase[c].pc = "idle"
  /\ chase' = [chase EXCEPT ![c] = [IdleChase EXCEPT !.pc = "next", !.todo = ws]]
  /\ UNCHANGED <<clock, checks, caches, gossip, background, passed, verdicts, ownPublishes>>

(* The chase reads admission and the verdict cache before its awaits ...   *)
ChaseNext(c, b) ==
  /\ chase[c].pc = "next"
  /\ b \in chase[c].todo
  /\ chase' = [chase EXCEPT ![c] =
       [pc |-> IF b \in admitted \/ CachedVerdict(b, "reject") THEN "next"
               ELSE IF CachedVerdict(b, "valid") THEN "admit" ELSE "offline",
        todo |-> @.todo \ {b}, cid |-> b,
        verified |-> b \notin admitted /\ CachedVerdict(b, "valid"), pending |-> @.pending]]
  /\ UNCHANGED <<clock, checks, caches, gossip, background, passed, verdicts, ownPublishes>>

(* ... checks freshness and the signature ...                              *)
ChaseOffline(c) ==
  LET b == chase[c].cid IN
  /\ chase[c].pc = "offline"
  /\ \E evaluable \in BOOLEAN :
       /\ IsEvaluableNow(b, evaluable)
       /\ chase' = [chase EXCEPT ![c].pc = IF evaluable /\ b \notin offlineInvalid THEN "admit" ELSE "next"]
       /\ IF evaluable /\ b \in offlineInvalid THEN CacheVerdict(b, "reject") ELSE UNCHANGED verdictCache
  /\ UNCHANGED <<head, signing, checks, acceptedDedup, gossip, background, passed, verdicts, ownPublishes>>

(* Mutant: offline validity counts as verified.                            *)
ChaseAdmit_Settled(c) ==
  /\ chase[c].pc = "admit"
  /\ Admit(chase[c].cid, TRUE, TRUE)
  /\ chase' = [chase EXCEPT ![c].pc = "next"]
  /\ UNCHANGED <<clock, caches, gossip, background, passed, verdicts, ownPublishes>>

(* ... and admits once the block is stored.                                *)
ChaseAdmit(c) ==
  LET b == chase[c].cid
      verified == chase[c].verified IN
  /\ chase[c].pc = "admit"
  /\ Admit(b, verified, verified)
  /\ chase' = [chase EXCEPT ![c].pc = "next",
                            ![c].pending = IF verified THEN @ ELSE @ \cup {b}]
  /\ UNCHANGED <<clock, caches, gossip, background, passed, verdicts, ownPublishes>>

(* The deadline breaks the loop; what was admitted is still handed over.   *)
ChaseDeadline(c) ==
  /\ chase[c].pc = "next"
  /\ chase[c].todo # {}
  /\ chase' = [chase EXCEPT ![c].todo = {}]
  /\ UNCHANGED <<clock, checks, caches, gossip, background, passed, verdicts, ownPublishes>>

(* A head read or a blockstore write throws: the run ends there.           *)
ChaseThrows(c) ==
  /\ infraFails
  /\ chase[c].pc \in {"offline", "admit"}
  /\ chase' = [chase EXCEPT ![c] = IdleChase]
  /\ UNCHANGED <<clock, checks, caches, gossip, background, passed, verdicts, ownPublishes>>

(* deferVerify gets the batch of provisionally admitted bundles.           *)
ChaseDone(c) ==
  /\ chase[c].pc = "next"
  /\ chase[c].todo = {}
  /\ Enqueue(chase[c].pending)
  /\ chase' = [chase EXCEPT ![c] = IdleChase]
  /\ UNCHANGED <<clock, checks, caches, gossip, passed, verdicts, ownPublishes>>

----------------------------------------------------------------------------
(* Own publishes.  The head a ballot is dated by is read, perhaps late ... *)
ReadHead(b) ==
  /\ b \in ownBundles
  /\ currentBucketCache' \in HeadSamples
  /\ blockNumber[b] = sampleBlockForBucket(currentBucketCache')
  /\ signing' = signing \cup {b}
  /\ UNCHANGED <<head, checks, caches, gossip, chase, background, passed, verdicts, ownPublishes>>

(* ... and the wallet signs it, whenever it answers.  The name preflight   *)
(* may have settled the names already.                                     *)
SignVote(b, namesSettled) ==
  /\ b \in signing
  /\ signing' = signing \ {b}
  /\ namesSettled => "ok" \in nameAnswers[b]
  /\ Admit(b, FALSE, namesSettled)
  /\ ownPublishes' = ownPublishes \cup {b}
  /\ Enqueue({b})
  /\ namesPassed' = IF namesSettled THEN namesPassed \cup {b} ELSE namesPassed
  /\ UNCHANGED <<head, currentBucketCache, caches, gossip, chase, gatePassed, verdicts>>

----------------------------------------------------------------------------
(* The background verifier's verdicts on an enqueued bundle.               *)

(* Mutant: the valid verdict is cached before the names are resolved.      *)
GateVerified_CachesEarly(b) ==
  /\ background[b] = "gate"
  /\ "pass" \in gateAnswers[b]
  /\ gatePassed' = gatePassed \cup {b}
  /\ SettleCheck(b, TRUE, FALSE)
  /\ CacheVerdict(b, "valid")
  /\ background' = [background EXCEPT ![b] = IF b \in carriesName THEN "names" ELSE "out"]
  /\ namesPassed' = IF b \in carriesName THEN namesPassed ELSE namesPassed \cup {b}
  /\ UNCHANGED <<clock, acceptedDedup, gossip, chase, verdicts>>

(* The gate read confirmed the wallet: settle the chain check.  A bundle   *)
(* that carries no name is then done.                                      *)
GateVerified(b) ==
  /\ background[b] = "gate"
  /\ "pass" \in gateAnswers[b]
  /\ gatePassed' = gatePassed \cup {b}
  /\ SettleCheck(b, TRUE, FALSE)
  /\ IF b \in carriesName
     THEN background' = [background EXCEPT ![b] = "names"] /\ UNCHANGED <<verdictCache, namesPassed>>
     ELSE /\ background' = [background EXCEPT ![b] = "out"]
          /\ CacheVerdict(b, "valid")
          /\ namesPassed' = namesPassed \cup {b}
  /\ UNCHANGED <<clock, acceptedDedup, gossip, chase, verdicts>>

(* A blamed refusal is terminal and cached.                                *)
GateRejected(b) ==
  /\ background[b] = "gate"
  /\ "reject" \in gateAnswers[b]
  /\ background' = [background EXCEPT ![b] = "out"]
  /\ CacheVerdict(b, "reject")
  /\ EvictBundle(b)
  /\ UNCHANGED <<clock, acceptedDedup, gossip, chase, passed, verdicts>>

(* Mutant: a refusal nobody is blamed for is cached like a reject.         *)
GraceClosed_Caches(b) ==
  /\ background[b] = "gate"
  /\ "notYet" \in gateAnswers[b]
  /\ background' = [background EXCEPT ![b] = "out"]
  /\ CacheVerdict(b, "reject")
  /\ EvictBundle(b)
  /\ UNCHANGED <<clock, acceptedDedup, gossip, chase, passed, verdicts>>

(* An unblamed one evicts only when the grace window has closed.           *)
GraceClosed(b) ==
  /\ background[b] = "gate"
  /\ "notYet" \in gateAnswers[b]
  /\ background' = [background EXCEPT ![b] = "out"]
  /\ EvictBundle(b)
  /\ UNCHANGED <<clock, caches, gossip, chase, passed, verdicts>>

(* Mutant: the resolved names do not settle the name check.                *)
NameResolved_LeavesFlag(b) ==
  /\ background[b] = "names"
  /\ "ok" \in nameAnswers[b]
  /\ namesPassed' = namesPassed \cup {b}
  /\ background' = [background EXCEPT ![b] = "out"]
  /\ CacheVerdict(b, "valid")
  /\ UNCHANGED <<clock, checks, acceptedDedup, gossip, chase, gatePassed, verdicts, ownPublishes>>

NameResolved(b) ==
  /\ background[b] = "names"
  /\ "ok" \in nameAnswers[b]
  /\ namesPassed' = namesPassed \cup {b}
  /\ SettleCheck(b, FALSE, TRUE)
  /\ background' = [background EXCEPT ![b] = "out"]
  /\ CacheVerdict(b, "valid")
  /\ UNCHANGED <<clock, acceptedDedup, gossip, chase, gatePassed, verdicts>>

NameRefused(b) ==
  /\ background[b] = "names"
  /\ "bad" \in nameAnswers[b]
  /\ background' = [background EXCEPT ![b] = "out"]
  /\ EvictBundle(b)
  /\ UNCHANGED <<clock, caches, gossip, chase, passed, verdicts>>

----------------------------------------------------------------------------
PruneDecayed ==
  LET removed == Prunable(crdt, currentBucketCache, {b \in crdt : isPending(b)}) IN
  /\ crdt' = crdt \ removed
  /\ admitted' = admitted \ removed
  /\ chainPending' = chainPending \ removed
  /\ namePending' = namePending \ removed
  /\ ownPublishes' = ownPublishes \ removed
  /\ UNCHANGED <<clock, caches, gossip, chase, background, passed, verdicts>>

----------------------------------------------------------------------------
GossipStep(s) ==
  \/ GossipFresh(s)
  \/ GossipVerifyFails(s)
  \/ GossipVerifyPasses(s)
  \/ GossipAdmit(s)
  \/ GossipThrows(s)
  \/ GossipDeadline(s)

ChaseStep(c) ==
  \/ \E b \in Bundle : ChaseNext(c, b)
  \/ ChaseOffline(c)
  \/ ChaseAdmit(c)
  \/ ChaseDeadline(c)
  \/ ChaseThrows(c)
  \/ ChaseDone(c)

BackgroundStep(b) ==
  \/ GateVerified(b)
  \/ GateRejected(b)
  \/ GraceClosed(b)
  \/ NameResolved(b)
  \/ NameRefused(b)

Next ==
  \/ AdvanceHead
  \/ RefreshBucket
  \/ PruneDecayed
  \/ \E b \in Bundle : GossipKnown(b)
  \/ \E s \in Slot : GossipStep(s) \/ \E b \in Bundle : GossipArrive(s, b)
  \/ \E c \in Chase : ChaseStep(c) \/ \E ws \in SUBSET Bundle : ChaseStart(c, ws)
  \/ \E b \in Bundle : ReadHead(b) \/ \E namesSettled \in BOOLEAN : SignVote(b, namesSettled)
  \/ \E b \in Bundle : BackgroundStep(b)

Spec == Init /\ [][Next]_vars

(***************************************************************************)
(* A chase runs to its end (a per-root deadline aborts its wants), and the *)
(* background verifier retries until the network answers.                  *)
(***************************************************************************)
FairSpec ==
  /\ Spec
  /\ \A c \in Chase : WF_vars(ChaseStep(c))
  /\ \A b \in Bundle : WF_vars(BackgroundStep(b))

----------------------------------------------------------------------------
(***************************************************************************)
(* The CRDT and #checks never drift, whatever order admissions, evictions, *)
(* settlements and prunes come in: the chase trusts #checks to say what    *)
(* the winner-set holds.                                                   *)
(***************************************************************************)
ChecksMatchCrdt == crdt = admitted

(***************************************************************************)
(* The checkpoint serves no bundle whose gate read and names did not both  *)
(* succeed on this node, however the bundle was admitted.                  *)
(***************************************************************************)
ServedIsVerified == served \subseteq gatePassed \cap namesPassed

(***************************************************************************)
(* No bundle is forwarded on the strength of a cached or late verdict that *)
(* the checks did not establish.                                           *)
(***************************************************************************)
ForwardedIsVerified == forwarded \subseteq gatePassed \cap namesPassed

(***************************************************************************)
(* A sender is never penalized for a bundle this node forwarded itself.    *)
(***************************************************************************)
RelayersAreSafe == forwarded \cap penalized = {}

(***************************************************************************)
(* Pruning superseded and decayed bundles never changes what the           *)
(* checkpoint serves, even while a wallet's newest bundle is provisional.  *)
(***************************************************************************)
PruneKeepsServed == [][PruneDecayed => served' = served]_vars

(***************************************************************************)
(* Every pending bundle is confirmed, evicted or pruned in the end: until  *)
(* then the background verifier holds it, or the chase that admitted it    *)
(* will hand it over (deferVerify).                                        *)
(***************************************************************************)
PendingSettles == \A b \in Bundle : isPending(b) ~> ~ isPending(b)
=============================================================================
