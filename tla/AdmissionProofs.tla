-------------------------- MODULE AdmissionProofs --------------------------
(***************************************************************************)
(* For every set of bundles, every number of concurrent validations and    *)
(* chases and every cache size: the CRDT and #checks agree, and nothing is *)
(* served or forwarded that this node's checks did not establish.          *)
(***************************************************************************)
EXTENDS Admission, LwwProofs

----------------------------------------------------------------------------
(* The FIFO caches.                                                        *)

(* An appended element is the only new one.                                *)
LEMMA ElementsAppend ==
  ASSUME NEW S, NEW q \in Seq(S), NEW e \in S
  PROVE  Elements(Append(q, e)) \subseteq Elements(q) \cup {e}
<1>1. SUFFICES ASSUME NEW i \in 1..Len(Append(q, e))
               PROVE  Append(q, e)[i] \in Elements(q) \cup {e}
  BY DEF Elements
<1>2. CASE i \in 1..Len(q)
  <2>1. Append(q, e)[i] = q[i]
    BY <1>2
  <2>2. QED
    BY <1>2, <2>1 DEF Elements
<1>3. CASE i = Len(q) + 1
  BY <1>3
<1>4. QED
  BY <1>1, <1>2, <1>3

(* Dropping the oldest element adds none.                                  *)
LEMMA ElementsTail ==
  ASSUME NEW S, NEW q \in Seq(S), q # <<>>
  PROVE  /\ Tail(q) \in Seq(S)
         /\ Len(Tail(q)) = Len(q) - 1
         /\ Elements(Tail(q)) \subseteq Elements(q)
<1>1. Tail(q) \in Seq(S) /\ Len(Tail(q)) = Len(q) - 1
  OBVIOUS
<1>2. ASSUME NEW i \in 1..Len(Tail(q))
      PROVE  Tail(q)[i] \in Elements(q)
  <2>1. Tail(q)[i] = q[i + 1] /\ i + 1 \in 1..Len(q)
    BY <1>1, <1>2
  <2>2. QED
    BY <2>1 DEF Elements
<1>3. QED
  BY <1>1, <1>2 DEF Elements

(* Adding to a bounded cache keeps its bound and invents no entry.         *)
LEMMA FifoAddFacts ==
  ASSUME NEW S, NEW q \in Seq(S), NEW e \in S, NEW max \in Nat \ {0}, Len(q) <= max
  PROVE  /\ FifoAdd(q, e, max) \in Seq(S)
         /\ Len(FifoAdd(q, e, max)) <= max
         /\ Elements(FifoAdd(q, e, max)) \subseteq Elements(q) \cup {e}
<1>1. CASE Len(q) >= max
  <2>1. q # <<>>
    BY <1>1
  <2>2. FifoAdd(q, e, max) = Append(Tail(q), e)
    BY <1>1 DEF FifoAdd
  <2>3. Tail(q) \in Seq(S) /\ Len(Tail(q)) = Len(q) - 1
    BY <2>1, ElementsTail
  <2>4. Elements(Append(Tail(q), e)) \subseteq Elements(Tail(q)) \cup {e}
    BY <2>3, ElementsAppend
  <2>5. Elements(Tail(q)) \subseteq Elements(q)
    BY <2>1, ElementsTail
  <2>6. Append(Tail(q), e) \in Seq(S) /\ Len(Append(Tail(q), e)) <= max
    BY <2>3
  <2>7. QED
    BY <2>2, <2>4, <2>5, <2>6
<1>2. CASE ~ (Len(q) >= max)
  <2>1. FifoAdd(q, e, max) = Append(q, e)
    BY <1>2 DEF FifoAdd
  <2>2. Elements(Append(q, e)) \subseteq Elements(q) \cup {e}
    BY ElementsAppend
  <2>3. QED
    BY <1>2, <2>1, <2>2
<1>3. QED
  BY <1>1, <1>2

(* The typing of the two caches.                                           *)
CachesOK ==
  /\ verdictCache \in Seq([cid : Bundle, verdict : {"valid", "reject"}])
  /\ Len(verdictCache) <= VerdictCacheMax
  /\ acceptedDedup \in Seq({keyFor(b) : b \in Bundle}) /\ Len(acceptedDedup) <= AcceptedMax

(* Caching a verdict adds at most that verdict.                            *)
LEMMA CacheVerdictFacts ==
  ASSUME CachesOK, NEW b \in Bundle, NEW v \in {"valid", "reject"}, CacheVerdict(b, v)
  PROVE  /\ verdictCache' \in Seq([cid : Bundle, verdict : {"valid", "reject"}])
         /\ Len(verdictCache') <= VerdictCacheMax
         /\ \A c \in Bundle, w \in {"valid", "reject"} :
              CachedVerdict(c, w)' => CachedVerdict(c, w) \/ (c = b /\ w = v)
<1> DEFINE V == [cid : Bundle, verdict : {"valid", "reject"}]
           e == [cid |-> b, verdict |-> v]
<1>1. e \in V
  OBVIOUS
<1>2. verdictCache \in Seq(V) /\ Len(verdictCache) <= VerdictCacheMax
  BY DEF CachesOK
<1>3. verdictCache' = verdictCache \/ verdictCache' = FifoAdd(verdictCache, e, VerdictCacheMax)
  BY DEF CacheVerdict
<1> HIDE DEF V, e
<1>4. /\ Elements(verdictCache') \subseteq Elements(verdictCache) \cup {e}
      /\ verdictCache' \in Seq(V) /\ Len(verdictCache') <= VerdictCacheMax
  BY <1>1, <1>2, <1>3, BoundAssumption, CriteriaAssumption, FifoAddFacts
<1>5. ASSUME NEW c \in Bundle, NEW w \in {"valid", "reject"}, CachedVerdict(c, w)'
      PROVE  CachedVerdict(c, w) \/ (c = b /\ w = v)
  BY <1>4, <1>5 DEF CachedVerdict, e
<1>6. QED
  BY <1>4, <1>5 DEF V

(* Recording an accepted vote keeps the dedup's type and bound.            *)
LEMMA RecordAcceptedFacts ==
  ASSUME CachesOK, NEW b \in Bundle, RecordAccepted(b)
  PROVE  /\ acceptedDedup' \in Seq({keyFor(c) : c \in Bundle})
         /\ Len(acceptedDedup') <= AcceptedMax
<1> DEFINE K == {keyFor(c) : c \in Bundle}
<1>1. keyFor(b) \in K
  OBVIOUS
<1>2. acceptedDedup \in Seq(K) /\ Len(acceptedDedup) <= AcceptedMax
  BY DEF CachesOK
<1>3. acceptedDedup' = acceptedDedup \/ acceptedDedup' = FifoAdd(acceptedDedup, keyFor(b), AcceptedMax)
  BY DEF RecordAccepted
<1> HIDE DEF K
<1>4. acceptedDedup' \in Seq(K) /\ Len(acceptedDedup') <= AcceptedMax
  BY <1>1, <1>2, <1>3, BoundAssumption, CriteriaAssumption, FifoAddFacts
<1>5. QED
  BY <1>4 DEF K

----------------------------------------------------------------------------
(* Types.                                                                  *)

ClockOK ==
  /\ head \in 0..MaxBucket /\ currentBucketCache \in 0..MaxBucket
  /\ signing \subseteq ownBundles

ChecksOK ==
  /\ crdt \in SUBSET Bundle /\ admitted \in SUBSET Bundle
  /\ chainPending \in SUBSET admitted /\ namePending \in SUBSET (admitted \cap carriesName)

GossipOK ==
  /\ gossip \in [Slot -> [pc : {"idle", "fresh", "verify", "admit"},
                          cid : Bundle \cup {NoBundle}, late : BOOLEAN]]
  /\ \A s \in Slot : gossip[s].cid = NoBundle <=> gossip[s].pc = "idle"

ChaseOK ==
  /\ chase \in [Chase -> [pc : {"idle", "next", "offline", "admit"}, todo : SUBSET Bundle,
                          cid : Bundle \cup {NoBundle}, verified : BOOLEAN, pending : SUBSET Bundle]]
  /\ \A c \in Chase : chase[c].pc \in {"offline", "admit"} => chase[c].cid # NoBundle

RestOK ==
  /\ background \in [Bundle -> {"out", "gate", "names"}]
  /\ ownPublishes \in SUBSET Bundle
  /\ gatePassed \in SUBSET Bundle /\ namesPassed \in SUBSET Bundle
  /\ forwarded \in SUBSET Bundle /\ penalized \in SUBSET Bundle

(* The parts make up TypeOK.                                               *)
LEMMA TypeParts == TypeOK <=> ClockOK /\ ChecksOK /\ CachesOK /\ GossipOK /\ ChaseOK /\ RestOK
BY DEF TypeOK, ClockOK, ChecksOK, CachesOK, GossipOK, ChaseOK, RestOK

(* The states before the first join are typed.                             *)
LEMMA TypeInit == Init => TypeOK
BY AnswerAssumption, BoundAssumption, CriteriaAssumption DEF Init, TypeOK, IdleSlot, IdleChase

(* Admitting a bundle keeps the check state typed.                         *)
LEMMA AdmitType ==
  ASSUME ChecksOK, NEW b \in Bundle, NEW settled \in BOOLEAN, NEW nameSettled \in BOOLEAN,
         Admit(b, settled, nameSettled)
  PROVE  ChecksOK'
BY DEF ChecksOK, Admit

(* So does settling one of its checks ...                                  *)
LEMMA SettleType ==
  ASSUME ChecksOK, RestOK, NEW b \in Bundle, NEW chain \in BOOLEAN, NEW name \in BOOLEAN,
         SettleCheck(b, chain, name)
  PROVE  /\ ChecksOK'
         /\ ownPublishes' \in SUBSET Bundle
BY DEF ChecksOK, RestOK, SettleCheck

(* ... and evicting it.                                                    *)
LEMMA EvictType ==
  ASSUME ChecksOK, RestOK, NEW b \in Bundle, EvictBundle(b)
  PROVE  /\ ChecksOK'
         /\ ownPublishes' \in SUBSET Bundle
BY DEF ChecksOK, RestOK, EvictBundle

(* Queueing bundles puts them at the gate stage.                           *)
LEMMA EnqueueType ==
  ASSUME RestOK, NEW bs, Enqueue(bs)
  PROVE  background' \in [Bundle -> {"out", "gate", "names"}]
BY DEF RestOK, Enqueue

(* A validation in flight is about a bundle.                               *)
LEMMA GossipBundle ==
  ASSUME GossipOK, NEW s \in Slot, gossip[s].pc # "idle"
  PROVE  gossip[s].cid \in Bundle
BY DEF GossipOK

(* Answering gossipsub frees the slot.                                     *)
LEMMA FinishType ==
  ASSUME GossipOK, RestOK, NEW s \in Slot, gossip[s].pc # "idle", NEW verdict,
         Finish(s, verdict)
  PROVE  GossipOK' /\ forwarded' \in SUBSET Bundle /\ penalized' \in SUBSET Bundle
<1>1. gossip[s].cid \in Bundle
  BY GossipBundle
<1>2. forwarded' \in SUBSET Bundle /\ penalized' \in SUBSET Bundle
  BY <1>1 DEF Finish, Verdict, RestOK
<1>3. GossipOK'
  BY AnswerAssumption DEF Finish, GossipOK, IdleSlot
<1>4. QED
  BY <1>2, <1>3

(* A sampled head is a bucket the chain has reached.                       *)
LEMMA SampleType ==
  ASSUME ClockOK
  PROVE  HeadSamples \subseteq 0..MaxBucket
BY BoundAssumption, CriteriaAssumption DEF ClockOK, HeadSamples

(* ... which is all that a freshness check can change.                     *)
LEMMA EvaluableType ==
  ASSUME ClockOK, NEW b, NEW evaluable, IsEvaluableNow(b, evaluable),
         UNCHANGED <<head, signing>>
  PROVE  ClockOK'
BY SampleType DEF ClockOK, IsEvaluableNow

(* Every step keeps the types.                                             *)
LEMMA TypeStep == TypeOK /\ [Next]_vars => TypeOK'
<1> SUFFICES ASSUME TypeOK, [Next]_vars PROVE TypeOK'
  OBVIOUS
<1> USE DEF clock, checks, caches, passed, verdicts
<1>a. ClockOK /\ ChecksOK /\ CachesOK /\ GossipOK /\ ChaseOK /\ RestOK
  BY TypeParts
<1>b. ASSUME ClockOK', ChecksOK', CachesOK', GossipOK', ChaseOK', RestOK' PROVE TypeOK'
  BY <1>b DEF TypeOK, ClockOK, ChecksOK, CachesOK, GossipOK, ChaseOK, RestOK
<1>1. CASE AdvanceHead
  <2>1. ChecksOK' /\ CachesOK' /\ GossipOK' /\ ChaseOK' /\ RestOK'
    BY <1>a, <1>1 DEF AdvanceHead, ChecksOK, CachesOK, GossipOK, ChaseOK, RestOK
  <2>2. ClockOK'
    BY <1>a, <1>1, BoundAssumption, CriteriaAssumption DEF ClockOK, AdvanceHead
  <2>3. QED
    BY <1>b, <2>1, <2>2
<1>2. CASE RefreshBucket
  <2>1. ChecksOK' /\ CachesOK' /\ GossipOK' /\ ChaseOK' /\ RestOK'
    BY <1>a, <1>2 DEF RefreshBucket, ChecksOK, CachesOK, GossipOK, ChaseOK, RestOK
  <2>2. ClockOK'
    BY <1>a, <1>2, SampleType DEF ClockOK, RefreshBucket
  <2>3. QED
    BY <1>b, <2>1, <2>2
<1>3. CASE PruneDecayed
  <2>1. ClockOK' /\ CachesOK' /\ GossipOK' /\ ChaseOK'
    BY <1>a, <1>3 DEF PruneDecayed, ClockOK, CachesOK, GossipOK, ChaseOK
  <2>2. ChecksOK'
    BY <1>a, <1>3 DEF ChecksOK, PruneDecayed
  <2>3. RestOK'
    BY <1>a, <1>3 DEF RestOK, PruneDecayed
  <2>4. QED
    BY <1>b, <2>1, <2>2, <2>3
<1>4. ASSUME NEW b \in Bundle, GossipKnown(b) PROVE TypeOK'
  <2>1. ClockOK' /\ ChecksOK' /\ CachesOK' /\ GossipOK' /\ ChaseOK'
    BY <1>a, <1>4 DEF GossipKnown, ClockOK, ChecksOK, CachesOK, GossipOK, ChaseOK
  <2>2. RestOK'
    BY <1>a, <1>4 DEF RestOK, GossipKnown, Verdict
  <2>3. QED
    BY <1>b, <2>1, <2>2
<1>5. ASSUME NEW s \in Slot, NEW b \in Bundle, GossipArrive(s, b) PROVE TypeOK'
  <2>1. ClockOK' /\ ChecksOK' /\ CachesOK' /\ ChaseOK' /\ RestOK'
    BY <1>a, <1>5 DEF GossipArrive, ClockOK, ChecksOK, CachesOK, ChaseOK, RestOK
  <2>2. GossipOK'
    BY <1>a, <1>5, AnswerAssumption DEF GossipOK, GossipArrive
  <2>3. QED
    BY <1>b, <2>1, <2>2
<1>6. ASSUME NEW s \in Slot, GossipFresh(s) PROVE TypeOK'
  <2>1. ChecksOK' /\ CachesOK' /\ ChaseOK'
    BY <1>a, <1>6 DEF GossipFresh, ChecksOK, CachesOK, ChaseOK
  <2>2. ClockOK'
    BY <1>a, <1>6, EvaluableType DEF GossipFresh
  <2>3. GossipOK'
    BY <1>a, <1>6, FinishType DEF GossipOK, GossipFresh
  <2>4. RestOK'
    BY <1>a, <1>6, FinishType DEF RestOK, GossipFresh
  <2>5. QED
    BY <1>b, <2>1, <2>2, <2>3, <2>4
<1>7. ASSUME NEW s \in Slot, GossipVerifyFails(s) PROVE TypeOK'
  <2>1. ClockOK' /\ ChecksOK' /\ ChaseOK'
    BY <1>a, <1>7 DEF GossipVerifyFails, ClockOK, ChecksOK, ChaseOK
  <2>2. CachesOK'
    BY <1>a, <1>7, CacheVerdictFacts, GossipBundle DEF CachesOK, GossipVerifyFails
  <2>3. GossipOK'
    BY <1>a, <1>7, FinishType DEF GossipVerifyFails
  <2>4. RestOK'
    BY <1>a, <1>7, FinishType DEF RestOK, GossipVerifyFails
  <2>5. QED
    BY <1>b, <2>1, <2>2, <2>3, <2>4
<1>8. ASSUME NEW s \in Slot, GossipVerifyPasses(s) PROVE TypeOK'
  <2>1. ClockOK' /\ ChecksOK' /\ ChaseOK'
    BY <1>a, <1>8 DEF GossipVerifyPasses, ClockOK, ChecksOK, ChaseOK
  <2>2. CachesOK'
    BY <1>a, <1>8, CacheVerdictFacts, GossipBundle DEF CachesOK, GossipVerifyPasses
  <2>3. GossipOK'
    BY <1>a, <1>8 DEF GossipOK, GossipVerifyPasses
  <2>4. RestOK'
    BY <1>a, <1>8, GossipBundle DEF RestOK, GossipVerifyPasses
  <2>5. QED
    BY <1>b, <2>1, <2>2, <2>3, <2>4
<1>9. ASSUME NEW s \in Slot, GossipAdmit(s) PROVE TypeOK'
  <2>1. ClockOK' /\ ChaseOK'
    BY <1>a, <1>9 DEF GossipAdmit, ClockOK, ChaseOK
  <2>2. ChecksOK'
    BY <1>a, <1>9, AdmitType, GossipBundle DEF GossipAdmit
  <2>3. CachesOK'
    BY <1>a, <1>9, RecordAcceptedFacts, GossipBundle DEF CachesOK, GossipAdmit
  <2>4. GossipOK'
    BY <1>a, <1>9, FinishType DEF GossipAdmit
  <2>5. RestOK'
    BY <1>a, <1>9, FinishType DEF RestOK, GossipAdmit
  <2>6. QED
    BY <1>b, <2>1, <2>2, <2>3, <2>4, <2>5
<1>10. ASSUME NEW s \in Slot, GossipThrows(s) PROVE TypeOK'
  <2>1. ClockOK' /\ ChecksOK' /\ CachesOK' /\ ChaseOK'
    BY <1>a, <1>10 DEF GossipThrows, ClockOK, ChecksOK, CachesOK, ChaseOK
  <2>2. GossipOK'
    BY <1>a, <1>10, FinishType DEF GossipThrows
  <2>3. RestOK'
    BY <1>a, <1>10, FinishType DEF RestOK, GossipThrows
  <2>4. QED
    BY <1>b, <2>1, <2>2, <2>3
<1>11. ASSUME NEW s \in Slot, GossipDeadline(s) PROVE TypeOK'
  <2>1. ClockOK' /\ ChecksOK' /\ CachesOK' /\ ChaseOK' /\ RestOK'
    BY <1>a, <1>11 DEF GossipDeadline, ClockOK, ChecksOK, CachesOK, ChaseOK, RestOK
  <2>2. GossipOK'
    BY <1>a, <1>11 DEF GossipOK, GossipDeadline
  <2>3. QED
    BY <1>b, <2>1, <2>2
<1>12. ASSUME NEW c \in Chase, NEW ws \in SUBSET Bundle, ChaseStart(c, ws) PROVE TypeOK'
  <2>1. ClockOK' /\ ChecksOK' /\ CachesOK' /\ GossipOK' /\ RestOK'
    BY <1>a, <1>12 DEF ChaseStart, ClockOK, ChecksOK, CachesOK, GossipOK, RestOK
  <2>2. ChaseOK'
    BY <1>a, <1>12 DEF ChaseOK, ChaseStart, IdleChase
  <2>3. QED
    BY <1>b, <2>1, <2>2
<1>13. ASSUME NEW c \in Chase, NEW b \in Bundle, ChaseNext(c, b) PROVE TypeOK'
  <2>1. ClockOK' /\ ChecksOK' /\ CachesOK' /\ GossipOK' /\ RestOK'
    BY <1>a, <1>13 DEF ChaseNext, ClockOK, ChecksOK, CachesOK, GossipOK, RestOK
  <2>2. ChaseOK'
    <3> DEFINE v == b \notin admitted /\ CachedVerdict(b, "valid")
               p == IF b \in admitted \/ CachedVerdict(b, "reject") THEN "next"
                    ELSE IF CachedVerdict(b, "valid") THEN "admit" ELSE "offline"
               t == chase[c].todo \ {b}
    <3>1. v \in BOOLEAN /\ p \in {"next", "admit", "offline"} /\ t \in SUBSET Bundle /\ b # NoBundle
      BY <1>a, AnswerAssumption DEF ChaseOK, CachedVerdict
    <3>2. chase' = [chase EXCEPT ![c] =
           [pc |-> p, todo |-> t, cid |-> b, verified |-> v, pending |-> chase[c].pending]]
      BY <1>13 DEF ChaseNext
    <3> HIDE DEF v, p, t
    <3>3. QED
      BY <1>a, <3>1, <3>2 DEF ChaseOK
  <2>3. QED
    BY <1>b, <2>1, <2>2
<1>14. ASSUME NEW c \in Chase, ChaseOffline(c) PROVE TypeOK'
  <2>1. ChecksOK' /\ GossipOK' /\ RestOK'
    BY <1>a, <1>14 DEF ChaseOffline, ChecksOK, GossipOK, RestOK
  <2>2. ClockOK'
    BY <1>a, <1>14, EvaluableType DEF ChaseOffline
  <2>3. CachesOK'
    BY <1>a, <1>14, CacheVerdictFacts DEF CachesOK, ChaseOK, ChaseOffline
  <2>4. ChaseOK'
    BY <1>a, <1>14 DEF ChaseOK, ChaseOffline
  <2>5. QED
    BY <1>b, <2>1, <2>2, <2>3, <2>4
<1>15. ASSUME NEW c \in Chase, ChaseAdmit(c) PROVE TypeOK'
  <2>1. ClockOK' /\ CachesOK' /\ GossipOK' /\ RestOK'
    BY <1>a, <1>15 DEF ChaseAdmit, ClockOK, CachesOK, GossipOK, RestOK
  <2>2. ChecksOK'
    BY <1>a, <1>15, AdmitType DEF ChaseOK, ChaseAdmit
  <2>3. ChaseOK'
    <3> DEFINE p == IF chase[c].verified THEN chase[c].pending
                    ELSE chase[c].pending \cup {chase[c].cid}
    <3>1. chase[c] \in [pc : {"idle", "next", "offline", "admit"}, todo : SUBSET Bundle,
                        cid : Bundle \cup {NoBundle}, verified : BOOLEAN,
                        pending : SUBSET Bundle]
      BY <1>a DEF ChaseOK
    <3>2. chase[c].cid \in Bundle
      BY <1>a, <1>15 DEF ChaseOK, ChaseAdmit
    <3>3. p \in SUBSET Bundle
      BY <3>1, <3>2
    <3>4. chase' = [chase EXCEPT ![c].pc = "next", ![c].pending = p]
      BY <1>15 DEF ChaseAdmit
    <3> HIDE DEF p
    <3>5. QED
      BY <1>a, <3>1, <3>3, <3>4 DEF ChaseOK
  <2>4. QED
    BY <1>b, <2>1, <2>2, <2>3
<1>16. ASSUME NEW c \in Chase, ChaseDeadline(c) PROVE TypeOK'
  <2>1. ClockOK' /\ ChecksOK' /\ CachesOK' /\ GossipOK' /\ RestOK'
    BY <1>a, <1>16 DEF ChaseDeadline, ClockOK, ChecksOK, CachesOK, GossipOK, RestOK
  <2>2. ChaseOK'
    BY <1>a, <1>16 DEF ChaseOK, ChaseDeadline
  <2>3. QED
    BY <1>b, <2>1, <2>2
<1>17. ASSUME NEW c \in Chase, ChaseThrows(c) PROVE TypeOK'
  <2>1. ClockOK' /\ ChecksOK' /\ CachesOK' /\ GossipOK' /\ RestOK'
    BY <1>a, <1>17 DEF ChaseThrows, ClockOK, ChecksOK, CachesOK, GossipOK, RestOK
  <2>2. ChaseOK'
    BY <1>a, <1>17 DEF ChaseOK, ChaseThrows, IdleChase
  <2>3. QED
    BY <1>b, <2>1, <2>2
<1>18. ASSUME NEW c \in Chase, ChaseDone(c) PROVE TypeOK'
  <2>1. ClockOK' /\ ChecksOK' /\ CachesOK' /\ GossipOK'
    BY <1>a, <1>18 DEF ChaseDone, ClockOK, ChecksOK, CachesOK, GossipOK
  <2>2. ChaseOK'
    BY <1>a, <1>18 DEF ChaseOK, ChaseDone, IdleChase
  <2>3. RestOK'
    BY <1>a, <1>18, EnqueueType DEF RestOK, ChaseDone
  <2>4. QED
    BY <1>b, <2>1, <2>2, <2>3
<1>19. ASSUME NEW b \in Bundle, NEW namesSettled \in BOOLEAN, SignVote(b, namesSettled) PROVE TypeOK'
  <2>1. CachesOK' /\ GossipOK' /\ ChaseOK'
    BY <1>a, <1>19 DEF SignVote, CachesOK, GossipOK, ChaseOK
  <2>2. ClockOK'
    BY <1>a, <1>19 DEF ClockOK, SignVote
  <2>3. ChecksOK'
    BY <1>a, <1>19, AdmitType DEF SignVote
  <2>4. RestOK'
    BY <1>a, <1>19, EnqueueType DEF RestOK, SignVote
  <2>5. QED
    BY <1>b, <2>1, <2>2, <2>3, <2>4
<1>20. ASSUME NEW b \in Bundle, GateVerified(b) PROVE TypeOK'
  <2>1. ClockOK' /\ GossipOK' /\ ChaseOK'
    BY <1>a, <1>20 DEF GateVerified, ClockOK, GossipOK, ChaseOK
  <2>2. ChecksOK'
    BY <1>a, <1>20, SettleType DEF GateVerified
  <2>3. RestOK'
    BY <1>a, <1>20, SettleType DEF RestOK, GateVerified
  <2>4. CachesOK'
    BY <1>a, <1>20, CacheVerdictFacts DEF CachesOK, GateVerified
  <2>5. QED
    BY <1>b, <2>1, <2>2, <2>3, <2>4
<1>21. ASSUME NEW b \in Bundle, GateRejected(b) PROVE TypeOK'
  <2>1. ClockOK' /\ GossipOK' /\ ChaseOK'
    BY <1>a, <1>21 DEF GateRejected, ClockOK, GossipOK, ChaseOK
  <2>2. ChecksOK'
    BY <1>a, <1>21, EvictType DEF GateRejected
  <2>3. RestOK'
    BY <1>a, <1>21, EvictType DEF RestOK, GateRejected
  <2>4. CachesOK'
    BY <1>a, <1>21, CacheVerdictFacts DEF CachesOK, GateRejected
  <2>5. QED
    BY <1>b, <2>1, <2>2, <2>3, <2>4
<1>22. ASSUME NEW b \in Bundle, GraceClosed(b) PROVE TypeOK'
  <2>1. ClockOK' /\ CachesOK' /\ GossipOK' /\ ChaseOK'
    BY <1>a, <1>22 DEF GraceClosed, ClockOK, CachesOK, GossipOK, ChaseOK
  <2>2. ChecksOK'
    BY <1>a, <1>22, EvictType DEF GraceClosed
  <2>3. RestOK'
    BY <1>a, <1>22, EvictType DEF RestOK, GraceClosed
  <2>4. QED
    BY <1>b, <2>1, <2>2, <2>3
<1>23. ASSUME NEW b \in Bundle, NameResolved(b) PROVE TypeOK'
  <2>1. ClockOK' /\ GossipOK' /\ ChaseOK'
    BY <1>a, <1>23 DEF NameResolved, ClockOK, GossipOK, ChaseOK
  <2>2. ChecksOK'
    BY <1>a, <1>23, SettleType DEF NameResolved
  <2>3. RestOK'
    BY <1>a, <1>23, SettleType DEF RestOK, NameResolved
  <2>4. CachesOK'
    BY <1>a, <1>23, CacheVerdictFacts DEF CachesOK, NameResolved
  <2>5. QED
    BY <1>b, <2>1, <2>2, <2>3, <2>4
<1>24. ASSUME NEW b \in Bundle, NameRefused(b) PROVE TypeOK'
  <2>1. ClockOK' /\ CachesOK' /\ GossipOK' /\ ChaseOK'
    BY <1>a, <1>24 DEF NameRefused, ClockOK, CachesOK, GossipOK, ChaseOK
  <2>2. ChecksOK'
    BY <1>a, <1>24, EvictType DEF NameRefused
  <2>3. RestOK'
    BY <1>a, <1>24, EvictType DEF RestOK, NameRefused
  <2>4. QED
    BY <1>b, <2>1, <2>2, <2>3
<1>25. CASE UNCHANGED vars
  <2>1. ClockOK' /\ ChecksOK' /\ CachesOK' /\ GossipOK' /\ ChaseOK' /\ RestOK'
    BY <1>a, <1>25 DEF vars, ClockOK, ChecksOK, CachesOK, GossipOK, ChaseOK, RestOK
  <2>2. QED
    BY <1>b, <2>1
<1>26. ASSUME NEW b \in Bundle, ReadHead(b) PROVE TypeOK'
  <2>1. ChecksOK' /\ CachesOK' /\ GossipOK' /\ ChaseOK' /\ RestOK'
    BY <1>a, <1>26 DEF ReadHead, ChecksOK, CachesOK, GossipOK, ChaseOK, RestOK
  <2>2. ClockOK'
    BY <1>a, <1>26, SampleType DEF ClockOK, ReadHead
  <2>3. QED
    BY <1>b, <2>1, <2>2
<1>27. QED
  BY <1>1, <1>2, <1>3, <1>4, <1>5, <1>6, <1>7, <1>8, <1>9, <1>10, <1>11, <1>12, <1>13, <1>14, <1>15, <1>16, <1>17, <1>18, <1>19, <1>20, <1>21, <1>22, <1>23, <1>24, <1>25, <1>26
     DEF Next, GossipStep, ChaseStep, BackgroundStep

(* Every variable keeps its type, in every behaviour.                      *)
THEOREM AdmissionTypeCorrect == Spec => []TypeOK
BY TypeInit, TypeStep, PTL DEF Spec

----------------------------------------------------------------------------
(***************************************************************************)
(* The inductive invariant: wherever the system remembers that a bundle    *)
(* passed its checks (a settled flag, a cached verdict, a validation or a  *)
(* chase about to admit, the name stage, the wire), it did pass them.      *)
(***************************************************************************)
Proven(b) == b \in gatePassed /\ b \in namesPassed

SettledIsPassed ==
  /\ \A b \in admitted \ chainPending :
       b \in gatePassed /\ (b \notin carriesName => b \in namesPassed)
  /\ \A b \in (admitted \cap carriesName) \ namePending : b \in namesPassed

CachedIsPassed == \A b \in Bundle : CachedVerdict(b, "valid") => Proven(b)

ValidatedIsPassed == \A s \in Slot : gossip[s].pc = "admit" => Proven(gossip[s].cid)

ChasedIsPassed == \A c \in Chase : chase[c].verified => Proven(chase[c].cid)

QueuedIsPassed ==
  \A b \in Bundle : background[b] = "names" => b \in gatePassed /\ b \in carriesName

ForwardedIsPassed == \A b \in forwarded : Proven(b)

Established ==
  /\ ChecksMatchCrdt /\ SettledIsPassed /\ CachedIsPassed /\ ValidatedIsPassed
  /\ ChasedIsPassed /\ QueuedIsPassed /\ ForwardedIsPassed

(* Nothing is remembered before the first step.                            *)
LEMMA EstablishedInit == Init => Established
<1> SUFFICES ASSUME Init PROVE Established
  OBVIOUS
<1>1. Elements(verdictCache) = {}
  BY DEF Init, Elements
<1>2. ChecksMatchCrdt /\ SettledIsPassed /\ QueuedIsPassed /\ ForwardedIsPassed
  BY DEF Init, ChecksMatchCrdt, SettledIsPassed, QueuedIsPassed, ForwardedIsPassed
<1>3. CachedIsPassed
  BY <1>1 DEF CachedIsPassed, CachedVerdict
<1>4. ValidatedIsPassed
  BY DEF Init, ValidatedIsPassed, IdleSlot
<1>5. ChasedIsPassed
  BY <1>1 DEF Init, ChasedIsPassed, CachedVerdict, IdleChase
<1>6. QED
  BY <1>2, <1>3, <1>4, <1>5 DEF Established

(* What was established stays established.                                 *)
LEMMA PassedGrows ==
  ASSUME [Next]_vars
  PROVE  gatePassed \subseteq gatePassed' /\ namesPassed \subseteq namesPassed'
<1> DEFINE Grows == gatePassed \subseteq gatePassed' /\ namesPassed \subseteq namesPassed'
<1>1. ASSUME AdvanceHead \/ RefreshBucket \/ PruneDecayed \/ (\E b \in Bundle : ReadHead(b))
             \/ UNCHANGED vars
      PROVE  Grows
  BY <1>1 DEF ReadHead, AdvanceHead, RefreshBucket, PruneDecayed, vars, passed
<1>2. ASSUME NEW b \in Bundle, GossipKnown(b) PROVE Grows
  BY <1>2 DEF GossipKnown, passed
<1>3. ASSUME NEW s \in Slot, GossipStep(s) \/ \E b \in Bundle : GossipArrive(s, b) PROVE Grows
  <2>1. ASSUME NEW b \in Bundle, GossipArrive(s, b) PROVE Grows
    BY <2>1 DEF GossipArrive, passed
  <2>2. ASSUME GossipFresh(s) \/ GossipVerifyFails(s) PROVE Grows
    BY <2>2 DEF GossipFresh, GossipVerifyFails, passed
  <2>3. ASSUME GossipVerifyPasses(s) PROVE Grows
    BY <2>3 DEF GossipVerifyPasses, passed
  <2>4. ASSUME GossipAdmit(s) \/ GossipThrows(s) \/ GossipDeadline(s) PROVE Grows
    BY <2>4 DEF GossipAdmit, GossipThrows, GossipDeadline, passed
  <2>5. QED
    BY <1>3, <2>1, <2>2, <2>3, <2>4 DEF GossipStep
<1>4. ASSUME NEW c \in Chase, ChaseStep(c) \/ \E ws \in SUBSET Bundle : ChaseStart(c, ws) PROVE Grows
  <2>1. ASSUME NEW ws \in SUBSET Bundle, ChaseStart(c, ws) PROVE Grows
    BY <2>1 DEF ChaseStart, passed
  <2>2. ASSUME NEW b \in Bundle, ChaseNext(c, b) PROVE Grows
    BY <2>2 DEF ChaseNext, passed
  <2>3. ASSUME ChaseOffline(c) \/ ChaseAdmit(c) \/ ChaseDeadline(c) PROVE Grows
    BY <2>3 DEF ChaseOffline, ChaseAdmit, ChaseDeadline, passed
  <2>4. ASSUME ChaseThrows(c) \/ ChaseDone(c) PROVE Grows
    BY <2>4 DEF ChaseThrows, ChaseDone, passed
  <2>5. QED
    BY <1>4, <2>1, <2>2, <2>3, <2>4 DEF ChaseStep
<1>5. ASSUME NEW b \in Bundle, NEW namesSettled \in BOOLEAN, SignVote(b, namesSettled) PROVE Grows
  BY <1>5 DEF SignVote, passed
<1>6. ASSUME NEW b \in Bundle, BackgroundStep(b) PROVE Grows
  BY <1>6 DEF BackgroundStep, GateVerified, GateRejected, GraceClosed, NameResolved, NameRefused, passed
<1>7. QED
  BY <1>1, <1>2, <1>3, <1>4, <1>5, <1>6 DEF Next

(* A reject may be cached for any bundle, a valid verdict for one that     *)
(* passed.                                                                 *)
LEMMA CachingIsPassed ==
  ASSUME CachesOK, CachedIsPassed, [Next]_vars, NEW b \in Bundle, NEW v \in {"valid", "reject"},
         CacheVerdict(b, v) \/ UNCHANGED verdictCache, v = "valid" => Proven(b)'
  PROVE  CachedIsPassed'
<1>1. ASSUME NEW c \in Bundle, CachedVerdict(c, "valid")'
      PROVE  CachedVerdict(c, "valid") \/ (c = b /\ v = "valid")
  BY <1>1, CacheVerdictFacts DEF CachedVerdict
<1>2. QED
  BY <1>1, PassedGrows DEF CachedIsPassed, Proven

(* An answer to gossipsub puts at most an accepted bundle on the wire.     *)
LEMMA FinishForwards ==
  ASSUME NEW s \in Slot, GossipOK, NEW verdict, Finish(s, verdict)
  PROVE  /\ forwarded' \subseteq forwarded \cup (IF verdict = "accept" THEN {gossip[s].cid} ELSE {})
         /\ \A r \in Slot : gossip'[r].pc = "admit" => gossip[r].pc = "admit" /\ gossip'[r] = gossip[r]
BY DEF Finish, Verdict, GossipOK, IdleSlot

(* Every step keeps the memory honest.                                     *)
LEMMA EstablishedStep == TypeOK /\ Established /\ [Next]_vars => Established'
<1> SUFFICES ASSUME TypeOK, Established, [Next]_vars PROVE Established'
  OBVIOUS
<1> USE DEF clock, checks, caches, passed, verdicts
<1>a. ClockOK /\ ChecksOK /\ CachesOK /\ GossipOK /\ ChaseOK /\ RestOK
  BY TypeParts
<1>b. /\ ChecksMatchCrdt /\ SettledIsPassed /\ CachedIsPassed /\ ValidatedIsPassed
      /\ ChasedIsPassed /\ QueuedIsPassed /\ ForwardedIsPassed
  BY DEF Established
<1>c. gatePassed \subseteq gatePassed' /\ namesPassed \subseteq namesPassed'
  BY PassedGrows
<1>d. ASSUME ChecksMatchCrdt', SettledIsPassed', CachedIsPassed', ValidatedIsPassed',
             ChasedIsPassed', QueuedIsPassed', ForwardedIsPassed'
      PROVE  Established'
  BY <1>d DEF Established
<1>1. CASE AdvanceHead
  <2>1. ChecksMatchCrdt' /\ SettledIsPassed' /\ CachedIsPassed' /\ ValidatedIsPassed'
        /\ ChasedIsPassed' /\ QueuedIsPassed' /\ ForwardedIsPassed'
    BY <1>b, <1>c, <1>1 DEF AdvanceHead, ChecksMatchCrdt, SettledIsPassed, CachedIsPassed,
       CachedVerdict, Proven, ValidatedIsPassed, ChasedIsPassed, QueuedIsPassed,
       ForwardedIsPassed
  <2>2. QED
    BY <1>d, <2>1
<1>2. CASE RefreshBucket
  <2>1. ChecksMatchCrdt' /\ SettledIsPassed' /\ CachedIsPassed' /\ ValidatedIsPassed'
        /\ ChasedIsPassed' /\ QueuedIsPassed' /\ ForwardedIsPassed'
    BY <1>b, <1>c, <1>2 DEF RefreshBucket, ChecksMatchCrdt, SettledIsPassed,
       CachedIsPassed, CachedVerdict, Proven, ValidatedIsPassed, ChasedIsPassed,
       QueuedIsPassed, ForwardedIsPassed
  <2>2. QED
    BY <1>d, <2>1
<1>3. CASE PruneDecayed
  <2>1. CachedIsPassed' /\ ValidatedIsPassed' /\ ChasedIsPassed' /\ QueuedIsPassed'
        /\ ForwardedIsPassed'
    BY <1>b, <1>c, <1>3 DEF PruneDecayed, CachedIsPassed, CachedVerdict, Proven,
       ValidatedIsPassed, ChasedIsPassed, QueuedIsPassed, ForwardedIsPassed
  <2>2. ChecksMatchCrdt'
    BY <1>a, <1>b, <1>c, <1>3 DEF ChecksMatchCrdt, PruneDecayed
  <2>3. SettledIsPassed'
    BY <1>a, <1>b, <1>c, <1>3 DEF SettledIsPassed, PruneDecayed
  <2>4. QED
    BY <1>d, <2>1, <2>2, <2>3
<1>4. ASSUME NEW b \in Bundle, GossipKnown(b) PROVE Established'
  <2>1. ChecksMatchCrdt' /\ SettledIsPassed' /\ CachedIsPassed' /\ ValidatedIsPassed'
        /\ ChasedIsPassed' /\ QueuedIsPassed'
    BY <1>b, <1>c, <1>4 DEF GossipKnown, ChecksMatchCrdt, SettledIsPassed, CachedIsPassed,
       CachedVerdict, Proven, ValidatedIsPassed, ChasedIsPassed, QueuedIsPassed
  <2>2. ForwardedIsPassed'
    BY <1>a, <1>b, <1>c, <1>4 DEF ForwardedIsPassed, CachedIsPassed, GossipKnown, Verdict, Proven
  <2>3. QED
    BY <1>d, <2>1, <2>2
<1>5. ASSUME NEW s \in Slot, NEW b \in Bundle, GossipArrive(s, b) PROVE Established'
  <2>1. ChecksMatchCrdt' /\ SettledIsPassed' /\ CachedIsPassed' /\ ChasedIsPassed'
        /\ QueuedIsPassed' /\ ForwardedIsPassed'
    BY <1>b, <1>c, <1>5 DEF GossipArrive, ChecksMatchCrdt, SettledIsPassed, CachedIsPassed,
       CachedVerdict, Proven, ChasedIsPassed, QueuedIsPassed, ForwardedIsPassed
  <2>2. ValidatedIsPassed'
    BY <1>a, <1>b, <1>c, <1>5 DEF ValidatedIsPassed, GossipOK, GossipArrive, Proven
  <2>3. QED
    BY <1>d, <2>1, <2>2
<1>6. ASSUME NEW s \in Slot, GossipFresh(s) PROVE Established'
  <2>1. ChecksMatchCrdt' /\ SettledIsPassed' /\ CachedIsPassed' /\ ChasedIsPassed'
        /\ QueuedIsPassed'
    BY <1>b, <1>c, <1>6 DEF GossipFresh, ChecksMatchCrdt, SettledIsPassed, CachedIsPassed,
       CachedVerdict, Proven, ChasedIsPassed, QueuedIsPassed
  <2>2. ValidatedIsPassed'
    BY <1>a, <1>b, <1>c, <1>6, FinishForwards DEF ValidatedIsPassed, GossipOK, GossipFresh, Proven
  <2>3. ForwardedIsPassed'
    BY <1>a, <1>b, <1>c, <1>6, FinishForwards DEF ForwardedIsPassed, GossipFresh, Proven
  <2>4. QED
    BY <1>d, <2>1, <2>2, <2>3
<1>7. ASSUME NEW s \in Slot, GossipVerifyFails(s) PROVE Established'
  <2>1. ChecksMatchCrdt' /\ SettledIsPassed' /\ ChasedIsPassed' /\ QueuedIsPassed'
    BY <1>b, <1>c, <1>7 DEF GossipVerifyFails, ChecksMatchCrdt, SettledIsPassed,
       ChasedIsPassed, Proven, QueuedIsPassed
  <2>2. CachedIsPassed'
    BY <1>a, <1>b, <1>c, <1>7, GossipBundle, CachingIsPassed DEF GossipVerifyFails
  <2>3. ValidatedIsPassed'
    BY <1>a, <1>b, <1>c, <1>7, FinishForwards DEF ValidatedIsPassed, GossipOK, GossipVerifyFails, Proven
  <2>4. ForwardedIsPassed'
    BY <1>a, <1>b, <1>c, <1>7, FinishForwards DEF ForwardedIsPassed, GossipVerifyFails, Proven
  <2>5. QED
    BY <1>d, <2>1, <2>2, <2>3, <2>4
<1>8. ASSUME NEW s \in Slot, GossipVerifyPasses(s) PROVE Established'
  <2>1. ChecksMatchCrdt' /\ SettledIsPassed' /\ ChasedIsPassed' /\ QueuedIsPassed'
        /\ ForwardedIsPassed'
    BY <1>b, <1>c, <1>8 DEF GossipVerifyPasses, ChecksMatchCrdt, SettledIsPassed,
       ChasedIsPassed, Proven, QueuedIsPassed, ForwardedIsPassed
  <2>2. CachedIsPassed'
    BY <1>a, <1>b, <1>c, <1>8, GossipBundle, CachingIsPassed DEF GossipVerifyPasses, Proven
  <2>3. ValidatedIsPassed'
    BY <1>a, <1>b, <1>c, <1>8 DEF ValidatedIsPassed, GossipOK, GossipVerifyPasses, Proven
  <2>4. QED
    BY <1>d, <2>1, <2>2, <2>3
<1>9. ASSUME NEW s \in Slot, GossipAdmit(s) PROVE Established'
  <2>1. CachedIsPassed' /\ ChasedIsPassed' /\ QueuedIsPassed'
    BY <1>b, <1>c, <1>9 DEF GossipAdmit, CachedIsPassed, CachedVerdict, Proven,
       ChasedIsPassed, QueuedIsPassed
  <2>2. ChecksMatchCrdt'
    BY <1>a, <1>b, <1>c, <1>9 DEF ChecksMatchCrdt, GossipAdmit, Admit
  <2>3. SettledIsPassed'
    BY <1>a, <1>b, <1>c, <1>9 DEF SettledIsPassed, ValidatedIsPassed, GossipAdmit, Admit, Proven
  <2>4. ValidatedIsPassed'
    BY <1>a, <1>b, <1>c, <1>9, FinishForwards DEF ValidatedIsPassed, GossipOK, GossipAdmit, Proven
  <2>5. ForwardedIsPassed'
    BY <1>a, <1>b, <1>c, <1>9, FinishForwards DEF ForwardedIsPassed, ValidatedIsPassed, GossipAdmit, Proven
  <2>6. QED
    BY <1>d, <2>1, <2>2, <2>3, <2>4, <2>5
<1>10. ASSUME NEW s \in Slot, GossipThrows(s) PROVE Established'
  <2>1. ChecksMatchCrdt' /\ SettledIsPassed' /\ CachedIsPassed' /\ ChasedIsPassed'
        /\ QueuedIsPassed'
    BY <1>b, <1>c, <1>10 DEF GossipThrows, ChecksMatchCrdt, SettledIsPassed,
       CachedIsPassed, CachedVerdict, Proven, ChasedIsPassed, QueuedIsPassed
  <2>2. ValidatedIsPassed'
    BY <1>a, <1>b, <1>c, <1>10, FinishForwards DEF ValidatedIsPassed, GossipOK, GossipThrows, Proven
  <2>3. ForwardedIsPassed'
    BY <1>a, <1>b, <1>c, <1>10, FinishForwards DEF ForwardedIsPassed, GossipThrows, Proven
  <2>4. QED
    BY <1>d, <2>1, <2>2, <2>3
<1>11. ASSUME NEW s \in Slot, GossipDeadline(s) PROVE Established'
  <2>1. ChecksMatchCrdt' /\ SettledIsPassed' /\ CachedIsPassed' /\ ChasedIsPassed'
        /\ QueuedIsPassed' /\ ForwardedIsPassed'
    BY <1>b, <1>c, <1>11 DEF GossipDeadline, ChecksMatchCrdt, SettledIsPassed,
       CachedIsPassed, CachedVerdict, Proven, ChasedIsPassed, QueuedIsPassed,
       ForwardedIsPassed
  <2>2. ValidatedIsPassed'
    BY <1>a, <1>b, <1>c, <1>11 DEF ValidatedIsPassed, GossipOK, GossipDeadline, Proven
  <2>3. QED
    BY <1>d, <2>1, <2>2
<1>12. ASSUME NEW c \in Chase, NEW ws \in SUBSET Bundle, ChaseStart(c, ws) PROVE Established'
  <2>1. ChecksMatchCrdt' /\ SettledIsPassed' /\ CachedIsPassed' /\ ValidatedIsPassed'
        /\ QueuedIsPassed' /\ ForwardedIsPassed'
    BY <1>b, <1>c, <1>12 DEF ChaseStart, ChecksMatchCrdt, SettledIsPassed, CachedIsPassed,
       CachedVerdict, Proven, ValidatedIsPassed, QueuedIsPassed, ForwardedIsPassed
  <2>2. ChasedIsPassed'
    BY <1>a, <1>b, <1>c, <1>12 DEF ChasedIsPassed, ChaseOK, ChaseStart, IdleChase, Proven
  <2>3. QED
    BY <1>d, <2>1, <2>2
<1>13. ASSUME NEW c \in Chase, NEW b \in Bundle, ChaseNext(c, b) PROVE Established'
  <2>1. ChecksMatchCrdt' /\ SettledIsPassed' /\ CachedIsPassed' /\ ValidatedIsPassed'
        /\ QueuedIsPassed' /\ ForwardedIsPassed'
    BY <1>b, <1>c, <1>13 DEF ChaseNext, ChecksMatchCrdt, SettledIsPassed, CachedIsPassed,
       CachedVerdict, Proven, ValidatedIsPassed, QueuedIsPassed, ForwardedIsPassed
  <2>2. ChasedIsPassed'
    BY <1>a, <1>b, <1>c, <1>13 DEF ChasedIsPassed, CachedIsPassed, ChaseOK, ChaseNext, Proven
  <2>3. QED
    BY <1>d, <2>1, <2>2
<1>14. ASSUME NEW c \in Chase, ChaseOffline(c) PROVE Established'
  <2>1. ChecksMatchCrdt' /\ SettledIsPassed' /\ ValidatedIsPassed' /\ QueuedIsPassed'
        /\ ForwardedIsPassed'
    BY <1>b, <1>c, <1>14 DEF ChaseOffline, ChecksMatchCrdt, SettledIsPassed,
       ValidatedIsPassed, Proven, QueuedIsPassed, ForwardedIsPassed
  <2>2. CachedIsPassed'
    BY <1>a, <1>b, <1>c, <1>14, CachingIsPassed DEF ChaseOK, ChaseOffline
  <2>3. ChasedIsPassed'
    BY <1>a, <1>b, <1>c, <1>14 DEF ChasedIsPassed, ChaseOK, ChaseOffline, Proven
  <2>4. QED
    BY <1>d, <2>1, <2>2, <2>3
<1>15. ASSUME NEW c \in Chase, ChaseAdmit(c) PROVE Established'
  <2>1. CachedIsPassed' /\ ValidatedIsPassed' /\ QueuedIsPassed' /\ ForwardedIsPassed'
    BY <1>b, <1>c, <1>15 DEF ChaseAdmit, CachedIsPassed, CachedVerdict, Proven,
       ValidatedIsPassed, QueuedIsPassed, ForwardedIsPassed
  <2>2. ChecksMatchCrdt'
    BY <1>a, <1>b, <1>c, <1>15 DEF ChecksMatchCrdt, ChaseAdmit, Admit
  <2>3. SettledIsPassed'
    BY <1>a, <1>b, <1>c, <1>15 DEF SettledIsPassed, ChasedIsPassed, ChaseOK, ChaseAdmit, Admit, Proven
  <2>4. ChasedIsPassed'
    BY <1>a, <1>b, <1>c, <1>15 DEF ChasedIsPassed, ChaseOK, ChaseAdmit, Proven
  <2>5. QED
    BY <1>d, <2>1, <2>2, <2>3, <2>4
<1>16. ASSUME NEW c \in Chase, ChaseDeadline(c) PROVE Established'
  <2>1. ChecksMatchCrdt' /\ SettledIsPassed' /\ CachedIsPassed' /\ ValidatedIsPassed'
        /\ QueuedIsPassed' /\ ForwardedIsPassed'
    BY <1>b, <1>c, <1>16 DEF ChaseDeadline, ChecksMatchCrdt, SettledIsPassed,
       CachedIsPassed, CachedVerdict, Proven, ValidatedIsPassed, QueuedIsPassed,
       ForwardedIsPassed
  <2>2. ChasedIsPassed'
    BY <1>a, <1>b, <1>c, <1>16 DEF ChasedIsPassed, ChaseOK, ChaseDeadline, Proven
  <2>3. QED
    BY <1>d, <2>1, <2>2
<1>17. ASSUME NEW c \in Chase, ChaseThrows(c) PROVE Established'
  <2>1. ChecksMatchCrdt' /\ SettledIsPassed' /\ CachedIsPassed' /\ ValidatedIsPassed'
        /\ QueuedIsPassed' /\ ForwardedIsPassed'
    BY <1>b, <1>c, <1>17 DEF ChaseThrows, ChecksMatchCrdt, SettledIsPassed, CachedIsPassed,
       CachedVerdict, Proven, ValidatedIsPassed, QueuedIsPassed, ForwardedIsPassed
  <2>2. ChasedIsPassed'
    BY <1>a, <1>b, <1>c, <1>17 DEF ChasedIsPassed, ChaseOK, ChaseThrows, IdleChase, Proven
  <2>3. QED
    BY <1>d, <2>1, <2>2
<1>18. ASSUME NEW c \in Chase, ChaseDone(c) PROVE Established'
  <2>1. ChecksMatchCrdt' /\ SettledIsPassed' /\ CachedIsPassed' /\ ValidatedIsPassed'
        /\ ForwardedIsPassed'
    BY <1>b, <1>c, <1>18 DEF ChaseDone, ChecksMatchCrdt, SettledIsPassed, CachedIsPassed,
       CachedVerdict, Proven, ValidatedIsPassed, ForwardedIsPassed
  <2>2. ChasedIsPassed'
    BY <1>a, <1>b, <1>c, <1>18 DEF ChasedIsPassed, ChaseOK, ChaseDone, IdleChase, Proven
  <2>3. QueuedIsPassed'
    BY <1>a, <1>b, <1>c, <1>18 DEF QueuedIsPassed, RestOK, ChaseDone, Enqueue
  <2>4. QED
    BY <1>d, <2>1, <2>2, <2>3
<1>19. ASSUME NEW b \in Bundle, NEW namesSettled \in BOOLEAN, SignVote(b, namesSettled) PROVE Established'
  <2>1. CachedIsPassed' /\ ValidatedIsPassed' /\ ChasedIsPassed' /\ ForwardedIsPassed'
    BY <1>b, <1>c, <1>19 DEF SignVote, CachedIsPassed, CachedVerdict, Proven,
       ValidatedIsPassed, ChasedIsPassed, ForwardedIsPassed
  <2>2. ChecksMatchCrdt'
    BY <1>a, <1>b, <1>c, <1>19 DEF ChecksMatchCrdt, SignVote, Admit
  <2>3. SettledIsPassed'
    BY <1>a, <1>b, <1>c, <1>19 DEF SettledIsPassed, SignVote, Admit
  <2>4. QueuedIsPassed'
    BY <1>a, <1>b, <1>c, <1>19 DEF QueuedIsPassed, RestOK, SignVote, Enqueue
  <2>5. QED
    BY <1>d, <2>1, <2>2, <2>3, <2>4
<1>20. ASSUME NEW b \in Bundle, GateVerified(b) PROVE Established'
  <2>1. ValidatedIsPassed' /\ ChasedIsPassed' /\ ForwardedIsPassed'
    BY <1>b, <1>c, <1>20 DEF GateVerified, ValidatedIsPassed, Proven, ChasedIsPassed,
       ForwardedIsPassed
  <2>2. ChecksMatchCrdt'
    BY <1>a, <1>b, <1>c, <1>20 DEF ChecksMatchCrdt, GateVerified, SettleCheck
  <2>3. SettledIsPassed'
    BY <1>a, <1>b, <1>c, <1>20 DEF SettledIsPassed, GateVerified, SettleCheck
  <2>4. CachedIsPassed'
    BY <1>a, <1>b, <1>c, <1>20, CachingIsPassed DEF GateVerified, Proven
  <2>5. QueuedIsPassed'
    BY <1>a, <1>b, <1>c, <1>20 DEF QueuedIsPassed, RestOK, GateVerified
  <2>6. QED
    BY <1>d, <2>1, <2>2, <2>3, <2>4, <2>5
<1>21. ASSUME NEW b \in Bundle, GateRejected(b) PROVE Established'
  <2>1. ValidatedIsPassed' /\ ChasedIsPassed' /\ ForwardedIsPassed'
    BY <1>b, <1>c, <1>21 DEF GateRejected, ValidatedIsPassed, Proven, ChasedIsPassed,
       ForwardedIsPassed
  <2>2. ChecksMatchCrdt'
    BY <1>a, <1>b, <1>c, <1>21 DEF ChecksMatchCrdt, GateRejected, EvictBundle
  <2>3. SettledIsPassed'
    BY <1>a, <1>b, <1>c, <1>21 DEF SettledIsPassed, GateRejected, EvictBundle
  <2>4. CachedIsPassed'
    BY <1>a, <1>b, <1>c, <1>21, CachingIsPassed DEF GateRejected
  <2>5. QueuedIsPassed'
    BY <1>a, <1>b, <1>c, <1>21 DEF QueuedIsPassed, RestOK, GateRejected
  <2>6. QED
    BY <1>d, <2>1, <2>2, <2>3, <2>4, <2>5
<1>22. ASSUME NEW b \in Bundle, GraceClosed(b) PROVE Established'
  <2>1. CachedIsPassed' /\ ValidatedIsPassed' /\ ChasedIsPassed' /\ ForwardedIsPassed'
    BY <1>b, <1>c, <1>22 DEF GraceClosed, CachedIsPassed, CachedVerdict, Proven,
       ValidatedIsPassed, ChasedIsPassed, ForwardedIsPassed
  <2>2. ChecksMatchCrdt'
    BY <1>a, <1>b, <1>c, <1>22 DEF ChecksMatchCrdt, GraceClosed, EvictBundle
  <2>3. SettledIsPassed'
    BY <1>a, <1>b, <1>c, <1>22 DEF SettledIsPassed, GraceClosed, EvictBundle
  <2>4. QueuedIsPassed'
    BY <1>a, <1>b, <1>c, <1>22 DEF QueuedIsPassed, RestOK, GraceClosed
  <2>5. QED
    BY <1>d, <2>1, <2>2, <2>3, <2>4
<1>23. ASSUME NEW b \in Bundle, NameResolved(b) PROVE Established'
  <2>1. ValidatedIsPassed' /\ ChasedIsPassed' /\ ForwardedIsPassed'
    BY <1>b, <1>c, <1>23 DEF NameResolved, ValidatedIsPassed, Proven, ChasedIsPassed,
       ForwardedIsPassed
  <2>2. ChecksMatchCrdt'
    BY <1>a, <1>b, <1>c, <1>23 DEF ChecksMatchCrdt, NameResolved, SettleCheck
  <2>3. SettledIsPassed'
    BY <1>a, <1>b, <1>c, <1>23 DEF SettledIsPassed, NameResolved, SettleCheck
  <2>4. CachedIsPassed'
    BY <1>a, <1>b, <1>c, <1>23, CachingIsPassed DEF QueuedIsPassed, NameResolved, Proven
  <2>5. QueuedIsPassed'
    BY <1>a, <1>b, <1>c, <1>23 DEF QueuedIsPassed, RestOK, NameResolved
  <2>6. QED
    BY <1>d, <2>1, <2>2, <2>3, <2>4, <2>5
<1>24. ASSUME NEW b \in Bundle, NameRefused(b) PROVE Established'
  <2>1. CachedIsPassed' /\ ValidatedIsPassed' /\ ChasedIsPassed' /\ ForwardedIsPassed'
    BY <1>b, <1>c, <1>24 DEF NameRefused, CachedIsPassed, CachedVerdict, Proven,
       ValidatedIsPassed, ChasedIsPassed, ForwardedIsPassed
  <2>2. ChecksMatchCrdt'
    BY <1>a, <1>b, <1>c, <1>24 DEF ChecksMatchCrdt, NameRefused, EvictBundle
  <2>3. SettledIsPassed'
    BY <1>a, <1>b, <1>c, <1>24 DEF SettledIsPassed, NameRefused, EvictBundle
  <2>4. QueuedIsPassed'
    BY <1>a, <1>b, <1>c, <1>24 DEF QueuedIsPassed, RestOK, NameRefused
  <2>5. QED
    BY <1>d, <2>1, <2>2, <2>3, <2>4
<1>25. CASE UNCHANGED vars
  <2>1. ChecksMatchCrdt' /\ SettledIsPassed' /\ CachedIsPassed' /\ ValidatedIsPassed'
        /\ ChasedIsPassed' /\ QueuedIsPassed' /\ ForwardedIsPassed'
    BY <1>b, <1>c, <1>25 DEF vars, ChecksMatchCrdt, SettledIsPassed, CachedIsPassed,
       CachedVerdict, Proven, ValidatedIsPassed, ChasedIsPassed, QueuedIsPassed,
       ForwardedIsPassed
  <2>2. QED
    BY <1>d, <2>1
<1>26. ASSUME NEW b \in Bundle, ReadHead(b) PROVE Established'
  <2>1. ChecksMatchCrdt' /\ SettledIsPassed' /\ CachedIsPassed' /\ ValidatedIsPassed'
        /\ ChasedIsPassed' /\ QueuedIsPassed' /\ ForwardedIsPassed'
    BY <1>b, <1>c, <1>26 DEF ReadHead, ChecksMatchCrdt, SettledIsPassed, CachedIsPassed,
       CachedVerdict, Proven, ValidatedIsPassed, ChasedIsPassed, QueuedIsPassed,
       ForwardedIsPassed
  <2>2. QED
    BY <1>d, <2>1
<1>27. QED
  BY <1>1, <1>2, <1>3, <1>4, <1>5, <1>6, <1>7, <1>8, <1>9, <1>10, <1>11, <1>12, <1>13,
       <1>14, <1>15, <1>16, <1>17, <1>18, <1>19, <1>20, <1>21, <1>22, <1>23, <1>24, <1>25, <1>26
     DEF Next, GossipStep, ChaseStep, BackgroundStep

----------------------------------------------------------------------------
(* The CRDT and #checks never drift apart.                                 *)
THEOREM ChecksNeverDrift == Spec => []ChecksMatchCrdt
<1>1. Established => ChecksMatchCrdt
  BY DEF Established
<1>2. QED
  BY <1>1, TypeInit, TypeStep, EstablishedInit, EstablishedStep, PTL DEF Spec

(* The checkpoint serves only what this node verified.                     *)
THEOREM ServedSound == Spec => []ServedIsVerified
<1>1. Established => ServedIsVerified
  BY DEF Established, SettledIsPassed, ServedIsVerified, served, currentEntries, winnersByWallet,
     isFullyVerified
<1>2. QED
  BY <1>1, TypeInit, TypeStep, EstablishedInit, EstablishedStep, PTL DEF Spec

(* Gossip forwards only what this node verified.                           *)
THEOREM ForwardedSound == Spec => []ForwardedIsVerified
<1>1. Established => ForwardedIsVerified
  BY DEF Established, ForwardedIsPassed, ForwardedIsVerified, Proven
<1>2. QED
  BY <1>1, TypeInit, TypeStep, EstablishedInit, EstablishedStep, PTL DEF Spec

(***************************************************************************)
(* A prune in the middle of pending checks leaves what the checkpoint      *)
(* serves as it is: what it removes is expired, or beaten by a settled     *)
(* bundle that stays.                                                      *)
(***************************************************************************)
THEOREM PruneSound == Spec => PruneKeepsServed
<1>1. ASSUME TypeOK, Established, PruneDecayed
      PROVE  served' = served
  <2> DEFINE k == currentBucketCache
             P == {b \in crdt : isPending(b)}
             R == Prunable(crdt, k, P)
  <2>1. crdt \in SUBSET Bundle /\ k \in Nat /\ crdt = admitted
    BY <1>1, BoundAssumption, CriteriaAssumption DEF TypeOK, Established, ChecksMatchCrdt
  <2>2. /\ crdt' = crdt \ R /\ admitted' = admitted \ R
        /\ chainPending' = chainPending \ R /\ namePending' = namePending \ R
        /\ currentBucketCache' = currentBucketCache
    BY <1>1 DEF PruneDecayed, clock
  <2>3. {b \in crdt : isFullyVerified(b)} = crdt \ P
    BY <2>1 DEF isFullyVerified, isPending
  <2>4. {b \in crdt : isFullyVerified(b)}' = (crdt \ R) \ P
    <3> HIDE DEF R
    <3> QED BY <2>1, <2>2 DEF isFullyVerified, isPending
  <2>5. ASSUME NEW b \in (crdt \ P) \ ((crdt \ R) \ P)
        PROVE  \/ isExpired(b, k)
               \/ \E c \in (crdt \ R) \ P : SameWallet(c, b) /\ Beats(c, b)
    <3>1. b \in R
      OBVIOUS
    <3>2. QED
      BY <2>1, <3>1, PrunedIsCovered
  <2>6. currentEntries((crdt \ R) \ P, k) = currentEntries(crdt \ P, k)
    <3> HIDE DEF P, R
    <3>1. crdt \ P \in SUBSET Bundle /\ (crdt \ R) \ P \in SUBSET (crdt \ P)
      BY <2>1
    <3>2. QED
      BY <2>1, <2>5, <3>1, CoveredReduction
  <2>7. served' = currentEntries((crdt \ R) \ P, k)
    <3> HIDE DEF P, R
    <3> QED BY <2>2, <2>4 DEF served, currentEntries, winnersByWallet, isExpired
  <2>8. served = currentEntries(crdt \ P, k)
    BY <2>3 DEF served
  <2>9. QED
    BY <2>6, <2>7, <2>8
<1>2. TypeOK /\ Established /\ [Next]_vars => [PruneDecayed => served' = served]_vars
  BY <1>1
<1>3. QED
  BY <1>2, TypeInit, TypeStep, EstablishedInit, EstablishedStep, PTL DEF Spec, PruneKeepsServed

----------------------------------------------------------------------------
(***************************************************************************)
(* Who is blamed.  A bundle is blamed for bad bytes or for a gate miss its *)
(* rule stands behind; the wire, the winner-set and the queue hold bundles *)
(* whose bytes are good, as long as this node signs no bad ballot itself.  *)
(***************************************************************************)
Blamed(b) == b \in offlineInvalid \/ "reject" \in gateAnswers[b]

GateSaidPass == \A b \in gatePassed : "pass" \in gateAnswers[b]

CacheIsHonest ==
  \A b \in Bundle : /\ CachedVerdict(b, "reject") => Blamed(b)
                    /\ CachedVerdict(b, "valid") => b \notin offlineInvalid

ValidatedIsWellFormed == \A s \in Slot : gossip[s].pc = "admit" => gossip[s].cid \notin offlineInvalid

ChasedIsWellFormed ==
  \A c \in Chase : /\ chase[c].pc = "admit" => chase[c].cid \notin offlineInvalid
                   /\ chase[c].pending \cap offlineInvalid = {}

QueuedIsWellFormed == \A b \in Bundle : background[b] # "out" => b \notin offlineInvalid

WireIsHonest == forwarded \cap offlineInvalid = {} /\ \A b \in penalized : Blamed(b)

Honest ==
  /\ GateSaidPass /\ CacheIsHonest /\ ValidatedIsWellFormed
  /\ ChasedIsWellFormed /\ QueuedIsWellFormed /\ WireIsHonest

(* Nobody is blamed before the first step.                                 *)
LEMMA HonestInit == Init => Honest
<1> SUFFICES ASSUME Init PROVE Honest
  OBVIOUS
<1>1. Elements(verdictCache) = {}
  BY DEF Init, Elements
<1>2. QED
  BY <1>1 DEF Init, Honest, GateSaidPass, CacheIsHonest, CachedVerdict, ValidatedIsWellFormed,
     ChasedIsWellFormed, QueuedIsWellFormed, WireIsHonest, IdleSlot, IdleChase

(* Caching a reject blames, caching a valid verdict vouches.               *)
LEMMA CachingIsHonest ==
  ASSUME CachesOK, CacheIsHonest, NEW b \in Bundle, NEW v \in {"valid", "reject"},
         CacheVerdict(b, v) \/ UNCHANGED verdictCache,
         v = "reject" => Blamed(b), v = "valid" => b \notin offlineInvalid
  PROVE  CacheIsHonest'
<1>1. ASSUME NEW c \in Bundle, NEW w \in {"valid", "reject"}, CachedVerdict(c, w)'
      PROVE  CachedVerdict(c, w) \/ (c = b /\ w = v)
  BY <1>1, CacheVerdictFacts DEF CachedVerdict
<1>2. QED
  BY <1>1 DEF CacheIsHonest, Blamed

(* An answer penalizes, or accepts, the bundle it is about.                *)
LEMMA FinishBlames ==
  ASSUME NEW s \in Slot, WireIsHonest, NEW verdict, Finish(s, verdict),
         verdict = "accept" => gossip[s].cid \notin offlineInvalid,
         verdict = "reject" => Blamed(gossip[s].cid)
  PROVE  WireIsHonest'
BY DEF WireIsHonest, Finish, Verdict, Blamed

(* Every step blames only the guilty.                                      *)
LEMMA HonestStep ==
  ASSUME ownBundles \cap offlineInvalid = {}
  PROVE  TypeOK /\ Honest /\ [Next]_vars => Honest'
<1> SUFFICES ASSUME TypeOK, Honest, [Next]_vars PROVE Honest'
  OBVIOUS
<1> USE DEF clock, checks, caches, passed, verdicts
<1>a. ClockOK /\ ChecksOK /\ CachesOK /\ GossipOK /\ ChaseOK /\ RestOK
  BY TypeParts
<1>b. /\ GateSaidPass /\ CacheIsHonest /\ ValidatedIsWellFormed
      /\ ChasedIsWellFormed /\ QueuedIsWellFormed /\ WireIsHonest
  BY DEF Honest
<1>d. ASSUME GateSaidPass', CacheIsHonest', ValidatedIsWellFormed',
             ChasedIsWellFormed', QueuedIsWellFormed', WireIsHonest'
      PROVE  Honest'
  BY <1>d DEF Honest
<1>1. CASE AdvanceHead
  <2>1. GateSaidPass' /\ CacheIsHonest' /\ ValidatedIsWellFormed'
        /\ ChasedIsWellFormed' /\ QueuedIsWellFormed' /\ WireIsHonest'
    BY <1>b, <1>1 DEF AdvanceHead, GateSaidPass, CacheIsHonest, CachedVerdict, Blamed,
       ValidatedIsWellFormed, ChasedIsWellFormed, QueuedIsWellFormed, WireIsHonest
  <2>2. QED
    BY <1>d, <2>1
<1>2. CASE RefreshBucket
  <2>1. GateSaidPass' /\ CacheIsHonest' /\ ValidatedIsWellFormed'
        /\ ChasedIsWellFormed' /\ QueuedIsWellFormed' /\ WireIsHonest'
    BY <1>b, <1>2 DEF RefreshBucket, GateSaidPass, CacheIsHonest, CachedVerdict, Blamed,
       ValidatedIsWellFormed, ChasedIsWellFormed, QueuedIsWellFormed, WireIsHonest
  <2>2. QED
    BY <1>d, <2>1
<1>3. CASE PruneDecayed
  <2>1. GateSaidPass' /\ CacheIsHonest' /\ ValidatedIsWellFormed'
        /\ ChasedIsWellFormed' /\ QueuedIsWellFormed' /\ WireIsHonest'
    BY <1>b, <1>3 DEF PruneDecayed, GateSaidPass, CacheIsHonest, CachedVerdict, Blamed,
       ValidatedIsWellFormed, ChasedIsWellFormed, QueuedIsWellFormed, WireIsHonest
  <2>2. QED
    BY <1>d, <2>1
<1>4. ASSUME NEW b \in Bundle, GossipKnown(b) PROVE Honest'
  <2>1. GateSaidPass' /\ CacheIsHonest' /\ ValidatedIsWellFormed'
        /\ ChasedIsWellFormed' /\ QueuedIsWellFormed'
    BY <1>b, <1>4 DEF GossipKnown, GateSaidPass, CacheIsHonest, CachedVerdict, Blamed,
       ValidatedIsWellFormed, ChasedIsWellFormed, QueuedIsWellFormed
  <2>2. WireIsHonest'
    BY <1>a, <1>b, <1>4 DEF WireIsHonest, CacheIsHonest, GossipKnown, Verdict
  <2>3. QED
    BY <1>d, <2>1, <2>2
<1>5. ASSUME NEW s \in Slot, NEW b \in Bundle, GossipArrive(s, b) PROVE Honest'
  <2>1. GateSaidPass' /\ CacheIsHonest' /\ ChasedIsWellFormed'
        /\ QueuedIsWellFormed' /\ WireIsHonest'
    BY <1>b, <1>5 DEF GossipArrive, GateSaidPass, CacheIsHonest, CachedVerdict, Blamed,
       ChasedIsWellFormed, QueuedIsWellFormed, WireIsHonest
  <2>2. ValidatedIsWellFormed'
    BY <1>a, <1>b, <1>5 DEF ValidatedIsWellFormed, GossipOK, GossipArrive
  <2>3. QED
    BY <1>d, <2>1, <2>2
<1>6. ASSUME NEW s \in Slot, GossipFresh(s) PROVE Honest'
  <2>1. GateSaidPass' /\ CacheIsHonest' /\ ChasedIsWellFormed'
        /\ QueuedIsWellFormed'
    BY <1>b, <1>6 DEF GossipFresh, GateSaidPass, CacheIsHonest, CachedVerdict, Blamed,
       ChasedIsWellFormed, QueuedIsWellFormed
  <2>2. ValidatedIsWellFormed'
    BY <1>a, <1>b, <1>6, FinishForwards DEF ValidatedIsWellFormed, GossipOK, GossipFresh
  <2>3. WireIsHonest'
    BY <1>a, <1>b, <1>6, FinishBlames DEF WireIsHonest, GossipFresh
  <2>4. QED
    BY <1>d, <2>1, <2>2, <2>3
<1>7. ASSUME NEW s \in Slot, GossipVerifyFails(s) PROVE Honest'
  <2>1. GateSaidPass' /\ ChasedIsWellFormed' /\ QueuedIsWellFormed'
    BY <1>b, <1>7 DEF GossipVerifyFails, GateSaidPass, ChasedIsWellFormed,
       QueuedIsWellFormed
  <2>2. CacheIsHonest'
    BY <1>a, <1>b, <1>7, GossipBundle, CachingIsHonest DEF GossipVerifyFails, Blamed
  <2>3. ValidatedIsWellFormed'
    BY <1>a, <1>b, <1>7, FinishForwards DEF ValidatedIsWellFormed, GossipOK, GossipVerifyFails
  <2>4. WireIsHonest'
    BY <1>a, <1>b, <1>7, FinishBlames DEF GossipVerifyFails, Blamed
  <2>5. QED
    BY <1>d, <2>1, <2>2, <2>3, <2>4
<1>8. ASSUME NEW s \in Slot, GossipVerifyPasses(s) PROVE Honest'
  <2>1. ChasedIsWellFormed' /\ QueuedIsWellFormed' /\ WireIsHonest'
    BY <1>b, <1>8 DEF GossipVerifyPasses, ChasedIsWellFormed, QueuedIsWellFormed,
       WireIsHonest, Blamed
  <2>2. GateSaidPass'
    BY <1>a, <1>b, <1>8 DEF GateSaidPass, GossipVerifyPasses
  <2>3. CacheIsHonest'
    BY <1>a, <1>b, <1>8, GossipBundle, CachingIsHonest DEF GossipVerifyPasses
  <2>4. ValidatedIsWellFormed'
    BY <1>a, <1>b, <1>8 DEF ValidatedIsWellFormed, GossipOK, GossipVerifyPasses
  <2>5. QED
    BY <1>d, <2>1, <2>2, <2>3, <2>4
<1>9. ASSUME NEW s \in Slot, GossipAdmit(s) PROVE Honest'
  <2>1. GateSaidPass' /\ CacheIsHonest' /\ ChasedIsWellFormed'
        /\ QueuedIsWellFormed'
    BY <1>b, <1>9 DEF GossipAdmit, GateSaidPass, CacheIsHonest, CachedVerdict, Blamed,
       ChasedIsWellFormed, QueuedIsWellFormed
  <2>2. ValidatedIsWellFormed'
    BY <1>a, <1>b, <1>9, FinishForwards DEF ValidatedIsWellFormed, GossipOK, GossipAdmit
  <2>3. WireIsHonest'
    BY <1>a, <1>b, <1>9, FinishBlames DEF ValidatedIsWellFormed, GossipAdmit
  <2>4. QED
    BY <1>d, <2>1, <2>2, <2>3
<1>10. ASSUME NEW s \in Slot, GossipThrows(s) PROVE Honest'
  <2>1. GateSaidPass' /\ CacheIsHonest' /\ ChasedIsWellFormed'
        /\ QueuedIsWellFormed'
    BY <1>b, <1>10 DEF GossipThrows, GateSaidPass, CacheIsHonest, CachedVerdict, Blamed,
       ChasedIsWellFormed, QueuedIsWellFormed
  <2>2. ValidatedIsWellFormed'
    BY <1>a, <1>b, <1>10, FinishForwards DEF ValidatedIsWellFormed, GossipOK, GossipThrows
  <2>3. WireIsHonest'
    BY <1>a, <1>b, <1>10, FinishBlames DEF GossipThrows
  <2>4. QED
    BY <1>d, <2>1, <2>2, <2>3
<1>11. ASSUME NEW s \in Slot, GossipDeadline(s) PROVE Honest'
  <2>1. GateSaidPass' /\ CacheIsHonest' /\ ChasedIsWellFormed'
        /\ QueuedIsWellFormed' /\ WireIsHonest'
    BY <1>b, <1>11 DEF GossipDeadline, GateSaidPass, CacheIsHonest, CachedVerdict, Blamed,
       ChasedIsWellFormed, QueuedIsWellFormed, WireIsHonest
  <2>2. ValidatedIsWellFormed'
    BY <1>a, <1>b, <1>11 DEF ValidatedIsWellFormed, GossipOK, GossipDeadline
  <2>3. QED
    BY <1>d, <2>1, <2>2
<1>12. ASSUME NEW c \in Chase, NEW ws \in SUBSET Bundle, ChaseStart(c, ws) PROVE Honest'
  <2>1. GateSaidPass' /\ CacheIsHonest' /\ ValidatedIsWellFormed'
        /\ QueuedIsWellFormed' /\ WireIsHonest'
    BY <1>b, <1>12 DEF ChaseStart, GateSaidPass, CacheIsHonest, CachedVerdict, Blamed,
       ValidatedIsWellFormed, QueuedIsWellFormed, WireIsHonest
  <2>2. ChasedIsWellFormed'
    BY <1>a, <1>b, <1>12 DEF ChasedIsWellFormed, ChaseOK, ChaseStart, IdleChase
  <2>3. QED
    BY <1>d, <2>1, <2>2
<1>13. ASSUME NEW c \in Chase, NEW b \in Bundle, ChaseNext(c, b) PROVE Honest'
  <2>1. GateSaidPass' /\ CacheIsHonest' /\ ValidatedIsWellFormed'
        /\ QueuedIsWellFormed' /\ WireIsHonest'
    BY <1>b, <1>13 DEF ChaseNext, GateSaidPass, CacheIsHonest, CachedVerdict, Blamed,
       ValidatedIsWellFormed, QueuedIsWellFormed, WireIsHonest
  <2>2. ChasedIsWellFormed'
    BY <1>a, <1>b, <1>13 DEF ChasedIsWellFormed, CacheIsHonest, ChaseOK, ChaseNext
  <2>3. QED
    BY <1>d, <2>1, <2>2
<1>14. ASSUME NEW c \in Chase, ChaseOffline(c) PROVE Honest'
  <2>1. GateSaidPass' /\ ValidatedIsWellFormed' /\ QueuedIsWellFormed'
        /\ WireIsHonest'
    BY <1>b, <1>14 DEF ChaseOffline, GateSaidPass, ValidatedIsWellFormed,
       QueuedIsWellFormed, WireIsHonest, Blamed
  <2>2. CacheIsHonest'
    BY <1>a, <1>b, <1>14, CachingIsHonest DEF ChaseOK, ChaseOffline, Blamed
  <2>3. ChasedIsWellFormed'
    BY <1>a, <1>b, <1>14 DEF ChasedIsWellFormed, ChaseOK, ChaseOffline
  <2>4. QED
    BY <1>d, <2>1, <2>2, <2>3
<1>15. ASSUME NEW c \in Chase, ChaseAdmit(c) PROVE Honest'
  <2>1. GateSaidPass' /\ CacheIsHonest' /\ ValidatedIsWellFormed'
        /\ QueuedIsWellFormed' /\ WireIsHonest'
    BY <1>b, <1>15 DEF ChaseAdmit, GateSaidPass, CacheIsHonest, CachedVerdict, Blamed,
       ValidatedIsWellFormed, QueuedIsWellFormed, WireIsHonest
  <2>2. ChasedIsWellFormed'
    BY <1>a, <1>b, <1>15 DEF ChasedIsWellFormed, ChaseOK, ChaseAdmit
  <2>3. QED
    BY <1>d, <2>1, <2>2
<1>16. ASSUME NEW c \in Chase, ChaseDeadline(c) PROVE Honest'
  <2>1. GateSaidPass' /\ CacheIsHonest' /\ ValidatedIsWellFormed'
        /\ QueuedIsWellFormed' /\ WireIsHonest'
    BY <1>b, <1>16 DEF ChaseDeadline, GateSaidPass, CacheIsHonest, CachedVerdict, Blamed,
       ValidatedIsWellFormed, QueuedIsWellFormed, WireIsHonest
  <2>2. ChasedIsWellFormed'
    BY <1>a, <1>b, <1>16 DEF ChasedIsWellFormed, ChaseOK, ChaseDeadline
  <2>3. QED
    BY <1>d, <2>1, <2>2
<1>17. ASSUME NEW c \in Chase, ChaseThrows(c) PROVE Honest'
  <2>1. GateSaidPass' /\ CacheIsHonest' /\ ValidatedIsWellFormed'
        /\ QueuedIsWellFormed' /\ WireIsHonest'
    BY <1>b, <1>17 DEF ChaseThrows, GateSaidPass, CacheIsHonest, CachedVerdict, Blamed,
       ValidatedIsWellFormed, QueuedIsWellFormed, WireIsHonest
  <2>2. ChasedIsWellFormed'
    BY <1>a, <1>b, <1>17 DEF ChasedIsWellFormed, ChaseOK, ChaseThrows, IdleChase
  <2>3. QED
    BY <1>d, <2>1, <2>2
<1>18. ASSUME NEW c \in Chase, ChaseDone(c) PROVE Honest'
  <2>1. GateSaidPass' /\ CacheIsHonest' /\ ValidatedIsWellFormed'
        /\ WireIsHonest'
    BY <1>b, <1>18 DEF ChaseDone, GateSaidPass, CacheIsHonest, CachedVerdict, Blamed,
       ValidatedIsWellFormed, WireIsHonest
  <2>2. ChasedIsWellFormed'
    BY <1>a, <1>b, <1>18 DEF ChasedIsWellFormed, ChaseOK, ChaseDone, IdleChase
  <2>3. QueuedIsWellFormed'
    BY <1>a, <1>b, <1>18 DEF ChasedIsWellFormed, QueuedIsWellFormed, RestOK, ChaseDone, Enqueue
  <2>4. QED
    BY <1>d, <2>1, <2>2, <2>3
<1>19. ASSUME NEW b \in Bundle, NEW namesSettled \in BOOLEAN, SignVote(b, namesSettled) PROVE Honest'
  <2>1. GateSaidPass' /\ CacheIsHonest' /\ ValidatedIsWellFormed'
        /\ ChasedIsWellFormed' /\ WireIsHonest'
    BY <1>b, <1>19 DEF SignVote, GateSaidPass, CacheIsHonest, CachedVerdict, Blamed,
       ValidatedIsWellFormed, ChasedIsWellFormed, WireIsHonest
  <2>2. QueuedIsWellFormed'
    BY <1>a, <1>b, <1>19 DEF ClockOK, QueuedIsWellFormed, RestOK, SignVote, Enqueue
  <2>3. QED
    BY <1>d, <2>1, <2>2
<1>20. ASSUME NEW b \in Bundle, GateVerified(b) PROVE Honest'
  <2>1. ValidatedIsWellFormed' /\ ChasedIsWellFormed' /\ WireIsHonest'
    BY <1>b, <1>20 DEF GateVerified, ValidatedIsWellFormed, ChasedIsWellFormed,
       WireIsHonest, Blamed
  <2>2. GateSaidPass'
    BY <1>a, <1>b, <1>20 DEF GateSaidPass, GateVerified
  <2>3. CacheIsHonest'
    BY <1>a, <1>b, <1>20, CachingIsHonest DEF QueuedIsWellFormed, GateVerified
  <2>4. QueuedIsWellFormed'
    BY <1>a, <1>b, <1>20 DEF QueuedIsWellFormed, RestOK, GateVerified
  <2>5. QED
    BY <1>d, <2>1, <2>2, <2>3, <2>4
<1>21. ASSUME NEW b \in Bundle, GateRejected(b) PROVE Honest'
  <2>1. GateSaidPass' /\ ValidatedIsWellFormed' /\ ChasedIsWellFormed'
        /\ WireIsHonest'
    BY <1>b, <1>21 DEF GateRejected, GateSaidPass, ValidatedIsWellFormed,
       ChasedIsWellFormed, WireIsHonest, Blamed
  <2>2. CacheIsHonest'
    BY <1>a, <1>b, <1>21, CachingIsHonest DEF GateRejected, Blamed
  <2>3. QueuedIsWellFormed'
    BY <1>a, <1>b, <1>21 DEF QueuedIsWellFormed, RestOK, GateRejected
  <2>4. QED
    BY <1>d, <2>1, <2>2, <2>3
<1>22. ASSUME NEW b \in Bundle, GraceClosed(b) PROVE Honest'
  <2>1. GateSaidPass' /\ CacheIsHonest' /\ ValidatedIsWellFormed'
        /\ ChasedIsWellFormed' /\ WireIsHonest'
    BY <1>b, <1>22 DEF GraceClosed, GateSaidPass, CacheIsHonest, CachedVerdict, Blamed,
       ValidatedIsWellFormed, ChasedIsWellFormed, WireIsHonest
  <2>2. QueuedIsWellFormed'
    BY <1>a, <1>b, <1>22 DEF QueuedIsWellFormed, RestOK, GraceClosed
  <2>3. QED
    BY <1>d, <2>1, <2>2
<1>23. ASSUME NEW b \in Bundle, NameResolved(b) PROVE Honest'
  <2>1. GateSaidPass' /\ ValidatedIsWellFormed' /\ ChasedIsWellFormed'
        /\ WireIsHonest'
    BY <1>b, <1>23 DEF NameResolved, GateSaidPass, ValidatedIsWellFormed,
       ChasedIsWellFormed, WireIsHonest, Blamed
  <2>2. CacheIsHonest'
    BY <1>a, <1>b, <1>23, CachingIsHonest DEF QueuedIsWellFormed, NameResolved
  <2>3. QueuedIsWellFormed'
    BY <1>a, <1>b, <1>23 DEF QueuedIsWellFormed, RestOK, NameResolved
  <2>4. QED
    BY <1>d, <2>1, <2>2, <2>3
<1>24. ASSUME NEW b \in Bundle, NameRefused(b) PROVE Honest'
  <2>1. GateSaidPass' /\ CacheIsHonest' /\ ValidatedIsWellFormed'
        /\ ChasedIsWellFormed' /\ WireIsHonest'
    BY <1>b, <1>24 DEF NameRefused, GateSaidPass, CacheIsHonest, CachedVerdict, Blamed,
       ValidatedIsWellFormed, ChasedIsWellFormed, WireIsHonest
  <2>2. QueuedIsWellFormed'
    BY <1>a, <1>b, <1>24 DEF QueuedIsWellFormed, RestOK, NameRefused
  <2>3. QED
    BY <1>d, <2>1, <2>2
<1>25. CASE UNCHANGED vars
  <2>1. GateSaidPass' /\ CacheIsHonest' /\ ValidatedIsWellFormed'
        /\ ChasedIsWellFormed' /\ QueuedIsWellFormed' /\ WireIsHonest'
    BY <1>b, <1>25 DEF vars, GateSaidPass, CacheIsHonest, CachedVerdict, Blamed,
       ValidatedIsWellFormed, ChasedIsWellFormed, QueuedIsWellFormed, WireIsHonest
  <2>2. QED
    BY <1>d, <2>1
<1>26. ASSUME NEW b \in Bundle, ReadHead(b) PROVE Honest'
  <2>1. GateSaidPass' /\ CacheIsHonest' /\ ValidatedIsWellFormed' /\ ChasedIsWellFormed'
        /\ WireIsHonest' /\ QueuedIsWellFormed'
    BY <1>b, <1>26 DEF ReadHead, GateSaidPass, CacheIsHonest, CachedVerdict, Blamed,
       ValidatedIsWellFormed, ChasedIsWellFormed, WireIsHonest, QueuedIsWellFormed
  <2>2. QED
    BY <1>d, <2>1
<1>27. QED
  BY <1>1, <1>2, <1>3, <1>4, <1>5, <1>6, <1>7, <1>8, <1>9, <1>10, <1>11, <1>12, <1>13,
       <1>14, <1>15, <1>16, <1>17, <1>18, <1>19, <1>20, <1>21, <1>22, <1>23, <1>24, <1>25, <1>26
     DEF Next, GossipStep, ChaseStep, BackgroundStep

(***************************************************************************)
(* A node that signs no bad ballot never has a peer penalized for relaying *)
(* what the node forwards itself.                                          *)
(***************************************************************************)
THEOREM RelayersSound ==
  ASSUME ownBundles \cap offlineInvalid = {}
  PROVE  Spec => []RelayersAreSafe
<1>1. TypeOK /\ Established /\ Honest => RelayersAreSafe
  <2>1. SUFFICES ASSUME TypeOK, Established, Honest, NEW b \in forwarded, b \in penalized
                 PROVE  FALSE
    BY DEF RelayersAreSafe
  <2>2. b \in Bundle /\ b \in gatePassed /\ b \notin offlineInvalid /\ Blamed(b)
    BY <2>1 DEF TypeOK, Established, ForwardedIsPassed, Proven, Honest, WireIsHonest
  <2>3. "pass" \in gateAnswers[b] /\ "reject" \in gateAnswers[b]
    BY <2>1, <2>2 DEF Honest, GateSaidPass, Blamed
  <2>4. QED
    BY <2>2, <2>3, BlameAssumption
<1>2. TypeOK /\ Honest /\ [Next]_vars => Honest'
  BY HonestStep
<1>3. QED
  BY <1>1, <1>2, TypeInit, TypeStep, EstablishedInit, EstablishedStep, HonestInit, PTL DEF Spec
=============================================================================
