-------------------------- MODULE LifecycleProofs ---------------------------
(***************************************************************************)
(* Proofs about Lifecycle: for any set of contests and any number of       *)
(* calls, however joins and leaves overlap, a joined contest of a living   *)
(* voter is served, and its heartbeat goes on; and a host that awaits its  *)
(* calls leaves nothing behind when it leaves.                             *)
(*                                                                         *)
(* The responder goes when the count of joined contests says so, so the    *)
(* invariant relates that count to the contests: it is at least the joined *)
(* ones and the leaves that have still to be counted off together.         *)
(*                                                                         *)
(* At the end, proofs about RootExchange, which the heartbeats drive.      *)
(***************************************************************************)
EXTENDS Lifecycle, RootExchange, FiniteSetTheorems, TLAPS

\* the elements of a bag over Engine, numbered
Numbered(bag) == {p \in Engine \X (Nat \ {0}) : p[2] =< bag[p[1]]}

\* the leaves that will still call onTopicLeft
Owed == Numbered(stopping)

\* joins in progress are calls that were made, on contests that exist
JoinsAreCalls ==
  \A e \in Engine :
    /\ starting[e] + restoring[e] =< calls
    /\ starting[e] + restoring[e] > 0 => e \in engines

Counted ==
  /\ IsFiniteSet(joined) /\ IsFiniteSet(Owed)
  /\ joinedEngines >= Cardinality(joined) + Cardinality(Owed)

Beating ==
  \A e \in Engine :
    /\ e \in joined /\ flushing[e] = 0 => timer[e] # "none"
    /\ timer[e] = "fired" => ticks[e] > 0
    /\ e \notin doubled => lost[e] = 0 /\ ticks[e] =< 1 /\ (timer[e] = "armed" => ticks[e] = 0)

IInv == TypeOK /\ JoinsAreCalls /\ Counted /\ ServesWhileJoined /\ Beating

----------------------------------------------------------------------------
\* One more of e is one more element.
LEMMA NumberedGrows ==
  ASSUME NEW s \in [Engine -> Nat], NEW e \in Engine
  PROVE  /\ Numbered([s EXCEPT ![e] = @ + 1]) = Numbered(s) \cup {<<e, s[e] + 1>>}
         /\ <<e, s[e] + 1>> \notin Numbered(s)
<1> DEFINE t == [s EXCEPT ![e] = @ + 1]
<1>1. ASSUME NEW f \in Engine, NEW i \in Nat \ {0}
      PROVE  i =< t[f] <=> i =< s[f] \/ (f = e /\ i = s[e] + 1)
  BY <1>1
<1> HIDE DEF t
<1> QED BY <1>1 DEF Numbered

\* One of e less is one element less.
LEMMA NumberedShrinks ==
  ASSUME NEW s \in [Engine -> Nat], NEW e \in Engine, s[e] > 0
  PROVE  /\ Numbered([s EXCEPT ![e] = @ - 1]) = Numbered(s) \ {<<e, s[e]>>}
         /\ <<e, s[e]>> \in Numbered(s)
<1> DEFINE t == [s EXCEPT ![e] = @ - 1]
<1>1. ASSUME NEW f \in Engine, NEW i \in Nat \ {0}
      PROVE  i =< t[f] <=> i =< s[f] /\ ~(f = e /\ i = s[e])
  BY <1>1
<1> HIDE DEF t
<1> QED BY <1>1 DEF Numbered

----------------------------------------------------------------------------
\* Steps that touch neither the counts nor what they count.
LEMMA CountedStays ==
  ASSUME Counted, UNCHANGED <<joined, stopping, joinedEngines>>
  PROVE  Counted'
BY DEF Counted, Owed, Numbered

\* What a count of one says: nothing is joined while a leave is owed.
LEMMA LastOneOut ==
  ASSUME TypeOK, Counted, NEW e \in Engine, stopping[e] > 0
  PROVE  /\ joinedEngines > Cardinality(joined)
         /\ Cardinality(joined) \in Nat
         /\ joinedEngines = 1 => joined = {}
<1>1. stopping \in [Engine -> Nat] BY DEF TypeOK
<1>2. <<e, stopping[e]>> \in Owed BY <1>1, NumberedShrinks DEF Owed
<1>3. Cardinality(Owed) \in Nat /\ Cardinality(Owed) # 0 /\ Cardinality(joined) \in Nat
  BY <1>2, FS_CardinalityType, FS_EmptySet DEF Counted
<1>4. joinedEngines > Cardinality(joined)
  <2>1. joinedEngines \in Nat BY DEF TypeOK
  <2>2. joinedEngines >= Cardinality(joined) + Cardinality(Owed) BY DEF Counted
  <2> QED BY <2>1, <2>2, <1>3
<1>5. joinedEngines = 1 => Cardinality(joined) = 0 BY <1>3, <1>4
<1> QED BY <1>3, <1>4, <1>5, FS_EmptySet DEF Counted

LEMMA InitIsGood == ASSUME Init PROVE IInv
<1>1. TypeOK
  <2>2. 0 \in Count BY LifecycleAssumption DEF Count
  <2>3. Zero \in [Engine -> Count] /\ Zero \in [Engine -> Nat] BY <2>2 DEF Zero
  <2> QED BY <2>2, <2>3 DEF Init, TypeOK
<1>2. JoinsAreCalls BY DEF Init, JoinsAreCalls, Zero
<1>3. Owed = {}
  <2>1. \A e \in Engine : stopping[e] = 0 BY DEF Init, Zero
  <2> QED BY <2>1 DEF Owed, Numbered
<1>4. Counted BY <1>3, FS_EmptySet DEF Init, Counted
<1>5. ServesWhileJoined /\ Beating BY DEF Init, ServesWhileJoined, Beating, Zero
<1> QED BY <1>1, <1>2, <1>4, <1>5 DEF IInv

\* Creation and the announcer.
LEMMA QuietSteps ==
  ASSUME IInv,
         \/ \E e \in Engine : createContest(e) \/ engineFor(e) \/ RepullEnds(e) \/ Restored(e)
         \/ AnnouncerStep \/ IntervalFires \/ Change \/ UNCHANGED vars
  PROVE  IInv'
<1> USE DEF host, made, join_leave, topic, heart, voter, announcer, vars
<1>1. UNCHANGED <<joined, stopping, joinedEngines>>
  BY DEF createContest, engineFor, RepullEnds, Restored, AnnouncerStep, DebounceFires, PutDone,
         announceNow, IntervalFires, Change, notifyChange
<1>2. Counted' BY <1>1, CountedStays DEF IInv
<1>3. UNCHANGED <<serial, calls, starting, flushing, timer, lost, ticks, doubled, missed, failed,
                 responder, destroyed, started>>
  BY DEF createContest, engineFor, RepullEnds, Restored, AnnouncerStep, DebounceFires, PutDone,
         announceNow, IntervalFires, Change, notifyChange
<1>4. TypeOK' /\ JoinsAreCalls'
  <2>1. CASE \E e \in Engine : createContest(e) \/ engineFor(e) \/ RepullEnds(e)
    BY <2>1, <1>1, <1>3 DEF IInv, TypeOK, JoinsAreCalls, createContest, engineFor, RepullEnds
  <2>2. CASE \E e \in Engine : Restored(e)
    <3> PICK e \in Engine : Restored(e) BY <2>2
    <3>1. restoring' \in [Engine -> Count]
             /\ \A f \in Engine : restoring'[f] =< restoring[f]
      BY LifecycleAssumption DEF Restored, IInv, TypeOK, Count
    <3>2. restoring \in [Engine -> Nat] /\ starting \in [Engine -> Nat]
      BY DEF IInv, TypeOK, Count
    <3>3. repull' \subseteq engines'
      BY <3>2 DEF Restored, IInv, TypeOK, JoinsAreCalls
    <3> QED BY <3>1, <3>2, <3>3, <1>1, <1>3 DEF IInv, TypeOK, JoinsAreCalls, Restored
  <2>3. CASE AnnouncerStep \/ IntervalFires \/ Change
    BY <2>3, <1>1, <1>3 DEF IInv, TypeOK, JoinsAreCalls, AnnouncerStep, DebounceFires, PutDone,
       announceNow, IntervalFires, Change, notifyChange
  <2>4. CASE UNCHANGED vars
    BY <2>4 DEF IInv, TypeOK, JoinsAreCalls
  <2> QED BY <2>1, <2>2, <2>3, <2>4
<1>5. ServesWhileJoined' /\ Beating'
  BY <1>1, <1>3 DEF IInv, ServesWhileJoined, Beating
<1> QED BY <1>2, <1>4, <1>5 DEF IInv

\* A heartbeat fires or a tick ends: only that engine's timer moves.
LEMMA HeartSteps ==
  ASSUME IInv, NEW e \in Engine, HeartbeatFires(e) \/ TickDone(e)
  PROVE  IInv'
<1> USE DEF host, made, join_leave, topic, heart, voter, announcer
<1>1. UNCHANGED <<host, made, join_leave, topic, doubled, voter, announcer>>
  BY DEF HeartbeatFires, TickDone
<1>2. /\ timer \in [Engine -> {"none", "armed", "fired"}]
      /\ lost \in [Engine -> Nat] /\ ticks \in [Engine -> Nat]
  BY DEF IInv, TypeOK
<1>3. /\ timer' \in [Engine -> {"none", "armed", "fired"}]
      /\ lost' \in [Engine -> Nat] /\ ticks' \in [Engine -> Nat]
  BY <1>2 DEF HeartbeatFires, TickDone, armHeartbeat
<1>4. /\ \A f \in Engine : timer'[f] = "none" <=> timer[f] = "none"
      /\ \A f \in Engine : timer'[f] = "fired" => ticks'[f] > 0
      /\ \A f \in Engine \ doubled :
           lost'[f] = 0 /\ ticks'[f] =< 1 /\ (timer'[f] = "armed" => ticks'[f] = 0)
  BY <1>2 DEF HeartbeatFires, TickDone, armHeartbeat, IInv, Beating
<1>5. TypeOK' BY <1>1, <1>3 DEF IInv, TypeOK
<1>6. JoinsAreCalls' /\ ServesWhileJoined' /\ Beating'
  BY <1>1, <1>4 DEF IInv, JoinsAreCalls, ServesWhileJoined, Beating
<1> QED BY <1>1, <1>5, <1>6, CountedStays DEF IInv

\* A join is called: one more in progress, one more call.
LEMMA JoinStep ==
  ASSUME IInv, NEW e \in Engine, Join(e)
  PROVE  IInv'
<1> USE DEF host, made, join_leave, topic, heart, voter, announcer
<1>1. UNCHANGED <<serial, made, restoring, flushing, stopping, idling, joined, repull, failed, heart,
                 voter, announcer>>
  BY DEF Join, Call
<1>2. /\ starting \in [Engine -> Nat] /\ restoring \in [Engine -> Nat]
      /\ calls \in Nat /\ calls' = calls + 1 /\ calls' \in Count
      /\ \A f \in Engine : starting[f] + restoring[f] =< calls
  BY LifecycleAssumption DEF Join, Call, IInv, TypeOK, Count, JoinsAreCalls
<1>3. starting' = [starting EXCEPT ![e] = @ + 1] /\ e \in engines BY DEF Join
<1>4. JoinsAreCalls' BY <1>1, <1>2, <1>3 DEF IInv, JoinsAreCalls
<1>5. starting' \in [Engine -> Count]
  BY <1>1, <1>2, <1>3, LifecycleAssumption DEF Count
<1>6. TypeOK' BY <1>1, <1>2, <1>3, <1>5 DEF Join, IInv, TypeOK
<1>7. ServesWhileJoined' /\ Beating' BY <1>1 DEF IInv, ServesWhileJoined, Beating
<1> QED BY <1>1, <1>4, <1>6, <1>7, CountedStays DEF IInv

\* The transport is up: the contest counts as joined, once more.
LEMMA JoinedStep ==
  ASSUME IInv, NEW e \in Engine, Joined(e)
  PROVE  IInv'
<1> USE DEF host, made, join_leave, topic, heart, voter, announcer
<1>1. UNCHANGED <<host, made, flushing, stopping, idling, wired, repull, ticks, destroyed, missed>>
  BY DEF Joined, onTopicJoined
<1>2. /\ starting \in [Engine -> Nat] /\ restoring \in [Engine -> Nat] /\ calls \in Nat
      /\ calls =< MaxCalls
      /\ \A f \in Engine : starting[f] + restoring[f] =< calls
      /\ \A f \in Engine : starting[f] + restoring[f] > 0 => f \in engines
  BY DEF IInv, TypeOK, Count, JoinsAreCalls
<1>3. /\ starting' = [starting EXCEPT ![e] = @ - 1] /\ starting[e] > 0
      /\ restoring' = [restoring EXCEPT ![e] = @ + 1]
      /\ joined' = joined \cup {e} /\ joinedEngines' = joinedEngines + 1
      /\ responder' /\ started' /\ timer' = [timer EXCEPT ![e] = "armed"]
      /\ responder' \in BOOLEAN /\ started' \in BOOLEAN
  BY DEF Joined, onTopicJoined, announcerStart, armHeartbeat
<1>4. starting' \in [Engine -> Nat] /\ restoring' \in [Engine -> Nat] BY <1>2, <1>3
<1>5. \A f \in Engine : starting'[f] + restoring'[f] = starting[f] + restoring[f]
  BY <1>2, <1>3
<1>6. JoinsAreCalls' BY <1>1, <1>2, <1>5 DEF JoinsAreCalls
<1>7. starting' \in [Engine -> Count] /\ restoring' \in [Engine -> Count]
  <2>1. \A f \in Engine : starting'[f] =< MaxCalls /\ restoring'[f] =< MaxCalls
    BY <1>2, <1>4, <1>5, LifecycleAssumption
  <2> QED BY <2>1, <1>4, LifecycleAssumption DEF Count
<1>8. e \in engines BY <1>2, <1>3
<1>9. TypeOK'
  <2>1. /\ timer' \in [Engine -> {"none", "armed", "fired"}] /\ lost' \in [Engine -> Nat]
    BY DEF Joined, armHeartbeat, IInv, TypeOK
  <2>2. joined' \subseteq engines' /\ joinedEngines' \in Nat
    BY <1>1, <1>3, <1>8 DEF IInv, TypeOK
  <2>3. debounce' \in BOOLEAN /\ rerun' \in BOOLEAN /\ announcing' \in BOOLEAN
        /\ unannounced' \in BOOLEAN
    BY DEF Joined, onTopicJoined, notifyChange, IInv, TypeOK
  <2>4. failed' \subseteq engines' /\ doubled' \subseteq engines'
    BY <1>1, <1>8 DEF Joined, IInv, TypeOK
  <2> QED BY <1>1, <1>3, <1>7, <2>1, <2>2, <2>3, <2>4 DEF IInv, TypeOK
<1>10. Counted'
  <2>1. Owed' = Owed BY <1>1 DEF Owed
  <2>2. /\ IsFiniteSet(joined') /\ Cardinality(joined) \in Nat
        /\ Cardinality(joined') =< Cardinality(joined) + 1 /\ Cardinality(joined') \in Nat
    <3>1. IsFiniteSet(joined) BY DEF IInv, Counted
    <3>2. Cardinality(joined) \in Nat BY <3>1, FS_CardinalityType
    <3>3. /\ IsFiniteSet(joined \cup {e})
          /\ Cardinality(joined \cup {e}) = Cardinality(joined)
             \/ Cardinality(joined \cup {e}) = Cardinality(joined) + 1
      BY <3>1, FS_AddElement
    <3> QED BY <1>3, <3>2, <3>3
  <2>3. Cardinality(Owed) \in Nat /\ joinedEngines \in Nat
    BY FS_CardinalityType DEF IInv, Counted, TypeOK
  <2>4. joinedEngines' >= Cardinality(joined') + Cardinality(Owed)
    BY <1>3, <2>2, <2>3 DEF IInv, Counted
  <2> QED BY <2>1, <2>2, <2>4 DEF IInv, Counted
<1>11. ServesWhileJoined' BY <1>3 DEF ServesWhileJoined
<1>12. Beating'
  <2>1. ASSUME NEW f \in Engine \ doubled'
        PROVE  lost'[f] = 0 /\ ticks'[f] =< 1 /\ (timer'[f] = "armed" => ticks'[f] = 0)
    <3>1. f \notin doubled /\ (f = e => ticks[e] = 0 /\ timer[e] = "none")
      BY DEF Joined, IInv, TypeOK
    <3> QED BY <3>1, <1>1, <1>3 DEF Joined, armHeartbeat, IInv, TypeOK, Beating
  <2>2. ASSUME NEW f \in Engine
        PROVE  /\ f \in joined' /\ flushing'[f] = 0 => timer'[f] # "none"
               /\ timer'[f] = "fired" => ticks'[f] > 0
    BY <1>1, <1>3 DEF IInv, TypeOK, Beating
  <2> QED BY <2>1, <2>2 DEF Beating
<1> QED BY <1>6, <1>9, <1>10, <1>11, <1>12 DEF IInv

\* Leaves begin, one or, at destroy(), all.
LEMMA BeginLeaveSteps ==
  ASSUME IInv, (\E e \in Engine : Leave(e)) \/ Destroy
  PROVE  IInv'
<1> USE DEF host, made, join_leave, topic, heart, voter, announcer
<1>1. PICK E \in SUBSET Engine : BeginLeave(E)
  BY DEF Leave, Destroy, IInv, TypeOK
<1>2. UNCHANGED <<starting, restoring, stopping, idling, lost, ticks, doubled, engines, creating,
                 topic, joinedEngines, missed, serial>>
  <2>1. ASSUME NEW e \in Engine, Leave(e)
        PROVE  UNCHANGED <<starting, restoring, stopping, idling, lost, ticks, doubled, engines,
                           creating, topic, joinedEngines, missed, serial>>
    BY <2>1 DEF Leave, BeginLeave, Call
  <2>2. ASSUME Destroy
        PROVE  UNCHANGED <<starting, restoring, stopping, idling, lost, ticks, doubled, engines,
                           creating, topic, joinedEngines, missed, serial>>
    BY <2>2 DEF Destroy, BeginLeave
  <2> QED BY <2>1, <2>2
<1>3. calls \in Nat /\ calls' \in Count /\ calls' >= calls
  <2>1. calls \in Nat /\ calls =< MaxCalls BY DEF IInv, TypeOK, Count
  <2>2. calls' = calls \/ (calls < MaxCalls /\ calls' = calls + 1) BY DEF Leave, Destroy, Call
  <2> QED BY <2>1, <2>2, LifecycleAssumption DEF Count
<1>4. /\ timer' \in [Engine -> {"none", "armed", "fired"}] /\ flushing' \in [Engine -> Nat]
      /\ \A f \in Engine : timer'[f] \in {timer[f], "none"} /\ flushing'[f] >= flushing[f]
      /\ \A f \in Engine : timer'[f] # timer[f] => flushing'[f] > 0
  BY <1>1 DEF BeginLeave, IInv, TypeOK
<1>5. /\ started' \in BOOLEAN /\ debounce' \in BOOLEAN /\ responder' \in BOOLEAN
      /\ destroyed' \in BOOLEAN /\ announcing' = announcing /\ rerun' = rerun
      /\ unannounced' = unannounced /\ marked' \subseteq engines'
  BY DEF Leave, Destroy, announcerStop, IInv, TypeOK
<1>6. TypeOK' BY <1>2, <1>3, <1>4, <1>5 DEF IInv, TypeOK
<1>7. JoinsAreCalls'
  <2>1. starting \in [Engine -> Nat] /\ restoring \in [Engine -> Nat]
    BY DEF IInv, TypeOK, Count
  <2> QED BY <2>1, <1>2, <1>3 DEF IInv, JoinsAreCalls, Count
<1>8. ServesWhileJoined'
  BY <1>2 DEF IInv, ServesWhileJoined, Leave, Destroy
<1>9. Beating'
  <2>1. flushing \in [Engine -> Nat] BY DEF IInv, TypeOK
  <2> QED BY <2>1, <1>2, <1>4 DEF IInv, Beating
<1> QED BY <1>2, <1>6, <1>7, <1>8, <1>9, CountedStays DEF IInv

\* The last write of a leave is over: a joined contest turns into a leave to
\* count off.
LEMMA FlushedStep ==
  ASSUME IInv, NEW e \in Engine, Flushed(e)
  PROVE  IInv'
<1> USE DEF host, made, join_leave, topic, heart, voter, announcer
<1>1. UNCHANGED <<host, made, starting, restoring, heart, voter, announcer>>
  BY DEF Flushed
<1>2. /\ flushing \in [Engine -> Nat] /\ flushing[e] > 0
      /\ flushing' = [flushing EXCEPT ![e] = @ - 1]
      /\ joined' = joined \ {e} /\ wired' = wired \ {e} /\ repull' = repull \ {e}
      /\ failed' = failed \ {e}
  BY DEF Flushed, IInv, TypeOK
<1>3. flushing' \in [Engine -> Nat] BY <1>2
<1>4. stopping \in [Engine -> Nat] /\ idling \in [Engine -> Nat] BY DEF IInv, TypeOK
<1>5. /\ stopping' \in [Engine -> Nat] /\ idling' \in [Engine -> Nat]
      /\ stopping' = IF e \in joined THEN [stopping EXCEPT ![e] = @ + 1] ELSE stopping
  BY <1>4 DEF Flushed
<1>6. TypeOK' BY <1>1, <1>2, <1>3, <1>5 DEF IInv, TypeOK
<1>7. JoinsAreCalls' BY <1>1 DEF IInv, JoinsAreCalls
<1>8. Counted'
  <2>1. /\ IsFiniteSet(joined) /\ IsFiniteSet(Owed) /\ joinedEngines \in Nat
        /\ Cardinality(joined) \in Nat /\ Cardinality(Owed) \in Nat
        /\ joinedEngines >= Cardinality(joined) + Cardinality(Owed)
    BY FS_CardinalityType DEF IInv, Counted, TypeOK
  <2>2. CASE e \in joined
    <3>2. /\ Owed' = Owed \cup {<<e, stopping[e] + 1>>}
          /\ <<e, stopping[e] + 1>> \notin Owed
      BY <2>2, <1>4, <1>5, NumberedGrows DEF Owed
    <3>3. IsFiniteSet(Owed') /\ Cardinality(Owed') = Cardinality(Owed) + 1
      BY <2>1, <3>2, FS_AddElement
    <3>4. IsFiniteSet(joined') /\ Cardinality(joined') = Cardinality(joined) - 1
      BY <2>1, <2>2, <1>2, FS_RemoveElement
    <3> QED BY <2>1, <3>3, <3>4, <1>1 DEF Counted
  <2>3. CASE e \notin joined
    <3>1. Owed' = Owed BY <2>3, <1>5 DEF Owed
    <3>2. joined' = joined BY <2>3, <1>2
    <3> QED BY <2>1, <3>1, <3>2, <1>1 DEF Counted
  <2> QED BY <2>2, <2>3
<1>9. ServesWhileJoined' BY <1>1, <1>2 DEF IInv, ServesWhileJoined
<1>10. Beating' BY <1>1, <1>2 DEF IInv, Beating
<1> QED BY <1>6, <1>7, <1>8, <1>9, <1>10 DEF IInv

\* The transport is down: the leave is counted off, and the responder goes
\* only with the last one.
LEMMA LeftStep ==
  ASSUME IInv, NEW e \in Engine, Left(e)
  PROVE  IInv'
<1> USE DEF host, made, join_leave, topic, heart, voter, announcer
<1>1. UNCHANGED <<host, made, starting, restoring, flushing, topic, heart>> BY DEF Left
<1>2. stopping \in [Engine -> Nat] /\ idling \in [Engine -> Nat] BY DEF IInv, TypeOK
<1>3. /\ IsFiniteSet(joined) /\ IsFiniteSet(Owed) /\ joinedEngines \in Nat
      /\ Cardinality(joined) \in Nat /\ Cardinality(Owed) \in Nat
      /\ joinedEngines >= Cardinality(joined) + Cardinality(Owed)
  BY FS_CardinalityType DEF IInv, Counted, TypeOK
<1>4. JoinsAreCalls' /\ Beating' BY <1>1 DEF IInv, JoinsAreCalls, Beating
<1>5. ASSUME stopping[e] > 0, stopping' = [stopping EXCEPT ![e] = @ - 1], UNCHANGED idling,
             onTopicLeft
      PROVE  IInv'
  <2>1. stopping' \in [Engine -> Nat] BY <1>5, <1>2
  <2>2. /\ joinedEngines > Cardinality(joined)
        /\ joinedEngines = 1 => joined = {}
    BY <1>5, LastOneOut DEF IInv
  <2>3. TypeOK'
    <3>1. joinedEngines' \in Nat BY <1>5, <2>2, <1>3 DEF onTopicLeft
    <3>2. /\ started' \in BOOLEAN /\ debounce' \in BOOLEAN /\ responder' \in BOOLEAN
          /\ UNCHANGED <<destroyed, missed, announcing, rerun, unannounced>>
      BY <1>5 DEF onTopicLeft, announcerStop, IInv, TypeOK
    <3> QED BY <1>1, <1>5, <2>1, <3>1, <3>2 DEF IInv, TypeOK
  <2>4. Counted'
    <3>1. Owed' = Owed \ {<<e, stopping[e]>>} /\ <<e, stopping[e]>> \in Owed
      BY <1>2, <1>5, NumberedShrinks DEF Owed
    <3>2. IsFiniteSet(Owed') /\ Cardinality(Owed') = Cardinality(Owed) - 1
      BY <1>3, <3>1, FS_RemoveElement
    <3>3. joined' = joined /\ joinedEngines' = joinedEngines - 1
      BY <1>1, <1>5 DEF onTopicLeft
    <3> QED BY <1>3, <3>2, <3>3 DEF Counted
  <2>5. ServesWhileJoined'
    <3>1. joined = {} \/ UNCHANGED <<started, responder>>
      BY <1>5, <2>2, <1>3 DEF onTopicLeft
    <3>2. UNCHANGED <<joined, destroyed>> BY <1>1, <1>5 DEF onTopicLeft
    <3> QED BY <3>1, <3>2 DEF IInv, ServesWhileJoined
  <2> QED BY <1>4, <2>3, <2>4, <2>5 DEF IInv
<1>6. ASSUME idling[e] > 0, idling' = [idling EXCEPT ![e] = @ - 1], UNCHANGED stopping,
             UNCHANGED <<voter, announcer>>
      PROVE  IInv'
  <2>1. idling' \in [Engine -> Nat] BY <1>6, <1>2
  <2>2. TypeOK' BY <1>1, <1>6, <2>1 DEF IInv, TypeOK
  <2>3. Counted' BY <1>1, <1>6, CountedStays DEF IInv
  <2>4. ServesWhileJoined' BY <1>1, <1>6 DEF IInv, ServesWhileJoined
  <2> QED BY <1>4, <2>2, <2>3, <2>4 DEF IInv
<1> QED BY <1>5, <1>6 DEF Left

\* transport.start or transport.stop threw: nobody is counted.
LEMMA FailSteps ==
  ASSUME IInv, NEW e \in Engine, JoinFails(e) \/ LeaveFails(e)
  PROVE  IInv'
<1> USE DEF host, made, join_leave, topic, heart, voter, announcer
<1>1. UNCHANGED <<host, made, restoring, flushing, joined, wired, repull, heart, joinedEngines,
                 responder, destroyed, announcer>>
  BY DEF JoinFails, LeaveFails
<1>2. ServesWhileJoined' /\ Beating' BY <1>1 DEF IInv, ServesWhileJoined, Beating
<1>3. CASE JoinFails(e)
  <2>1. /\ starting \in [Engine -> Nat] /\ restoring \in [Engine -> Nat] /\ calls \in Nat
        /\ starting' = [starting EXCEPT ![e] = @ - 1] /\ starting[e] > 0
        /\ failed' = failed \cup {e} /\ UNCHANGED <<stopping, idling, missed>>
    BY <1>3 DEF JoinFails, IInv, TypeOK, Count
  <2>2. \A f \in Engine : starting'[f] \in Nat /\ starting'[f] =< starting[f] BY <2>1
  <2>3. starting' \in [Engine -> Count]
    BY <2>1, LifecycleAssumption DEF IInv, TypeOK, Count
  <2>4. e \in engines BY <2>1 DEF IInv, JoinsAreCalls
  <2>5. TypeOK' BY <1>1, <2>1, <2>3, <2>4 DEF IInv, TypeOK
  <2>6. JoinsAreCalls' BY <1>1, <2>1, <2>2 DEF IInv, JoinsAreCalls
  <2>7. Counted' BY <1>1, <2>1, CountedStays DEF IInv
  <2> QED BY <1>2, <2>5, <2>6, <2>7 DEF IInv
<1>4. CASE LeaveFails(e)
  <2>1. /\ stopping \in [Engine -> Nat] /\ idling \in [Engine -> Nat] /\ missed \in Nat
        /\ UNCHANGED <<starting, failed>>
    BY <1>4 DEF LeaveFails, IInv, TypeOK
  <2>2. stopping' \in [Engine -> Nat] /\ idling' \in [Engine -> Nat] /\ missed' \in Nat
    BY <1>4, <2>1 DEF LeaveFails
  <2>3. TypeOK' BY <1>1, <2>1, <2>2 DEF IInv, TypeOK
  <2>4. JoinsAreCalls' BY <1>1, <2>1 DEF IInv, JoinsAreCalls
  <2>5. Counted'
    <3>1. CASE UNCHANGED stopping BY <1>1, <3>1, CountedStays DEF IInv
    <3>2. CASE stopping[e] > 0 /\ stopping' = [stopping EXCEPT ![e] = @ - 1]
      <4>1. /\ IsFiniteSet(joined) /\ IsFiniteSet(Owed) /\ joinedEngines \in Nat
            /\ Cardinality(joined) \in Nat /\ Cardinality(Owed) \in Nat
            /\ joinedEngines >= Cardinality(joined) + Cardinality(Owed)
        BY FS_CardinalityType DEF IInv, Counted, TypeOK
      <4>2. Owed' = Owed \ {<<e, stopping[e]>>} /\ <<e, stopping[e]>> \in Owed
        BY <2>1, <3>2, NumberedShrinks DEF Owed
      <4>3. IsFiniteSet(Owed') /\ Cardinality(Owed') = Cardinality(Owed) - 1
        BY <4>1, <4>2, FS_RemoveElement
      <4> QED BY <1>1, <4>1, <4>3 DEF Counted
    <3> QED BY <1>4, <3>1, <3>2 DEF LeaveFails
  <2> QED BY <1>2, <2>3, <2>4, <2>5 DEF IInv
<1> QED BY <1>3, <1>4

----------------------------------------------------------------------------
\* The count is of at least the joined contests and the leaves still to be
\* counted off, at every await of joins and leaves (Voter.#joinedEngines).
THEOREM Inductive == Spec => []IInv
<1>1. Init => IInv BY InitIsGood
<1>2. IInv /\ [Next]_vars => IInv'
  <2> SUFFICES ASSUME IInv, [Next]_vars PROVE IInv' OBVIOUS
  <2>1. CASE \E e \in Engine : Join(e) BY <2>1, JoinStep
  <2>2. CASE (\E e \in Engine : Leave(e)) \/ Destroy BY <2>2, BeginLeaveSteps
  <2>3. CASE \E e \in Engine : Joined(e) BY <2>3, JoinedStep
  <2>4. CASE \E e \in Engine : Flushed(e) BY <2>4, FlushedStep
  <2>5. CASE \E e \in Engine : Left(e) BY <2>5, LeftStep
  <2>6. CASE \E e \in Engine : HeartbeatFires(e) \/ TickDone(e) BY <2>6, HeartSteps
  <2>7. CASE \/ \E e \in Engine : createContest(e) \/ engineFor(e) \/ RepullEnds(e) \/ Restored(e)
             \/ AnnouncerStep \/ IntervalFires \/ Change \/ UNCHANGED vars
    BY <2>7, QuietSteps
  <2>8. CASE \E e \in Engine : JoinFails(e) \/ LeaveFails(e) BY <2>8, FailSteps
  <2> QED BY <2>1, <2>2, <2>3, <2>4, <2>5, <2>6, <2>7, <2>8 DEF Next, EngineStep
<1> QED BY <1>1, <1>2, PTL DEF Spec

\* However joins and leaves overlap, each at its awaits, while a contest of a
\* living voter is joined the responder answers and the announcer runs
\* (onTopicJoined, onTopicLeft).
THEOREM Invariant == Spec => []LifecycleInv
<1>1. IInv => LifecycleInv BY DEF IInv, LifecycleInv
<1> QED BY <1>1, Inductive, PTL

\* A joined contest that no leave has begun on has a heartbeat armed or a tick
\* in flight that will arm one (#armHeartbeat).
THEOREM HeartbeatNeverStops == Spec => []HeartbeatGoesOn
<1>1. IInv => HeartbeatGoesOn
  <2> SUFFICES ASSUME IInv, NEW e \in joined, flushing[e] = 0
               PROVE  timer[e] = "armed" \/ ticks[e] > 0
    BY DEF HeartbeatGoesOn
  <2>1. e \in Engine /\ timer[e] \in {"none", "armed", "fired"} BY DEF IInv, TypeOK
  <2> QED BY <2>1 DEF IInv, Beating
<1> QED BY <1>1, Inductive, PTL

----------------------------------------------------------------------------
(* A host that awaits its calls: one call at a time on a contest.          *)

InCall(e) == starting[e] + restoring[e] + flushing[e] + stopping[e] + idling[e]

OneCall == \A e \in Engine : InCall(e) =< 1

\* what is left of a contest goes with its last call
NothingStays ==
  \A e \in Engine :
    /\ starting[e] > 0 => e \notin joined
    /\ restoring[e] > 0 => e \in joined
    /\ e \in wired => e \in joined \/ starting[e] > 0 \/ e \in failed
    /\ e \in repull => e \in joined
    /\ timer[e] # "none" => e \in joined /\ flushing[e] = 0

\* destroy() begins a leave of every contest, and no join comes after it
DestroyLeaves ==
  destroyed => /\ marked = engines /\ creating = {}
               /\ \A e \in Engine : starting[e] = 0 /\ (e \in joined => flushing[e] > 0)

\* the count is exact but for the leaves not counted off, and somebody is counted while anything is served
CountsExactly ==
  /\ joinedEngines = Cardinality(joined) + Cardinality(Owed) + missed
  /\ responder \/ started => joinedEngines > 0 /\ ~destroyed

SerialInv == OneCall /\ NothingStays /\ DestroyLeaves /\ CountsExactly

Counters == [Engine -> Nat]

LEMMA CountersTyped ==
  IInv => /\ starting \in Counters /\ restoring \in Counters /\ flushing \in Counters
          /\ stopping \in Counters /\ idling \in Counters
BY DEF IInv, TypeOK, Count, Counters

LEMMA CountsAt ==
  ASSUME IInv, NEW e \in Engine
  PROVE  /\ starting[e] \in Nat /\ restoring[e] \in Nat /\ flushing[e] \in Nat
         /\ stopping[e] \in Nat /\ idling[e] \in Nat
BY CountersTyped DEF Counters

LEMMA SettledIsZero ==
  ASSUME IInv, NEW e \in Engine, InCall(e) = 0
  PROVE  /\ starting[e] = 0 /\ restoring[e] = 0 /\ flushing[e] = 0
         /\ stopping[e] = 0 /\ idling[e] = 0
<1> DEFINE a == starting[e]   b == restoring[e]   c == flushing[e]
           d == stopping[e]   i == idling[e]
<1>1. a \in Nat /\ b \in Nat /\ c \in Nat /\ d \in Nat /\ i \in Nat BY CountsAt
<1>2. a + b + c + d + i = 0 BY DEF InCall
<1> HIDE DEF a, b, c, d, i
<1>3. a = 0 /\ b = 0 /\ c = 0 /\ d = 0 /\ i = 0 BY <1>1, <1>2
<1> QED BY <1>3 DEF a, b, c, d, i

\* What one call at a time leaves open for the contest of a step.
LEMMA OneAtATime ==
  ASSUME IInv, OneCall, NEW e \in Engine
  PROVE  /\ starting[e] > 0 => restoring[e] = 0 /\ flushing[e] = 0 /\ stopping[e] = 0 /\ idling[e] = 0
         /\ restoring[e] > 0 => starting[e] = 0 /\ flushing[e] = 0 /\ stopping[e] = 0 /\ idling[e] = 0
         /\ flushing[e] > 0 => /\ starting[e] = 0 /\ restoring[e] = 0 /\ stopping[e] = 0
                               /\ idling[e] = 0 /\ flushing[e] = 1
<1> DEFINE a == starting[e]   b == restoring[e]   c == flushing[e]
           d == stopping[e]   i == idling[e]
<1>1. a \in Nat /\ b \in Nat /\ c \in Nat /\ d \in Nat /\ i \in Nat BY CountsAt
<1>2. a + b + c + d + i =< 1 BY DEF OneCall, InCall
<1> HIDE DEF a, b, c, d, i
<1>3. /\ a > 0 => b = 0 /\ c = 0 /\ d = 0 /\ i = 0
      /\ b > 0 => a = 0 /\ c = 0 /\ d = 0 /\ i = 0
      /\ c > 0 => a = 0 /\ b = 0 /\ d = 0 /\ i = 0 /\ c = 1
  BY <1>1, <1>2
<1> QED BY <1>3 DEF a, b, c, d, i

LEMMA QuietStepsSerial ==
  ASSUME IInv, SerialInv, serial,
         \/ \E e \in Engine : createContest(e) \/ engineFor(e) \/ RepullEnds(e)
         \/ AnnouncerStep \/ IntervalFires \/ Change \/ UNCHANGED vars
  PROVE  SerialInv'
<1> USE DEF host, made, join_leave, topic, heart, voter, announcer, vars
<1>1. UNCHANGED <<starting, restoring, flushing, stopping, idling, joined, wired, failed, timer,
                  joinedEngines, missed, responder, started, destroyed>>
      /\ repull' \subseteq repull
  BY DEF createContest, engineFor, RepullEnds, AnnouncerStep, DebounceFires, PutDone,
         announceNow, IntervalFires, Change, notifyChange
<1>2. destroyed => UNCHANGED <<marked, engines, creating>>
  BY DEF createContest, engineFor, RepullEnds, AnnouncerStep, DebounceFires, PutDone,
         announceNow, IntervalFires, Change, notifyChange, SerialInv, DestroyLeaves
<1>3. OneCall' BY <1>1 DEF SerialInv, OneCall, InCall
<1>4. NothingStays' BY <1>1 DEF SerialInv, NothingStays
<1>5. DestroyLeaves' BY <1>1, <1>2 DEF SerialInv, DestroyLeaves
<1>6. CountsExactly' BY <1>1 DEF SerialInv, CountsExactly, Owed, Numbered
<1> QED BY <1>3, <1>4, <1>5, <1>6 DEF SerialInv

LEMMA HeartStepsSerial ==
  ASSUME IInv, SerialInv, NEW e \in Engine, HeartbeatFires(e) \/ TickDone(e)
  PROVE  SerialInv'
<1> USE DEF host, made, join_leave, topic, heart, voter, announcer
<1>1. UNCHANGED <<host, made, join_leave, topic, doubled, voter, announcer>>
  BY DEF HeartbeatFires, TickDone
<1>2. timer \in [Engine -> {"none", "armed", "fired"}] BY DEF IInv, TypeOK
<1>3. \A f \in Engine : timer'[f] = "none" <=> timer[f] = "none"
  BY <1>2 DEF HeartbeatFires, TickDone, armHeartbeat
<1>4. OneCall' BY <1>1 DEF SerialInv, OneCall, InCall
<1>5. NothingStays' BY <1>1, <1>3 DEF SerialInv, NothingStays
<1>6. DestroyLeaves' BY <1>1 DEF SerialInv, DestroyLeaves
<1>7. CountsExactly' BY <1>1 DEF SerialInv, CountsExactly, Owed, Numbered
<1> QED BY <1>4, <1>5, <1>6, <1>7 DEF SerialInv

LEMMA JoinSerial ==
  ASSUME IInv, SerialInv, serial, NEW e \in Engine, Join(e)
  PROVE  SerialInv'
<1> USE DEF host, made, join_leave, topic, heart, voter, announcer
<1>1. /\ UNCHANGED <<made, restoring, flushing, stopping, idling, joined, repull, failed, timer,
                     joinedEngines, missed, responder, destroyed, started>>
      /\ wired' = wired \cup {e} /\ starting' = [starting EXCEPT ![e] = @ + 1]
      /\ InCall(e) = 0 /\ e \in engines \ marked /\ e \notin joined
  BY DEF Join, Call, Settled, InCall
<1>2. starting \in Counters /\ \A f \in Engine : InCall(f) \in Nat
  BY CountersTyped DEF Counters, InCall
<1>3. /\ \A f \in Engine \ {e} : starting'[f] = starting[f]
      /\ starting'[e] = starting[e] + 1
  BY <1>1, <1>2 DEF Counters
<1>4. OneCall'
  <2>1. InCall(e)' = InCall(e) + 1 BY <1>1, <1>3, CountersTyped DEF InCall, Counters
  <2>2. \A f \in Engine \ {e} : InCall(f)' = InCall(f) BY <1>1, <1>3 DEF InCall
  <2> QED BY <2>1, <2>2, <1>1 DEF SerialInv, OneCall
<1>5. NothingStays'
  <2>1. starting'[e] > 0 BY <1>2, <1>3 DEF Counters
  <2> QED BY <2>1, <1>1, <1>3 DEF SerialInv, NothingStays
<1>6. ~destroyed BY <1>1 DEF SerialInv, DestroyLeaves
<1>7. DestroyLeaves' BY <1>1, <1>6 DEF DestroyLeaves
<1>8. CountsExactly' BY <1>1 DEF SerialInv, CountsExactly, Owed, Numbered
<1> QED BY <1>4, <1>5, <1>7, <1>8 DEF SerialInv

LEMMA JoinedSerial ==
  ASSUME IInv, SerialInv, NEW e \in Engine, Joined(e)
  PROVE  SerialInv'
<1> USE DEF host, made, join_leave, topic, heart, voter, announcer
<1>1. /\ UNCHANGED <<host, made, flushing, stopping, idling, wired, repull, destroyed, missed>>
      /\ failed' = failed \ {e}
      /\ starting[e] > 0 /\ starting' = [starting EXCEPT ![e] = @ - 1]
      /\ restoring' = [restoring EXCEPT ![e] = @ + 1]
      /\ joined' = joined \cup {e} /\ joinedEngines' = joinedEngines + 1
      /\ timer' = [timer EXCEPT ![e] = "armed"]
  BY DEF Joined, onTopicJoined, armHeartbeat
<1>2. starting \in Counters /\ restoring \in Counters BY CountersTyped
<1>3. /\ \A f \in Engine \ {e} : starting'[f] = starting[f] /\ restoring'[f] = restoring[f]
      /\ starting'[e] = starting[e] - 1 /\ restoring'[e] = restoring[e] + 1
  BY <1>1, <1>2 DEF Counters
<1>4. OneCall'
  <2>1. \A f \in Engine : InCall(f)' = InCall(f)
    BY <1>1, <1>3, CountersTyped DEF InCall, Counters
  <2> QED BY <2>1 DEF SerialInv, OneCall
<1>5. e \notin joined /\ ~destroyed
  BY <1>1 DEF SerialInv, NothingStays, DestroyLeaves
<1>6. flushing[e] = 0 /\ starting'[e] = 0
  BY <1>1, <1>2, <1>3, OneAtATime, CountersTyped DEF SerialInv, OneCall, InCall, Counters
<1>7. NothingStays'
  <2>1. \A f \in Engine \ {e} : timer'[f] = timer[f] BY <1>1 DEF IInv, TypeOK
  <2>2. \A f \in Engine \ {e} : f \in joined' <=> f \in joined BY <1>1
  <2>3. e \in joined' BY <1>1
  <2> QED BY <2>1, <2>2, <2>3, <1>1, <1>3, <1>6 DEF SerialInv, NothingStays
<1>8. DestroyLeaves' BY <1>1, <1>5 DEF DestroyLeaves
<1>9. CountsExactly'
  <2>1. Owed' = Owed BY <1>1 DEF Owed
  <2>2. /\ IsFiniteSet(joined) /\ Cardinality(joined) \in Nat /\ Cardinality(Owed) \in Nat
        /\ missed \in Nat
    BY FS_CardinalityType DEF IInv, Counted, TypeOK
  <2>3. Cardinality(joined') = Cardinality(joined) + 1
    BY <1>1, <1>5, <2>2, FS_AddElement
  <2> QED BY <1>1, <1>5, <2>1, <2>2, <2>3 DEF SerialInv, CountsExactly
<1> QED BY <1>4, <1>7, <1>8, <1>9 DEF SerialInv

LEMMA RestoredSerial ==
  ASSUME IInv, SerialInv, NEW e \in Engine, Restored(e)
  PROVE  SerialInv'
<1> USE DEF host, made, join_leave, topic, heart, voter, announcer
<1>1. /\ UNCHANGED <<made, starting, flushing, stopping, idling, joined, wired, failed, timer,
                     joinedEngines, missed, responder, destroyed, started>>
      /\ restoring[e] > 0 /\ restoring' = [restoring EXCEPT ![e] = @ - 1]
      /\ repull' = repull \cup {e}
  BY DEF Restored
<1>2. /\ \A f \in Engine \ {e} : restoring'[f] = restoring[f]
      /\ restoring'[e] = restoring[e] - 1
  BY <1>1, CountersTyped DEF Counters
<1>3. OneCall'
  <2>1. \A f \in Engine : InCall(f)' =< InCall(f) /\ InCall(f) \in Nat /\ InCall(f)' \in Int
    BY <1>1, <1>2, CountersTyped DEF InCall, Counters
  <2>2. \A f \in Engine : InCall(f) =< 1 BY DEF SerialInv, OneCall
  <2> QED BY <2>1, <2>2 DEF OneCall
<1>4. NothingStays' BY <1>1, <1>2 DEF SerialInv, NothingStays
<1>5. DestroyLeaves' BY <1>1 DEF SerialInv, DestroyLeaves
<1>6. CountsExactly' BY <1>1 DEF SerialInv, CountsExactly, Owed, Numbered
<1> QED BY <1>3, <1>4, <1>5, <1>6 DEF SerialInv

LEMMA BeginLeaveSerial ==
  ASSUME IInv, SerialInv, serial, NEW E \in SUBSET Engine, BeginLeave(E),
         \A e \in E : InCall(e) = 0,
         \/ \E e \in Engine : Leave(e)
         \/ Destroy /\ E = engines /\ creating = {} /\ \A e \in Engine : InCall(e) = 0
  PROVE  SerialInv'
<1> USE DEF host, made, join_leave, topic, heart, voter, announcer
<1>1. UNCHANGED <<engines, creating, starting, restoring, stopping, idling, joined, wired, repull,
                  failed, joinedEngines, missed>>
  BY DEF Leave, Destroy, BeginLeave
<1>2. /\ \A e \in E : timer'[e] = "none" /\ flushing'[e] = flushing[e] + 1
      /\ \A e \in Engine \ E : timer'[e] = timer[e] /\ flushing'[e] = flushing[e]
  BY DEF BeginLeave
<1>3. flushing \in Counters BY CountersTyped
<1>4. OneCall'
  <2>1. \A e \in E : InCall(e)' = InCall(e) + 1
    BY <1>1, <1>2, CountersTyped DEF InCall, Counters
  <2>2. \A e \in Engine \ E : InCall(e)' = InCall(e)
    BY <1>1, <1>2, CountersTyped DEF InCall, Counters
  <2> QED BY <2>1, <2>2 DEF SerialInv, OneCall
<1>5. NothingStays' BY <1>1, <1>2 DEF SerialInv, NothingStays
<1>7. CASE \E e \in Engine : Leave(e)
  <2>1. UNCHANGED <<marked, destroyed, responder, started>> BY <1>7 DEF Leave
  <2>2. \A e \in Engine : flushing[e] > 0 => flushing'[e] > 0
    BY <1>2, <1>3 DEF Counters
  <2>3. \A e \in Engine : starting'[e] = starting[e] BY <1>1
  <2>4. DestroyLeaves' BY <1>1, <2>1, <2>2, <2>3 DEF SerialInv, DestroyLeaves
  <2>5. CountsExactly' BY <1>1, <2>1 DEF SerialInv, CountsExactly, Owed, Numbered
  <2> QED BY <1>4, <1>5, <2>4, <2>5 DEF SerialInv
<1>8. CASE Destroy /\ E = engines /\ creating = {} /\ \A e \in Engine : InCall(e) = 0
  <2>1. destroyed' /\ marked' = engines /\ ~responder' /\ ~started'
    BY <1>8 DEF Destroy, announcerStop
  <2>2. \A e \in Engine : starting[e] = 0 BY <1>8, SettledIsZero
  <2>3. \A e \in joined : flushing'[e] > 0
    BY <1>2, <1>3, <1>8 DEF Counters, IInv, TypeOK
  <2>4. DestroyLeaves' BY <1>1, <1>8, <2>1, <2>2, <2>3 DEF DestroyLeaves
  <2>5. CountsExactly' BY <1>1, <2>1 DEF SerialInv, CountsExactly, Owed, Numbered
  <2> QED BY <1>4, <1>5, <2>4, <2>5 DEF SerialInv
<1> QED BY <1>7, <1>8

LEMMA FlushedSerial ==
  ASSUME IInv, SerialInv, NEW e \in Engine, Flushed(e)
  PROVE  SerialInv'
<1> USE DEF host, made, join_leave, topic, heart, voter, announcer
<1>1. /\ UNCHANGED <<host, made, starting, restoring, timer, joinedEngines, missed, responder,
                     destroyed, started>>
      /\ failed' = failed \ {e}
      /\ flushing[e] > 0 /\ flushing' = [flushing EXCEPT ![e] = @ - 1]
      /\ joined' = joined \ {e} /\ wired' = wired \ {e} /\ repull' = repull \ {e}
      /\ stopping' = IF e \in joined THEN [stopping EXCEPT ![e] = @ + 1] ELSE stopping
      /\ idling' = IF e \in joined THEN idling ELSE [idling EXCEPT ![e] = @ + 1]
  BY DEF Flushed
<1>2. \A f \in Engine \ {e} : /\ flushing'[f] = flushing[f] /\ stopping'[f] = stopping[f]
                              /\ idling'[f] = idling[f]
  BY <1>1, CountersTyped DEF Counters
<1>3. /\ flushing'[e] = flushing[e] - 1
      /\ stopping'[e] + idling'[e] = stopping[e] + idling[e] + 1
  BY <1>1, CountersTyped DEF Counters
<1>4. stopping' \in Counters /\ idling' \in Counters
  BY <1>1, CountersTyped DEF Counters
<1>5. OneCall'
  <2>1. \A f \in Engine \ {e} : InCall(f)' = InCall(f) BY <1>1, <1>2 DEF InCall
  <2>2. InCall(e)' = InCall(e) BY <1>1, <1>3, <1>4, CountersTyped DEF InCall, Counters
  <2> QED BY <2>1, <2>2 DEF SerialInv, OneCall
<1>6. NothingStays'
  <2>1. starting[e] = 0 /\ restoring[e] = 0 BY <1>1, OneAtATime DEF SerialInv
  <2>2. timer[e] = "none" BY <1>1, CountersTyped DEF SerialInv, NothingStays, Counters
  <2> QED BY <1>1, <1>2, <2>1, <2>2 DEF SerialInv, NothingStays
<1>7. DestroyLeaves' BY <1>1, <1>2 DEF SerialInv, DestroyLeaves
<1>8. CountsExactly'
  <2>1. /\ IsFiniteSet(joined) /\ IsFiniteSet(Owed)
        /\ Cardinality(joined) \in Nat /\ Cardinality(Owed) \in Nat
    BY FS_CardinalityType DEF IInv, Counted
  <2>2. CASE e \in joined
    <3>1. /\ Owed' = Owed \cup {<<e, stopping[e] + 1>>}
          /\ <<e, stopping[e] + 1>> \notin Owed
      BY <2>2, <1>1, CountersTyped, NumberedGrows DEF Owed, Counters
    <3>2. Cardinality(Owed') = Cardinality(Owed) + 1 BY <2>1, <3>1, FS_AddElement
    <3>3. Cardinality(joined') = Cardinality(joined) - 1 BY <2>1, <2>2, <1>1, FS_RemoveElement
    <3> QED BY <2>1, <3>2, <3>3, <1>1 DEF SerialInv, CountsExactly
  <2>3. CASE e \notin joined
    <3>1. Owed' = Owed /\ joined' = joined BY <2>3, <1>1 DEF Owed
    <3> QED BY <3>1, <1>1 DEF SerialInv, CountsExactly
  <2> QED BY <2>2, <2>3
<1> QED BY <1>5, <1>6, <1>7, <1>8 DEF SerialInv

LEMMA LeftSerial ==
  ASSUME IInv, SerialInv, NEW e \in Engine, Left(e)
  PROVE  SerialInv'
<1> USE DEF host, made, join_leave, topic, heart, voter, announcer
<1>1. UNCHANGED <<host, made, starting, restoring, flushing, topic, heart, destroyed>>
  BY DEF Left, onTopicLeft
<1>2. /\ stopping' \in [Engine -> Int] /\ idling' \in [Engine -> Int]
      /\ \A f \in Engine : stopping'[f] =< stopping[f] /\ idling'[f] =< idling[f]
  BY CountersTyped DEF Left, Counters
<1>3. OneCall'
  <2>1. \A f \in Engine : InCall(f)' =< InCall(f) /\ InCall(f) \in Nat /\ InCall(f)' \in Int
    BY <1>1, <1>2, CountersTyped DEF InCall, Counters
  <2>2. \A f \in Engine : InCall(f) =< 1 BY DEF SerialInv, OneCall
  <2> QED BY <2>1, <2>2 DEF OneCall
<1>4. NothingStays' /\ DestroyLeaves'
  BY <1>1 DEF SerialInv, NothingStays, DestroyLeaves
<1>5. CASE stopping[e] > 0 /\ stopping' = [stopping EXCEPT ![e] = @ - 1] /\ onTopicLeft
  <2>1. /\ IsFiniteSet(Owed) /\ joinedEngines \in Nat /\ missed \in Nat
        /\ Cardinality(joined) \in Nat /\ Cardinality(Owed) \in Nat
    BY FS_CardinalityType DEF IInv, Counted, TypeOK
  <2>2. Owed' = Owed \ {<<e, stopping[e]>>} /\ <<e, stopping[e]>> \in Owed
    BY <1>5, CountersTyped, NumberedShrinks DEF Owed, Counters
  <2>3. Cardinality(Owed') = Cardinality(Owed) - 1 BY <2>1, <2>2, FS_RemoveElement
  <2>4. joinedEngines' = joinedEngines - 1 /\ joined' = joined /\ missed' = missed
    BY <1>1, <1>5 DEF onTopicLeft
  <2>5. responder' \/ started' => joinedEngines > 1 /\ (responder \/ started)
    BY <1>5, <2>1 DEF onTopicLeft, announcerStop
  <2>6. CountsExactly'
    BY <1>1, <2>1, <2>3, <2>4, <2>5 DEF SerialInv, CountsExactly
  <2> QED BY <1>3, <1>4, <2>6 DEF SerialInv
<1>6. CASE UNCHANGED stopping /\ UNCHANGED <<voter, announcer>>
  <2>1. CountsExactly' BY <1>1, <1>6 DEF SerialInv, CountsExactly, Owed, Numbered
  <2> QED BY <1>3, <1>4, <2>1 DEF SerialInv
<1> QED BY <1>5, <1>6 DEF Left

LEMMA FailStepsSerial ==
  ASSUME IInv, SerialInv, NEW e \in Engine, JoinFails(e) \/ LeaveFails(e)
  PROVE  SerialInv'
<1> USE DEF host, made, join_leave, topic, heart, voter, announcer
<1>1. UNCHANGED <<host, made, restoring, flushing, joined, wired, repull, heart, joinedEngines,
                 responder, destroyed, announcer>>
  BY DEF JoinFails, LeaveFails
<1>2. /\ starting' \in [Engine -> Int] /\ stopping' \in [Engine -> Int]
      /\ idling' \in [Engine -> Int]
      /\ \A f \in Engine : /\ starting'[f] =< starting[f] /\ stopping'[f] =< stopping[f]
                           /\ idling'[f] =< idling[f]
  BY CountersTyped DEF JoinFails, LeaveFails, Counters
<1>3. OneCall'
  <2>1. \A f \in Engine : InCall(f)' =< InCall(f) /\ InCall(f) \in Nat /\ InCall(f)' \in Int
    BY <1>1, <1>2, CountersTyped DEF InCall, Counters
  <2>2. \A f \in Engine : InCall(f) =< 1 BY DEF SerialInv, OneCall
  <2> QED BY <2>1, <2>2 DEF OneCall
<1>4. CASE JoinFails(e)
  <2>1. /\ starting[e] > 0 /\ starting' = [starting EXCEPT ![e] = @ - 1]
        /\ failed' = failed \cup {e} /\ UNCHANGED <<stopping, missed>>
    BY <1>4 DEF JoinFails
  <2>2. /\ \A f \in Engine \ {e} : starting'[f] = starting[f]
        /\ starting'[e] > 0 => starting[e] > 0
    BY <2>1, CountersTyped DEF Counters
  <2>3. NothingStays' BY <2>1, <2>2, <1>1 DEF SerialInv, NothingStays
  <2>4. DestroyLeaves'
    <3>1. ~destroyed BY <2>1 DEF SerialInv, DestroyLeaves
    <3> QED BY <3>1, <1>1 DEF DestroyLeaves
  <2>5. CountsExactly' BY <1>1, <2>1 DEF SerialInv, CountsExactly, Owed, Numbered
  <2> QED BY <1>3, <2>3, <2>4, <2>5 DEF SerialInv
<1>5. CASE LeaveFails(e)
  <2>1. UNCHANGED <<starting, failed>> BY <1>5 DEF LeaveFails
  <2>2. NothingStays' /\ DestroyLeaves'
    BY <1>1, <2>1 DEF SerialInv, NothingStays, DestroyLeaves
  <2>3. CASE UNCHANGED <<stopping, missed>>
    <3>1. CountsExactly' BY <1>1, <2>3 DEF SerialInv, CountsExactly, Owed, Numbered
    <3> QED BY <1>3, <2>2, <3>1 DEF SerialInv
  <2>4. CASE stopping[e] > 0 /\ stopping' = [stopping EXCEPT ![e] = @ - 1] /\ missed' = missed + 1
    <3>1. /\ IsFiniteSet(Owed) /\ joinedEngines \in Nat /\ missed \in Nat
          /\ Cardinality(joined) \in Nat /\ Cardinality(Owed) \in Nat
      BY FS_CardinalityType DEF IInv, Counted, TypeOK
    <3>2. Owed' = Owed \ {<<e, stopping[e]>>} /\ <<e, stopping[e]>> \in Owed
      BY <2>4, CountersTyped, NumberedShrinks DEF Owed, Counters
    <3>3. Cardinality(Owed') = Cardinality(Owed) - 1 BY <3>1, <3>2, FS_RemoveElement
    <3>4. CountsExactly' BY <1>1, <2>4, <3>1, <3>3 DEF SerialInv, CountsExactly
    <3> QED BY <1>3, <2>2, <3>4 DEF SerialInv
  <2> QED BY <1>5, <2>3, <2>4 DEF LeaveFails
<1> QED BY <1>4, <1>5

LEMMA InitSerial == ASSUME Init PROVE SerialInv
<1>1. Owed = {}
  <2>1. \A e \in Engine : stopping[e] = 0 BY DEF Init, Zero
  <2> QED BY <2>1 DEF Owed, Numbered
<1>2. CountsExactly BY <1>1, FS_EmptySet DEF Init, CountsExactly
<1>3. OneCall /\ NothingStays /\ DestroyLeaves
  BY DEF Init, Zero, OneCall, InCall, NothingStays, DestroyLeaves
<1> QED BY <1>2, <1>3 DEF SerialInv

LEMMA StepSerial ==
  ASSUME IInv, serial, SerialInv, [Next]_vars
  PROVE  SerialInv'
<1>1. CASE \E e \in Engine : Join(e) BY <1>1, JoinSerial
<1>2. CASE \E e \in Engine : Leave(e)
  <2> PICK e \in Engine : Leave(e) BY <1>2
  <2>1. BeginLeave({e}) /\ InCall(e) = 0 BY DEF Leave, Call, Settled, InCall
  <2>2. {e} \in SUBSET Engine /\ \A f \in {e} : InCall(f) = 0 BY <2>1
  <2> QED BY <2>1, <2>2, BeginLeaveSerial
<1>3. CASE Destroy
  <2>1. BeginLeave(engines) /\ creating = {} /\ \A e \in Engine : InCall(e) = 0
    BY <1>3 DEF Destroy, Settled, InCall
  <2>2. engines \in SUBSET Engine BY DEF IInv, TypeOK
  <2> QED BY <1>3, <2>1, <2>2, BeginLeaveSerial
<1>4. CASE \E e \in Engine : Joined(e) BY <1>4, JoinedSerial
<1>5. CASE \E e \in Engine : Flushed(e) BY <1>5, FlushedSerial
<1>6. CASE \E e \in Engine : Left(e) BY <1>6, LeftSerial
<1>7. CASE \E e \in Engine : HeartbeatFires(e) \/ TickDone(e) BY <1>7, HeartStepsSerial
<1>8. CASE \E e \in Engine : Restored(e) BY <1>8, RestoredSerial
<1>9. CASE \/ \E e \in Engine : createContest(e) \/ engineFor(e) \/ RepullEnds(e)
           \/ AnnouncerStep \/ IntervalFires \/ Change \/ UNCHANGED vars
  BY <1>9, QuietStepsSerial
<1>10. CASE \E e \in Engine : JoinFails(e) \/ LeaveFails(e) BY <1>10, FailStepsSerial
<1> QED BY <1>1, <1>2, <1>3, <1>4, <1>5, <1>6, <1>7, <1>8, <1>9, <1>10 DEF Next, EngineStep

LEMMA SerialStays == ASSUME [Next]_vars PROVE serial' = serial
BY DEF Next, EngineStep, AnnouncerStep, createContest, Join, Leave, RepullEnds, engineFor, Joined,
       JoinFails, LeaveFails, Restored, Flushed, Left, HeartbeatFires, TickDone, DebounceFires, PutDone, IntervalFires,
       Change, Destroy, Call, host, vars

\* For a host that awaits each call before the next on a contest, nothing goes
\* on once every contest is left but what failed calls left behind and orphan
\* timers of contests re-joined during a tick, and nothing is joined once the
\* voter is destroyed: the count is exact unless a transport.stop threw, so
\* the last leave stops the responder and the announcer (onTopicLeft).
THEOREM LeavesQuiet == Spec => []QuietWhenLeft
<1>1. Init => IInv /\ (serial => SerialInv) BY InitIsGood, InitSerial
<1>2. IInv /\ IInv' /\ (serial => SerialInv) /\ [Next]_vars => (serial => SerialInv)'
  BY StepSerial, SerialStays
<1>3. IInv /\ (serial => SerialInv) => QuietWhenLeft
  <2> SUFFICES ASSUME IInv, SerialInv, ~InProgress
               PROVE  /\ joined = {} =>
                           /\ missed = 0 => ~responder /\ ~started
                           /\ wired \subseteq failed /\ repull = {}
                           /\ \A e \in Engine : timer[e] = "none" /\ (lost[e] > 0 => e \in doubled)
                      /\ destroyed => joined = {}
    BY DEF QuietWhenLeft
  <2>1. \A e \in Engine : starting[e] = 0 /\ flushing[e] = 0 /\ stopping[e] = 0
    <3>1. \A e \in Engine : InCall(e) = 0 BY DEF InProgress, Settled, InCall
    <3> QED BY <3>1, SettledIsZero
  <2>2. joined \subseteq Engine /\ wired \subseteq Engine /\ repull \subseteq Engine
    BY DEF IInv, TypeOK
  <2>3. Owed = {} BY <2>1 DEF Owed, Numbered
  <2>4. joined = {} => joinedEngines = missed
    BY <2>3, FS_EmptySet DEF SerialInv, CountsExactly, IInv, TypeOK
  <2>5. joined = {} /\ missed = 0 => ~responder /\ ~started
    BY <2>4 DEF SerialInv, CountsExactly
  <2>6. joined = {} => wired \subseteq failed /\ repull = {} /\ \A e \in Engine : timer[e] = "none"
    BY <2>1, <2>2 DEF SerialInv, NothingStays
  <2>8. \A e \in Engine : lost[e] > 0 => e \in doubled BY DEF IInv, Beating
  <2>7. destroyed => joined = {} BY <2>1, <2>2 DEF SerialInv, DestroyLeaves
  <2> QED BY <2>5, <2>6, <2>7, <2>8
<1> QED BY <1>1, <1>2, <1>3, Inductive, PTL DEF Spec

----------------------------------------------------------------------------
(***************************************************************************)
(* The exchange of roots (RootExchange), for every set of nodes and of     *)
(* bundles and every number of messages lost and chases failed.            *)
(***************************************************************************)
(* One type for the actions that only move records and flags.              *)
LEMMA RecordsTyped ==
  ASSUME ExchangeTypeOK, NEW l \in Link, Hear(l)
  PROVE  /\ channel' \in [Link -> Root \cup {NoRoot}]
         /\ chasing' \in [Node -> SUBSET Root]
         /\ published' \subseteq Node /\ heard' \subseteq Node \ published'
<1> DEFINE n == l[2]
           own == rootRecord(n)
<1>1. n \in Node /\ own \in Root /\ channel[l] \in Root
  BY DEF ExchangeTypeOK, Link, Root, Hear, rootRecord
<1>2. \A under_way \in [Link -> Root \cup {NoRoot}] :
        Sent(under_way, n, own) \in [Link -> Root \cup {NoRoot}]
  BY <1>1 DEF Sent
<1>3. [channel EXCEPT ![l] = NoRoot] \in [Link -> Root \cup {NoRoot}]
  BY DEF ExchangeTypeOK
<1>4. CASE channel[l] = own
  BY <1>1, <1>3, <1>4 DEF ExchangeTypeOK, Hear, handleRootRecord
<1>5. CASE channel[l] # own
  <2>1. /\ Chase(n, channel[l])
        /\ heard' = heard \ {n} /\ published' = published \cup {n}
        /\ channel' = IF n \in published THEN [channel EXCEPT ![l] = NoRoot]
                      ELSE Sent([channel EXCEPT ![l] = NoRoot], n, own)
    BY <1>5 DEF Hear, handleRootRecord
  <2>2. chasing' \in [Node -> SUBSET Root]
    BY <1>1, <2>1 DEF ExchangeTypeOK, Chase
  <2>3. channel' \in [Link -> Root \cup {NoRoot}]
    BY <1>2, <1>3, <2>1
  <2>4. published' \subseteq Node /\ heard' \subseteq Node \ published'
    BY <1>1, <2>1 DEF ExchangeTypeOK
  <2>5. QED
    BY <2>2, <2>3, <2>4
<1>6. QED
  BY <1>4, <1>5

(* The tick's outcome: what is over for a sample of the head may go, and   *)
(* either nothing is sent or a record of what is not over for the node.    *)
LEMMA TickFacts ==
  ASSUME ExchangeTypeOK, NEW n \in Node, Tick(n)
  PROVE  \E bucket \in SUBSET expired, gone \in SUBSET expired :
           /\ aware[n] \subseteq bucket
           /\ aware' = [aware EXCEPT ![n] = bucket]
           /\ held' = [held EXCEPT ![n] = held[n] \ gone]
           /\ \/ channel' = channel
              \/ channel' = Sent(channel, n, held[n] \ bucket)
<1>0. aware[n] \in SUBSET expired /\ held[n] \in SUBSET Bundle BY DEF ExchangeTypeOK
<1>1. CASE TickPrunes(n)
  <2>1. PICK bucket \in {aware[n], expired} :
          /\ aware' = [aware EXCEPT ![n] = bucket]
          /\ held' = [held EXCEPT ![n] = held[n] \ bucket]
          /\ \/ channel' = channel
             \/ channel' = Sent(channel, n, held[n] \ bucket)
    BY <1>1 DEF TickPrunes
  <2>2. bucket \in SUBSET expired /\ aware[n] \subseteq bucket BY <1>0
  <2> QED BY <2>1, <2>2
<1>2. CASE TickBlind(n)
  <2> USE <1>0
  <2>1. held' = held /\ held = [held EXCEPT ![n] = held[n] \ {}]
    BY <1>0, <1>2 DEF TickBlind, ExchangeTypeOK
  <2>2. CASE UNCHANGED <<aware, channel>>
    <3>1. aware' = [aware EXCEPT ![n] = aware[n]] BY <2>2 DEF ExchangeTypeOK
    <3> WITNESS aware[n] \in SUBSET expired, {} \in SUBSET expired
    <3> QED BY <2>1, <2>2, <3>1
  <2>3. CASE aware' = [aware EXCEPT ![n] = expired] /\ channel' = Sent(channel, n, rootRecord(n)')
    <3>1. rootRecord(n)' = held[n] \ expired BY <2>1, <2>3 DEF rootRecord, ExchangeTypeOK
    <3> WITNESS expired \in SUBSET expired, {} \in SUBSET expired
    <3> QED BY <1>0, <2>1, <2>3, <3>1
  <2> QED BY <1>2, <2>2, <2>3 DEF TickBlind
<1> QED BY <1>1, <1>2 DEF Tick

(* What a node sends is typed and held by it.                              *)
LEMMA SentFacts ==
  ASSUME NEW under_way \in [Link -> Root \cup {NoRoot}], NEW n \in Node, NEW r \in Root
  PROVE  /\ Sent(under_way, n, r) \in [Link -> Root \cup {NoRoot}]
         /\ \A l \in Link : Sent(under_way, n, r)[l] = IF l[1] = n THEN r ELSE under_way[l]
BY DEF Sent

(* What a record heard does to the records under way and to the chases:    *)
(* it is consumed, perhaps chased by the node that heard it, perhaps       *)
(* answered by a record of that node.                                      *)
LEMMA HearFacts ==
  ASSUME ExchangeTypeOK, NEW l \in Link, Hear(l)
  PROVE  /\ l[2] \in Node /\ l[1] \in Node /\ l[1] # l[2]
         /\ channel[l] \in Root
         /\ UNCHANGED <<held, expired, aware>>
         /\ \A k \in Link : \/ channel'[k] \in {channel[k], NoRoot}
                            \/ k[1] = l[2] /\ channel'[k] = rootRecord(l[2])
         /\ channel'[l] = NoRoot
         /\ \A n \in Node : chasing'[n] \subseteq
              IF n = l[2] THEN chasing[n] \cup {channel[l]} ELSE chasing[n]
<1> DEFINE n == l[2]
           own == rootRecord(n)
           taken == [channel EXCEPT ![l] = NoRoot]
<1>1. n \in Node /\ l[1] \in Node /\ l[1] # l[2] /\ own \in Root /\ channel[l] \in Root
  BY DEF ExchangeTypeOK, Link, Root, Hear, rootRecord
<1>2. UNCHANGED <<held, expired, aware>> BY DEF Hear
<1>3. taken \in [Link -> Root \cup {NoRoot}] BY DEF ExchangeTypeOK
<1>4. \/ channel' = taken
      \/ channel' = Sent(taken, n, own)
  <2>1. CASE channel[l] = own BY <2>1 DEF Hear, handleRootRecord
  <2>2. CASE channel[l] # own
    <3>1. channel' = IF n \in published THEN taken ELSE Sent(taken, n, own)
      BY <2>2 DEF Hear, handleRootRecord
    <3> QED BY <3>1
  <2> QED BY <2>1, <2>2
<1>5. \A k \in Link : taken[k] = IF k = l THEN NoRoot ELSE channel[k]
  BY DEF ExchangeTypeOK
<1>6. \A k \in Link : Sent(taken, n, own)[k] = IF k[1] = n THEN own ELSE taken[k]
  BY DEF Sent
<1>7. chasing' = chasing \/ Chase(n, channel[l]) BY DEF Hear, handleRootRecord
<1>8. \A m \in Node : chasing'[m] \subseteq
        IF m = n THEN chasing[m] \cup {channel[l]} ELSE chasing[m]
  BY <1>1, <1>7 DEF Chase, ExchangeTypeOK
<1> HIDE DEF n, own, taken
<1>9. \A k \in Link : \/ channel'[k] \in {channel[k], NoRoot}
                      \/ k[1] = n /\ channel'[k] = own
  BY <1>4, <1>5, <1>6
<1>10. channel'[l] = NoRoot
  BY <1>1, <1>4, <1>5, <1>6 DEF n
<1> QED BY <1>1, <1>2, <1>8, <1>9, <1>10 DEF n, own

LEMMA ExchangeTyped ==
  ASSUME ExchangeTypeOK, [ExchangeNext]_exchangeVars
  PROVE  ExchangeTypeOK'
<1> USE ExchangeAssumption
<1>1. ASSUME NEW n \in Node, NEW b \in Bundle, Vote(n, b) PROVE ExchangeTypeOK'
  BY <1>1 DEF ExchangeTypeOK, Vote
<1>2. ASSUME NEW b \in Bundle, Expire(b) PROVE ExchangeTypeOK'
  BY <1>2 DEF ExchangeTypeOK, Expire
<1>3. ASSUME NEW l \in Link, Hear(l) PROVE ExchangeTypeOK'
  BY <1>3, RecordsTyped DEF ExchangeTypeOK, Hear
<1>4. ASSUME NEW l \in Link, Lose(l) PROVE ExchangeTypeOK'
  BY <1>4 DEF ExchangeTypeOK, Lose, Fault
<1>5. ASSUME NEW n \in Node, Tick(n) PROVE ExchangeTypeOK'
  <2>1. PICK bucket \in SUBSET expired, gone \in SUBSET expired :
          /\ aware[n] \subseteq bucket
          /\ aware' = [aware EXCEPT ![n] = bucket]
          /\ held' = [held EXCEPT ![n] = held[n] \ gone]
          /\ \/ channel' = channel
             \/ channel' = Sent(channel, n, held[n] \ bucket)
    BY <1>5, TickFacts
  <2>2. held[n] \ bucket \in Root BY DEF ExchangeTypeOK, Root
  <2>3. channel' \in [Link -> Root \cup {NoRoot}] BY <2>1, <2>2, SentFacts DEF ExchangeTypeOK
  <2>4. faults' \in 0..MaxFaults
    BY <1>5 DEF ExchangeTypeOK, Tick, TickPrunes, TickBlind, Fault
  <2>5. /\ expired' = expired /\ chasing' = chasing
        /\ published' \subseteq Node /\ heard' \subseteq Node \ published'
    BY <1>5 DEF ExchangeTypeOK, Tick
  <2> QED BY <2>1, <2>3, <2>4, <2>5 DEF ExchangeTypeOK
<1>6. ASSUME NEW n \in Node, ReadHead(n) PROVE ExchangeTypeOK'
  BY <1>6 DEF ExchangeTypeOK, ReadHead, Fault
<1>7. ASSUME NEW n \in Node, NEW r \in chasing[n], ChaseDelivers(n, r) PROVE ExchangeTypeOK'
  <2>1. r \in Root BY DEF ExchangeTypeOK
  <2> QED BY <1>7, <2>1 DEF ExchangeTypeOK, ChaseDelivers, Root
<1>8. ASSUME NEW n \in Node, NEW r \in chasing[n], ChaseFails(n, r) PROVE ExchangeTypeOK'
  BY <1>8 DEF ExchangeTypeOK, ChaseFails, Fault
<1>9. CASE UNCHANGED exchangeVars BY <1>9 DEF exchangeVars, ExchangeTypeOK
<1> QED BY <1>1, <1>2, <1>3, <1>4, <1>5, <1>6, <1>7, <1>8, <1>9 DEF ExchangeNext

(* Steps after which each node holds all it held and is not over, and      *)
(* every record and chase is an old one or a record of what its sender     *)
(* holds: they keep the second half of RootExchangeInv.                    *)
LEMMA NamedStaysHeld ==
  ASSUME RootExchangeInv, ExchangeTypeOK', expired \subseteq expired',
         \A n \in Node : held[n] \ expired' \subseteq held'[n],
         \A l \in Link : channel'[l] \in {channel[l], NoRoot} \/ channel'[l] \subseteq held[l[1]],
         \A n \in Node : \A r \in chasing'[n] :
            r \in chasing[n] \/ \E l \in Link : /\ l[2] = n /\ r = channel[l]
                                                /\ channel[l] # NoRoot
  PROVE  RootExchangeInv'
<1>1. ASSUME NEW l \in Link, channel'[l] # NoRoot
      PROVE  channel'[l] \ expired' \subseteq held'[l[1]]
  <2>1. l[1] \in Node BY DEF Link
  <2>2. channel[l] # NoRoot => channel[l] \ expired \subseteq held[l[1]] BY DEF RootExchangeInv
  <2>3. channel'[l] \ expired' \subseteq held[l[1]] BY <1>1, <2>2
  <2> QED BY <2>1, <2>3
<1>2. ASSUME NEW n \in Node, NEW r \in chasing'[n], NEW b \in r \ expired'
      PROVE  \E m \in Node \ {n} : b \in held'[m]
  <2>1. PICK m \in Node \ {n} : b \in held[m]
    <3>1. CASE r \in chasing[n] BY <3>1 DEF RootExchangeInv
    <3>2. ASSUME NEW l \in Link, l[2] = n, r = channel[l], channel[l] # NoRoot
          PROVE  \E m \in Node \ {n} : b \in held[m]
      <4>1. l[1] \in Node \ {n} BY <3>2 DEF Link
      <4>2. b \in held[l[1]] BY <3>2 DEF RootExchangeInv
      <4> QED BY <4>1, <4>2
    <3> QED BY <3>1, <3>2
  <2> QED BY <2>1
<1> QED BY <1>1, <1>2 DEF RootExchangeInv

(* The nodes of an exchange keep what their records name while it is not   *)
(* over, whatever is lost and however the heads they read differ           *)
(* (RootExchangeInv is inductive as it stands).                            *)
THEOREM ExchangeInvariant == ExchangeSpec => []RootExchangeInv
<1>1. ExchangeInit => RootExchangeInv
  <2> SUFFICES ASSUME ExchangeInit PROVE RootExchangeInv OBVIOUS
  <2>1. ExchangeTypeOK BY ExchangeAssumption DEF ExchangeInit, ExchangeTypeOK, Link, Root
  <2>2. /\ \A l \in Link : channel[l] = NoRoot
        /\ \A n \in Node : chasing[n] = {}
    BY DEF ExchangeInit
  <2> QED BY <2>1, <2>2 DEF RootExchangeInv
<1>2. RootExchangeInv /\ [ExchangeNext]_exchangeVars => RootExchangeInv'
  <2> SUFFICES ASSUME RootExchangeInv, [ExchangeNext]_exchangeVars PROVE RootExchangeInv'
    OBVIOUS
  <2>0. ExchangeTypeOK /\ ExchangeTypeOK' BY ExchangeTyped DEF RootExchangeInv
  <2>1. ASSUME NEW n \in Node, NEW b \in Bundle, Vote(n, b) PROVE RootExchangeInv'
    <3>1. \A m \in Node : held[m] \subseteq held'[m] BY <2>0, <2>1 DEF ExchangeTypeOK, Vote
    <3>2. UNCHANGED <<expired, channel, chasing>> BY <2>1 DEF Vote
    <3> QED BY <2>0, <3>1, <3>2, NamedStaysHeld
  <2>2. ASSUME NEW b \in Bundle, Expire(b) PROVE RootExchangeInv'
    <3>1. UNCHANGED <<held, channel, chasing>> /\ expired \subseteq expired' BY <2>2 DEF Expire
    <3> QED BY <2>0, <3>1, NamedStaysHeld
  <2>3. ASSUME NEW l \in Link, Hear(l) PROVE RootExchangeInv'
    <3>1. rootRecord(l[2]) \subseteq held[l[2]] BY DEF rootRecord
    <3>2. \A k \in Link : channel'[k] \in {channel[k], NoRoot} \/ channel'[k] \subseteq held[k[1]]
      BY <2>0, <2>3, <3>1, HearFacts
    <3>3. channel[l] # NoRoot BY <2>3 DEF Hear
    <3>4. \A n \in Node : \A r \in chasing'[n] :
            r \in chasing[n] \/ \E k \in Link : /\ k[2] = n /\ r = channel[k]
                                                /\ channel[k] # NoRoot
      BY <2>0, <2>3, <3>3, HearFacts
    <3>5. UNCHANGED <<held, expired>> BY <2>3 DEF Hear
    <3> QED BY <2>0, <3>2, <3>4, <3>5, NamedStaysHeld
  <2>4. ASSUME NEW l \in Link, Lose(l) PROVE RootExchangeInv'
    <3>1. \A k \in Link : channel'[k] \in {channel[k], NoRoot}
      BY <2>0, <2>4 DEF Lose, ExchangeTypeOK
    <3>2. UNCHANGED <<held, expired, chasing>> BY <2>4 DEF Lose
    <3> QED BY <2>0, <3>1, <3>2, NamedStaysHeld
  <2>5. ASSUME NEW n \in Node, Tick(n) PROVE RootExchangeInv'
    <3>1. PICK bucket \in SUBSET expired, gone \in SUBSET expired :
            /\ aware[n] \subseteq bucket
            /\ aware' = [aware EXCEPT ![n] = bucket]
            /\ held' = [held EXCEPT ![n] = held[n] \ gone]
            /\ \/ channel' = channel
               \/ channel' = Sent(channel, n, held[n] \ bucket)
      BY <2>0, <2>5, TickFacts
    <3>2. UNCHANGED <<expired, chasing>> BY <2>5 DEF Tick
    <3>3. \A m \in Node : held[m] \ expired' \subseteq held'[m]
      BY <2>0, <3>1, <3>2 DEF ExchangeTypeOK
    <3>4. held[n] \ bucket \in Root BY <2>0 DEF ExchangeTypeOK, Root
    <3>5. \A k \in Link : channel'[k] \in {channel[k], NoRoot} \/ channel'[k] \subseteq held[k[1]]
      <4>1. CASE channel' = channel BY <4>1
      <4>2. CASE channel' = Sent(channel, n, held[n] \ bucket)
        <5>1. \A k \in Link : channel'[k] = IF k[1] = n THEN held[n] \ bucket ELSE channel[k]
          BY <2>0, <3>4, <4>2, SentFacts DEF ExchangeTypeOK
        <5> QED BY <5>1
      <4> QED BY <3>1, <4>1, <4>2
    <3> QED BY <2>0, <3>2, <3>3, <3>5, NamedStaysHeld
  <2>6. ASSUME NEW n \in Node, ReadHead(n) PROVE RootExchangeInv'
    <3>1. UNCHANGED <<expired, channel, chasing>> BY <2>6 DEF ReadHead
    <3>2. \A m \in Node : held[m] \ expired' \subseteq held'[m]
      BY <2>0, <2>6, <3>1 DEF ReadHead, ExchangeTypeOK
    <3> QED BY <2>0, <3>1, <3>2, NamedStaysHeld
  <2>7. ASSUME NEW n \in Node, NEW r \in chasing[n], ChaseDelivers(n, r) PROVE RootExchangeInv'
    <3>1. /\ UNCHANGED <<expired, channel>>
          /\ \A m \in Node : held[m] \subseteq held'[m] /\ chasing'[m] \subseteq chasing[m]
      BY <2>0, <2>7 DEF ChaseDelivers, ExchangeTypeOK
    <3> QED BY <2>0, <3>1, NamedStaysHeld
  <2>8. ASSUME NEW n \in Node, NEW r \in chasing[n], ChaseFails(n, r) PROVE RootExchangeInv'
    <3>1. /\ UNCHANGED <<held, expired, channel>>
          /\ \A m \in Node : chasing'[m] \subseteq chasing[m]
      BY <2>0, <2>8 DEF ChaseFails, ExchangeTypeOK
    <3> QED BY <2>0, <3>1, NamedStaysHeld
  <2>9. CASE UNCHANGED exchangeVars
    BY <2>0, <2>9, NamedStaysHeld DEF exchangeVars
  <2> QED BY <2>1, <2>2, <2>3, <2>4, <2>5, <2>6, <2>7, <2>8, <2>9 DEF ExchangeNext
<1> QED BY <1>1, <1>2, PTL DEF ExchangeSpec

(* Once every node knows a bundle to be over, nobody names it in a record  *)
(* again and its traces only move: from the record to the chase, and from  *)
(* the chase to the node (rootRecord filters by the bucket, #pruneDecayed  *)
(* by the same one, and no bucket goes back).                              *)
THEOREM OverDiesOut == ExchangeSpec => NothingOverSpreads
<1> DEFINE Over(b) == \A n \in Node : b \in aware[n]
           Fades(b) ==
             /\ UnderWay(b)' \subseteq UnderWay(b)
             /\ \A c \in ChasedBy(b)' \ ChasedBy(b) :
                  \E l \in UnderWay(b) \ UnderWay(b)' : l[2] = c[1]
             /\ \A n \in HeldBy(b)' \ HeldBy(b) :
                  \E c \in ChasedBy(b) \ ChasedBy(b)' : c[1] = n
<1>1. ASSUME ExchangeTypeOK, ExchangeTypeOK', [ExchangeNext]_exchangeVars, NEW b \in Bundle, Over(b)
      PROVE  Fades(b)
  <2>0. b \in expired \/ Node = {} BY <1>1 DEF ExchangeTypeOK
  <2>1. ASSUME UNCHANGED channel PROVE UnderWay(b)' = UnderWay(b) BY <2>1 DEF UnderWay
  <2>2. ASSUME \A n \in Node : chasing'[n] \subseteq chasing[n] PROVE ChasedBy(b)' \subseteq ChasedBy(b)
    BY <2>2 DEF ChasedBy
  <2>3. ASSUME \A n \in Node : b \in held'[n] => b \in held[n] PROVE HeldBy(b)' \subseteq HeldBy(b)
    BY <2>3 DEF HeldBy
  <2>4. ASSUME NEW n \in Node, NEW c \in Bundle, Vote(n, c) PROVE Fades(b)
    <3>1. c # b BY <2>0, <2>4 DEF Vote
    <3>2. UNCHANGED <<channel, chasing>> /\ \A m \in Node : b \in held'[m] => b \in held[m]
      BY <1>1, <2>4, <3>1 DEF Vote, ExchangeTypeOK
    <3> QED BY <2>1, <2>2, <2>3, <3>2
  <2>5. ASSUME NEW l \in Link, Hear(l) PROVE Fades(b)
    <3>1. b \notin rootRecord(l[2]) BY <1>1, <2>5, HearFacts DEF rootRecord
    <3>2. UnderWay(b)' \subseteq UnderWay(b)
      BY <1>1, <2>5, <3>1, HearFacts DEF UnderWay
    <3>3. ASSUME NEW c \in ChasedBy(b)' \ ChasedBy(b)
          PROVE  \E k \in UnderWay(b) \ UnderWay(b)' : k[2] = c[1]
      <4>1. c[1] = l[2] /\ b \in channel[l] /\ channel[l] # NoRoot
        BY <1>1, <2>5, <3>3, HearFacts DEF ChasedBy, Hear
      <4>2. l \in UnderWay(b) \ UnderWay(b)'
        BY <1>1, <2>5, <4>1, HearFacts DEF UnderWay
      <4> QED BY <4>1, <4>2
    <3>4. HeldBy(b)' = HeldBy(b) BY <2>5 DEF Hear, HeldBy
    <3> QED BY <3>2, <3>3, <3>4
  <2>6. ASSUME NEW l \in Link, Lose(l) PROVE Fades(b)
    <3>1. UNCHANGED <<held, chasing>> BY <2>6 DEF Lose
    <3>2. UnderWay(b)' \subseteq UnderWay(b) BY <1>1, <2>6 DEF Lose, ExchangeTypeOK, UnderWay
    <3> QED BY <2>2, <2>3, <3>1, <3>2
  <2>7. ASSUME NEW n \in Node, Tick(n) PROVE Fades(b)
    <3>1. PICK bucket \in SUBSET expired, gone \in SUBSET expired :
            /\ aware[n] \subseteq bucket
            /\ aware' = [aware EXCEPT ![n] = bucket]
            /\ held' = [held EXCEPT ![n] = held[n] \ gone]
            /\ \/ channel' = channel
               \/ channel' = Sent(channel, n, held[n] \ bucket)
      BY <1>1, <2>7, TickFacts
    <3>2. UNCHANGED chasing BY <2>7 DEF Tick
    <3>3. \A m \in Node : b \in held'[m] => b \in held[m] BY <1>1, <3>1 DEF ExchangeTypeOK
    <3>4. UnderWay(b)' \subseteq UnderWay(b)
      <4>1. b \in bucket BY <1>1, <3>1
      <4>2. ASSUME channel' = Sent(channel, n, held[n] \ bucket)
            PROVE  \A k \in Link : channel'[k] = IF k[1] = n THEN held[n] \ bucket ELSE channel[k]
        BY <4>2 DEF Sent
      <4> QED BY <3>1, <4>1, <4>2 DEF UnderWay
    <3> QED BY <2>2, <2>3, <3>2, <3>3, <3>4
  <2>8. ASSUME NEW n \in Node, ReadHead(n) PROVE Fades(b)
    <3>1. UNCHANGED <<channel, chasing>> /\ \A m \in Node : b \in held'[m] => b \in held[m]
      BY <1>1, <2>8 DEF ReadHead, ExchangeTypeOK
    <3> QED BY <2>1, <2>2, <2>3, <3>1
  <2>9. ASSUME NEW n \in Node, NEW r \in chasing[n], ChaseDelivers(n, r) PROVE Fades(b)
    <3>1. UNCHANGED channel /\ chasing' = [chasing EXCEPT ![n] = @ \ {r}]
          /\ held' = [held EXCEPT ![n] = @ \cup r]
      BY <2>9 DEF ChaseDelivers
    <3>2. ChasedBy(b)' \subseteq ChasedBy(b) BY <1>1, <2>2, <3>1 DEF ExchangeTypeOK
    <3>3. ASSUME NEW m \in HeldBy(b)' \ HeldBy(b)
          PROVE  \E c \in ChasedBy(b) \ ChasedBy(b)' : c[1] = m
      <4>1. m = n /\ b \in r BY <1>1, <3>1, <3>3 DEF ExchangeTypeOK, HeldBy
      <4>2. r \in Root BY <1>1 DEF ExchangeTypeOK
      <4>3. <<n, r>> \in ChasedBy(b) \ ChasedBy(b)'
        BY <1>1, <3>1, <4>1, <4>2 DEF ExchangeTypeOK, ChasedBy
      <4> QED BY <4>1, <4>3
    <3> QED BY <2>1, <3>1, <3>2, <3>3
  <2>10. ASSUME NEW n \in Node, NEW r \in chasing[n], ChaseFails(n, r) PROVE Fades(b)
    <3>1. UNCHANGED <<held, channel>> /\ \A m \in Node : chasing'[m] \subseteq chasing[m]
      BY <1>1, <2>10 DEF ChaseFails, ExchangeTypeOK
    <3> QED BY <2>1, <2>2, <2>3, <3>1
  <2>11. CASE UNCHANGED exchangeVars \/ \E c \in Bundle : Expire(c)
    <3>1. UNCHANGED <<held, channel, chasing>> BY <2>11 DEF exchangeVars, Expire
    <3> QED BY <2>1, <2>2, <2>3, <3>1
  <2> QED BY <1>1, <2>4, <2>5, <2>6, <2>7, <2>8, <2>9, <2>10, <2>11 DEF ExchangeNext
<1>2. RootExchangeInv => ExchangeTypeOK BY DEF RootExchangeInv
<1>3. ExchangeTypeOK /\ ExchangeTypeOK' /\ [ExchangeNext]_exchangeVars
        => [\A b \in Bundle : Over(b) => Fades(b)]_exchangeVars
  BY <1>1
<1> QED BY <1>2, <1>3, ExchangeInvariant, PTL DEF ExchangeSpec, NothingOverSpreads
=============================================================================
