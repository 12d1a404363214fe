-------------------------- MODULE CheckpointProofs --------------------------
(***************************************************************************)
(* Proofs about Checkpoint: for any bundles, any number of concurrent      *)
(* record and restore calls and any sequence of joins, leaves and crashes, *)
(* up to the first race.                                                   *)
(*                                                                         *)
(* A write is decided long before it ends: it looks for pending checks and *)
(* a backlog, awaits the head, takes the winners, writes blocks, and then  *)
(* replaces the snapshot.  The invariants say what has been made sure of   *)
(* at each of these points, and that the steps in between do not undo it.  *)
(***************************************************************************)
EXTENDS Checkpoint, LwwProofs, TLAPS

\* a restore only works through, and leaves a backlog of, a snapshot that decodes
BacklogHasSnapshot ==
  restoreBacklog # {} \/ (\E r \in Restorer : restores[r].pc = "admit")
    => snapshot \notin {NoRecord, Corrupt}

----------------------------------------------------------------------------
\* one call at a time is past its head read, and no bucket comes from the future
Writing(t) == tasks[t].pc \in {"encode", "store"}

OneWrites == \A t, u \in Task : Writing(t) /\ Writing(u) => t = u

NotAhead ==
  /\ \A t \in Task : tasks[t].pc = "encode" => tasks[t].bucket <= bucket
  /\ rootRecordCache # NoRecord => rootRecordCache.bucket <= bucket

\* an encode that nothing dirtied will make the cache current
EncodesCurrent ==
  \A t \in Task :
    tasks[t].pc = "encode" /\ ~ checkpointDirty /\ tasks[t].bucket = bucket
      => tasks[t].winners = winners

RecordInv ==
  /\ NotAhead
  /\ ~ raced => OneWrites /\ EncodesCurrent /\ RecordIsCurrent

----------------------------------------------------------------------------
\* what the engine holds, checked or not
held == {b \in Bundle : checks[b] # "out"}

\* nothing that is on paper is lost with b as it is: it decayed, it is held, a refusal
\* took it, or it was pruned for a vote that is held
Covered(b) ==
  \/ isExpired(b, bucket) \/ b \in held \/ b \in dropped
  \/ b \in pruned /\ Replaced(b, held)

\* the same by verified bundles alone, so that a record taken now may leave out b
Settled(b) ==
  \/ isExpired(b, bucket) \/ b \in verified
  \/ /\ b \notin held
     /\ b \in dropped \/ (b \in pruned /\ Replaced(b, verified))

\* what excuses that b is not in the record S: it decayed, S has it or better, a refusal
Excused(b, S) == b \in dropped \/ isExpired(b, bucket) \/ b \in S \/ Replaced(b, S)

\* a restore will still bring b
OwedByRestore(b) ==
  \/ \E r \in Restorer : \/ restores[r].pc = "read"
                         \/ b \in restores[r].todo \cup restores[r].backlog \cup {restores[r].at}
  \/ ~ restoreRunning /\ b \in restoreBacklog

\* no write can begin before the next join
Fresh == ~ joined /\ ~ snapshotTimer

NoneForgotten ==
  Fresh \/ \A b \in persisted : Covered(b) \/ OwedByRestore(b)

\* what is being written is not lost either
WritesWhatIsHeld == \A t \in Task : \A b \in tasks[t].winners : Covered(b)

\* no write call has forgotten a persisted bundle; a serving call writes nothing
WritesRight(t) ==
  /\ t \in Server => tasks[t].pc \notin {"begin", "store"}
  /\ tasks[t].pc = "begin" => \A b \in onPaper : Settled(b)
  /\ t \notin Server /\ Writing(t) => \A b \in persisted : Excused(b, tasks[t].winners)

WritesWhatItShould == \A t \in Task : WritesRight(t)

RestoresInTurn ==
  /\ \A r \in Restorer : restores[r].pc = "idle" => restores[r] = IdleRestore
  /\ \A r, s \in Restorer : restores[r].pc # "idle" /\ restores[s].pc # "idle" => r = s
  /\ restoreTimer => joined /\ ~ restoreRunning
  /\ leaving => ~ restoreRunning /\ restoreBacklog = {}

KeepInv ==
  ~ raced => /\ RestoresInTurn
             /\ NoneForgotten
             /\ WritesWhatItShould
             /\ WritesWhatIsHeld

----------------------------------------------------------------------------
(* Typing.                                                                 *)

LEMMA WinnersAreBundles == TypeOK => verified \in SUBSET Bundle /\ winners \in SUBSET Bundle
BY DEF verified, winners, currentEntries, winnersByWallet

\* The types of the calls in flight.
TaskState == [pc : {"idle", "begin", "encode", "store"},
              winners : SUBSET Bundle, bucket : 0..MaxBucket]
RunState == [pc : {"idle", "read", "admit"}, todo : SUBSET Bundle,
             at : Bundle \cup {NoBundle}, pending : SUBSET Bundle, backlog : SUBSET Bundle]
Tasks == [Task -> TaskState]
Runs == [Restorer -> RunState]

LEMMA IdleTyped == IdleTask \in TaskState /\ IdleRestore \in RunState
BY CriteriaAssumption DEF IdleTask, IdleRestore, TaskState, RunState

LEMMA CallsTyped == TypeOK => tasks \in Tasks /\ restores \in Runs
BY DEF TypeOK, Tasks, Runs, TaskState, RunState

LEMMA InitTyped == Init => TypeOK
<1> SUFFICES ASSUME Init PROVE TypeOK
  OBVIOUS
<1>1. tasks \in Tasks /\ restores \in Runs
  BY IdleTyped DEF Init, Tasks, Runs
<1>2. bucket \in 0..MaxBucket /\ snapshotWriteFailures \in 0..(WriteAttempts - 1)
  BY TaskAssumption, CriteriaAssumption DEF Init
<1>3. checks \in [Bundle -> {"out", "pending", "verified"}]
  BY DEF Init
<1> QED BY <1>1, <1>2, <1>3 DEF Init, TypeOK, Tasks, Runs, TaskState, RunState

\* Steps of the working set.
LEMMA SetStepTyped ==
  ASSUME TypeOK,
         \/ \E b \in Bundle, check \in {"pending", "verified"} : Accept(b, check)
         \/ \E b \in Bundle : Settle(b) \/ Evict(b)
         \/ \E heartbeat \in BOOLEAN : Prune(heartbeat)
         \/ AdvanceBucket
  PROVE  TypeOK'
<1> USE DEF cache, writes, restoring, history, engine
<1>1. /\ UNCHANGED <<joined, leaving, rootRecordCache, tasks, snapshot,
                     snapshotWriteFailures, restores, restoreBacklog, restoreTimer, stale>>
      /\ checkpointDirty' \in BOOLEAN /\ snapshotTimer' \in BOOLEAN
  <2>1. CASE \E b \in Bundle, check \in {"pending", "verified"} : Accept(b, check)
    BY <2>1 DEF TypeOK, Accept, markStateChanged, ScheduleSnapshotWrite
  <2>2. ASSUME NEW b \in Bundle, Settle(b)
        PROVE  /\ UNCHANGED <<joined, leaving, rootRecordCache, tasks, snapshot,
                     snapshotWriteFailures, restores, restoreBacklog, restoreTimer, stale>>
               /\ checkpointDirty' \in BOOLEAN /\ snapshotTimer' \in BOOLEAN
    <3>1. CASE checks[b] = "out" BY <2>2, <3>1 DEF TypeOK, Settle
    <3>2. CASE checks[b] # "out"
      BY <2>2, <3>2 DEF TypeOK, Settle, markStateChanged, ScheduleSnapshotWrite
    <3> QED BY <3>1, <3>2
  <2>3. CASE \E b \in Bundle : Evict(b)
    BY <2>3 DEF TypeOK, Evict, markStateChanged, ScheduleSnapshotWrite
  <2>4. CASE AdvanceBucket BY <2>4 DEF TypeOK, AdvanceBucket
  <2>5. ASSUME NEW heartbeat \in BOOLEAN, Prune(heartbeat)
        PROVE  /\ UNCHANGED <<joined, leaving, rootRecordCache, tasks, snapshot,
                     snapshotWriteFailures, restores, restoreBacklog, restoreTimer, stale>>
               /\ checkpointDirty' \in BOOLEAN /\ snapshotTimer' \in BOOLEAN
    <3>1. CASE heartbeat
      BY <2>5, <3>1 DEF TypeOK, Prune, markStateChanged, ScheduleSnapshotWrite
    <3>2. CASE ~ heartbeat BY <2>5, <3>2 DEF TypeOK, Prune
    <3> QED BY <3>1, <3>2
  <2> QED BY <2>1, <2>2, <2>3, <2>4, <2>5
<1>2. bucket' \in 0..MaxBucket
  <2>1. CASE AdvanceBucket BY <2>1, CriteriaAssumption DEF TypeOK, AdvanceBucket
  <2>2. CASE ~ AdvanceBucket
    <3>1. bucket' = bucket BY <2>2 DEF Accept, Settle, Evict, Prune
    <3> QED BY <3>1 DEF TypeOK
  <2> QED BY <2>1, <2>2
<1>3. checks' \in [Bundle -> {"out", "pending", "verified"}]
  BY DEF TypeOK, Accept, Settle, Evict, Prune, AdvanceBucket
<1>4. dropped' \in SUBSET Bundle /\ owed' \in SUBSET Bundle /\ pruned' \in SUBSET Bundle
  BY DEF TypeOK, Accept, Settle, Evict, Prune, AdvanceBucket, Beneath, Prunable
<1>5. raced' \in BOOLEAN
  BY DEF TypeOK, Accept, Settle, Evict, Prune, AdvanceBucket
<1> QED BY <1>1, <1>2, <1>3, <1>4, <1>5 DEF TypeOK

\* Steps of a record or write call.
LEMMA TaskStepTyped ==
  ASSUME TypeOK, NEW t \in Task, TaskStep(t)
  PROVE  TypeOK'
<1> USE DEF cache, writes, restoring, history, engine
<1>1. UNCHANGED <<joined, leaving, bucket, checks, owed, restores, restoreBacklog, restoreTimer>>
  BY DEF TaskStep, RootRecord, Encoded, SnapshotTimerFires, Store, TaskThrows
<1>2. tasks \in Tasks BY CallsTyped
<1>3. IdleTask \in TaskState /\ AfterRecord(t) \in TaskState
  <2>1. tasks[t].winners \in SUBSET Bundle BY <1>2 DEF Tasks, TaskState
  <2>2. [IdleTask EXCEPT !.pc = "store", !.winners = tasks[t].winners] \in TaskState
    BY <2>1, IdleTyped DEF TaskState, IdleTask
  <2> QED BY <2>2, IdleTyped DEF AfterRecord
<1>4. tasks' \in Tasks
  <2>1. CASE RootRecord(t)
    <3>1. CASE cacheUsable
      <4>1. rootRecordCache.winners \in SUBSET Bundle
        BY <3>1 DEF cacheUsable, TypeOK
      <4>2. [IdleTask EXCEPT !.pc = "store", !.winners = rootRecordCache.winners] \in TaskState
        BY <4>1, IdleTyped DEF TaskState, IdleTask
      <4> QED BY <2>1, <3>1, <4>2, <1>2 DEF RootRecord, Tasks
    <3>2. CASE ~ cacheUsable
      <4>1. [pc |-> "encode", winners |-> winners, bucket |-> bucket] \in TaskState
        BY WinnersAreBundles DEF TypeOK, TaskState
      <4> QED BY <2>1, <3>2, <4>1, <1>2 DEF RootRecord, Tasks
    <3> QED BY <3>1, <3>2
  <2>2. CASE Encoded(t) BY <2>2, <1>2, <1>3 DEF Encoded, Tasks
  <2>3. CASE SnapshotTimerFires(t)
    BY <2>3, <1>2 DEF SnapshotTimerFires, Tasks, TaskState
  <2>4. CASE Store(t) \/ TaskThrows(t)
    BY <2>4, <1>2, <1>3 DEF Store, TaskThrows, Tasks
  <2> QED BY <2>1, <2>2, <2>3, <2>4 DEF TaskStep
<1>5. /\ checkpointDirty' \in BOOLEAN
      /\ snapshotTimer' \in BOOLEAN
      /\ raced' \in BOOLEAN /\ stale' \in BOOLEAN
      /\ dropped' \in SUBSET Bundle /\ pruned' \in SUBSET Bundle
  BY DEF TypeOK, TaskStep, RootRecord, Encoded, SnapshotTimerFires, Store, TaskThrows,
         WriteFailed, ScheduleSnapshotWrite
<1>6. snapshotWriteFailures' \in 0..(WriteAttempts - 1)
  BY TaskAssumption DEF TypeOK, TaskStep, RootRecord, Encoded, SnapshotTimerFires, Store,
                        TaskThrows, WriteFailed
<1>7. \/ rootRecordCache' = NoRecord
      \/ rootRecordCache' \in [winners : SUBSET Bundle, bucket : 0..MaxBucket]
  <2>1. CASE Encoded(t)
    BY <2>1, <1>2 DEF Encoded, Tasks, TaskState
  <2>2. CASE ~ Encoded(t)
    BY <2>2 DEF TypeOK, TaskStep, RootRecord, SnapshotTimerFires, Store, TaskThrows
  <2> QED BY <2>1, <2>2
<1>8. snapshot' \in {NoRecord, Corrupt} \/ snapshot' \in SUBSET Bundle
  <2>1. CASE Store(t)
    BY <2>1, <1>2 DEF Store, Tasks, TaskState
  <2>2. CASE ~ Store(t)
    BY <2>2 DEF TypeOK, TaskStep, RootRecord, SnapshotTimerFires, Encoded, TaskThrows
  <2> QED BY <2>1, <2>2
<1> QED BY <1>1, <1>4, <1>5, <1>6, <1>7, <1>8 DEF TypeOK, Tasks, TaskState

\* Steps of a restore.
LEMMA RestoreStepTyped ==
  ASSUME TypeOK, NEW r \in Restorer, RestoreStep(r)
  PROVE  TypeOK'
<1> USE DEF cache, writes, restoring, history, engine
<1>1. /\ UNCHANGED <<leaving, bucket, tasks, snapshotWriteFailures, stale>>
      /\ joined' \in BOOLEAN /\ (leaving' => joined')
  <2>1. UNCHANGED <<leaving, bucket, tasks, snapshotWriteFailures, stale>>
    BY DEF RestoreStep, Join, RestoreRead, RestoreBacklogs, RestoreAdmits, RestoreDone,
           RestoreTimerFires, RestoreNext, ScheduleSnapshotWrite
  <2>2. joined' = joined \/ joined' = TRUE
    BY DEF RestoreStep, Join, RestoreRead, RestoreBacklogs, RestoreAdmits, RestoreDone,
           RestoreTimerFires, RestoreNext
  <2> QED BY <2>1, <2>2 DEF TypeOK
<1>9. /\ checkpointDirty' \in BOOLEAN /\ snapshotTimer' \in BOOLEAN
      /\ restoreTimer' \in BOOLEAN
  <2>1. CASE RestoreDone(r)
    BY <2>1 DEF TypeOK, RestoreDone, ScheduleSnapshotWrite
  <2>2. CASE ~ RestoreDone(r)
    BY <2>2 DEF TypeOK, RestoreStep, Join, RestoreRead, RestoreBacklogs, RestoreAdmits,
                RestoreTimerFires, RestoreNext
  <2> QED BY <2>1, <2>2
<1>10. raced' \in BOOLEAN
  <2>1. CASE Join(r) BY <2>1 DEF Join
  <2>2. CASE RestoreRead(r) BY <2>2 DEF RestoreRead, TypeOK
  <2>3. CASE RestoreAdmits(r) BY <2>3 DEF RestoreAdmits, TypeOK
  <2>4. CASE UNCHANGED raced BY <2>4 DEF TypeOK
  <2> QED BY <2>1, <2>2, <2>3, <2>4 DEF RestoreStep, RestoreBacklogs, RestoreDone,
                                        RestoreTimerFires, RestoreNext
<1>11. dropped' \in SUBSET Bundle
  <2>1. persisted \in SUBSET Bundle BY DEF TypeOK, persisted
  <2> QED BY <2>1 DEF TypeOK, RestoreStep, Join, RestoreRead, RestoreBacklogs, RestoreAdmits,
                      RestoreDone, RestoreTimerFires, RestoreNext
<1>12. pruned' \in SUBSET Bundle
  BY DEF TypeOK, RestoreStep, Join, RestoreRead, RestoreBacklogs, RestoreAdmits,
         RestoreDone, RestoreTimerFires, RestoreNext
<1>2. restores \in Runs BY CallsTyped
<1>3. IdleRestore \in RunState BY IdleTyped
<1>4. restores' \in Runs
  <2> DEFINE run == restores[r]
  <2>1. run \in RunState BY <1>2 DEF Runs
  <2>2. PICK after : restores' = [restores EXCEPT ![r] = after] /\ after \in RunState
    <3>1. CASE restores' = restores
      BY <3>1, <2>1, <1>2 DEF Runs
    <3>2. CASE Join(r)
      <4>1. [run EXCEPT !.pc = "read"] \in RunState BY <2>1 DEF RunState
      <4> QED BY <3>2, <4>1 DEF Join
    <3>3. CASE RestoreRead(r)
      <4>1. CASE restores' = [restores EXCEPT ![r] = IdleRestore]
        BY <4>1, <1>3
      <4>2. CASE /\ snapshot \notin {NoRecord, Corrupt}
                 /\ restores' = [restores EXCEPT ![r].pc = "admit", ![r].todo = snapshot]
        <5>1. snapshot \in SUBSET Bundle BY <4>2 DEF TypeOK
        <5>2. [run EXCEPT !.pc = "admit", !.todo = snapshot] \in RunState
          BY <5>1, <2>1 DEF RunState
        <5>3. restores' = [restores EXCEPT ![r] = [run EXCEPT !.pc = "admit", !.todo = snapshot]]
          BY <4>2, <1>2 DEF Runs
        <5> QED BY <5>2, <5>3
      <4> QED BY <3>3, <4>1, <4>2 DEF RestoreRead
    <3>4. CASE RestoreBacklogs(r)
      <4>1. run.at \in Bundle BY <3>4, <2>1 DEF RestoreBacklogs, RunState
      <4>2. [run EXCEPT !.at = NoBundle, !.backlog = @ \cup {run.at}] \in RunState
        BY <2>1, <4>1 DEF RunState
      <4> QED BY <3>4, <4>2, <1>2 DEF RestoreBacklogs, Runs
    <3>5. CASE RestoreAdmits(r)
      <4>1. run.at \in Bundle BY <3>5, <2>1 DEF RestoreAdmits, RunState
      <4>2. [run EXCEPT !.at = NoBundle] \in RunState BY <2>1 DEF RunState
      <4>3. [run EXCEPT !.at = NoBundle, !.pending = @ \cup {run.at}] \in RunState
        BY <2>1, <4>1 DEF RunState
      <4> QED BY <3>5, <4>2, <4>3, <1>2 DEF RestoreAdmits, Runs
    <3>6. CASE RestoreDone(r) BY <3>6, <1>3 DEF RestoreDone
    <3>7. CASE RestoreTimerFires(r) /\ restores' # restores
      <4>1. [run EXCEPT !.pc = "admit", !.todo = restoreBacklog] \in RunState
        BY <2>1 DEF RunState, TypeOK
      <4> QED BY <3>7, <4>1, <1>2 DEF RestoreTimerFires, Runs
    <3>8. ASSUME NEW b \in Bundle, RestoreNext(r, b)
          PROVE  \E after : restores' = [restores EXCEPT ![r] = after] /\ after \in RunState
      <4> DEFINE at == IF checks[b] = "out" THEN b ELSE NoBundle
      <4>1. at \in Bundle \cup {NoBundle} OBVIOUS
      <4>2. restores' = [restores EXCEPT ![r] = [run EXCEPT !.todo = @ \ {b}, !.at = at]]
        BY <3>8, <1>2 DEF RestoreNext, Runs
      <4> HIDE DEF at
      <4>3. [run EXCEPT !.todo = @ \ {b}, !.at = at] \in RunState
        BY <2>1, <4>1 DEF RunState
      <4> QED BY <4>2, <4>3
    <3> QED BY <3>1, <3>2, <3>3, <3>4, <3>5, <3>6, <3>7, <3>8 DEF RestoreStep
  <2> QED BY <2>2, <1>2 DEF Runs
<1>5. restoreBacklog' \in SUBSET Bundle
  BY <1>2 DEF TypeOK, RestoreStep, Join, RestoreRead, RestoreBacklogs, RestoreAdmits, RestoreDone,
         RestoreTimerFires, RestoreNext, Runs, RunState
<1>13. owed' \in SUBSET Bundle
  <2>1. restores[r].pending \in SUBSET Bundle BY <1>2 DEF Runs, RunState
  <2> QED BY <2>1 DEF TypeOK, RestoreStep, Join, RestoreRead, RestoreBacklogs, RestoreAdmits,
                      RestoreDone, RestoreTimerFires, RestoreNext
<1>6. checks' \in [Bundle -> {"out", "pending", "verified"}]
  <2>1. CASE RestoreAdmits(r)
    BY <2>1 DEF RestoreAdmits, TypeOK
  <2>2. CASE ~ RestoreAdmits(r)
    BY <2>2 DEF TypeOK, RestoreStep, Join, RestoreRead, RestoreBacklogs, RestoreDone,
         RestoreTimerFires, RestoreNext
  <2> QED BY <2>1, <2>2
<1>7. \/ rootRecordCache' = NoRecord
      \/ rootRecordCache' \in [winners : SUBSET Bundle, bucket : 0..MaxBucket]
  BY DEF TypeOK, RestoreStep, Join, RestoreRead, RestoreBacklogs, RestoreAdmits, RestoreDone,
         RestoreTimerFires, RestoreNext
<1>8. snapshot' \in {NoRecord, Corrupt} \/ snapshot' \in SUBSET Bundle
  BY DEF TypeOK, RestoreStep, Join, RestoreRead, RestoreBacklogs, RestoreAdmits, RestoreDone,
         RestoreTimerFires, RestoreNext
<1> QED BY <1>1, <1>4, <1>5, <1>6, <1>7, <1>8, <1>9, <1>10, <1>11, <1>12, <1>13
    DEF TypeOK, Runs, RunState

\* Leaves and crashes.
LEMMA EndStepTyped ==
  ASSUME TypeOK, LeaveUnflushed \/ LeaveFlushes \/ LeaveFlushed \/ Crash
  PROVE  TypeOK'
<1> USE DEF cache, writes, restoring, history, engine
<1>1. tasks' \in Tasks
  <2>1. tasks \in Tasks /\ Leaver \in Task BY CallsTyped DEF Task
  <2>2. [tasks[Leaver] EXCEPT !.pc = "begin"] \in TaskState BY <2>1 DEF Tasks, TaskState
  <2> QED BY <2>1, <2>2, IdleTyped
      DEF LeaveUnflushed, LeaveFlushes, LeaveFlushed, Crash, Left, Tasks
<1>2. restores' \in Runs
  BY CallsTyped, IdleTyped DEF LeaveUnflushed, LeaveFlushes, LeaveFlushed, Crash, Left, Runs
<1>3. checks' \in [Bundle -> {"out", "pending", "verified"}]
  BY DEF LeaveUnflushed, LeaveFlushes, LeaveFlushed, Crash, Left, TypeOK
<1>4. snapshotWriteFailures' \in 0..(WriteAttempts - 1)
  BY TaskAssumption DEF LeaveUnflushed, LeaveFlushes, LeaveFlushed, Crash, Left, TypeOK
<1>5. /\ UNCHANGED <<bucket, snapshot>>
      /\ dropped' \in SUBSET Bundle /\ pruned' \in SUBSET Bundle /\ owed' \in SUBSET Bundle
      /\ stale' \in BOOLEAN
      /\ rootRecordCache' \in {rootRecordCache, NoRecord}
      /\ joined' \in BOOLEAN /\ leaving' \in BOOLEAN /\ (leaving' => joined')
      /\ checkpointDirty' \in BOOLEAN
      /\ snapshotTimer' \in BOOLEAN /\ restoreTimer' \in BOOLEAN /\ raced' \in BOOLEAN
      /\ restoreBacklog' \in SUBSET Bundle
  BY DEF LeaveUnflushed, LeaveFlushes, LeaveFlushed, Crash, Left, TypeOK
<1> QED BY <1>1, <1>2, <1>3, <1>4, <1>5 DEF TypeOK, Tasks, Runs, TaskState, RunState

LEMMA StepTyped == TypeOK /\ [Next]_vars => TypeOK'
<1> SUFFICES ASSUME TypeOK, [Next]_vars PROVE TypeOK'
  OBVIOUS
<1>1. CASE UNCHANGED vars
  BY <1>1 DEF TypeOK, vars, cache, writes, restoring, history, engine
<1> QED BY <1>1, SetStepTyped, TaskStepTyped, RestoreStepTyped, EndStepTyped DEF Next

\* Every state has the types of TypeOK.
THEOREM CheckpointTypeCorrect == Spec => []TypeOK
BY InitTyped, StepTyped, PTL DEF Spec

----------------------------------------------------------------------------
(* The backlog.                                                            *)

BacklogInv == BacklogHasSnapshot /\ BacklogIsRetried

\* Steps that leave the restores alone, and do not lose the snapshot.
LEMMA BacklogStays ==
  ASSUME BacklogInv, UNCHANGED <<restores, restoreBacklog, restoreTimer>>, joined' => joined,
         snapshot' = snapshot \/ snapshot' \notin {NoRecord, Corrupt}
  PROVE  BacklogInv'
BY DEF BacklogInv, BacklogHasSnapshot, BacklogIsRetried, restoreRunning

LEMMA RestoreKeepsBacklog ==
  ASSUME TypeOK, BacklogInv, "get" \notin fails, NEW r \in Restorer, RestoreStep(r)
  PROVE  BacklogInv'
<1> USE DEF engine, cache, writes, restoring, history
<1>1. restores \in Runs /\ restores[r] \in RunState BY CallsTyped DEF Runs
<1>2. CASE Join(r)
  <2>1. /\ restores'[r].pc = "read" /\ \A s \in Restorer \ {r} : restores'[s] = restores[s]
        /\ UNCHANGED <<restoreBacklog, snapshot>>
    BY <1>2, <1>1 DEF Join, Runs, RunState
  <2> QED BY <2>1 DEF BacklogInv, BacklogHasSnapshot, BacklogIsRetried, restoreRunning
<1>3. CASE RestoreRead(r)
  <2>1. restores[r].pc = "read" /\ UNCHANGED <<restoreBacklog, restoreTimer, joined>>
    BY <1>3 DEF RestoreRead
  <2>2. CASE snapshot \in {NoRecord, Corrupt}
    <3>1. /\ restoreBacklog = {} /\ \A s \in Restorer : restores[s].pc # "admit"
          /\ restores' = [restores EXCEPT ![r] = IdleRestore]
      BY <1>3, <2>2 DEF RestoreRead, BacklogInv, BacklogHasSnapshot
    <3>2. \A s \in Restorer : restores'[s].pc # "admit"
      BY <3>1, <1>1 DEF Runs, IdleRestore
    <3> QED BY <2>1, <3>1, <3>2 DEF BacklogInv, BacklogHasSnapshot, BacklogIsRetried
  <2>3. CASE snapshot \notin {NoRecord, Corrupt}
    <3>1. /\ restores' = [restores EXCEPT ![r].pc = "admit", ![r].todo = snapshot]
          /\ snapshot' = snapshot
      BY <1>3, <2>3 DEF RestoreRead
    <3>2. restores'[r].pc = "admit"
      BY <3>1, <1>1 DEF Runs, RunState
    <3> QED BY <2>3, <3>1, <3>2 DEF BacklogInv, BacklogHasSnapshot, BacklogIsRetried, restoreRunning
  <2> QED BY <2>2, <2>3
<1>4. CASE RestoreDone(r)
  <2>1. snapshot \notin {NoRecord, Corrupt} /\ snapshot' = snapshot
    BY <1>4 DEF RestoreDone, BacklogInv, BacklogHasSnapshot
  <2>2. (joined' /\ restoreBacklog' # {}) => restoreTimer'
    BY <1>4 DEF RestoreDone
  <2> QED BY <2>1, <2>2 DEF BacklogInv, BacklogHasSnapshot, BacklogIsRetried
<1>5. CASE RestoreTimerFires(r)
  <2>1. UNCHANGED <<joined, restoreBacklog, snapshot>> BY <1>5 DEF RestoreTimerFires
  <2>2. CASE restoreBacklog # {} /\ joined
    <3>1. restores'[r].pc = "admit" BY <1>5, <2>2, <1>1 DEF RestoreTimerFires, Runs, RunState
    <3> QED BY <2>1, <2>2, <3>1 DEF BacklogInv, BacklogHasSnapshot, BacklogIsRetried, restoreRunning
  <2>3. CASE ~ (restoreBacklog # {} /\ joined)
    BY <1>5, <2>1, <2>3 DEF RestoreTimerFires, BacklogInv, BacklogHasSnapshot, BacklogIsRetried
  <2> QED BY <2>2, <2>3
<1>6. CASE RestoreBacklogs(r) \/ RestoreAdmits(r) \/ \E b \in Bundle : RestoreNext(r, b)
  <2>1. UNCHANGED <<joined, restoreBacklog, restoreTimer, snapshot>>
    BY <1>6 DEF RestoreBacklogs, RestoreAdmits, RestoreNext
  <2>2. \A s \in Restorer : restores'[s].pc = restores[s].pc
    <3>1. CASE RestoreBacklogs(r) BY <3>1, <1>1 DEF RestoreBacklogs, Runs, RunState
    <3>2. CASE RestoreAdmits(r) BY <3>2, <1>1 DEF RestoreAdmits, Runs, RunState
    <3>3. CASE \E b \in Bundle : RestoreNext(r, b)
      <4> PICK b \in Bundle : RestoreNext(r, b) BY <3>3
      <4>1. PICK at : restores' = [restores EXCEPT ![r].todo = @ \ {b}, ![r].at = at]
        BY DEF RestoreNext
      <4> QED BY <4>1, <1>1 DEF Runs, RunState
    <3> QED BY <1>6, <3>1, <3>2, <3>3
  <2> QED BY <2>1, <2>2 DEF BacklogInv, BacklogHasSnapshot, BacklogIsRetried, restoreRunning
<1> QED BY <1>2, <1>3, <1>4, <1>5, <1>6 DEF RestoreStep

LEMMA StepKeepsBacklog ==
  ASSUME TypeOK, BacklogInv, "get" \notin fails, [Next]_vars
  PROVE  BacklogInv'
<1> USE DEF engine, cache, writes, restoring, history
<1>1. CASE \/ \E b \in Bundle, check \in {"pending", "verified"} : Accept(b, check)
           \/ \E b \in Bundle : Settle(b) \/ Evict(b)
           \/ \E heartbeat \in BOOLEAN : Prune(heartbeat)
           \/ AdvanceBucket \/ LeaveFlushes \/ UNCHANGED vars
  <2>1. UNCHANGED <<joined, snapshot, restores, restoreBacklog, restoreTimer>>
    BY <1>1 DEF Accept, Settle, Evict, Prune, AdvanceBucket, LeaveFlushes, vars
  <2> QED BY <2>1, BacklogStays
<1>2. ASSUME NEW t \in Task, TaskStep(t) PROVE BacklogInv'
  <2>1. UNCHANGED <<joined, restores, restoreBacklog, restoreTimer>>
    BY <1>2 DEF TaskStep, RootRecord, Encoded, SnapshotTimerFires, Store, TaskThrows
  <2>2. snapshot' = snapshot \/ snapshot' = tasks[t].winners
    BY <1>2 DEF TaskStep, RootRecord, Encoded, SnapshotTimerFires, Store, TaskThrows
  <2>3. tasks[t].winners \notin {NoRecord, Corrupt}
    BY CallsTyped, TaskAssumption DEF Tasks, TaskState
  <2> QED BY <2>1, <2>2, <2>3, BacklogStays
<1>3. CASE LeaveUnflushed \/ LeaveFlushed \/ Crash
  <2>1. restoreBacklog' = {} /\ snapshot' = snapshot
    BY <1>3 DEF LeaveUnflushed, LeaveFlushed, Left, Crash
  <2>2. \A r \in Restorer : restores'[r].pc = "admit" => restores[r].pc = "admit"
    BY <1>3 DEF LeaveUnflushed, LeaveFlushed, Left, Crash, IdleRestore
  <2> QED BY <2>1, <2>2 DEF BacklogInv, BacklogHasSnapshot, BacklogIsRetried
<1> QED BY <1>1, <1>2, <1>3, RestoreKeepsBacklog DEF Next

(* A persisted vote in the backlog of a joined engine always has its retry *)
(* armed or running, however many calls, leaves and crashes overlap, as    *)
(* long as the store can be read: one that cannot leaves the backlog of an *)
(* earlier join behind.                                                    *)
THEOREM BacklogHasRetry ==
  ASSUME "get" \notin fails
  PROVE  Spec => []CheckpointInv
<1>1. Init => TypeOK /\ BacklogInv
  BY InitTyped DEF Init, BacklogInv, BacklogHasSnapshot, BacklogIsRetried, IdleRestore
<1>2. TypeOK /\ BacklogInv /\ [Next]_vars => (TypeOK /\ BacklogInv)'
  BY StepTyped, StepKeepsBacklog
<1>3. TypeOK /\ BacklogInv => CheckpointInv BY DEF CheckpointInv, BacklogInv
<1> QED BY <1>1, <1>2, <1>3, PTL DEF Spec

----------------------------------------------------------------------------
(* The record.                                                             *)

\* What a prune takes from the set has decayed, or is beaten by what stays verified and
\* is remembered if it is on paper.
LEMMA PruneCovers ==
  ASSUME TypeOK, NEW heartbeat \in BOOLEAN, Prune(heartbeat)
  PROVE  /\ verified' \in SUBSET verified
         /\ \A b \in Bundle : checks[b] # "out" =>
              \/ checks'[b] = checks[b]
              \/ isExpired(b, bucket)
              \/ Replaced(b, verified') /\ (b \in onPaper => b \in pruned')
         /\ \A b \in Bundle : checks'[b] \in {checks[b], "out"}
         /\ winners' = winners
<1> DEFINE there   == {b \in Bundle : checks[b] # "out"}
           waiting == {b \in there : checks[b] = "pending"}
           removed == Prunable(there, bucket, waiting)
<1>1. /\ checks' = [b \in Bundle |-> IF b \in removed THEN "out" ELSE checks[b]]
      /\ bucket' = bucket
  BY DEF Prune
<1>2. bucket \in Nat BY CriteriaAssumption DEF TypeOK
<1>3. checks \in [Bundle -> {"out", "pending", "verified"}] BY DEF TypeOK
<1>4. removed \in SUBSET there BY DEF Prunable
<1>5. (there \ removed) \ waiting = verified'
  BY <1>1, <1>3, <1>4 DEF verified
<1>6. \A b \in removed : isExpired(b, bucket) \/ Replaced(b, verified')
  <2> SUFFICES ASSUME NEW b \in removed PROVE isExpired(b, bucket) \/ Replaced(b, verified')
    OBVIOUS
  <2>1. there \in SUBSET Bundle OBVIOUS
  <2>2. \/ isExpired(b, bucket)
        \/ \E c \in (there \ removed) \ waiting : SameWallet(c, b) /\ Beats(c, b)
    BY <2>1, <1>2, PrunedIsCovered
  <2> QED BY <2>2, <1>5 DEF Replaced
<1>7. verified' = verified \ removed BY <1>1, <1>3 DEF verified
<1>8. winners' = winners
  <2>1. verified \in SUBSET Bundle BY DEF verified
  <2>2. \A b \in verified \ verified' :
           isExpired(b, bucket) \/ \E c \in verified' : SameWallet(c, b) /\ Beats(c, b)
    BY <1>6, <1>7 DEF Replaced
  <2>3. currentEntries(verified', bucket) = currentEntries(verified, bucket)
    BY <2>1, <2>2, <1>2, <1>7, CoveredReduction
  <2> QED BY <2>3, <1>1 DEF winners
<1>9. pruned' = pruned \cup ({b \in removed : ~ isExpired(b, bucket)} \cap onPaper)
  BY DEF Prune
<1> QED BY <1>1, <1>3, <1>6, <1>7, <1>8, <1>9

\* Steps that begin and end no encode, and change winners only by marking the state changed.
LEMMA RecordStays ==
  ASSUME RecordInv, raced => raced', bucket' = bucket,
         \A u \in Task : Writing(u)' => tasks'[u] = tasks[u],
         rootRecordCache' = NoRecord
           \/ (/\ rootRecordCache' = rootRecordCache
               /\ (encoding => encoding') /\ (stale => stale')),
         checkpointDirty' \/ ((checkpointDirty' <=> checkpointDirty) /\ winners' = winners)
  PROVE  RecordInv'
<1>1. \A u \in Task : tasks'[u].pc = "encode" => tasks'[u] = tasks[u]
  BY DEF Writing
<1>2. NotAhead'
  BY <1>1 DEF RecordInv, NotAhead
<1>3. SUFFICES ASSUME ~ raced' PROVE (OneWrites /\ EncodesCurrent /\ RecordIsCurrent)'
  BY <1>2 DEF RecordInv
<1>4. OneWrites /\ EncodesCurrent /\ RecordIsCurrent /\ ~ raced
  BY <1>3 DEF RecordInv
<1>5. \A u \in Task : Writing(u)' => Writing(u)
  BY DEF Writing
<1>6. OneWrites' BY <1>4, <1>5 DEF OneWrites
<1>7. EncodesCurrent' BY <1>1, <1>4 DEF EncodesCurrent
<1>8. RecordIsCurrent' BY <1>4 DEF RecordIsCurrent, cacheUsable
<1> QED BY <1>6, <1>7, <1>8

LEMMA InitRecord == Init => RecordInv
BY DEF Init, RecordInv, NotAhead, OneWrites, Writing, EncodesCurrent, RecordIsCurrent,
       cacheUsable, IdleTask

LEMMA RootRecordKeepsRecord ==
  ASSUME TypeOK, RecordInv, NEW t \in Task, RootRecord(t)
  PROVE  RecordInv'
<1> USE DEF engine
<1>1. tasks \in Tasks BY CallsTyped
<1>2. /\ UNCHANGED <<bucket, rootRecordCache, checks>>
      /\ stale' = stale
      /\ raced' = (raced \/ Overlaps(t) \/ (cacheUsable /\ stale))
      /\ \A u \in Task \ {t} : tasks'[u] = tasks[u]
  BY <1>1 DEF RootRecord, Tasks
<1>3. winners' = winners BY <1>2 DEF winners, verified
<1>4. bucket \in Nat BY CriteriaAssumption DEF TypeOK
<1>5. tasks'[t].pc = "encode" => /\ tasks'[t].winners = winners /\ tasks'[t].bucket = bucket
                                 /\ ~ cacheUsable
  <2>1. CASE cacheUsable
    <3>1. tasks'[t] = [IdleTask EXCEPT !.pc = "store", !.winners = rootRecordCache.winners]
      BY <2>1, <1>1 DEF RootRecord, Tasks
    <3> QED BY <3>1 DEF IdleTask
  <2>2. CASE ~ cacheUsable
    <3>1. tasks'[t] = [pc |-> "encode", winners |-> winners, bucket |-> bucket]
      BY <2>2, <1>1 DEF RootRecord, Tasks
    <3> QED BY <2>2, <3>1
  <2> QED BY <2>1, <2>2
<1>6. NotAhead'
  BY <1>2, <1>4, <1>5 DEF RecordInv, NotAhead
<1>7. SUFFICES ASSUME ~ raced' PROVE (OneWrites /\ EncodesCurrent /\ RecordIsCurrent)'
  BY <1>6 DEF RecordInv
<1>8. OneWrites /\ EncodesCurrent /\ RecordIsCurrent /\ ~ raced /\ ~ Overlaps(t)
  BY <1>7, <1>2 DEF RecordInv
<1>9. \A u \in Task \ {t} : ~ Writing(u)' /\ ~ Writing(u)
  BY <1>2, <1>8 DEF Overlaps, Writing
<1>10. OneWrites' BY <1>9 DEF OneWrites
<1>11. EncodesCurrent'
  BY <1>2, <1>3, <1>5, <1>9 DEF EncodesCurrent, Writing
<1>12. RecordIsCurrent'
  <2>1. tasks[t].pc \in {"idle", "begin"} BY DEF RootRecord
  <2>2. ~ encoding BY <2>1, <1>9 DEF encoding, Writing
  <2>3. CASE tasks'[t].pc = "encode" BY <2>3 DEF RecordIsCurrent, encoding
  <2>4. CASE tasks'[t].pc # "encode"
    <3>1. cacheUsable BY <2>4, <1>1 DEF RootRecord, Tasks, TaskState
    <3> QED BY <3>1, <2>2, <1>2, <1>3, <1>8 DEF RecordIsCurrent
  <2> QED BY <2>3, <2>4
<1> QED BY <1>10, <1>11, <1>12

LEMMA EncodedKeepsRecord ==
  ASSUME TypeOK, RecordInv, NEW t \in Task, Encoded(t)
  PROVE  RecordInv'
<1> USE DEF engine, history
<1>1. tasks \in Tasks BY CallsTyped
<1>2. /\ UNCHANGED <<bucket, checkpointDirty, checks, raced>>
      /\ tasks[t].pc = "encode"
      /\ rootRecordCache' = [winners |-> tasks[t].winners, bucket |-> tasks[t].bucket]
      /\ \A u \in Task \ {t} : tasks'[u] = tasks[u]
      /\ tasks'[t].pc # "encode"
  BY <1>1 DEF Encoded, AfterRecord, IdleTask, Tasks
<1>3. winners' = winners BY <1>2 DEF winners, verified
<1>4. NotAhead'
  BY <1>2 DEF RecordInv, NotAhead
<1>5. SUFFICES ASSUME ~ raced' PROVE (OneWrites /\ EncodesCurrent /\ RecordIsCurrent)'
  BY <1>4 DEF RecordInv
<1>6. OneWrites /\ EncodesCurrent /\ RecordIsCurrent
  BY <1>5, <1>2 DEF RecordInv
<1>7. \A u \in Task \ {t} : ~ Writing(u)'
  BY <1>2, <1>6 DEF OneWrites, Writing
<1>8. OneWrites' BY <1>7 DEF OneWrites
<1>9. EncodesCurrent' BY <1>2, <1>7 DEF EncodesCurrent, Writing
<1>10. RecordIsCurrent'
  BY <1>2, <1>3, <1>6 DEF RecordIsCurrent, EncodesCurrent, cacheUsable
<1> QED BY <1>8, <1>9, <1>10

LEMMA StepKeepsRecord ==
  ASSUME TypeOK, RecordInv, [Next]_vars
  PROVE  RecordInv'
<1> USE DEF engine, cache, writes, restoring, history
<1>0. tasks \in Tasks BY CallsTyped
<1>1. ASSUME NEW heartbeat \in BOOLEAN, Prune(heartbeat) PROVE RecordInv'
  <2>1. UNCHANGED <<bucket, tasks, rootRecordCache, stale, raced>>
        /\ (checkpointDirty' \/ checkpointDirty' = checkpointDirty)
    BY <1>1 DEF Prune, markStateChanged
  <2>2. winners' = winners BY <1>1, PruneCovers
  <2> QED BY <2>1, <2>2, RecordStays DEF encoding
<1>2. CASE \/ \E b \in Bundle, check \in {"pending", "verified"} : Accept(b, check)
           \/ \E b \in Bundle : Settle(b) \/ Evict(b)
  <2>1. /\ UNCHANGED <<bucket, tasks, rootRecordCache, stale>> /\ (raced => raced')
        /\ checkpointDirty' \/ UNCHANGED <<checkpointDirty, checks>>
    <3>1. UNCHANGED <<bucket, tasks, rootRecordCache, stale>>
      BY <1>2 DEF Accept, Settle, Evict, markStateChanged
    <3>2. raced => raced'
      BY <1>2 DEF Accept, Settle, Evict
    <3>3. checkpointDirty' \/ UNCHANGED <<checkpointDirty, checks>>
      <4>1. CASE \E b \in Bundle, check \in {"pending", "verified"} : Accept(b, check)
        BY <4>1 DEF Accept, markStateChanged
      <4>2. CASE \E b \in Bundle : Settle(b) BY <4>2 DEF Settle, markStateChanged
      <4>3. CASE \E b \in Bundle : Evict(b) BY <4>3 DEF Evict, markStateChanged
      <4> QED BY <1>2, <4>1, <4>2, <4>3
    <3> QED BY <3>1, <3>2, <3>3
  <2>2. encoding => encoding' BY <2>1 DEF encoding
  <2>3. \A u \in Task : Writing(u)' => tasks'[u] = tasks[u] BY <2>1
  <2>4. checkpointDirty' \/ ((checkpointDirty' <=> checkpointDirty) /\ winners' = winners)
    BY <2>1 DEF winners, verified
  <2>5. rootRecordCache' = NoRecord
          \/ (rootRecordCache' = rootRecordCache /\ (encoding => encoding') /\ (stale => stale'))
    BY <2>1, <2>2
  <2> QED BY <2>1, <2>3, <2>4, <2>5, RecordStays
<1>3. CASE AdvanceBucket
  <2>1. UNCHANGED <<tasks, rootRecordCache, checkpointDirty, raced>> /\ bucket' = bucket + 1
    BY <1>3 DEF AdvanceBucket
  <2>2. /\ bucket \in Nat
        /\ \A t \in Task : tasks[t].pc = "encode" => tasks[t].bucket \in Nat
        /\ rootRecordCache # NoRecord => rootRecordCache.bucket \in Nat
    BY <1>0, CriteriaAssumption DEF TypeOK, Tasks, TaskState
  <2>3. /\ \A t \in Task : tasks[t].pc = "encode" => tasks[t].bucket < bucket'
        /\ rootRecordCache # NoRecord => rootRecordCache.bucket < bucket'
    BY <2>1, <2>2 DEF RecordInv, NotAhead
  <2>4. NotAhead' /\ EncodesCurrent' /\ RecordIsCurrent'
    BY <2>1, <2>2, <2>3 DEF NotAhead, EncodesCurrent, RecordIsCurrent, cacheUsable
  <2> QED BY <2>1, <2>4 DEF RecordInv, OneWrites, Writing
<1>4. ASSUME NEW t \in Task, TaskStep(t) PROVE RecordInv'
  <2>1. CASE RootRecord(t) BY <2>1, RootRecordKeepsRecord
  <2>2. CASE Encoded(t) BY <2>2, EncodedKeepsRecord
  <2>3. CASE SnapshotTimerFires(t) \/ Store(t) \/ (TaskThrows(t) /\ tasks[t].pc # "encode")
    <3>1. UNCHANGED <<bucket, checks, rootRecordCache, checkpointDirty>>
      BY <2>3 DEF SnapshotTimerFires, Store, TaskThrows
    <3>7. raced => raced'
      BY <2>3 DEF SnapshotTimerFires, Store, TaskThrows
    <3>8. stale => stale'
      BY <2>3 DEF SnapshotTimerFires, Store, TaskThrows
    <3>2. tasks[t].pc # "encode" /\ (tasks' = tasks \/ tasks'[t].pc \in {"idle", "begin"})
      BY <2>3, <1>0 DEF SnapshotTimerFires, Store, TaskThrows, IdleTask, Tasks, TaskState
    <3>3. \A u \in Task \ {t} : tasks'[u] = tasks[u]
      BY <2>3, <1>0 DEF SnapshotTimerFires, Store, TaskThrows, Tasks
    <3>4. \A u \in Task : Writing(u)' => tasks'[u] = tasks[u] BY <3>2, <3>3 DEF Writing
    <3>5. encoding => encoding' BY <3>2, <3>3 DEF encoding
    <3>6. winners' = winners BY <3>1 DEF winners, verified
    <3> QED BY <3>1, <3>4, <3>5, <3>6, <3>7, <3>8, RecordStays
  <2>4. CASE TaskThrows(t) /\ tasks[t].pc = "encode"
    <3>1. /\ UNCHANGED <<bucket, checks, rootRecordCache, checkpointDirty, raced>> /\ stale'
          /\ winners' = winners
      BY <2>4 DEF TaskThrows, winners, verified
    <3>2. \A u \in Task : Writing(u)' => tasks'[u] = tasks[u]
      BY <2>4, <1>0 DEF TaskThrows, Tasks, Writing, IdleTask
    <3>3. NotAhead' BY <3>1, <3>2 DEF RecordInv, NotAhead, Writing
    <3>4. OneWrites => OneWrites' BY <3>2 DEF OneWrites, Writing
    <3>5. EncodesCurrent => EncodesCurrent' BY <3>1, <3>2 DEF EncodesCurrent, Writing
    <3>6. RecordIsCurrent' BY <3>1 DEF RecordIsCurrent
    <3> QED BY <3>1, <3>3, <3>4, <3>5, <3>6 DEF RecordInv
  <2> QED BY <1>4, <2>1, <2>2, <2>3, <2>4 DEF TaskStep
<1>5. ASSUME NEW r \in Restorer, RestoreStep(r) PROVE RecordInv'
  <2>1. UNCHANGED <<bucket, tasks>>
    BY <1>5 DEF RestoreStep, Join, RestoreRead, RestoreBacklogs, RestoreAdmits, RestoreDone,
                RestoreTimerFires, RestoreNext
  <2>4. raced => raced'
    BY <1>5 DEF RestoreStep, Join, RestoreRead, RestoreBacklogs, RestoreAdmits, RestoreDone,
                RestoreTimerFires, RestoreNext
  <2>5. stale => stale'
    BY <1>5 DEF RestoreStep, Join, RestoreRead, RestoreBacklogs, RestoreAdmits, RestoreDone,
                RestoreTimerFires, RestoreNext
  <2>2. CASE raced'
    <3>1. NotAhead'
      BY <1>5, <2>1 DEF RecordInv, NotAhead, RestoreStep, Join, RestoreRead, RestoreBacklogs,
                RestoreAdmits, RestoreDone, RestoreTimerFires, RestoreNext
    <3> QED BY <2>2, <3>1 DEF RecordInv
  <2>3. CASE ~ raced'
    <3>1. rootRecordCache' = NoRecord \/ rootRecordCache' = rootRecordCache
      BY <1>5 DEF RestoreStep, Join, RestoreRead, RestoreBacklogs, RestoreAdmits, RestoreDone,
                RestoreTimerFires, RestoreNext
    <3>2. checkpointDirty' \/ (checkpointDirty' <=> checkpointDirty)
      BY <1>5 DEF TypeOK, RestoreStep, Join, RestoreRead, RestoreBacklogs, RestoreAdmits,
                RestoreDone, RestoreTimerFires, RestoreNext
    <3>3. verified' = verified
      <4>1. CASE RestoreAdmits(r)
        BY <4>1, <2>3 DEF RestoreAdmits, verified, TypeOK
      <4>2. CASE ~ RestoreAdmits(r)
        BY <1>5, <4>2 DEF RestoreStep, Join, RestoreRead, RestoreBacklogs, RestoreDone,
                RestoreTimerFires, RestoreNext, verified
      <4> QED BY <4>1, <4>2
    <3>4. winners' = winners BY <2>1, <3>3 DEF winners
    <3>5. encoding => encoding' BY <2>1 DEF encoding
    <3> QED BY <2>1, <2>4, <2>5, <3>1, <3>2, <3>4, <3>5, RecordStays
  <2> QED BY <2>2, <2>3
<1>6. CASE LeaveUnflushed \/ LeaveFlushes \/ LeaveFlushed \/ UNCHANGED vars
  <2>1. UNCHANGED <<bucket, checks, rootRecordCache, checkpointDirty>>
    BY <1>6 DEF LeaveUnflushed, LeaveFlushes, LeaveFlushed, Left, vars
  <2>4. raced => raced'
    BY <1>6 DEF LeaveUnflushed, LeaveFlushes, LeaveFlushed, Left, vars
  <2>5. stale => stale'
    BY <1>6 DEF LeaveUnflushed, LeaveFlushes, LeaveFlushed, Left, vars
  <2>2. /\ \A u \in Task : Writing(u)' => tasks'[u] = tasks[u]
        /\ encoding => encoding'
    <3>1. CASE UNCHANGED tasks BY <3>1 DEF encoding
    <3>2. CASE LeaveFlushes
      <4>1. tasks[Leaver].pc = "idle" /\ tasks'[Leaver].pc = "begin"
            /\ \A u \in Task \ {Leaver} : tasks'[u] = tasks[u]
        BY <3>2, <1>0 DEF LeaveFlushes, Tasks, TaskState, Task
      <4> QED BY <4>1 DEF Writing, encoding
    <3> QED BY <1>6, <3>1, <3>2 DEF LeaveUnflushed, LeaveFlushed, vars
  <2>3. winners' = winners BY <2>1 DEF winners, verified
  <2> QED BY <2>1, <2>2, <2>3, <2>4, <2>5, RecordStays
<1>7. CASE Crash
  <2>1. bucket' = bucket /\ rootRecordCache' = NoRecord /\ checkpointDirty'
    BY <1>7 DEF Crash
  <2>2. \A u \in Task : ~ Writing(u)' BY <1>7 DEF Crash, Writing, IdleTask
  <2>3. raced => raced' BY <1>7 DEF Crash
  <2>6. checkpointDirty' \/ ((checkpointDirty' <=> checkpointDirty) /\ winners' = winners) BY <2>1
  <2> QED BY <2>1, <2>2, <2>3, <2>6, RecordStays
<1> QED BY <1>1, <1>2, <1>3, <1>4, <1>5, <1>6, <1>7 DEF Next

(* Until two record calls race, what a voter serves and heartbeats without *)
(* encoding again is its current winners: nothing changes between the      *)
(* moment the dirty flag is consumed and the moment the record is cached   *)
(* that does not raise the flag again.  The one exception is a failed      *)
(* block write, which leaves the flag down over the older record until the *)
(* next encode comes through.                                              *)
THEOREM RecordStaysCurrent == Spec => []RecordIsCurrent
<1>1. TypeOK /\ RecordInv /\ [Next]_vars => (TypeOK /\ RecordInv)'
  BY StepTyped, StepKeepsRecord
<1>2. RecordInv => RecordIsCurrent BY DEF RecordInv, RecordIsCurrent
<1> QED BY InitTyped, InitRecord, <1>1, <1>2, PTL DEF Spec

----------------------------------------------------------------------------
(* What a write leaves out.                                                *)

\* b is verified, or nothing is lost without it
HeldNow(b) == isExpired(b, bucket) \/ b \in verified \/ Replaced(b, verified)

\* What beats a replaced bundle's replacement beats the bundle.
LEMMA ReplacedOnward ==
  ASSUME NEW b \in Bundle, NEW c \in Bundle, NEW S \in SUBSET Bundle, NEW k \in Nat,
         SameWallet(c, b), Beats(c, b),
         isExpired(c, k) \/ c \in S \/ Replaced(c, S)
  PROVE  isExpired(b, k) \/ Replaced(b, S)
<1>1. CASE isExpired(c, k) BY <1>1, BeatenExpiresFirst
<1>2. CASE c \in S BY <1>2 DEF Replaced
<1>3. CASE Replaced(c, S)
  <2>1. PICK d \in S : SameWallet(d, c) /\ Beats(d, c) BY <1>3 DEF Replaced
  <2>2. SameWallet(d, b) BY <2>1 DEF SameWallet
  <2>3. Beats(d, b) BY <2>1, BeatsTransitive
  <2> QED BY <2>2, <2>3 DEF Replaced
<1> QED BY <1>1, <1>2, <1>3

\* The current winners stand for everything verified.
LEMMA WinnersCover ==
  ASSUME TypeOK, NEW b \in Bundle, HeldNow(b)
  PROVE  isExpired(b, bucket) \/ b \in winners \/ Replaced(b, winners)
<1>1. bucket \in Nat BY CriteriaAssumption DEF TypeOK
<1>2. verified \in SUBSET Bundle /\ winners \in SUBSET Bundle BY WinnersAreBundles
<1>3. ASSUME NEW c \in verified
      PROVE  isExpired(c, bucket) \/ c \in winners \/ Replaced(c, winners)
  <2>1. CASE c \in winnersByWallet(verified) BY <2>1 DEF winners, currentEntries
  <2>2. CASE c \notin winnersByWallet(verified)
    <3>1. PICK w \in winnersByWallet(verified) : SameWallet(w, c) /\ Beats(w, c)
      BY <2>2, <1>2, WinnerAbove
    <3>2. w \in Bundle /\ c \in Bundle BY <1>2 DEF winnersByWallet
    <3>3. isExpired(w, bucket) \/ w \in winners BY DEF winners, currentEntries
    <3> QED BY <1>1, <1>2, <3>1, <3>2, <3>3, ReplacedOnward
  <2> QED BY <2>1, <2>2
<1>4. CASE Replaced(b, verified)
  <2>1. PICK c \in verified : SameWallet(c, b) /\ Beats(c, b) BY <1>4 DEF Replaced
  <2>2. c \in Bundle BY <1>2
  <2>3. isExpired(c, bucket) \/ c \in winners \/ Replaced(c, winners) BY <1>3
  <2> QED BY <1>1, <1>2, <2>1, <2>2, <2>3, ReplacedOnward
<1> QED BY <1>3, <1>4 DEF HeldNow

LEMMA RacesAreKept == ASSUME [Next]_vars, raced PROVE raced'
<1> USE DEF engine, cache, writes, restoring, history, vars
<1>1. ASSUME NEW t \in Task, TaskStep(t) PROVE raced'
  BY <1>1 DEF TaskStep, RootRecord, Encoded, SnapshotTimerFires, Store, TaskThrows
<1>2. ASSUME NEW r \in Restorer, RestoreStep(r) PROVE raced'
  BY <1>2 DEF RestoreStep, Join, RestoreRead, RestoreBacklogs, RestoreAdmits, RestoreDone,
              RestoreTimerFires, RestoreNext
<1> QED BY <1>1, <1>2 DEF Next, Accept, Settle, Evict, Prune, AdvanceBucket, LeaveUnflushed,
                          LeaveFlushes, LeaveFlushed, Left, Crash

LEMMA PaperIsBundles ==
  TypeOK => persisted \in SUBSET Bundle /\ onPaper \in SUBSET Bundle
<1> SUFFICES ASSUME TypeOK PROVE persisted \in SUBSET Bundle /\ onPaper \in SUBSET Bundle
  OBVIOUS
<1>1. persisted \in SUBSET Bundle BY DEF TypeOK, persisted
<1>2. \A t \in Task : tasks[t].winners \in SUBSET Bundle BY CallsTyped DEF Tasks, TaskState
<1> QED BY <1>1, <1>2 DEF onPaper

\* Steps that leave the checks and the two histories alone; the bucket may advance.
LEMMA CoverIsKept ==
  ASSUME TypeOK, TypeOK', NEW b \in Bundle, bucket' = bucket \/ bucket' = bucket + 1,
         checks' = checks, pruned \subseteq pruned', dropped \subseteq dropped'
  PROVE  (Covered(b) => Covered(b)') /\ (Settled(b) => Settled(b)')
<1>1. bucket \in Nat /\ bucket' \in Nat BY CriteriaAssumption DEF TypeOK
<1>2. isExpired(b, bucket) => isExpired(b, bucket') BY <1>1, ExpiredStays
<1>3. held' = held /\ verified' = verified BY DEF held, verified
<1> QED BY <1>2, <1>3 DEF Covered, Settled, Replaced

\* A bundle is admitted, by gossip, a chase, a publish or a restore.
LEMMA AdmissionKeepsCover ==
  ASSUME TypeOK, TypeOK', NEW x \in Bundle, NEW check \in {"pending", "verified"},
         checks' = [checks EXCEPT ![x] = check], pruned' = pruned \ {x},
         bucket' = bucket, dropped' = dropped, NEW b \in onPaper
  PROVE  /\ Covered(b) => Covered(b)'
         /\ (check = "pending" => x \notin onPaper \cup verified) /\ Settled(b) => Settled(b)'
<1>1. b \in Bundle BY PaperIsBundles
<1>2. /\ held' = held \cup {x}
      /\ verified' = IF check = "verified" THEN verified \cup {x} ELSE verified \ {x}
  BY DEF held, verified, TypeOK
<1>3. Covered(b) => Covered(b)' BY <1>2 DEF Covered, Replaced
<1>4. ASSUME check = "pending" => x \notin onPaper \cup verified, Settled(b)
      PROVE  Settled(b)'
  <2>1. verified \subseteq verified' BY <1>2, <1>4
  <2>2. CASE b = x BY <1>2, <1>4, <2>2 DEF Settled
  <2>3. CASE b # x
    <3>1. b \in held' => b \in held BY <1>2, <2>3
    <3>2. b \in pruned => b \in pruned' BY <2>3
    <3> QED BY <1>4, <2>1, <3>1, <3>2 DEF Settled, Replaced
  <2> QED BY <2>2, <2>3
<1> QED BY <1>3, <1>4

LEMMA SettlementKeepsCover ==
  ASSUME TypeOK, TypeOK', NEW x \in Bundle, Settle(x), NEW b \in Bundle
  PROVE  (Covered(b) => Covered(b)') /\ (Settled(b) => Settled(b)')
<1>1. UNCHANGED <<bucket, dropped, pruned>> BY DEF Settle, history
<1>2. held' = held /\ verified \subseteq verified' BY DEF Settle, held, verified, TypeOK
<1> QED BY <1>1, <1>2 DEF Covered, Settled, Replaced

\* What an eviction bereaves of its only beater is remembered as lost to a refusal.
LEMMA EvictionKeepsCover ==
  ASSUME TypeOK, TypeOK', NEW x \in Bundle, Evict(x), NEW b \in onPaper
  PROVE  (Covered(b) => Covered(b)') /\ (Settled(b) => Settled(b)')
<1> DEFINE bereft == {c \in Beneath(x, pruned) : ~ Replaced(c, verified \ {x})}
<1>1. /\ UNCHANGED <<bucket, pruned>> /\ dropped' = dropped \cup ((bereft \cup {x}) \cap onPaper)
  BY DEF Evict
<1>2. held' = held \ {x} /\ verified' = verified \ {x} /\ verified' \subseteq held'
  BY DEF Evict, held, verified, TypeOK
<1>3. b \in pruned /\ ~ Replaced(b, verified') =>
        (Replaced(b, held) => Replaced(b, held') \/ b \in dropped')
  <2> SUFFICES ASSUME b \in pruned, ~ Replaced(b, verified'), Replaced(b, held)
               PROVE  Replaced(b, held') \/ b \in dropped'
    OBVIOUS
  <2>1. PICK c \in held : SameWallet(c, b) /\ Beats(c, b) BY DEF Replaced
  <2>2. CASE c # x BY <1>2, <2>1, <2>2 DEF Replaced
  <2>3. CASE c = x
    <3>1. b \in bereft BY <1>2, <2>1, <2>3 DEF Beneath
    <3> QED BY <1>1, <3>1
  <2> QED BY <2>2, <2>3
<1>4. Covered(b) => Covered(b)'
  <2>1. Replaced(b, verified') => Replaced(b, held') BY <1>2 DEF Replaced
  <2>2. b \in held => b \in held' \/ b \in dropped' BY <1>1, <1>2
  <2> QED BY <1>1, <1>3, <2>1, <2>2 DEF Covered
<1>5. Settled(b) => Settled(b)'
  <2>1. verified \subseteq held BY DEF verified, held
  <2>2. b \in verified => b \in verified' \/ (b \in dropped' /\ b \notin held')
    BY <1>1, <1>2
  <2>3. b \notin held => b \notin held' BY <1>2
  <2>4. b \in pruned /\ Replaced(b, verified) => Replaced(b, verified') \/ b \in dropped'
    <3> SUFFICES ASSUME b \in pruned, Replaced(b, verified), ~ Replaced(b, verified')
                 PROVE  b \in dropped'
      OBVIOUS
    <3>1. PICK c \in verified : SameWallet(c, b) /\ Beats(c, b) BY DEF Replaced
    <3>2. c = x BY <1>2, <3>1 DEF Replaced
    <3>3. b \in bereft BY <1>2, <3>1, <3>2 DEF Beneath
    <3> QED BY <1>1, <3>3
  <2> QED BY <1>1, <2>2, <2>3, <2>4 DEF Settled
<1> QED BY <1>4, <1>5

LEMMA PruneKeepsCover ==
  ASSUME TypeOK, TypeOK', NEW heartbeat \in BOOLEAN, Prune(heartbeat), NEW b \in onPaper
  PROVE  (Covered(b) => Covered(b)') /\ (Settled(b) => Settled(b)')
<1>1. bucket' = bucket /\ dropped' = dropped /\ pruned \subseteq pruned' BY DEF Prune
<1>2. b \in Bundle BY PaperIsBundles
<1>3. bucket \in Nat BY CriteriaAssumption DEF TypeOK
<1>4. verified' \in SUBSET Bundle /\ verified' \subseteq held' /\ verified \subseteq held
  BY DEF verified, held
<1>5. \A c \in held : \/ c \in held' /\ checks'[c] = checks[c]
                      \/ isExpired(c, bucket) \/ Replaced(c, verified')
  BY PruneCovers DEF held
<1>6. b \in held => \/ b \in held' /\ checks'[b] = checks[b]
                    \/ isExpired(b, bucket) \/ (b \in pruned' /\ Replaced(b, verified'))
  BY <1>2, PruneCovers DEF held
<1>7. held' \subseteq held BY PruneCovers DEF held
<1>8. \A S \in SUBSET held : Replaced(b, S) =>
        \/ isExpired(b, bucket) \/ Replaced(b, verified')
        \/ \E c \in S : c \in held' /\ checks'[c] = checks[c] /\ SameWallet(c, b) /\ Beats(c, b)
  <2> SUFFICES ASSUME NEW S \in SUBSET held, NEW c \in S, SameWallet(c, b), Beats(c, b),
                      isExpired(c, bucket) \/ Replaced(c, verified')
               PROVE  isExpired(b, bucket) \/ Replaced(b, verified')
    BY <1>5 DEF Replaced
  <2>1. c \in Bundle BY DEF held
  <2> QED BY <1>2, <1>3, <1>4, <2>1, ReplacedOnward
<1>9. Covered(b) => Covered(b)'
  <2>1. Replaced(b, held) => isExpired(b, bucket) \/ Replaced(b, held')
    <3>1. Replaced(b, verified') => Replaced(b, held') BY <1>4 DEF Replaced
    <3> QED BY <1>8, <3>1 DEF Replaced
  <2>2. Replaced(b, verified') => Replaced(b, held') BY <1>4 DEF Replaced
  <2> QED BY <1>1, <1>6, <2>1, <2>2 DEF Covered
<1>10. Settled(b) => Settled(b)'
  <2>1. \A c \in verified : c \in held' /\ checks'[c] = checks[c] => c \in verified'
    BY DEF verified
  <2>2. Replaced(b, verified) => isExpired(b, bucket) \/ Replaced(b, verified')
    BY <1>4, <1>8, <2>1 DEF Replaced
  <2>3. b \in verified => \/ b \in verified' \/ isExpired(b, bucket)
                          \/ (b \notin held' /\ b \in pruned' /\ Replaced(b, verified'))
    <3>1. SUFFICES ASSUME b \in verified, b \notin verified', ~ isExpired(b, bucket)
                   PROVE  b \notin held' /\ b \in pruned' /\ Replaced(b, verified')
      OBVIOUS
    <3>2. ~ (b \in held' /\ checks'[b] = checks[b]) BY <2>1, <3>1
    <3>3. b \in held' => checks'[b] = checks[b] BY <1>2, PruneCovers DEF held
    <3> QED BY <1>4, <1>6, <3>1, <3>2, <3>3
  <2> QED BY <1>1, <1>7, <2>2, <2>3 DEF Settled
<1> QED BY <1>9, <1>10


----------------------------------------------------------------------------
\* A restore step leaves the other runs alone, and is one of a run in progress or starts one.
LEMMA OneRunSteps ==
  ASSUME TypeOK, NEW r \in Restorer, RestoreStep(r)
  PROVE  \A s \in Restorer \ {r} : restores'[s] = restores[s]
<1>1. restores \in Runs BY CallsTyped
<1>2. ASSUME NEW b \in Bundle, RestoreNext(r, b)
      PROVE  \A s \in Restorer \ {r} : restores'[s] = restores[s]
  BY <1>1, <1>2 DEF RestoreNext, Runs
<1> QED BY <1>1, <1>2 DEF RestoreStep, Join, RestoreRead, RestoreBacklogs, RestoreAdmits,
                          RestoreDone, RestoreTimerFires, Runs

LEMMA OthersIdle ==
  ASSUME RestoresInTurn, NEW r \in Restorer, restores[r].pc # "idle"
  PROVE  \A s \in Restorer \ {r} : restores[s] = IdleRestore
BY DEF RestoresInTurn

LEMMA RestoreStaysInTurn ==
  ASSUME TypeOK, RestoresInTurn, NEW r \in Restorer, RestoreStep(r), ~ raced'
  PROVE  RestoresInTurn'
<1> USE DEF engine, cache, writes, restoring, history
<1>1. restores \in Runs /\ restores[r] \in RunState BY CallsTyped DEF Runs
<1>2. \A s \in Restorer \ {r} : restores'[s] = restores[s] BY OneRunSteps
<1>3. CASE Join(r)
  <2>1. ~ restoreRunning /\ ~ restoreTimer /\ ~ leaving
    BY <1>3 DEF Join, RestoresInTurn, TypeOK
  <2>2. \A s \in Restorer \ {r} : restores'[s].pc = "idle" /\ restores'[s] = IdleRestore
    BY <2>1, <1>2 DEF restoreRunning, RestoresInTurn
  <2>3. restores'[r].pc = "read" BY <1>3, <1>1 DEF Join, Runs, RunState
  <2>4. UNCHANGED <<restoreTimer, leaving>> BY <1>3 DEF Join
  <2> QED BY <2>1, <2>2, <2>3, <2>4 DEF RestoresInTurn
<1>4. CASE RestoreTimerFires(r)
  <2>1. joined /\ ~ restoreRunning BY <1>4 DEF RestoreTimerFires, RestoresInTurn
  <2>2. ~ restoreTimer' /\ UNCHANGED <<restoreBacklog, leaving>>
    BY <1>4 DEF RestoreTimerFires
  <2>3. \A s \in Restorer \ {r} : restores'[s].pc = "idle" /\ restores'[s] = IdleRestore
    BY <2>1, <1>2 DEF restoreRunning, RestoresInTurn
  <2>4. CASE restoreBacklog # {}
    <3>1. restores'[r].pc = "admit"
      BY <1>4, <2>1, <2>4, <1>1 DEF RestoreTimerFires, Runs, RunState
    <3>2. ~ leaving BY <2>4 DEF RestoresInTurn
    <3> QED BY <2>2, <2>3, <3>1, <3>2 DEF RestoresInTurn
  <2>5. CASE restoreBacklog = {}
    <3>1. restores' = restores BY <1>4, <2>5 DEF RestoreTimerFires
    <3> QED BY <2>2, <3>1 DEF RestoresInTurn, restoreRunning
  <2> QED BY <2>4, <2>5
<1>5. CASE ~ Join(r) /\ ~ RestoreTimerFires(r)
  <2>1. restores[r].pc # "idle"
    <3>1. restores[r].at # NoBundle => restores[r].pc # "idle"
      BY DEF RestoresInTurn, IdleRestore
    <3> QED BY <1>5, <3>1 DEF RestoreStep, RestoreRead, RestoreBacklogs, RestoreAdmits, RestoreDone,
                        RestoreNext
  <2>2. \A s \in Restorer \ {r} : restores'[s] = IdleRestore
    BY <2>1, <1>2, OthersIdle
  <2>3. ~ restoreTimer /\ ~ leaving
    BY <2>1 DEF RestoresInTurn, restoreRunning
  <2>4. UNCHANGED leaving
    BY <1>5 DEF RestoreStep, RestoreRead, RestoreBacklogs, RestoreAdmits, RestoreDone,
                RestoreNext
  <2>5. restores'[r] = IdleRestore \/ (restores'[r].pc # "idle" /\ UNCHANGED restoreTimer)
    <3>1. CASE RestoreRead(r) BY <3>1, <1>1 DEF RestoreRead, Runs, RunState
    <3>2. CASE RestoreBacklogs(r) BY <3>2, <2>1, <1>1 DEF RestoreBacklogs, Runs, RunState
    <3>3. CASE RestoreAdmits(r) BY <3>3, <2>1, <1>1 DEF RestoreAdmits, Runs, RunState
    <3>4. CASE RestoreDone(r) BY <3>4, <1>1 DEF RestoreDone, Runs
    <3>5. CASE \E b \in Bundle : RestoreNext(r, b)
      <4> PICK b \in Bundle : RestoreNext(r, b) BY <3>5
      <4>1. PICK at : restores' = [restores EXCEPT ![r].todo = @ \ {b}, ![r].at = at]
        BY DEF RestoreNext
      <4>2. UNCHANGED restoreTimer BY DEF RestoreNext
      <4> QED BY <4>1, <4>2, <2>1, <1>1 DEF Runs, RunState
    <3> QED BY <1>5, <3>1, <3>2, <3>3, <3>4, <3>5 DEF RestoreStep
  <2>6. restoreTimer' => joined' /\ restores'[r] = IdleRestore
    <3>1. CASE RestoreDone(r) BY <3>1, <2>3, <1>1 DEF RestoreDone, Runs
    <3>2. CASE ~ RestoreDone(r)
      BY <1>5, <3>2, <2>3 DEF RestoreStep, RestoreRead, RestoreBacklogs, RestoreAdmits, RestoreNext
    <3> QED BY <3>1, <3>2
  <2>7. \A s \in Restorer : restores'[s] = IdleRestore \/ s = r BY <2>2
  <2>8. IdleRestore.pc = "idle" BY DEF IdleRestore
  <2> QED BY <2>3, <2>4, <2>5, <2>6, <2>7, <2>8 DEF RestoresInTurn, restoreRunning
<1> QED BY <1>3, <1>4, <1>5

LEMMA StepStaysInTurn ==
  ASSUME TypeOK, RestoresInTurn, [Next]_vars, ~ raced'
  PROVE  RestoresInTurn'
<1> USE DEF engine, cache, writes, restoring, history
<1>1. ASSUME UNCHANGED <<joined, leaving, restores, restoreBacklog, restoreTimer>>
      PROVE  RestoresInTurn'
  BY <1>1 DEF RestoresInTurn, restoreRunning
<1>2. CASE \/ \E b \in Bundle, check \in {"pending", "verified"} : Accept(b, check)
           \/ \E b \in Bundle : Settle(b) \/ Evict(b)
           \/ \E heartbeat \in BOOLEAN : Prune(heartbeat)
           \/ AdvanceBucket \/ UNCHANGED vars
  <2>1. UNCHANGED <<joined, leaving, restores, restoreBacklog, restoreTimer>>
    BY <1>2 DEF Accept, Settle, Evict, Prune, AdvanceBucket, vars
  <2> QED BY <2>1, <1>1
<1>3. ASSUME NEW t \in Task, TaskStep(t) PROVE RestoresInTurn'
  <2>1. UNCHANGED <<joined, leaving, restores, restoreBacklog, restoreTimer>>
    BY <1>3 DEF TaskStep, RootRecord, Encoded, SnapshotTimerFires, Store, TaskThrows
  <2> QED BY <2>1, <1>1
<1>4. CASE LeaveUnflushed \/ LeaveFlushed
  <2>1. restores' = restores /\ restoreTimer' = FALSE /\ leaving' = FALSE
    BY <1>4 DEF LeaveUnflushed, LeaveFlushed, Left
  <2> QED BY <2>1 DEF RestoresInTurn
<1>5. CASE LeaveFlushes
  <2>1. restoreBacklog = {} /\ ~ restoreRunning
    BY <1>5 DEF LeaveFlushes, mayWrite
  <2>2. UNCHANGED <<joined, restores, restoreBacklog, restoreTimer>>
    BY <1>5 DEF LeaveFlushes
  <2> QED BY <2>1, <2>2 DEF RestoresInTurn, restoreRunning
<1>6. CASE Crash
  <2>1. /\ \A r \in Restorer : restores'[r] = IdleRestore
        /\ restoreTimer' = FALSE /\ leaving' = FALSE
    BY <1>6 DEF Crash
  <2>2. IdleRestore.pc = "idle" BY DEF IdleRestore
  <2> QED BY <2>1, <2>2 DEF RestoresInTurn
<1> QED BY <1>2, <1>3, <1>4, <1>5, <1>6, RestoreStaysInTurn DEF Next

----------------------------------------------------------------------------
(* What a step does to the calls and to the paper.                         *)

\* A call goes on as it was, ends, takes a record, has it encoded, or is begun.
LEMMA TaskMoves ==
  ASSUME TypeOK, [Next]_vars, NEW u \in Task
  PROVE  \/ tasks'[u] = tasks[u]
         \/ tasks'[u] = IdleTask
         \/ RootRecord(u)
         \/ /\ tasks[u].pc = "encode" /\ u \notin Server /\ tasks'[u].pc = "store"
            /\ tasks'[u].winners = tasks[u].winners
         \/ /\ u \notin Server /\ tasks'[u].pc = "begin" /\ tasks'[u].winners = tasks[u].winners
            /\ mayWrite /\ ~ Fresh /\ raced' = (raced \/ restoreRunning)
            /\ UNCHANGED <<bucket, checks, dropped, pruned, snapshot>>
<1> USE DEF engine, cache, writes, restoring, history
<1>0. tasks \in Tasks BY CallsTyped
<1>1. ASSUME NEW t \in Task, TaskStep(t), t # u PROVE tasks'[u] = tasks[u]
  BY <1>0, <1>1 DEF TaskStep, RootRecord, Encoded, SnapshotTimerFires, Store, TaskThrows, Tasks
<1>2. CASE Encoded(u)
  <2>1. tasks'[u] = AfterRecord(u) BY <1>0, <1>2 DEF Encoded, Tasks
  <2> QED BY <1>2, <2>1 DEF Encoded, AfterRecord, IdleTask
<1>3. CASE SnapshotTimerFires(u) /\ tasks'[u] # tasks[u]
  <2>1. u \notin Server BY <1>3, TaskAssumption DEF SnapshotTimerFires
  <2>2. mayWrite BY <1>3 DEF SnapshotTimerFires
  <2>3. /\ tasks'[u].pc = "begin" /\ tasks'[u].winners = tasks[u].winners
        /\ raced' = (raced \/ restoreRunning)
    BY <1>0, <1>3, <2>2 DEF SnapshotTimerFires, Tasks, TaskState
  <2>4. ~ Fresh /\ UNCHANGED <<bucket, checks, dropped, pruned, snapshot>>
    BY <1>3 DEF SnapshotTimerFires, Fresh
  <2> QED BY <2>1, <2>2, <2>3, <2>4
<1>4. CASE Store(u) \/ TaskThrows(u)
  BY <1>0, <1>4 DEF Store, TaskThrows, Tasks
<1>5. CASE LeaveFlushes /\ u = Leaver
  <2>1. u \notin Server BY <1>5, TaskAssumption
  <2>2. /\ tasks'[u].pc = "begin" /\ tasks'[u].winners = tasks[u].winners
        /\ raced' = (raced \/ restoreRunning)
    BY <1>0, <1>5 DEF LeaveFlushes, Tasks, TaskState
  <2>3. mayWrite /\ ~ Fresh /\ UNCHANGED <<bucket, checks, dropped, pruned, snapshot>>
    BY <1>5 DEF LeaveFlushes, Fresh
  <2> QED BY <2>1, <2>2, <2>3
<1>6. CASE LeaveFlushes /\ u # Leaver BY <1>0, <1>6 DEF LeaveFlushes, Tasks
<1>7. CASE Crash BY <1>7 DEF Crash
<1>8. ASSUME NEW r \in Restorer, RestoreStep(r) PROVE tasks'[u] = tasks[u]
  BY <1>8 DEF RestoreStep, Join, RestoreRead, RestoreBacklogs, RestoreAdmits, RestoreDone,
              RestoreTimerFires, RestoreNext
<1>9. CASE \/ \E b \in Bundle, check \in {"pending", "verified"} : Accept(b, check)
           \/ \E b \in Bundle : Settle(b) \/ Evict(b)
           \/ \E heartbeat \in BOOLEAN : Prune(heartbeat)
           \/ AdvanceBucket \/ LeaveUnflushed \/ LeaveFlushed \/ UNCHANGED vars
  BY <1>9 DEF Accept, Settle, Evict, Prune, AdvanceBucket, LeaveUnflushed, LeaveFlushed, Left, vars
<1> QED BY <1>1, <1>2, <1>3, <1>4, <1>5, <1>6, <1>7, <1>8, <1>9 DEF Next, TaskStep

\* Only a store replaces what is persisted, or shortens the histories while the process lives.
LEMMA PaperStays ==
  ASSUME TypeOK, [Next]_vars, \A t \in Task : ~ Store(t)
  PROVE  persisted' = persisted /\ (~ Crash => dropped \subseteq dropped')
<1> USE DEF engine, cache, writes, restoring, history
<1>1. ASSUME NEW t \in Task, TaskStep(t) PROVE UNCHANGED <<snapshot, dropped>>
  BY <1>1 DEF TaskStep, RootRecord, Encoded, SnapshotTimerFires, TaskThrows
<1>2. ASSUME NEW r \in Restorer, RestoreStep(r)
      PROVE  /\ snapshot' = snapshot \/ (snapshot \in {NoRecord, Corrupt} /\ snapshot' = NoRecord)
             /\ dropped \subseteq dropped'
  BY <1>2 DEF RestoreStep, Join, RestoreRead, RestoreBacklogs, RestoreAdmits, RestoreDone,
              RestoreTimerFires, RestoreNext
<1>3. CASE \/ \E b \in Bundle, check \in {"pending", "verified"} : Accept(b, check)
           \/ \E b \in Bundle : Settle(b)
           \/ \E heartbeat \in BOOLEAN : Prune(heartbeat)
           \/ AdvanceBucket \/ LeaveUnflushed \/ LeaveFlushes \/ LeaveFlushed \/ UNCHANGED vars
  <2>1. UNCHANGED <<snapshot, dropped>>
    BY <1>3 DEF Accept, Settle, Prune, AdvanceBucket, LeaveUnflushed, LeaveFlushes,
                LeaveFlushed, Left, vars
  <2> QED BY <2>1 DEF persisted
<1>4. CASE \E b \in Bundle : Evict(b)
  <2>1. snapshot' = snapshot /\ dropped \subseteq dropped' BY <1>4 DEF Evict
  <2> QED BY <2>1 DEF persisted
<1>5. CASE Crash BY <1>5 DEF Crash, persisted
<1> QED BY <1>1, <1>2, <1>3, <1>4, <1>5 DEF Next, persisted

LEMMA StoreReplaces ==
  ASSUME TypeOK, NEW t \in Task, Store(t)
  PROVE  /\ persisted' = tasks[t].winners /\ snapshot' = tasks[t].winners
         /\ tasks'[t] = IdleTask /\ Writing(t)
         /\ \A u \in Task \ {t} : tasks'[u] = tasks[u]
         /\ onPaper' \subseteq onPaper
<1>1. tasks \in Tasks BY CallsTyped
<1>2. tasks[t].winners \in SUBSET Bundle BY <1>1 DEF Tasks, TaskState
<1>3. snapshot' = tasks[t].winners /\ persisted' = tasks[t].winners
  BY <1>2, TaskAssumption DEF Store, persisted
<1>4. tasks'[t] = IdleTask /\ Writing(t) /\ \A u \in Task \ {t} : tasks'[u] = tasks[u]
  BY <1>1 DEF Store, Tasks, Writing
<1>5. \A u \in Task : tasks'[u].winners \subseteq tasks[u].winners BY <1>4 DEF IdleTask
<1> QED BY <1>3, <1>4, <1>5 DEF onPaper

\* Unless two calls race, what is taken for a record is the current winners.
LEMMA RecordTakesWinners ==
  ASSUME TypeOK, RecordIsCurrent, NEW t \in Task, RootRecord(t), ~ raced, ~ raced'
  PROVE  /\ tasks'[t].winners = winners /\ winners \subseteq verified
         /\ t \in Server => tasks'[t].pc = "encode"
         /\ tasks'[t].pc \in {"encode", "store"}
         /\ UNCHANGED <<bucket, checks, dropped, pruned, snapshot>>
<1>1. tasks \in Tasks BY CallsTyped
<1>2. ~ Overlaps(t) /\ ~ (cacheUsable /\ stale) BY DEF RootRecord
<1>3. tasks[t].pc \in {"idle", "begin"} BY DEF RootRecord
<1>4. ~ encoding BY <1>2, <1>3 DEF Overlaps, encoding
<1>5. winners \subseteq verified BY DEF winners, currentEntries, winnersByWallet
<1>6. UNCHANGED <<bucket, checks, dropped, pruned, snapshot>> BY DEF RootRecord, engine
<1>7. CASE cacheUsable
  <2>1. tasks'[t] = [IdleTask EXCEPT !.pc = "store", !.winners = rootRecordCache.winners]
    BY <1>7, <1>1 DEF RootRecord, Tasks
  <2>2. t \notin Server BY <1>7 DEF RootRecord
  <2>3. rootRecordCache.winners = winners BY <1>2, <1>4, <1>7 DEF RecordIsCurrent
  <2> QED BY <1>5, <1>6, <2>1, <2>2, <2>3 DEF IdleTask
<1>8. CASE ~ cacheUsable
  <2>1. tasks'[t] = [pc |-> "encode", winners |-> winners, bucket |-> bucket]
    BY <1>8, <1>1 DEF RootRecord, Tasks
  <2> QED BY <1>5, <1>6, <2>1
<1> QED BY <1>7, <1>8

\* What comes on paper is verified.
LEMMA NewOnPaper ==
  ASSUME TypeOK, RecordIsCurrent, [Next]_vars, ~ raced, ~ raced'
  PROVE  /\ \A u \in Task : \A b \in tasks'[u].winners :
              b \in tasks[u].winners \/ b \in verified'
         /\ \A b \in onPaper' : b \in onPaper \/ b \in verified'
<1>1. ASSUME NEW u \in Task, NEW b \in tasks'[u].winners
      PROVE  b \in tasks[u].winners \/ b \in verified'
  <2>1. CASE RootRecord(u)
    <3>1. b \in verified /\ checks' = checks BY <1>1, <2>1, RecordTakesWinners
    <3> QED BY <3>1 DEF verified
  <2>2. CASE ~ RootRecord(u)
    <3>1. tasks'[u].winners = tasks[u].winners \/ tasks'[u] = IdleTask
      BY <2>2, TaskMoves
    <3> QED BY <1>1, <3>1 DEF IdleTask
  <2> QED BY <2>1, <2>2
<1>2. ASSUME NEW b \in persisted' PROVE b \in onPaper
  <2>1. CASE \E t \in Task : Store(t) BY <1>2, <2>1, StoreReplaces DEF onPaper
  <2>2. CASE \A t \in Task : ~ Store(t) BY <1>2, <2>2, PaperStays DEF onPaper
  <2> QED BY <2>1, <2>2
<1> QED BY <1>1, <1>2 DEF onPaper

----------------------------------------------------------------------------
(* What is on paper stays accounted for.                                   *)

\* No step but a crash loses what is on paper and covered; and while a write awaits its
\* head, none unsettles what is settled.
LEMMA CoverStays ==
  ASSUME TypeOK, TypeOK', [Next]_vars, ~ Crash, ~ raced', NEW b \in onPaper, b \in onPaper'
  PROVE  /\ Covered(b) => Covered(b)'
         /\ (\E u \in Task : tasks[u].pc = "begin") /\ Settled(b) => Settled(b)'
<1> USE DEF engine, cache, writes, restoring, history
<1>0. b \in Bundle BY PaperIsBundles
<1>1. ASSUME NEW x \in Bundle, NEW check \in {"pending", "verified"}, Accept(x, check)
      PROVE  /\ Covered(b) => Covered(b)'
             /\ (\E u \in Task : tasks[u].pc = "begin") /\ Settled(b) => Settled(b)'
  <2>1. /\ checks' = [checks EXCEPT ![x] = check] /\ pruned' = pruned \ {x}
        /\ bucket' = bucket /\ dropped' = dropped
    BY <1>1 DEF Accept
  <2>2. (\E u \in Task : tasks[u].pc = "begin") =>
           (check = "pending" => x \notin onPaper \cup verified)
    BY <1>1 DEF Accept, UnsettlesAWrite
  <2> QED BY <2>1, <2>2, AdmissionKeepsCover
<1>2. CASE \E x \in Bundle : Settle(x) BY <1>0, <1>2, SettlementKeepsCover
<1>3. CASE \E x \in Bundle : Evict(x) BY <1>3, EvictionKeepsCover
<1>4. CASE \E heartbeat \in BOOLEAN : Prune(heartbeat) BY <1>4, PruneKeepsCover
<1>5. CASE AdvanceBucket \/ LeaveUnflushed \/ LeaveFlushes \/ LeaveFlushed \/ UNCHANGED vars
  <2>1. /\ bucket' = bucket \/ bucket' = bucket + 1
        /\ UNCHANGED <<checks, pruned, dropped>>
    BY <1>5 DEF AdvanceBucket, LeaveUnflushed, LeaveFlushes, LeaveFlushed, Left, vars
  <2> QED BY <1>0, <2>1, CoverIsKept
<1>6. ASSUME NEW t \in Task, Store(t)
      PROVE  (Covered(b) => Covered(b)') /\ (Settled(b) => Settled(b)')
  <2>1. /\ UNCHANGED <<bucket, checks>> /\ pruned' = pruned \cap onPaper'
        /\ dropped' = {c \in dropped \cap onPaper' : checks[c] = "out"}
    BY <1>6 DEF Store
  <2>2. held' = held /\ verified' = verified BY <2>1 DEF held, verified
  <2>3. b \in pruned => b \in pruned' BY <2>1
  <2>4. b \in dropped => b \in held \/ b \in dropped' BY <1>0, <2>1 DEF held
  <2> QED BY <2>1, <2>2, <2>3, <2>4 DEF Covered, Settled, Replaced
<1>7. ASSUME NEW t \in Task, TaskStep(t), ~ Store(t)
      PROVE  (Covered(b) => Covered(b)') /\ (Settled(b) => Settled(b)')
  <2>1. UNCHANGED <<bucket, checks, pruned, dropped>>
    BY <1>7 DEF TaskStep, RootRecord, Encoded, SnapshotTimerFires, TaskThrows
  <2> QED BY <1>0, <2>1, CoverIsKept
<1>8. ASSUME NEW r \in Restorer, RestoreStep(r)
      PROVE  /\ Covered(b) => Covered(b)'
             /\ (\E u \in Task : tasks[u].pc = "begin") /\ Settled(b) => Settled(b)'
  <2> DEFINE x == restores[r].at
  <2>1. CASE RestoreAdmits(r) /\ x \notin offlineInvalid
    <3>1. x \in Bundle BY <2>1, CallsTyped DEF RestoreAdmits, Runs, RunState
    <3>2. /\ checks' = [checks EXCEPT ![x] = "pending"] /\ pruned' = pruned \ {x}
          /\ bucket' = bucket /\ dropped' = dropped
      BY <2>1 DEF RestoreAdmits
    <3>3. (\E u \in Task : tasks[u].pc = "begin") => x \notin onPaper \cup verified
      BY <2>1 DEF RestoreAdmits, UnsettlesAWrite
    <3> HIDE DEF x
    <3> QED BY <3>1, <3>2, <3>3, AdmissionKeepsCover
  <2>2. CASE ~ (RestoreAdmits(r) /\ x \notin offlineInvalid)
    <3>1. UNCHANGED <<bucket, checks, pruned>> /\ dropped \subseteq dropped'
      BY <1>8, <2>2 DEF RestoreStep, Join, RestoreRead, RestoreBacklogs, RestoreAdmits, RestoreDone,
                        RestoreTimerFires, RestoreNext
    <3> QED BY <1>0, <3>1, CoverIsKept
  <2> QED BY <2>1, <2>2
<1> QED BY <1>1, <1>2, <1>3, <1>4, <1>5, <1>6, <1>7, <1>8 DEF Next

LEMMA StepKeepsHeld ==
  ASSUME TypeOK, TypeOK', RecordIsCurrent, WritesWhatIsHeld, [Next]_vars, ~ raced, ~ raced'
  PROVE  WritesWhatIsHeld'
<1> SUFFICES ASSUME NEW u \in Task, NEW b \in tasks'[u].winners PROVE Covered(b)'
  BY DEF WritesWhatIsHeld
<1>1. CASE Crash
  <2>1. tasks'[u] = IdleTask BY <1>1 DEF Crash
  <2> QED BY <2>1 DEF IdleTask
<1>2. CASE ~ Crash /\ b \in tasks[u].winners
  <2>1. Covered(b) BY <1>2 DEF WritesWhatIsHeld
  <2>2. b \in onPaper /\ b \in onPaper' BY <1>2 DEF onPaper
  <2> QED BY <1>2, <2>1, <2>2, CoverStays
<1>3. CASE b \in verified'
  BY <1>3 DEF verified, held, Covered
<1> QED BY <1>1, <1>2, <1>3, NewOnPaper

\* Each persisted bundle is covered, or still to be restored: the steps that do neither.
LEMMA AccountsStay ==
  ASSUME TypeOK, TypeOK', [Next]_vars, ~ Crash, ~ raced', persisted' = persisted,
         NoneForgotten, Fresh => Fresh',
         \A b \in persisted : OwedByRestore(b) => Covered(b)' \/ OwedByRestore(b)'
  PROVE  NoneForgotten'
<1> SUFFICES ASSUME ~ Fresh, NEW b \in persisted, Covered(b) PROVE Covered(b)'
  BY DEF NoneForgotten
<1>1. b \in onPaper /\ b \in onPaper' BY DEF onPaper
<1> QED BY <1>1, CoverStays

\* Steps of a restore: each bundle of the snapshot moves on, or is refused, or stays owed.
LEMMA RestoreAccounts ==
  ASSUME TypeOK, TypeOK', [Next]_vars, ~ Crash, RestoresInTurn, NoneForgotten,
         NEW r \in Restorer, RestoreStep(r), ~ raced'
  PROVE  NoneForgotten'
<1> USE DEF engine, cache, writes, restoring, history
<1>1. restores \in Runs /\ restores[r] \in RunState BY CallsTyped DEF Runs
<1>2. \A s \in Restorer \ {r} : restores'[s] = restores[s] BY OneRunSteps
<1>3. persisted' = persisted
  <2>1. \/ snapshot' = snapshot
        \/ snapshot \in {NoRecord, Corrupt} /\ snapshot' = NoRecord
    BY DEF RestoreStep, Join, RestoreRead, RestoreBacklogs, RestoreAdmits, RestoreDone,
           RestoreTimerFires, RestoreNext
  <2> QED BY <2>1 DEF persisted
<1>4. \A b \in persisted : b \in Bundle BY PaperIsBundles
<1>5. CASE Join(r)
  <2>1. restores'[r].pc = "read" BY <1>5, <1>1 DEF Join, Runs, RunState
  <2> QED BY <2>1 DEF NoneForgotten, OwedByRestore
<1>6. ASSUME ~ Join(r) PROVE Fresh => Fresh'
  BY <1>6 DEF RestoreStep, RestoreRead, RestoreBacklogs, RestoreAdmits, RestoreDone,
              RestoreTimerFires, RestoreNext, Fresh, ScheduleSnapshotWrite
<1>7. ASSUME ~ Join(r),
             \A b \in persisted : OwedByRestore(b) => Covered(b)' \/ OwedByRestore(b)'
      PROVE  NoneForgotten'
  BY <1>3, <1>6, <1>7, AccountsStay
\* what run s still has to bring
<1> DEFINE Brings(s, b) == \/ restores[s].pc = "read"
                           \/ b \in restores[s].todo \cup restores[s].backlog \cup {restores[s].at}
           InR(b) == \/ restores'[r].pc = "read"
                     \/ b \in restores'[r].todo \cup restores'[r].backlog \cup {restores'[r].at}
<1>9. \A b \in Bundle : InR(b) => OwedByRestore(b)' BY DEF OwedByRestore
<1>10. ASSUME restores[r].pc # "idle", NEW b \in Bundle, OwedByRestore(b) PROVE Brings(r, b)
  <2>1. restoreRunning BY <1>10 DEF restoreRunning
  <2>2. PICK s \in Restorer : Brings(s, b) BY <1>10, <2>1 DEF OwedByRestore
  <2>3. CASE s = r BY <2>2, <2>3
  <2>4. CASE s # r
    <3>1. restores[s] = IdleRestore BY <1>10, <2>4, OthersIdle
    <3> QED BY <3>1, <2>2, TaskAssumption DEF IdleRestore
  <2> QED BY <2>3, <2>4
<1>11. CASE RestoreRead(r)
  <2>1. restores[r].pc = "read" BY <1>11 DEF RestoreRead
  <2>2. ~ Join(r) BY <2>1 DEF Join
  <2>3. CASE snapshot \in {NoRecord, Corrupt}
    <3>1. persisted = {} BY <2>3 DEF persisted
    <3> QED BY <3>1, <1>3 DEF NoneForgotten
  <2>4. CASE snapshot \notin {NoRecord, Corrupt}
    <3>1. restores' = [restores EXCEPT ![r].pc = "admit", ![r].todo = snapshot]
      BY <1>11, <2>4 DEF RestoreRead
    <3>2. restores'[r].todo = persisted BY <3>1, <2>4, <1>1 DEF Runs, RunState, persisted
    <3>3. \A b \in persisted : InR(b) BY <3>2
    <3> QED BY <3>3, <1>4, <1>9, <1>7, <2>2
  <2> QED BY <2>3, <2>4
<1>12. CASE RestoreBacklogs(r) \/ RestoreAdmits(r) \/ (\E c \in Bundle : RestoreNext(r, c))
            \/ RestoreDone(r)
  <2>1. restores[r].pc # "idle"
    <3>1. restores[r].at # NoBundle => restores[r].pc # "idle"
      BY DEF RestoresInTurn, IdleRestore
    <3> QED BY <1>12, <3>1 DEF RestoreBacklogs, RestoreAdmits, RestoreNext, RestoreDone
  <2>2. ~ Join(r) BY <2>1 DEF Join
  <2>3. SUFFICES ASSUME NEW b \in Bundle, b \in persisted, Brings(r, b)
                 PROVE  Covered(b)' \/ OwedByRestore(b)'
    BY <2>1, <2>2, <1>4, <1>7, <1>10
  <2>4. CASE RestoreBacklogs(r)
    <3>1. restores' = [restores EXCEPT ![r].at = NoBundle,
                                       ![r].backlog = @ \cup {restores[r].at}]
      BY <2>4 DEF RestoreBacklogs
    <3>2. /\ restores'[r].pc = restores[r].pc /\ restores'[r].todo = restores[r].todo
          /\ restores'[r].backlog = restores[r].backlog \cup {restores[r].at}
      BY <3>1, <1>1 DEF Runs, RunState
    <3>3. InR(b) BY <3>2, <2>3
    <3> QED BY <3>3, <1>9
  <2>5. CASE RestoreAdmits(r)
    <3>1. CASE b = restores[r].at
      <4>1. CASE b \in offlineInvalid
        <5>1. b \in dropped' BY <2>5, <3>1, <4>1, <2>3 DEF RestoreAdmits
        <5> QED BY <5>1 DEF Covered
      <4>2. CASE b \notin offlineInvalid
        <5>1. checks'[b] = "pending" BY <2>5, <3>1, <4>2 DEF RestoreAdmits, TypeOK
        <5> QED BY <5>1 DEF Covered, held
      <4> QED BY <4>1, <4>2
    <3>2. CASE b # restores[r].at
      <4>1. /\ restores'[r].pc = restores[r].pc /\ restores'[r].todo = restores[r].todo
            /\ restores'[r].backlog = restores[r].backlog
        BY <2>5, <1>1 DEF RestoreAdmits, Runs, RunState
      <4>2. InR(b) BY <3>2, <4>1, <2>3
      <4> QED BY <4>2, <1>9
    <3> QED BY <3>1, <3>2
  <2>6. CASE \E c \in Bundle : RestoreNext(r, c)
    <3> PICK c \in Bundle : RestoreNext(r, c) BY <2>6
    <3>1. restores[r].pc = "admit" /\ restores[r].at = NoBundle /\ checks' = checks
      BY DEF RestoreNext
    <3>2. /\ restores'[r].todo = restores[r].todo \ {c}
          /\ restores'[r].backlog = restores[r].backlog
          /\ checks[c] = "out" => restores'[r].at = c
      <4> DEFINE at == IF checks[c] = "out" THEN c ELSE NoBundle
      <4>1. restores' = [restores EXCEPT ![r].todo = @ \ {c}, ![r].at = at] BY DEF RestoreNext
      <4>2. checks[c] = "out" => at = c OBVIOUS
      <4> HIDE DEF at
      <4> QED BY <4>1, <4>2, <1>1 DEF Runs, RunState
    <3>3. CASE b # c
      <4>1. b # NoBundle BY TaskAssumption
      <4>2. InR(b) BY <3>1, <3>2, <3>3, <4>1, <2>3
      <4> QED BY <4>2, <1>9
    <3>4. CASE b = c
      <4>1. CASE checks[c] = "out"
        <5>1. InR(b) BY <3>2, <3>4, <4>1
        <5> QED BY <5>1, <1>9
      <4>2. CASE checks[c] # "out" BY <3>1, <3>4, <4>2 DEF Covered, held
      <4> QED BY <4>1, <4>2
    <3> QED BY <3>3, <3>4
  <2>7. CASE RestoreDone(r)
    <3>1. /\ restores[r].pc = "admit" /\ restores[r].at = NoBundle /\ restores[r].todo = {}
          /\ restoreBacklog' = restores[r].backlog
          /\ restores'[r] = IdleRestore
      BY <2>7, <1>1 DEF RestoreDone, Runs
    <3>2. b \in restoreBacklog' BY <3>1, <2>3, TaskAssumption
    <3>3. \A s \in Restorer : restores'[s] = IdleRestore
      BY <2>1, <3>1, <1>2, OthersIdle
    <3>4. (~ restoreRunning)' BY <3>3 DEF restoreRunning, IdleRestore
    <3> QED BY <3>2, <3>4 DEF OwedByRestore
  <2> QED BY <1>12, <2>4, <2>5, <2>6, <2>7
<1>13. CASE RestoreTimerFires(r)
  <2>1. joined /\ ~ restoreRunning BY <1>13 DEF RestoreTimerFires, RestoresInTurn
  <2>2. ~ Join(r) BY <2>1 DEF Join
  <2>3. ASSUME NEW b \in Bundle, OwedByRestore(b) PROVE InR(b)
    <3>1. \A s \in Restorer : restores[s] = IdleRestore
      BY <2>1 DEF restoreRunning, RestoresInTurn
    <3>2. b \in restoreBacklog
      BY <2>3, <3>1, TaskAssumption DEF OwedByRestore, IdleRestore
    <3>3. restores'[r].todo = restoreBacklog
      BY <3>2, <2>1, <1>13, <1>1 DEF RestoreTimerFires, Runs, RunState
    <3> QED BY <3>2, <3>3
  <2> QED BY <2>2, <2>3, <1>4, <1>7, <1>9
<1> QED BY <1>5, <1>11, <1>12, <1>13 DEF RestoreStep

\* An engine that may not write before its next join stays so until then.
LEMMA FreshStays ==
  ASSUME TypeOK, [Next]_vars, \A r \in Restorer : ~ RestoreStep(r)
  PROVE  Fresh => Fresh'
<1> USE DEF engine, cache, writes, restoring, history
<1>1. ASSUME NEW t \in Task, TaskStep(t) PROVE Fresh => Fresh'
  BY <1>1 DEF TaskStep, RootRecord, Encoded, SnapshotTimerFires, Store, TaskThrows,
              WriteFailed, ScheduleSnapshotWrite, Fresh
<1>2. CASE \/ \E b \in Bundle, check \in {"pending", "verified"} : Accept(b, check)
           \/ \E b \in Bundle : Settle(b) \/ Evict(b)
           \/ \E heartbeat \in BOOLEAN : Prune(heartbeat)
           \/ AdvanceBucket \/ UNCHANGED vars
  <2>1. joined' = joined BY <1>2 DEF Accept, Settle, Evict, Prune, AdvanceBucket, vars
  <2>2. snapshotTimer' = snapshotTimer \/ snapshotTimer' = (snapshotTimer \/ joined)
    BY <1>2 DEF Accept, Settle, Evict, Prune, AdvanceBucket, vars, markStateChanged,
                ScheduleSnapshotWrite
  <2> QED BY <2>1, <2>2 DEF Fresh
<1>3. CASE LeaveUnflushed \/ LeaveFlushes \/ LeaveFlushed \/ Crash
  BY <1>3 DEF LeaveUnflushed, LeaveFlushes, LeaveFlushed, Left, Crash, Fresh, TypeOK
<1> QED BY <1>1, <1>2, <1>3 DEF Next

\* A stored record accounts for itself, a flush leaves nothing owed behind, and after any
\* other leave nothing is written.
LEMMA StepAccounts ==
  ASSUME TypeOK, TypeOK', [Next]_vars, RestoresInTurn, NoneForgotten, WritesWhatIsHeld,
         ~ raced'
  PROVE  NoneForgotten'
<1> USE DEF engine, cache, writes, restoring, history
<1>1. CASE LeaveUnflushed \/ Crash
  <2>1. Fresh' BY <1>1 DEF LeaveUnflushed, Left, Crash, Fresh
  <2> QED BY <2>1 DEF NoneForgotten
<1>2. CASE ~ Crash /\ \E r \in Restorer : RestoreStep(r) BY <1>2, RestoreAccounts
<1>3. CASE ~ Crash /\ \E t \in Task : Store(t)
  <2> PICK t \in Task : Store(t) BY <1>3
  <2> SUFFICES ASSUME NEW b \in persisted' PROVE Covered(b)'
    BY DEF NoneForgotten
  <2>1. b \in tasks[t].winners BY StoreReplaces
  <2>2. Covered(b) BY <2>1 DEF WritesWhatIsHeld
  <2>3. b \in onPaper /\ b \in onPaper' BY <2>1 DEF onPaper
  <2> QED BY <1>3, <2>2, <2>3, CoverStays
<1>4. CASE /\ ~ Crash /\ ~ LeaveUnflushed
           /\ \A r \in Restorer : ~ RestoreStep(r)
           /\ \A t \in Task : ~ Store(t)
  <2>1. persisted' = persisted BY <1>4, PaperStays
  <2>2. UNCHANGED <<restores, restoreBacklog>>
    <3>1. ASSUME NEW t \in Task, TaskStep(t) PROVE UNCHANGED <<restores, restoreBacklog>>
      BY <3>1 DEF TaskStep, RootRecord, Encoded, SnapshotTimerFires, Store, TaskThrows
    <3>2. CASE LeaveFlushed
      BY <3>2 DEF LeaveFlushed, Left, RestoresInTurn
    <3>3. CASE \/ \E b \in Bundle, check \in {"pending", "verified"} : Accept(b, check)
               \/ \E b \in Bundle : Settle(b) \/ Evict(b)
               \/ \E heartbeat \in BOOLEAN : Prune(heartbeat)
               \/ AdvanceBucket \/ LeaveFlushes \/ UNCHANGED vars
      BY <3>3 DEF Accept, Settle, Evict, Prune, AdvanceBucket, LeaveFlushes, vars
    <3> QED BY <1>4, <3>1, <3>2, <3>3 DEF Next
  <2>3. \A b \in persisted : OwedByRestore(b) => OwedByRestore(b)'
    BY <2>2 DEF OwedByRestore, restoreRunning
  <2> QED BY <1>4, <2>1, <2>3, FreshStays, AccountsStay
<1> QED BY <1>1, <1>2, <1>3, <1>4

----------------------------------------------------------------------------
(* What a write is begun with, and what it ends with.                      *)

\* A write may begin: nothing is pending and nothing is owed, so all on paper is settled.
LEMMA MayWriteSettles ==
  ASSUME TypeOK, RestoresInTurn, NoneForgotten, WritesWhatIsHeld,
         mayWrite, ~ restoreRunning, ~ Fresh
  PROVE  \A b \in onPaper : Settled(b)
<1> SUFFICES ASSUME NEW b \in onPaper PROVE Settled(b)
  OBVIOUS
<1>1. b \in Bundle BY PaperIsBundles
<1>2. held = verified BY DEF mayWrite, hasUnsettledChecks, held, verified, TypeOK
<1>3. ~ OwedByRestore(b)
  <2>1. restoreBacklog = {} BY DEF mayWrite
  <2>2. \A r \in Restorer : restores[r] = IdleRestore BY DEF restoreRunning, RestoresInTurn
  <2> QED BY <1>1, <2>1, <2>2, TaskAssumption DEF OwedByRestore, IdleRestore
<1>4. Covered(b)
  <2>1. CASE b \in persisted BY <2>1, <1>3 DEF NoneForgotten
  <2>2. CASE b \notin persisted BY <2>2 DEF onPaper, WritesWhatIsHeld
  <2> QED BY <2>1, <2>2
<1> QED BY <1>2, <1>4 DEF Covered, Settled

LEMMA BucketMoves == ASSUME [Next]_vars PROVE bucket' = bucket \/ bucket' = bucket + 1
<1> USE DEF engine, vars
<1>1. ASSUME NEW t \in Task, TaskStep(t) PROVE bucket' = bucket
  BY <1>1 DEF TaskStep, RootRecord, Encoded, SnapshotTimerFires, Store, TaskThrows
<1>2. ASSUME NEW r \in Restorer, RestoreStep(r) PROVE bucket' = bucket
  BY <1>2 DEF RestoreStep, Join, RestoreRead, RestoreBacklogs, RestoreAdmits, RestoreDone,
              RestoreTimerFires, RestoreNext
<1> QED BY <1>1, <1>2 DEF Next, Accept, Settle, Evict, Prune, AdvanceBucket, LeaveUnflushed,
                          LeaveFlushes, LeaveFlushed, Left, Crash

LEMMA StepKeepsWrites ==
  ASSUME TypeOK, TypeOK', OneWrites, RecordIsCurrent, RestoresInTurn, NoneForgotten,
         WritesWhatIsHeld, WritesWhatItShould, [Next]_vars, ~ raced, ~ raced'
  PROVE  WritesWhatItShould'
<1> SUFFICES ASSUME NEW u \in Task PROVE WritesRight(u)'
  BY DEF WritesWhatItShould
<1>0. WritesRight(u) BY DEF WritesWhatItShould
<1>1. CASE Crash
  <2>1. tasks'[u] = IdleTask BY <1>1 DEF Crash
  <2> QED BY <2>1 DEF WritesRight, Writing, IdleTask
<1>2. CASE ~ Crash
  <2>1. u \in Server => tasks'[u].pc \notin {"begin", "store"}
    <3>1. RootRecord(u) /\ u \in Server => tasks'[u].pc = "encode" BY RecordTakesWinners
    <3> QED BY <1>0, <3>1, TaskMoves DEF WritesRight, IdleTask
  <2>2. ASSUME tasks'[u].pc = "begin", NEW b \in onPaper' PROVE Settled(b)'
    <3>1. CASE b \in verified' BY <3>1 DEF Settled
    <3>2. CASE b \in onPaper /\ tasks'[u] = tasks[u]
      <4>1. Settled(b) BY <1>0, <2>2, <3>2 DEF WritesRight
      <4> QED BY <1>2, <2>2, <3>2, <4>1, CoverStays
    <3>3. CASE /\ b \in onPaper /\ mayWrite /\ ~ Fresh /\ raced' = (raced \/ restoreRunning)
               /\ UNCHANGED <<bucket, checks, dropped, pruned, snapshot>>
      <4>1. Settled(b) BY <3>3, MayWriteSettles
      <4>2. b \in Bundle BY <3>3, PaperIsBundles
      <4> QED BY <3>3, <4>1, <4>2, CoverIsKept
    <3>4. ~ RootRecord(u) BY <2>2, RecordTakesWinners
    <3> QED BY <2>2, <3>1, <3>2, <3>3, <3>4, TaskMoves, NewOnPaper DEF IdleTask
  <2>3. ASSUME u \notin Server, Writing(u)', NEW b \in persisted'
        PROVE  Excused(b, tasks[u].winners)'
    <3>1. CASE RootRecord(u)
      <4>1. /\ tasks'[u].winners = winners
            /\ UNCHANGED <<bucket, checks, dropped, pruned, snapshot>>
        BY <3>1, RecordTakesWinners
      <4>2. b \in onPaper BY <4>1 DEF persisted, onPaper
      <4>3. tasks[u].pc = "begin" BY <2>3, <3>1 DEF RootRecord
      <4>4. Settled(b) BY <1>0, <4>2, <4>3 DEF WritesRight
      <4>5. b \in dropped \/ HeldNow(b) BY <4>4 DEF Settled, HeldNow
      <4>6. b \in Bundle BY <4>2, PaperIsBundles
      <4>7. b \in dropped \/ isExpired(b, bucket) \/ b \in winners \/ Replaced(b, winners)
        BY <4>5, <4>6, WinnersCover
      <4> QED BY <4>1, <4>7 DEF Excused, Replaced
    <3>2. CASE Writing(u) /\ tasks'[u].winners = tasks[u].winners
      <4>1. \A t \in Task : ~ Store(t)
        <5> SUFFICES ASSUME NEW t \in Task, Store(t) PROVE FALSE
          OBVIOUS
        <5>1. Writing(t) /\ tasks'[t] = IdleTask BY StoreReplaces
        <5>2. t = u BY <3>2, <5>1 DEF OneWrites
        <5> QED BY <2>3, <5>1, <5>2 DEF Writing, IdleTask
      <4>2. persisted' = persisted /\ dropped \subseteq dropped' BY <1>2, <4>1, PaperStays
      <4>3. Excused(b, tasks[u].winners) BY <1>0, <2>3, <3>2, <4>2 DEF WritesRight
      <4>4. b \in Bundle BY <4>2, PaperIsBundles
      <4>5. bucket \in Nat /\ bucket' \in Nat BY CriteriaAssumption DEF TypeOK
      <4>6. isExpired(b, bucket) => isExpired(b, bucket')
        BY <4>4, <4>5, BucketMoves, ExpiredStays
      <4> QED BY <3>2, <4>2, <4>3, <4>6 DEF Excused, Replaced
    <3>3. tasks'[u].pc \in {"encode", "store"} BY <2>3 DEF Writing
    <3> QED BY <3>1, <3>2, <3>3, TaskMoves DEF Writing, IdleTask
  <2> QED BY <2>1, <2>2, <2>3 DEF WritesRight
<1> QED BY <1>1, <1>2

----------------------------------------------------------------------------
LEMMA InitKeeps == Init => KeepInv
BY DEF Init, KeepInv, RestoresInTurn, NoneForgotten, Fresh, WritesWhatItShould, WritesRight,
       WritesWhatIsHeld, Writing, IdleTask, IdleRestore, restoreRunning, Task

LEMMA StepKeeps ==
  ASSUME TypeOK, RecordInv, KeepInv, [Next]_vars
  PROVE  KeepInv'
<1> SUFFICES ASSUME ~ raced'
             PROVE  (RestoresInTurn /\ NoneForgotten /\ WritesWhatItShould /\ WritesWhatIsHeld)'
  BY DEF KeepInv
<1>1. ~ raced BY RacesAreKept
<1>2. RestoresInTurn /\ NoneForgotten /\ WritesWhatItShould /\ WritesWhatIsHeld
  BY <1>1 DEF KeepInv
<1>3. OneWrites /\ RecordIsCurrent BY <1>1 DEF RecordInv
<1>4. TypeOK' BY StepTyped
<1>5. RestoresInTurn' BY <1>2, StepStaysInTurn
<1>6. NoneForgotten' BY <1>2, <1>4, StepAccounts
<1>7. WritesWhatIsHeld' BY <1>1, <1>2, <1>3, <1>4, StepKeepsHeld
<1>8. WritesWhatItShould' BY <1>1, <1>2, <1>3, <1>4, StepKeepsWrites
<1> QED BY <1>5, <1>6, <1>7, <1>8

\* A step that replaces the snapshot leaves out only what is excused.
LEMMA StepKeepsPersisted ==
  ASSUME TypeOK, KeepInv, [Next]_vars
  PROVE  KeepsPersisted
<1> USE DEF engine, cache, writes, restoring, history
<1> SUFFICES ASSUME ~ raced, persisted # {}, NEW b \in persisted \ snapshot'
             PROVE  b \in dropped \/ isExpired(b, bucket) \/ Replaced(b, snapshot')
  BY DEF KeepsPersisted
<1>1. snapshot \notin {NoRecord, Corrupt} /\ b \in snapshot BY DEF persisted
<1>2. PICK t \in Task : Store(t)
  <2> SUFFICES ASSUME \A t \in Task : ~ Store(t) PROVE FALSE
    OBVIOUS
  <2>1. ASSUME NEW t \in Task, TaskStep(t) PROVE snapshot' = snapshot
    BY <2>1 DEF TaskStep, RootRecord, Encoded, SnapshotTimerFires, TaskThrows
  <2>2. ASSUME NEW r \in Restorer, RestoreStep(r) PROVE snapshot' = snapshot
    BY <1>1, <2>2 DEF RestoreStep, Join, RestoreRead, RestoreBacklogs, RestoreAdmits,
                      RestoreDone, RestoreTimerFires, RestoreNext
  <2>3. snapshot' # snapshot BY <1>1
  <2> QED BY <2>1, <2>2, <2>3 DEF Next, Accept, Settle, Evict, Prune, AdvanceBucket,
                                  LeaveUnflushed, LeaveFlushes, LeaveFlushed, Left, Crash, vars
<1>3. t \notin Server /\ Writing(t) /\ snapshot' = tasks[t].winners
  BY <1>2 DEF KeepInv, WritesWhatItShould, WritesRight, Store, Writing
<1>4. Excused(b, tasks[t].winners) BY <1>3 DEF KeepInv, WritesWhatItShould, WritesRight
<1> QED BY <1>3, <1>4 DEF Excused

(* A write replaces a persisted vote only by a newer one of its wallet, or *)
(* leaves out what decayed or what a refusal took, across leaves, crashes  *)
(* and re-joins, evictions of settled votes and failures of any call, up   *)
(* to the first race: a write may begin only when every persisted vote has *)
(* been restored and settled, and from there on each stays verified,       *)
(* covered by a verified vote, or remembered as refused.                   *)
THEOREM PersistedVotesAreKept == Spec => WritesKeepPersisted
<1>1. Init => TypeOK /\ RecordInv /\ KeepInv BY InitTyped, InitRecord, InitKeeps
<1>2. TypeOK /\ RecordInv /\ KeepInv /\ [Next]_vars => (TypeOK /\ RecordInv /\ KeepInv)'
  BY StepTyped, StepKeepsRecord, StepKeeps
<1>3. TypeOK /\ RecordInv /\ KeepInv /\ [Next]_vars => [KeepsPersisted]_vars
  BY StepKeepsPersisted
<1> QED BY <1>1, <1>2, <1>3, PTL DEF Spec, WritesKeepPersisted
=============================================================================
