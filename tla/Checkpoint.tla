----------------------------- MODULE Checkpoint -----------------------------
(***************************************************************************)
(* The checkpoint of one contest's engine and its persistence              *)
(* (ContestEngine in src/client/voter.ts): the root record encoded on      *)
(* demand and cached, the debounced snapshot write, the restore at join    *)
(* with its backlog and retry, the flush at leave, and crashes.            *)
(*                                                                         *)
(* rootRecord is called from several places at once (the fetch responder,  *)
(* the heartbeat, the announcer, the snapshot write), and each call awaits *)
(* block writes; a Task is one call in flight.  How bundles are verified   *)
(* is Admission's subject: here a bundle is out, pending or verified, and  *)
(* a record or a snapshot is the set of bundles in it.                     *)
(***************************************************************************)
EXTENDS Lww

CONSTANTS
  Server,          \* concurrent rootRecord calls that only serve
  Writer,          \* concurrent timer-driven snapshot writes
  Leaver,          \* the snapshot write of leave()
  Restorer,        \* concurrent admitRestored runs
  NoBundle,        \* a restore that is at no bundle
  offlineInvalid,  \* bundles whose signature or constraints are bad
  fails,           \* which infrastructure calls may fail
  NoRecord,        \* no cached record, or no snapshot on disk
  Corrupt,         \* a snapshot that does not decode
  WriteAttempts    \* SNAPSHOT_WRITE_ATTEMPTS

Task == Server \cup Writer \cup {Leaver}

(* Block writes, head reads, and reads and writes of the snapshot store.   *)
Failures == {"put", "head", "get", "set"}

ASSUME TaskAssumption ==
  /\ Leaver \notin Server \cup Writer /\ Server \cap Writer = {}
  /\ fails \in SUBSET Failures
  /\ WriteAttempts \in Nat \ {0}
  /\ NoBundle \notin Bundle
  /\ \A S \in SUBSET Bundle : S \notin {NoRecord, Corrupt}

VARIABLES
  joined, leaving,        \* joined to the topic; leave awaits its flush
  bucket,                 \* the bucket of the voter-wide head sample
  checks,                 \* [Bundle -> "out", "pending" or "verified"]
  owed,                   \* what the background verifier has not settled
  checkpointDirty, rootRecordCache,
  tasks,                  \* the rootRecord calls in flight
  snapshot,               \* what the snapshot store holds
  snapshotTimer, snapshotWriteFailures,
  restores,               \* the admitRestored runs in flight
  restoreBacklog, restoreTimer,
  dropped,                \* history: votes on paper lost to a refusal
  pruned,                 \* history: votes on paper pruned as superseded
  stale,                  \* history: no encode came through since one failed
  raced                   \* history: two runs raced, or the store was unread

engine    == <<joined, leaving, bucket, checks, owed>>
cache     == <<checkpointDirty, rootRecordCache>>
writes    == <<snapshotTimer, snapshotWriteFailures>>
restoring == <<restores, restoreBacklog, restoreTimer>>
history   == <<dropped, pruned, stale, raced>>
vars == <<engine, cache, tasks, snapshot, writes, restoring, history>>

IdleTask    == [pc |-> "idle", winners |-> {}, bucket |-> 0]
IdleRestore == [pc |-> "idle", todo |-> {}, at |-> NoBundle, pending |-> {}, backlog |-> {}]

TypeOK ==
  /\ joined \in BOOLEAN /\ leaving \in BOOLEAN /\ bucket \in 0..MaxBucket
  /\ checks \in [Bundle -> {"out", "pending", "verified"}]
  /\ checkpointDirty \in BOOLEAN
  /\ rootRecordCache = NoRecord
       \/ rootRecordCache \in [winners : SUBSET Bundle, bucket : 0..MaxBucket]
  /\ tasks \in [Task -> [pc : {"idle", "begin", "encode", "store"},
                         winners : SUBSET Bundle, bucket : 0..MaxBucket]]
  /\ snapshot \in {NoRecord, Corrupt} \/ snapshot \in SUBSET Bundle
  /\ snapshotTimer \in BOOLEAN /\ snapshotWriteFailures \in 0..(WriteAttempts - 1)
  /\ restores \in [Restorer -> [pc : {"idle", "read", "admit"}, todo : SUBSET Bundle,
                                at : Bundle \cup {NoBundle}, pending : SUBSET Bundle,
                                backlog : SUBSET Bundle]]
  /\ restoreBacklog \in SUBSET Bundle /\ restoreTimer \in BOOLEAN
  /\ owed \in SUBSET Bundle /\ dropped \in SUBSET Bundle /\ pruned \in SUBSET Bundle
  /\ stale \in BOOLEAN /\ raced \in BOOLEAN
  /\ leaving => joined

Init ==
  /\ joined = FALSE /\ leaving = FALSE /\ bucket = 0
  /\ checks = [b \in Bundle |-> "out"] /\ owed = {}
  /\ checkpointDirty = TRUE /\ rootRecordCache = NoRecord
  /\ tasks = [t \in Task |-> IdleTask]
  /\ snapshot \in {NoRecord, Corrupt}
  /\ snapshotTimer = FALSE /\ snapshotWriteFailures = 0
  /\ restores = [r \in Restorer |-> IdleRestore]
  /\ restoreBacklog = {} /\ restoreTimer = FALSE
  /\ dropped = {} /\ pruned = {} /\ stale = FALSE /\ raced = FALSE

----------------------------------------------------------------------------
verified == {b \in Bundle : checks[b] = "verified"}

persisted == IF snapshot \in {NoRecord, Corrupt} THEN {} ELSE snapshot

(* The votes of the snapshot and of the records being written.             *)
onPaper == persisted \cup UNION {tasks[t].winners : t \in Task}

(* What beats b by the wallet's rule is in S.                              *)
Replaced(b, S) == \E c \in S : SameWallet(c, b) /\ Beats(c, b)

hasUnsettledChecks == \E b \in Bundle : checks[b] = "pending"

(* What an encode at the bucket of the head sample would put in the record.*)
winners == currentEntries(verified, bucket)

(* The debounced write: the first change of a window arms the timer.       *)
ScheduleSnapshotWrite == snapshotTimer' = (snapshotTimer \/ joined)

markStateChanged == checkpointDirty' = TRUE /\ ScheduleSnapshotWrite
                    /\ UNCHANGED <<rootRecordCache, snapshotWriteFailures>>

----------------------------------------------------------------------------
(* The working set changes.                                                *)

(* A write that waits for its head has looked for pending checks already.  *)
UnsettlesAWrite(b) ==
  b \in onPaper \cup verified /\ \E t \in Task : tasks[t].pc = "begin"

(* Gossip admits a verified bundle, the chase and an own publish a pending *)
(* one, whether or not it is held and settled by then (voter.ts:1732,      *)
(* 1790, 2096); only an own publish skips the offline checks.              *)
Accept(b, check) ==
  /\ bucketForBlock(blockNumber[b]) <= bucket
  /\ b \in offlineInvalid => check = "pending"
  /\ checks' = [checks EXCEPT ![b] = check]
  /\ owed' = IF check = "pending" THEN owed \cup {b} ELSE owed
  /\ pruned' = pruned \ {b}
  /\ raced' = (raced \/ (check = "pending" /\ UnsettlesAWrite(b)))
  /\ markStateChanged
  /\ UNCHANGED <<joined, leaving, bucket, tasks, snapshot, restoring, dropped, stale>>

(* A confirmed check; the bundle may be gone, or settled by gossip.        *)
Settle(b) ==
  /\ b \in owed /\ owed' = owed \ {b}
  /\ IF checks[b] = "out" THEN UNCHANGED <<checks, cache, writes>>
     ELSE checks' = [checks EXCEPT ![b] = "verified"] /\ markStateChanged
  /\ UNCHANGED <<joined, leaving, bucket, tasks, snapshot, restoring, history>>

(* A failed check drops the bundle, even one that gossip settled, whose    *)
(* predecessors a prune may have taken.                                    *)
Evict(b) ==
  LET bereft == {c \in Beneath(b, pruned) : ~ Replaced(c, verified \ {b})} IN
  /\ b \in owed /\ owed' = owed \ {b}
  /\ checks' = [checks EXCEPT ![b] = "out"]
  /\ dropped' = dropped \cup ((bereft \cup {b}) \cap onPaper)
  /\ markStateChanged
  /\ UNCHANGED <<joined, leaving, bucket, tasks, snapshot, restoring, pruned, stale, raced>>

(* The heartbeat's prune marks the state changed, the others do not.       *)
Prune(heartbeat) ==
  LET held    == {b \in Bundle : checks[b] # "out"}
      removed == Prunable(held, bucket, {b \in held : checks[b] = "pending"}) IN
  /\ removed # {}
  /\ checks' = [b \in Bundle |-> IF b \in removed THEN "out" ELSE checks[b]]
  /\ pruned' = pruned \cup ({b \in removed : ~ isExpired(b, bucket)} \cap onPaper)
  /\ IF heartbeat THEN markStateChanged ELSE UNCHANGED <<cache, writes>>
  /\ UNCHANGED <<joined, leaving, bucket, owed, tasks, snapshot, restoring,
                 dropped, stale, raced>>

AdvanceBucket ==
  /\ bucket < MaxBucket
  /\ bucket' = bucket + 1
  /\ UNCHANGED <<joined, leaving, checks, owed, cache, tasks, snapshot, writes,
                 restoring, history>>

----------------------------------------------------------------------------
(* rootRecord: after the head read the dirty flag is consumed and the      *)
(* winners are taken in one step; then the blocks are written.             *)

cacheUsable ==
  ~ checkpointDirty /\ rootRecordCache # NoRecord /\ rootRecordCache.bucket = bucket

AfterRecord(t) ==
  IF t \in Server THEN IdleTask
  ELSE [IdleTask EXCEPT !.pc = "store", !.winners = tasks[t].winners]

Overlaps(t) == \E u \in Task \ {t} : tasks[u].pc \in {"encode", "store"}

(* A server call begins here, a write continues here.                      *)
RootRecord(t) ==
  /\ tasks[t].pc = IF t \in Server THEN "idle" ELSE "begin"
  /\ t \in Server => joined /\ ~ cacheUsable
  /\ IF cacheUsable
     THEN /\ tasks' = [tasks EXCEPT ![t] = [IdleTask EXCEPT !.pc = "store", !.winners = rootRecordCache.winners]]
          /\ UNCHANGED checkpointDirty
     ELSE /\ checkpointDirty' = FALSE
          /\ tasks' = [tasks EXCEPT ![t] = [pc |-> "encode", winners |-> winners, bucket |-> bucket]]
  /\ raced' = (raced \/ Overlaps(t) \/ (cacheUsable /\ stale))
  /\ UNCHANGED <<engine, rootRecordCache, snapshot, writes, restoring,
                 dropped, pruned, stale>>

(* Mutant: the dirty flag is cleared after the encode.                     *)
Encoded_ClearsDirty(t) ==
  /\ tasks[t].pc = "encode"
  /\ rootRecordCache' = [winners |-> tasks[t].winners, bucket |-> tasks[t].bucket]
  /\ checkpointDirty' = FALSE /\ stale' = FALSE
  /\ tasks' = [tasks EXCEPT ![t] = AfterRecord(t)]
  /\ UNCHANGED <<engine, snapshot, writes, restoring, dropped, pruned, raced>>

Encoded(t) ==
  /\ tasks[t].pc = "encode"
  /\ rootRecordCache' = [winners |-> tasks[t].winners, bucket |-> tasks[t].bucket]
  /\ tasks' = [tasks EXCEPT ![t] = AfterRecord(t)]
  /\ stale' = FALSE
  /\ UNCHANGED <<engine, checkpointDirty, snapshot, writes, restoring,
                 dropped, pruned, raced>>

----------------------------------------------------------------------------
(* writeSnapshot: the view is complete when no check is pending and no     *)
(* restored bundle waits in the backlog.                                   *)

(* Mutant: the backlog does not hold the write back.                       *)
mayWrite_IgnoresBacklog == ~ hasUnsettledChecks

mayWrite == ~ hasUnsettledChecks /\ restoreBacklog = {}

restoreRunning == \E r \in Restorer : restores[r].pc # "idle"

SnapshotTimerFires(t) ==
  /\ t \in Writer /\ tasks[t].pc = "idle"
  /\ snapshotTimer /\ snapshotTimer' = FALSE
  /\ IF mayWrite
     THEN /\ tasks' = [tasks EXCEPT ![t].pc = "begin"]
          /\ raced' = (raced \/ restoreRunning)
     ELSE UNCHANGED <<tasks, raced>>
  /\ UNCHANGED <<engine, cache, snapshot, snapshotWriteFailures, restoring,
                 dropped, pruned, stale>>

Store(t) ==
  /\ tasks[t].pc = "store"
  /\ snapshot' = tasks[t].winners
  /\ snapshotWriteFailures' = 0
  /\ tasks' = [tasks EXCEPT ![t] = IdleTask]
  /\ dropped' = {b \in dropped \cap onPaper' : checks[b] = "out"}
  /\ pruned' = pruned \cap onPaper'
  /\ UNCHANGED <<engine, cache, snapshotTimer, restoring, stale, raced>>

(* A failed write is retried on the debounce, then given up.               *)
WriteFailed(t) ==
  LET failures == snapshotWriteFailures + 1
      retry    == t \in Writer /\ failures < WriteAttempts
  IN  /\ snapshotWriteFailures' = IF retry THEN failures ELSE 0
      /\ IF retry THEN ScheduleSnapshotWrite ELSE UNCHANGED snapshotTimer

(* A block write, a head read or the store throws.  A block write leaves   *)
(* the dirty flag as it is: down, over the record before it.               *)
TaskThrows(t) ==
  /\ \/ tasks[t].pc = "encode" /\ "put" \in fails
     \/ tasks[t].pc = "begin" /\ "head" \in fails
     \/ tasks[t].pc = "store" /\ "set" \in fails
  /\ tasks' = [tasks EXCEPT ![t] = IdleTask]
  /\ IF t \in Server THEN UNCHANGED writes ELSE WriteFailed(t)
  /\ stale' = (stale \/ tasks[t].pc = "encode")
  /\ UNCHANGED <<engine, cache, snapshot, restoring, dropped, pruned, raced>>

----------------------------------------------------------------------------
(* join, and the restore of the snapshot it awaits.                        *)

Join(r) ==
  /\ ~ joined /\ restores[r].pc = "idle"
  /\ joined' = TRUE
  /\ checkpointDirty' = TRUE /\ rootRecordCache' = NoRecord
  /\ restores' = [restores EXCEPT ![r].pc = "read"]
  /\ raced' = (raced \/ restoreRunning)
  /\ UNCHANGED <<leaving, bucket, checks, owed, tasks, snapshot, writes,
                 restoreBacklog, restoreTimer, dropped, pruned, stale>>

(* Only a corrupt blob is removed; an unreadable store is a plain join.    *)
RestoreRead(r) ==
  /\ restores[r].pc = "read"
  /\ \/ /\ "get" \in fails
        /\ restores' = [restores EXCEPT ![r] = IdleRestore]
        /\ raced' = TRUE /\ UNCHANGED snapshot
     \/ /\ snapshot \in {NoRecord, Corrupt}
        /\ restores' = [restores EXCEPT ![r] = IdleRestore]
        /\ snapshot' = NoRecord /\ UNCHANGED raced
     \/ /\ snapshot \notin {NoRecord, Corrupt}
        /\ restores' = [restores EXCEPT ![r].pc = "admit", ![r].todo = snapshot]
        /\ UNCHANGED <<snapshot, raced>>
  /\ UNCHANGED <<engine, cache, tasks, writes, restoreBacklog, restoreTimer,
                 dropped, pruned, stale>>

(* The next bundle: one already admitted is passed over.                   *)
RestoreNext(r, b) ==
  /\ restores[r].pc = "admit" /\ restores[r].at = NoBundle /\ b \in restores[r].todo
  /\ restores' = [restores EXCEPT
       ![r].todo = @ \ {b}, ![r].at = IF checks[b] = "out" THEN b ELSE NoBundle]
  /\ UNCHANGED <<engine, cache, tasks, snapshot, writes, restoreBacklog, restoreTimer, history>>

(* The head read or the block write throws, or the head is behind.         *)
RestoreBacklogs(r) ==
  /\ restores[r].at # NoBundle /\ fails \cap {"head", "put"} # {}
  /\ restores' = [restores EXCEPT ![r].at = NoBundle, ![r].backlog = @ \cup {restores[r].at}]
  /\ UNCHANGED <<engine, cache, tasks, snapshot, writes, restoreBacklog, restoreTimer, history>>

(* A bundle that fails the offline checks is dropped, the others are       *)
(* admitted provisionally, whatever was recorded about them meanwhile.     *)
RestoreAdmits(r) ==
  LET b == restores[r].at IN
  /\ b # NoBundle
  /\ IF b \in offlineInvalid
     THEN /\ dropped' = dropped \cup ({b} \cap persisted)
          /\ restores' = [restores EXCEPT ![r].at = NoBundle]
          /\ UNCHANGED <<checks, pruned, raced>>
     ELSE /\ checks' = [checks EXCEPT ![b] = "pending"]
          /\ restores' = [restores EXCEPT ![r].at = NoBundle, ![r].pending = @ \cup {b}]
          /\ pruned' = pruned \ {b}
          /\ raced' = (raced \/ checks[b] = "verified" \/ UnsettlesAWrite(b))
          /\ UNCHANGED dropped
  /\ UNCHANGED <<joined, leaving, bucket, owed, cache, tasks, snapshot, writes,
                 restoreBacklog, restoreTimer, stale>>

(* Mutant: only the first incomplete run arms a retry.                     *)
RestoreDone_RetriesOnce(r) ==
  LET run == restores[r] IN
  /\ run.pc = "admit" /\ run.at = NoBundle /\ run.todo = {}
  /\ restores' = [restores EXCEPT ![r] = IdleRestore]
  /\ restoreBacklog' = run.backlog
  /\ checkpointDirty' = (checkpointDirty \/ run.pending # {})
  /\ IF run.pending # {} \/ (run.backlog = {} /\ restoreBacklog # {})
     THEN ScheduleSnapshotWrite
     ELSE UNCHANGED snapshotTimer
  /\ owed' = owed \cup run.pending
  /\ restoreTimer' = (restoreTimer \/ (run.backlog # {} /\ restoreBacklog = {} /\ joined))
  /\ UNCHANGED <<joined, leaving, bucket, checks, rootRecordCache, tasks, snapshot,
                 snapshotWriteFailures, history>>

(* The pending ones are handed to the background verifier, the backlog is  *)
(* replaced; a backlog that just drained re-arms the write it held back.   *)
RestoreDone(r) ==
  LET run == restores[r] IN
  /\ run.pc = "admit" /\ run.at = NoBundle /\ run.todo = {}
  /\ restores' = [restores EXCEPT ![r] = IdleRestore]
  /\ restoreBacklog' = run.backlog
  /\ checkpointDirty' = (checkpointDirty \/ run.pending # {})
  /\ IF run.pending # {} \/ (run.backlog = {} /\ restoreBacklog # {})
     THEN ScheduleSnapshotWrite
     ELSE UNCHANGED snapshotTimer
  /\ owed' = owed \cup run.pending
  /\ restoreTimer' = (restoreTimer \/ (run.backlog # {} /\ joined))
  /\ UNCHANGED <<joined, leaving, bucket, checks, rootRecordCache, tasks, snapshot,
                 snapshotWriteFailures, history>>

RestoreTimerFires(r) ==
  /\ restoreTimer /\ restores[r].pc = "idle"
  /\ restoreTimer' = FALSE
  /\ IF restoreBacklog # {} /\ joined
     THEN restores' = [restores EXCEPT ![r].pc = "admit", ![r].todo = restoreBacklog]
     ELSE UNCHANGED restores
  /\ UNCHANGED <<engine, cache, tasks, snapshot, writes, restoreBacklog, history>>

----------------------------------------------------------------------------
(* leave: an armed write is flushed first, and awaited.                    *)

Left ==
  /\ joined' = FALSE /\ leaving' = FALSE
  /\ restoreTimer' = FALSE /\ restoreBacklog' = {}
  /\ snapshotWriteFailures' = 0
  /\ UNCHANGED <<bucket, checks, owed, cache, snapshot, restores, history>>

LeaveUnflushed ==
  /\ joined /\ ~ leaving /\ ~ (snapshotTimer /\ mayWrite)
  /\ snapshotTimer' = FALSE
  /\ Left /\ UNCHANGED tasks

LeaveFlushes ==
  /\ joined /\ ~ leaving /\ snapshotTimer /\ mayWrite
  /\ tasks[Leaver].pc = "idle"
  /\ leaving' = TRUE /\ snapshotTimer' = FALSE
  /\ tasks' = [tasks EXCEPT ![Leaver].pc = "begin"]
  /\ raced' = (raced \/ restoreRunning)
  /\ UNCHANGED <<joined, bucket, checks, owed, cache, snapshot, snapshotWriteFailures,
                 restoring, dropped, pruned, stale>>

LeaveFlushed ==
  /\ leaving /\ tasks[Leaver].pc = "idle"
  /\ Left /\ UNCHANGED <<snapshotTimer, tasks>>

(* The process dies: only the snapshot store survives.                     *)
Crash ==
  /\ joined' = FALSE /\ leaving' = FALSE
  /\ checks' = [b \in Bundle |-> "out"] /\ owed' = {}
  /\ checkpointDirty' = TRUE /\ rootRecordCache' = NoRecord
  /\ tasks' = [t \in Task |-> IdleTask]
  /\ snapshotTimer' = FALSE /\ snapshotWriteFailures' = 0
  /\ restores' = [r \in Restorer |-> IdleRestore]
  /\ restoreBacklog' = {} /\ restoreTimer' = FALSE
  /\ dropped' = {} /\ pruned' = {} /\ stale' = FALSE
  /\ UNCHANGED <<bucket, snapshot, raced>>

----------------------------------------------------------------------------
TaskStep(t) ==
  RootRecord(t) \/ Encoded(t) \/ SnapshotTimerFires(t) \/ Store(t) \/ TaskThrows(t)

RestoreStep(r) ==
  \/ Join(r) \/ RestoreRead(r) \/ RestoreBacklogs(r) \/ RestoreAdmits(r)
  \/ RestoreDone(r) \/ RestoreTimerFires(r)
  \/ \E b \in Bundle : RestoreNext(r, b)

Next ==
  \/ \E b \in Bundle, check \in {"pending", "verified"} : Accept(b, check)
  \/ \E b \in Bundle : Settle(b) \/ Evict(b)
  \/ \E heartbeat \in BOOLEAN : Prune(heartbeat)
  \/ AdvanceBucket
  \/ \E t \in Task : TaskStep(t)
  \/ \E r \in Restorer : RestoreStep(r)
  \/ LeaveUnflushed \/ LeaveFlushes \/ LeaveFlushed
  \/ Crash

Spec == Init /\ [][Next]_vars

----------------------------------------------------------------------------
(* While no encode is in flight, a clean cached record of this bucket      *)
(* holds exactly the current winners, so what is served and heartbeated is *)
(* never stale: rootRecord's dirty flag (voter.ts:2351), and the prunes    *)
(* that do not raise it (voter.ts:1644).  Not so after an encode whose     *)
(* block write failed, until another one comes through: see README.        *)
encoding == \E t \in Task : tasks[t].pc = "encode"

RecordIsCurrent ==
  (~ raced /\ ~ stale /\ ~ encoding /\ cacheUsable) => rootRecordCache.winners = winners

(* A write replaces a persisted vote only by a newer vote of its wallet,   *)
(* or leaves out one that decayed or that a refusal took: its own, or that *)
(* of the newer vote it had been pruned for.  The skips of writeSnapshot   *)
(* and the backlog of the restore (voter.ts:2158, 2258), across crashes,   *)
(* evictions of settled votes, failed reads and writes, and re-joins.      *)
KeepsPersisted ==
  (~ raced /\ persisted # {}) =>
    \A b \in persisted \ snapshot' :
      b \in dropped \/ isExpired(b, bucket) \/ Replaced(b, snapshot')

WritesKeepPersisted == [][KeepsPersisted]_vars

(* A persisted vote that waits in the backlog has a retry armed or running *)
(* for as long as the engine is joined (voter.ts:2303).                    *)
BacklogIsRetried ==
  (joined /\ restoreBacklog # {}) => restoreTimer \/ restoreRunning
(* The state keeps its types, and a backlog its retry.                     *)
CheckpointInv == TypeOK /\ BacklogIsRetried
=============================================================================
