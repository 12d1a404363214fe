----------------------------- MODULE Lifecycle -----------------------------
(***************************************************************************)
(* The life of a voter of src/client/voter.ts: contests are created,       *)
(* joined and left, by views and ballots at once, and the whole is         *)
(* destroyed; the fetch responder and the provider announcer (of           *)
(* src/transport/announce/node.ts) follow the count of joined contests,    *)
(* and each contest has its chain of heartbeat timers.                     *)
(*                                                                         *)
(* An async function is one action for each stretch between its awaits.    *)
(* Calls in progress are counted, since those of one kind are alike.       *)
(* What a join restores and pulls is in Checkpoint and ColdStart.          *)
(***************************************************************************)
EXTENDS Integers, FiniteSets

CONSTANTS
  Engine,     \* contests
  MaxCalls    \* bound: joins and leaves asked for

ASSUME LifecycleAssumption == MaxCalls \in Nat

VARIABLES
  serial,     \* the host awaits each call before the next one on a contest
  calls,      \* calls so far
  creating,   \* contests whose engine waits for its criteria CID
  engines,    \* contests with an engine
  marked,     \* engines that were marked destroyed
  starting,   \* [Engine -> joins that wait for transport.start]
  restoring,  \* [Engine -> joins that wait for the restore]
  flushing,   \* [Engine -> leaves that wait for the last snapshot write]
  stopping,   \* [Engine -> leaves in transport.stop with wasJoined]
  idling,     \* [Engine -> leaves in transport.stop without it]
  joined,
  wired,      \* engines with a chaser
  repull,     \* engines that listen for subscription changes
  timer,      \* [Engine -> #heartbeatTimer: "none", "armed", "fired"]
  lost,       \* [Engine -> armed timers #heartbeatTimer does not name]
  ticks,      \* [Engine -> heartbeatTicks in flight]
  joinedEngines, responder, destroyed,
  started,    \* the announcer
  debounce, announcing, rerun,
  unannounced, \* history: what is announced changed since keys were collected
  failed,     \* history: engines whose last transport.start failed, not left since
  missed,     \* history: leaves of joined contests whose transport.stop failed
  doubled     \* history: engines joined over a heartbeat or a tick of before

host == <<serial, calls>>
made == <<creating, engines, marked>>
join_leave == <<starting, restoring, flushing, stopping, idling>>
topic == <<joined, wired, repull, failed>>
heart == <<timer, lost, ticks, doubled>>
voter == <<joinedEngines, responder, destroyed, missed>>
announcer == <<started, debounce, announcing, rerun, unannounced>>
vars == <<host, made, join_leave, topic, heart, voter, announcer>>

Count == 0..MaxCalls

TypeOK ==
  /\ serial \in BOOLEAN /\ calls \in Count
  /\ creating \subseteq Engine /\ engines \subseteq Engine /\ marked \subseteq engines
  /\ starting \in [Engine -> Count] /\ restoring \in [Engine -> Count]
  /\ flushing \in [Engine -> Nat]
  /\ stopping \in [Engine -> Nat] /\ idling \in [Engine -> Nat]
  /\ joined \subseteq engines /\ wired \subseteq engines /\ repull \subseteq engines
  /\ timer \in [Engine -> {"none", "armed", "fired"}]
  /\ lost \in [Engine -> Nat] /\ ticks \in [Engine -> Nat]
  /\ joinedEngines \in Nat
  /\ responder \in BOOLEAN /\ destroyed \in BOOLEAN
  /\ started \in BOOLEAN /\ debounce \in BOOLEAN /\ rerun \in BOOLEAN
  /\ announcing \in BOOLEAN /\ unannounced \in BOOLEAN
  /\ failed \subseteq engines /\ doubled \subseteq engines /\ missed \in Nat

Zero == [e \in Engine |-> 0]

Init ==
  /\ serial \in BOOLEAN /\ calls = 0
  /\ creating = {} /\ engines = {} /\ marked = {}
  /\ starting = Zero /\ restoring = Zero /\ flushing = Zero
  /\ stopping = Zero /\ idling = Zero
  /\ joined = {} /\ wired = {} /\ repull = {}
  /\ timer = [e \in Engine |-> "none"] /\ lost = Zero /\ ticks = Zero
  /\ joinedEngines = 0 /\ responder = FALSE /\ destroyed = FALSE
  /\ started = FALSE /\ debounce = FALSE /\ announcing = FALSE /\ rerun = FALSE
  /\ unannounced = FALSE
  /\ failed = {} /\ missed = 0 /\ doubled = {}

\* nobody is inside join() or leave() of e
Settled(e) ==
  starting[e] + restoring[e] + flushing[e] + stopping[e] + idling[e] = 0

Call(e) ==
  /\ calls < MaxCalls /\ calls' = calls + 1
  /\ serial => Settled(e)
  /\ UNCHANGED serial

(***************************************************************************)
(* Creation.  The destroyed flag is tested before the criteria CID is      *)
(* awaited.                                                                *)
(***************************************************************************)
createContest(e) ==
  /\ ~destroyed /\ e \notin engines \cup creating
  /\ UNCHANGED host
  /\ creating' = creating \cup {e}
  /\ UNCHANGED <<engines, marked, join_leave, topic, heart, voter, announcer>>

engineFor(e) ==
  /\ e \in creating
  /\ creating' = creating \ {e}
  /\ engines' = engines \cup {e}
  /\ UNCHANGED <<host, marked, join_leave, topic, heart, voter, announcer>>

(***************************************************************************)
(* The announcer.                                                          *)
(***************************************************************************)
notifyChange == debounce' = (debounce \/ started')

announcerStart == started' = TRUE

announcerStop == started' = FALSE /\ debounce' = FALSE

\* announceNow collects the keys first; a trigger that lands in a run makes
\* it run once more
announceNow ==
  IF ~announcing
  THEN announcing' = TRUE /\ unannounced' = FALSE /\ UNCHANGED rerun
  ELSE rerun' = TRUE /\ UNCHANGED <<announcing, unannounced>>

DebounceFires ==
  /\ debounce
  /\ debounce' = FALSE
  /\ announceNow
  /\ UNCHANGED <<host, made, join_leave, topic, heart, voter, started>>

IntervalFires ==
  /\ started /\ ~announcing
  /\ announceNow
  /\ UNCHANGED <<host, made, join_leave, topic, heart, voter, started, debounce>>

\* mutant of PutDone
PutDoneForgets ==
  /\ announcing
  /\ announcing' = FALSE /\ rerun' = FALSE
  /\ UNCHANGED unannounced
  /\ UNCHANGED <<host, made, join_leave, topic, heart, voter, started, debounce>>

\* every router answered or failed
PutDone ==
  /\ announcing
  /\ IF rerun THEN unannounced' = FALSE /\ UNCHANGED announcing
     ELSE announcing' = FALSE /\ UNCHANGED unannounced
  /\ rerun' = FALSE
  /\ UNCHANGED <<host, made, join_leave, topic, heart, voter, started, debounce>>

\* the winners or the addresses changed (onCheckpointChanged, onAddressChange)
Change ==
  /\ started /\ ~unannounced
  /\ unannounced' = TRUE
  /\ UNCHANGED started /\ notifyChange
  /\ UNCHANGED <<host, made, join_leave, topic, heart, voter, announcing, rerun>>

(***************************************************************************)
(* The heartbeat.                                                          *)
(***************************************************************************)
\* armHeartbeat: the timer it replaces, if still armed, goes on unnamed
armHeartbeat(e) ==
  /\ timer' = [timer EXCEPT ![e] = "armed"]
  /\ lost' = [lost EXCEPT ![e] = IF timer[e] = "armed" THEN @ + 1 ELSE @]

HeartbeatFires(e) ==
  /\ \/ timer[e] = "armed" /\ timer' = [timer EXCEPT ![e] = "fired"] /\ UNCHANGED lost
     \/ lost[e] > 0 /\ lost' = [lost EXCEPT ![e] = @ - 1] /\ UNCHANGED timer
  /\ ticks' = [ticks EXCEPT ![e] = @ + 1]
  /\ UNCHANGED <<host, made, join_leave, topic, doubled, voter, announcer>>

\* mutant of TickDone
TickDoneOnce(e) ==
  /\ ticks[e] > 0
  /\ ticks' = [ticks EXCEPT ![e] = @ - 1]
  /\ UNCHANGED <<timer, lost>>
  /\ UNCHANGED <<host, made, join_leave, topic, doubled, voter, announcer>>

\* the tick ended, well or not: re-arm while there is a timer
TickDone(e) ==
  /\ ticks[e] > 0
  /\ ticks' = [ticks EXCEPT ![e] = @ - 1]
  /\ IF timer[e] # "none" THEN armHeartbeat(e) ELSE UNCHANGED <<timer, lost>>
  /\ UNCHANGED <<host, made, join_leave, topic, doubled, voter, announcer>>

(***************************************************************************)
(* Join.                                                                   *)
(***************************************************************************)
Join(e) ==
  /\ e \in engines \ marked /\ e \notin joined
  /\ Call(e)
  /\ wired' = wired \cup {e}
  /\ starting' = [starting EXCEPT ![e] = @ + 1]
  /\ UNCHANGED <<made, restoring, flushing, stopping, idling, joined, repull, failed, heart, voter,
                 announcer>>

onTopicJoined ==
  /\ joinedEngines' = joinedEngines + 1
  /\ announcerStart /\ notifyChange /\ unannounced' = TRUE
  /\ responder' = TRUE
  /\ UNCHANGED <<destroyed, missed, announcing, rerun>>

\* the transport is up
Joined(e) ==
  /\ starting[e] > 0
  /\ starting' = [starting EXCEPT ![e] = @ - 1]
  /\ restoring' = [restoring EXCEPT ![e] = @ + 1]
  /\ joined' = joined \cup {e} /\ failed' = failed \ {e}
  /\ onTopicJoined
  /\ armHeartbeat(e)
  /\ doubled' = IF ticks[e] > 0 \/ timer[e] # "none" THEN doubled \cup {e} ELSE doubled
  /\ UNCHANGED <<host, made, flushing, stopping, idling, wired, repull, ticks>>

\* it could not start (the pubsub is not up): the join throws, the chaser stays
JoinFails(e) ==
  /\ starting[e] > 0
  /\ starting' = [starting EXCEPT ![e] = @ - 1]
  /\ failed' = failed \cup {e}
  /\ UNCHANGED <<host, made, restoring, flushing, stopping, idling, joined, wired, repull, heart,
                 voter, announcer>>

\* the restore is over: the cold start listens for new subscribers
Restored(e) ==
  /\ restoring[e] > 0
  /\ restoring' = [restoring EXCEPT ![e] = @ - 1]
  /\ repull' = repull \cup {e}
  /\ UNCHANGED <<host, made, starting, flushing, stopping, idling, joined, wired, failed, heart,
                 voter, announcer>>

RepullEnds(e) ==
  /\ e \in repull
  /\ repull' = repull \ {e}
  /\ UNCHANGED <<host, made, join_leave, joined, wired, failed, heart, voter, announcer>>

(***************************************************************************)
(* Leave, stop and destroy.                                                *)
(***************************************************************************)
\* the first stretch of leave() for the contests of a set
BeginLeave(E) ==
  /\ timer' = [e \in Engine |-> IF e \in E THEN "none" ELSE timer[e]]
  /\ flushing' = [e \in Engine |-> IF e \in E THEN flushing[e] + 1 ELSE flushing[e]]
  /\ UNCHANGED <<lost, ticks, doubled, starting, restoring, stopping, idling>>

Leave(e) ==
  /\ e \in engines
  /\ Call(e)
  /\ BeginLeave({e})
  /\ UNCHANGED <<made, topic, voter, announcer>>

Flushed(e) ==
  /\ flushing[e] > 0
  /\ flushing' = [flushing EXCEPT ![e] = @ - 1]
  /\ IF e \in joined
     THEN stopping' = [stopping EXCEPT ![e] = @ + 1] /\ UNCHANGED idling
     ELSE idling' = [idling EXCEPT ![e] = @ + 1] /\ UNCHANGED stopping
  /\ joined' = joined \ {e} /\ wired' = wired \ {e} /\ repull' = repull \ {e}
  /\ failed' = failed \ {e}
  /\ UNCHANGED <<host, made, starting, restoring, heart, voter, announcer>>

\* mutant of onTopicLeft
onTopicLeftAny ==
  /\ joinedEngines' = joinedEngines - 1
  /\ announcerStop /\ responder' = FALSE
  /\ UNCHANGED <<destroyed, missed, announcing, rerun, unannounced>>

onTopicLeft ==
  /\ joinedEngines' = joinedEngines - 1
  /\ IF joinedEngines =< 1
     THEN announcerStop /\ responder' = FALSE
     ELSE UNCHANGED <<started, debounce, responder>>
  /\ UNCHANGED <<destroyed, missed, announcing, rerun, unannounced>>

\* the transport is down; a leave that left nothing does not count
Left(e) ==
  /\ \/ /\ stopping[e] > 0 /\ stopping' = [stopping EXCEPT ![e] = @ - 1] /\ UNCHANGED idling
        /\ onTopicLeft
     \/ /\ idling[e] > 0 /\ idling' = [idling EXCEPT ![e] = @ - 1] /\ UNCHANGED stopping
        /\ UNCHANGED <<voter, announcer>>
  /\ UNCHANGED <<host, made, starting, restoring, flushing, topic, heart>>

\* transport.stop throws: the leave is over, and nothing counts it off
LeaveFails(e) ==
  /\ \/ /\ stopping[e] > 0 /\ stopping' = [stopping EXCEPT ![e] = @ - 1] /\ UNCHANGED idling
        /\ missed' = missed + 1
     \/ /\ idling[e] > 0 /\ idling' = [idling EXCEPT ![e] = @ - 1] /\ UNCHANGED stopping
        /\ UNCHANGED missed
  /\ UNCHANGED <<host, made, starting, restoring, flushing, topic, heart, joinedEngines, responder,
                 destroyed, announcer>>

\* mutant of Destroy
DestroyUnmarked ==
  /\ ~destroyed /\ (serial => creating = {} /\ \A e \in Engine : Settled(e))
  /\ destroyed' = TRUE
  /\ UNCHANGED marked
  /\ announcerStop /\ responder' = FALSE
  /\ BeginLeave(engines)
  /\ UNCHANGED <<host, creating, engines, topic, joinedEngines, missed, announcing, rerun,
                 unannounced>>

\* destroy() up to the first await of its stop()
Destroy ==
  /\ ~destroyed /\ (serial => creating = {} /\ \A e \in Engine : Settled(e))
  /\ destroyed' = TRUE
  /\ marked' = engines
  /\ announcerStop /\ responder' = FALSE
  /\ BeginLeave(engines)
  /\ UNCHANGED <<host, creating, engines, topic, joinedEngines, missed, announcing, rerun,
                 unannounced>>

EngineStep(e) ==
  \/ engineFor(e) \/ Joined(e) \/ JoinFails(e) \/ Restored(e) \/ Flushed(e) \/ Left(e)
  \/ LeaveFails(e) \/ HeartbeatFires(e) \/ TickDone(e)

AnnouncerStep == DebounceFires \/ PutDone

Next ==
  \/ \E e \in Engine : createContest(e) \/ Join(e) \/ Leave(e) \/ RepullEnds(e) \/ EngineStep(e)
  \/ AnnouncerStep \/ IntervalFires \/ Change \/ Destroy

Spec == Init /\ [][Next]_vars

\* Timers fire; routers answer or time out.
FairSpec == Spec /\ WF_vars(AnnouncerStep)

----------------------------------------------------------------------------
InProgress == \E e \in Engine : ~Settled(e)

\* While a contest is joined and the voter lives, peers are answered and the
\* announcer runs, however calls overlap (onTopicJoined, onTopicLeft).
ServesWhileJoined ==
  joined # {} /\ ~destroyed => responder /\ started

\* A joined contest always has a heartbeat timer armed or a tick in flight
\* that will arm one, until leave() clears it.
HeartbeatGoesOn ==
  \A e \in joined : flushing[e] = 0 => timer[e] = "armed" \/ ticks[e] > 0

\* For a host that awaits its calls, once every contest is left: no responder
\* and no announcer, if no transport.stop threw; no listener; no chaser but
\* that of a join that failed; no heartbeat timer but orphans of a contest
\* re-joined during a tick.  Once the voter is destroyed nothing is joined.
QuietWhenLeft ==
  serial =>
    /\ joined = {} /\ ~InProgress =>
         /\ missed = 0 => ~responder /\ ~started
         /\ wired \subseteq failed /\ repull = {}
         /\ \A e \in Engine : timer[e] = "none" /\ (lost[e] > 0 => e \in doubled)
    /\ destroyed /\ ~InProgress => joined = {}

\* What is announced changes: the routers get keys collected after it, or
\* the announcer was stopped.
ChangesAreAnnounced == (unannounced /\ started) ~> (~unannounced \/ ~started)
\* The state keeps its types, and a joined contest is served.
LifecycleInv == TypeOK /\ ServesWhileJoined
=============================================================================
