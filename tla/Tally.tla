------------------------------- MODULE Tally --------------------------------
(***************************************************************************)
(* How the engine and the contest views of src/client/voter.ts keep the    *)
(* tally of VoteCrdtMap current: every change of the set kicks a           *)
(* recompute, a loop runs them one after the other while somebody listens, *)
(* and a view that starts updating computes once on its own, beside the    *)
(* loop.                                                                   *)
(*                                                                         *)
(* The weight rule gives every wallet one vote; the order of rows and the  *)
(* name a row shows are left out.  A view is not updated again while the   *)
(* compute of its last update is at work.                                  *)
(***************************************************************************)
EXTENDS VoteCrdtMap

CONSTANTS
  View,      \* contest views
  readsFail  \* do reads of the chain fail?

ASSUME TallyAssumption == "loop" \notin View

VARIABLES
  views,     \* [View -> "off", "joining", "on"]; listened to unless off
  dirty,     \* tallyDirty
  computes,  \* [Compute -> its phase, the rows it found, and history]
  cached,    \* cachedTally
  spoiled    \* history: the last compute to end failed or had been overtaken

tallyVars == <<views, dirty, computes, cached, spoiled>>

vars == <<entries, provisional, live, bucket, views, dirty, computes, cached, spoiled>>

\* the recompute of the refresh loop, and that of each view
Compute == {"loop"} \cup View

\* older: those that took the votes before it; overtaken: one that took them
\* later has ended
Idle == [phase |-> "idle", rows |-> <<>>, older |-> {}, overtaken |-> FALSE]

AtWork == {c \in Compute : computes[c].phase # "idle"}

Weighing == {c \in Compute : computes[c].phase = "weighing"}

listeners == {v \in View : views[v] # "off"}

----------------------------------------------------------------------------
TallyInit ==
  /\ Init
  /\ views = [v \in View |-> "off"] /\ dirty = TRUE
  /\ computes = [c \in Compute |-> Idle]
  /\ cached = <<>> /\ spoiled = FALSE

\* a compute up to its first await; an empty set is tallied without a read
Started(c, order) ==
  IF order = <<>> THEN [Idle EXCEPT !.phase = "weighing", !.older = Weighing \ {c}]
  ELSE [Idle EXCEPT !.phase = "reading"]

\* mutant of kickTallyRefresh: a change during a recompute is not remembered
kickTallyRefresh_Coalesced ==
  /\ IF computes["loop"].phase = "idle" /\ listeners # {}
     THEN computes' = [computes EXCEPT !["loop"] = Started("loop", entries')] /\ dirty' = FALSE
     ELSE UNCHANGED <<dirty, computes>>
  /\ UNCHANGED <<views, cached, spoiled>>

\* the set changed: the loop starts, unless it runs already or nobody listens
kickTallyRefresh ==
  /\ IF computes["loop"].phase = "idle" /\ listeners # {}
     THEN computes' = [computes EXCEPT !["loop"] = Started("loop", entries')] /\ dirty' = FALSE
     ELSE dirty' = TRUE /\ UNCHANGED computes
  /\ UNCHANGED <<views, cached, spoiled>>

\* an admission, a verdict, or a heartbeat that pruned
Change ==
  /\ \/ \E b \in Bundle, settled \in BOOLEAN : Insert(b, settled)
     \/ \E b \in Bundle : Settle(b) \/ Delete(b)
     \/ PruneMap /\ entries' # entries
  /\ kickTallyRefresh

\* the prunes that kick nothing: getTally and the end of a join
SilentPrune == PruneMap /\ entries' # entries /\ UNCHANGED tallyVars

\* a bucket passes, and a read of the chain notices; by itself it kicks nothing
BucketPasses == AdvanceBucket /\ UNCHANGED tallyVars

----------------------------------------------------------------------------
\* update: listen, then join, which may integrate bundles
ViewUpdate(v) ==
  /\ views[v] = "off" /\ computes[v].phase = "idle"
  /\ views' = [views EXCEPT ![v] = "joining"]
  /\ UNCHANGED <<dirty, computes, cached, spoiled>> /\ UNCHANGED mapVars

\* the join is done: refreshTallyNow
ViewJoined(v) ==
  /\ views[v] = "joining"
  /\ views' = [views EXCEPT ![v] = "on"]
  /\ computes' = [computes EXCEPT ![v] = Started(v, entries)] /\ dirty' = FALSE
  /\ UNCHANGED <<cached, spoiled>> /\ UNCHANGED mapVars

ViewStop(v) ==
  /\ views[v] = "on"
  /\ views' = [views EXCEPT ![v] = "off"]
  /\ UNCHANGED <<dirty, computes, cached, spoiled>> /\ UNCHANGED mapVars

\* the bucket was read: prune, and take the entries to weigh
PruneAndWeigh(c) ==
  /\ computes[c].phase = "reading" /\ PruneMap
  /\ computes' = [computes EXCEPT ![c].phase = "weighing", ![c].older = Weighing,
                                  ![c].rows = tallied(entries, bucket)']
  /\ UNCHANGED <<views, dirty, cached, spoiled>>

\* a compute ends: the loop goes on while there are changes and listeners
Ended(c) ==
  LET again == c = "loop" /\ dirty /\ listeners # {}
      older == IF computes[c].phase = "reading" THEN Weighing ELSE computes[c].older IN
  /\ computes' = [d \in Compute |->
       IF d = c THEN IF again THEN Started(c, entries) ELSE Idle
       ELSE [computes[d] EXCEPT !.older = @ \ {c},
                                !.overtaken = @ \/ d \in older]]
  /\ dirty' = (dirty /\ ~ again)

\* the votes are weighed: cache the tally and emit `update`
Emit(c) ==
  /\ computes[c].phase = "weighing" /\ Ended(c)
  /\ cached' = computes[c].rows /\ spoiled' = computes[c].overtaken
  /\ UNCHANGED views /\ UNCHANGED mapVars

\* a read failed: emit `error` and keep the tally
Fail(c) ==
  /\ readsFail /\ computes[c].phase # "idle" /\ Ended(c)
  /\ spoiled' = TRUE
  /\ UNCHANGED <<views, cached>> /\ UNCHANGED mapVars

Recompute(c) == PruneAndWeigh(c) \/ Emit(c)

TallyNext ==
  \/ Change \/ SilentPrune \/ BucketPasses
  \/ \E v \in View : ViewUpdate(v) \/ ViewJoined(v) \/ ViewStop(v)
  \/ \E c \in Compute : Recompute(c) \/ Fail(c)

TallySpec == TallyInit /\ [][TallyNext]_vars

----------------------------------------------------------------------------
\* rows that count each vote in force, with its flag, and besides these only
\* votes that are over at bucket k, one for a wallet
Shows(rows, inForce, pending, k) ==
  \E votes \in SUBSET Bundle : \E flagged \in SUBSET votes :
    /\ winnersByWallet(votes) = votes
    /\ {b \in votes : ~ isExpired(b, k)} = inForce
    /\ flagged \cap inForce = pending \cap inForce
    /\ rows = rowsOf(votes, flagged)

\* Every background settlement re-fires `update` (README.md:168), and so does
\* every other change of the votes in force: when a view listens and no compute
\* is at work, it shows all of them, flagged as they are, and nothing else but
\* votes that have run out since - unless the last compute to end failed or was
\* overtaken by one that read later.  (A vote that ran out may stay on show: a
\* prune outside the heartbeat re-fires nothing, and the next heartbeat then
\* finds nothing to prune.)
TallyIsCurrent ==
  (\E v \in View : views[v] = "on") /\ AtWork = {} /\ ~ spoiled
    => ~ dirty /\ Shows(cached, currentEntries(held, bucket), provisional, bucket)
=============================================================================
