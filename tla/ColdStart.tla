----------------------------- MODULE ColdStart -----------------------------
(***************************************************************************)
(* A voter that has just joined its contests pulls the root records of the *)
(* peers it finds (ContestEngine.#coldStart of src/client/voter.ts)        *)
(* through the puller all contests share (makeRootPuller), which turns     *)
(* pulls on one peer into one bulk request.  The peers' side is their      *)
(* responder, Voter.#rootLookup and #bulkRootsAnswer.                      *)
(*                                                                         *)
(* A root record is a number, 0 where a contest is not served.  A pull is  *)
(* one contest's interest in one peer; the `seen` set of a cold start is   *)
(* the pulls that left "idle".  Delays and the deadline of the retries     *)
(* become the bound MaxAttempts; the re-pull window and the router lookup  *)
(* end when Ask stops happening; an entry of the ten-second answer cache   *)
(* (evicted beyond 32 peers) may go at any time; and the blocks inlined in *)
(* an answer are kept before it is served.                                 *)
(***************************************************************************)
EXTENDS Integers, FiniteSets

CONSTANTS
  Peer, Topic,
  oldPeers,     \* peers that answer per-topic keys only
  ownRoot,      \* [Topic -> root], what our own replica encodes to
  BulkMax,      \* BULK_ROOTS_MAX_RECORDS
  PeerLimit,    \* COLD_START_PEER_FETCH_LIMIT
  MaxAttempts,  \* tries within COLD_START_FETCH_DEADLINE_MS
  MaxRoot,      \* bound: how far a peer's root moves
  MaxFaults     \* bound: fetches that throw, and own encodes at an answer

ASSUME ColdStartAssumption ==
  /\ oldPeers \subseteq Peer
  /\ ownRoot \in [Topic -> Nat]
  /\ BulkMax \in Nat /\ PeerLimit \in Nat \ {0}
  /\ MaxAttempts \in Nat \ {0} /\ MaxRoot \in Nat \ {0} /\ MaxFaults \in Nat

VARIABLES
  root,      \* [Peer -> [Topic -> root]], what each peer serves
  joined,    \* contests we have not left; their chaser exists
  pull,      \* [Topic \X Peer -> [st, tries, got]]
  batch,     \* [Peer -> topics waiting for the coalesce window]
  flight,    \* [Peer -> the bulk request in flight]
  cached,    \* [Peer -> [Topic -> root]], all 0 when there is no entry
  chased,    \* <<topic, root>> handed to a chaser
  unread,    \* contests whose cold start awaits a rejected own root
  faults,
  dropped,   \* history: <<topic, root>> not chased as the own root threw
  shown      \* history: roots the peer showed since the pull's request,
             \* or the pull itself, began

handed == <<chased, unread, dropped>>
vars == <<root, joined, pull, batch, flight, cached, handed, faults, shown>>
peerState == <<root, shown>>

Root == 0..MaxRoot
Nothing == [t \in Topic |-> 0]
NoFlight == [st |-> "none", asked |-> {}, late |-> {}, answer |-> Nothing]

Waiting == {"batched", "flying", "single"}
Ended == {"record", "none", "failed"}

TypeOK ==
  /\ root \in [Peer -> [Topic -> Root]]
  /\ joined \subseteq Topic
  /\ pull \in [Topic \X Peer -> [st : {"idle", "queued", "backoff"} \cup Waiting \cup Ended,
                                 tries : 0..MaxAttempts, got : Root]]
  /\ batch \in [Peer -> SUBSET Topic]
  /\ flight \in [Peer -> [st : {"none", "sent", "storing"}, asked : SUBSET Topic,
                          late : SUBSET Topic, answer : [Topic -> Root]]]
  /\ cached \in [Peer -> [Topic -> Root]]
  /\ chased \subseteq Topic \X Root /\ dropped \subseteq Topic \X Root
  /\ unread \subseteq Topic
  /\ faults \in 0..MaxFaults
  /\ shown \in [Topic \X Peer -> SUBSET Root]

Init ==
  /\ root \in [Peer -> [Topic -> {0, 1}]]
  /\ joined = Topic
  /\ pull = [k \in Topic \X Peer |-> [st |-> "idle", tries |-> 0, got |-> 0]]
  /\ batch = [p \in Peer |-> {}]
  /\ flight = [p \in Peer |-> NoFlight]
  /\ cached = [p \in Peer |-> Nothing]
  /\ chased = {} /\ dropped = {} /\ unread = {} /\ faults = 0
  /\ shown = [k \in Topic \X Peer |-> {}]

\* the pulls of T on p now stand at st
Moved(f, T, p, st) ==
  [k \in DOMAIN f |-> IF k[1] \in T /\ k[2] = p THEN [f[k] EXCEPT !.st = st] ELSE f[k]]

\* a thrown fetch: another try while the deadline and the chaser stand
Thrown(T, p) ==
  [k \in DOMAIN pull |->
     IF k[1] \in T /\ k[2] = p
     THEN LET n == pull[k].tries + 1 IN
          [pull[k] EXCEPT !.tries = n,
             !.st = IF n = MaxAttempts \/ k[1] \notin joined THEN "failed" ELSE "backoff"]
     ELSE pull[k]]

\* a definitive answer: a record, or that there is none
Served(T, p, answer) ==
  [k \in DOMAIN pull |->
     IF k[1] \in T /\ k[2] = p
     THEN [pull[k] EXCEPT !.st = IF answer[k[1]] = 0 THEN "none" ELSE "record",
                          !.got = answer[k[1]]]
     ELSE pull[k]]

\* the cold start of t has its own root, or the rejection it keeps
Awaited(t) == t \in unread \/ \E p \in Peer : pull[<<t, p>>].st = "record"

\* pull() of #coldStart, and ingestRootRecord for the contests that are told:
\* what differs from our own root is chased, unless leave() took the chaser or
\* rootRecord() throws
Chases(pulled, told, answer) ==
  LET P == {t \in pulled : answer[t] # 0}
      D == {t \in told \cap joined : answer[t] # 0}
  IN \E rejects \in SUBSET {t \in P : ~Awaited(t)}, drops \in SUBSET D :
       LET reached == (P \ (unread \cup rejects)) \cup (D \ drops) IN
       /\ \/ rejects \cup drops = {} /\ faults' = faults
          \/ rejects \cup drops # {} /\ faults < MaxFaults /\ faults' = faults + 1
       /\ unread' = unread \cup rejects
       /\ chased' = chased \cup {<<t, answer[t]>> : t \in
                       {u \in reached \cap joined : answer[u] # ownRoot[u]}}
       /\ dropped' = dropped \cup {<<t, answer[t]>> : t \in (P \cup D) \ reached}

(***************************************************************************)
(* The peers.  A voter's responder is registered once it joined a contest. *)
(***************************************************************************)
PeerMoves(p, t) ==
  /\ \/ root[p][t] < MaxRoot /\ root' = [root EXCEPT ![p][t] = @ + 1]
     \/ root[p][t] = MaxRoot /\ root' = [root EXCEPT ![p][t] = 0]
  /\ shown' = IF pull[<<t, p>>].st \in Ended THEN shown
              ELSE [shown EXCEPT ![<<t, p>>] = @ \cup {root'[p][t]}]
  /\ UNCHANGED <<joined, pull, batch, flight, cached, handed, faults>>

Speaks(p) == p \notin oldPeers /\ root[p] # Nothing

\* the joined contests of a peer, the first BulkMax of them
bulkRootsAnswer(p) ==
  LET serving == {t \in Topic : root[p][t] # 0}
      size == IF Cardinality(serving) > BulkMax THEN BulkMax ELSE Cardinality(serving)
  IN {[t \in Topic |-> IF t \in S THEN root[p][t] ELSE 0] :
        S \in {X \in SUBSET serving : Cardinality(X) = size}}

(***************************************************************************)
(* The cold start of a contest.                                            *)
(***************************************************************************)
Ask(t, p) ==
  /\ pull[<<t, p>>].st = "idle"
  /\ pull' = Moved(pull, {t}, p, "queued")
  /\ shown' = IF flight[p].st # "none" THEN shown
              ELSE [shown EXCEPT ![<<t, p>>] = {root[p][t]}]
  /\ UNCHANGED <<root, joined, batch, flight, cached, handed, faults>>

\* leave(): pulls on the wire go on, and so do dials of the router lookup
Leave(t) ==
  /\ t \in joined
  /\ joined' = joined \ {t}
  /\ UNCHANGED <<peerState, pull, batch, flight, cached, handed, faults>>

HasSlot(p) == Cardinality({t \in Topic : pull[<<t, p>>].st \in Waiting}) < PeerLimit

\* mutant of PullRoot: absence is served from the answer cache as well
PullRootAbsent(t, p) ==
  IF cached[p] # Nothing
  THEN /\ pull' = Served({t}, p, cached[p])
       /\ Chases({t}, {}, cached[p])
       /\ UNCHANGED <<batch, flight, shown>>
  ELSE IF flight[p].st # "none"
  THEN /\ pull' = Moved(pull, {t}, p, "flying")
       /\ flight' = [flight EXCEPT ![p].asked = @ \cup {t}, ![p].late = @ \cup {t}]
       /\ UNCHANGED <<batch, handed, faults, shown>>
  ELSE /\ pull' = Moved(pull, {t}, p, "batched")
       /\ batch' = [batch EXCEPT ![p] = @ \cup {t}]
       /\ UNCHANGED <<flight, handed, faults, shown>>

\* one call of the puller: the answer cache, the request in flight, a batch
PullRoot(t, p) ==
  IF cached[p][t] # 0
  THEN /\ pull' = Served({t}, p, cached[p])
       /\ Chases({t}, {}, cached[p])
       /\ UNCHANGED <<batch, flight, shown>>
  ELSE IF flight[p].st # "none"
  THEN /\ pull' = Moved(pull, {t}, p, "flying")
       /\ flight' = [flight EXCEPT ![p].asked = @ \cup {t}, ![p].late = @ \cup {t}]
       /\ UNCHANGED <<batch, handed, faults, shown>>
  ELSE /\ pull' = Moved(pull, {t}, p, "batched")
       /\ batch' = [batch EXCEPT ![p] = @ \cup {t}]
       /\ UNCHANGED <<flight, handed, faults, shown>>

Attempt(t, p) ==
  /\ pull[<<t, p>>].st = "queued" /\ HasSlot(p)
  /\ PullRoot(t, p)
  /\ UNCHANGED <<root, joined, cached>>

\* mutant of RetryFires: a contest that was left is forgotten in its backoff
RetryFiresJoined(t, p) ==
  /\ pull[<<t, p>>].st = "backoff" /\ t \in joined
  /\ pull' = Moved(pull, {t}, p, "queued")
  /\ UNCHANGED <<peerState, joined, batch, flight, cached, handed, faults>>

\* the backoff is over; a contest left meanwhile abandons quietly
RetryFires(t, p) ==
  /\ pull[<<t, p>>].st = "backoff"
  /\ pull' = Moved(pull, {t}, p, IF t \in joined THEN "queued" ELSE "none")
  /\ UNCHANGED <<peerState, joined, batch, flight, cached, handed, faults>>

(***************************************************************************)
(* The bulk request of a peer.                                             *)
(***************************************************************************)
Flush(p) ==
  /\ batch[p] # {}
  /\ flight' = [flight EXCEPT ![p] = [st |-> "sent", asked |-> batch[p], late |-> {},
                                            answer |-> Nothing]]
  /\ batch' = [batch EXCEPT ![p] = {}]
  /\ pull' = Moved(pull, batch[p], p, "flying")
  /\ shown' = [k \in DOMAIN shown |->
                 IF k[2] = p /\ pull[k].st \notin Ended THEN {root[p][k[1]]} ELSE shown[k]]
  /\ UNCHANGED <<root, joined, cached, handed, faults>>

\* the answer arrives; the chunk blocks inlined in it are checked and kept
BulkAnswers(p) ==
  /\ flight[p].st = "sent" /\ Speaks(p)
  /\ \E answer \in bulkRootsAnswer(p) :
       flight' = [flight EXCEPT ![p].st = "storing", ![p].answer = answer]
  /\ UNCHANGED <<peerState, joined, pull, batch, cached, handed, faults>>

\* nothing, or a ProtocolError: this peer is asked topic by topic
NoBulkAnswer(p) ==
  /\ flight[p].st = "sent" /\ ~Speaks(p)
  /\ pull' = Moved(pull, flight[p].asked, p, "single")
  /\ flight' = [flight EXCEPT ![p] = NoFlight]
  /\ UNCHANGED <<peerState, joined, batch, cached, handed, faults>>

BulkThrows(p) ==
  /\ flight[p].st = "sent" /\ faults < MaxFaults
  /\ pull' = Thrown(flight[p].asked, p)
  /\ flight' = [flight EXCEPT ![p] = NoFlight]
  /\ faults' = faults + 1
  /\ UNCHANGED <<peerState, joined, batch, cached, handed>>

\* the contests the batch did not name, those that joined the request included
Others(p) == (Topic \ flight[p].asked) \cup flight[p].late

\* mutants of Accept
AcceptOnlyAsked(p) ==
  /\ flight[p].st = "storing"
  /\ cached' = [cached EXCEPT ![p] = flight[p].answer]
  /\ pull' = Served(flight[p].asked, p, flight[p].answer)
  /\ Chases(flight[p].asked, {}, flight[p].answer)
  /\ flight' = [flight EXCEPT ![p] = NoFlight]
  /\ UNCHANGED <<peerState, joined, batch>>
AcceptLeavesAbsent(p) ==
  /\ flight[p].st = "storing"
  /\ cached' = [cached EXCEPT ![p] = flight[p].answer]
  /\ pull' = Served({t \in flight[p].asked : flight[p].answer[t] # 0}, p, flight[p].answer)
  /\ Chases(flight[p].asked, Others(p), flight[p].answer)
  /\ flight' = [flight EXCEPT ![p] = NoFlight]
  /\ UNCHANGED <<peerState, joined, batch>>

\* every block is local: cache the answer, serve those who asked, and hand
\* the other records to their engines (onRecord)
Accept(p) ==
  /\ flight[p].st = "storing"
  /\ cached' = [cached EXCEPT ![p] = flight[p].answer]
  /\ pull' = Served(flight[p].asked, p, flight[p].answer)
  /\ Chases(flight[p].asked, Others(p), flight[p].answer)
  /\ flight' = [flight EXCEPT ![p] = NoFlight]
  /\ UNCHANGED <<peerState, joined, batch>>

CacheExpires(p) ==
  /\ cached[p] # Nothing
  /\ cached' = [cached EXCEPT ![p] = Nothing]
  /\ UNCHANGED <<peerState, joined, pull, batch, flight, handed, faults>>

(***************************************************************************)
(* The per-topic fallback.                                                 *)
(***************************************************************************)
SingleAnswers(t, p) ==
  /\ pull[<<t, p>>].st = "single"
  /\ Speaks(p) \/ p \in oldPeers
  /\ pull' = Served({t}, p, root[p])
  /\ Chases({t}, {}, root[p])
  /\ UNCHANGED <<peerState, joined, batch, flight, cached>>

\* a node that has joined nothing has no handler for this key either
SingleThrows(t, p) ==
  /\ pull[<<t, p>>].st = "single"
  /\ \/ ~Speaks(p) /\ p \notin oldPeers /\ UNCHANGED faults
     \/ faults < MaxFaults /\ faults' = faults + 1
  /\ pull' = Thrown({t}, p)
  /\ UNCHANGED <<peerState, joined, batch, flight, cached, handed>>

PullStep(t, p) ==
  Attempt(t, p) \/ RetryFires(t, p) \/ SingleAnswers(t, p) \/ SingleThrows(t, p)
BulkStep(p) ==
  Flush(p) \/ BulkAnswers(p) \/ NoBulkAnswer(p) \/ BulkThrows(p) \/ Accept(p)

Next ==
  \/ \E t \in Topic : Leave(t)
  \/ \E p \in Peer : CacheExpires(p) \/ BulkStep(p)
  \/ \E t \in Topic, p \in Peer : PeerMoves(p, t) \/ Ask(t, p) \/ PullStep(t, p)

Spec == Init /\ [][Next]_vars

\* Timers fire, a fetch answers or throws within its own timeout, and the
\* limiter serves its queue in order.
FairSpec ==
  /\ Spec
  /\ \A p \in Peer : WF_vars(BulkStep(p))
  /\ \A t \in Topic, p \in Peer : SF_vars(PullStep(t, p))

----------------------------------------------------------------------------
\* A peer is said to have no record of a contest only if it did not serve
\* the contest at some time since the request it answered went out: nothing
\* but such an answer ends a pull as "none" (makeRootPuller's serve and its
\* answer cache), unless the contest was left.  It holds while the contests of
\* a peer fit one answer (BulkMax).
NoRecordIsTrue ==
  \A k \in Topic \X Peer :
    pull[k].st = "none" /\ k[1] \in joined => 0 \in shown[k]

\* Every record of an answer reaches its contest, whether the contest had
\* asked, asked too late for the request, or not asked at all (accept's
\* onRecord): a contest that has not been left chases it, unless its own
\* rootRecord() threw when the record was to be compared with it.
AnswersReachContests ==
  \A p \in Peer : \A t \in joined :
    cached[p][t] \notin {0, ownRoot[t]} => <<t, cached[p][t]>> \in chased \cup dropped

\* Whoever waits is held by the batch or the request that will serve it, and
\* by one of them only; nobody is held who does not wait.
WaitersAreHeld ==
  \A t \in Topic, p \in Peer :
    /\ pull[<<t, p>>].st = "batched" <=> t \in batch[p]
    /\ pull[<<t, p>>].st = "flying" <=> t \in flight[p].asked

\* A pull once begun ends: with a record, with "none", or out of tries.
PullsEnd ==
  \A k \in Topic \X Peer : pull[k].st # "idle" ~> pull[k].st \in Ended
\* The state keeps its types, and every waiter is held once.
ColdStartInv == TypeOK /\ WaitersAreHeld
=============================================================================
