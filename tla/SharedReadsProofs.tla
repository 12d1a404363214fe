--------------------------- MODULE SharedReadsProofs ---------------------------
(***************************************************************************)
(* Requests that several parties share.  First the root puller of          *)
(* ColdStart: every waiter is held by exactly one batch or request, every  *)
(* answer reaches its contest, and a peer is believed to lack a record     *)
(* only when it did.  Then SoulboundRule: batches share the reads of the   *)
(* pool and what they remember, and a verdict still follows the holdings.  *)
(***************************************************************************)
EXTENDS ColdStart, SoulboundRule, FiniteSetTheorems, TLAPS

State == {"idle", "queued", "backoff"} \cup Waiting \cup Ended
Pull  == [st : State, tries : 0..MaxAttempts, got : Root]
Pulls == [Topic \X Peer -> Pull]

Flight  == [st : {"none", "sent", "storing"}, asked : SUBSET Topic, late : SUBSET Topic,
            answer : [Topic -> Root]]
Flights == [Peer -> Flight]

----------------------------------------------------------------------------
(* What the operators on pulls do to each pull.                            *)

LEMMA PullAt ==
  ASSUME pull \in Pulls, NEW t \in Topic, NEW p \in Peer
  PROVE  pull[<<t, p>>] \in Pull
BY DEF Pulls

LEMMA MovedStep ==
  ASSUME pull \in Pulls, NEW T \in SUBSET Topic, NEW p \in Peer, NEW st \in State,
         pull' = Moved(pull, T, p, st)
  PROVE  /\ pull' \in Pulls
         /\ \A u \in Topic, q \in Peer :
              /\ pull'[<<u, q>>].st = IF u \in T /\ q = p THEN st ELSE pull[<<u, q>>].st
              /\ pull'[<<u, q>>].tries = pull[<<u, q>>].tries
<1>1. \A u \in Topic, q \in Peer :
        pull'[<<u, q>>] = IF u \in T /\ q = p THEN [pull[<<u, q>>] EXCEPT !.st = st]
                          ELSE pull[<<u, q>>]
  BY Zenon DEF Moved, Pulls
<1>2. \A u \in Topic, q \in Peer : pull[<<u, q>>] \in Pull
  BY PullAt
<1>3. pull' \in Pulls
  BY DEF Moved, Pulls, Pull
<1> QED  BY <1>1, <1>2, <1>3 DEF Pull

LEMMA ServedStep ==
  ASSUME pull \in Pulls, NEW T \in SUBSET Topic, NEW p \in Peer,
         NEW answer \in [Topic -> Root], pull' = Served(T, p, answer)
  PROVE  /\ pull' \in Pulls
         /\ \A u \in Topic, q \in Peer :
              /\ pull'[<<u, q>>].st = IF u \in T /\ q = p
                                      THEN IF answer[u] = 0 THEN "none" ELSE "record"
                                      ELSE pull[<<u, q>>].st
              /\ pull'[<<u, q>>].tries = pull[<<u, q>>].tries
<1>1. \A u \in Topic, q \in Peer :
        pull'[<<u, q>>] = IF u \in T /\ q = p
                          THEN [pull[<<u, q>>] EXCEPT
                                  !.st = IF answer[u] = 0 THEN "none" ELSE "record",
                                  !.got = answer[u]]
                          ELSE pull[<<u, q>>]
  BY Zenon DEF Served, Pulls
<1>2. \A u \in Topic, q \in Peer : pull[<<u, q>>] \in Pull
  BY PullAt
<1>3. pull' = [k \in Topic \X Peer |-> pull'[k]]
  BY Zenon DEF Served, Pulls
<1>4. \A u \in Topic, q \in Peer : pull'[<<u, q>>] \in Pull
  <2> SUFFICES ASSUME NEW u \in Topic, NEW q \in Peer PROVE pull'[<<u, q>>] \in Pull
    OBVIOUS
  <2>1. (IF answer[u] = 0 THEN "none" ELSE "record") \in State /\ answer[u] \in Root
    BY DEF State, Ended
  <2> DEFINE s == IF answer[u] = 0 THEN "none" ELSE "record"
  <2>2. pull'[<<u, q>>] = IF u \in T /\ q = p
                          THEN [pull[<<u, q>>] EXCEPT !.st = s, !.got = answer[u]]
                          ELSE pull[<<u, q>>]
    BY <1>1
  <2>3. s \in State
    BY <2>1
  <2> HIDE DEF s
  <2> QED  BY <1>2, <2>1, <2>2, <2>3 DEF Pull
<1>5. pull' \in Pulls
  BY <1>3, <1>4 DEF Pulls
<1> QED  BY <1>1, <1>2, <1>5 DEF Pull

LEMMA ThrownStep ==
  ASSUME pull \in Pulls, NEW T \in SUBSET Topic, NEW p \in Peer, pull' = Thrown(T, p),
         \A t \in T : pull[<<t, p>>].tries < MaxAttempts
  PROVE  /\ pull' \in Pulls
         /\ \A u \in Topic, q \in Peer :
              IF u \in T /\ q = p
              THEN /\ pull'[<<u, q>>].tries = pull[<<u, q>>].tries + 1
                   /\ pull'[<<u, q>>].st \in {"failed", "backoff"}
                   /\ pull'[<<u, q>>].tries = MaxAttempts => pull'[<<u, q>>].st = "failed"
              ELSE /\ pull'[<<u, q>>].st = pull[<<u, q>>].st
                   /\ pull'[<<u, q>>].tries = pull[<<u, q>>].tries
<1> DEFINE n(u, q) == pull[<<u, q>>].tries + 1
           s(u, q) == IF n(u, q) = MaxAttempts \/ u \notin joined THEN "failed" ELSE "backoff"
<1>1. \A u \in Topic, q \in Peer :
        pull'[<<u, q>>] = IF u \in T /\ q = p
                          THEN [pull[<<u, q>>] EXCEPT !.tries = n(u, q), !.st = s(u, q)]
                          ELSE pull[<<u, q>>]
  BY Zenon DEF Thrown, Pulls
<1>2. \A u \in Topic, q \in Peer : pull[<<u, q>>] \in Pull
  BY PullAt
<1>3. pull' = [k \in Topic \X Peer |-> pull'[k]]
  BY Zenon DEF Thrown, Pulls
<1>4. \A u \in Topic, q \in Peer : pull'[<<u, q>>] \in Pull
  <2> SUFFICES ASSUME NEW u \in Topic, NEW q \in Peer PROVE pull'[<<u, q>>] \in Pull
    OBVIOUS
  <2>1. CASE u \in T /\ q = p
    <3>1. n(u, q) \in 0..MaxAttempts
      BY <2>1, <1>2, ColdStartAssumption DEF Pull
    <3>2. s(u, q) \in State
      BY DEF State, Ended
    <3>3. pull'[<<u, q>>] = [pull[<<u, q>>] EXCEPT !.tries = n(u, q), !.st = s(u, q)]
      BY <1>1, <2>1
    <3> HIDE DEF n, s
    <3> QED  BY <3>1, <3>2, <3>3, <1>2 DEF Pull
  <2>2. CASE ~ (u \in T /\ q = p)
    BY <2>2, <1>1, <1>2
  <2> QED  BY <2>1, <2>2
<1>5. pull' \in Pulls
  BY <1>3, <1>4 DEF Pulls
<1> QED  BY <1>1, <1>2, <1>5 DEF Pull

\* the same for the pull of one contest
LEMMA MovedOne ==
  ASSUME pull \in Pulls, NEW t \in Topic, NEW p \in Peer, NEW st \in State,
         pull' = Moved(pull, {t}, p, st)
  PROVE  /\ pull' \in Pulls
         /\ \A u \in Topic, q \in Peer :
              /\ pull'[<<u, q>>].st = IF u \in {t} /\ q = p THEN st ELSE pull[<<u, q>>].st
              /\ pull'[<<u, q>>].tries = pull[<<u, q>>].tries
<1> DEFINE T == {t}
<1>1. T \in SUBSET Topic /\ pull' = Moved(pull, T, p, st)
  OBVIOUS
<1>2. \A u : u \in {t} <=> u \in T
  OBVIOUS
<1> HIDE DEF T
<1>3. /\ pull' \in Pulls
      /\ \A u \in Topic, q \in Peer :
           /\ pull'[<<u, q>>].st = IF u \in T /\ q = p THEN st ELSE pull[<<u, q>>].st
           /\ pull'[<<u, q>>].tries = pull[<<u, q>>].tries
  BY ONLY pull \in Pulls, t \in Topic, p \in Peer, st \in State, <1>1, MovedStep
<1> QED  BY <1>2, <1>3

LEMMA ServedOne ==
  ASSUME pull \in Pulls, NEW t \in Topic, NEW p \in Peer,
         NEW answer \in [Topic -> Root], pull' = Served({t}, p, answer)
  PROVE  /\ pull' \in Pulls
         /\ \A u \in Topic, q \in Peer :
              /\ pull'[<<u, q>>].st = IF u \in {t} /\ q = p
                                      THEN IF answer[u] = 0 THEN "none" ELSE "record"
                                      ELSE pull[<<u, q>>].st
              /\ pull'[<<u, q>>].tries = pull[<<u, q>>].tries
<1> DEFINE T == {t}
<1>1. T \in SUBSET Topic /\ pull' = Served(T, p, answer)
  OBVIOUS
<1>2. \A u : u \in {t} <=> u \in T
  OBVIOUS
<1> HIDE DEF T
<1>3. /\ pull' \in Pulls
      /\ \A u \in Topic, q \in Peer :
           /\ pull'[<<u, q>>].st = IF u \in T /\ q = p
                                   THEN IF answer[u] = 0 THEN "none" ELSE "record"
                                   ELSE pull[<<u, q>>].st
           /\ pull'[<<u, q>>].tries = pull[<<u, q>>].tries
  BY ONLY pull \in Pulls, t \in Topic, p \in Peer, answer \in [Topic -> Root], <1>1, ServedStep
<1> QED  BY <1>2, <1>3

LEMMA ThrownOne ==
  ASSUME pull \in Pulls, NEW t \in Topic, NEW p \in Peer, pull' = Thrown({t}, p),
         pull[<<t, p>>].tries < MaxAttempts
  PROVE  /\ pull' \in Pulls
         /\ \A u \in Topic, q \in Peer :
              IF u \in {t} /\ q = p
              THEN /\ pull'[<<u, q>>].tries = pull[<<u, q>>].tries + 1
                   /\ pull'[<<u, q>>].st \in {"failed", "backoff"}
                   /\ pull'[<<u, q>>].tries = MaxAttempts => pull'[<<u, q>>].st = "failed"
              ELSE /\ pull'[<<u, q>>].st = pull[<<u, q>>].st
                   /\ pull'[<<u, q>>].tries = pull[<<u, q>>].tries
<1> DEFINE T == {t}
<1>1. T \in SUBSET Topic /\ pull' = Thrown(T, p)
  OBVIOUS
<1>2. (\A u : u \in {t} <=> u \in T) /\ \A v \in T : pull[<<v, p>>].tries < MaxAttempts
  OBVIOUS
<1> HIDE DEF T
<1>3. /\ pull' \in Pulls
      /\ \A u \in Topic, q \in Peer :
           IF u \in T /\ q = p
           THEN /\ pull'[<<u, q>>].tries = pull[<<u, q>>].tries + 1
                /\ pull'[<<u, q>>].st \in {"failed", "backoff"}
                /\ pull'[<<u, q>>].tries = MaxAttempts => pull'[<<u, q>>].st = "failed"
           ELSE /\ pull'[<<u, q>>].st = pull[<<u, q>>].st
                /\ pull'[<<u, q>>].tries = pull[<<u, q>>].tries
  BY ONLY pull \in Pulls, t \in Topic, p \in Peer, <1>1, <1>2, ThrownStep
<1> QED  BY <1>2, <1>3

----------------------------------------------------------------------------
(* One request at a time: who comes while one is in flight joins it, so    *)
(* that a batch gathers only while there is none.                          *)
OneRequest ==
  \A p \in Peer : /\ flight[p].st = "none" => flight[p].asked = {}
                  /\ flight[p].st # "none" => batch[p] = {}

(* A pull that has not ended has a try left.                               *)
TriesLeft ==
  \A k \in Topic \X Peer : pull[k].st \notin Ended => pull[k].tries < MaxAttempts

IInv == TypeOK /\ WaitersAreHeld /\ OneRequest /\ TriesLeft

LEMMA Starts == Init => IInv
<1> SUFFICES ASSUME Init PROVE IInv
  OBVIOUS
<1> USE ColdStartAssumption DEF Init
<1>1. TypeOK
  <2>1. {0, 1} \subseteq Root
    BY DEF Root
  <2>2. Nothing \in [Topic -> Root]
    BY <2>1 DEF Nothing
  <2> QED  BY <2>1, <2>2 DEF TypeOK, NoFlight, Waiting, Ended
<1>2. WaitersAreHeld
  BY DEF WaitersAreHeld, NoFlight
<1>3. OneRequest
  BY DEF OneRequest, NoFlight
<1>4. TriesLeft
  BY DEF TriesLeft, Ended
<1> QED  BY <1>1, <1>2, <1>3, <1>4 DEF IInv

LEMMA AnswerType ==
  ASSUME TypeOK, NEW p \in Peer, NEW answer \in bulkRootsAnswer(p)
  PROVE  answer \in [Topic -> Root]
<1>1. 0 \in Root
  BY ColdStartAssumption DEF Root
<1>2. PICK S : answer = [t \in Topic |-> IF t \in S THEN root[p][t] ELSE 0]
  BY DEF bulkRootsAnswer
<1>3. \A t \in Topic : root[p][t] \in Root
  BY DEF TypeOK
<1> QED  BY <1>1, <1>2, <1>3

LEMMA PullTyped == TypeOK => pull \in Pulls
BY DEF TypeOK, Pulls, Pull, State

LEMMA FlightTyped == TypeOK => flight \in Flights
BY DEF TypeOK, Flights, Flight

\* an action that moves pulls and the requests of the peers only
LEMMA PullsAndFlightsMove ==
  ASSUME TypeOK, pull' \in Pulls, flight' \in Flights, batch' \in [Peer -> SUBSET Topic],
         shown' \in [Topic \X Peer -> SUBSET Root],
         UNCHANGED <<root, joined, cached, handed, faults>>
  PROVE  TypeOK'
BY DEF TypeOK, handed, Pulls, Pull, State, Flights, Flight

----------------------------------------------------------------------------
LEMMA PeerMovesKeeps ==
  ASSUME IInv, NEW p \in Peer, NEW t \in Topic, PeerMoves(p, t)
  PROVE  IInv'
<1> USE DEF IInv, PeerMoves
<1>1. TypeOK'
  <2>1. root[p][t] \in Root
    BY DEF TypeOK
  <2>2. PICK r \in Root : root' = [root EXCEPT ![p][t] = r]
    <3>1. CASE root[p][t] < MaxRoot /\ root' = [root EXCEPT ![p][t] = @ + 1]
      <4>1. root[p][t] + 1 \in Root
        BY <3>1, <2>1, ColdStartAssumption DEF Root
      <4> QED  BY <3>1, <4>1
    <3>2. CASE root' = [root EXCEPT ![p][t] = 0]
      <4>1. 0 \in Root
        BY ColdStartAssumption DEF Root
      <4> QED  BY <3>2, <4>1
    <3> QED  BY <3>1, <3>2
  <2>3. root' \in [Peer -> [Topic -> Root]]
    BY <2>2 DEF TypeOK
  <2>4. shown' \in [Topic \X Peer -> SUBSET Root]
    <3>1. root'[p][t] \in Root
      BY <2>3
    <3> QED  BY <3>1 DEF TypeOK
  <2> QED  BY <2>3, <2>4 DEF TypeOK, handed
<1>2. WaitersAreHeld' /\ OneRequest' /\ TriesLeft'
  BY DEF WaitersAreHeld, OneRequest, TriesLeft
<1> QED  BY <1>1, <1>2

LEMMA AskKeeps ==
  ASSUME IInv, NEW p \in Peer, NEW t \in Topic, Ask(t, p)
  PROVE  IInv'
<1>1. /\ pull' \in Pulls
      /\ \A u \in Topic, q \in Peer :
           /\ pull'[<<u, q>>].st = IF u \in {t} /\ q = p THEN "queued" ELSE pull[<<u, q>>].st
           /\ pull'[<<u, q>>].tries = pull[<<u, q>>].tries
  BY PullTyped, MovedOne, SMTT(30) DEF IInv, Ask, State
<1>2. /\ pull[<<t, p>>].st = "idle"
      /\ UNCHANGED <<root, joined, batch, flight, cached, handed, faults>>
  BY DEF Ask
<1>3. TypeOK'
  <2>1. shown' \in [Topic \X Peer -> SUBSET Root]
    BY DEF IInv, Ask, TypeOK
  <2> QED  BY <1>1, <1>2, <2>1 DEF IInv, handed, TypeOK, Pulls, Pull, State
<1>4. WaitersAreHeld'
  <2> SUFFICES ASSUME NEW u \in Topic, NEW q \in Peer
               PROVE  /\ pull'[<<u, q>>].st = "batched" <=> u \in batch'[q]
                      /\ pull'[<<u, q>>].st = "flying" <=> u \in flight'[q].asked
    BY DEF WaitersAreHeld
  <2> QED  BY <1>1, <1>2 DEF IInv, WaitersAreHeld
<1>5. TriesLeft'
  BY <1>1, <1>2 DEF IInv, TriesLeft, Ended
<1> QED  BY <1>2, <1>3, <1>4, <1>5 DEF IInv, OneRequest

LEMMA LeaveKeeps ==
  ASSUME IInv, NEW t \in Topic, Leave(t)
  PROVE  IInv'
BY DEF IInv, Leave, peerState, handed, TypeOK, WaitersAreHeld, OneRequest, TriesLeft

LEMMA ChasesType ==
  ASSUME TypeOK, NEW T \in SUBSET Topic, NEW D \in SUBSET Topic,
         NEW answer \in [Topic -> Root], Chases(T, D, answer)
  PROVE  /\ chased' \subseteq Topic \X Root /\ dropped' \subseteq Topic \X Root
         /\ unread' \subseteq Topic /\ faults' \in 0..MaxFaults
<1>1. faults' \in 0..MaxFaults
  BY ColdStartAssumption DEF TypeOK, Chases
<1>2. unread' \subseteq Topic
  BY DEF TypeOK, Chases
<1>3. chased' \subseteq Topic \X Root /\ dropped' \subseteq Topic \X Root
  BY DEF TypeOK, Chases
<1> QED  BY <1>1, <1>2, <1>3

LEMMA AttemptKeeps ==
  ASSUME IInv, NEW p \in Peer, NEW t \in Topic, Attempt(t, p)
  PROVE  IInv'
<1>0. TypeOK
  BY DEF IInv
<1>1. pull \in Pulls
  BY <1>0, PullTyped
<1>2. pull[<<t, p>>].st = "queued" /\ UNCHANGED <<root, joined, cached>>
  BY DEF Attempt
<1>3. CASE cached[p][t] # 0
  <2>1. UNCHANGED <<batch, flight, shown>>
    BY <1>3 DEF Attempt, PullRoot
  <2>2. cached[p] \in [Topic -> Root]
    BY <1>0 DEF TypeOK
  <2>3. Chases({t}, {}, cached[p]) /\ pull' = Served({t}, p, cached[p])
    BY <1>3 DEF Attempt, PullRoot
  <2>4. /\ pull' \in Pulls
        /\ \A u \in Topic, q \in Peer :
             /\ pull'[<<u, q>>].st = IF u \in {t} /\ q = p
                                     THEN IF cached[p][u] = 0 THEN "none" ELSE "record"
                                     ELSE pull[<<u, q>>].st
             /\ pull'[<<u, q>>].tries = pull[<<u, q>>].tries
    <3>1. {t} \in SUBSET Topic
      OBVIOUS
    <3>2. pull' = Served({t}, p, cached[p])
      BY <2>3
    <3> QED  BY <1>1, <2>2, <3>1, <3>2, ServedOne
  <2>5. TypeOK'
    <3>1. PICK T \in SUBSET Topic, D \in SUBSET Topic : T = {t} /\ D = {}
      OBVIOUS
    <3>2. Chases(T, D, cached[p])
      BY <2>3, <3>1
    <3> QED  BY <1>0, <1>2, <2>1, <2>2, <2>4, <3>2, ChasesType DEF TypeOK, Pulls, Pull, State
  <2>6. WaitersAreHeld'
    <3> SUFFICES ASSUME NEW u \in Topic, NEW q \in Peer
                 PROVE  /\ pull'[<<u, q>>].st = "batched" <=> u \in batch'[q]
                        /\ pull'[<<u, q>>].st = "flying" <=> u \in flight'[q].asked
      BY DEF WaitersAreHeld
    <3>1. /\ pull[<<u, q>>].st = "batched" <=> u \in batch[q]
          /\ pull[<<u, q>>].st = "flying" <=> u \in flight[q].asked
      BY DEF IInv, WaitersAreHeld
    <3>2. batch' = batch /\ flight' = flight
      BY <2>1
    <3>3. CASE u = t /\ q = p
      BY <1>2, <2>4, <3>1, <3>2, <3>3
    <3>4. CASE ~(u = t /\ q = p)
      BY <2>4, <3>1, <3>2, <3>4
    <3> QED  BY <3>3, <3>4
  <2>7. TriesLeft'
    BY <1>2, <2>4 DEF IInv, TriesLeft, Ended
  <2> QED  BY <2>1, <2>5, <2>6, <2>7 DEF IInv, OneRequest
<1>4. CASE cached[p][t] = 0 /\ flight[p].st # "none"
  <2>1. /\ pull' \in Pulls
        /\ \A u \in Topic, q \in Peer :
             /\ pull'[<<u, q>>].st = IF u \in {t} /\ q = p THEN "flying"
                                     ELSE pull[<<u, q>>].st
             /\ pull'[<<u, q>>].tries = pull[<<u, q>>].tries
    <3>1. {t} \in SUBSET Topic /\ "flying" \in State
      BY DEF State, Waiting
    <3>2. pull' = Moved(pull, {t}, p, "flying")
      BY <1>4 DEF Attempt, PullRoot
    <3> QED  BY <1>1, <3>1, <3>2, MovedOne
  <2>2. UNCHANGED <<batch, handed, faults, shown>>
    BY <1>4 DEF Attempt, PullRoot
  <2>3. flight' = [flight EXCEPT ![p].asked = @ \cup {t}, ![p].late = @ \cup {t}]
    BY <1>4 DEF Attempt, PullRoot
  <2>4. TypeOK'
    <3>1. flight \in Flights /\ flight[p] \in Flight
      BY <1>0, FlightTyped DEF Flights
    <3>2. [flight[p] EXCEPT !.asked = @ \cup {t}, !.late = @ \cup {t}] \in Flight
      BY <3>1 DEF Flight
    <3>3. flight' \in Flights
      BY <2>3, <3>1, <3>2 DEF Flights
    <3>4. batch \in [Peer -> SUBSET Topic] /\ shown \in [Topic \X Peer -> SUBSET Root]
      BY <1>0 DEF TypeOK
    <3> QED  BY <1>0, <1>2, <2>1, <2>2, <3>3, <3>4, PullsAndFlightsMove
  <2>5. \A q \in Peer : /\ flight'[q].asked = flight[q].asked \cup (IF q = p THEN {t} ELSE {})
                        /\ flight'[q].st = flight[q].st
    BY <1>0, <2>3 DEF TypeOK
  <2>6. WaitersAreHeld'
    <3> SUFFICES ASSUME NEW u \in Topic, NEW q \in Peer
                 PROVE  /\ pull'[<<u, q>>].st = "batched" <=> u \in batch'[q]
                        /\ pull'[<<u, q>>].st = "flying" <=> u \in flight'[q].asked
      BY DEF WaitersAreHeld
    <3> QED  BY <1>2, <2>1, <2>2, <2>5 DEF IInv, WaitersAreHeld
  <2>7. OneRequest'
    BY <1>4, <2>2, <2>5 DEF IInv, OneRequest
  <2>8. TriesLeft'
    BY <1>2, <2>1 DEF IInv, TriesLeft, Ended
  <2> QED  BY <2>4, <2>6, <2>7, <2>8 DEF IInv
<1>5. CASE cached[p][t] = 0 /\ flight[p].st = "none"
  <2>1. /\ pull' \in Pulls
        /\ \A u \in Topic, q \in Peer :
             /\ pull'[<<u, q>>].st = IF u \in {t} /\ q = p THEN "batched"
                                     ELSE pull[<<u, q>>].st
             /\ pull'[<<u, q>>].tries = pull[<<u, q>>].tries
    <3>1. {t} \in SUBSET Topic /\ "batched" \in State
      BY DEF State, Waiting
    <3>2. pull' = Moved(pull, {t}, p, "batched")
      BY <1>5 DEF Attempt, PullRoot
    <3> QED  BY <1>1, <3>1, <3>2, MovedOne
  <2>2. UNCHANGED <<flight, handed, faults, shown>>
    BY <1>5 DEF Attempt, PullRoot
  <2>3. batch' = [batch EXCEPT ![p] = @ \cup {t}]
    BY <1>5 DEF Attempt, PullRoot
  <2>4. TypeOK'
    BY <1>0, <1>2, <2>1, <2>2, <2>3 DEF TypeOK, handed, Pulls, Pull, State
  <2>5. \A q \in Peer : batch'[q] = batch[q] \cup (IF q = p THEN {t} ELSE {})
    BY <1>0, <2>3 DEF TypeOK
  <2>6. WaitersAreHeld'
    <3> SUFFICES ASSUME NEW u \in Topic, NEW q \in Peer
                 PROVE  /\ pull'[<<u, q>>].st = "batched" <=> u \in batch'[q]
                        /\ pull'[<<u, q>>].st = "flying" <=> u \in flight'[q].asked
      BY DEF WaitersAreHeld
    <3>1. /\ pull[<<u, q>>].st = "batched" <=> u \in batch[q]
          /\ pull[<<u, q>>].st = "flying" <=> u \in flight[q].asked
      BY DEF IInv, WaitersAreHeld
    <3>2. flight' = flight
      BY <2>2
    <3>3. CASE u = t /\ q = p
      BY <1>2, <2>1, <2>5, <3>1, <3>2, <3>3
    <3>4. CASE ~(u = t /\ q = p)
      BY <2>1, <2>5, <3>1, <3>2, <3>4
    <3> QED  BY <3>3, <3>4
  <2>7. OneRequest'
    BY <1>5, <2>2, <2>5 DEF IInv, OneRequest
  <2>8. TriesLeft'
    BY <1>2, <2>1 DEF IInv, TriesLeft, Ended
  <2> QED  BY <2>4, <2>6, <2>7, <2>8 DEF IInv
<1> QED  BY <1>3, <1>4, <1>5

LEMMA RetryFiresKeeps ==
  ASSUME IInv, NEW p \in Peer, NEW t \in Topic, RetryFires(t, p)
  PROVE  IInv'
<1>0. TypeOK /\ WaitersAreHeld /\ OneRequest /\ TriesLeft
  BY DEF IInv
<1>1. pull \in Pulls
  BY <1>0, PullTyped
<1>2. /\ pull[<<t, p>>].st = "backoff"
      /\ UNCHANGED <<root, shown, joined, batch, flight, cached, handed, faults>>
  BY DEF RetryFires, peerState
<1>3. PICK st \in {"queued", "none"} : pull' = Moved(pull, {t}, p, st)
  BY DEF RetryFires
<1>4. /\ pull' \in Pulls
      /\ \A u \in Topic, q \in Peer :
           /\ pull'[<<u, q>>].st = IF u \in {t} /\ q = p THEN st ELSE pull[<<u, q>>].st
           /\ pull'[<<u, q>>].tries = pull[<<u, q>>].tries
  <2>1. {t} \in SUBSET Topic /\ st \in State
    BY DEF State, Ended
  <2> QED  BY <1>1, <1>3, <2>1, MovedOne
<1>5. TypeOK'
  BY <1>0, <1>2, <1>4 DEF TypeOK, handed, Pulls, Pull, State
<1>6. WaitersAreHeld'
  <2> SUFFICES ASSUME NEW u \in Topic, NEW q \in Peer
               PROVE  /\ pull'[<<u, q>>].st = "batched" <=> u \in batch'[q]
                      /\ pull'[<<u, q>>].st = "flying" <=> u \in flight'[q].asked
    BY DEF WaitersAreHeld
  <2> QED  BY <1>0, <1>2, <1>4 DEF WaitersAreHeld
<1>7. TriesLeft'
  BY <1>0, <1>2, <1>4 DEF TriesLeft, Ended
<1> QED  BY <1>0, <1>2, <1>5, <1>6, <1>7 DEF IInv, OneRequest

LEMMA FlushKeeps ==
  ASSUME IInv, NEW p \in Peer, Flush(p)
  PROVE  IInv'
<1>0. TypeOK /\ WaitersAreHeld /\ OneRequest /\ TriesLeft
  BY DEF IInv
<1>1. pull \in Pulls
  BY <1>0, PullTyped
<1>2. batch[p] \in SUBSET Topic /\ batch[p] # {} /\ flight[p].asked = {}
  BY <1>0 DEF Flush, TypeOK, OneRequest
<1>3. UNCHANGED <<root, joined, cached, handed, faults>>
  BY DEF Flush
<1>4. /\ pull' \in Pulls
      /\ \A u \in Topic, q \in Peer :
           /\ pull'[<<u, q>>].st = IF u \in batch[p] /\ q = p THEN "flying"
                                   ELSE pull[<<u, q>>].st
           /\ pull'[<<u, q>>].tries = pull[<<u, q>>].tries
  <2>1. pull' = Moved(pull, batch[p], p, "flying") /\ "flying" \in State
    BY DEF Flush, State, Waiting
  <2> QED  BY <1>1, <1>2, <2>1, MovedStep
<1>5. /\ batch' = [batch EXCEPT ![p] = {}]
      /\ flight' = [flight EXCEPT ![p] = [st |-> "sent", asked |-> batch[p], late |-> {},
                                              answer |-> Nothing]]
  BY DEF Flush
<1>6. TypeOK'
  <2>1. Nothing \in [Topic -> Root]
    BY ColdStartAssumption DEF Nothing, Root
  <2>2. shown' \in [Topic \X Peer -> SUBSET Root]
    <3>1. \A k \in Topic \X Peer : root[p][k[1]] \in Root
      BY <1>0 DEF TypeOK
    <3> QED  BY <1>0, <3>1 DEF Flush, TypeOK
  <2> QED  BY <1>0, <1>2, <1>3, <1>4, <1>5, <2>1, <2>2 DEF TypeOK, handed, Pulls, Pull, State
<1>7. \A q \in Peer :
        IF q = p THEN batch'[q] = {} /\ flight'[q].asked = batch[q] /\ flight'[q].st = "sent"
        ELSE batch'[q] = batch[q] /\ flight'[q] = flight[q]
  BY <1>0, <1>5 DEF TypeOK
<1>8. WaitersAreHeld'
  <2> SUFFICES ASSUME NEW u \in Topic, NEW q \in Peer
               PROVE  /\ pull'[<<u, q>>].st = "batched" <=> u \in batch'[q]
                      /\ pull'[<<u, q>>].st = "flying" <=> u \in flight'[q].asked
    BY DEF WaitersAreHeld
  <2>1. /\ pull[<<u, q>>].st = "batched" <=> u \in batch[q]
        /\ pull[<<u, q>>].st = "flying" <=> u \in flight[q].asked
    BY <1>0 DEF WaitersAreHeld
  <2>2. CASE q = p
    BY <1>2, <1>4, <1>7, <2>1, <2>2
  <2>3. CASE q # p
    BY <1>4, <1>7, <2>1, <2>3
  <2> QED  BY <2>2, <2>3
<1>9. OneRequest'
  <2> SUFFICES ASSUME NEW q \in Peer
               PROVE  /\ flight'[q].st = "none" => flight'[q].asked = {}
                      /\ flight'[q].st # "none" => batch'[q] = {}
    BY DEF OneRequest
  <2>1. CASE q = p
    BY <1>7, <2>1
  <2>2. CASE q # p
    BY <1>0, <1>7, <2>2 DEF OneRequest
  <2> QED  BY <2>1, <2>2
<1>10. TriesLeft'
  <2> SUFFICES ASSUME NEW u \in Topic, NEW q \in Peer, pull'[<<u, q>>].st \notin Ended
               PROVE  pull'[<<u, q>>].tries < MaxAttempts
    BY DEF TriesLeft
  <2>1. pull[<<u, q>>].st \notin Ended
    <3>1. CASE u \in batch[p] /\ q = p
      BY <1>0, <3>1 DEF WaitersAreHeld, Ended
    <3>2. CASE ~ (u \in batch[p] /\ q = p)
      BY <1>4, <3>2
    <3> QED  BY <3>1, <3>2
  <2> QED  BY <1>0, <1>4, <2>1 DEF TriesLeft
<1> QED  BY <1>6, <1>8, <1>9, <1>10 DEF IInv

LEMMA BulkAnswersKeeps ==
  ASSUME IInv, NEW p \in Peer, BulkAnswers(p)
  PROVE  IInv'
<1>0. TypeOK /\ WaitersAreHeld /\ OneRequest /\ TriesLeft
  BY DEF IInv
<1>1. PICK answer \in bulkRootsAnswer(p) :
        flight' = [flight EXCEPT ![p].st = "storing", ![p].answer = answer]
  BY DEF BulkAnswers
<1>2. answer \in [Topic -> Root]
  BY <1>0, AnswerType
<1>3. UNCHANGED <<root, shown, joined, pull, batch, cached, handed, faults>>
  BY DEF BulkAnswers, peerState
<1>4. flight[p].st = "sent"
  BY DEF BulkAnswers
<1>5. TypeOK'
  <2>1. flight \in Flights /\ flight[p] \in Flight
    BY <1>0, FlightTyped DEF Flights
  <2>2. [flight[p] EXCEPT !.st = "storing", !.answer = answer] \in Flight
    BY <1>2, <2>1 DEF Flight
  <2>3. flight' \in Flights
    BY <1>1, <2>1, <2>2 DEF Flights
  <2>4. batch \in [Peer -> SUBSET Topic] /\ shown \in [Topic \X Peer -> SUBSET Root]
    BY <1>0 DEF TypeOK
  <2>5. pull \in Pulls
    BY <1>0, PullTyped
  <2> QED  BY <1>0, <1>3, <2>3, <2>4, <2>5, PullsAndFlightsMove
<1>6. \A q \in Peer : /\ flight'[q].asked = flight[q].asked
                      /\ flight'[q].st = IF q = p THEN "storing" ELSE flight[q].st
  BY <1>0, <1>1 DEF TypeOK
<1>7. WaitersAreHeld' /\ OneRequest' /\ TriesLeft'
  BY <1>0, <1>3, <1>4, <1>6 DEF WaitersAreHeld, OneRequest, TriesLeft
<1> QED  BY <1>5, <1>7 DEF IInv

(* A request that ends releases those it holds.                            *)
LEMMA Released ==
  ASSUME TypeOK, WaitersAreHeld, OneRequest, NEW p \in Peer, flight[p].st # "none",
         flight' = [flight EXCEPT ![p] = NoFlight], batch' = batch,
         \A u \in Topic, q \in Peer :
           IF u \in flight[p].asked /\ q = p THEN pull'[<<u, q>>].st \notin {"batched", "flying"}
           ELSE pull'[<<u, q>>].st = pull[<<u, q>>].st
  PROVE  WaitersAreHeld' /\ OneRequest'
<1>1. \A q \in Peer : IF q = p THEN flight'[q].st = "none" /\ flight'[q].asked = {}
                      ELSE flight'[q] = flight[q]
  BY DEF TypeOK, NoFlight
<1>2. batch[p] = {}
  BY DEF OneRequest
<1>3. WaitersAreHeld'
  <2> SUFFICES ASSUME NEW u \in Topic, NEW q \in Peer
               PROVE  /\ pull'[<<u, q>>].st = "batched" <=> u \in batch'[q]
                      /\ pull'[<<u, q>>].st = "flying" <=> u \in flight'[q].asked
    BY DEF WaitersAreHeld
  <2>1. /\ pull[<<u, q>>].st = "batched" <=> u \in batch[q]
        /\ pull[<<u, q>>].st = "flying" <=> u \in flight[q].asked
    BY DEF WaitersAreHeld
  <2>2. CASE q = p
    <3>1. CASE u \in flight[p].asked
      BY <1>1, <1>2, <2>2, <3>1
    <3>2. CASE u \notin flight[p].asked
      BY <1>1, <1>2, <2>1, <2>2, <3>2
    <3> QED  BY <3>1, <3>2
  <2>3. CASE q # p
    BY <1>1, <2>1, <2>3
  <2> QED  BY <2>2, <2>3
<1>4. OneRequest'
  <2> SUFFICES ASSUME NEW q \in Peer
               PROVE  /\ flight'[q].st = "none" => flight'[q].asked = {}
                      /\ flight'[q].st # "none" => batch'[q] = {}
    BY DEF OneRequest
  <2>1. CASE q = p
    BY <1>1, <2>1
  <2>2. CASE q # p
    BY <1>1, <2>2 DEF OneRequest
  <2> QED  BY <2>1, <2>2
<1> QED  BY <1>3, <1>4

LEMMA ReleasedType ==
  ASSUME TypeOK, NEW p \in Peer, flight' = [flight EXCEPT ![p] = NoFlight]
  PROVE  flight' \in [Peer -> [st : {"none", "sent", "storing"}, asked : SUBSET Topic,
                               late : SUBSET Topic, answer : [Topic -> Root]]]
<1>1. Nothing \in [Topic -> Root]
  BY ColdStartAssumption DEF Nothing, Root
<1>2. NoFlight \in [st : {"none", "sent", "storing"}, asked : SUBSET Topic,
                    late : SUBSET Topic, answer : [Topic -> Root]]
  BY <1>1 DEF NoFlight
<1> QED  BY <1>2 DEF TypeOK

LEMMA NoBulkAnswerKeeps ==
  ASSUME IInv, NEW p \in Peer, NoBulkAnswer(p)
  PROVE  IInv'
<1>0. TypeOK /\ WaitersAreHeld /\ OneRequest /\ TriesLeft
  BY DEF IInv
<1>1. pull \in Pulls
  BY <1>0, PullTyped
<1>2. flight[p].asked \in SUBSET Topic /\ flight[p].st # "none"
  BY <1>0 DEF NoBulkAnswer, TypeOK
<1>3. UNCHANGED <<root, shown, joined, batch, cached, handed, faults>>
  BY DEF NoBulkAnswer, peerState
<1>4. /\ pull' \in Pulls
      /\ \A u \in Topic, q \in Peer :
           /\ pull'[<<u, q>>].st = IF u \in flight[p].asked /\ q = p THEN "single"
                                   ELSE pull[<<u, q>>].st
           /\ pull'[<<u, q>>].tries = pull[<<u, q>>].tries
  <2>1. pull' = Moved(pull, flight[p].asked, p, "single") /\ "single" \in State
    BY DEF NoBulkAnswer, State, Waiting
  <2> QED  BY <1>1, <1>2, <2>1, MovedStep
<1>5. flight' = [flight EXCEPT ![p] = NoFlight]
  BY DEF NoBulkAnswer
<1>6. TypeOK'
  <2>1. flight' \in [Peer -> [st : {"none", "sent", "storing"}, asked : SUBSET Topic,
                              late : SUBSET Topic, answer : [Topic -> Root]]]
    BY <1>0, <1>5, ReleasedType
  <2> QED  BY <1>0, <1>3, <1>4, <2>1 DEF TypeOK, handed, Pulls, Pull, State
<1>7. WaitersAreHeld' /\ OneRequest'
  <2>1. \A u \in Topic, q \in Peer :
          IF u \in flight[p].asked /\ q = p THEN pull'[<<u, q>>].st \notin {"batched", "flying"}
          ELSE pull'[<<u, q>>].st = pull[<<u, q>>].st
    BY <1>4
  <2>2. batch' = batch
    BY <1>3
  <2> QED  BY <1>0, <1>2, <1>5, <2>1, <2>2, Released
<1>8. TriesLeft'
  <2> SUFFICES ASSUME NEW u \in Topic, NEW q \in Peer, pull'[<<u, q>>].st \notin Ended
               PROVE  pull'[<<u, q>>].tries < MaxAttempts
    BY DEF TriesLeft
  <2>1. pull[<<u, q>>].st \notin Ended
    <3>1. CASE u \in flight[p].asked /\ q = p
      BY <1>0, <3>1 DEF WaitersAreHeld, Ended
    <3>2. CASE ~ (u \in flight[p].asked /\ q = p)
      BY <1>4, <3>2
    <3> QED  BY <3>1, <3>2
  <2> QED  BY <1>0, <1>4, <2>1 DEF TriesLeft
<1> QED  BY <1>6, <1>7, <1>8 DEF IInv

LEMMA BulkThrowsKeeps ==
  ASSUME IInv, NEW p \in Peer, BulkThrows(p)
  PROVE  IInv'
<1>0. TypeOK /\ WaitersAreHeld /\ OneRequest /\ TriesLeft
  BY DEF IInv
<1>1. pull \in Pulls
  BY <1>0, PullTyped
<1>2. flight[p].asked \in SUBSET Topic /\ flight[p].st # "none"
  BY <1>0 DEF BulkThrows, TypeOK
<1>3. UNCHANGED <<root, shown, joined, batch, cached, handed>>
  BY DEF BulkThrows, peerState
<1>4. /\ pull' \in Pulls
      /\ \A u \in Topic, q \in Peer :
           IF u \in flight[p].asked /\ q = p
           THEN /\ pull'[<<u, q>>].tries = pull[<<u, q>>].tries + 1
                /\ pull'[<<u, q>>].st \in {"failed", "backoff"}
                /\ pull'[<<u, q>>].tries = MaxAttempts => pull'[<<u, q>>].st = "failed"
           ELSE /\ pull'[<<u, q>>].st = pull[<<u, q>>].st
                /\ pull'[<<u, q>>].tries = pull[<<u, q>>].tries
  <2>1. pull' = Thrown(flight[p].asked, p)
    BY DEF BulkThrows
  <2>2. \A t \in flight[p].asked : pull[<<t, p>>].tries < MaxAttempts
    <3>1. \A t \in flight[p].asked : pull[<<t, p>>].st = "flying"
      BY <1>0, <1>2 DEF WaitersAreHeld
    <3> QED  BY <1>0, <1>2, <3>1 DEF TriesLeft, Ended
  <2> QED  BY <1>1, <1>2, <2>1, <2>2, ThrownStep
<1>5. flight' = [flight EXCEPT ![p] = NoFlight]
  BY DEF BulkThrows
<1>6. TypeOK'
  <2>1. flight' \in [Peer -> [st : {"none", "sent", "storing"}, asked : SUBSET Topic,
                              late : SUBSET Topic, answer : [Topic -> Root]]]
    BY <1>0, <1>5, ReleasedType
  <2>2. faults' \in 0..MaxFaults
    BY <1>0, ColdStartAssumption DEF TypeOK, BulkThrows
  <2> QED  BY <1>0, <1>3, <1>4, <2>1, <2>2 DEF TypeOK, handed, Pulls, Pull, State
<1>7. WaitersAreHeld' /\ OneRequest'
  <2>1. \A u \in Topic, q \in Peer :
          IF u \in flight[p].asked /\ q = p THEN pull'[<<u, q>>].st \notin {"batched", "flying"}
          ELSE pull'[<<u, q>>].st = pull[<<u, q>>].st
    BY <1>4
  <2>2. batch' = batch
    BY <1>3
  <2> QED  BY <1>0, <1>2, <1>5, <2>1, <2>2, Released
<1>8. TriesLeft'
  <2> SUFFICES ASSUME NEW u \in Topic, NEW q \in Peer, pull'[<<u, q>>].st \notin Ended
               PROVE  pull'[<<u, q>>].tries < MaxAttempts
    BY DEF TriesLeft
  <2>1. CASE u \in flight[p].asked /\ q = p
    <3>1. pull'[<<u, q>>].tries \in 0..MaxAttempts
      BY <1>4 DEF Pulls, Pull
    <3> QED  BY <1>4, <2>1, <3>1, ColdStartAssumption DEF Ended
  <2>2. CASE ~ (u \in flight[p].asked /\ q = p)
    BY <1>0, <1>4, <2>2 DEF TriesLeft
  <2> QED  BY <2>1, <2>2
<1> QED  BY <1>6, <1>7, <1>8 DEF IInv

LEMMA AcceptKeeps ==
  ASSUME IInv, NEW p \in Peer, Accept(p)
  PROVE  IInv'
<1>0. TypeOK /\ WaitersAreHeld /\ OneRequest /\ TriesLeft
  BY DEF IInv
<1>1. pull \in Pulls
  BY <1>0, PullTyped
<1>2. /\ flight[p].asked \in SUBSET Topic /\ flight[p].st # "none"
      /\ flight[p].answer \in [Topic -> Root]
  BY <1>0 DEF Accept, TypeOK
<1>3. UNCHANGED <<root, shown, joined, batch>>
  BY DEF Accept, peerState
<1>4. /\ pull' \in Pulls
      /\ \A u \in Topic, q \in Peer :
           /\ pull'[<<u, q>>].st = IF u \in flight[p].asked /\ q = p
                                   THEN IF flight[p].answer[u] = 0 THEN "none" ELSE "record"
                                   ELSE pull[<<u, q>>].st
           /\ pull'[<<u, q>>].tries = pull[<<u, q>>].tries
  <2>1. pull' = Served(flight[p].asked, p, flight[p].answer)
    BY DEF Accept
  <2> QED  BY <1>1, <1>2, <2>1, ServedStep
<1>5. flight' = [flight EXCEPT ![p] = NoFlight]
  BY DEF Accept
<1>6. TypeOK'
  <2>1. flight' \in [Peer -> [st : {"none", "sent", "storing"}, asked : SUBSET Topic,
                              late : SUBSET Topic, answer : [Topic -> Root]]]
    BY <1>0, <1>5, ReleasedType
  <2>2. /\ chased' \subseteq Topic \X Root /\ dropped' \subseteq Topic \X Root
        /\ unread' \subseteq Topic /\ faults' \in 0..MaxFaults
    <3>1. Others(p) \in SUBSET Topic
      BY <1>0 DEF Others, TypeOK
    <3>2. Chases(flight[p].asked, Others(p), flight[p].answer)
      BY DEF Accept
    <3> QED  BY <1>0, <1>2, <3>1, <3>2, ChasesType
  <2>3. cached' \in [Peer -> [Topic -> Root]]
    BY <1>0, <1>2 DEF Accept, TypeOK
  <2> QED  BY <1>0, <1>3, <1>4, <2>1, <2>2, <2>3 DEF TypeOK, Pulls, Pull, State
<1>7. WaitersAreHeld' /\ OneRequest'
  <2>1. \A u \in Topic, q \in Peer :
          IF u \in flight[p].asked /\ q = p THEN pull'[<<u, q>>].st \notin {"batched", "flying"}
          ELSE pull'[<<u, q>>].st = pull[<<u, q>>].st
    BY <1>4
  <2>2. batch' = batch
    BY <1>3
  <2> QED  BY <1>0, <1>2, <1>5, <2>1, <2>2, Released
<1>8. TriesLeft'
  <2> SUFFICES ASSUME NEW u \in Topic, NEW q \in Peer, pull'[<<u, q>>].st \notin Ended
               PROVE  pull'[<<u, q>>].tries < MaxAttempts
    BY DEF TriesLeft
  <2>1. ~ (u \in flight[p].asked /\ q = p)
    BY <1>4 DEF Ended
  <2> QED  BY <1>0, <1>4, <2>1 DEF TriesLeft
<1> QED  BY <1>6, <1>7, <1>8 DEF IInv

LEMMA CacheExpiresKeeps ==
  ASSUME IInv, NEW p \in Peer, CacheExpires(p)
  PROVE  IInv'
<1>1. UNCHANGED <<root, shown, joined, pull, batch, flight, handed, faults>>
  BY DEF CacheExpires, peerState
<1>2. Nothing \in [Topic -> Root]
  BY ColdStartAssumption DEF Nothing, Root
<1>3. cached' \in [Peer -> [Topic -> Root]]
  BY <1>2 DEF IInv, CacheExpires, TypeOK
<1> QED  BY <1>1, <1>3 DEF IInv, handed, TypeOK, WaitersAreHeld, OneRequest, TriesLeft

(* A pull that nobody holds moves to where nobody holds it.                *)
LEMMA Unheld ==
  ASSUME WaitersAreHeld, NEW p \in Peer, NEW t \in Topic, pull[<<t, p>>].st = "single",
         batch' = batch, flight' = flight,
         \A u \in Topic, q \in Peer :
           IF u = t /\ q = p THEN pull'[<<u, q>>].st \notin {"batched", "flying"}
           ELSE pull'[<<u, q>>].st = pull[<<u, q>>].st
  PROVE  WaitersAreHeld'
<1> SUFFICES ASSUME NEW u \in Topic, NEW q \in Peer
             PROVE  /\ pull'[<<u, q>>].st = "batched" <=> u \in batch'[q]
                    /\ pull'[<<u, q>>].st = "flying" <=> u \in flight'[q].asked
  BY DEF WaitersAreHeld
<1>1. /\ pull[<<u, q>>].st = "batched" <=> u \in batch[q]
      /\ pull[<<u, q>>].st = "flying" <=> u \in flight[q].asked
  BY DEF WaitersAreHeld
<1>2. CASE u = t /\ q = p
  BY <1>1, <1>2
<1>3. CASE ~ (u = t /\ q = p)
  BY <1>1, <1>3
<1> QED  BY <1>2, <1>3

LEMMA SingleAnswersKeeps ==
  ASSUME IInv, NEW p \in Peer, NEW t \in Topic, SingleAnswers(t, p)
  PROVE  IInv'
<1>0. TypeOK /\ WaitersAreHeld /\ OneRequest /\ TriesLeft
  BY DEF IInv
<1>1. pull \in Pulls
  BY <1>0, PullTyped
<1>2. PICK answer \in [Topic -> Root] : answer = root[p]
  BY <1>0 DEF TypeOK
<1>3. UNCHANGED <<root, shown, joined, batch, flight, cached>>
  BY DEF SingleAnswers, peerState
<1>4. /\ pull' \in Pulls
      /\ \A u \in Topic, q \in Peer :
           /\ pull'[<<u, q>>].st = IF u \in {t} /\ q = p
                                   THEN IF answer[u] = 0 THEN "none" ELSE "record"
                                   ELSE pull[<<u, q>>].st
           /\ pull'[<<u, q>>].tries = pull[<<u, q>>].tries
  <2>1. pull' = Served({t}, p, answer)
    BY <1>2 DEF SingleAnswers
  <2>2. {t} \in SUBSET Topic
    OBVIOUS
  <2> QED  BY <1>1, <2>1, <2>2, ServedOne
<1>5. TypeOK'
  <2>1. /\ chased' \subseteq Topic \X Root /\ dropped' \subseteq Topic \X Root
        /\ unread' \subseteq Topic /\ faults' \in 0..MaxFaults
    <3>1. PICK T \in SUBSET Topic, D \in SUBSET Topic : T = {t} /\ D = {}
      OBVIOUS
    <3>2. Chases(T, D, answer)
      BY <1>2, <3>1 DEF SingleAnswers
    <3> QED  BY <1>0, <3>2, ChasesType
  <2> QED  BY <1>0, <1>3, <1>4, <2>1 DEF TypeOK, Pulls, Pull, State
<1>6. WaitersAreHeld'
  <2>1. \A u \in Topic, q \in Peer :
          IF u = t /\ q = p THEN pull'[<<u, q>>].st \notin {"batched", "flying"}
          ELSE pull'[<<u, q>>].st = pull[<<u, q>>].st
    BY <1>4
  <2>2. pull[<<t, p>>].st = "single"
    BY DEF SingleAnswers
  <2>3. batch' = batch /\ flight' = flight
    BY <1>3
  <2> QED  BY <1>0, <2>1, <2>2, <2>3, Unheld
<1>7. TriesLeft'
  <2> SUFFICES ASSUME NEW u \in Topic, NEW q \in Peer, pull'[<<u, q>>].st \notin Ended
               PROVE  pull'[<<u, q>>].tries < MaxAttempts
    BY DEF TriesLeft
  <2>1. ~ (u \in {t} /\ q = p)
    BY <1>4 DEF Ended
  <2> QED  BY <1>0, <1>4, <2>1 DEF TriesLeft
<1> QED  BY <1>0, <1>3, <1>5, <1>6, <1>7 DEF IInv, OneRequest

LEMMA SingleThrowsKeeps ==
  ASSUME IInv, NEW p \in Peer, NEW t \in Topic, SingleThrows(t, p)
  PROVE  IInv'
<1>0. TypeOK /\ WaitersAreHeld /\ OneRequest /\ TriesLeft
  BY DEF IInv
<1>1. pull \in Pulls
  BY <1>0, PullTyped
<1>2. pull[<<t, p>>].st = "single" /\ {t} \in SUBSET Topic
  BY DEF SingleThrows
<1>3. UNCHANGED <<root, shown, joined, batch, flight, cached, handed>>
  BY DEF SingleThrows, peerState
<1>4. /\ pull' \in Pulls
      /\ \A u \in Topic, q \in Peer :
           IF u \in {t} /\ q = p
           THEN /\ pull'[<<u, q>>].tries = pull[<<u, q>>].tries + 1
                /\ pull'[<<u, q>>].st \in {"failed", "backoff"}
                /\ pull'[<<u, q>>].tries = MaxAttempts => pull'[<<u, q>>].st = "failed"
           ELSE /\ pull'[<<u, q>>].st = pull[<<u, q>>].st
                /\ pull'[<<u, q>>].tries = pull[<<u, q>>].tries
  <2>1. pull' = Thrown({t}, p)
    BY DEF SingleThrows
  <2>2. pull[<<t, p>>].tries < MaxAttempts
    BY <1>0, <1>2 DEF TriesLeft, Ended
  <2> QED  BY <1>1, <1>2, <2>1, <2>2, ThrownOne
<1>5. TypeOK'
  <2>1. faults' \in 0..MaxFaults
    BY <1>0, ColdStartAssumption DEF TypeOK, SingleThrows
  <2> QED  BY <1>0, <1>3, <1>4, <2>1 DEF TypeOK, handed, Pulls, Pull, State
<1>6. WaitersAreHeld'
  <2>1. \A u \in Topic, q \in Peer :
          IF u = t /\ q = p THEN pull'[<<u, q>>].st \notin {"batched", "flying"}
          ELSE pull'[<<u, q>>].st = pull[<<u, q>>].st
    BY <1>4
  <2>2. batch' = batch /\ flight' = flight
    BY <1>3
  <2> QED  BY <1>0, <1>2, <2>1, <2>2, Unheld
<1>7. TriesLeft'
  <2> SUFFICES ASSUME NEW u \in Topic, NEW q \in Peer, pull'[<<u, q>>].st \notin Ended
               PROVE  pull'[<<u, q>>].tries < MaxAttempts
    BY DEF TriesLeft
  <2>1. CASE u \in {t} /\ q = p
    <3>1. pull'[<<u, q>>].tries \in 0..MaxAttempts
      BY <1>4 DEF Pulls, Pull
    <3> QED  BY <1>4, <2>1, <3>1, ColdStartAssumption DEF Ended
  <2>2. CASE ~ (u \in {t} /\ q = p)
    BY <1>0, <1>4, <2>2 DEF TriesLeft
  <2> QED  BY <2>1, <2>2
<1> QED  BY <1>0, <1>3, <1>5, <1>6, <1>7 DEF IInv, OneRequest

LEMMA Continues == IInv /\ [Next]_vars => IInv'
<1> SUFFICES ASSUME IInv, [Next]_vars PROVE IInv'
  OBVIOUS
<1>1. ASSUME NEW t \in Topic, Leave(t) PROVE IInv'
  BY <1>1, LeaveKeeps
<1>2. ASSUME NEW p \in Peer, CacheExpires(p) \/ BulkStep(p) PROVE IInv'
  BY <1>2, CacheExpiresKeeps, FlushKeeps, BulkAnswersKeeps, NoBulkAnswerKeeps,
     BulkThrowsKeeps, AcceptKeeps DEF BulkStep
<1>3. ASSUME NEW t \in Topic, NEW p \in Peer, PeerMoves(p, t) \/ Ask(t, p) \/ PullStep(t, p)
      PROVE  IInv'
  BY <1>3, PeerMovesKeeps, AskKeeps, AttemptKeeps, RetryFiresKeeps, SingleAnswersKeeps,
     SingleThrowsKeeps DEF PullStep
<1>4. CASE UNCHANGED vars
  BY <1>4 DEF vars, handed, IInv, TypeOK, WaitersAreHeld, OneRequest, TriesLeft
<1> QED  BY <1>1, <1>2, <1>3, <1>4 DEF Next

(* A batch gathers only while no request is in flight, and every pull that *)
(* has not ended has a try left (makeRootPuller, #fetchRootWithRetry).     *)
THEOREM Inductive == Spec => []IInv
BY Starts, Continues, PTL DEF Spec

(* Whatever contests and peers there are, and however pulls join, batches  *)
(* go out, answers, throws and leaves interleave: a pull that waits is in  *)
(* exactly one batch or request, and nobody else is in any.                *)
THEOREM EveryWaiterIsHeld == Spec => []ColdStartInv
<1>1. IInv => ColdStartInv
  BY DEF IInv, ColdStartInv
<1> QED  BY <1>1, Inductive, PTL

----------------------------------------------------------------------------
(* Every record of a cached answer was handed to the chaser of its contest *)
(* when the answer came, whether the contest had asked for it or not,      *)
(* unless the own root it is to be compared with could not be had.         *)
THEOREM AnswersReach == Spec => []AnswersReachContests
<1>1. Init => AnswersReachContests
  BY DEF Init, AnswersReachContests, Nothing
<1>2. TypeOK /\ AnswersReachContests /\ [Next]_vars => AnswersReachContests'
  <2> SUFFICES ASSUME TypeOK, AnswersReachContests, [Next]_vars
               PROVE  AnswersReachContests'
    OBVIOUS
  <2>1. chased \cup dropped \subseteq chased' \cup dropped' /\ joined' \subseteq joined
    <3>1. \A T, D, answer : Chases(T, D, answer) =>
            chased \cup dropped \subseteq chased' \cup dropped'
      BY DEF Chases
    <3>2. ASSUME NEW t \in Topic, NEW p \in Peer, PullStep(t, p)
          PROVE  chased \cup dropped \subseteq chased' \cup dropped' /\ joined' = joined
      BY <3>1, <3>2
         DEF PullStep, Attempt, PullRoot, RetryFires, SingleAnswers, SingleThrows, handed
    <3>3. ASSUME NEW p \in Peer, BulkStep(p)
          PROVE  chased \cup dropped \subseteq chased' \cup dropped' /\ joined' = joined
      BY <3>1, <3>3 DEF BulkStep, Flush, BulkAnswers, NoBulkAnswer, BulkThrows, Accept, handed
    <3> QED  BY <3>2, <3>3 DEF Next, Leave, CacheExpires, PeerMoves, Ask, vars, handed
  <2>2. \/ cached' = cached
        \/ \E p \in Peer : Accept(p)
        \/ \E p \in Peer : cached' = [cached EXCEPT ![p] = Nothing]
    BY DEF Next, Leave, CacheExpires, PeerMoves, Ask, vars, PullStep, Attempt, RetryFires,
           SingleAnswers, SingleThrows, BulkStep, Flush, BulkAnswers, NoBulkAnswer, BulkThrows
  <2>3. CASE cached' = cached
    BY <2>1, <2>3 DEF AnswersReachContests
  <2>4. ASSUME NEW p \in Peer, Accept(p) PROVE AnswersReachContests'
    <3> SUFFICES ASSUME NEW q \in Peer, NEW t \in joined,
                        cached'[q][t] \notin {0, ownRoot[t]}
                 PROVE  <<t, cached'[q][t]>> \in chased' \cup dropped'
      BY <2>4 DEF AnswersReachContests, Accept, peerState
    <3>1. CASE q = p
      <4>1. /\ cached'[p] = flight[p].answer
            /\ Chases(flight[p].asked, Others(p), flight[p].answer)
        BY <2>4 DEF Accept, TypeOK
      <4>2. t \in flight[p].asked \/ t \in Others(p) \cap joined
        BY <2>4 DEF Others, TypeOK
      <4> QED  BY <3>1, <4>1, <4>2, SMTT(30) DEF Chases
    <3>2. CASE q # p
      BY <2>1, <2>4, <3>2 DEF Accept, TypeOK, AnswersReachContests
    <3> QED  BY <3>1, <3>2
  <2>5. ASSUME NEW p \in Peer, cached' = [cached EXCEPT ![p] = Nothing]
        PROVE  AnswersReachContests'
    <3> SUFFICES ASSUME NEW q \in Peer, NEW t \in joined,
                        cached'[q][t] \notin {0, ownRoot[t]}
                 PROVE  <<t, cached'[q][t]>> \in chased' \cup dropped'
      BY <2>1 DEF AnswersReachContests
    <3>1. q # p
      BY <2>5 DEF TypeOK, Nothing
    <3> QED  BY <2>1, <2>5, <3>1 DEF TypeOK, AnswersReachContests
  <2> QED  BY <2>2, <2>3, <2>4, <2>5
<1>3. IInv => TypeOK
  BY DEF IInv
<1> QED  BY <1>1, <1>2, <1>3, Inductive, PTL DEF Spec

----------------------------------------------------------------------------
(* What a pull was shown.  From the moment its request is on its way, or   *)
(* one it may still join, it has seen what the peer serves now, and zero if*)
(* the answer in hand leaves its contest out.                              *)
GroundedAt(t, p) ==
  /\ /\ pull[<<t, p>>].st \notin Ended
     /\ pull[<<t, p>>].st # "idle" \/ flight[p].st # "none"
     => root[p][t] \in shown[<<t, p>>]
  /\ /\ pull[<<t, p>>].st \notin Ended
     /\ flight[p].st = "storing" /\ flight[p].answer[t] = 0
     => 0 \in shown[<<t, p>>]
  /\ pull[<<t, p>>].st = "none" /\ t \in joined => 0 \in shown[<<t, p>>]

Grounded == \A t \in Topic, p \in Peer : GroundedAt(t, p)

(* Where the peer is not heard and no request begins, it is enough that no *)
(* pull is begun or revived, and that one which ends as "none" was shown   *)
(* zero.                                                                   *)
LEMMA Quiet ==
  ASSUME NEW t \in Topic, NEW p \in Peer, GroundedAt(t, p),
         root' = root, shown' = shown, joined' \subseteq joined,
         pull'[<<t, p>>].st \notin Ended =>
           /\ pull[<<t, p>>].st \notin Ended
           /\ pull'[<<t, p>>].st # "idle" => pull[<<t, p>>].st # "idle",
         flight'[p].st # "none" =>
           flight'[p].st = flight[p].st /\ flight'[p].answer = flight[p].answer,
         pull'[<<t, p>>].st = "none" /\ t \in joined' =>
           pull[<<t, p>>].st = "none" \/ 0 \in shown[<<t, p>>]
  PROVE  GroundedAt(t, p)'
BY DEF GroundedAt

(* With room for every contest of the peer, an answer leaves out only what *)
(* the peer does not serve.                                                *)
LEMMA AbsentIsUnserved ==
  ASSUME TypeOK, IsFiniteSet(Topic), Cardinality(Topic) <= BulkMax,
         NEW p \in Peer, NEW answer \in bulkRootsAnswer(p), NEW t \in Topic, answer[t] = 0
  PROVE  root[p][t] = 0
<1> DEFINE serving == {u \in Topic : root[p][u] # 0}
           size == IF Cardinality(serving) > BulkMax THEN BulkMax ELSE Cardinality(serving)
<1>1. IsFiniteSet(serving) /\ Cardinality(serving) <= Cardinality(Topic)
  BY FS_Subset
<1>2. Cardinality(serving) \in Nat /\ Cardinality(Topic) \in Nat
  BY <1>1, FS_CardinalityType
<1>3. size = Cardinality(serving)
  BY <1>1, <1>2, ColdStartAssumption
<1>4. PICK S \in {X \in SUBSET serving : Cardinality(X) = size} :
        answer = [u \in Topic |-> IF u \in S THEN root[p][u] ELSE 0]
  BY DEF bulkRootsAnswer
<1>5. S = serving
  BY <1>1, <1>3, <1>4, FS_Subset
<1> QED  BY <1>4, <1>5

LEMMA ListeningGrounds ==
  ASSUME IInv, Grounded, NEW p \in Peer, NEW t \in Topic, PeerMoves(p, t)
  PROVE  Grounded'
<1> SUFFICES ASSUME NEW u \in Topic, NEW q \in Peer PROVE GroundedAt(u, q)'
  BY DEF Grounded
<1>1. GroundedAt(u, q)
  BY DEF Grounded
<1>2. UNCHANGED <<joined, pull, flight>>
  BY DEF PeerMoves
<1>3. CASE u = t /\ q = p
  <2>1. CASE pull[<<t, p>>].st \in Ended
    BY <1>1, <1>2, <1>3, <2>1 DEF GroundedAt, PeerMoves
  <2>2. CASE pull[<<t, p>>].st \notin Ended
    <3>1. shown' = [shown EXCEPT ![<<t, p>>] = @ \cup {root'[p][t]}]
      BY <2>2 DEF PeerMoves
    <3>2. shown'[<<t, p>>] = shown[<<t, p>>] \cup {root'[p][t]}
      BY <3>1 DEF IInv, TypeOK
    <3> QED  BY <1>1, <1>2, <1>3, <2>2, <3>2 DEF GroundedAt
  <2> QED  BY <2>1, <2>2
<1>4. CASE ~ (u = t /\ q = p)
  <2>1. root'[q][u] = root[q][u]
    BY <1>4 DEF PeerMoves, IInv, TypeOK
  <2>2. shown'[<<u, q>>] = shown[<<u, q>>]
    BY <1>4 DEF PeerMoves, IInv, TypeOK
  <2> QED  BY <1>1, <1>2, <2>1, <2>2 DEF GroundedAt
<1> QED  BY <1>3, <1>4

LEMMA AskGrounds ==
  ASSUME IInv, Grounded, NEW p \in Peer, NEW t \in Topic, Ask(t, p)
  PROVE  Grounded'
<1> SUFFICES ASSUME NEW u \in Topic, NEW q \in Peer PROVE GroundedAt(u, q)'
  BY DEF Grounded
<1>1. GroundedAt(u, q)
  BY DEF Grounded
<1>2. pull[<<t, p>>].st = "idle" /\ UNCHANGED <<root, joined, flight>>
  BY DEF Ask
<1>3. pull'[<<u, q>>].st = IF u \in {t} /\ q = p THEN "queued" ELSE pull[<<u, q>>].st
  <2>1. pull \in Pulls /\ "queued" \in State
    BY PullTyped DEF IInv, State
  <2>2. pull' = Moved(pull, {t}, p, "queued")
    BY DEF Ask
  <2> QED  BY <2>1, <2>2, MovedOne
<1>4. shown'[<<u, q>>] = IF u = t /\ q = p /\ flight[p].st = "none" THEN {root[p][t]}
                         ELSE shown[<<u, q>>]
  BY DEF Ask, IInv, TypeOK
<1>5. CASE u = t /\ q = p
  BY <1>1, <1>2, <1>3, <1>4, <1>5 DEF GroundedAt, Ended
<1>6. CASE ~ (u = t /\ q = p)
  BY <1>1, <1>2, <1>3, <1>4, <1>6 DEF GroundedAt
<1> QED  BY <1>5, <1>6

LEMMA FlushGrounds ==
  ASSUME IInv, Grounded, NEW p \in Peer, Flush(p)
  PROVE  Grounded'
<1> SUFFICES ASSUME NEW u \in Topic, NEW q \in Peer PROVE GroundedAt(u, q)'
  BY DEF Grounded
<1>0. GroundedAt(u, q) /\ TypeOK /\ WaitersAreHeld
  BY DEF Grounded, IInv
<1>1. UNCHANGED <<root, joined>>
  BY DEF Flush
<1>2. pull'[<<u, q>>].st = IF u \in batch[p] /\ q = p THEN "flying" ELSE pull[<<u, q>>].st
  <2>1. pull' = Moved(pull, batch[p], p, "flying") /\ "flying" \in State
    BY DEF Flush, State, Waiting
  <2>2. pull \in Pulls /\ batch[p] \in SUBSET Topic
    BY <1>0, PullTyped DEF TypeOK
  <2> QED  BY <2>1, <2>2, MovedStep
<1>3. u \in batch[p] /\ q = p => pull[<<u, q>>].st \notin Ended
  BY <1>0 DEF WaitersAreHeld, Ended
<1>4. shown'[<<u, q>>] = IF q = p /\ pull[<<u, q>>].st \notin Ended THEN {root[p][u]}
                         ELSE shown[<<u, q>>]
  BY <1>0 DEF Flush, TypeOK
<1>5. CASE q = p
  <2>1. flight'[q].st = "sent"
    BY <1>0, <1>5 DEF Flush, TypeOK
  <2> QED  BY <1>0, <1>1, <1>2, <1>3, <1>4, <1>5, <2>1 DEF GroundedAt, Ended
<1>6. CASE q # p
  <2>1. flight'[q] = flight[q]
    BY <1>0, <1>6 DEF Flush, TypeOK
  <2> QED  BY <1>0, <1>1, <1>2, <1>4, <1>6, <2>1 DEF GroundedAt
<1> QED  BY <1>5, <1>6

LEMMA AnswerGrounds ==
  ASSUME IsFiniteSet(Topic), Cardinality(Topic) <= BulkMax,
         IInv, Grounded, NEW p \in Peer, BulkAnswers(p)
  PROVE  Grounded'
<1> SUFFICES ASSUME NEW u \in Topic, NEW q \in Peer PROVE GroundedAt(u, q)'
  BY DEF Grounded
<1>0. GroundedAt(u, q) /\ TypeOK
  BY DEF Grounded, IInv
<1>1. PICK answer \in bulkRootsAnswer(p) :
        flight' = [flight EXCEPT ![p].st = "storing", ![p].answer = answer]
  BY DEF BulkAnswers
<1>2. UNCHANGED <<root, shown, joined, pull>> /\ flight[p].st = "sent"
  BY DEF BulkAnswers, peerState
<1>3. CASE q = p
  <2>1. flight'[q].st = "storing" /\ flight'[q].answer = answer
    BY <1>0, <1>1, <1>3 DEF TypeOK
  <2>2. answer[u] = 0 => root[p][u] = 0
    BY <1>0, AbsentIsUnserved
  <2> QED  BY <1>0, <1>2, <1>3, <2>1, <2>2 DEF GroundedAt
<1>4. CASE q # p
  <2>1. flight'[q] = flight[q]
    BY <1>0, <1>1, <1>4 DEF TypeOK
  <2> QED  BY <1>0, <1>2, <2>1 DEF GroundedAt
<1> QED  BY <1>3, <1>4

LEMMA AttemptGrounds ==
  ASSUME IInv, Grounded, NEW p \in Peer, NEW t \in Topic, Attempt(t, p)
  PROVE  Grounded'
<1> SUFFICES ASSUME NEW u \in Topic, NEW q \in Peer PROVE GroundedAt(u, q)'
  BY DEF Grounded
<1>0. GroundedAt(u, q) /\ TypeOK
  BY DEF Grounded, IInv
<1>1. pull \in Pulls
  BY <1>0, PullTyped
<1>2. pull[<<t, p>>].st = "queued" /\ root' = root /\ joined' = joined /\ shown' = shown
  BY DEF Attempt, PullRoot
<1>3. flight'[q].st = flight[q].st /\ flight'[q].answer = flight[q].answer
  <2>1. CASE flight' = flight
    BY <2>1
  <2>2. CASE flight' = [flight EXCEPT ![p].asked = @ \cup {t}, ![p].late = @ \cup {t}]
    BY <1>0, <2>2 DEF TypeOK
  <2> QED  BY <2>1, <2>2 DEF Attempt, PullRoot
<1>4. IF u = t /\ q = p THEN pull'[<<u, q>>].st \in {"record", "flying", "batched"}
      ELSE pull'[<<u, q>>].st = pull[<<u, q>>].st
  <2>0. {t} \in SUBSET Topic
    OBVIOUS
  <2>1. CASE cached[p][t] # 0
    <3>1. PICK answer \in [Topic -> Root] : answer = cached[p]
      BY <1>0 DEF TypeOK
    <3>2. pull' = Served({t}, p, answer)
      BY <2>1, <3>1 DEF Attempt, PullRoot
    <3>3. pull'[<<u, q>>].st = IF u \in {t} /\ q = p
                               THEN IF answer[u] = 0 THEN "none" ELSE "record"
                               ELSE pull[<<u, q>>].st
      BY <1>1, <2>0, <3>2, ServedOne
    <3>4. answer[t] # 0
      BY <2>1, <3>1
    <3> QED  BY <3>3, <3>4
  <2>2. CASE cached[p][t] = 0
    <3>1. PICK st \in {"flying", "batched"} : pull' = Moved(pull, {t}, p, st)
      BY <2>2 DEF Attempt, PullRoot
    <3>2. st \in State
      BY DEF State, Waiting
    <3>4. pull' = Moved(pull, {t}, p, st)
      BY <3>1
    <3>3. pull'[<<u, q>>].st = IF u \in {t} /\ q = p THEN st ELSE pull[<<u, q>>].st
      BY <1>1, <2>0, <3>2, <3>4, MovedOne
    <3> QED  BY <3>3
  <2> QED  BY <2>1, <2>2
<1> QED  BY <1>0, <1>2, <1>3, <1>4, Quiet DEF Ended

LEMMA RetryGrounds ==
  ASSUME IInv, Grounded, NEW p \in Peer, NEW t \in Topic, RetryFires(t, p)
  PROVE  Grounded'
<1> SUFFICES ASSUME NEW u \in Topic, NEW q \in Peer PROVE GroundedAt(u, q)'
  BY DEF Grounded
<1>0. GroundedAt(u, q)
  BY DEF Grounded
<1>1. pull \in Pulls
  BY PullTyped DEF IInv
<1>2. pull[<<t, p>>].st = "backoff" /\ UNCHANGED <<root, shown, joined, flight>>
  BY DEF RetryFires, peerState
<1>3. PICK st \in {"queued", "none"} :
        pull' = Moved(pull, {t}, p, st) /\ (st = "none" => t \notin joined)
  BY DEF RetryFires
<1>4. pull'[<<u, q>>].st = IF u \in {t} /\ q = p THEN st ELSE pull[<<u, q>>].st
  <2>1. {t} \in SUBSET Topic /\ st \in State
    BY DEF State, Ended
  <2> QED  BY <1>1, <1>3, <2>1, MovedOne
<1> QED  BY <1>0, <1>2, <1>3, <1>4, Quiet DEF Ended

LEMMA SingleAnswersGrounds ==
  ASSUME IInv, Grounded, NEW p \in Peer, NEW t \in Topic, SingleAnswers(t, p)
  PROVE  Grounded'
<1> SUFFICES ASSUME NEW u \in Topic, NEW q \in Peer PROVE GroundedAt(u, q)'
  BY DEF Grounded
<1>0. GroundedAt(u, q)
  BY DEF Grounded
<1>1. pull \in Pulls
  BY PullTyped DEF IInv
<1>2. pull[<<t, p>>].st = "single" /\ UNCHANGED <<root, shown, joined, flight>>
  BY DEF SingleAnswers, peerState
<1>3. PICK answer \in [Topic -> Root] : answer = root[p]
  BY DEF IInv, TypeOK
<1>4. pull'[<<u, q>>].st = IF u \in {t} /\ q = p
                           THEN IF answer[u] = 0 THEN "none" ELSE "record"
                           ELSE pull[<<u, q>>].st
  <2>1. pull' = Served({t}, p, answer)
    BY <1>3 DEF SingleAnswers
  <2>2. {t} \in SUBSET Topic
    OBVIOUS
  <2> QED  BY <1>1, <2>1, <2>2, ServedOne
<1>5. u = t /\ q = p => root[q][u] \in shown[<<u, q>>]
  BY <1>0, <1>2 DEF GroundedAt, Ended
<1>6. pull'[<<u, q>>].st \notin Ended =>
        /\ pull[<<u, q>>].st \notin Ended
        /\ pull'[<<u, q>>].st # "idle" => pull[<<u, q>>].st # "idle"
  BY <1>4 DEF Ended
<1>7. pull'[<<u, q>>].st = "none" => pull[<<u, q>>].st = "none" \/ 0 \in shown[<<u, q>>]
  BY <1>3, <1>4, <1>5
<1> QED  BY <1>0, <1>2, <1>6, <1>7, Quiet

LEMMA SingleThrowsGrounds ==
  ASSUME IInv, Grounded, NEW p \in Peer, NEW t \in Topic, SingleThrows(t, p)
  PROVE  Grounded'
<1> SUFFICES ASSUME NEW u \in Topic, NEW q \in Peer PROVE GroundedAt(u, q)'
  BY DEF Grounded
<1>0. GroundedAt(u, q)
  BY DEF Grounded
<1>1. pull \in Pulls
  BY PullTyped DEF IInv
<1>2. pull[<<t, p>>].st = "single" /\ UNCHANGED <<root, shown, joined, flight>>
  BY DEF SingleThrows, peerState
<1>3. IF u \in {t} /\ q = p THEN pull'[<<u, q>>].st \in {"failed", "backoff"}
      ELSE pull'[<<u, q>>].st = pull[<<u, q>>].st
  <2>1. pull' = Thrown({t}, p)
    BY DEF SingleThrows
  <2>2. pull[<<t, p>>].tries < MaxAttempts
    BY <1>2 DEF IInv, TriesLeft, Ended
  <2>3. /\ pull' \in Pulls
        /\ \A v \in Topic, r \in Peer :
             IF v \in {t} /\ r = p
             THEN /\ pull'[<<v, r>>].tries = pull[<<v, r>>].tries + 1
                  /\ pull'[<<v, r>>].st \in {"failed", "backoff"}
                  /\ pull'[<<v, r>>].tries = MaxAttempts => pull'[<<v, r>>].st = "failed"
             ELSE /\ pull'[<<v, r>>].st = pull[<<v, r>>].st
                  /\ pull'[<<v, r>>].tries = pull[<<v, r>>].tries
    BY <1>1, <2>1, <2>2, ThrownOne
  <2> QED  BY <2>3
<1>4. pull'[<<u, q>>].st \notin Ended =>
        /\ pull[<<u, q>>].st \notin Ended
        /\ pull'[<<u, q>>].st # "idle" => pull[<<u, q>>].st # "idle"
  BY <1>2, <1>3 DEF Ended
<1>5. pull'[<<u, q>>].st = "none" => pull[<<u, q>>].st = "none"
  BY <1>3
<1> QED  BY <1>0, <1>2, <1>4, <1>5, Quiet

LEMMA NoBulkAnswerGrounds ==
  ASSUME IInv, Grounded, NEW p \in Peer, NoBulkAnswer(p)
  PROVE  Grounded'
<1> SUFFICES ASSUME NEW u \in Topic, NEW q \in Peer PROVE GroundedAt(u, q)'
  BY DEF Grounded
<1>0. GroundedAt(u, q) /\ TypeOK /\ WaitersAreHeld
  BY DEF Grounded, IInv
<1>1. pull \in Pulls /\ flight[p].asked \in SUBSET Topic
  BY <1>0, PullTyped DEF TypeOK
<1>2. UNCHANGED <<root, shown, joined>>
  BY DEF NoBulkAnswer, peerState
<1>3. pull'[<<u, q>>].st = IF u \in flight[p].asked /\ q = p THEN "single"
                           ELSE pull[<<u, q>>].st
  <2>1. pull' = Moved(pull, flight[p].asked, p, "single") /\ "single" \in State
    BY DEF NoBulkAnswer, State, Waiting
  <2> QED  BY <1>1, <2>1, MovedStep
<1>4. u \in flight[p].asked /\ q = p => pull[<<u, q>>].st = "flying"
  BY <1>0 DEF WaitersAreHeld
<1>5. flight'[q].st # "none" => flight'[q] = flight[q]
  BY <1>0 DEF NoBulkAnswer, NoFlight, TypeOK
<1> QED  BY <1>0, <1>2, <1>3, <1>4, <1>5, Quiet DEF Ended

LEMMA BulkThrowsGrounds ==
  ASSUME IInv, Grounded, NEW p \in Peer, BulkThrows(p)
  PROVE  Grounded'
<1> SUFFICES ASSUME NEW u \in Topic, NEW q \in Peer PROVE GroundedAt(u, q)'
  BY DEF Grounded
<1>0. GroundedAt(u, q) /\ TypeOK /\ WaitersAreHeld /\ TriesLeft
  BY DEF Grounded, IInv
<1>1. pull \in Pulls
  BY <1>0, PullTyped
<1>6. flight[p].asked \in SUBSET Topic
  BY <1>0 DEF TypeOK
<1>2. UNCHANGED <<root, shown, joined>>
  BY DEF BulkThrows, peerState
<1>3. \A t \in flight[p].asked : pull[<<t, p>>].st = "flying"
  BY <1>0, <1>6 DEF WaitersAreHeld
<1>4. IF u \in flight[p].asked /\ q = p THEN pull'[<<u, q>>].st \in {"failed", "backoff"}
      ELSE pull'[<<u, q>>].st = pull[<<u, q>>].st
  <2>1. pull' = Thrown(flight[p].asked, p)
    BY DEF BulkThrows
  <2>2. \A t \in flight[p].asked : pull[<<t, p>>].tries < MaxAttempts
    BY <1>0, <1>6, <1>3 DEF TriesLeft, Ended
  <2>3. PICK T \in SUBSET Topic : T = flight[p].asked
    BY <1>6
  <2>4. pull' = Thrown(T, p) /\ \A t \in T : pull[<<t, p>>].tries < MaxAttempts
    BY <2>1, <2>2, <2>3
  <2>5. IF u \in T /\ q = p THEN pull'[<<u, q>>].st \in {"failed", "backoff"}
        ELSE pull'[<<u, q>>].st = pull[<<u, q>>].st
    BY <1>1, <2>4, ThrownStep
  <2> QED  BY <2>3, <2>5
<1>5. flight'[q].st # "none" => flight'[q] = flight[q]
  BY <1>0 DEF BulkThrows, NoFlight, TypeOK
<1> QED  BY <1>0, <1>2, <1>3, <1>4, <1>5, Quiet DEF Ended

LEMMA AcceptGrounds ==
  ASSUME IInv, Grounded, NEW p \in Peer, Accept(p)
  PROVE  Grounded'
<1> SUFFICES ASSUME NEW u \in Topic, NEW q \in Peer PROVE GroundedAt(u, q)'
  BY DEF Grounded
<1>0. GroundedAt(u, q) /\ TypeOK /\ WaitersAreHeld
  BY DEF Grounded, IInv
<1>1. pull \in Pulls /\ flight[p].asked \in SUBSET Topic /\ flight[p].answer \in [Topic -> Root]
  BY <1>0, PullTyped DEF TypeOK
<1>2. UNCHANGED <<root, shown, joined>> /\ flight[p].st = "storing"
  BY DEF Accept, peerState
<1>3. pull'[<<u, q>>].st = IF u \in flight[p].asked /\ q = p
                           THEN IF flight[p].answer[u] = 0 THEN "none" ELSE "record"
                           ELSE pull[<<u, q>>].st
  <2>1. pull' = Served(flight[p].asked, p, flight[p].answer)
    BY DEF Accept
  <2> QED  BY <1>1, <2>1, ServedStep
<1>4. u \in flight[p].asked /\ q = p => pull[<<u, q>>].st = "flying"
  BY <1>0 DEF WaitersAreHeld
<1>5. flight'[q].st # "none" => flight'[q] = flight[q]
  BY <1>0 DEF Accept, NoFlight, TypeOK
<1>6. u \in flight[p].asked /\ q = p /\ flight[p].answer[u] = 0 => 0 \in shown[<<u, q>>]
  BY <1>0, <1>2, <1>4 DEF GroundedAt, Ended
<1> QED  BY <1>0, <1>2, <1>3, <1>4, <1>5, <1>6, Quiet DEF Ended

(* A peer is believed to lack a record only if it did, at some time since  *)
(* the request went out; provided that its contests fit a bulk answer.     *)
THEOREM AbsenceIsTrue ==
  ASSUME IsFiniteSet(Topic), Cardinality(Topic) <= BulkMax
  PROVE  Spec => []NoRecordIsTrue
<1>1. Init => Grounded
  BY DEF Init, Grounded, GroundedAt, NoFlight
<1>2. IInv /\ Grounded /\ [Next]_vars => Grounded'
  <2> SUFFICES ASSUME IInv, Grounded, [Next]_vars PROVE Grounded'
    OBVIOUS
  <2>1. ASSUME NEW t \in Topic, Leave(t) PROVE Grounded'
    BY <2>1 DEF Leave, peerState, Grounded, GroundedAt
  <2>2. ASSUME NEW p \in Peer, CacheExpires(p) \/ BulkStep(p) PROVE Grounded'
    <3>1. CASE CacheExpires(p)
      BY <3>1 DEF CacheExpires, peerState, Grounded, GroundedAt
    <3> QED  BY <2>2, <3>1, FlushGrounds, AnswerGrounds, NoBulkAnswerGrounds, BulkThrowsGrounds,
                AcceptGrounds DEF BulkStep
  <2>3. ASSUME NEW t \in Topic, NEW p \in Peer, PeerMoves(p, t) \/ Ask(t, p) \/ PullStep(t, p)
        PROVE  Grounded'
    BY <2>3, ListeningGrounds, AskGrounds, AttemptGrounds, RetryGrounds, SingleAnswersGrounds,
       SingleThrowsGrounds DEF PullStep
  <2>4. CASE UNCHANGED vars
    BY <2>4 DEF vars, Grounded, GroundedAt
  <2> QED  BY <2>1, <2>2, <2>3, <2>4 DEF Next
<1>3. Grounded => NoRecordIsTrue
  <2> SUFFICES ASSUME Grounded, NEW k \in Topic \X Peer, pull[k].st = "none", k[1] \in joined
               PROVE  0 \in shown[k]
    BY DEF NoRecordIsTrue
  <2>1. PICK t \in Topic, p \in Peer : k = <<t, p>>
    OBVIOUS
  <2> QED  BY <2>1 DEF Grounded, GroundedAt
<1> QED  BY <1>1, <1>2, <1>3, Inductive, PTL DEF Spec

----------------------------------------------------------------------------
(***************************************************************************)
(* SoulboundRule.  What a batch knows is what the chain said, whoever      *)
(* read it and whenever: HoldingsInv.  It needs nothing of the pool.       *)
(***************************************************************************)

BatchState ==
  [pc : {"idle", "head", "lock", "bal", "done", "failed"},
   leg : Leg, head : Block, sample : Block,
   wallets : SUBSET Wallet, admitted : SUBSET Wallet,
   got : SUBSET Question, missing : SUBSET Question,
   waits : SUBSET Question, failed : BOOLEAN, again : BOOLEAN]

\* the chain and the head reader
ChainShape ==
  /\ held \in Histories /\ declares \in BOOLEAN
  /\ now \in Block /\ sampled \in Block \cup {NoBlock} /\ sampled <= now
  /\ memo \subseteq Entry

\* what a batch has of its leg is there only while the leg runs
InOrder(k) ==
  /\ k.pc \in {"idle", "head"} =>
       k.leg = "head" /\ k.admitted = {} /\ k.missing = {} /\ k.waits = {}
  /\ k.pc \in {"lock", "bal"} => k.missing \subseteq Asked(k)
  /\ k.waits \subseteq k.missing
  /\ k.waits # {} => k.pc \in {"lock", "bal"}
  /\ k.missing # {} => k.pc \in {"lock", "bal"} \/ (k.pc = "failed" /\ k.failed)

\* the chain gave this answer at the block of the leg, or in the head's window
Told(k, q, v) ==
  \E b \in (IF k.leg = "pin" THEN {k.sample} ELSE Window(k.head)) : v = Answer(b, q)

\* while some answers are read, those that were remembered are true
FoundIsTrue(k) ==
  k.pc \in {"lock", "bal"} /\ k.missing # {} =>
    /\ k.got \subseteq Asked(k) \ k.missing
    /\ \A q \in Asked(k) \ k.missing : Told(k, q, IF q \in k.got THEN 1 ELSE 0)

Admits(k) ==
  /\ k.pc = "bal" => declares
  /\ \A w \in k.admitted :
       declares /\ (w \in held[k.sample] \/ \E b \in Window(k.head) : w \in held[b])

Refuses(k) ==
  declares =>
    /\ k.leg = "pin" => \A w \in Open(k) : \E b \in Window(k.head) : w \notin held[b]
    /\ k.pc = "done" => \A w \in Open(k) :
         w \notin held[k.sample] /\ \E b \in Window(k.head) : w \notin held[b]

Tracks(k) ==
  /\ k \in BatchState /\ k.head <= now /\ k.sample <= now
  /\ InOrder(k) /\ FoundIsTrue(k) /\ Admits(k) /\ Refuses(k)

HoldingsInv ==
  /\ ChainShape /\ MemoIsTrue
  /\ batches \in [Batch -> BatchState]
  /\ \A x \in Batch : Tracks(batches[x])

----------------------------------------------------------------------------
(* An epoch is the start of its own window.                                *)
LEMMA EpochFacts ==
  ASSUME NEW a \in Nat
  PROVE  /\ epochOf(a) \in Nat /\ epochOf(a) <= a
         /\ epochOf(epochOf(a)) = epochOf(a)
<1>1. EpochBlocks \in Nat /\ EpochBlocks > 0
  BY RuleAssumption
<1> DEFINE q == a \div EpochBlocks
<1>2. q \in Nat /\ q * EpochBlocks <= a
  BY <1>1
<1>3. (q * EpochBlocks) \div EpochBlocks = q
  BY <1>1, <1>2
<1>4. QED
  BY <1>1, <1>2, <1>3 DEF epochOf

(* A block and its epoch have one window, and a block that has come is in  *)
(* its own.                                                                *)
LEMMA EpochWindow ==
  ASSUME NEW a \in Nat
  PROVE  Window(epochOf(a)) = Window(a) /\ (a <= now => a \in Window(a))
BY EpochFacts DEF Window

(* What the chain can answer, and that only the declaration is asked of    *)
(* the contract.                                                           *)
LEMMA HoldersAreWallets ==
  ASSUME ChainShape, NEW b \in Block
  PROVE  /\ Lock \notin held[b]
         /\ \A q : Answer(b, q) \in {0, 1}
         /\ \A q \in Wallet : Answer(b, q) = 1 <=> q \in held[b]
         /\ Answer(b, Lock) = 1 <=> declares
BY RuleAssumption DEF ChainShape, Answer

(* A window is of blocks.                                                  *)
LEMMA WindowBlocks == ASSUME ChainShape, NEW a PROVE Window(a) \subseteq Block
BY RuleAssumption DEF ChainShape, Window

(* No batch has begun, nothing is remembered.                              *)
LEMMA HoldingsInvInit == RuleInit => HoldingsInv
<1> SUFFICES ASSUME RuleInit PROVE HoldingsInv
  OBVIOUS
<1>1. ChainShape /\ MemoIsTrue
  BY RuleAssumption DEF RuleInit, ChainShape, MemoIsTrue, NoBlock
<1>2. Fresh \in BatchState /\ Tracks(Fresh)
  <2>1. Fresh \in BatchState
    BY RuleAssumption DEF Fresh, BatchState, Leg
  <2>2. QED
    BY <2>1 DEF RuleInit, Fresh, Tracks, InOrder, FoundIsTrue, Admits, Refuses
<1>3. QED
  BY <1>1, <1>2 DEF RuleInit, HoldingsInv

(* A batch that is as it was, or has become one that tracks the chain,      *)
(* where the chain has not moved.                                          *)
LEMMA SameChain ==
  ASSUME UNCHANGED <<held, declares, now>>, batches' \in [Batch -> BatchState],
         \A x \in Batch : Tracks(batches'[x])
  PROVE  (\A x \in Batch : Tracks(batches[x]))'
<1> SUFFICES ASSUME NEW x \in Batch PROVE Tracks(batches[x])'
  OBVIOUS
<1>1. Tracks(batches'[x])
  OBVIOUS
<1> HIDE DEF Tracks
<1>2. QED
  BY <1>1, SMTT(20)
     DEF Tracks, InOrder, FoundIsTrue, Told, Admits, Refuses, Window, Answer, Asked, Open

(* The chain moves on: windows grow, and nothing that was said is unsaid.  *)
LEMMA NewBlockTracks ==
  ASSUME HoldingsInv, NewBlock
  PROVE  HoldingsInv'
<1>1. now' = now + 1 /\ now \in Nat /\ now' \in Block
  BY RuleAssumption DEF HoldingsInv, ChainShape, NewBlock
<1>2. \A a : Window(a) \subseteq Window(a)'
  BY <1>1 DEF Window
<1>3. ChainShape'
  BY <1>1, RuleAssumption DEF HoldingsInv, ChainShape, NewBlock, NoBlock
<1>4. MemoIsTrue'
  <2> SUFFICES ASSUME NEW e \in memo
               PROVE  \E b \in (IF e.leg = "pin" THEN {e.epoch} ELSE Window(e.epoch)') :
                         e.value = Answer(b, e.question)'
    BY DEF MemoIsTrue, NewBlock
  <2>1. PICK b \in (IF e.leg = "pin" THEN {e.epoch} ELSE Window(e.epoch)) :
          e.value = Answer(b, e.question)
    BY DEF HoldingsInv, MemoIsTrue
  <2>2. Answer(b, e.question)' = Answer(b, e.question)
    BY DEF Answer, NewBlock
  <2>3. QED
    BY <1>2, <2>1, <2>2
<1>5. ASSUME NEW x \in Batch
      PROVE  Tracks(batches[x])'
  <2>1. /\ batches' = batches /\ held' = held /\ declares' = declares
        /\ Tracks(batches[x])
    BY DEF HoldingsInv, NewBlock
  <2> DEFINE k == batches[x]
  <2>2. ASSUME NEW q, NEW v, Told(k, q, v)
        PROVE  Told(batches[x], q, v)'
    BY <1>2, <2>1, <2>2 DEF Told, Answer
  <2>3. FoundIsTrue(batches[x])'
    <3>1. FoundIsTrue(k)
      BY <2>1 DEF Tracks
    <3>2. QED
      BY <2>1, <2>2, <3>1 DEF FoundIsTrue, Asked, Open
  <2>4. Admits(batches[x])'
    BY <1>2, <2>1 DEF Tracks, Admits
  <2>5. Refuses(batches[x])'
    BY <1>2, <2>1 DEF Tracks, Refuses, Open
  <2>6. InOrder(batches[x])'
    BY <2>1 DEF Tracks, InOrder, Asked, Open
  <2>7. (batches[x] \in BatchState /\ batches[x].head <= now /\ batches[x].sample <= now)'
    <3>1. k \in BatchState /\ k.head <= now /\ k.sample <= now
      BY <2>1 DEF Tracks
    <3>2. k.head \in Int /\ k.sample \in Int
      BY <3>1, RuleAssumption DEF BatchState
    <3>3. batches'[x] = k
      BY <2>1
    <3> HIDE DEF k
    <3>4. QED
      BY <1>1, <2>1, <3>1, <3>2, <3>3 DEF BatchState
  <2>8. QED
    BY <2>3, <2>4, <2>5, <2>6, <2>7 DEF Tracks
<1>6. QED
  BY <1>3, <1>4, <1>5 DEF HoldingsInv, NewBlock, BatchState
(* A step that leaves the chain and the memo, and whose batches track it.  *)
LEMMA BatchesMove ==
  ASSUME HoldingsInv, UNCHANGED <<held, declares, now, sampled, memo>>,
         batches' \in [Batch -> BatchState], \A x \in Batch : Tracks(batches'[x])
  PROVE  HoldingsInv'
<1>1. ChainShape' /\ MemoIsTrue'
  BY DEF HoldingsInv, ChainShape, MemoIsTrue, Window, Answer
<1>2. QED
  BY <1>1, SameChain DEF HoldingsInv, BatchState

(* A batch whose leg has all its answers goes on.                          *)
LEMMA AdvancedTracks ==
  ASSUME ChainShape, NEW k, Tracks(k), k.pc \in {"lock", "bal"}, k.waits = {},
         NEW holding, holding \subseteq Asked(k),
         \A q \in Asked(k) : Told(k, q, IF q \in holding THEN 1 ELSE 0)
  PROVE  Tracks(Advanced(k, holding))
<1> DEFINE a == Advanced(k, holding)
<1>1. k \in BatchState /\ k.head \in Block /\ k.sample \in Block /\ Window(k.head) \subseteq Block
  BY WindowBlocks DEF Tracks, BatchState
<1>2. holding \subseteq Question
  BY <1>1, RuleAssumption DEF Asked, Open, BatchState
<1>3. k.pc = "bal" => holding \subseteq Wallet
  BY <1>1 DEF Asked, Open, BatchState
<1>4. /\ a \in BatchState /\ a.head = k.head /\ a.sample = k.sample /\ a.wallets = k.wallets
      /\ a.missing = {} /\ a.waits = {}
      /\ a.admitted = IF k.pc = "bal" THEN k.admitted \cup holding ELSE k.admitted
      /\ \/ /\ k.pc = "lock" /\ Lock \in holding
            /\ a.pc = "bal" /\ a.leg = k.leg
         \/ /\ ~ (k.pc = "lock" /\ Lock \in holding)
            /\ k.leg = "pin" \/ Open(a) = {}
            /\ a.pc = "done" /\ a.leg = k.leg
         \/ /\ ~ (k.pc = "lock" /\ Lock \in holding) /\ k.leg = "head"
            /\ a.pc = "lock" /\ a.leg = "pin"
  BY <1>1, <1>2, <1>3 DEF Advanced, BatchState, Leg, Open
<1> HIDE DEF a
<1>5. InOrder(a) /\ FoundIsTrue(a)
  BY <1>4 DEF InOrder, FoundIsTrue
<1>6. k.pc = "lock" => (Lock \in holding <=> declares)
  <2>1. k.pc = "lock" => \E b \in Block : Answer(b, Lock) = IF Lock \in holding THEN 1 ELSE 0
    BY <1>1 DEF Told, Asked
  <2>2. QED
    BY <2>1, HoldersAreWallets
<1>7. k.pc = "bal" =>
        \A w \in Open(k) :
          IF w \in holding
          THEN w \in held[k.sample] \/ \E b \in Window(k.head) : w \in held[b]
          ELSE IF k.leg = "pin" THEN w \notin held[k.sample]
               ELSE \E b \in Window(k.head) : w \notin held[b]
  <2> SUFFICES ASSUME k.pc = "bal", NEW w \in Open(k)
               PROVE  IF w \in holding
                      THEN w \in held[k.sample] \/ \E b \in Window(k.head) : w \in held[b]
                      ELSE IF k.leg = "pin" THEN w \notin held[k.sample]
                           ELSE \E b \in Window(k.head) : w \notin held[b]
    OBVIOUS
  <2>1. w \in Wallet /\ Told(k, w, IF w \in holding THEN 1 ELSE 0)
    BY <1>1 DEF Asked, Open, BatchState
  <2>2. PICK b \in (IF k.leg = "pin" THEN {k.sample} ELSE Window(k.head)) :
          Answer(b, w) = IF w \in holding THEN 1 ELSE 0
    BY <2>1 DEF Told
  <2>3. b \in Block
    BY <1>1, <2>2
  <2>4. w \in held[b] <=> w \in holding
    BY <2>1, <2>2, <2>3, HoldersAreWallets
  <2>5. QED
    BY <2>2, <2>4
<1>8. Admits(a)
  <2>1. Admits(k)
    BY DEF Tracks
  <2>2. a.pc = "bal" => declares
    BY <1>4, <1>6
  <2>3. ASSUME NEW w \in a.admitted
        PROVE  declares /\ (w \in held[k.sample] \/ \E b \in Window(k.head) : w \in held[b])
    <3>1. CASE w \in k.admitted
      BY <2>1, <3>1 DEF Admits
    <3>2. CASE k.pc = "bal" /\ w \in holding
      BY <1>7, <2>1, <3>2 DEF Admits, Asked
    <3>3. QED
      BY <1>4, <3>1, <3>2
  <2>4. QED
    BY <1>4, <2>2, <2>3 DEF Admits
<1>9. Refuses(a)
  <2> SUFFICES ASSUME declares PROVE Refuses(a)
    BY DEF Refuses
  <2>1. Refuses(k) /\ Open(a) \subseteq Open(k)
    BY <1>4 DEF Tracks, Open
  <2>2. k.pc = "bal" => Open(a) \cap holding = {}
    BY <1>4 DEF Open
  <2>3. ASSUME a.leg = "pin", NEW w \in Open(a)
        PROVE  \E b \in Window(k.head) : w \notin held[b]
    <3>1. CASE k.leg = "pin"
      BY <2>1, <3>1 DEF Refuses
    <3>2. CASE k.leg # "pin"
      BY <1>4, <1>6, <1>7, <2>1, <2>2, <2>3, <3>2
    <3>3. QED
      BY <3>1, <3>2
  <2>4. ASSUME a.pc = "done", NEW w \in Open(a)
        PROVE  w \notin held[k.sample]
    BY <1>4, <1>6, <1>7, <2>1, <2>2, <2>4
  <2>5. a.pc = "done" => Open(a) = {} \/ a.leg = "pin"
    BY <1>4
  <2>6. QED
    BY <1>4, <2>3, <2>4, <2>5 DEF Refuses
<1>10. QED
  BY <1>4, <1>5, <1>8, <1>9 DEF Tracks, a

(* What is remembered of a leg was said to it.                             *)
LEMMA RememberedIsTold ==
  ASSUME ChainShape, MemoIsTrue, NEW k \in BatchState, NEW q, NEW v,
         Remembered(k, q, v) \in memo
  PROVE  Told(k, q, v) /\ v \in {0, 1}
<1> DEFINE e == Remembered(k, q, v)
<1>1. k.head \in Nat /\ k.leg \in {"head", "pin"}
  BY RuleAssumption DEF BatchState, Leg
<1>2. e.leg = k.leg /\ e.question = q /\ e.value = v
      /\ e.epoch = IF k.leg = "head" THEN epochOf(k.head) ELSE k.sample
  BY DEF Remembered, Epoch
<1>3. e.value \in 0..1
  BY DEF ChainShape, Entry
<1> HIDE DEF e
<1>4. PICK b \in (IF e.leg = "pin" THEN {e.epoch} ELSE Window(e.epoch)) :
        e.value = Answer(b, e.question)
  BY DEF MemoIsTrue, e
<1>5. QED
  BY <1>1, <1>2, <1>3, <1>4, EpochWindow DEF Told

(* What is read at the block of a leg is said to it, and may be remembered. *)
LEMMA ReadIsTold ==
  ASSUME ChainShape, NEW k \in BatchState, k.head <= now, k.sample <= now,
         NEW q \in Question
  PROVE  /\ Told(k, q, Answer(ReadBlock(k), q))
         /\ Remembered(k, q, Answer(ReadBlock(k), q)) \in Entry
         /\ \E b \in (IF k.leg = "pin" THEN {Epoch(k)} ELSE Window(Epoch(k))) :
              Answer(ReadBlock(k), q) = Answer(b, q)
<1>1. k.head \in Nat /\ k.sample \in Nat /\ k.leg \in {"head", "pin"} /\ k.head \in Block /\ k.sample \in Block
  BY RuleAssumption DEF BatchState, Leg
<1>2. ReadBlock(k) \in (IF k.leg = "pin" THEN {k.sample} ELSE Window(k.head))
  BY <1>1, EpochWindow DEF ReadBlock
<1>3. Epoch(k) \in Block
  BY <1>1, EpochFacts, RuleAssumption DEF Epoch
<1>4. Answer(ReadBlock(k), q) \in 0..1
  BY <1>1, HoldersAreWallets DEF ReadBlock
<1>5. Window(k.head) = Window(epochOf(k.head))
  BY <1>1, EpochWindow
<1>6. QED
  BY <1>1, <1>2, <1>3, <1>4, <1>5 DEF Told, Remembered, Entry, Epoch, Leg
----------------------------------------------------------------------------
(* A batch begins at a sample block that has come.                         *)
LEMMA BeginTracks ==
  ASSUME HoldingsInv, NEW x \in Batch, evaluateMany(x)
  PROVE  HoldingsInv'
<1>1. PICK sample \in 0..now, wallets \in SUBSET Wallet \ {{}} :
        batches' = [batches EXCEPT ![x] = [Fresh EXCEPT !.pc = "head", !.sample = sample,
                                                   !.wallets = wallets]]
  BY DEF evaluateMany
<1> DEFINE k == [Fresh EXCEPT !.pc = "head", !.sample = sample, !.wallets = wallets]
<1>2. now \in Nat /\ sample \in Block /\ sample <= now /\ 0 \in Block /\ 0 <= now
  BY RuleAssumption DEF HoldingsInv, ChainShape
<1>3. k \in BatchState
  BY <1>2 DEF Fresh, BatchState, Leg
<1>4. /\ k.head = 0 /\ k.sample = sample /\ k.pc = "head" /\ k.leg = "head"
      /\ k.admitted = {} /\ k.missing = {} /\ k.waits = {}
  BY DEF Fresh
<1> HIDE DEF k
<1>5. Tracks(k)
  BY <1>2, <1>3, <1>4 DEF Tracks, InOrder, FoundIsTrue, Admits, Refuses
<1>6. batches' = [batches EXCEPT ![x] = k]
  BY <1>1 DEF k
<1>7. batches' \in [Batch -> BatchState] /\ \A y \in Batch : Tracks(batches'[y])
  BY <1>3, <1>5, <1>6 DEF HoldingsInv
<1>8. QED
  BY <1>7, BatchesMove DEF evaluateMany

(* The purge only forgets.                                                 *)
LEMMA HeadTracks ==
  ASSUME HoldingsInv, SampleHead \/ HeadSettles \/ HeadFails
  PROVE  HoldingsInv'
<1>1. CASE SampleHead
  <2>1. MemoIsTrue'
    BY <1>1 DEF SampleHead, HoldingsInv, MemoIsTrue, Window, Answer
  <2>2. ChainShape'
    BY <1>1, RuleAssumption DEF SampleHead, HoldingsInv, ChainShape
  <2>3. QED
    BY <1>1, <2>1, <2>2, SameChain DEF SampleHead, HoldingsInv, BatchState
<1>2. CASE HeadSettles
  <2>1. memo' \subseteq memo
    BY <1>2 DEF HeadSettles, Behind
  <2>2. ChainShape' /\ MemoIsTrue'
    <3>1. MemoIsTrue'
      BY <1>2, <2>1 DEF HeadSettles, HoldingsInv, MemoIsTrue, Window, Answer
    <3>2. /\ sampled' = -1 /\ held' = held /\ declares' = declares /\ now' = now
      BY <1>2 DEF HeadSettles, NoBlock
    <3>2a. now \in Nat /\ memo' \subseteq Entry
      BY <2>1, RuleAssumption DEF HoldingsInv, ChainShape
    <3>3. QED
      BY <3>1, <3>2, <3>2a DEF HoldingsInv, ChainShape, NoBlock
  <2>3. ASSUME NEW x \in Batch
        PROVE  batches'[x] \in BatchState /\ Tracks(batches'[x])
    <3>1. CASE x \notin AtHead
      BY <1>2, <3>1 DEF HeadSettles, HoldingsInv
    <3>2. CASE x \in AtHead
      <4> DEFINE k == batches[x]
                 r == [k EXCEPT !.pc = "lock", !.head = sampled]
      <4>1. sampled \in Block /\ sampled <= now
        BY <1>2 DEF HeadSettles, HoldingsInv, ChainShape
      <4>2. k \in BatchState /\ Tracks(k) /\ k.pc = "head"
        BY <3>2 DEF HoldingsInv, AtHead
      <4>3. /\ r \in BatchState /\ r.pc = "lock" /\ r.head = sampled /\ r.sample = k.sample
            /\ r.leg = "head" /\ r.admitted = {} /\ r.missing = {} /\ r.waits = {}
        BY <4>1, <4>2 DEF BatchState, Tracks, InOrder
      <4>4. batches'[x] = r
        BY <1>2, <3>2 DEF HeadSettles
      <4> HIDE DEF r
      <4>5. k.sample <= now
        BY <4>2 DEF Tracks
      <4>6. QED
        BY <4>1, <4>3, <4>4, <4>5 DEF Tracks, InOrder, FoundIsTrue, Admits, Refuses
    <3>3. QED
      BY <3>1, <3>2
  <2>4. batches' \in [Batch -> BatchState]
    BY <1>2, <2>3 DEF HeadSettles
  <2>5. QED
    BY <1>2, <2>2, <2>3, <2>4, SameChain DEF HeadSettles, HoldingsInv, BatchState
<1>3. CASE HeadFails
  <2>2. ChainShape' /\ MemoIsTrue'
    <3>1. MemoIsTrue'
      BY <1>3 DEF HeadFails, HoldingsInv, MemoIsTrue, Window, Answer
    <3>2. /\ sampled' = -1 /\ held' = held /\ declares' = declares /\ now' = now
          /\ now \in Nat /\ memo' = memo
      BY <1>3, RuleAssumption DEF HeadFails, HoldingsInv, ChainShape, NoBlock
    <3>3. QED
      BY <3>1, <3>2 DEF HoldingsInv, ChainShape, NoBlock
  <2>3. ASSUME NEW x \in Batch
        PROVE  batches'[x] \in BatchState /\ Tracks(batches'[x])
    <3>1. CASE x \notin AtHead
      BY <1>3, <3>1 DEF HeadFails, HoldingsInv
    <3>2. CASE x \in AtHead
      <4> DEFINE k == batches[x]
                 r == [k EXCEPT !.pc = "failed"]
      <4>2. k \in BatchState /\ Tracks(k) /\ k.pc = "head"
        BY <3>2 DEF HoldingsInv, AtHead
      <4>3. /\ r \in BatchState /\ r.pc = "failed" /\ r.head = k.head /\ r.sample = k.sample
            /\ r.leg = "head" /\ r.admitted = {} /\ r.missing = {} /\ r.waits = {}
        BY <4>2 DEF BatchState, Tracks, InOrder
      <4>4. batches'[x] = r
        BY <1>3, <3>2 DEF HeadFails
      <4> HIDE DEF r
      <4>5. k.sample <= now /\ k.head <= now
        BY <4>2 DEF Tracks
      <4>6. QED
        BY <4>3, <4>4, <4>5 DEF Tracks, InOrder, FoundIsTrue, Admits, Refuses
    <3>3. QED
      BY <3>1, <3>2
  <2>4. batches' \in [Batch -> BatchState]
    BY <1>3, <2>3 DEF HeadFails
  <2>5. QED
    BY <1>3, <2>2, <2>3, <2>4, SameChain DEF HeadFails, HoldingsInv, BatchState
<1>4. QED
  BY <1>1, <1>2, <1>3

----------------------------------------------------------------------------
(* One batch moves, or all stay: the others track the chain as before.     *)
LEMMA OneMoves ==
  ASSUME HoldingsInv, UNCHANGED <<held, declares, now, sampled, memo>>,
         NEW x \in Batch, NEW r, r \in BatchState, Tracks(r),
         batches' = [batches EXCEPT ![x] = r]
  PROVE  HoldingsInv'
<1>1. batches' \in [Batch -> BatchState] /\ \A y \in Batch : Tracks(batches'[y])
  BY DEF HoldingsInv
<1>2. QED
  BY <1>1, BatchesMove

(* Only reads that are waited for, and how often they failed, change.      *)
LEMMA WaitingTracks ==
  ASSUME NEW k, Tracks(k), k.pc \in {"lock", "bal"},
         NEW r \in BatchState, r.waits \subseteq k.missing,
         r.pc = k.pc, r.leg = k.leg, r.head = k.head, r.sample = k.sample,
         r.wallets = k.wallets, r.admitted = k.admitted, r.got = k.got,
         r.missing = k.missing
  PROVE  Tracks(r)
BY DEF Tracks, InOrder, FoundIsTrue, Told, Admits, Refuses, Asked, Open

(* What is found in the memo is true; with nothing missing the leg goes    *)
(* on.                                                                     *)
LEMMA LookUpTracks ==
  ASSUME HoldingsInv, NEW x \in Batch, LookUp(x)
  PROVE  HoldingsInv'
<1> DEFINE k == batches[x]
           hits == {e \in memo : \E q \in Asked(k) : e = Remembered(k, q, e.value)}
           holds(found) == {e.question : e \in {f \in found : f.value = 1}}
           misses(found) == Asked(k) \ {e.question : e \in found}
<1>1. /\ k.pc \in {"lock", "bal"} /\ k.missing = {} /\ k \in BatchState /\ Tracks(k)
      /\ ChainShape /\ MemoIsTrue
  BY DEF LookUp, HoldingsInv
<1>2. UNCHANGED <<held, declares, now, sampled, memo>>
  BY DEF LookUp
<1>3. PICK found \in SUBSET hits :
        /\ \A e, f \in found : e.question = f.question => e = f
        /\ \/ /\ misses(found) = {}
              /\ batches' = [batches EXCEPT ![x] = Advanced(k, holds(found))]
           \/ /\ misses(found) # {}
              /\ batches' = [batches EXCEPT ![x].got = holds(found),
                                           ![x].missing = misses(found),
                                           ![x].waits = misses(found)]
  BY DEF LookUp
<1> DEFINE holding == holds(found)
           missing == misses(found)
<1>4. Asked(k) \subseteq Question
  BY <1>1, RuleAssumption DEF Asked, Open, BatchState
<1>5. holding \subseteq Asked(k) \ missing /\ missing \subseteq Asked(k)
  BY DEF Remembered
<1>6. ASSUME NEW q \in Asked(k) \ missing
      PROVE  Told(k, q, IF q \in holding THEN 1 ELSE 0)
  <2>1. PICK e \in found : e.question = q
    BY <1>6
  <2>2. e \in memo /\ e = Remembered(k, q, e.value)
    BY <2>1 DEF Remembered
  <2>3. Told(k, q, e.value) /\ e.value \in {0, 1}
    BY <1>1, <2>2, RememberedIsTold
  <2>4. q \in holding <=> e.value = 1
    BY <1>3, <2>1
  <2>5. QED
    BY <2>3, <2>4
<1> HIDE DEF holds, misses, hits
<1>7. CASE missing = {}
  <2>1. k.waits = {}
    BY <1>1 DEF Tracks, InOrder
  <2>2. Tracks(Advanced(k, holding))
    BY <1>1, <1>5, <1>6, <1>7, <2>1, AdvancedTracks
  <2>3. Advanced(k, holding) \in BatchState
    BY <2>2 DEF Tracks
  <2>4. QED
    BY <1>2, <1>3, <1>7, <2>2, <2>3, OneMoves
<1>8. CASE missing # {}
  <2> DEFINE r == [k EXCEPT !.got = holding, !.missing = missing, !.waits = missing]
  <2>1. holding \in SUBSET Question /\ missing \in SUBSET Question
    BY <1>4, <1>5
  <2> HIDE DEF holding, missing
  <2>2. /\ r \in BatchState /\ r.waits = missing /\ r.got = holding /\ r.missing = missing
        /\ r.pc = k.pc /\ r.leg = k.leg /\ r.head = k.head /\ r.sample = k.sample
        /\ r.wallets = k.wallets /\ r.admitted = k.admitted
    BY <1>1, <2>1 DEF BatchState
  <2>3. batches' = [batches EXCEPT ![x] = r]
    BY <1>1, <1>3, <1>8 DEF holding, missing, HoldingsInv
  <2> HIDE DEF r
  <2>4. Asked(r) = Asked(k) /\ Open(r) = Open(k)
    BY <2>2 DEF Asked, Open
  <2>5. InOrder(r)
    BY <1>1, <1>5, <2>2, <2>4 DEF InOrder
  <2>6. FoundIsTrue(r)
    BY <1>5, <1>6, <2>2, <2>4 DEF FoundIsTrue, Told
  <2>7. Admits(r) /\ Refuses(r)
    BY <1>1, <2>2, <2>4 DEF Tracks, Admits, Refuses
  <2>8. Tracks(r)
    BY <1>1, <2>2, <2>5, <2>6, <2>7 DEF Tracks
  <2>9. QED
    BY <1>2, <2>2, <2>3, <2>8, OneMoves
<1>9. QED
  BY <1>7, <1>8

(* Reads that settle are waited for no longer.                             *)
LEMMA DeliveredTracks ==
  ASSUME HoldingsInv, UNCHANGED <<held, declares, now, sampled, memo>>,
         NEW chunk, NEW lost, batches' = Delivered(chunk, lost)
  PROVE  HoldingsInv'
<1>1. ASSUME NEW x \in Batch
      PROVE  batches'[x] \in BatchState /\ Tracks(batches'[x])
  <2> DEFINE k == batches[x]
             r == [k EXCEPT !.waits = @ \ chunk.reads, !.failed = @ \/ k.waits \cap lost # {}]
  <2>1. k \in BatchState /\ Tracks(k)
    BY DEF HoldingsInv
  <2>2. CASE k.pc \in {"lock", "bal"} /\ ReadBlock(k) = chunk.block
    <3>1. batches'[x] = r
      BY <2>2, Zenon DEF Delivered
    <3>2. /\ r \in BatchState /\ r.waits = k.waits \ chunk.reads
          /\ r.pc = k.pc /\ r.leg = k.leg /\ r.head = k.head /\ r.sample = k.sample
          /\ r.wallets = k.wallets /\ r.admitted = k.admitted /\ r.got = k.got
          /\ r.missing = k.missing
      BY <2>1 DEF BatchState
    <3>3. k.waits \subseteq k.missing
      BY <2>1 DEF Tracks, InOrder
    <3> HIDE DEF r
    <3>4. QED
      BY <2>1, <2>2, <3>1, <3>2, <3>3, WaitingTracks
  <2>3. CASE ~ (k.pc \in {"lock", "bal"} /\ ReadBlock(k) = chunk.block)
    BY <2>1, <2>3 DEF Delivered
  <2>4. QED
    BY <2>2, <2>3
<1>2. batches' \in [Batch -> BatchState]
  BY <1>1 DEF Delivered
<1>3. QED
  BY <1>1, <1>2, BatchesMove

(* A memoized answer was read at the leg's block.                          *)
LEMMA CollectTracks ==
  ASSUME HoldingsInv, NEW x \in Batch, Collect(x)
  PROVE  HoldingsInv'
<1> DEFINE k == batches[x]
           reading(q) == Answer(ReadBlock(k), q)
           read == {q \in k.missing : reading(q) = 1}
           remembered == {Remembered(k, q, reading(q)) : q \in k.missing}
<1>1. /\ k \in BatchState /\ Tracks(k) /\ ChainShape /\ MemoIsTrue
      /\ k.missing # {} /\ k.waits = {}
  BY DEF HoldingsInv, Collect, Settled
<1>2. /\ memo' = memo \cup remembered
      /\ batches' = [batches EXCEPT ![x] = Advanced(k, k.got \cup read)]
      /\ UNCHANGED <<held, declares, now, sampled>>
  BY DEF Collect
<1>3. k.pc \in {"lock", "bal"}
  BY <1>1 DEF Tracks, InOrder, Collect
<1>4. k.missing \subseteq Asked(k) /\ k.missing \subseteq Question /\ k.head <= now /\ k.sample <= now
  BY <1>1, <1>3 DEF Tracks, InOrder, BatchState
<1>5. ASSUME NEW q \in k.missing
      PROVE  /\ Told(k, q, reading(q))
             /\ Remembered(k, q, reading(q)) \in Entry
             /\ \E b \in (IF k.leg = "pin" THEN {Epoch(k)} ELSE Window(Epoch(k))) :
                  reading(q) = Answer(b, q)
  BY <1>1, <1>4, ReadIsTold
<1>6. ChainShape'
  BY <1>1, <1>2, <1>5 DEF ChainShape
<1>7. MemoIsTrue'
  <2> SUFFICES ASSUME NEW e \in memo'
               PROVE  \E b \in (IF e.leg = "pin" THEN {e.epoch} ELSE Window(e.epoch)) :
                         e.value = Answer(b, e.question)
    BY <1>2 DEF MemoIsTrue, Window, Answer
  <2>1. CASE e \in memo
    BY <1>1, <2>1 DEF MemoIsTrue
  <2>2. CASE e \in remembered
    <3>1. PICK q \in k.missing : e = Remembered(k, q, reading(q))
      BY <2>2
    <3>2. e.leg = k.leg /\ e.epoch = Epoch(k) /\ e.value = reading(q) /\ e.question = q
      BY <3>1 DEF Remembered
    <3>3. QED
      BY <1>5, <3>2
  <2>3. QED
    BY <1>2, <2>1, <2>2
<1>8. ASSUME NEW q \in Asked(k)
      PROVE  Told(k, q, IF q \in k.got \cup read THEN 1 ELSE 0)
  <2>1. FoundIsTrue(k)
    BY <1>1 DEF Tracks
  <2>2. CASE q \notin k.missing
    <3>1. q \in k.got \cup read <=> q \in k.got
      BY <2>2
    <3>2. QED
      BY <1>1, <1>3, <2>1, <2>2, <3>1 DEF FoundIsTrue
  <2>3. CASE q \in k.missing
    <3>1. q \in k.got \cup read <=> reading(q) = 1
      BY <1>1, <1>3, <2>1, <2>3 DEF FoundIsTrue
    <3>2. ReadBlock(k) \in Block
      BY <1>1 DEF ReadBlock, BatchState
    <3>3. reading(q) \in {0, 1}
      BY <1>1, <3>2, HoldersAreWallets
    <3>4. QED
      BY <1>5, <2>3, <3>1, <3>3
  <2>4. QED
    BY <2>2, <2>3
<1>9. k.got \cup read \subseteq Asked(k)
  BY <1>1, <1>3, <1>4 DEF Tracks, FoundIsTrue
<1> DEFINE a == Advanced(k, k.got \cup read)
<1> HIDE DEF reading, read, remembered
<1>10. Tracks(a)
  BY <1>1, <1>3, <1>8, <1>9, AdvancedTracks
<1> HIDE DEF a
<1>11. batches' \in [Batch -> BatchState] /\ \A y \in Batch : Tracks(batches'[y])
  <2>1. a \in BatchState
    BY <1>10 DEF Tracks
  <2>2. batches' = [batches EXCEPT ![x] = a]
    BY <1>2 DEF a
  <2>3. QED
    BY <1>10, <2>1, <2>2 DEF HoldingsInv
<1>12. QED
  BY <1>2, <1>6, <1>7, <1>11, SameChain DEF HoldingsInv, BatchState

(* A second read waits for what is missing.                                *)
LEMMA ReadAgainTracks ==
  ASSUME HoldingsInv, NEW x \in Batch, ReadAgain(x)
  PROVE  HoldingsInv'
<1> DEFINE k == batches[x]
           r == [k EXCEPT !.failed = FALSE, !.again = TRUE, !.waits = k.missing]
<1>1. k \in BatchState /\ Tracks(k) /\ k.pc = "bal" /\ batches \in [Batch -> BatchState]
  BY DEF HoldingsInv, ReadAgain
<1>2. /\ r \in BatchState /\ r.waits = k.missing
      /\ r.pc = k.pc /\ r.leg = k.leg /\ r.head = k.head /\ r.sample = k.sample
      /\ r.wallets = k.wallets /\ r.admitted = k.admitted /\ r.got = k.got
      /\ r.missing = k.missing
  BY <1>1 DEF BatchState
<1>3. batches' = [batches EXCEPT ![x] = r] /\ UNCHANGED <<held, declares, now, sampled, memo>>
  BY <1>1 DEF ReadAgain
<1> HIDE DEF r
<1>4. Tracks(r)
  BY <1>1, <1>2, WaitingTracks
<1>5. QED
  BY <1>2, <1>3, <1>4, OneMoves

(* A batch that throws decides nothing.                                    *)
LEMMA ThrowTracks ==
  ASSUME HoldingsInv, NEW x \in Batch, Throw(x)
  PROVE  HoldingsInv'
<1> DEFINE k == batches[x]
           r == [k EXCEPT !.pc = "failed"]
<1>1. /\ k \in BatchState /\ Tracks(k) /\ k.waits = {} /\ batches \in [Batch -> BatchState]
      /\ k.failed
  BY DEF HoldingsInv, Throw, Settled
<1>2. /\ r \in BatchState /\ r.waits = {} /\ r.pc = "failed" /\ r.failed
      /\ r.leg = k.leg /\ r.head = k.head /\ r.sample = k.sample
      /\ r.wallets = k.wallets /\ r.admitted = k.admitted
  BY <1>1 DEF BatchState
<1>3. batches' = [batches EXCEPT ![x] = r] /\ UNCHANGED <<held, declares, now, sampled, memo>>
  BY <1>1 DEF Throw
<1> HIDE DEF r
<1>4. Tracks(r)
  BY <1>1, <1>2 DEF Tracks, InOrder, FoundIsTrue, Admits, Refuses, Open
<1>5. QED
  BY <1>2, <1>3, <1>4, OneMoves

(* Every step keeps the memo true and the batches on the chain.            *)
LEMMA HoldingsInvStep == HoldingsInv /\ [RuleNext]_ruleVars => HoldingsInv'
<1> SUFFICES ASSUME HoldingsInv, [RuleNext]_ruleVars PROVE HoldingsInv'
  OBVIOUS
<1>1. CASE NewBlock
  BY <1>1, NewBlockTracks
<1>2. CASE SampleHead \/ HeadSettles \/ HeadFails
  BY <1>2, HeadTracks
<1>3. CASE FlushTimer \/ UNCHANGED ruleVars
  <2>1. UNCHANGED <<held, declares, now, sampled, memo, batches>>
    BY <1>3 DEF FlushTimer, ruleVars
  <2>2. batches' \in [Batch -> BatchState] /\ \A y \in Batch : Tracks(batches'[y])
    BY <2>1 DEF HoldingsInv
  <2>3. QED
    BY <2>1, <2>2, BatchesMove
<1>4. CASE CallAnswers
  <2>1. PICK call \in calls : \E lost \in SUBSET call.chunk.reads :
                                batches' = Delivered(call.chunk, lost)
    BY <1>4 DEF CallAnswers
  <2>2. UNCHANGED <<held, declares, now, sampled, memo>>
    BY <1>4 DEF CallAnswers
  <2>3. QED
    BY <2>1, <2>2, DeliveredTracks
<1>5. CASE CallFails
  <2>1. UNCHANGED <<held, declares, now, sampled, memo>>
    BY <1>5 DEF CallFails
  <2>2. CASE UNCHANGED batches
    <3>1. batches' \in [Batch -> BatchState] /\ \A y \in Batch : Tracks(batches'[y])
      BY <2>2 DEF HoldingsInv
    <3>2. QED
      BY <2>1, <3>1, BatchesMove
  <2>3. CASE \E call \in calls : batches' = Delivered(call.chunk, call.chunk.reads)
    <3>1. PICK call \in calls : batches' = Delivered(call.chunk, call.chunk.reads)
      BY <2>3
    <3>2. QED
      BY <2>1, <3>1, DeliveredTracks
  <2>4. QED
    BY <1>5, <2>2, <2>3 DEF CallFails
<1>6. CASE \E x \in Batch : LookUp(x) \/ Collect(x) \/ ReadAgain(x) \/ Throw(x)
  BY <1>6, LookUpTracks, CollectTracks, ReadAgainTracks, ThrowTracks
<1>7. CASE \E x \in Batch : evaluateMany(x)
  BY <1>7, BeginTracks
<1>8. QED
  BY <1>1, <1>2, <1>3, <1>4, <1>5, <1>6, <1>7 DEF RuleNext, Progress

(* A remembered answer was true at its block, or in its window (MemoIsTrue). *)
THEOREM MemoSound == RuleSpec => []MemoIsTrue
BY HoldingsInvInit, HoldingsInvStep, PTL DEF RuleSpec, HoldingsInv

(* The admitted held the asset, and holders are not refused                *)
(* (VerdictsFollowHoldings).                                               *)
THEOREM VerdictsSound == RuleSpec => []VerdictsFollowHoldings
<1>1. HoldingsInv => VerdictsFollowHoldings
  BY DEF HoldingsInv, Tracks, Admits, Refuses, VerdictsFollowHoldings, AdmittedHeldIt,
         HoldersAreAdmitted
<1>2. QED
  BY <1>1, HoldingsInvInit, HoldingsInvStep, PTL DEF RuleSpec

----------------------------------------------------------------------------
(***************************************************************************)
(* The pool.  A read is in one place at a time, from the group it joins to  *)
(* the call that settles it: ReadsInv.                                     *)
(***************************************************************************)

\* two chunks have no read in common
Apart(c, d) == c.block = d.block => c.reads \cap d.reads = {}

\* a chunk in the queue or under a slot has this read
Taken(b, q) ==
  \/ \E i \in DOMAIN queue : queue[i].block = b /\ q \in queue[i].reads
  \/ \E c \in calls : c.chunk.block = b /\ q \in c.chunk.reads

SlotsShape ==
  /\ queue \in Seq(Chunk) /\ calls \subseteq Call /\ IsFiniteSet(calls)
  /\ active = Cardinality(calls) /\ active <= Concurrency
  /\ SlotsAreUsed

\* the chunks have reads, none in two of them
ChunksAreApart ==
  /\ \A i \in DOMAIN queue : queue[i].reads # {}
  /\ \A c \in calls : c.chunk.reads # {}
  /\ \A i, j \in DOMAIN queue : i # j => Apart(queue[i], queue[j])
  /\ \A c, d \in calls : c # d => Apart(c.chunk, d.chunk)
  /\ \A i \in DOMAIN queue, c \in calls : Apart(queue[i], c.chunk)

GroupsAreApart ==
  /\ groups \in [Block -> SUBSET Question]
  /\ \A b \in Block : Cardinality(groups[b]) < ReadsPerCall
  /\ \A b \in Block : \A q \in groups[b] : ~ Taken(b, q)

PoolInv == SlotsShape /\ ChunksAreApart /\ GroupsAreApart

\* a read that is on its way
Underway(b, q) == q \in groups[b] \/ Taken(b, q)

WaitsAreUnderway ==
  \A x \in Batch : \A q \in batches[x].waits : Underway(ReadBlock(batches[x]), q)

----------------------------------------------------------------------------
(* Questions are few, and those about wallets fit a call.                  *)
LEMMA QuestionsAreFinite ==
  /\ \A s \in SUBSET Question : IsFiniteSet(s) /\ Cardinality(s) \in Nat
  /\ \A s \in SUBSET Wallet : Cardinality(s) <= ReadsPerCall
<1>1. IsFiniteSet(Question)
  BY RuleAssumption, FS_AddElement
<1>2. \A s \in SUBSET Wallet : Cardinality(s) <= Cardinality(Wallet)
  BY RuleAssumption, FS_Subset
<1>3. \A s \in SUBSET Question : IsFiniteSet(s)
  BY <1>1, FS_Subset
<1>4. QED
  <2>1. \A s \in SUBSET Wallet : IsFiniteSet(s)
    BY RuleAssumption, FS_Subset
  <2>2. \A s \in SUBSET Wallet : Cardinality(s) \in Nat
    BY <2>1, FS_CardinalityType
  <2>3. Cardinality(Wallet) \in Nat /\ Cardinality(Wallet) <= ReadsPerCall /\ ReadsPerCall \in Nat
    BY RuleAssumption, CoalescerAssumption, FS_CardinalityType
  <2>4. QED
    BY <1>2, <1>3, <2>2, <2>3, FS_CardinalityType

(* A chunk apart from all there is takes a slot or its place in the queue. *)
LEMMA RunChunkKeeps ==
  ASSUME SlotsShape, ChunksAreApart, NEW chunk \in Chunk, chunk.reads # {},
         \A q \in chunk.reads : ~ Taken(chunk.block, q), runChunk(chunk)
  PROVE  /\ SlotsShape' /\ ChunksAreApart'
         /\ \A b, q : Taken(b, q)' <=> Taken(b, q) \/ (b = chunk.block /\ q \in chunk.reads)
<1>1. /\ \A i \in DOMAIN queue : Apart(chunk, queue[i])
      /\ \A c \in calls : Apart(chunk, c.chunk)
  BY DEF Taken, Apart
<1>2. CASE active < Concurrency
  <2> DEFINE call == [chunk |-> chunk, attempt |-> 1]
  <2>1. active' = active + 1 /\ calls' = calls \cup {call} /\ queue' = queue
    BY <1>2 DEF runChunk
  <2>2. call \notin calls
    BY <1>1 DEF Apart
  <2>3. call \in Call /\ call.chunk = chunk
    BY DEF Call
  <2> HIDE DEF call
  <2>4. IsFiniteSet(calls') /\ Cardinality(calls') = Cardinality(calls) + 1
    BY <2>1, <2>2, FS_AddElement DEF SlotsShape
  <2>5. active \in Nat /\ Concurrency \in Nat
    BY CoalescerAssumption, FS_CardinalityType DEF SlotsShape
  <2>6. SlotsShape'
    <3>1. queue = <<>>
      BY <1>2, <2>5 DEF SlotsShape, SlotsAreUsed
    <3>2. QED
      BY <1>2, <2>1, <2>3, <2>4, <2>5, <3>1 DEF SlotsShape, SlotsAreUsed
  <2>7. ChunksAreApart'
    BY <1>1, <2>1, <2>3 DEF ChunksAreApart, Apart
  <2>8. \A b, q : Taken(b, q)' <=> Taken(b, q) \/ (b = chunk.block /\ q \in chunk.reads)
    <3> SUFFICES ASSUME NEW b, NEW q
                 PROVE  Taken(b, q)' <=> Taken(b, q) \/ (b = chunk.block /\ q \in chunk.reads)
      OBVIOUS
    <3>1. (\E c \in calls' : c.chunk.block = b /\ q \in c.chunk.reads)
            <=> (\E c \in calls : c.chunk.block = b /\ q \in c.chunk.reads)
                \/ (b = chunk.block /\ q \in chunk.reads)
      BY <2>1, <2>3
    <3>2. QED
      BY <2>1, <3>1 DEF Taken
  <2>9. QED
    BY <2>6, <2>7, <2>8
<1>3. CASE ~ (active < Concurrency)
  <2>1. queue' = Append(queue, chunk) /\ calls' = calls /\ active' = active
    BY <1>3 DEF runChunk
  <2>2. active = Concurrency
    <3>1. active \in Nat /\ Concurrency \in Nat
      BY CoalescerAssumption, FS_CardinalityType DEF SlotsShape
    <3>2. QED
      BY <1>3, <3>1 DEF SlotsShape
  <2>3. SlotsShape'
    BY <2>1, <2>2 DEF SlotsShape, SlotsAreUsed
  <2>4. /\ Len(queue) \in Nat /\ DOMAIN queue = 1..Len(queue) /\ DOMAIN queue' = 1..Len(queue) + 1
        /\ \A i \in DOMAIN queue : queue'[i] = queue[i]
        /\ queue'[Len(queue) + 1] = chunk
    BY <2>1 DEF SlotsShape
  <2>5. \A i \in DOMAIN queue' : i \in DOMAIN queue \/ i = Len(queue) + 1
    BY <2>4
  <2>6. ChunksAreApart'
    BY <1>1, <2>1, <2>4, <2>5 DEF ChunksAreApart, Apart
  <2>7. \A b, q : Taken(b, q)' <=> Taken(b, q) \/ (b = chunk.block /\ q \in chunk.reads)
    BY <2>1, <2>4, <2>5 DEF Taken
  <2>8. QED
    BY <2>3, <2>6, <2>7
<1>4. QED
  BY <1>2, <1>3

(* What is flushed was a group, and goes under way with all its reads.     *)
LEMMA FlushGroupKeeps ==
  ASSUME PoolInv, NEW b \in Block, flushGroup(b)
  PROVE  PoolInv' /\ \A c \in Block : \A q : Underway(c, q) => Underway(c, q)'
<1> DEFINE chunk == [block |-> b, reads |-> groups[b]]
<1>1. /\ chunk \in Chunk /\ chunk.block = b /\ chunk.reads = groups[b] /\ groups[b] # {}
      /\ runChunk(chunk) /\ groups' = [groups EXCEPT ![b] = {}]
  BY DEF flushGroup, PoolInv, GroupsAreApart, Chunk
<1> HIDE DEF chunk
<1>2. /\ SlotsShape' /\ ChunksAreApart'
      /\ \A c, q : Taken(c, q)' <=> Taken(c, q) \/ (c = b /\ q \in groups[b])
  <2>1. \A q \in chunk.reads : ~ Taken(chunk.block, q)
    BY <1>1 DEF PoolInv, GroupsAreApart
  <2>2. QED
    BY <1>1, <2>1, RunChunkKeeps DEF PoolInv
<1>3. Cardinality({}) = 0 /\ ReadsPerCall \in Nat \ {0}
  BY FS_EmptySet, CoalescerAssumption
<1>4. groups' \in [Block -> SUBSET Question]
  BY <1>1 DEF PoolInv, GroupsAreApart
<1>5. \A c \in Block : groups'[c] = IF c = b THEN {} ELSE groups[c]
  BY <1>1 DEF PoolInv, GroupsAreApart
<1>6. GroupsAreApart'
  BY <1>2, <1>3, <1>4, <1>5 DEF PoolInv, GroupsAreApart
<1>7. QED
  BY <1>2, <1>5, <1>6 DEF PoolInv, Underway

(* New reads join the group of their block; a group that is full goes.     *)
LEMMA EnqueueKeeps ==
  ASSUME PoolInv, NEW b \in Block, NEW asked \in SUBSET Question,
         Cardinality(asked) <= ReadsPerCall, enqueueRead(b, asked)
  PROVE  /\ PoolInv'
         /\ \A c \in Block : \A q : Underway(c, q) => Underway(c, q)'
         /\ \A q \in asked : Underway(b, q)'
<1> DEFINE fresh == {q \in asked : <<b, q>> \notin inFlight}
           room  == ReadsPerCall - Cardinality(groups[b])
<1>1. /\ groups[b] \in SUBSET Question /\ Cardinality(groups[b]) < ReadsPerCall
      /\ groups \in [Block -> SUBSET Question]
  BY DEF PoolInv, GroupsAreApart
<1>2. \A q \in Question : <<b, q>> \in inFlight <=> Underway(b, q)
  <2> SUFFICES ASSUME NEW q \in Question
               PROVE  <<b, q>> \in inFlight <=> Underway(b, q)
    OBVIOUS
  <2>1. <<b, q>> \in Grouped <=> q \in groups[b]
    BY DEF Grouped
  <2>2. \A chunk : <<b, q>> \in Of(chunk) <=> chunk.block = b /\ q \in chunk.reads
    BY DEF Of
  <2>3. <<b, q>> \in UNION {Of(chunk) : chunk \in ToSet(queue)}
          <=> \E i \in DOMAIN queue : queue[i].block = b /\ q \in queue[i].reads
    BY <2>2 DEF ToSet
  <2>4. <<b, q>> \in UNION {Of(c.chunk) : c \in calls}
          <=> \E c \in calls : c.chunk.block = b /\ q \in c.chunk.reads
    BY <2>2
  <2>5. QED
    BY <2>1, <2>3, <2>4 DEF inFlight, Underway, Taken
<1>3. /\ fresh \in SUBSET Question /\ fresh \cap groups[b] = {}
      /\ \A q \in fresh : ~ Taken(b, q)
      /\ \A q \in asked \ fresh : Underway(b, q)
  BY <1>2 DEF Underway
<1>4. /\ Cardinality(groups[b]) \in Nat /\ Cardinality(fresh) \in Nat
      /\ Cardinality(fresh) <= ReadsPerCall /\ ReadsPerCall \in Nat /\ room \in Nat \ {0}
  <2>1. IsFiniteSet(asked) /\ fresh \subseteq asked /\ Cardinality(asked) \in Nat
    BY QuestionsAreFinite
  <2>2. Cardinality(fresh) <= Cardinality(asked)
    BY <2>1, FS_Subset
  <2>3. Cardinality(groups[b]) \in Nat /\ Cardinality(fresh) \in Nat
    BY <1>1, <1>3, QuestionsAreFinite
  <2>4. QED
    BY <1>1, <2>1, <2>2, <2>3, CoalescerAssumption
<1>5. CASE /\ Cardinality(fresh) < room
           /\ groups' = [groups EXCEPT ![b] = @ \cup fresh] /\ UNCHANGED <<queue, calls, active>>
  <2>1. \A c \in Block : groups'[c] = IF c = b THEN groups[b] \cup fresh ELSE groups[c]
    BY <1>1, <1>5
  <2>2. groups' \in [Block -> SUBSET Question]
    BY <1>1, <1>3, <1>5
  <2>3. Cardinality(groups[b] \cup fresh) = Cardinality(groups[b]) + Cardinality(fresh)
    <3>1. IsFiniteSet(groups[b]) /\ IsFiniteSet(fresh) /\ groups[b] \cap fresh = {}
      BY <1>1, <1>3, QuestionsAreFinite
    <3>2. Cardinality({}) = 0
      BY FS_EmptySet
    <3> HIDE DEF fresh
    <3>3. QED
      BY <1>4, <3>1, <3>2, FS_Union
  <2>4. Cardinality(groups'[b]) < ReadsPerCall
    <3>1. groups'[b] = groups[b] \cup fresh
      BY <2>1
    <3>2. Cardinality(fresh) < ReadsPerCall - Cardinality(groups[b])
      BY <1>5
    <3> HIDE DEF fresh
    <3>3. QED
      BY <1>4, <2>3, <3>1, <3>2
  <2>5. \A c, q : Taken(c, q)' <=> Taken(c, q)
    BY <1>5 DEF Taken
  <2>6. SlotsShape' /\ ChunksAreApart'
    BY <1>5 DEF PoolInv, SlotsShape, SlotsAreUsed, ChunksAreApart
  <2> HIDE DEF fresh, room
  <2>7. GroupsAreApart'
    BY <1>3, <2>1, <2>2, <2>4, <2>5 DEF PoolInv, GroupsAreApart
  <2>8. QED
    BY <1>3, <2>1, <2>5, <2>6, <2>7 DEF PoolInv, Underway
<1>6. CASE \E filling \in SUBSET fresh :
            /\ Cardinality(filling) = room
            /\ runChunk([block |-> b, reads |-> groups[b] \cup filling])
            /\ groups' = [groups EXCEPT ![b] = fresh \ filling]
  <2>1. PICK filling \in SUBSET fresh :
            /\ Cardinality(filling) = room
            /\ runChunk([block |-> b, reads |-> groups[b] \cup filling])
            /\ groups' = [groups EXCEPT ![b] = fresh \ filling]
    BY <1>6
  <2> DEFINE chunk == [block |-> b, reads |-> groups[b] \cup filling]
  <2> HIDE DEF fresh, room
  <2>2. chunk \in Chunk /\ chunk.block = b /\ chunk.reads = groups[b] \cup filling
    BY <1>1, <1>3 DEF Chunk
  <2>3. chunk.reads # {}
    <3>1. filling # {}
      BY <1>4, <2>1, FS_EmptySet
    <3>2. QED
      BY <2>2, <3>1
  <2>4. \A q \in chunk.reads : ~ Taken(chunk.block, q)
    BY <1>3, <2>2 DEF PoolInv, GroupsAreApart
  <2>5. runChunk(chunk)
    BY <2>1
  <2> HIDE DEF chunk
  <2>6. /\ SlotsShape' /\ ChunksAreApart'
        /\ \A c, q : Taken(c, q)' <=> Taken(c, q) \/ (c = b /\ q \in groups[b] \cup filling)
    BY <2>2, <2>3, <2>4, <2>5, RunChunkKeeps DEF PoolInv
  <2>7. \A c \in Block : groups'[c] = IF c = b THEN fresh \ filling ELSE groups[c]
    BY <1>1, <2>1
  <2>8. groups' \in [Block -> SUBSET Question]
    BY <1>1, <1>3, <2>1
  <2>9. Cardinality(groups'[b]) < ReadsPerCall
    <3>1. IsFiniteSet(fresh) /\ IsFiniteSet(filling)
      BY <1>3, QuestionsAreFinite
    <3>2. fresh \cap filling = filling
      OBVIOUS
    <3>3. Cardinality(fresh \ filling) = Cardinality(fresh) - Cardinality(filling)
      BY <3>1, <3>2, FS_Difference
    <3>4. groups'[b] = fresh \ filling
      BY <2>7
    <3>5. Cardinality(filling) = room
      BY <2>1
    <3>6. QED
      BY <1>4, <3>3, <3>4, <3>5
  <2>10. GroupsAreApart'
    BY <1>3, <2>6, <2>7, <2>8, <2>9 DEF PoolInv, GroupsAreApart
  <2>11. QED
    BY <1>3, <2>6, <2>7, <2>10 DEF PoolInv, Underway
<1>7. QED
  BY <1>5, <1>6, Zenon DEF enqueueRead

(* A chunk that settles leaves, and the longest waiting takes its slot.    *)
LEMMA SettleKeeps ==
  ASSUME PoolInv, NEW call, Settle(call)
  PROVE  /\ PoolInv' /\ groups' = groups
         /\ \A b, q : Taken(b, q)
              => Taken(b, q)' \/ (b = call.chunk.block /\ q \in call.chunk.reads)
<1> USE DEF PoolInv
<1>1. call \in calls /\ groups' = groups /\ release(call)
  BY DEF Settle
<1>2. /\ calls \subseteq Call /\ IsFiniteSet(calls) /\ active = Cardinality(calls) /\ active \in Nat
      /\ Concurrency \in Nat /\ active <= Concurrency
  BY CoalescerAssumption, FS_CardinalityType DEF SlotsShape
<1>3. /\ IsFiniteSet(calls \ {call}) /\ Cardinality(calls \ {call}) = active - 1
  BY <1>1, <1>2, FS_RemoveElement
<1>4. CASE queue = <<>>
  <2>1. calls' = calls \ {call} /\ active' = active - 1 /\ queue' = queue
    BY <1>1, <1>4 DEF release
  <2>2. SlotsShape'
    BY <1>2, <1>3, <1>4, <2>1 DEF SlotsShape, SlotsAreUsed
  <2>3. ChunksAreApart'
    BY <2>1 DEF ChunksAreApart
  <2>4. \A b, q : Taken(b, q)' => Taken(b, q)
    BY <2>1 DEF Taken
  <2>5. \A b, q : Taken(b, q)
          => Taken(b, q)' \/ (b = call.chunk.block /\ q \in call.chunk.reads)
    BY <2>1 DEF Taken
  <2>6. GroupsAreApart'
    BY <1>1, <2>4 DEF GroupsAreApart
  <2>7. QED
    BY <1>1, <2>2, <2>3, <2>5, <2>6
<1>5. CASE queue # <<>>
  <2> DEFINE first == Head(queue)
             next == [chunk |-> first, attempt |-> 1]
  <2>1. calls' = (calls \ {call}) \cup {next} /\ queue' = Tail(queue) /\ active' = active
    BY <1>1, <1>5 DEF release
  <2>2. /\ Len(queue) \in Nat \ {0} /\ DOMAIN queue = 1..Len(queue) /\ queue \in Seq(Chunk)
        /\ first = queue[1] /\ first \in Chunk /\ 1 \in DOMAIN queue
        /\ queue' \in Seq(Chunk) /\ DOMAIN queue' = 1..(Len(queue) - 1)
        /\ \A i \in 1..(Len(queue) - 1) : queue'[i] = queue[i + 1]
    BY <1>5, <2>1 DEF SlotsShape
  <2>3. next \in Call /\ next.chunk = first
    BY <2>2 DEF Call
  <2>4. next \notin calls
    BY <2>2, <2>3 DEF ChunksAreApart, Apart
  <2> HIDE DEF first, next
  <2>5. IsFiniteSet(calls') /\ Cardinality(calls') = active
    <3>1. next \notin calls \ {call}
      BY <2>4
    <3>2. /\ IsFiniteSet((calls \ {call}) \cup {next})
          /\ Cardinality((calls \ {call}) \cup {next}) = Cardinality(calls \ {call}) + 1
      BY <1>3, <3>1, FS_AddElement
    <3>3. QED
      BY <1>2, <1>3, <2>1, <3>2
  <2>6. SlotsShape'
    BY <1>2, <1>5, <2>1, <2>2, <2>3, <2>5 DEF SlotsShape, SlotsAreUsed
  <2>7. \A i \in DOMAIN queue' : i + 1 \in DOMAIN queue /\ i + 1 # 1 /\ queue'[i] = queue[i + 1]
    BY <2>2
  <2>8. ChunksAreApart'
    <3>1. (\A i \in DOMAIN queue' : queue'[i].reads # {}) /\ \A c \in calls' : c.chunk.reads # {}
      BY <2>1, <2>2, <2>3, <2>7 DEF ChunksAreApart
    <3>2. \A i, j \in DOMAIN queue' : i # j => Apart(queue'[i], queue'[j])
      <4> SUFFICES ASSUME NEW i \in DOMAIN queue', NEW j \in DOMAIN queue', i # j
                   PROVE  Apart(queue'[i], queue'[j])
        OBVIOUS
      <4>1. i + 1 \in DOMAIN queue /\ j + 1 \in DOMAIN queue /\ i + 1 # j + 1
        BY <2>2
      <4>2. QED
        BY <2>7, <4>1 DEF ChunksAreApart
    <3>3. \A c, d \in calls' : c # d => Apart(c.chunk, d.chunk)
      BY <2>1, <2>2, <2>3 DEF ChunksAreApart, Apart
    <3>4. \A i \in DOMAIN queue', c \in calls' : Apart(queue'[i], c.chunk)
      <4> SUFFICES ASSUME NEW i \in DOMAIN queue', NEW c \in calls'
                   PROVE  Apart(queue'[i], c.chunk)
        OBVIOUS
      <4>1. CASE c \in calls
        BY <2>7, <4>1 DEF ChunksAreApart
      <4>2. CASE c = next
        BY <2>2, <2>3, <2>7, <4>2 DEF ChunksAreApart
      <4>3. QED
        BY <2>1, <4>1, <4>2
    <3>5. QED
      BY <3>1, <3>2, <3>3, <3>4 DEF ChunksAreApart, Apart
  <2>9. ASSUME NEW b, NEW q, Taken(b, q)'
        PROVE  Taken(b, q)
    BY <2>1, <2>2, <2>3, <2>7, <2>9 DEF Taken
  <2>10. ASSUME NEW b, NEW q, Taken(b, q)
         PROVE  Taken(b, q)' \/ (b = call.chunk.block /\ q \in call.chunk.reads)
    <3>1. CASE \E i \in DOMAIN queue : queue[i].block = b /\ q \in queue[i].reads
      <4>1. PICK i \in DOMAIN queue : queue[i].block = b /\ q \in queue[i].reads
        BY <3>1
      <4>2. CASE i = 1
        BY <2>1, <2>2, <2>3, <4>1, <4>2 DEF Taken
      <4>3. CASE i # 1
        <5>1. i - 1 \in DOMAIN queue' /\ queue'[i - 1] = queue[i]
          BY <2>2, <4>3
        <5>2. QED
          BY <4>1, <5>1 DEF Taken
      <4>4. QED
        BY <4>2, <4>3
    <3>2. CASE \E c \in calls : c.chunk.block = b /\ q \in c.chunk.reads
      BY <2>1, <3>2 DEF Taken
    <3>3. QED
      BY <2>10, <3>1, <3>2 DEF Taken
  <2>11. GroupsAreApart'
    BY <1>1, <2>9 DEF GroupsAreApart
  <2>12. QED
    BY <1>1, <2>6, <2>8, <2>10, <2>11
<1>6. QED
  BY <1>4, <1>5

(* The second attempt keeps the slot, and the reads.                       *)
LEMMA RetryKeeps ==
  ASSUME PoolInv, NEW call, RetryChunk(call)
  PROVE  PoolInv' /\ groups' = groups /\ \A b, q : Taken(b, q) => Taken(b, q)'
<1> USE DEF PoolInv
<1> DEFINE second == [call EXCEPT !.attempt = 2]
<1>1. /\ call \in calls /\ call.attempt = 1
      /\ calls' = (calls \ {call}) \cup {second}
      /\ UNCHANGED <<groups, queue, active>>
  BY DEF RetryChunk
<1>2. calls \subseteq Call /\ IsFiniteSet(calls) /\ active = Cardinality(calls) /\ active \in Nat
  BY FS_CardinalityType DEF SlotsShape
<1>3. second \in Call /\ second.chunk = call.chunk /\ second # call
  BY <1>1, <1>2 DEF Call
<1>4. second \notin calls
  BY <1>1, <1>3 DEF ChunksAreApart, Apart
<1> HIDE DEF second
<1>5. IsFiniteSet(calls') /\ Cardinality(calls') = active
  <2>1. IsFiniteSet(calls \ {call}) /\ Cardinality(calls \ {call}) = active - 1
    BY <1>1, <1>2, FS_RemoveElement
  <2>2. second \notin calls \ {call}
    BY <1>4
  <2>3. /\ IsFiniteSet((calls \ {call}) \cup {second})
        /\ Cardinality((calls \ {call}) \cup {second}) = Cardinality(calls \ {call}) + 1
    BY <2>1, <2>2, FS_AddElement
  <2>4. QED
    BY <1>1, <1>2, <2>1, <2>3
<1>6. SlotsShape'
  BY <1>1, <1>2, <1>3, <1>5 DEF SlotsShape, SlotsAreUsed
<1>7. ChunksAreApart'
  BY <1>1, <1>3 DEF ChunksAreApart, Apart
<1>8. ASSUME NEW b, NEW q
      PROVE  Taken(b, q)' <=> Taken(b, q)
  BY <1>1, <1>3 DEF Taken
<1>9. GroupsAreApart'
  BY <1>1, <1>8 DEF GroupsAreApart
<1>10. QED
  BY <1>1, <1>6, <1>7, <1>8, <1>9
----------------------------------------------------------------------------
(* A read that is under way is in one place, and no read is in two.        *)
LEMMA PlaceFacts ==
  ASSUME PoolInv, NEW b \in Block, NEW q \in Question
  PROVE  Places(b, q) = IF Underway(b, q) THEN 1 ELSE 0
<1> DEFINE inQueue == {i \in DOMAIN queue : <<b, q>> \in Of(queue[i])}
           inCalls == {call \in calls : <<b, q>> \in Of(call.chunk)}
<1>1. \A chunk : <<b, q>> \in Of(chunk) <=> chunk.block = b /\ q \in chunk.reads
  BY DEF Of
<1>2. /\ \A i, j \in inQueue : i = j
      /\ \A c, d \in inCalls : c = d
      /\ inQueue = {} \/ inCalls = {}
      /\ Taken(b, q) <=> inQueue # {} \/ inCalls # {}
      /\ q \in groups[b] => inQueue = {} /\ inCalls = {}
  BY <1>1 DEF PoolInv, ChunksAreApart, GroupsAreApart, Apart, Taken
<1> HIDE DEF inQueue, inCalls
<1>3. ASSUME NEW S, \A i, j \in S : i = j
      PROVE  Cardinality(S) = IF S = {} THEN 0 ELSE 1
  <2>1. CASE S = {}
    BY <2>1, FS_EmptySet
  <2>2. CASE S # {}
    <3>1. PICK i : S = {i}
      BY <1>3, <2>2
    <3>2. QED
      BY <2>2, <3>1, FS_Singleton
  <2>3. QED
    BY <2>1, <2>2
<1>4. /\ Cardinality(inQueue) = IF inQueue = {} THEN 0 ELSE 1
      /\ Cardinality(inCalls) = IF inCalls = {} THEN 0 ELSE 1
  BY <1>2, <1>3
<1>5. Places(b, q) = Cardinality(inQueue) + Cardinality(inCalls)
                       + (IF q \in groups[b] THEN 1 ELSE 0)
  BY DEF Places, inQueue, inCalls
<1>6. QED
  BY <1>2, <1>4, <1>5 DEF Underway

----------------------------------------------------------------------------
ReadsInv == HoldingsInv /\ PoolInv /\ WaitsAreUnderway

(* The pool is empty, and nobody waits.                                    *)
LEMMA ReadsInvInit == RuleInit => ReadsInv
<1> SUFFICES ASSUME RuleInit PROVE ReadsInv
  OBVIOUS
<1>1. SlotsShape /\ ChunksAreApart
  BY FS_EmptySet, CoalescerAssumption
     DEF RuleInit, PoolInit, SlotsShape, SlotsAreUsed, ChunksAreApart
<1>2. GroupsAreApart
  BY FS_EmptySet, CoalescerAssumption DEF RuleInit, PoolInit, GroupsAreApart
<1>3. WaitsAreUnderway
  BY DEF RuleInit, WaitsAreUnderway, Fresh
<1>4. QED
  BY <1>1, <1>2, <1>3, HoldingsInvInit DEF ReadsInv, PoolInv

(* What is waited for is waited for still, or no longer.                   *)
LEMMA WaitsKept ==
  ASSUME ReadsInv, \A b \in Block : \A q : Underway(b, q) => Underway(b, q)',
         \A x \in Batch :
           \/ batches'[x].waits = {}
           \/ /\ batches'[x].waits = batches[x].waits /\ batches'[x].leg = batches[x].leg
              /\ batches'[x].head = batches[x].head /\ batches'[x].sample = batches[x].sample
  PROVE  WaitsAreUnderway'
<1> SUFFICES ASSUME NEW x \in Batch, NEW q \in batches'[x].waits
             PROVE  Underway(ReadBlock(batches[x]), q)'
  BY DEF WaitsAreUnderway
<1>1. /\ q \in batches[x].waits
      /\ ReadBlock(batches[x])' = ReadBlock(batches[x])
  BY DEF ReadBlock
<1>2. ReadBlock(batches[x]) \in Block
  BY DEF ReadsInv, HoldingsInv, BatchState, ReadBlock
<1>3. Underway(ReadBlock(batches[x]), q)
  BY <1>1 DEF ReadsInv, WaitsAreUnderway
<1>4. QED
  BY <1>1, <1>2, <1>3 DEF Underway, Taken

(* A batch asks for what it misses, and waits for just that.               *)
LEMMA AskingKeeps ==
  ASSUME ReadsInv, NEW x \in Batch, NEW asked,
         batches[x].pc \in {"lock", "bal"}, asked \subseteq Asked(batches[x]),
         enqueueRead(ReadBlock(batches[x]), asked),
         \A y \in Batch \ {x} : batches'[y] = batches[y],
         batches'[x].waits = asked, batches'[x].leg = batches[x].leg,
         batches'[x].head = batches[x].head, batches'[x].sample = batches[x].sample
  PROVE  PoolInv' /\ WaitsAreUnderway'
<1> DEFINE k == batches[x]
           b == ReadBlock(k)
<1>1. k \in BatchState /\ batches \in [Batch -> BatchState]
  BY DEF ReadsInv, HoldingsInv
<1>2. b \in Block /\ ReadBlock(batches'[x]) = b
  BY <1>1 DEF BatchState, ReadBlock
<1>3. asked \in SUBSET Question /\ Cardinality(asked) <= ReadsPerCall
  <2>1. CASE k.pc = "lock"
    <3>1. asked = {} \/ asked = {Lock}
      BY <2>1 DEF Asked
    <3>2. Cardinality({}) = 0 /\ Cardinality({Lock}) = 1
      BY FS_EmptySet, FS_Singleton
    <3>3. Lock \in Question /\ ReadsPerCall \in Nat \ {0}
      BY RuleAssumption, CoalescerAssumption
    <3>4. QED
      BY <3>1, <3>2, <3>3
  <2>2. CASE k.pc = "bal"
    <3>1. asked \in SUBSET Wallet
      BY <1>1, <2>2 DEF Asked, Open, BatchState
    <3>2. QED
      BY <3>1, RuleAssumption, QuestionsAreFinite
  <2>3. QED
    BY <2>1, <2>2
<1>4. PoolInv
  BY DEF ReadsInv
<1>5. /\ PoolInv'
      /\ \A c \in Block : \A q : Underway(c, q) => Underway(c, q)'
      /\ \A c \in Block : c = b => \A q \in asked : Underway(c, q)'
  <2>1. ASSUME NEW c \in Block, c = b
        PROVE  /\ PoolInv'
               /\ \A d \in Block : \A q : Underway(d, q) => Underway(d, q)'
               /\ \A q \in asked : Underway(c, q)'
    <3>1. enqueueRead(c, asked)
      BY <2>1
    <3>2. QED
      BY <1>3, <1>4, <3>1, EnqueueKeeps
  <2>2. QED
    BY <1>2, <2>1
<1>6. WaitsAreUnderway'
  <2> SUFFICES ASSUME NEW y \in Batch, NEW q \in batches'[y].waits
               PROVE  Underway(ReadBlock(batches[y]), q)'
    BY DEF WaitsAreUnderway
  <2>1. PICK c \in Block : c = ReadBlock(batches[y])
    BY <1>1 DEF BatchState, ReadBlock
  <2>2. ReadBlock(batches[y])' = c
    BY <1>2, <2>1 DEF ReadBlock
  <2>3. Underway(c, q)'
    <3>1. CASE y = x
      BY <1>5, <2>1, <3>1
    <3>2. CASE y # x
      <4>1. Underway(c, q)
        BY <2>1, <3>2 DEF ReadsInv, WaitsAreUnderway
      <4>2. QED
        BY <1>5, <4>1
    <3>3. QED
      BY <3>1, <3>2
  <2>4. QED
    BY <2>2, <2>3 DEF Underway, Taken
<1>7. QED
  BY <1>5, <1>6

(* The misses of a lookup are asked for at once.                           *)
LEMMA LookUpReads ==
  ASSUME ReadsInv, NEW x \in Batch, LookUp(x)
  PROVE  PoolInv' /\ WaitsAreUnderway'
<1> DEFINE k == batches[x]
<1>1. /\ k.pc \in {"lock", "bal"} /\ k.missing = {} /\ k \in BatchState /\ k.waits = {}
      /\ batches \in [Batch -> BatchState]
  BY DEF LookUp, ReadsInv, HoldingsInv, Tracks, InOrder
<1>2. CASE \E holding : batches' = [batches EXCEPT ![x] = Advanced(k, holding)] /\ UNCHANGED pool
  <2>1. PICK holding : batches' = [batches EXCEPT ![x] = Advanced(k, holding)] /\ UNCHANGED pool
    BY <1>2
  <2>2. Advanced(k, holding).waits = {}
    BY <1>1 DEF Advanced, BatchState
  <2>3. \A y \in Batch : batches'[y] = IF y = x THEN Advanced(k, holding) ELSE batches[y]
    BY <1>1, <2>1
  <2>4. PoolInv' /\ \A b \in Block : \A q : Underway(b, q) => Underway(b, q)'
    BY <2>1 DEF pool, ReadsInv, PoolInv, SlotsShape, SlotsAreUsed, ChunksAreApart,
                GroupsAreApart, Taken, Underway
  <2>5. QED
    BY <2>2, <2>3, <2>4, WaitsKept
<1>3. CASE \E holding, missing :
             /\ missing \subseteq Asked(k)
             /\ batches' = [batches EXCEPT ![x].got = holding, ![x].missing = missing,
                                           ![x].waits = missing]
             /\ enqueueRead(ReadBlock(k), missing)
  <2>1. PICK holding, missing :
             /\ missing \subseteq Asked(k)
             /\ batches' = [batches EXCEPT ![x].got = holding, ![x].missing = missing,
                                           ![x].waits = missing]
             /\ enqueueRead(ReadBlock(k), missing)
    BY <1>3
  <2>2. /\ \A y \in Batch \ {x} : batches'[y] = batches[y]
        /\ batches'[x].waits = missing /\ batches'[x].leg = k.leg
        /\ batches'[x].head = k.head /\ batches'[x].sample = k.sample
    BY <1>1, <2>1 DEF BatchState
  <2>3. QED
    BY <1>1, <2>1, <2>2, AskingKeeps
<1>4. QED
  <2>1. PICK found \in SUBSET {e \in memo : \E q \in Asked(k) : e = Remembered(k, q, e.value)} :
          LET missing == Asked(k) \ {e.question : e \in found}
              holding == {e.question : e \in {f \in found : f.value = 1}}
          IN IF missing = {}
             THEN /\ batches' = [batches EXCEPT ![x] = Advanced(k, holding)]
                  /\ UNCHANGED pool
             ELSE /\ batches' = [batches EXCEPT ![x].got = holding, ![x].missing = missing,
                                           ![x].waits = missing]
                  /\ enqueueRead(ReadBlock(k), missing)
    BY DEF LookUp
  <2> DEFINE missing == Asked(k) \ {e.question : e \in found}
             holding == {e.question : e \in {f \in found : f.value = 1}}
  <2>2. \/ batches' = [batches EXCEPT ![x] = Advanced(k, holding)] /\ UNCHANGED pool
        \/ /\ missing \subseteq Asked(k)
           /\ batches' = [batches EXCEPT ![x].got = holding, ![x].missing = missing,
                                           ![x].waits = missing]
           /\ enqueueRead(ReadBlock(k), missing)
    BY <2>1
  <2> HIDE DEF missing, holding
  <2>3. QED
    BY <1>2, <1>3, <2>2

(* So are those of a second read.                                          *)
LEMMA ReadAgainReads ==
  ASSUME ReadsInv, NEW x \in Batch, ReadAgain(x)
  PROVE  PoolInv' /\ WaitsAreUnderway'
<1> DEFINE k == batches[x]
<1>1. /\ k \in BatchState /\ k.pc = "bal" /\ k.missing \subseteq Asked(k)
      /\ batches \in [Batch -> BatchState]
  BY DEF ReadAgain, ReadsInv, HoldingsInv, Tracks, InOrder
<1>2. /\ batches' = [batches EXCEPT ![x].failed = FALSE, ![x].again = TRUE, ![x].waits = k.missing]
      /\ enqueueRead(ReadBlock(k), k.missing)
  BY DEF ReadAgain
<1>3. /\ \A y \in Batch \ {x} : batches'[y] = batches[y]
      /\ batches'[x].waits = k.missing /\ batches'[x].leg = k.leg
      /\ batches'[x].head = k.head /\ batches'[x].sample = k.sample
  BY <1>1, <1>2 DEF BatchState
<1>4. QED
  BY <1>1, <1>2, <1>3, AskingKeeps

(* A batch waits no longer for what has settled.                           *)
LEMMA SettleReads ==
  ASSUME ReadsInv, NEW call, Settle(call), NEW lost, batches' = Delivered(call.chunk, lost)
  PROVE  PoolInv' /\ WaitsAreUnderway'
<1>1. /\ PoolInv' /\ groups' = groups
      /\ \A b, q : Taken(b, q)
           => Taken(b, q)' \/ (b = call.chunk.block /\ q \in call.chunk.reads)
  BY SettleKeeps DEF ReadsInv
<1>2. \A b, q : Underway(b, q)
           => Underway(b, q)' \/ (b = call.chunk.block /\ q \in call.chunk.reads)
  BY <1>1 DEF Underway
<1>3. WaitsAreUnderway'
  <2> SUFFICES ASSUME NEW x \in Batch, NEW q \in batches'[x].waits
               PROVE  Underway(ReadBlock(batches[x]), q)'
    BY DEF WaitsAreUnderway
  <2> DEFINE k == batches[x]
  <2>1. k \in BatchState /\ (k.waits # {} => k.pc \in {"lock", "bal"})
    BY DEF ReadsInv, HoldingsInv, Tracks, InOrder
  <2>2. PICK c \in Block : c = ReadBlock(k)
    BY <2>1 DEF BatchState, ReadBlock
  <2>3. /\ q \in k.waits /\ ReadBlock(batches'[x]) = c
        /\ ~ (c = call.chunk.block /\ q \in call.chunk.reads)
    <3>1. CASE k.pc \in {"lock", "bal"} /\ ReadBlock(k) = call.chunk.block
      <4>1. batches'[x] = [k EXCEPT !.waits = @ \ call.chunk.reads,
                                    !.failed = @ \/ k.waits \cap lost # {}]
        BY <3>1, Zenon DEF Delivered
      <4>2. batches'[x].waits = k.waits \ call.chunk.reads /\ batches'[x].leg = k.leg
            /\ batches'[x].head = k.head /\ batches'[x].sample = k.sample
        BY <2>1, <4>1 DEF BatchState
      <4>3. QED
        BY <2>2, <4>2 DEF ReadBlock
    <3>2. CASE ~ (k.pc \in {"lock", "bal"} /\ ReadBlock(k) = call.chunk.block)
      <4>1. batches'[x] = k
        BY <3>2, Zenon DEF Delivered
      <4>2. QED
        BY <2>1, <2>2, <3>2, <4>1
    <3>3. QED
      BY <3>1, <3>2
  <2>4. Underway(c, q)
    BY <2>2, <2>3 DEF ReadsInv, WaitsAreUnderway
  <2>5. Underway(c, q)'
    BY <1>2, <2>3, <2>4
  <2>6. ReadBlock(batches[x])' = c
    BY <2>3 DEF ReadBlock
  <2>7. QED
    BY <2>5, <2>6 DEF Underway, Taken
<1>4. QED
  BY <1>1, <1>3

(* Where the pool is as it was, or has only kept its reads under way.      *)
LEMMA PoolStays ==
  ASSUME ReadsInv, UNCHANGED pool
  PROVE  PoolInv' /\ \A b \in Block : \A q : Underway(b, q) => Underway(b, q)'
BY DEF pool, ReadsInv, PoolInv, SlotsShape, SlotsAreUsed, ChunksAreApart, GroupsAreApart,
       Taken, Underway

(* Every step of the batches and the pool keeps the invariant.             *)
LEMMA ReadsInvStep == ReadsInv /\ [RuleNext]_ruleVars => ReadsInv'
<1> SUFFICES ASSUME ReadsInv, [RuleNext]_ruleVars PROVE ReadsInv'
  OBVIOUS
<1>1. HoldingsInv' /\ HoldingsInv
  BY HoldingsInvStep DEF ReadsInv
<1>2. \A x \in Batch : batches[x] \in BatchState /\ Tracks(batches[x])
  BY <1>1 DEF HoldingsInv
<1>3. CASE NewBlock \/ SampleHead \/ UNCHANGED ruleVars
  <2>1. UNCHANGED pool /\ UNCHANGED batches
    BY <1>3 DEF NewBlock, SampleHead, ruleVars, pool
  <2>2. QED
    BY <1>1, <2>1, PoolStays, WaitsKept DEF ReadsInv
<1>4. CASE HeadSettles
  <2>1. UNCHANGED pool
    BY <1>4 DEF HeadSettles, pool
  <2>2. ASSUME NEW x \in Batch
        PROVE  \/ batches'[x] = batches[x]
               \/ batches'[x].waits = {}
    <3>1. x \in AtHead => batches[x].waits = {}
      BY <1>2 DEF AtHead, Tracks, InOrder
    <3>2. QED
      BY <1>2, <1>4, <3>1 DEF HeadSettles, BatchState
  <2>3. QED
    BY <1>1, <2>1, <2>2, PoolStays, WaitsKept DEF ReadsInv
<1>5. CASE HeadFails
  <2>1. UNCHANGED pool
    BY <1>5 DEF HeadFails, pool
  <2>2. ASSUME NEW x \in Batch
        PROVE  \/ batches'[x] = batches[x]
               \/ batches'[x].waits = {}
    <3>1. x \in AtHead => batches[x].waits = {}
      BY <1>2 DEF AtHead, Tracks, InOrder
    <3>2. QED
      BY <1>2, <1>5, <3>1 DEF HeadFails, BatchState
  <2>3. QED
    BY <1>1, <2>1, <2>2, PoolStays, WaitsKept DEF ReadsInv
<1>6. CASE FlushTimer
  <2>1. PICK b \in Block : flushGroup(b)
    BY <1>6 DEF FlushTimer
  <2>2. PoolInv' /\ \A c \in Block : \A q : Underway(c, q) => Underway(c, q)'
    BY <2>1, FlushGroupKeeps DEF ReadsInv
  <2>3. UNCHANGED batches
    BY <1>6 DEF FlushTimer
  <2>4. QED
    BY <1>1, <2>2, <2>3, WaitsKept DEF ReadsInv
<1>7. CASE CallAnswers
  <2>1. PICK call \in calls : \E lost \in SUBSET call.chunk.reads :
          Settle(call) /\ batches' = Delivered(call.chunk, lost)
    BY <1>7 DEF CallAnswers
  <2>2. QED
    BY <1>1, <2>1, SettleReads DEF ReadsInv
<1>8. CASE CallFails
  <2>1. PICK call \in calls :
          \/ RetryChunk(call) /\ UNCHANGED batches
          \/ Settle(call) /\ batches' = Delivered(call.chunk, call.chunk.reads)
    BY <1>8 DEF CallFails
  <2>2. CASE RetryChunk(call) /\ UNCHANGED batches
    <3>1. PoolInv' /\ \A c \in Block : \A q : Underway(c, q) => Underway(c, q)'
      BY <2>2, RetryKeeps DEF ReadsInv, Underway
    <3>2. QED
      BY <1>1, <2>2, <3>1, WaitsKept DEF ReadsInv
  <2>3. CASE Settle(call) /\ batches' = Delivered(call.chunk, call.chunk.reads)
    BY <1>1, <2>3, SettleReads DEF ReadsInv
  <2>4. QED
    BY <2>1, <2>2, <2>3
<1>9. ASSUME NEW x \in Batch, LookUp(x) \/ ReadAgain(x)
      PROVE  ReadsInv'
  BY <1>1, <1>9, LookUpReads, ReadAgainReads DEF ReadsInv
<1>10. ASSUME NEW x \in Batch, evaluateMany(x) \/ Collect(x) \/ Throw(x)
       PROVE  ReadsInv'
  <2>1. UNCHANGED pool
    BY <1>10 DEF evaluateMany, Collect, Throw, pool
  <2>2. batches[x] \in BatchState /\ batches \in [Batch -> BatchState]
    BY <1>1 DEF HoldingsInv
  <2>3. batches'[x].waits = {} /\ \A y \in Batch \ {x} : batches'[y] = batches[y]
    <3>1. CASE evaluateMany(x)
      BY <2>2, <3>1 DEF evaluateMany, Fresh
    <3>2. CASE Collect(x)
      BY <2>2, <3>2 DEF Collect, Settled, Advanced, BatchState
    <3>3. CASE Throw(x)
      BY <2>2, <3>3 DEF Throw, Settled, BatchState
    <3>4. QED
      BY <1>10, <3>1, <3>2, <3>3
  <2>4. QED
    BY <1>1, <2>1, <2>3, PoolStays, WaitsKept DEF ReadsInv
<1>11. QED
  BY <1>3, <1>4, <1>5, <1>6, <1>7, <1>8, <1>9, <1>10 DEF RuleNext, Progress

(* The state keeps its types, each read someone waits for is in one place,  *)
(* none is in two, and no chunk waits beside a free slot (RuleInv).        *)
THEOREM PoolSound == RuleSpec => []RuleInv
<1>1. ReadsInv => RuleInv
  <2> SUFFICES ASSUME ReadsInv PROVE RuleInv
    OBVIOUS
  <2>1. RuleTypeOK
    BY DEF ReadsInv, HoldingsInv, ChainShape, BatchState, PoolInv, SlotsShape, GroupsAreApart,
           RuleTypeOK, PoolTypeOK
  <2>2. ASSUME NEW b \in Block, NEW q \in Question
        PROVE  Places(b, q) <= 1 /\ (Underway(b, q) => Places(b, q) = 1)
    BY PlaceFacts DEF ReadsInv
  <2>3. ASSUME NEW x \in Batch, NEW q \in batches[x].waits
        PROVE  Places(ReadBlock(batches[x]), q) = 1
    <3>1. ReadBlock(batches[x]) \in Block /\ q \in Question
      BY DEF ReadsInv, HoldingsInv, BatchState, ReadBlock
    <3>2. Underway(ReadBlock(batches[x]), q)
      BY DEF ReadsInv, WaitsAreUnderway
    <3>3. QED
      BY <2>2, <3>1, <3>2
  <2>4. QED
    BY <2>1, <2>2, <2>3 DEF RuleInv, ReadsAreInOnePlace, ReadsInv, PoolInv, SlotsShape
<1>2. QED
  BY <1>1, ReadsInvInit, ReadsInvStep, PTL DEF RuleSpec
================================================================================
