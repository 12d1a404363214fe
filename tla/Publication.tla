---------------------------- MODULE Publication ----------------------------
(***************************************************************************)
(* One ballot a host publishes, maybe again and again: the state machine   *)
(* of ContestVotePublication (src/client/voter.ts), the callbacks it       *)
(* leaves with the engine, the name preflight (src/verify), the verdicts   *)
(* of the background verifier on own bundles, and the credit given to the  *)
(* peers whose checkpoints carry them.                                     *)
(*                                                                         *)
(* The votes never change, so a bundle is the bucket it is signed in, and  *)
(* a later one supersedes an earlier one.  The other wallets' bundles stay *)
(* fixed, so a root is told by the own bundles in the checkpoint.          *)
(***************************************************************************)
EXTENDS Integers, Sequences, SequencesExt

CONSTANTS
  Peer,
  HostAwaits,         \* the host awaits publish() before the next one
  Expiry,             \* voteExpiryBuckets
  MaxAttempts,        \* bound: calls of publish()
  MaxBucket,          \* bound of the head
  MaxHeard,           \* bound: pairs of a peer and a root it advertised
  PeerRootsMax, DecodedRootsMax

ASSUME PublicationAssumption ==
  /\ HostAwaits \in BOOLEAN
  /\ Expiry \in Nat /\ MaxAttempts \in Nat /\ MaxHeard \in Nat
  /\ {MaxBucket, PeerRootsMax, DecodedRootsMax} \subseteq Nat \ {0}

Attempt == 1..MaxAttempts
Bundle == 1..MaxBucket
Root == {{}} \cup {{b} : b \in Bundle}
NoAttempt == 0

VARIABLES
  named,              \* the votes carry a community name
  state, attempt, evicted,
  call,               \* [Attempt -> how far that publish() is]
  signed,             \* [Attempt -> the bundle it signed, or {}]
  head,               \* current bucket
  admitted, gateOk, nameOk,      \* #checks
  background,         \* [Bundle -> stage of its queued deferred check]
  verdictCb, checkpointCb,       \* [Bundle -> attempt that is to be told]
  ownCids, credited,  \* own bundles, and #ownCheckpointPeers
  peerRoots, decodedRoots,       \* bounded maps, oldest first
  matching,           \* the roots heard that equal the own record, or {}
  gatePassed, advertised,        \* history
  stoodFor            \* history: what an equal root stood for, not holding it

ballot  == <<state, attempt, evicted>>
calls   == <<call, signed>>
checks  == <<admitted, gateOk, nameOk>>
own     == <<verdictCb, checkpointCb, ownCids, credited>>
roots   == <<peerRoots, decodedRoots, matching>>
history == <<gatePassed, advertised, stoodFor>>
vars == <<named, ballot, calls, head, checks, background, own, roots, history>>

\* a map in insertion order: no key has two entries
OneEach(map) == \A i, j \in 1..Len(map) : map[i][1] = map[j][1] => i = j

TypeOK ==
  /\ named \in BOOLEAN
  /\ state \in {"stopped", "signing", "publishing", "published", "verified-locally",
                "verified-by-peer", "failed"}
  /\ attempt \in {NoAttempt} \cup Attempt /\ evicted \in BOOLEAN
  /\ call \in [Attempt -> {"none", "preflight", "unsettled", "settled", "signed", "broadcast", "ended"}]
  /\ signed \in [Attempt -> Root] /\ head \in 1..MaxBucket
  /\ admitted \subseteq Bundle /\ gateOk \subseteq admitted /\ nameOk \subseteq admitted
  /\ background \in [Bundle -> {"out", "gate", "names"}]
  /\ verdictCb \in [Bundle -> {NoAttempt} \cup Attempt]
  /\ checkpointCb \in [Bundle -> {NoAttempt} \cup Attempt]
  /\ ownCids \subseteq Bundle
  /\ peerRoots \in Seq(Peer \X Root) /\ Len(peerRoots) <= PeerRootsMax
  /\ decodedRoots \in Seq(Root \X SUBSET Bundle) /\ Len(decodedRoots) <= DecodedRootsMax
  /\ OneEach(peerRoots) /\ OneEach(decodedRoots)
  /\ credited \in [Bundle -> SUBSET Peer]
  /\ matching \subseteq Root /\ stoodFor \subseteq Root \X Bundle
  /\ gatePassed \subseteq Bundle /\ advertised \in [Peer -> SUBSET Root]

Init ==
  /\ named \in BOOLEAN
  /\ state = "stopped" /\ attempt = NoAttempt /\ evicted = FALSE
  /\ call = [a \in Attempt |-> "none"] /\ signed = [a \in Attempt |-> {}]
  /\ head = 1
  /\ admitted = {} /\ gateOk = {} /\ nameOk = {}
  /\ background = [b \in Bundle |-> "out"]
  /\ verdictCb = [b \in Bundle |-> NoAttempt] /\ checkpointCb = verdictCb
  /\ ownCids = {} /\ peerRoots = <<>> /\ decodedRoots = <<>>
  /\ credited = [b \in Bundle |-> {}]
  /\ matching = {} /\ stoodFor = {}
  /\ gatePassed = {} /\ advertised = [p \in Peer |-> {}]

----------------------------------------------------------------------------
(* The engine's view of the own bundles.                                   *)

Verified(b) == b \in gateOk /\ (named => b \in nameOk)

Expired(b) == head > b + Expiry

served == LET ok == {b \in admitted : Verified(b) /\ ~Expired(b)}
          IN IF ok = {} THEN {} ELSE {Max(ok)}

\* a bounded map: setting a key makes it the newest, the oldest makes room
Put(map, key, value, max) ==
  LET at == {i \in 1..Len(map) : map[i][1] = key}
      kept == IF at # {} THEN RemoveAt(map, CHOOSE i \in at : TRUE)
              ELSE IF Len(map) >= max THEN Tail(map) ELSE map
  IN Append(kept, <<key, value>>)

----------------------------------------------------------------------------
(* What the engine's callbacks do to the ballot.                           *)

\* mutant of Settle
SettleAny(a, verdict) ==
  IF a = NoAttempt \/ evicted \/ state \in {"failed", "verified-by-peer"}
  THEN state ELSE verdict

\* an older attempt is not heard, and a verdict never replaces a stronger one
Settle(a, verdict) ==
  IF a = NoAttempt \/ a # attempt \/ evicted \/ state \in {"failed", "verified-by-peer"}
  THEN state ELSE verdict

\* a bundle is verified: its attempt is told, once
TellVerified(b, isVerified) ==
  /\ state' = IF isVerified THEN Settle(verdictCb[b], "verified-locally") ELSE state
  /\ verdictCb' = IF isVerified THEN [verdictCb EXCEPT ![b] = NoAttempt] ELSE verdictCb
  /\ UNCHANGED <<attempt, evicted>>

Drop(bs) ==
  /\ admitted' = admitted \ bs /\ gateOk' = gateOk \ bs /\ nameOk' = nameOk \ bs

Forget(bs) == ownCids' = ownCids \ bs

\* mutant of Evict
EvictSilently(b) ==
  /\ Drop({b}) /\ Forget({b})
  /\ credited' = [credited EXCEPT ![b] = {}]
  /\ UNCHANGED <<ballot, verdictCb, checkpointCb>>

Evict(b) ==
  /\ Drop({b}) /\ Forget({b})
  /\ credited' = [credited EXCEPT ![b] = {}]
  /\ IF verdictCb[b] # NoAttempt
     THEN /\ verdictCb' = [verdictCb EXCEPT ![b] = NoAttempt]
          /\ checkpointCb' = [checkpointCb EXCEPT ![b] = NoAttempt]
          /\ IF verdictCb[b] = attempt THEN evicted' = TRUE /\ state' = "failed"
             ELSE UNCHANGED <<evicted, state>>
          /\ UNCHANGED attempt
     ELSE UNCHANGED <<ballot, verdictCb, checkpointCb>>

----------------------------------------------------------------------------
(* publish().                                                              *)

\* an attempt's own rejection, which is rethrown to its caller
Fails(a) ==
  /\ call' = [call EXCEPT ![a] = "ended"]
  /\ state' = IF a = attempt THEN "failed" ELSE state
  /\ UNCHANGED <<attempt, evicted>>

Publish ==
  /\ attempt < MaxAttempts
  /\ HostAwaits => \A a \in Attempt : call[a] \in {"none", "ended"}
  /\ attempt' = attempt + 1
  /\ evicted' = FALSE
  /\ call' = [call EXCEPT ![attempt'] = "preflight"]
  /\ UNCHANGED <<named, state, signed, head, checks, background, own, roots, history>>

\* preflightNames: a definite failure refuses, an outage does not
Preflight(a) ==
  /\ call[a] = "preflight"
  /\ \/ call' = [call EXCEPT ![a] = "settled"] /\ UNCHANGED ballot
     \/ named /\ call' = [call EXCEPT ![a] = "unsettled"] /\ UNCHANGED ballot
     \/ named /\ Fails(a)
  /\ UNCHANGED <<named, signed, head, checks, background, own, roots, history>>

\* its cap (OWN_CIDS_MAX) is far above the bundles of a run
trackOwnBundle(b) == ownCids' = ownCids \cup {b}

\* join(), the state "signing" without asking which attempt goes on, and the
\* head that says which bundle the signer is asked for
ReadHead(a) ==
  /\ call[a] \in {"unsettled", "settled"} /\ signed[a] = {}
  /\ signed' = [signed EXCEPT ![a] = {head}]
  /\ state' = "signing"
  /\ UNCHANGED <<named, attempt, evicted, call, head, checks, background, own, roots, history>>

\* the signer answers: the bundle is added and its checks queued
SignVote(a, b) ==
  /\ call[a] \in {"unsettled", "settled"} /\ signed[a] = {b}
  /\ admitted' = admitted \cup {b}
  /\ gateOk' = gateOk \ {b}
  /\ nameOk' = IF call[a] = "settled" THEN nameOk \cup {b} ELSE nameOk \ {b}
  /\ trackOwnBundle(b)
  /\ verdictCb' = [verdictCb EXCEPT ![b] = a]
  /\ checkpointCb' = [checkpointCb EXCEPT ![b] = a]
  /\ background' = [background EXCEPT ![b] = IF @ = "out" THEN "gate" ELSE @]
  /\ call' = [call EXCEPT ![a] = "signed"]
  /\ UNCHANGED <<named, ballot, signed, head, credited, roots, history>>

\* mutant of Broadcast
BroadcastRestarts(a) ==
  /\ call[a] = "signed"
  /\ state' = "publishing"
  /\ call' = [call EXCEPT ![a] = "broadcast"]
  /\ UNCHANGED <<named, attempt, evicted, signed, head, checks, background, own, roots, history>>

\* a verdict that is already in stays
Broadcast(a) ==
  /\ call[a] = "signed"
  /\ state' = IF state = "signing" THEN "publishing" ELSE state
  /\ call' = [call EXCEPT ![a] = "broadcast"]
  /\ UNCHANGED <<named, attempt, evicted, signed, head, checks, background, own, roots, history>>

Published(a) ==
  /\ call[a] = "broadcast"
  /\ state' = IF ~evicted /\ state = "publishing" THEN "published" ELSE state
  /\ call' = [call EXCEPT ![a] = "ended"]
  /\ UNCHANGED <<named, attempt, evicted, signed, head, checks, background, own, roots, history>>

\* join, the head read, the signer or the transport throws
PublishThrows(a) ==
  /\ call[a] \in {"unsettled", "settled", "broadcast"}
  /\ Fails(a)
  /\ signed' = [signed EXCEPT ![a] = IF call[a] = "broadcast" THEN @ ELSE {}]
  /\ UNCHANGED <<named, head, checks, background, own, roots, history>>

----------------------------------------------------------------------------
(* The background verifier on own bundles.                                 *)

GateVerified(b) ==
  /\ background[b] = "gate"
  /\ gatePassed' = gatePassed \cup {b}
  /\ gateOk' = IF b \in admitted THEN gateOk \cup {b} ELSE gateOk
  /\ UNCHANGED <<admitted, nameOk>>
  /\ TellVerified(b, b \in admitted /\ (named => b \in nameOk))
  /\ background' = [background EXCEPT ![b] = IF named THEN "names" ELSE "out"]
  /\ UNCHANGED <<named, calls, head, checkpointCb, ownCids, credited, roots, advertised, stoodFor>>

GateRefused(b) ==
  /\ background[b] = "gate"
  /\ background' = [background EXCEPT ![b] = "out"]
  /\ Evict(b)
  /\ UNCHANGED <<named, calls, head, roots, history>>

NameStage(b) ==
  /\ background[b] = "names"
  /\ background' = [background EXCEPT ![b] = "out"]
  /\ \/ /\ nameOk' = IF b \in admitted THEN nameOk \cup {b} ELSE nameOk
        /\ UNCHANGED <<admitted, gateOk, checkpointCb, ownCids, credited>>
        /\ TellVerified(b, b \in gateOk)
     \/ Evict(b)
  /\ UNCHANGED <<named, calls, head, roots, history>>

\* decay forgets an own bundle without a word to its attempt
Prune ==
  LET gone == {b \in admitted : Expired(b) \/ (b # Max(admitted) /\ Verified(Max(admitted)))}
  IN /\ gone # {}
     /\ Drop(gone) /\ Forget(gone)
     /\ verdictCb' = [b \in Bundle |-> IF b \in gone THEN NoAttempt ELSE verdictCb[b]]
     /\ checkpointCb' = [b \in Bundle |-> IF b \in gone THEN NoAttempt ELSE checkpointCb[b]]
     /\ credited' = [b \in Bundle |-> IF b \in gone THEN {} ELSE credited[b]]
     /\ UNCHANGED <<named, ballot, calls, head, background, roots, history>>

----------------------------------------------------------------------------
(* Which peers keep our vote.                                              *)

\* every peer of ps is known to hold the bundles of mine
CreditPeers(ps, mine) ==
  LET to == mine \cap ownCids
      first == {b \in to : ps # {} /\ credited[b] = {} /\ checkpointCb[b] # NoAttempt}
  IN /\ credited' = [b \in Bundle |-> IF b \in to THEN credited[b] \cup ps ELSE credited[b]]
     /\ checkpointCb' = [b \in Bundle |-> IF b \in first THEN NoAttempt ELSE checkpointCb[b]]
     /\ state' = IF \E b \in first : checkpointCb[b] = attempt
                 THEN Settle(attempt, "verified-by-peer") ELSE state
     /\ UNCHANGED <<attempt, evicted>>

Decoded(r) == UNION {decodedRoots[i][2] : i \in {j \in 1..Len(decodedRoots) : decodedRoots[j][1] = r}}

\* what peers can hold
Released == UNION {signed[a] : a \in {c \in Attempt : call[c] \in {"broadcast", "ended"}}}

Advertises(p, r) ==
  /\ r \subseteq Released
  /\ Cardinality({x \in Peer \X Root : x[2] \in advertised[x[1]]}) < MaxHeard \/ r \in advertised[p]
  /\ advertised' = [advertised EXCEPT ![p] = @ \cup {r}]

\* mutant of HearRoot
HearRootKnown(p, r) ==
  /\ Advertises(p, r)
  /\ peerRoots' = Put(peerRoots, p, r, PeerRootsMax)
  /\ CreditPeers({p}, IF \E i \in 1..Len(decodedRoots) : decodedRoots[i][1] = r THEN ownCids ELSE {})
  /\ UNCHANGED <<named, calls, head, checks, background, verdictCb, ownCids, decodedRoots, matching,
                 gatePassed, stoodFor>>

\* a peer's heartbeat; a root we decoded before is credited at once
HearRoot(p, r) ==
  /\ Advertises(p, r)
  /\ peerRoots' = Put(peerRoots, p, r, PeerRootsMax)
  /\ CreditPeers({p}, Decoded(r))
  /\ UNCHANGED <<named, calls, head, checks, background, verdictCb, ownCids, decodedRoots, matching,
                 gatePassed, stoodFor>>

indexRootContents(r, mine) ==
  IF mine = {} THEN UNCHANGED <<decodedRoots, credited, checkpointCb, ballot>>
  ELSE /\ decodedRoots' = Put(decodedRoots, r, mine, DecodedRootsMax)
       /\ CreditPeers({p \in Peer : \E i \in 1..Len(peerRoots) : peerRoots[i] = <<p, r>>}, mine)

Heard == UNION {advertised[p] : p \in Peer}

\* rootRecord() takes what is served, which equals a heard root, and awaits its
\* encode; what is served otherwise leads to a chase
TakeRecord ==
  /\ matching = {} /\ served \in Heard
  /\ matching' = {served}
  /\ UNCHANGED <<named, ballot, calls, head, checks, background, own, peerRoots,
                 decodedRoots, history>>

\* mutant of ownVerifiedCids
ownCidsHeld == ownCids \cap admitted

ownVerifiedCids == {b \in ownCids : b \in admitted /\ Verified(b)}

\* once it is encoded, the equal root stands for all own bundles that are
\* verified by then, held by the root or not ...
RootMatches(r) ==
  /\ r \in matching /\ matching' = {}
  /\ indexRootContents(r, ownVerifiedCids)
  /\ stoodFor' = stoodFor \cup
       {<<r, b>> : b \in {c \in ownCids \cap admitted : Verified(c)} \ r}
  /\ UNCHANGED <<named, calls, head, checks, background, verdictCb, ownCids, peerRoots,
                 gatePassed, advertised>>

\* ... and another one is chased, which may come to decode its checkpoint
ChaseDecodes(r) ==
  /\ r \in Heard
  /\ indexRootContents(r, r \cap ownCids)
  /\ UNCHANGED <<named, calls, head, checks, background, verdictCb, ownCids, peerRoots,
                 matching, history>>

----------------------------------------------------------------------------
AdvanceHead ==
  /\ head < MaxBucket
  /\ head' = head + 1
  /\ UNCHANGED <<named, ballot, calls, checks, background, own, roots, history>>

BackgroundStep(b) == GateVerified(b) \/ GateRefused(b) \/ NameStage(b)

PublishStep(a) ==
  \/ Preflight(a) \/ ReadHead(a) \/ Broadcast(a) \/ Published(a) \/ PublishThrows(a)
  \/ \E b \in Bundle : SignVote(a, b)

Next ==
  \/ Publish \/ Prune \/ AdvanceHead \/ TakeRecord
  \/ \E a \in Attempt : PublishStep(a)
  \/ \E b \in Bundle : BackgroundStep(b)
  \/ \E p \in Peer, r \in Root : HearRoot(p, r)
  \/ \E r \in Root : RootMatches(r) \/ ChaseDecodes(r)

Spec == Init /\ [][Next]_vars

\* Signers, routers and resolvers answer or fail.
FairSpec ==
  /\ Spec
  /\ \A a \in Attempt : WF_vars(PublishStep(a))
  /\ \A b \in Bundle : WF_vars(BackgroundStep(b))

----------------------------------------------------------------------------
\* the bundle of the attempt that owns the ballot, once it is signed
Current == IF attempt # NoAttempt /\ call[attempt] \in {"signed", "broadcast", "ended"}
           THEN signed[attempt] ELSE {}

\* p advertised a root that held b, or one that equalled our own record while
\* b was verified here but not in it: superseded, decayed, or settled during
\* the encode.  The second is more than the code promises: see README.
ShownBy(p, b) == \E r \in advertised[p] : b \in r \/ <<r, b>> \in stoodFor

\* A ballot is called verified only by evidence about the bundle of its
\* current attempt, whatever becomes of the bundles of earlier attempts
\* (ContestVotePublication.#attempt).
VerdictsAreOfAttempt ==
  HostAwaits => \A b \in Current :
    /\ state = "verified-locally" => b \in gatePassed
    /\ state = "verified-by-peer" => \E p \in Peer : ShownBy(p, b)

\* publish() was called again in the bucket of b, with the same bytes
SignedTwice(b) == \E a, c \in Attempt : a # c /\ signed[a] = {b} /\ signed[c] = {b}

Rank == [s \in {"stopped", "signing", "publishing", "published", "verified-locally",
                "verified-by-peer", "failed"} |->
  CASE s = "stopped" -> 0 [] s = "signing" -> 1 [] s = "publishing" -> 2 [] s = "published" -> 3
    [] s = "verified-locally" -> 4 [] s = "verified-by-peer" -> 5 [] s = "failed" -> 6]

\* Once its bundle is signed an attempt only moves forward: the broadcast
\* never walks a verdict back, a peer's evidence is not replaced by our own
\* and a failure is final (ContestVotePublication.#settle, publish).
AttemptOnlyAdvances ==
  [][HostAwaits /\ attempt' = attempt /\ Current # {} => Rank[state'] >= Rank[state]]_vars

\* An own bundle that a peer is credited with was shown by a root of that
\* peer, whatever the two bounded maps have forgotten, and whether the root
\* or the bundle came first (#creditPeer, #indexRootContents).
CreditHasEvidence == \A b \in Bundle : \A p \in credited[b] : ShownBy(p, b)

\* A published ballot hears of its bundle: verified, kept by a peer or
\* evicted, unless it decayed or was signed twice (signVote's callbacks).
VerdictsAreHeard ==
  \A a \in Attempt :
    (a = attempt /\ call[a] = "ended" /\ state = "published" /\ Current # {})
      ~> (state # "published" \/ \A b \in signed[a] : Expired(b) \/ SignedTwice(b))
\* The state keeps its types, and every credit has its evidence.
PublicationInv == TypeOK /\ CreditHasEvidence
=============================================================================
