------------------------- MODULE PublicationProofs -------------------------
(***************************************************************************)
(* Theorems about Publication, for every number of peers, attempts and     *)
(* buckets and every size of the two bounded maps.                         *)
(***************************************************************************)
EXTENDS Publication, SequenceTheorems, TLAPS

----------------------------------------------------------------------------
(* The bounded maps.  Removing one entry leaves the others.                *)
LEMMA Removed ==
  ASSUME NEW E, NEW map \in Seq(E), NEW k \in 1..Len(map)
  PROVE  /\ RemoveAt(map, k) \in Seq(E)
         /\ Len(RemoveAt(map, k)) = Len(map) - 1
         /\ \A i \in 1..Len(map) - 1 :
              RemoveAt(map, k)[i] = IF i < k THEN map[i] ELSE map[i + 1]
<1> DEFINE front == SubSeq(map, 1, k - 1)
           back == SubSeq(map, k + 1, Len(map))
<1>1. Len(map) \in Nat /\ k \in Int /\ \A i \in 1..Len(map) : map[i] \in E
  BY ElementOfSeq
<1>2. /\ front \in Seq(E) /\ Len(front) = k - 1
      /\ \A i \in 1..(k - 1) : front[i] = map[i]
  <2>1. \A i \in 1..(k - 1) : map[i] \in E
    BY <1>1
  <2>2. /\ front \in Seq(E)
        /\ Len(front) = IF 1 <= k - 1 THEN (k - 1) - 1 + 1 ELSE 0
        /\ \A i \in 1..((k - 1) - 1 + 1) : front[i] = map[1 + i - 1]
    BY ONLY <1>1, <2>1, k - 1 \in Int, SubSeqProperties
  <2>3. QED
    BY <1>1, <2>2
<1>3. /\ back \in Seq(E) /\ Len(back) = Len(map) - k
      /\ \A i \in 1..(Len(map) - k) : back[i] = map[i + k]
  <2>1. \A i \in (k + 1)..Len(map) : map[i] \in E
    BY <1>1
  <2>2. /\ back \in Seq(E)
        /\ Len(back) = IF k + 1 <= Len(map) THEN Len(map) - (k + 1) + 1 ELSE 0
        /\ \A i \in 1..(Len(map) - (k + 1) + 1) : back[i] = map[(k + 1) + i - 1]
    BY ONLY <1>1, <2>1, k + 1 \in Int, SubSeqProperties
  <2>3. QED
    BY <1>1, <2>2
<1>4. /\ front \o back \in Seq(E)
      /\ Len(front \o back) = Len(front) + Len(back)
      /\ \A i \in 1..(Len(front) + Len(back)) : (front \o back)[i] =
           IF i <= Len(front) THEN front[i] ELSE back[i - Len(front)]
  BY <1>2, <1>3, ConcatProperties
<1>5. RemoveAt(map, k) = front \o back
  BY DEF RemoveAt
<1> HIDE DEF front, back
<1>6. Len(front \o back) = Len(map) - 1
  BY <1>1, <1>2, <1>3, <1>4
<1>7. ASSUME NEW i \in 1..Len(map) - 1
      PROVE  (front \o back)[i] = IF i < k THEN map[i] ELSE map[i + 1]
  <2>1. (front \o back)[i] = IF i <= k - 1 THEN front[i] ELSE back[i - (k - 1)]
    BY <1>1, <1>2, <1>3, <1>4
  <2>2. CASE i < k
    BY <1>1, <1>2, <2>1, <2>2
  <2>3. CASE ~ i < k
    <3>1. i - (k - 1) \in 1..(Len(map) - k) /\ (i - (k - 1)) + k = i + 1
      BY <1>1, <2>3
    <3>2. back[i - (k - 1)] = map[i + 1]
      BY <1>3, <3>1
    <3>3. QED
      BY <1>1, <2>1, <2>3, <3>2
  <2>4. QED
    BY <2>2, <2>3
<1>8. QED
  BY <1>4, <1>5, <1>6, <1>7

(* What Put leaves of the map before the new entry is appended: some of    *)
(* its entries, without the key and with room for one more.                *)
MakesRoom(kept, map, key, value, max) ==
  /\ Put(map, key, value, max) = Append(kept, <<key, value>>)
  /\ Len(kept) < max
  /\ OneEach(kept)
  /\ \A i \in 1..Len(kept) : /\ kept[i][1] # key
                             /\ \E j \in 1..Len(map) : kept[i] = map[j]

LEMMA Kept ==
  ASSUME NEW K, NEW V, NEW map \in Seq(K \X V), NEW key \in K, NEW value \in V,
         NEW max \in Nat \ {0}, Len(map) <= max, OneEach(map)
  PROVE  \E kept \in Seq(K \X V) : MakesRoom(kept, map, key, value, max)
<1> DEFINE at == {i \in 1..Len(map) : map[i][1] = key}
           New(kept) == Append(kept, <<key, value>>)
<1>1. Len(map) \in Nat
  OBVIOUS
<1>2. CASE at # {}
  <2> DEFINE k == CHOOSE i \in at : TRUE
             kept == RemoveAt(map, k)
  <2>1. k \in 1..Len(map) /\ map[k][1] = key
    BY <1>2
  <2>2. Put(map, key, value, max) = New(kept)
    BY <1>2 DEF Put
  <2> HIDE DEF k
  <2>3. /\ kept \in Seq(K \X V) /\ Len(kept) = Len(map) - 1
        /\ \A i \in 1..Len(map) - 1 : kept[i] = IF i < k THEN map[i] ELSE map[i + 1]
    BY <2>1, Removed
  <2> HIDE DEF kept
  <2> DEFINE From(i) == IF i < k THEN i ELSE i + 1
  <2>4. ASSUME NEW i \in 1..Len(kept)
        PROVE  From(i) \in 1..Len(map) /\ From(i) # k /\ kept[i] = map[From(i)]
    BY <1>1, <2>1, <2>3
  <2>5. \A i, j \in 1..Len(kept) : From(i) = From(j) => i = j
    BY <1>1, <2>1, <2>3
  <2>6. OneEach(kept)
    BY <2>4, <2>5 DEF OneEach
  <2>7. \A i \in 1..Len(kept) : kept[i][1] # key
    BY <2>1, <2>4 DEF OneEach
  <2>8. Len(kept) < max
    BY <1>1, <2>3
  <2>9. QED
    BY <2>2, <2>3, <2>4, <2>6, <2>7, <2>8 DEF MakesRoom
<1>3. CASE at = {} /\ Len(map) >= max
  <2> DEFINE kept == Tail(map)
  <2>1. Put(map, key, value, max) = New(kept)
    BY <1>3 DEF Put
  <2>2. map # <<>>
    BY <1>3
  <2>3. /\ kept \in Seq(K \X V) /\ Len(kept) = Len(map) - 1
        /\ \A i \in 1..Len(kept) : kept[i] = map[i + 1]
    BY <2>2, HeadTailProperties
  <2> HIDE DEF kept
  <2>4. \A i \in 1..Len(kept) : i + 1 \in 1..Len(map)
    BY <1>1, <2>3
  <2>5. OneEach(kept)
    <3>1. ASSUME NEW i \in 1..Len(kept), NEW j \in 1..Len(kept), kept[i][1] = kept[j][1]
          PROVE  i = j
      <4>1. map[i + 1][1] = map[j + 1][1]
        BY <2>3, <3>1
      <4>2. i + 1 = j + 1
        BY <2>4, <4>1 DEF OneEach
      <4>3. QED
        BY <1>1, <2>3, <4>2
    <3>2. QED
      BY <3>1 DEF OneEach
  <2>6. \A i \in 1..Len(kept) : kept[i][1] # key
    BY <1>3, <2>3, <2>4
  <2>7. Len(kept) < max
    BY <1>1, <2>3
  <2>8. QED
    BY <2>1, <2>3, <2>4, <2>5, <2>6, <2>7 DEF MakesRoom
<1>4. CASE at = {} /\ ~ Len(map) >= max
  <2>1. Put(map, key, value, max) = New(map)
    BY <1>4 DEF Put
  <2>2. \A i \in 1..Len(map) : map[i][1] # key
    BY <1>4
  <2>3. QED
    BY <1>1, <1>4, <2>1, <2>2 DEF MakesRoom
<1>5. QED
  BY <1>2, <1>3, <1>4

(* Put keeps the bound, keeps one entry for a key, and every entry is the  *)
(* new one or was there.                                                   *)
IsPut(put, K, V, map, key, value, max) ==
  /\ put \in Seq(K \X V) /\ Len(put) <= max /\ OneEach(put)
  /\ \A i \in 1..Len(put) : \/ put[i] = <<key, value>>
                            \/ \E j \in 1..Len(map) : put[i] = map[j]

LEMMA PutFacts ==
  ASSUME NEW K, NEW V, NEW map \in Seq(K \X V), NEW key \in K, NEW value \in V,
         NEW max \in Nat \ {0}, Len(map) <= max, OneEach(map)
  PROVE  IsPut(Put(map, key, value, max), K, V, map, key, value, max)
<1> DEFINE put == Put(map, key, value, max)
<1>0. PICK kept \in Seq(K \X V) : MakesRoom(kept, map, key, value, max)
  BY Kept
<1> HIDE DEF put
<1>1. /\ put = Append(kept, <<key, value>>)
      /\ Len(kept) < max
      /\ OneEach(kept)
      /\ \A i \in 1..Len(kept) : /\ kept[i][1] # key
                                 /\ \E j \in 1..Len(map) : kept[i] = map[j]
  BY <1>0 DEF MakesRoom, put
<1>2. Len(kept) \in Nat
  OBVIOUS
<1>3. /\ put \in Seq(K \X V) /\ Len(put) = Len(kept) + 1
      /\ \A i \in 1..Len(kept) : put[i] = kept[i]
      /\ put[Len(kept) + 1] = <<key, value>>
  BY <1>1, AppendProperties
<1>4. \A i \in 1..Len(put) : i \in 1..Len(kept) \/ i = Len(kept) + 1
  BY <1>2, <1>3
<1>5. ASSUME NEW i \in 1..Len(put), NEW j \in 1..Len(put), put[i][1] = put[j][1]
      PROVE  i = j
  <2>1. CASE i \in 1..Len(kept) /\ j \in 1..Len(kept)
    BY <1>1, <1>3, <1>5, <2>1 DEF OneEach
  <2>2. CASE i \in 1..Len(kept) /\ j = Len(kept) + 1
    BY <1>1, <1>3, <1>5, <2>2
  <2>3. CASE i = Len(kept) + 1 /\ j \in 1..Len(kept)
    BY <1>1, <1>3, <1>5, <2>3
  <2>4. QED
    BY <1>4, <2>1, <2>2, <2>3
<1>6. OneEach(put)
  BY <1>5 DEF OneEach
<1>7. Len(put) <= max
  BY <1>1, <1>2, <1>3
<1>8. IsPut(put, K, V, map, key, value, max)
  BY <1>1, <1>3, <1>4, <1>6, <1>7 DEF IsPut
<1>9. QED
  BY <1>8 DEF put
----------------------------------------------------------------------------
(* What the engine's callbacks do, seen from the parts of the state.       *)
States == {"stopped", "signing", "publishing", "published", "verified-locally",
           "verified-by-peer", "failed"}

Callbacks == [Bundle -> {NoAttempt} \cup Attempt]

LEMMA Heads == TypeOK => head \in Bundle /\ {head} \in Root
BY DEF TypeOK, Bundle, Root

LEMMA Tells ==
  ASSUME TypeOK, NEW b \in Bundle, NEW v \in BOOLEAN, TellVerified(b, v)
  PROVE  /\ state' \in States /\ verdictCb' \in Callbacks
         /\ \A c \in Bundle : verdictCb'[c] \in {NoAttempt, verdictCb[c]}
         /\ attempt' = attempt /\ evicted' = evicted
         /\ state' # state => /\ v /\ state' = "verified-locally"
                              /\ verdictCb[b] = attempt /\ attempt # NoAttempt
                              /\ state \notin {"failed", "verified-by-peer"}
<1>1. attempt' = attempt /\ evicted' = evicted
  BY DEF TellVerified
<1>2. CASE v
  BY <1>1, <1>2 DEF TypeOK, TellVerified, Settle, States, Callbacks
<1>3. CASE ~v
  BY <1>1, <1>3 DEF TypeOK, TellVerified, States, Callbacks
<1>4. QED
  BY <1>2, <1>3

LEMMA Evicts ==
  ASSUME TypeOK, NEW b \in Bundle, Evict(b)
  PROVE  /\ state' \in {state, "failed"} /\ evicted' \in BOOLEAN /\ attempt' = attempt
         /\ state' # state => verdictCb[b] = attempt /\ attempt # NoAttempt
         /\ verdictCb' \in Callbacks /\ checkpointCb' \in Callbacks
         /\ \A c \in Bundle : /\ verdictCb'[c] \in {NoAttempt, verdictCb[c]}
                              /\ checkpointCb'[c] \in {NoAttempt, checkpointCb[c]}
         /\ admitted' = admitted \ {b} /\ gateOk' = gateOk \ {b} /\ nameOk' = nameOk \ {b}
         /\ ownCids' = ownCids \ {b}
         /\ credited' = [credited EXCEPT ![b] = {}]
<1>1. CASE verdictCb[b] # NoAttempt
  BY <1>1 DEF TypeOK, Evict, Drop, Forget, Callbacks
<1>2. CASE verdictCb[b] = NoAttempt
  BY <1>2 DEF TypeOK, Evict, Drop, Forget, Callbacks, ballot
<1>3. QED
  BY <1>1, <1>2

(* A credit goes to the peers and the bundles it is asked for, and moves   *)
(* the ballot only when the attempt waits for one of these bundles.        *)
LEMMA Credits ==
  ASSUME TypeOK, NEW ps \in SUBSET Peer, NEW mine \in SUBSET Bundle, CreditPeers(ps, mine)
  PROVE  /\ credited' \in [Bundle -> SUBSET Peer] /\ checkpointCb' \in Callbacks
         /\ state' \in States /\ attempt' = attempt /\ evicted' = evicted
         /\ \A b \in Bundle :
              /\ checkpointCb'[b] \in {NoAttempt, checkpointCb[b]}
              /\ \A p \in credited'[b] : p \in credited[b] \/ (p \in ps /\ b \in mine)
         /\ state' # state => /\ state' = "verified-by-peer"
                              /\ state \notin {"failed", "verified-by-peer"}
                              /\ \E b \in mine : /\ ps # {} /\ attempt # NoAttempt
                                                 /\ checkpointCb[b] = attempt
<1> DEFINE to == mine \cap ownCids
           first == {b \in to : ps # {} /\ credited[b] = {} /\ checkpointCb[b] # NoAttempt}
<1>1. /\ credited' = [b \in Bundle |-> IF b \in to THEN credited[b] \cup ps ELSE credited[b]]
      /\ checkpointCb' = [b \in Bundle |-> IF b \in first THEN NoAttempt ELSE checkpointCb[b]]
      /\ state' = IF \E b \in first : checkpointCb[b] = attempt
                  THEN Settle(attempt, "verified-by-peer") ELSE state
      /\ attempt' = attempt /\ evicted' = evicted
  BY DEF CreditPeers
<1>2. /\ credited \in [Bundle -> SUBSET Peer] /\ checkpointCb \in Callbacks
      /\ state \in States
  BY DEF TypeOK, Callbacks, States
<1>3. \A b \in first : b \in mine /\ ps # {} /\ checkpointCb[b] # NoAttempt
  OBVIOUS
<1> HIDE DEF first
<1>4. credited' \in [Bundle -> SUBSET Peer]
  BY <1>1, <1>2
<1>5. checkpointCb' \in Callbacks /\ \A b \in Bundle : checkpointCb'[b] \in {NoAttempt, checkpointCb[b]}
  BY <1>1, <1>2 DEF Callbacks
<1>6. \A b \in Bundle : \A p \in credited'[b] : p \in credited[b] \/ (p \in ps /\ b \in mine)
  BY <1>1, <1>2
<1>7. state' \in States
  BY <1>1, <1>2 DEF Settle, States
<1>8. ASSUME state' # state
      PROVE  /\ state' = "verified-by-peer" /\ state \notin {"failed", "verified-by-peer"}
             /\ \E b \in mine : ps # {} /\ attempt # NoAttempt /\ checkpointCb[b] = attempt
  BY <1>1, <1>3, <1>8 DEF Settle
<1>9. QED
  BY <1>1, <1>4, <1>5, <1>6, <1>7, <1>8

(* A root found to hold the bundles of mine: the peers that advertise it.  *)
HoldersOf(r) == {p \in Peer : \E i \in 1..Len(peerRoots) : peerRoots[i] = <<p, r>>}

LEMMA Indexes ==
  ASSUME TypeOK, NEW r \in Root, NEW mine \in SUBSET Bundle, indexRootContents(r, mine)
  PROVE  \/ UNCHANGED <<decodedRoots, credited, checkpointCb, ballot>>
         \/ /\ decodedRoots' = Put(decodedRoots, r, mine, DecodedRootsMax)
            /\ CreditPeers(HoldersOf(r), mine)
BY DEF indexRootContents, HoldersOf

LEMMA PeerRootPut ==
  ASSUME TypeOK, NEW p \in Peer, NEW r \in Root,
         peerRoots' = Put(peerRoots, p, r, PeerRootsMax)
  PROVE  /\ peerRoots' \in Seq(Peer \X Root) /\ Len(peerRoots') <= PeerRootsMax
         /\ OneEach(peerRoots')
         /\ \A i \in 1..Len(peerRoots') : \/ peerRoots'[i] = <<p, r>>
                                          \/ \E j \in 1..Len(peerRoots) : peerRoots'[i] = peerRoots[j]
<1>1. PeerRootsMax \in Nat \ {0}
  BY PublicationAssumption
<1>2. peerRoots \in Seq(Peer \X Root) /\ Len(peerRoots) <= PeerRootsMax /\ OneEach(peerRoots)
  BY DEF TypeOK
<1>3. IsPut(peerRoots', Peer, Root, peerRoots, p, r, PeerRootsMax)
  BY <1>1, <1>2, PutFacts
<1>4. QED
  BY <1>3 DEF IsPut

LEMMA DecodedRootPut ==
  ASSUME TypeOK, NEW r \in Root, NEW mine \in SUBSET Bundle,
         decodedRoots' = Put(decodedRoots, r, mine, DecodedRootsMax)
  PROVE  /\ decodedRoots' \in Seq(Root \X SUBSET Bundle) /\ Len(decodedRoots') <= DecodedRootsMax
         /\ OneEach(decodedRoots')
         /\ \A i \in 1..Len(decodedRoots') :
              \/ decodedRoots'[i] = <<r, mine>>
              \/ \E j \in 1..Len(decodedRoots) : decodedRoots'[i] = decodedRoots[j]
<1>1. DecodedRootsMax \in Nat \ {0}
  BY PublicationAssumption
<1>2. /\ decodedRoots \in Seq(Root \X SUBSET Bundle) /\ Len(decodedRoots) <= DecodedRootsMax
      /\ OneEach(decodedRoots)
  BY DEF TypeOK
<1>3. IsPut(decodedRoots', Root, SUBSET Bundle, decodedRoots, r, mine, DecodedRootsMax)
  BY <1>1, <1>2, PutFacts
<1>4. QED
  BY <1>3 DEF IsPut

LEMMA DecodedTyped ==
  ASSUME TypeOK, NEW r \in Root
  PROVE  /\ Decoded(r) \in SUBSET Bundle
         /\ \A b \in Decoded(r) : \E i \in 1..Len(decodedRoots) :
              decodedRoots[i][1] = r /\ b \in decodedRoots[i][2]
<1>1. \A i \in 1..Len(decodedRoots) : decodedRoots[i] \in Root \X SUBSET Bundle
  BY ElementOfSeq DEF TypeOK
<1>2. ASSUME NEW b \in Decoded(r)
      PROVE  \E i \in 1..Len(decodedRoots) : decodedRoots[i][1] = r /\ b \in decodedRoots[i][2]
  BY <1>2 DEF Decoded
<1>3. QED
  BY <1>1, <1>2

LEMMA HeardTyped ==
  ASSUME TypeOK, NEW r \in Heard
  PROVE  r \in Root /\ \E p \in Peer : r \in advertised[p]
BY DEF TypeOK, Heard
----------------------------------------------------------------------------
(* The inductive invariant.                                                *)

\* the bundle b is the one that attempt a signed
IsBundleOf(a, b) == signed[a] = {b} /\ call[a] \in {"signed", "broadcast", "ended"}

\* a callback kept for a bundle is the callback of the attempt that signed it
CallbacksAreOfSigned ==
  \A b \in Bundle : /\ verdictCb[b] # NoAttempt => IsBundleOf(verdictCb[b], b)
                    /\ checkpointCb[b] # NoAttempt => IsBundleOf(checkpointCb[b], b)

\* later attempts have not begun, and a host that awaits has one under way
OneUnderWay ==
  /\ \A a \in Attempt : a > attempt => call[a] = "none"
  /\ HostAwaits => \A a \in Attempt : a # attempt => call[a] \in {"none", "ended"}

\* a call has a bundle only once it has read the head, and the ballot of a
\* host that awaits says "signing" until the signer answers
AskedInSigning ==
  /\ \A a \in Attempt : call[a] \in {"none", "preflight"} => signed[a] = {}
  /\ HostAwaits => \A a \in Attempt :
       call[a] \in {"unsettled", "settled"} /\ signed[a] # {} => state = "signing"

\* the root r held b, or stood for it
Backs(r, b) == b \in r \/ <<r, b>> \in stoodFor

\* what is noted of roots was advertised, and each root backs its bundles
RootsHaveEvidence ==
  /\ gateOk \subseteq gatePassed
  /\ \A i \in 1..Len(peerRoots) : peerRoots[i][2] \in advertised[peerRoots[i][1]]
  /\ \A i \in 1..Len(decodedRoots) : \A b \in decodedRoots[i][2] : Backs(decodedRoots[i][1], b)

IInv ==
  /\ TypeOK /\ CallbacksAreOfSigned /\ OneUnderWay /\ AskedInSigning
  /\ RootsHaveEvidence /\ CreditHasEvidence /\ VerdictsAreOfAttempt

----------------------------------------------------------------------------
(* Types.                                                                  *)
LEMMA PublishStepTypes ==
  ASSUME TypeOK, NEW a \in Attempt, PublishStep(a)
  PROVE  TypeOK'
<1>1. CASE Preflight(a)
  BY <1>1 DEF TypeOK, Preflight, Fails, ballot, checks, own, roots, history
<1>2. ASSUME NEW b \in Bundle, SignVote(a, b) PROVE TypeOK'
  <2>2. /\ signed' \in [Attempt -> Root]
        /\ verdictCb' \in [Bundle -> {NoAttempt} \cup Attempt]
        /\ checkpointCb' \in [Bundle -> {NoAttempt} \cup Attempt]
        /\ background' \in [Bundle -> {"out", "gate", "names"}]
        /\ call' \in [Attempt -> {"none", "preflight", "unsettled", "settled", "signed", "broadcast", "ended"}]
    BY <1>2 DEF TypeOK, SignVote
  <2>3. /\ admitted' \subseteq Bundle /\ gateOk' \subseteq admitted' /\ nameOk' \subseteq admitted'
        /\ ownCids' \subseteq Bundle
    BY <1>2 DEF TypeOK, SignVote, trackOwnBundle
  <2>4. QED
    BY <1>2, <2>2, <2>3 DEF TypeOK, SignVote, ballot, roots, history
<1>3. CASE Broadcast(a)
  BY <1>3 DEF TypeOK, Broadcast, checks, own, roots, history
<1>4. CASE Published(a)
  BY <1>4 DEF TypeOK, Published, checks, own, roots, history
<1>5. CASE PublishThrows(a)
  <2>1. {} \in Root
    BY DEF Root
  <2>2. QED
    BY <1>5, <2>1 DEF TypeOK, PublishThrows, Fails, checks, own, roots, history
<1>6. CASE ReadHead(a)
  <2>1. {head} \in Root
    BY Heads
  <2>2. QED
    BY <1>6, <2>1 DEF TypeOK, ReadHead, checks, own, roots, history
<1>7. QED
  BY <1>1, <1>2, <1>3, <1>4, <1>5, <1>6 DEF PublishStep

LEMMA EvictTypes ==
  ASSUME TypeOK, NEW b \in Bundle, Evict(b),
         background' = [background EXCEPT ![b] = "out"],
         UNCHANGED <<named, calls, head, roots, history>>
  PROVE  TypeOK'
<1>1. /\ state' \in {state, "failed"} /\ evicted' \in BOOLEAN /\ attempt' = attempt
      /\ verdictCb' \in Callbacks /\ checkpointCb' \in Callbacks
      /\ admitted' = admitted \ {b} /\ gateOk' = gateOk \ {b} /\ nameOk' = nameOk \ {b}
      /\ ownCids' = ownCids \ {b}
      /\ credited' = [credited EXCEPT ![b] = {}]
  BY Evicts
<1>2. credited' \in [Bundle -> SUBSET Peer]
  BY <1>1 DEF TypeOK
<1>3. QED
  BY <1>1, <1>2 DEF TypeOK, Callbacks, calls, roots, history

LEMMA BackgroundTypes ==
  ASSUME TypeOK, NEW b \in Bundle, BackgroundStep(b)
  PROVE  TypeOK'
<1>1. CASE GateVerified(b)
  <2>1. TellVerified(b, b \in admitted /\ (named => b \in nameOk))
    BY <1>1 DEF GateVerified
  <2>2. state' \in States /\ verdictCb' \in Callbacks /\ attempt' = attempt /\ evicted' = evicted
    <3> DEFINE v == b \in admitted /\ (named => b \in nameOk)
    <3>1. v \in BOOLEAN /\ TellVerified(b, v)
      BY <2>1
    <3> HIDE DEF v
    <3>2. QED
      BY <3>1, Tells
  <2>3. gateOk' \subseteq admitted' /\ nameOk' = nameOk /\ admitted' = admitted
    BY <1>1 DEF TypeOK, GateVerified
  <2>4. QED
    BY <1>1, <2>2, <2>3 DEF TypeOK, GateVerified, States, Callbacks, calls, roots
<1>2. CASE GateRefused(b)
  BY <1>2, EvictTypes DEF GateRefused
<1>3. CASE NameStage(b)
  <2>1. CASE Evict(b)
    BY <1>3, <2>1, EvictTypes DEF NameStage
  <2>2. CASE /\ nameOk' = IF b \in admitted THEN nameOk \cup {b} ELSE nameOk
             /\ UNCHANGED <<admitted, gateOk, checkpointCb, ownCids, credited>>
             /\ TellVerified(b, b \in gateOk)
    <3>1. state' \in States /\ verdictCb' \in Callbacks /\ attempt' = attempt /\ evicted' = evicted
      <4> DEFINE v == b \in gateOk
      <4>1. v \in BOOLEAN /\ TellVerified(b, v)
        BY <2>2
      <4> HIDE DEF v
      <4>2. QED
        BY <4>1, Tells
    <3>2. nameOk' \subseteq admitted'
      BY <2>2 DEF TypeOK
    <3>3. QED
      BY <1>3, <2>2, <3>1, <3>2 DEF TypeOK, NameStage, States, Callbacks, calls, roots, history
  <2>3. QED
    BY <1>3, <2>1, <2>2 DEF NameStage
<1>4. QED
  BY <1>1, <1>2, <1>3 DEF BackgroundStep

LEMMA PruneTypes ==
  ASSUME TypeOK, Prune
  PROVE  TypeOK'
<1> DEFINE gone == {b \in admitted : Expired(b) \/ (b # Max(admitted) /\ Verified(Max(admitted)))}
<1>1. /\ Drop(gone) /\ Forget(gone)
      /\ verdictCb' = [b \in Bundle |-> IF b \in gone THEN NoAttempt ELSE verdictCb[b]]
      /\ checkpointCb' = [b \in Bundle |-> IF b \in gone THEN NoAttempt ELSE checkpointCb[b]]
      /\ credited' = [b \in Bundle |-> IF b \in gone THEN {} ELSE credited[b]]
      /\ UNCHANGED <<named, ballot, calls, head, background, roots, history>>
  BY DEF Prune
<1> HIDE DEF gone
<1>2. /\ verdictCb' \in [Bundle -> {NoAttempt} \cup Attempt]
      /\ checkpointCb' \in [Bundle -> {NoAttempt} \cup Attempt]
      /\ credited' \in [Bundle -> SUBSET Peer]
  BY <1>1 DEF TypeOK
<1>3. /\ admitted' \subseteq Bundle /\ gateOk' \subseteq admitted' /\ nameOk' \subseteq admitted'
      /\ ownCids' \subseteq Bundle
  BY <1>1 DEF TypeOK, Drop, Forget
<1>4. QED
  BY <1>1, <1>2, <1>3 DEF TypeOK, ballot, calls, roots, history

LEMMA HearRootTypes ==
  ASSUME TypeOK, NEW p \in Peer, NEW r \in Root, HearRoot(p, r)
  PROVE  TypeOK'
<1>1. /\ peerRoots' = Put(peerRoots, p, r, PeerRootsMax)
      /\ advertised' = [advertised EXCEPT ![p] = @ \cup {r}]
      /\ CreditPeers({p}, Decoded(r))
      /\ UNCHANGED <<named, calls, head, checks, background, verdictCb, ownCids, decodedRoots,
                     matching, gatePassed, stoodFor>>
  BY DEF HearRoot, Advertises
<1>2. {p} \in SUBSET Peer /\ Decoded(r) \in SUBSET Bundle
  BY DecodedTyped
<1>3. /\ credited' \in [Bundle -> SUBSET Peer] /\ checkpointCb' \in Callbacks
      /\ state' \in States /\ attempt' = attempt /\ evicted' = evicted
  BY <1>1, <1>2, Credits
<1>4. peerRoots' \in Seq(Peer \X Root) /\ Len(peerRoots') <= PeerRootsMax /\ OneEach(peerRoots')
  BY <1>1, PeerRootPut
<1>5. advertised' \in [Peer -> SUBSET Root]
  BY <1>1 DEF TypeOK
<1>6. OneEach(decodedRoots')
  BY <1>1 DEF TypeOK
<1>7. QED
  BY <1>1, <1>3, <1>4, <1>5, <1>6 DEF TypeOK, States, Callbacks, calls, checks

LEMMA IndexTypes ==
  ASSUME TypeOK, NEW r \in Root, NEW mine \in SUBSET Bundle, indexRootContents(r, mine),
         UNCHANGED <<named, calls, head, checks, background, verdictCb, ownCids, peerRoots,
                     gatePassed, advertised>>,
         matching' \subseteq Root, stoodFor' \subseteq Root \X Bundle
  PROVE  TypeOK'
<1>1. OneEach(peerRoots')
  BY DEF TypeOK
<1>2. CASE UNCHANGED <<decodedRoots, credited, checkpointCb, ballot>>
  <2>1. OneEach(decodedRoots')
    BY <1>2 DEF TypeOK
  <2>2. QED
    BY <1>1, <1>2, <2>1 DEF TypeOK, ballot, calls, checks
<1>3. CASE /\ decodedRoots' = Put(decodedRoots, r, mine, DecodedRootsMax)
           /\ CreditPeers(HoldersOf(r), mine)
  <2>1. HoldersOf(r) \in SUBSET Peer
    BY DEF HoldersOf
  <2>2. /\ credited' \in [Bundle -> SUBSET Peer] /\ checkpointCb' \in Callbacks
        /\ state' \in States /\ attempt' = attempt /\ evicted' = evicted
    BY <1>3, <2>1, Credits
  <2>3. /\ decodedRoots' \in Seq(Root \X SUBSET Bundle) /\ Len(decodedRoots') <= DecodedRootsMax
        /\ OneEach(decodedRoots')
    BY <1>3, DecodedRootPut
  <2>4. QED
    BY <1>1, <2>2, <2>3 DEF TypeOK, States, Callbacks, calls, checks
<1>4. QED
  BY <1>2, <1>3, Indexes

(* What a decoded or a matching root is indexed with.                      *)
LEMMA MineTyped ==
  ASSUME TypeOK, NEW r
  PROVE  ownVerifiedCids \in SUBSET Bundle /\ (r \cap ownCids) \in SUBSET Bundle
BY DEF TypeOK, ownVerifiedCids

LEMMA TypesKept ==
  ASSUME TypeOK, [Next]_vars
  PROVE  TypeOK'
<1>1. CASE Publish
  <2>1. attempt' \in Attempt
    BY <1>1, PublicationAssumption DEF TypeOK, Publish, Attempt, NoAttempt
  <2>2. /\ call' = [call EXCEPT ![attempt'] = "preflight"] /\ evicted' = FALSE
        /\ UNCHANGED <<named, state, signed, head, checks, background, own, roots, history>>
    BY <1>1 DEF Publish
  <2>3. OneEach(peerRoots') /\ OneEach(decodedRoots')
    BY <1>1 DEF TypeOK, Publish, roots
  <2>4. QED
    BY <2>1, <2>2, <2>3 DEF TypeOK, checks, own, roots, history
<1>2. CASE AdvanceHead
  BY <1>2, PublicationAssumption
     DEF TypeOK, AdvanceHead, OneEach, ballot, calls, checks, own, roots, history
<1>3. ASSUME NEW r \in Root, RootMatches(r) PROVE TypeOK'
  <2>1. stoodFor' \subseteq Root \X Bundle
    BY <1>3 DEF TypeOK, RootMatches
  <2>2. QED
    BY <1>3, <2>1, MineTyped, IndexTypes DEF RootMatches
<1>4. ASSUME NEW r \in Root, ChaseDecodes(r) PROVE TypeOK'
  <2>1. matching' \subseteq Root /\ stoodFor' \subseteq Root \X Bundle
    BY <1>4 DEF TypeOK, ChaseDecodes, history
  <2>2. QED
    BY <1>4, <2>1, MineTyped, IndexTypes DEF ChaseDecodes, history
<1>5. CASE TakeRecord
  <2>1. {served} \subseteq Root
    BY <1>5, HeardTyped DEF TakeRecord
  <2>2. OneEach(peerRoots') /\ OneEach(decodedRoots')
    BY <1>5 DEF TypeOK, TakeRecord
  <2>3. QED
    BY <1>5, <2>1, <2>2 DEF TypeOK, TakeRecord, ballot, calls, checks, own, history
<1>6. CASE UNCHANGED vars
  BY <1>6 DEF TypeOK, OneEach, vars, ballot, calls, checks, own, roots, history
<1>7. QED
  BY <1>1, <1>2, <1>3, <1>4, <1>6, <1>5, PruneTypes, PublishStepTypes, BackgroundTypes, HearRootTypes
     DEF Next
----------------------------------------------------------------------------
(* A callback is kept for the bundle its attempt signed: signVote sets     *)
(* both, and every other step at most takes callbacks away.                *)
LEMMA CallbacksStay ==
  ASSUME TypeOK, CallbacksAreOfSigned,
         \A b \in Bundle : /\ verdictCb'[b] \in {NoAttempt, verdictCb[b]}
                           /\ checkpointCb'[b] \in {NoAttempt, checkpointCb[b]},
         UNCHANGED <<call, signed>>
  PROVE  CallbacksAreOfSigned'
<1>1. ASSUME NEW a, NEW b PROVE IsBundleOf(a, b)' = IsBundleOf(a, b)
  BY DEF IsBundleOf
<1>2. QED
  BY <1>1 DEF CallbacksAreOfSigned

(* A call that moves on without signing.                                   *)
LEMMA CallsMove ==
  ASSUME TypeOK, CallbacksAreOfSigned, NEW a \in Attempt, NEW stage,
         call' = [call EXCEPT ![a] = stage],
         call[a] \in {"signed", "broadcast", "ended"} => stage \in {"signed", "broadcast", "ended"},
         UNCHANGED <<signed, verdictCb, checkpointCb>>
  PROVE  CallbacksAreOfSigned'
<1>1. ASSUME NEW c \in Attempt, NEW b \in Bundle, IsBundleOf(c, b)
      PROVE  IsBundleOf(c, b)'
  BY <1>1 DEF TypeOK, IsBundleOf
<1>2. QED
  BY <1>1 DEF TypeOK, CallbacksAreOfSigned

LEMMA CallbacksKept ==
  ASSUME TypeOK, CallbacksAreOfSigned, OneUnderWay, [Next]_vars
  PROVE  CallbacksAreOfSigned'
<1>1. CASE Publish
  <2>1. attempt' \in Attempt /\ attempt' > attempt
    BY <1>1, PublicationAssumption DEF TypeOK, Publish, Attempt, NoAttempt
  <2>2. call[attempt'] = "none"
    BY <2>1 DEF OneUnderWay
  <2>3. QED
    BY <1>1, <2>1, <2>2, CallsMove DEF Publish, own
<1>2. ASSUME NEW a \in Attempt, Preflight(a) PROVE CallbacksAreOfSigned'
  <2>1. UNCHANGED <<signed, verdictCb, checkpointCb>> /\ call[a] = "preflight"
    BY <1>2 DEF Preflight, own
  <2>2. PICK stage \in {"settled", "unsettled", "ended"} : call' = [call EXCEPT ![a] = stage]
    BY <1>2 DEF Preflight, Fails
  <2>3. QED
    BY <2>1, <2>2, CallsMove
<1>3. ASSUME NEW a \in Attempt, NEW h \in Bundle, SignVote(a, h) PROVE CallbacksAreOfSigned'
  <2>1. /\ call[a] \in {"unsettled", "settled"}
        /\ signed[a] = {h} /\ signed' = signed
        /\ call' = [call EXCEPT ![a] = "signed"]
        /\ verdictCb' = [verdictCb EXCEPT ![h] = a]
        /\ checkpointCb' = [checkpointCb EXCEPT ![h] = a]
    BY <1>3 DEF SignVote
  <2>3. IsBundleOf(a, h)'
    BY <2>1 DEF TypeOK, IsBundleOf
  <2>4. ASSUME NEW c \in Attempt, NEW b \in Bundle, IsBundleOf(c, b)
        PROVE  IsBundleOf(c, b)'
    <3>1. c # a
      BY <2>1, <2>4 DEF IsBundleOf
    <3>2. QED
      BY <2>1, <2>4, <3>1 DEF TypeOK, IsBundleOf
  <2>5. ASSUME NEW b \in Bundle
        PROVE  /\ verdictCb'[b] # NoAttempt => IsBundleOf(verdictCb[b], b)' \/ b = h
               /\ checkpointCb'[b] # NoAttempt => IsBundleOf(checkpointCb[b], b)' \/ b = h
    BY <2>1, <2>4 DEF TypeOK, CallbacksAreOfSigned
  <2>6. ASSUME NEW b \in Bundle
        PROVE  /\ verdictCb'[b] # NoAttempt => IsBundleOf(verdictCb[b], b)'
               /\ checkpointCb'[b] # NoAttempt => IsBundleOf(checkpointCb[b], b)'
    <3>1. CASE b = h
      <4>1. verdictCb'[b] = a /\ checkpointCb'[b] = a
        BY <2>1, <3>1 DEF TypeOK
      <4>2. QED
        BY <2>1, <2>3, <3>1, <4>1 DEF IsBundleOf
    <3>2. CASE b # h
      <4>1. verdictCb'[b] = verdictCb[b] /\ checkpointCb'[b] = checkpointCb[b]
        BY <2>1, <3>2 DEF TypeOK
      <4>2. verdictCb[b] # NoAttempt => verdictCb[b] \in Attempt
        BY DEF TypeOK
      <4>3. checkpointCb[b] # NoAttempt => checkpointCb[b] \in Attempt
        BY DEF TypeOK
      <4>4. QED
        BY <2>4, <4>1, <4>2, <4>3 DEF CallbacksAreOfSigned, IsBundleOf
    <3>3. QED
      BY <3>1, <3>2
  <2>7. QED
    BY <2>6 DEF CallbacksAreOfSigned
<1>4. ASSUME NEW a \in Attempt, Broadcast(a) \/ Published(a) \/ (PublishThrows(a) /\ call[a] = "broadcast")
      PROVE  CallbacksAreOfSigned'
  <2>1. UNCHANGED <<signed, verdictCb, checkpointCb>>
    BY <1>4 DEF TypeOK, Broadcast, Published, PublishThrows, own
  <2>2. PICK stage \in {"broadcast", "ended"} : call' = [call EXCEPT ![a] = stage]
    BY <1>4 DEF Broadcast, Published, PublishThrows, Fails
  <2>3. QED
    BY <2>1, <2>2, CallsMove
<1>5. ASSUME NEW a \in Attempt, ReadHead(a) \/ (PublishThrows(a) /\ call[a] # "broadcast")
       PROVE  CallbacksAreOfSigned'
  <2>1. call[a] \notin {"signed", "broadcast", "ended"} /\ UNCHANGED <<verdictCb, checkpointCb>>
    BY <1>5 DEF ReadHead, PublishThrows, own
  <2>2. \A c \in Attempt : c # a => call'[c] = call[c] /\ signed'[c] = signed[c]
    BY <1>5 DEF TypeOK, ReadHead, PublishThrows, Fails
  <2>3. ASSUME NEW c \in Attempt, NEW b \in Bundle, IsBundleOf(c, b)
        PROVE  IsBundleOf(c, b)'
    BY <2>1, <2>2, <2>3 DEF IsBundleOf
  <2>4. QED
    BY <2>1, <2>3 DEF TypeOK, CallbacksAreOfSigned
<1>6. ASSUME NEW b \in Bundle, GateVerified(b) PROVE CallbacksAreOfSigned'
  <2>1. UNCHANGED <<call, signed, checkpointCb>>
    BY <1>6 DEF GateVerified, calls
  <2>2. \A c \in Bundle : verdictCb'[c] \in {NoAttempt, verdictCb[c]}
    BY <1>6 DEF TypeOK, GateVerified, TellVerified
  <2>3. QED
    BY <2>1, <2>2, CallbacksStay
<1>7. ASSUME NEW b \in Bundle, GateRefused(b) \/ NameStage(b) PROVE CallbacksAreOfSigned'
  <2>1. UNCHANGED <<call, signed>>
    BY <1>7 DEF GateRefused, NameStage, calls
  <2>2. CASE Evict(b)
    BY <2>1, <2>2, Evicts, CallbacksStay
  <2>3. CASE TellVerified(b, b \in gateOk) /\ UNCHANGED checkpointCb
    <3>1. \A c \in Bundle : verdictCb'[c] \in {NoAttempt, verdictCb[c]}
      BY <2>3 DEF TypeOK, TellVerified
    <3>2. QED
      BY <2>1, <2>3, <3>1, CallbacksStay
  <2>4. QED
    BY <1>7, <2>2, <2>3 DEF GateRefused, NameStage
<1>8. CASE Prune
  <2>1. UNCHANGED <<call, signed>>
    BY <1>8 DEF Prune, calls
  <2>2. \A b \in Bundle : /\ verdictCb'[b] \in {NoAttempt, verdictCb[b]}
                          /\ checkpointCb'[b] \in {NoAttempt, checkpointCb[b]}
    BY <1>8 DEF Prune
  <2>3. QED
    BY <2>1, <2>2, CallbacksStay
<1>9. ASSUME NEW ps \in SUBSET Peer, NEW mine \in SUBSET Bundle, CreditPeers(ps, mine),
             UNCHANGED <<calls, verdictCb>>
      PROVE  CallbacksAreOfSigned'
  <2>1. \A b \in Bundle : checkpointCb'[b] \in {NoAttempt, checkpointCb[b]}
    BY <1>9, Credits
  <2>2. QED
    BY <1>9, <2>1, CallbacksStay DEF calls
<1>10. ASSUME NEW r \in Root, NEW mine \in SUBSET Bundle, indexRootContents(r, mine),
             UNCHANGED <<calls, verdictCb>>
      PROVE  CallbacksAreOfSigned'
  <2>1. CASE UNCHANGED checkpointCb
    BY <1>10, <2>1, CallbacksStay DEF calls
  <2>2. CASE CreditPeers(HoldersOf(r), mine)
    <3>1. HoldersOf(r) \in SUBSET Peer
      BY DEF HoldersOf
    <3>2. QED
      BY <1>9, <1>10, <2>2, <3>1
  <2>3. QED
    BY <1>10, <2>1, <2>2, Indexes
<1>11. ASSUME NEW p \in Peer, NEW r \in Root, HearRoot(p, r) PROVE CallbacksAreOfSigned'
  <2>1. {p} \in SUBSET Peer /\ Decoded(r) \in SUBSET Bundle
    BY DecodedTyped
  <2>2. QED
    BY <1>9, <1>11, <2>1 DEF HearRoot
<1>12. ASSUME NEW r \in Root, RootMatches(r) PROVE CallbacksAreOfSigned'
  BY <1>10, <1>12, MineTyped DEF RootMatches
<1>13. ASSUME NEW r \in Root, ChaseDecodes(r) PROVE CallbacksAreOfSigned'
  BY <1>10, <1>13, MineTyped DEF ChaseDecodes
<1>14. CASE AdvanceHead \/ TakeRecord \/ UNCHANGED vars
  BY <1>14, CallbacksStay DEF AdvanceHead, TakeRecord, vars, calls, own
<1>15. QED
  BY <1>1, <1>2, <1>3, <1>4, <1>5, <1>6, <1>7, <1>8, <1>11, <1>12, <1>13, <1>14
     DEF Next, PublishStep, BackgroundStep

(* Only publish() begins an attempt, and it counts.                        *)
LEMMA OneUnderWayKept ==
  ASSUME TypeOK, OneUnderWay, [Next]_vars
  PROVE  OneUnderWay'
<1>1. CASE Publish
  <2>1. attempt' \in Attempt /\ attempt' = attempt + 1 /\ attempt \in Int
    BY <1>1, PublicationAssumption DEF TypeOK, Publish, Attempt, NoAttempt
  <2>2. ASSUME NEW a \in Attempt, a # attempt' PROVE call'[a] = call[a]
    BY <1>1, <2>1, <2>2 DEF TypeOK, Publish
  <2>3. ASSUME NEW a \in Attempt, a > attempt' PROVE call'[a] = "none"
    <3>1. a \in Int /\ a > attempt /\ a # attempt'
      BY <2>1, <2>3 DEF Attempt
    <3>2. QED
      BY <2>2, <3>1 DEF OneUnderWay
  <2>4. HostAwaits => \A a \in Attempt : a # attempt' => call'[a] \in {"none", "ended"}
    BY <1>1, <2>2 DEF Publish
  <2>5. QED
    BY <2>3, <2>4 DEF OneUnderWay
<1>2. ASSUME NEW a \in Attempt, PublishStep(a) PROVE OneUnderWay'
  <2>1. attempt' = attempt
    BY <1>2 DEF PublishStep, Preflight, ReadHead, SignVote, Broadcast, Published, PublishThrows, Fails, ballot
  <2>2. call[a] \notin {"none", "ended"}
    BY <1>2 DEF PublishStep, Preflight, ReadHead, SignVote, Broadcast, Published, PublishThrows
  <2>3. \A c \in Attempt : c # a => call'[c] = call[c]
    BY <1>2
       DEF TypeOK, PublishStep, Preflight, ReadHead, SignVote, Broadcast, Published, PublishThrows, Fails
  <2>4. QED
    BY <2>1, <2>2, <2>3 DEF OneUnderWay
<1>3. CASE UNCHANGED <<call, attempt>>
  BY <1>3 DEF OneUnderWay
<1>4. ASSUME NEW b \in Bundle, BackgroundStep(b) PROVE UNCHANGED <<call, attempt>>
  BY <1>4, Evicts DEF BackgroundStep, GateVerified, GateRefused, NameStage, TellVerified, calls
<1>5. ASSUME NEW p \in Peer, NEW r \in Root, HearRoot(p, r) PROVE UNCHANGED <<call, attempt>>
  BY <1>5 DEF HearRoot, CreditPeers, calls
<1>6. ASSUME NEW r, NEW mine, indexRootContents(r, mine) PROVE UNCHANGED attempt
  BY <1>6 DEF indexRootContents, CreditPeers, ballot
<1>7. QED
  BY <1>1, <1>2, <1>3, <1>4, <1>5, <1>6
     DEF Next, Prune, AdvanceHead, TakeRecord, RootMatches, ChaseDecodes, vars, ballot, calls
----------------------------------------------------------------------------
(* What is noted of roots has evidence.                                    *)

(* Evidence is never taken back.                                           *)
LEMMA HistoryGrows ==
  ASSUME TypeOK, [Next]_vars
  PROVE  /\ gatePassed \subseteq gatePassed'
         /\ \A p \in Peer : advertised[p] \subseteq advertised'[p]
         /\ stoodFor \subseteq stoodFor'
<1>1. ASSUME NEW p \in Peer, NEW r \in Root, HearRoot(p, r)
      PROVE  /\ gatePassed \subseteq gatePassed' /\ stoodFor' = stoodFor
             /\ \A q \in Peer : advertised[q] \subseteq advertised'[q]
  BY <1>1 DEF TypeOK, HearRoot, Advertises
<1>2. ASSUME NEW b \in Bundle, GateVerified(b)
      PROVE  gatePassed \subseteq gatePassed' /\ advertised' = advertised /\ stoodFor' = stoodFor
  BY <1>2 DEF GateVerified
<1>3. CASE UNCHANGED history
  BY <1>3 DEF history
<1>4. ASSUME NEW r \in Root, RootMatches(r)
      PROVE  UNCHANGED <<gatePassed, advertised>> /\ stoodFor \subseteq stoodFor'
  BY <1>4 DEF RootMatches
<1>5. QED
  BY <1>1, <1>2, <1>3, <1>4
     DEF Next, Publish, Prune, AdvanceHead, TakeRecord, ChaseDecodes, vars, PublishStep, Preflight,
         ReadHead, SignVote, Broadcast, Published, PublishThrows, BackgroundStep, GateRefused, NameStage

(* Only the gate's verdict makes a bundle pass.                            *)
LEMMA GateOkKept ==
  ASSUME TypeOK, [Next]_vars, gateOk \subseteq gatePassed
  PROVE  gateOk' \subseteq gatePassed'
<1>1. ASSUME NEW b \in Bundle, GateVerified(b) PROVE gateOk' \subseteq gatePassed'
  BY <1>1 DEF GateVerified
<1>2. ASSUME NEW a \in Attempt, PublishStep(a) PROVE gateOk' \subseteq gateOk
  BY <1>2 DEF PublishStep, Preflight, ReadHead, SignVote, Broadcast, Published, PublishThrows, checks
<1>3. ASSUME NEW b \in Bundle, GateRefused(b) \/ NameStage(b) PROVE gateOk' \subseteq gateOk
  BY <1>3, Evicts DEF GateRefused, NameStage
<1>4. CASE Prune
  BY <1>4 DEF Prune, Drop, history
<1>5. CASE UNCHANGED gateOk
  BY <1>5, HistoryGrows
<1>6. QED
  BY <1>1, <1>2, <1>3, <1>4, <1>5, HistoryGrows
     DEF Next, Publish, AdvanceHead, TakeRecord, HearRoot, RootMatches, ChaseDecodes, vars,
         BackgroundStep, checks

(* An equal root backs whatever it is indexed with.                        *)
LEMMA MatchesBack ==
  ASSUME NEW r \in Root, RootMatches(r)
  PROVE  \A b \in ownVerifiedCids : Backs(r, b)'
BY DEF RootMatches, ownVerifiedCids, Backs

(* Each map either stays or is put one entry.                              *)
LEMMA PeerRootsMove ==
  ASSUME TypeOK, [Next]_vars
  PROVE  \/ peerRoots' = peerRoots
         \/ \E p \in Peer, r \in Root : /\ peerRoots' = Put(peerRoots, p, r, PeerRootsMax)
                                        /\ r \in advertised'[p]
<1>1. ASSUME NEW p \in Peer, NEW r \in Root, HearRoot(p, r)
      PROVE  peerRoots' = Put(peerRoots, p, r, PeerRootsMax) /\ r \in advertised'[p]
  BY <1>1 DEF TypeOK, HearRoot, Advertises
<1>2. QED
  BY <1>1
     DEF Next, Publish, Prune, AdvanceHead, TakeRecord, RootMatches, ChaseDecodes, vars, roots, PublishStep,
         Preflight, ReadHead, SignVote, Broadcast, Published, PublishThrows, BackgroundStep, GateVerified,
         GateRefused, NameStage

LEMMA DecodedRootsMove ==
  ASSUME TypeOK, [Next]_vars
  PROVE  \/ decodedRoots' = decodedRoots
         \/ \E r \in Root, mine \in SUBSET Bundle :
              /\ decodedRoots' = Put(decodedRoots, r, mine, DecodedRootsMax)
              /\ \A b \in mine : Backs(r, b)'
<1>1. ASSUME NEW r \in Root, RootMatches(r)
      PROVE  \/ decodedRoots' = decodedRoots
             \/ \E mine \in SUBSET Bundle :
                  /\ decodedRoots' = Put(decodedRoots, r, mine, DecodedRootsMax)
                  /\ \A b \in mine : Backs(r, b)'
  <2>1. \A b \in ownVerifiedCids : Backs(r, b)'
    BY <1>1, MatchesBack
  <2>2. \/ decodedRoots' = decodedRoots
        \/ decodedRoots' = Put(decodedRoots, r, ownVerifiedCids, DecodedRootsMax)
    BY <1>1 DEF RootMatches, indexRootContents
  <2>3. QED
    BY <2>1, <2>2, MineTyped
<1>2. ASSUME NEW r \in Root, ChaseDecodes(r)
      PROVE  \/ decodedRoots' = decodedRoots
             \/ \E mine \in SUBSET Bundle :
                  /\ decodedRoots' = Put(decodedRoots, r, mine, DecodedRootsMax)
                  /\ \A b \in mine : Backs(r, b)'
  <2>1. indexRootContents(r, r \cap ownCids)
    BY <1>2 DEF ChaseDecodes
  <2>2. \A b \in r \cap ownCids : Backs(r, b)'
    BY DEF Backs
  <2>3. r \cap ownCids \in SUBSET Bundle
    BY MineTyped
  <2>4. \/ decodedRoots' = decodedRoots
        \/ decodedRoots' = Put(decodedRoots, r, r \cap ownCids, DecodedRootsMax)
    BY <2>1 DEF indexRootContents
  <2>5. QED
    BY <2>2, <2>3, <2>4
<1>3. QED
  BY <1>1, <1>2
     DEF Next, Publish, Prune, AdvanceHead, TakeRecord, HearRoot, vars, roots, PublishStep,
         Preflight, ReadHead, SignVote, Broadcast, Published, PublishThrows, BackgroundStep,
         GateVerified, GateRefused, NameStage

LEMMA RootsKept ==
  ASSUME TypeOK, RootsHaveEvidence, [Next]_vars
  PROVE  RootsHaveEvidence'
<1>1. gateOk' \subseteq gatePassed'
  BY GateOkKept DEF RootsHaveEvidence
<1>2. /\ stoodFor \subseteq stoodFor'
      /\ \A p \in Peer : advertised[p] \subseteq advertised'[p]
  BY HistoryGrows
<1>3. ASSUME NEW i \in 1..Len(peerRoots)
      PROVE  peerRoots[i][1] \in Peer /\ peerRoots[i][2] \in advertised'[peerRoots[i][1]]
  <2>1. peerRoots[i] \in Peer \X Root
    BY ElementOfSeq DEF TypeOK
  <2>2. peerRoots[i][2] \in advertised[peerRoots[i][1]]
    BY DEF RootsHaveEvidence
  <2>3. QED
    BY <1>2, <2>1, <2>2
<1>4. ASSUME NEW i \in 1..Len(peerRoots')
      PROVE  peerRoots'[i][2] \in advertised'[peerRoots'[i][1]]
  <2>1. CASE peerRoots' = peerRoots
    BY <1>3, <2>1
  <2>2. ASSUME NEW p \in Peer, NEW r \in Root,
               peerRoots' = Put(peerRoots, p, r, PeerRootsMax), r \in advertised'[p]
        PROVE  peerRoots'[i][2] \in advertised'[peerRoots'[i][1]]
    <3>1. \/ peerRoots'[i] = <<p, r>>
          \/ \E j \in 1..Len(peerRoots) : peerRoots'[i] = peerRoots[j]
      BY <2>2, PeerRootPut
    <3>2. QED
      BY <1>3, <2>2, <3>1
  <2>3. QED
    BY <2>1, <2>2, PeerRootsMove
<1>5. ASSUME NEW i \in 1..Len(decodedRoots')
      PROVE  \A b \in decodedRoots'[i][2] :
               b \in decodedRoots'[i][1] \/ <<decodedRoots'[i][1], b>> \in stoodFor'
  <2>1. CASE decodedRoots' = decodedRoots
    BY <1>2, <2>1 DEF RootsHaveEvidence, Backs
  <2>2. ASSUME NEW r \in Root, NEW mine \in SUBSET Bundle,
               decodedRoots' = Put(decodedRoots, r, mine, DecodedRootsMax),
               \A b \in mine : Backs(r, b)'
        PROVE  \A b \in decodedRoots'[i][2] :
                 b \in decodedRoots'[i][1] \/ <<decodedRoots'[i][1], b>> \in stoodFor'
    <3>1. \/ decodedRoots'[i] = <<r, mine>>
          \/ \E j \in 1..Len(decodedRoots) : decodedRoots'[i] = decodedRoots[j]
      BY <2>2, DecodedRootPut
    <3>2. QED
      BY <1>2, <2>2, <3>1 DEF RootsHaveEvidence, Backs
  <2>3. QED
    BY <2>1, <2>2, DecodedRootsMove
<1>6. QED
  BY <1>1, <1>4, <1>5 DEF RootsHaveEvidence, Backs

----------------------------------------------------------------------------
(* Whoever is credited: the step that credits had the evidence.            *)

\* what CreditPeers is called with by a root heard, matched or decoded
Crediting(ps, mine) ==
  /\ CreditPeers(ps, mine)
  /\ \A p \in ps, b \in mine : ShownBy(p, b)'

LEMMA IndexCredits ==
  ASSUME TypeOK, RootsHaveEvidence, NEW r \in Root, NEW mine \in SUBSET Bundle,
         indexRootContents(r, mine), UNCHANGED advertised,
         \A b \in mine : Backs(r, b)'
  PROVE  \/ UNCHANGED <<credited, checkpointCb, ballot>>
         \/ \E ps \in SUBSET Peer : Crediting(ps, mine)
<1>1. HoldersOf(r) \in SUBSET Peer
  BY DEF HoldersOf
<1>2. ASSUME NEW p \in HoldersOf(r) PROVE r \in advertised[p]
  <2>1. PICK i \in 1..Len(peerRoots) : peerRoots[i] = <<p, r>>
    BY <1>2 DEF HoldersOf
  <2>2. peerRoots[i][2] \in advertised[peerRoots[i][1]]
    BY DEF RootsHaveEvidence
  <2>3. QED
    BY <2>1, <2>2
<1>3. CASE CreditPeers(HoldersOf(r), mine)
  <2>1. \A p \in HoldersOf(r), b \in mine : ShownBy(p, b)'
    BY <1>2 DEF ShownBy, Backs
  <2>2. Crediting(HoldersOf(r), mine)
    BY <1>3, <2>1 DEF Crediting
  <2>3. QED
    BY <1>1, <2>2
<1>4. QED
  BY <1>3, Indexes

LEMMA HearCredits ==
  ASSUME TypeOK, RootsHaveEvidence, NEW p \in Peer, NEW r \in Root, HearRoot(p, r)
  PROVE  Crediting({p}, Decoded(r))
<1>1. CreditPeers({p}, Decoded(r)) /\ r \in advertised'[p] /\ stoodFor' = stoodFor
  BY DEF TypeOK, HearRoot, Advertises
<1>2. ASSUME NEW b \in Decoded(r) PROVE Backs(r, b)
  <2>1. PICK i \in 1..Len(decodedRoots) : decodedRoots[i][1] = r /\ b \in decodedRoots[i][2]
    BY DecodedTyped
  <2>2. QED
    BY <2>1 DEF RootsHaveEvidence
<1>3. QED
  BY <1>1, <1>2 DEF Crediting, ShownBy, Backs

LEMMA MatchCredits ==
  ASSUME TypeOK, RootsHaveEvidence, NEW r \in Root, RootMatches(r)
  PROVE  \/ UNCHANGED <<credited, checkpointCb, ballot>>
         \/ \E ps \in SUBSET Peer, mine \in SUBSET Bundle : Crediting(ps, mine)
<1>1. indexRootContents(r, ownVerifiedCids) /\ UNCHANGED advertised
  BY DEF RootMatches
<1>2. QED
  BY <1>1, MatchesBack, MineTyped, IndexCredits

LEMMA ChaseCredits ==
  ASSUME TypeOK, RootsHaveEvidence, NEW r \in Root, ChaseDecodes(r)
  PROVE  \/ UNCHANGED <<credited, checkpointCb, ballot>>
         \/ \E ps \in SUBSET Peer, mine \in SUBSET Bundle : Crediting(ps, mine)
<1>1. indexRootContents(r, r \cap ownCids) /\ UNCHANGED advertised
  BY DEF ChaseDecodes, history
<1>2. \A b \in r \cap ownCids : Backs(r, b)'
  BY DEF Backs
<1>3. QED
  BY <1>1, <1>2, MineTyped, IndexCredits

(* A step credits peers, or leaves every credit or none of a bundle.       *)
LEMMA CreditMoves ==
  ASSUME TypeOK, RootsHaveEvidence, [Next]_vars
  PROVE  \/ \A b \in Bundle : credited'[b] \in {{}, credited[b]}
         \/ \E ps \in SUBSET Peer, mine \in SUBSET Bundle : Crediting(ps, mine)
<1>1. ASSUME NEW b \in Bundle, Evict(b) PROVE \A c \in Bundle : credited'[c] \in {{}, credited[c]}
  BY <1>1, Evicts DEF TypeOK
<1>2. CASE Prune
  BY <1>2 DEF Prune
<1>3. ASSUME NEW p \in Peer, NEW r \in Root, HearRoot(p, r)
      PROVE  \E ps \in SUBSET Peer, mine \in SUBSET Bundle : Crediting(ps, mine)
  <2>1. {p} \in SUBSET Peer /\ Decoded(r) \in SUBSET Bundle
    BY DecodedTyped
  <2>2. QED
    BY <1>3, <2>1, HearCredits
<1>4. CASE UNCHANGED credited
  BY <1>4
<1>5. QED
  BY <1>1, <1>2, <1>3, <1>4, MatchCredits, ChaseCredits
     DEF Next, Publish, AdvanceHead, TakeRecord, vars, own, PublishStep, Preflight, ReadHead, SignVote, Broadcast,
         Published, PublishThrows, BackgroundStep, GateVerified, GateRefused, NameStage

LEMMA CreditKept ==
  ASSUME TypeOK, RootsHaveEvidence, CreditHasEvidence, [Next]_vars
  PROVE  CreditHasEvidence'
<1>1. /\ stoodFor \subseteq stoodFor'
      /\ \A p \in Peer : advertised[p] \subseteq advertised'[p]
  BY HistoryGrows
<1>2. ASSUME NEW b \in Bundle, NEW p \in credited[b]
      PROVE  ShownBy(p, b)'
  <2>1. p \in Peer
    BY DEF TypeOK
  <2>2. ShownBy(p, b)
    BY DEF CreditHasEvidence
  <2>3. QED
    BY <1>1, <2>1, <2>2 DEF ShownBy
<1>3. CASE \A b \in Bundle : credited'[b] \in {{}, credited[b]}
  BY <1>2, <1>3 DEF CreditHasEvidence
<1>4. ASSUME NEW ps \in SUBSET Peer, NEW mine \in SUBSET Bundle, Crediting(ps, mine)
      PROVE  CreditHasEvidence'
  <2>1. \A b \in Bundle : \A p \in credited'[b] : p \in credited[b] \/ (p \in ps /\ b \in mine)
    BY <1>4, Credits DEF Crediting
  <2>2. QED
    BY <1>2, <1>4, <2>1 DEF CreditHasEvidence, Crediting
<1>5. QED
  BY <1>3, <1>4, CreditMoves
----------------------------------------------------------------------------
(* The ballot of a host that awaits each publish().                        *)
LEMMA TheOneUnderWay ==
  ASSUME TypeOK, OneUnderWay, HostAwaits, NEW a \in Attempt, PublishStep(a)
  PROVE  a = attempt /\ attempt' = attempt /\ attempt # NoAttempt
<1>1. call[a] \notin {"none", "ended"}
  BY DEF PublishStep, Preflight, ReadHead, SignVote, Broadcast, Published, PublishThrows
<1>2. attempt' = attempt
  BY DEF PublishStep, Preflight, ReadHead, SignVote, Broadcast, Published, PublishThrows, Fails, ballot
<1>3. QED
  BY <1>1, <1>2 DEF OneUnderWay, Attempt, NoAttempt

(* Its bundle changes with a new attempt, or when it is signed or fails.   *)
LEMMA CurrentMoves ==
  ASSUME TypeOK, OneUnderWay, AskedInSigning, HostAwaits, [Next]_vars
  PROVE  Current' \in {Current, {}} \/ state' \in {"signing", "failed"}
<1>1. CASE Publish
  <2>1. attempt' \in Attempt
    BY <1>1, PublicationAssumption DEF TypeOK, Publish, Attempt, NoAttempt
  <2>2. call'[attempt'] = "preflight"
    BY <1>1, <2>1 DEF TypeOK, Publish
  <2>3. QED
    BY <2>2 DEF Current
<1>2. ASSUME NEW a \in Attempt, PublishStep(a)
      PROVE  Current' = Current \/ state' \in {"signing", "failed"} \/ Current' = {}
  <2>1. a = attempt /\ attempt' = attempt
    BY <1>2, TheOneUnderWay
  <2>2. CASE Preflight(a)
    <3>1. CASE Fails(a)
      BY <2>1, <3>1 DEF Fails
    <3>2. CASE \E stage \in {"settled", "unsettled"} : call' = [call EXCEPT ![a] = stage]
      <4>1. call'[a] \notin {"signed", "broadcast", "ended"}
        BY <3>2 DEF TypeOK
      <4>2. QED
        BY <2>1, <4>1 DEF Current
    <3>3. QED
      BY <2>2, <3>1, <3>2 DEF Preflight
  <2>3. ASSUME NEW b \in Bundle, SignVote(a, b)
        PROVE  state' = "signing"
    <3>1. state = "signing"
      BY <2>3 DEF SignVote, AskedInSigning
    <3>2. QED
      BY <2>3, <3>1 DEF SignVote, ballot
  <2>4. CASE Broadcast(a) \/ Published(a)
    <3>1. /\ call[a] \in {"signed", "broadcast"} /\ signed' = signed
          /\ call'[a] \in {"broadcast", "ended"}
      BY <2>4 DEF TypeOK, Broadcast, Published
    <3>2. QED
      BY <2>1, <3>1 DEF Current
  <2>5. CASE PublishThrows(a)
    BY <2>1, <2>5 DEF PublishThrows, Fails
  <2>6. CASE ReadHead(a)
    BY <2>6 DEF ReadHead
  <2>7. QED
    BY <1>2, <2>2, <2>3, <2>4, <2>5, <2>6 DEF PublishStep
<1>3. CASE UNCHANGED <<attempt, calls>>
  BY <1>3 DEF Current, calls
<1>4. ASSUME NEW b \in Bundle, BackgroundStep(b) PROVE UNCHANGED <<attempt, calls>>
  BY <1>4, Evicts DEF BackgroundStep, GateVerified, GateRefused, NameStage, TellVerified
<1>5. ASSUME NEW p \in Peer, NEW r \in Root, HearRoot(p, r) PROVE UNCHANGED <<attempt, calls>>
  BY <1>5 DEF HearRoot, CreditPeers
<1>6. ASSUME NEW r, NEW mine, indexRootContents(r, mine) PROVE UNCHANGED attempt
  BY <1>6 DEF indexRootContents, CreditPeers, ballot
<1>7. QED
  BY <1>1, <1>2, <1>3, <1>4, <1>5, <1>6
     DEF Next, Prune, AdvanceHead, TakeRecord, RootMatches, ChaseDecodes, vars, ballot

(* Where the ballot moves, and on what evidence.                           *)
Moves ==
  \/ state' \in {state, "failed"}
  \/ state' = "signing" /\ Current = {}
  \/ state = "signing" /\ state' = "publishing"
  \/ state = "publishing" /\ state' = "published"
  \/ /\ state \notin {"failed", "verified-by-peer"}
     /\ \/ state' = "verified-locally" /\ Current # {} /\ Current \subseteq gatePassed'
        \/ /\ state' = "verified-by-peer" /\ Current # {}
           /\ \A b \in Current : \E p \in Peer : ShownBy(p, b)'

LEMMA SignedBundle ==
  ASSUME CallbacksAreOfSigned, NEW b \in Bundle, attempt # NoAttempt,
         verdictCb[b] = attempt \/ checkpointCb[b] = attempt
  PROVE  Current = {b}
BY DEF CallbacksAreOfSigned, IsBundleOf, Current

LEMMA CreditingMoves ==
  ASSUME IInv, [Next]_vars, NEW ps \in SUBSET Peer, NEW mine \in SUBSET Bundle, Crediting(ps, mine)
  PROVE  Moves
<1>1. CASE state' = state
  BY <1>1 DEF Moves
<1>2. CASE state' # state
  <2>1. /\ state' = "verified-by-peer" /\ state \notin {"failed", "verified-by-peer"}
        /\ \E b \in mine : ps # {} /\ attempt # NoAttempt /\ checkpointCb[b] = attempt
    BY <1>2, Credits DEF IInv, Crediting
  <2>2. PICK b \in mine : ps # {} /\ attempt # NoAttempt /\ checkpointCb[b] = attempt
    BY <2>1
  <2>3. PICK p \in ps : TRUE
    BY <2>2
  <2>4. p \in Peer /\ ShownBy(p, b)'
    BY <2>3 DEF Crediting
  <2>5. Current = {b}
    BY <2>2, SignedBundle DEF IInv
  <2>6. QED
    BY <2>1, <2>4, <2>5 DEF Moves
<1>3. QED
  BY <1>1, <1>2

LEMMA StateMoves ==
  ASSUME IInv, HostAwaits, [Next]_vars
  PROVE  Moves
<1>1. ASSUME NEW a \in Attempt, PublishStep(a) PROVE Moves
  <2>1. a = attempt
    BY <1>1, TheOneUnderWay DEF IInv
  <2>2. CASE ReadHead(a)
    <3>1. call[attempt] \in {"unsettled", "settled"} /\ state' = "signing"
      BY <2>1, <2>2 DEF ReadHead
    <3>2. QED
      BY <3>1 DEF Current, Moves
  <2>3. QED
    BY <1>1, <2>2
       DEF PublishStep, Preflight, SignVote, Broadcast, Published, PublishThrows, Fails, ballot, Moves
<1>2. ASSUME NEW b \in Bundle, NEW v \in BOOLEAN, TellVerified(b, v), v => b \in gatePassed'
      PROVE  Moves
  <2>1. state' # state => /\ v /\ state' = "verified-locally"
                          /\ verdictCb[b] = attempt /\ attempt # NoAttempt
                          /\ state \notin {"failed", "verified-by-peer"}
    BY <1>2, Tells DEF IInv
  <2>2. state' # state => Current = {b}
    BY <2>1, SignedBundle DEF IInv
  <2>3. QED
    BY <1>2, <2>1, <2>2 DEF Moves
<1>3. ASSUME NEW b \in Bundle, GateVerified(b) PROVE Moves
  <2> DEFINE v == b \in admitted /\ (named => b \in nameOk)
  <2>1. v \in BOOLEAN /\ TellVerified(b, v) /\ b \in gatePassed'
    BY <1>3 DEF GateVerified
  <2> HIDE DEF v
  <2>2. QED
    BY <1>2, <2>1
<1>4. ASSUME NEW b \in Bundle, Evict(b) PROVE Moves
  BY <1>4, Evicts DEF IInv, Moves
<1>5. ASSUME NEW b \in Bundle, NameStage(b) PROVE Moves
  <2> DEFINE v == b \in gateOk
  <2>1. v \in BOOLEAN /\ v => b \in gatePassed'
    BY HistoryGrows DEF IInv, RootsHaveEvidence
  <2>2. Evict(b) \/ TellVerified(b, v)
    BY <1>5 DEF NameStage
  <2> HIDE DEF v
  <2>3. v \in BOOLEAN
    BY DEF v
  <2>4. QED
    BY <1>2, <1>4, <2>1, <2>2, <2>3
<1>6. ASSUME NEW p \in Peer, NEW r \in Root, HearRoot(p, r) PROVE Moves
  <2>1. {p} \in SUBSET Peer /\ Decoded(r) \in SUBSET Bundle
    BY DecodedTyped DEF IInv
  <2>2. QED
    BY <1>6, <2>1, HearCredits, CreditingMoves DEF IInv
<1>7. ASSUME NEW r \in Root, RootMatches(r) PROVE Moves
  <2>1. UNCHANGED ballot \/ \E ps \in SUBSET Peer, mine \in SUBSET Bundle : Crediting(ps, mine)
    BY <1>7, MatchCredits DEF IInv
  <2>2. QED
    BY <2>1, CreditingMoves DEF ballot, Moves
<1>8. ASSUME NEW r \in Root, ChaseDecodes(r) PROVE Moves
  <2>1. UNCHANGED ballot \/ \E ps \in SUBSET Peer, mine \in SUBSET Bundle : Crediting(ps, mine)
    BY <1>8, ChaseCredits DEF IInv
  <2>2. QED
    BY <2>1, CreditingMoves DEF ballot, Moves
<1>9. CASE Publish \/ Prune \/ AdvanceHead \/ TakeRecord \/ UNCHANGED vars
  BY <1>9 DEF Publish, Prune, AdvanceHead, TakeRecord, vars, ballot, Moves
<1>10. QED
  BY <1>1, <1>3, <1>4, <1>5, <1>6, <1>7, <1>8, <1>9 DEF Next, BackgroundStep, GateRefused

(* While the signer is awaited no callback can move the ballot, since none *)
(* is kept for the attempt before its bundle is signed.                    *)
LEMMA AskedKept ==
  ASSUME IInv, [Next]_vars
  PROVE  AskedInSigning'
<1>1. CASE Publish
  <2>1. attempt' \in Attempt /\ attempt' > attempt
    BY <1>1, PublicationAssumption DEF IInv, TypeOK, Publish, Attempt, NoAttempt
  <2>2. call[attempt'] = "none"
    BY <2>1 DEF IInv, OneUnderWay
  <2>3. /\ \A a \in Attempt : call'[a] = IF a = attempt' THEN "preflight" ELSE call[a]
        /\ signed' = signed /\ state' = state
    BY <1>1, <2>1 DEF IInv, TypeOK, Publish
  <2>4. QED
    BY <2>2, <2>3 DEF IInv, AskedInSigning
<1>2. ASSUME NEW a \in Attempt, PublishStep(a) PROVE AskedInSigning'
  <2>1. call[a] \notin {"none", "ended"}
    BY <1>2 DEF PublishStep, Preflight, ReadHead, SignVote, Broadcast, Published, PublishThrows
  <2>2. ASSUME NEW c \in Attempt, c # a PROVE call'[c] = call[c] /\ signed'[c] = signed[c]
    BY <1>2, <2>2
       DEF IInv, TypeOK, PublishStep, Preflight, ReadHead, SignVote, Broadcast, Published,
           PublishThrows, Fails
  <2>3. /\ call'[a] # "none" /\ call'[a] # "preflight"
        /\ call'[a] \in {"unsettled", "settled"} => signed'[a] = {} \/ state' = "signing"
    BY <1>2
       DEF IInv, TypeOK, AskedInSigning, PublishStep, Preflight, ReadHead, SignVote, Broadcast,
           Published, PublishThrows, Fails
  <2>4. HostAwaits => \A c \in Attempt : c # a => call[c] \in {"none", "ended"}
    BY <2>1 DEF IInv, OneUnderWay
  <2>5. QED
    BY <2>2, <2>3, <2>4 DEF IInv, AskedInSigning
<1>3. ASSUME UNCHANGED <<call, signed>>, state' # state => Current # {}
      PROVE  AskedInSigning'
  <2>1. CASE state' = state
    BY <1>3, <2>1 DEF IInv, AskedInSigning
  <2>2. CASE Current # {} /\ HostAwaits
    <3>1. attempt # NoAttempt /\ call[attempt] \in {"signed", "broadcast", "ended"}
      BY <2>2 DEF Current
    <3>2. \A c \in Attempt : call[c] \notin {"unsettled", "settled"}
      BY <2>2, <3>1 DEF IInv, OneUnderWay
    <3>3. QED
      BY <1>3, <3>2 DEF IInv, AskedInSigning
  <2>3. CASE ~HostAwaits
    BY <1>3, <2>3 DEF IInv, AskedInSigning
  <2>4. QED
    BY <1>3, <2>1, <2>2, <2>3
<1>4. ASSUME NEW b \in Bundle, NEW v \in BOOLEAN, TellVerified(b, v)
      PROVE  state' # state => Current # {}
  <2>1. state' # state => verdictCb[b] = attempt /\ attempt # NoAttempt
    BY <1>4, Tells DEF IInv
  <2>2. QED
    BY <2>1, SignedBundle DEF IInv
<1>5. ASSUME NEW b \in Bundle, Evict(b)
      PROVE  state' # state => Current # {}
  <2>1. state' # state => verdictCb[b] = attempt /\ attempt # NoAttempt
    BY <1>5, Evicts DEF IInv
  <2>2. QED
    BY <2>1, SignedBundle DEF IInv
<1>6. ASSUME NEW b \in Bundle, BackgroundStep(b) PROVE AskedInSigning'
  <2> DEFINE v == b \in admitted /\ (named => b \in nameOk)
             w == b \in gateOk
  <2>1. UNCHANGED <<call, signed>> /\ v \in BOOLEAN /\ w \in BOOLEAN
    BY <1>6 DEF BackgroundStep, GateVerified, GateRefused, NameStage, calls
  <2>2. TellVerified(b, v) \/ TellVerified(b, w) \/ Evict(b)
    BY <1>6 DEF BackgroundStep, GateVerified, GateRefused, NameStage
  <2> HIDE DEF v, w
  <2>3. QED
    BY <1>3, <1>4, <1>5, <2>1, <2>2
<1>7. ASSUME NEW ps \in SUBSET Peer, NEW mine \in SUBSET Bundle, CreditPeers(ps, mine)
      PROVE  state' # state => Current # {}
  <2>1. state' # state => \E b \in mine : attempt # NoAttempt /\ checkpointCb[b] = attempt
    BY <1>7, Credits DEF IInv
  <2>2. QED
    BY <2>1, SignedBundle DEF IInv
<1>8. ASSUME NEW p \in Peer, NEW r \in Root, HearRoot(p, r) PROVE AskedInSigning'
  <2>1. {p} \in SUBSET Peer /\ Decoded(r) \in SUBSET Bundle
    BY DecodedTyped DEF IInv
  <2>2. UNCHANGED <<call, signed>> /\ CreditPeers({p}, Decoded(r))
    BY <1>8 DEF HearRoot, calls
  <2>3. QED
    BY <1>3, <1>7, <2>1, <2>2
<1>9. ASSUME NEW r \in Root, NEW mine \in SUBSET Bundle, indexRootContents(r, mine), UNCHANGED calls
      PROVE  AskedInSigning'
  <2>1. HoldersOf(r) \in SUBSET Peer
    BY DEF HoldersOf
  <2>2. UNCHANGED ballot \/ CreditPeers(HoldersOf(r), mine)
    BY <1>9, Indexes DEF IInv
  <2>3. state' # state => Current # {}
    BY <1>7, <2>1, <2>2 DEF ballot
  <2>4. QED
    BY <1>3, <1>9, <2>3 DEF calls
<1>10. ASSUME NEW r \in Root, RootMatches(r) \/ ChaseDecodes(r) PROVE AskedInSigning'
  BY <1>9, <1>10, MineTyped DEF IInv, RootMatches, ChaseDecodes
<1>11. CASE Prune \/ AdvanceHead \/ TakeRecord \/ UNCHANGED vars
  BY <1>3, <1>11 DEF Prune, AdvanceHead, TakeRecord, vars, calls, ballot
<1>12. QED
  BY <1>1, <1>2, <1>6, <1>8, <1>10, <1>11 DEF Next

LEMMA VerdictsKept ==
  ASSUME IInv, [Next]_vars
  PROVE  VerdictsAreOfAttempt'
<1> SUFFICES ASSUME HostAwaits, NEW b \in Current'
             PROVE  /\ state' = "verified-locally" => b \in gatePassed'
                    /\ state' = "verified-by-peer" => \E p \in Peer : ShownBy(p, b)'
  BY DEF VerdictsAreOfAttempt
<1>1. b \in Current \/ state' \in {"signing", "failed"}
  BY CurrentMoves DEF IInv
<1>2. Moves
  BY StateMoves
<1>3. CASE state' = state /\ b \in Current
  <2>1. /\ state = "verified-locally" => b \in gatePassed
        /\ state = "verified-by-peer" => \E p \in Peer : ShownBy(p, b)
    BY <1>3 DEF IInv, VerdictsAreOfAttempt
  <2>2. /\ gatePassed \subseteq gatePassed' /\ stoodFor \subseteq stoodFor'
        /\ \A p \in Peer : advertised[p] \subseteq advertised'[p]
    BY HistoryGrows DEF IInv
  <2>3. \A p \in Peer : ShownBy(p, b) => ShownBy(p, b)'
    BY <2>2 DEF ShownBy
  <2>4. QED
    BY <1>3, <2>1, <2>2, <2>3
<1>4. CASE state' # state /\ b \in Current
  BY <1>2, <1>4 DEF Moves
<1>5. CASE state' \in {"signing", "failed"}
  BY <1>5
<1>6. QED
  BY <1>1, <1>3, <1>4, <1>5

----------------------------------------------------------------------------
LEMMA Initially == Init => IInv
<1> SUFFICES ASSUME Init PROVE IInv
  OBVIOUS
<1>1. head \in 1..MaxBucket /\ {} \in Root
  BY PublicationAssumption DEF Init, Root
<1>2. /\ peerRoots \in Seq(Peer \X Root) /\ Len(peerRoots) <= PeerRootsMax
      /\ decodedRoots \in Seq(Root \X SUBSET Bundle) /\ Len(decodedRoots) <= DecodedRootsMax
      /\ OneEach(peerRoots) /\ OneEach(decodedRoots)
  BY PublicationAssumption DEF Init, OneEach
<1>3. TypeOK
  BY <1>1, <1>2 DEF Init, TypeOK
<1>4. CallbacksAreOfSigned /\ OneUnderWay /\ AskedInSigning /\ RootsHaveEvidence
  BY DEF Init, CallbacksAreOfSigned, OneUnderWay, AskedInSigning, RootsHaveEvidence
<1>5. CreditHasEvidence /\ VerdictsAreOfAttempt
  BY DEF Init, CreditHasEvidence, VerdictsAreOfAttempt
<1>6. QED
  BY <1>3, <1>4, <1>5 DEF IInv

LEMMA Inductive == IInv /\ [Next]_vars => IInv'
<1> SUFFICES ASSUME IInv, [Next]_vars PROVE IInv'
  OBVIOUS
<1>1. TypeOK' /\ CallbacksAreOfSigned' /\ OneUnderWay' /\ AskedInSigning'
  BY TypesKept, CallbacksKept, OneUnderWayKept, AskedKept DEF IInv
<1>2. RootsHaveEvidence' /\ CreditHasEvidence'
  BY RootsKept, CreditKept DEF IInv
<1>3. VerdictsAreOfAttempt'
  BY VerdictsKept
<1>4. QED
  BY <1>1, <1>2, <1>3 DEF IInv

LEMMA Invariants == Spec => []IInv
BY Initially, Inductive, PTL DEF Spec

(* Types, and the evidence for credits: whoever is credited with an own    *)
(* bundle advertised a root that held it, or one that stood for it, being  *)
(* equal to our own record (#creditPeer, #indexRootContents).              *)
THEOREM CreditsAreEarned == Spec => []PublicationInv
<1>1. IInv => PublicationInv
  BY DEF IInv, PublicationInv
<1>2. QED
  BY <1>1, Invariants, PTL

(* A host that awaits each publish() is never shown a verdict on another   *)
(* attempt's bundle (ContestVotePublication.#isCurrent, #settle).          *)
THEOREM VerdictsAreCurrent == Spec => []VerdictsAreOfAttempt
<1>1. IInv => VerdictsAreOfAttempt
  BY DEF IInv
<1>2. QED
  BY <1>1, Invariants, PTL

LEMMA Ranks ==
  /\ Rank["stopped"] = 0 /\ Rank["signing"] = 1 /\ Rank["publishing"] = 2 /\ Rank["published"] = 3
  /\ Rank["verified-locally"] = 4 /\ Rank["verified-by-peer"] = 5 /\ Rank["failed"] = 6
BY DEF Rank

(* Once signed, an attempt's ballot never walks back (#settle, publish).   *)
THEOREM OnlyAdvances == Spec => AttemptOnlyAdvances
<1>1. ASSUME IInv, [Next]_vars, HostAwaits, Current # {}
      PROVE  Rank[state'] >= Rank[state]
  <2>1. Moves
    BY <1>1, StateMoves
  <2>2. state \in States
    BY <1>1 DEF IInv, TypeOK, States
  <2>3. QED
    BY <1>1, <2>1, <2>2, Ranks DEF Moves, States
<1>2. IInv /\ [Next]_vars =>
        [HostAwaits /\ attempt' = attempt /\ Current # {} => Rank[state'] >= Rank[state]]_vars
  BY <1>1
<1>3. QED
  BY <1>2, Invariants, PTL DEF Spec, AttemptOnlyAdvances
=============================================================================
