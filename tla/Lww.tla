-------------------------------- MODULE Lww --------------------------------
(***************************************************************************)
(* The last-write-wins reduction of src/crdt/crdt.ts, as operators on sets *)
(* of bundles.  A bundle is an opaque value: the address that signed it,   *)
(* its blockNumber and the byte order of its CID (cidRank) are functions   *)
(* on bundles, given as constants.  Everything else a bundle carries is    *)
(* left out: the reduction reads nothing else.                             *)
(***************************************************************************)
EXTENDS Integers, FiniteSets

CONSTANTS
  Bundle,             \* the vote bundles that can reach this contest
  Wallet,             \* lower-cased addresses
  address,            \* [Bundle -> Wallet]
  blockNumber,        \* [Bundle -> Nat], the ballot's block
  cidRank,            \* [Bundle -> Nat], position of the CID in byte order
  blocksPerBucket,    \* criteria.blocksPerBucket
  voteExpiryBuckets,  \* criteria.voteExpiryBuckets
  MaxBucket           \* bound: the last bucket the chain reaches

(***************************************************************************)
(* Two bundles with one CID are the same block, so the rank is injective.  *)
(***************************************************************************)
ASSUME BundleAssumption ==
  /\ IsFiniteSet(Bundle)
  /\ address \in [Bundle -> Wallet]
  /\ blockNumber \in [Bundle -> Nat]
  /\ cidRank \in [Bundle -> Nat]
  /\ \A a, b \in Bundle : cidRank[a] = cidRank[b] => a = b

ASSUME CriteriaAssumption ==
  /\ blocksPerBucket \in Nat \ {0}
  /\ voteExpiryBuckets \in Nat
  /\ MaxBucket \in Nat

----------------------------------------------------------------------------
(* Bucket math (src/chain/bucket.ts).                                      *)

bucketForBlock(block) == block \div blocksPerBucket

sampleBlockForBucket(bucket) == bucket * blocksPerBucket

isExpired(b, currentBucket) ==
  currentBucket > bucketForBlock(blockNumber[b]) + voteExpiryBuckets

----------------------------------------------------------------------------
(* Highest blockNumber wins, the tie goes to the lowest CID.               *)

Beats(a, b) ==
  \/ blockNumber[a] > blockNumber[b]
  \/ blockNumber[a] = blockNumber[b] /\ cidRank[a] < cidRank[b]

lwwResolve(a, b) == IF Beats(b, a) THEN b ELSE a

SameWallet(a, b) == address[a] = address[b]

(* The winner of every wallet that has a bundle in S.                      *)
winnersByWallet(S) ==
  {b \in S : \A c \in S : SameWallet(c, b) => ~ Beats(c, b)}

(* The winners that have not decayed: what the tally and the checkpoint    *)
(* read.  Callers restrict S to the eligible bundles first.                *)
currentEntries(S, currentBucket) ==
  {b \in winnersByWallet(S) : ~ isExpired(b, currentBucket)}

(* A superseded bundle outlives a prune while its superseder's deferred    *)
(* checks are pending.                                                     *)
ShieldedByProvisionalWinner(b, S, currentBucket, provisional) ==
  /\ b \notin winnersByWallet(S)
  /\ ~ isExpired(b, currentBucket)
  /\ \E w \in winnersByWallet(S) : SameWallet(w, b) /\ w \in provisional

(* What a prune removes.                                                   *)
Prunable(S, currentBucket, provisional) ==
  {b \in S : /\ b \notin winnersByWallet(S) \/ isExpired(b, currentBucket)
             /\ ~ ShieldedByProvisionalWinner(b, S, currentBucket, provisional)}

(* Of the bundles that are gone, those that lost to b.                     *)
Beneath(b, gone) == {c \in gone : SameWallet(b, c) /\ Beats(b, c)}
=============================================================================
