---------------------------- MODULE VoteCrdtMap ----------------------------
(***************************************************************************)
(* The working set as src/crdt/crdt.ts keeps it: a Map in insertion order, *)
(* reduced by folding lwwResolve over the entries.  Two nodes receive the  *)
(* same bundles in different orders; that the fold agrees with the set     *)
(* reduction of Lww, and that the Map implements VoteCrdt, says that the   *)
(* order is never visible.                                                 *)
(***************************************************************************)
EXTENDS CheckpointCodec

CONSTANTS
  Community,
  choice     \* [Bundle -> SUBSET Community], what it votes for; empty: a withdrawal

ASSUME ChoiceAssumption == choice \in [Bundle -> SUBSET Community]

VARIABLES
  entries,      \* the Map: bundles in insertion order
  provisional, live, bucket   \* as in VoteCrdt

mapVars == <<entries, provisional, live, bucket>>

held == ToSet(entries)

\* the entries that are in a set, in order
keepOnly(order, keep) ==
  FoldLeft(LAMBDA kept, b : IF b \in keep THEN Append(kept, b) ELSE kept, <<>>, order)

Init ==
  /\ entries = <<>>
  /\ provisional = {}
  /\ live = {}
  /\ bucket = 0

----------------------------------------------------------------------------
(* winnersByWallet: a Map from wallets to entries, filled by one pass.     *)
TakeEntry(winners, b) ==
  [a \in DOMAIN winners \cup {address[b]} |->
     IF a # address[b] THEN winners[a]
     ELSE IF a \in DOMAIN winners THEN lwwResolve(winners[a], b) ELSE b]

foldWinners(order) == FoldLeft(TakeEntry, <<>>, order)

foldCurrentEntries(order, currentBucket) ==
  {b \in Range(foldWinners(order)) : ~ isExpired(b, currentBucket)}

(* Mutant: prune drops everything superseded, whoever superseded it.       *)
KeptByPrune_NoShield(b, winners) == b = winners[address[b]] /\ ~ isExpired(b, bucket)

(* Mutant: the shield forgets that the superseded bundle may be expired.   *)
KeptByPrune_ShieldsExpired(b, winners) ==
  LET winner == winners[address[b]]
  IN  (b = winner /\ ~ isExpired(b, bucket)) \/ (b # winner /\ winner \in provisional)

(* The test prune applies to one entry, with the winners computed upfront. *)
KeptByPrune(b, winners) ==
  LET winner  == winners[address[b]]
      expired == isExpired(b, bucket)
      shieldedByProvisionalWinner == b # winner /\ ~ expired /\ winner \in provisional
  IN  (b = winner /\ ~ expired) \/ shieldedByProvisionalWinner

----------------------------------------------------------------------------
\* as in VoteCrdt
lostWith(b) ==
  IF b \in held \ provisional THEN Beneath(b, live \ held) ELSE {}

(* integrate and add: a key the Map has keeps its place.                   *)
Insert(b, settled) ==
  /\ entries' = IF b \in held THEN entries ELSE Append(entries, b)
  /\ provisional' = IF settled THEN provisional \ {b} ELSE provisional \cup {b}
  /\ live' = (IF settled THEN live ELSE live \ lostWith(b)) \cup {b}
  /\ UNCHANGED bucket

Settle(b) ==
  /\ b \in provisional
  /\ provisional' = provisional \ {b}
  /\ UNCHANGED <<entries, live, bucket>>

Delete(b) ==
  /\ b \in held
  /\ entries' = keepOnly(entries, held \ {b})
  /\ provisional' = provisional \ {b}
  /\ live' = live \ ({b} \cup lostWith(b))
  /\ UNCHANGED bucket

PruneMap ==
  LET winners == foldWinners(entries)
      kept == {b \in held : KeptByPrune(b, winners)}
  IN  /\ entries' = keepOnly(entries, kept)
      /\ provisional' = provisional \cap kept
      /\ UNCHANGED <<live, bucket>>

AdvanceBucket ==
  /\ bucket < MaxBucket
  /\ bucket' = bucket + 1
  /\ UNCHANGED <<entries, provisional, live>>

Next ==
  \/ \E b \in Bundle, settled \in BOOLEAN : Insert(b, settled)
  \/ \E b \in Bundle : Settle(b) \/ Delete(b)
  \/ PruneMap
  \/ AdvanceBucket

Spec == Init /\ [][Next]_mapVars

----------------------------------------------------------------------------
(* The tally (src/tally/tally.ts) of the winners, one vote each.           *)

\* the winners in the order of their wallets' first entries
currentInOrder(order, k) ==
  LET winners == foldWinners(order)
      first(b) == \A i \in DOMAIN order :
                    order[i] = b => \A j \in 1..(i - 1) : ~ SameWallet(order[j], b)
      firsts == keepOnly(order, {b \in ToSet(order) : first(b)})
      shown == [i \in DOMAIN firsts |-> winners[address[firsts[i]]]]
  IN keepOnly(shown, {b \in ToSet(shown) : ~ isExpired(b, k)})

EmptyRow == [weight |-> 0, chainVerified |-> TRUE]

Row(rows, c) == IF c \in DOMAIN rows THEN rows[c] ELSE EmptyRow

\* mutant of TakeVotes
TakeVotes_LastFlag(rows, b) ==
  [c \in DOMAIN rows \cup choice[b] |->
     IF c \in choice[b]
     THEN [weight |-> Row(rows, c).weight + 1, chainVerified |-> b \notin provisional]
     ELSE rows[c]]

TakeVotes(rows, b) ==
  [c \in DOMAIN rows \cup choice[b] |->
     IF c \in choice[b]
     THEN [weight |-> Row(rows, c).weight + 1,
           chainVerified |-> Row(rows, c).chainVerified /\ b \notin provisional]
     ELSE rows[c]]

tallied(order, k) == FoldLeft(TakeVotes, <<>>, currentInOrder(order, k))

\* what the tally of a set of votes is, whatever their order
rowsOf(votes, pending) ==
  LET counted(c) == {b \in votes : c \in choice[b]}
  IN  [c \in UNION {choice[b] : b \in votes} |->
         [weight |-> Cardinality(counted(c)), chainVerified |-> counted(c) \cap pending = {}]]

----------------------------------------------------------------------------
(* rootRecord: the checkpoint of the bundles that are verified.            *)
record ==
  encodeCheckpoint(currentInOrder(keepOnly(entries, held \ provisional), bucket))

----------------------------------------------------------------------------
(***************************************************************************)
(* A wallet's latest vote counts once for every community it names, and a  *)
(* row is verified only when every vote in it is, in whatever order the    *)
(* Map holds them (compute).                                               *)
(***************************************************************************)
RowsAreOrderFree ==
  tallied(entries, bucket) = rowsOf(currentEntries(held, bucket), provisional)

(***************************************************************************)
(* Nodes that serve the same votes serve the same blocks (DESIGN.md,       *)
(* "Checkpoints"): the chunks hold the verified votes in the order of     *)
(* their wallets, each within the cap or a single bundle, and none could   *)
(* have taken the next one's first bundle (encodeCheckpoint).  Together    *)
(* these leave one record for a set of votes.                              *)
(***************************************************************************)
RecordIsCanonical ==
  LET lists == [i \in DOMAIN record.chunks |-> record.chunks[i].list]
      bytes(list) == FoldLeft(LAMBDA n, b : n + size[b], 0, list)
      flat  == FlattenSeq(lists)
  IN /\ ToSet(flat) = currentEntries(held \ provisional, bucket)
     /\ \A i, j \in DOMAIN flat :
          i < j => addressRank[address[flat[i]]] < addressRank[address[flat[j]]]
     /\ \A i \in DOMAIN lists : lists[i] # <<>> /\ (bytes(lists[i]) <= maxChunkBytes \/ Len(lists[i]) = 1)
     /\ \A i \in 1..(Len(lists) - 1) : bytes(lists[i]) + size[Head(lists[i + 1])] > maxChunkBytes

(***************************************************************************)
(* Whatever chunk index a peer sends along with a root and whatever blocks *)
(* it withholds, the decode gives all the votes of the record or none      *)
(* (decodeCheckpoint), and all of them when the blocks are there.          *)
(***************************************************************************)
DecodeIsWholeOrNothing ==
  LET ours   == record
      whole  == [kind |-> "decoded", bundles |-> FlattenSeq(
                  [i \in DOMAIN ours.chunks |-> ours.chunks[i].list])]
      others == encodeCheckpoint(currentInOrder(entries, bucket))
      claims == {ours.chunks, Reverse(ours.chunks), others.chunks, <<>>}
  IN \A claim \in claims :
       /\ decodeCheckpoint(ours.root, ours.blocks, claim) = whole
       /\ \A had \in SUBSET ours.blocks :
            decodeCheckpoint(ours.root, had \cup others.blocks, claim) \in {whole, Unavailable}

(* The Map behaves like the set of VoteCrdt: same prunes, same evictions.  *)
Crdt == INSTANCE VoteCrdt WITH bundles <- held

ImplementsVoteCrdt == Crdt!Spec

(***************************************************************************)
(* What the Map shows in the tally and the checkpoint, now and at every    *)
(* later bucket, is what a Map that was never pruned would show, but for   *)
(* what is lost with a settled bundle that does not stay settled.          *)
(***************************************************************************)
PruningIsInvisible == Crdt!TallyIgnoresPruning /\ Crdt!CheckpointIgnoresPruning
=============================================================================
