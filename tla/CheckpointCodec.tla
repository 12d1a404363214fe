-------------------------- MODULE CheckpointCodec ---------------------------
(***************************************************************************)
(* The checkpoint codec of src/checkpoint/codec.ts.  Blocks are addressed  *)
(* by their content, so a block is its own CID and one CID names one       *)
(* block; the dag-cbor encoding of a block is left out.                    *)
(***************************************************************************)
EXTENDS Lww, SequencesExt

CONSTANTS
  addressRank,   \* [Wallet -> Int], the order of their addresses
  size,          \* [Bundle -> Nat], bytes of the encoded bundle
  maxChunkBytes

ASSUME CodecAssumption ==
  /\ addressRank \in [Wallet -> Int]
  /\ \A v, w \in Wallet : addressRank[v] = addressRank[w] => v = w
  /\ size \in [Bundle -> Nat \ {0}] /\ maxChunkBytes \in Nat

ChunkBlock(bundles) == [kind |-> "chunk", list |-> bundles]

RootBlock(chunks) == [kind |-> "root", list |-> chunks]

\* the winners in the order of their addresses; no two are of one wallet
sorted(winners) ==
  CHOOSE list \in [DOMAIN winners -> ToSet(winners)] :
    \A i, j \in DOMAIN list :
      i < j => addressRank[address[list[i]]] < addressRank[address[list[j]]]

----------------------------------------------------------------------------
(* The size-cap fill.                                                      *)
EmptyFill == [chunks |-> <<>>, current |-> <<>>, currentBytes |-> 0]

\* mutant of PackOn: the bundle that is over the cap still goes into the chunk
PackOn_Late(fill, b) ==
  IF fill.current # <<>> /\ fill.currentBytes > maxChunkBytes
  THEN [chunks |-> Append(fill.chunks, fill.current), current |-> <<b>>, currentBytes |-> size[b]]
  ELSE [fill EXCEPT !.current = Append(@, b), !.currentBytes = @ + size[b]]

PackOn(fill, b) ==
  IF fill.current # <<>> /\ fill.currentBytes + size[b] > maxChunkBytes
  THEN [chunks |-> Append(fill.chunks, fill.current), current |-> <<b>>, currentBytes |-> size[b]]
  ELSE [fill EXCEPT !.current = Append(@, b), !.currentBytes = @ + size[b]]

packed(bundles) ==
  LET fill == FoldLeft(PackOn, EmptyFill, bundles)
  IN IF fill.current = <<>> THEN fill.chunks ELSE Append(fill.chunks, fill.current)

encodeCheckpoint(winners) ==
  LET lists  == packed(sorted(winners))
      chunks == [i \in DOMAIN lists |-> ChunkBlock(lists[i])]
  IN [root |-> RootBlock(chunks), chunks |-> chunks,
      blocks |-> ToSet(chunks) \cup {RootBlock(chunks)}]

----------------------------------------------------------------------------
(* What a decode throws when a block it needs cannot be had.               *)
Unavailable == [kind |-> "unavailable"]

\* mutant of chunkIndex: the index a peer sent is taken as it is
chunkIndex_Trusted(root, knownChunks) == knownChunks

\* the chunks to pull: those a peer sent along, if they hash to the root
chunkIndex(root, knownChunks) ==
  IF RootBlock(knownChunks) = root THEN knownChunks ELSE root.list

decodeCheckpoint(root, available, knownChunks) ==
  LET chunks == chunkIndex(root, knownChunks)
  IN IF \/ ToSet(chunks) \ available # {}
        \/ RootBlock(knownChunks) # root /\ root \notin available
     THEN Unavailable
     ELSE [kind |-> "decoded",
           bundles |-> FlattenSeq([i \in DOMAIN chunks |-> chunks[i].list])]
=============================================================================
