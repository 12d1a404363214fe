----------------------------- MODULE Coalescer ------------------------------
(***************************************************************************)
(* The shared read pool of src/chain/coalescer.ts, one per chain client.   *)
(* Pinned reads are grouped per block, deduplicated while they are in      *)
(* flight, flushed in chunks of ReadsPerCall reads when a group is full or *)
(* its window ends, and sent as multicalls of which at most Concurrency    *)
(* are out at once.  A chunk that fails is sent once more.                 *)
(*                                                                         *)
(* A read is a question at a block.  What it answers, and who waits for    *)
(* it, belongs to the module that uses the pool.                           *)
(***************************************************************************)
EXTENDS Integers, Sequences, SequencesExt, FiniteSets

CONSTANTS
  Block,
  Question,      \* contract and calldata
  ReadsPerCall,
  Concurrency

ASSUME CoalescerAssumption ==
  /\ Block \subseteq Nat
  /\ ReadsPerCall \in Nat \ {0} /\ Concurrency \in Nat \ {0}

VARIABLES
  groups,  \* [Block -> reads waiting for company]; a timer runs while one is not empty
  queue,   \* chunks waiting for a slot, in order
  calls,   \* chunks that hold a slot: sent, or paused before the second attempt
  active   \* the slots taken

pool == <<groups, queue, calls, active>>

Chunk == [block : Block, reads : SUBSET Question]
Call  == [chunk : Chunk, attempt : {1, 2}]

----------------------------------------------------------------------------
Grouped == {key \in Block \X Question : key[2] \in groups[key[1]]}

Of(chunk) == {<<chunk.block, q>> : q \in chunk.reads}

\* the keys a new read is deduplicated against
inFlight ==
  Grouped \cup (UNION {Of(chunk) : chunk \in ToSet(queue)})
          \cup (UNION {Of(call.chunk) : call \in calls})

PoolInit ==
  /\ groups = [b \in Block |-> {}]
  /\ queue = <<>> /\ calls = {} /\ active = 0

\* runChunk up to its acquire
runChunk(chunk) ==
  IF active < Concurrency
  THEN /\ active' = active + 1
       /\ calls' = calls \cup {[chunk |-> chunk, attempt |-> 1]}
       /\ UNCHANGED queue
  ELSE queue' = Append(queue, chunk) /\ UNCHANGED <<calls, active>>

\* mutant of enqueueRead
enqueueReadAgain(b, asked) ==
  LET room == ReadsPerCall - Cardinality(groups[b]) IN
  IF Cardinality(asked \ groups[b]) < room
  THEN groups' = [groups EXCEPT ![b] = @ \cup asked] /\ UNCHANGED <<queue, calls, active>>
  ELSE \E filling \in SUBSET (asked \ groups[b]) :
         /\ Cardinality(filling) = room
         /\ runChunk([block |-> b, reads |-> groups[b] \cup filling])
         /\ groups' = [groups EXCEPT ![b] = (asked \ groups[b]) \ filling]

\* at most ReadsPerCall reads are asked for at once, so one flush is enough
enqueueRead(b, asked) ==
  LET fresh == {q \in asked : <<b, q>> \notin inFlight}
      room  == ReadsPerCall - Cardinality(groups[b])
  IN IF Cardinality(fresh) < room
     THEN groups' = [groups EXCEPT ![b] = @ \cup fresh] /\ UNCHANGED <<queue, calls, active>>
     ELSE \E filling \in SUBSET fresh :
            /\ Cardinality(filling) = room
            /\ runChunk([block |-> b, reads |-> groups[b] \cup filling])
            /\ groups' = [groups EXCEPT ![b] = fresh \ filling]

flushGroup(b) ==
  /\ groups[b] # {}
  /\ runChunk([block |-> b, reads |-> groups[b]])
  /\ groups' = [groups EXCEPT ![b] = {}]

\* the slot goes to the longest waiting chunk
release(call) ==
  IF queue = <<>>
  THEN calls' = calls \ {call} /\ active' = active - 1 /\ UNCHANGED queue
  ELSE /\ calls' = (calls \ {call}) \cup {[chunk |-> Head(queue), attempt |-> 1]}
       /\ queue' = Tail(queue) /\ UNCHANGED active

\* the first attempt failed: pause, then send it again under the same slot
RetryChunk(call) ==
  /\ call \in calls /\ call.attempt = 1
  /\ calls' = (calls \ {call}) \cup {[call EXCEPT !.attempt = 2]}
  /\ UNCHANGED <<groups, queue, active>>

\* a chunk's reads settle
Settle(call) == call \in calls /\ release(call) /\ UNCHANGED groups

----------------------------------------------------------------------------
PoolTypeOK ==
  /\ groups \in [Block -> SUBSET Question]
  /\ queue \in Seq(Chunk) /\ calls \subseteq Call
  /\ active = Cardinality(calls)
  /\ \A b \in Block : Cardinality(groups[b]) < ReadsPerCall
=============================================================================
