--------------------------- MODULE SoulboundRule ----------------------------
(***************************************************************************)
(* Batches of wallets scored by the soulbound rule of                      *)
(* src/rules/erc5192-min-balance.ts: at the head first, then the refused   *)
(* at the block their bundle samples, each leg asking whether the contract *)
(* declares itself soulbound and who holds it.  The head comes from the    *)
(* shared reader (src/client/voter.ts), answers are memoized per block     *)
(* window (src/rules/cache.ts), and the misses are read through the pool.  *)
(*                                                                         *)
(* The batches run at the same time as each other and as the chain, which  *)
(* moves on.  A batch names one sample block and fits one multicall; its   *)
(* minimum is one token.                                                   *)
(***************************************************************************)
EXTENDS Coalescer

CONSTANTS
  Batch, Wallet,
  Lock,         \* the question whether the contract declares ERC-5192
  Histories,    \* who holds the token at each block, [Block -> SUBSET Wallet]
  MaxBlock,
  EpochBlocks   \* HEAD_EPOCH_BLOCKS

ASSUME RuleAssumption ==
  /\ MaxBlock \in Nat /\ Block = 0..MaxBlock
  /\ IsFiniteSet(Wallet) /\ Question = Wallet \cup {Lock} /\ Lock \notin Wallet
  /\ Histories \subseteq [Block -> SUBSET Wallet]
  /\ EpochBlocks \in Nat \ {0}
  /\ Cardinality(Wallet) <= ReadsPerCall

VARIABLES
  held, declares,  \* the chain: who holds at each block, does the contract declare
  now,             \* its head
  sampled,         \* what the head read in flight will return, NoBlock before it knows
  memo,            \* answers remembered
  batches          \* [Batch -> record]

ruleVars == <<groups, queue, calls, active, held, declares, now, sampled, memo, batches>>

NoBlock == -1
Leg   == {"head", "pin"}
Entry == [leg : Leg, question : Question, epoch : Block, value : 0..1]

Fresh == [pc |-> "idle", leg |-> "head", head |-> 0, sample |-> 0, wallets |-> {},
          admitted |-> {}, got |-> {}, missing |-> {}, waits |-> {},
          failed |-> FALSE, again |-> FALSE]

----------------------------------------------------------------------------
epochOf(block) == (block \div EpochBlocks) * EpochBlocks

\* what the chain answers at a block, as "meets the minimum"
Answer(b, q) == IF (q = Lock /\ declares) \/ q \in held[b] THEN 1 ELSE 0

ReadBlock(k) == IF k.leg = "head" THEN k.head ELSE k.sample

Epoch(k) == IF k.leg = "head" THEN epochOf(k.head) ELSE k.sample

Remembered(k, q, v) == [leg |-> k.leg, question |-> q, epoch |-> Epoch(k), value |-> v]

\* only the wallets the head leg refused reach the fallback
Open(k) == k.wallets \ k.admitted

Asked(k) == IF k.pc = "lock" THEN {Lock} ELSE Open(k)

\* mutant of Advanced
AdvancedUndeclared(k, holding) ==
  LET next == [k EXCEPT !.got = {}, !.missing = {}, !.again = FALSE]
      leg  == IF k.pc = "bal" THEN [next EXCEPT !.admitted = @ \cup holding] ELSE next
  IN IF k.pc = "lock" THEN [next EXCEPT !.pc = "bal"]
     ELSE IF k.leg = "pin" \/ Open(leg) = {} THEN [leg EXCEPT !.pc = "done"]
     ELSE [leg EXCEPT !.leg = "pin", !.pc = "lock"]

\* A leg's answers are in: from the declaration to the balances, from the
\* head leg to the fallback, or done.
Advanced(k, holding) ==
  LET next == [k EXCEPT !.got = {}, !.missing = {}, !.again = FALSE]
      leg  == IF k.pc = "bal" THEN [next EXCEPT !.admitted = @ \cup holding] ELSE next
  IN IF k.pc = "lock" /\ Lock \in holding THEN [next EXCEPT !.pc = "bal"]
     ELSE IF k.leg = "pin" \/ Open(leg) = {} THEN [leg EXCEPT !.pc = "done"]
     ELSE [leg EXCEPT !.leg = "pin", !.pc = "lock"]

----------------------------------------------------------------------------
RuleInit ==
  /\ PoolInit
  /\ held \in Histories /\ declares \in BOOLEAN
  /\ now = 0 /\ sampled = NoBlock /\ memo = {}
  /\ batches = [x \in Batch |-> Fresh]

NewBlock ==
  /\ now < MaxBlock /\ now' = now + 1
  /\ UNCHANGED <<groups, queue, calls, active, held, declares, sampled, memo, batches>>

\* a batch begins, and joins the head read in flight or starts one
evaluateMany(x) ==
  /\ batches[x].pc = "idle"
  /\ \E sample \in 0..now, wallets \in SUBSET Wallet \ {{}} :
       batches' = [batches EXCEPT ![x] = [Fresh EXCEPT !.pc = "head", !.sample = sample,
                                                   !.wallets = wallets]]
  /\ UNCHANGED <<groups, queue, calls, active, held, declares, now, sampled, memo>>

AtHead == {x \in Batch : batches[x].pc = "head"}

\* the node reads its head
SampleHead ==
  /\ AtHead # {} /\ sampled = NoBlock
  /\ sampled' = now
  /\ UNCHANGED <<groups, queue, calls, active, held, declares, now, memo, batches>>

Behind(epoch) == {e \in memo : e.leg = "head" /\ e.epoch < epoch}

\* Everyone who waits for the head gets it.  The purge of older windows may
\* miss entries of the store.
HeadSettles ==
  /\ sampled # NoBlock /\ sampled' = NoBlock
  /\ batches' = [x \in Batch |-> IF x \in AtHead
                               THEN [batches[x] EXCEPT !.pc = "lock", !.head = sampled]
                               ELSE batches[x]]
  /\ \E missed \in SUBSET Behind(epochOf(sampled)) :
       memo' = (memo \ Behind(epochOf(sampled))) \cup missed
  /\ UNCHANGED <<groups, queue, calls, active, held, declares, now>>

HeadFails ==
  /\ AtHead # {} /\ sampled' = NoBlock
  /\ batches' = [x \in Batch |-> IF x \in AtHead THEN [batches[x] EXCEPT !.pc = "failed"]
                               ELSE batches[x]]
  /\ UNCHANGED <<groups, queue, calls, active, held, declares, now, memo>>

\* memoMany's lookups: an entry may have been evicted, or its store may not
\* answer, and then it is a miss like one never read
LookUp(x) ==
  LET k == batches[x]
      hits == {e \in memo : \E q \in Asked(k) : e = Remembered(k, q, e.value)}
  IN /\ k.pc \in {"lock", "bal"} /\ k.missing = {}
     /\ \E found \in SUBSET hits :
          LET missing == Asked(k) \ {e.question : e \in found}
              holding == {e.question : e \in {f \in found : f.value = 1}}
          IN /\ \A e, f \in found : e.question = f.question => e = f
             /\ IF missing = {}
                THEN /\ batches' = [batches EXCEPT ![x] = Advanced(k, holding)]
                     /\ UNCHANGED pool
                ELSE /\ batches' = [batches EXCEPT ![x].got = holding, ![x].missing = missing,
                                               ![x].waits = missing]
                     /\ enqueueRead(ReadBlock(k), missing)
     /\ UNCHANGED <<held, declares, now, sampled, memo>>

\* The reads of a chunk settle, for every batch that waits for one of them;
\* those in lost came back without a result.
Delivered(chunk, lost) ==
  [x \in Batch |->
     IF batches[x].pc \in {"lock", "bal"} /\ ReadBlock(batches[x]) = chunk.block
     THEN [batches[x] EXCEPT !.waits = @ \ chunk.reads,
                           !.failed = @ \/ batches[x].waits \cap lost # {}]
     ELSE batches[x]]

FlushTimer ==
  /\ \E b \in Block : flushGroup(b)
  /\ UNCHANGED <<held, declares, now, sampled, memo, batches>>

CallAnswers ==
  /\ \E call \in calls : \E lost \in SUBSET call.chunk.reads :
       Settle(call) /\ batches' = Delivered(call.chunk, lost)
  /\ UNCHANGED <<held, declares, now, sampled, memo>>

CallFails ==
  /\ \E call \in calls :
       \/ RetryChunk(call) /\ UNCHANGED batches
       \/ /\ call.attempt = 2 /\ Settle(call)
          /\ batches' = Delivered(call.chunk, call.chunk.reads)
  /\ UNCHANGED <<held, declares, now, sampled, memo>>

Settled(x) == batches[x].missing # {} /\ batches[x].waits = {}

\* mutant of Collect
CollectAtNow(x) ==
  LET k == batches[x]
      read == {q \in k.missing : Answer(ReadBlock(k), q) = 1}
  IN /\ Settled(x) /\ ~k.failed
     /\ memo' = memo \cup {[Remembered(k, q, Answer(ReadBlock(k), q))
                             EXCEPT !.epoch = IF k.leg = "head" THEN epochOf(now) ELSE @]
                            : q \in k.missing}
     /\ batches' = [batches EXCEPT ![x] = Advanced(k, k.got \cup read)]
     /\ UNCHANGED <<groups, queue, calls, active, held, declares, now, sampled>>

\* every miss was read: memoize and go on
Collect(x) ==
  LET k == batches[x]
      read == {q \in k.missing : Answer(ReadBlock(k), q) = 1}
  IN /\ Settled(x) /\ ~k.failed
     /\ memo' = memo \cup {Remembered(k, q, Answer(ReadBlock(k), q)) : q \in k.missing}
     /\ batches' = [batches EXCEPT ![x] = Advanced(k, k.got \cup read)]
     /\ UNCHANGED <<groups, queue, calls, active, held, declares, now, sampled>>

\* balancesOfBatched reads a failed chunk once more
ReadAgain(x) ==
  LET k == batches[x] IN
  /\ Settled(x) /\ k.failed /\ k.pc = "bal" /\ ~k.again
  /\ batches' = [batches EXCEPT ![x].failed = FALSE, ![x].again = TRUE, ![x].waits = k.missing]
  /\ enqueueRead(ReadBlock(k), k.missing)
  /\ UNCHANGED <<held, declares, now, sampled, memo>>

\* a read that failed is no answer: the whole batch throws
Throw(x) ==
  LET k == batches[x] IN
  /\ Settled(x) /\ k.failed /\ (k.pc = "lock" \/ k.again)
  /\ batches' = [batches EXCEPT ![x].pc = "failed"]
  /\ UNCHANGED <<groups, queue, calls, active, held, declares, now, sampled, memo>>

Progress ==
  \/ SampleHead \/ HeadSettles \/ HeadFails \/ FlushTimer \/ CallAnswers \/ CallFails
  \/ \E x \in Batch : LookUp(x) \/ Collect(x) \/ ReadAgain(x) \/ Throw(x)

RuleNext == NewBlock \/ Progress \/ \E x \in Batch : evaluateMany(x)

RuleSpec == RuleInit /\ [][RuleNext]_ruleVars

----------------------------------------------------------------------------
RuleTypeOK ==
  /\ PoolTypeOK
  /\ held \in Histories /\ declares \in BOOLEAN
  /\ now \in Block /\ sampled \in Block \cup {NoBlock} /\ memo \subseteq Entry
  /\ batches \in [Batch -> [pc : {"idle", "head", "lock", "bal", "done", "failed"},
                          leg : Leg, head : Block, sample : Block,
                          wallets : SUBSET Wallet, admitted : SUBSET Wallet,
                          got : SUBSET Question, missing : SUBSET Question,
                          waits : SUBSET Question, failed : BOOLEAN, again : BOOLEAN]]

Window(block) == {b \in 0..now : epochOf(b) = epochOf(block)}

\* A remembered answer is what the chain said at its block, or, for the head
\* leg, at a block of its window (the cache key is the window, and the
\* window is that of the block the read was pinned to).
MemoIsTrue ==
  \A e \in memo :
    \E b \in (IF e.leg = "pin" THEN {e.epoch} ELSE Window(e.epoch)) :
      e.value = Answer(b, e.question)

\* Nobody is admitted on a holding the wallet never had: it held at the block
\* its bundle samples or in the window of the head (evaluateMany).
AdmittedHeldIt ==
  \A x \in Batch : \A w \in batches[x].admitted :
    /\ declares
    /\ \/ w \in held[batches[x].sample]
       \/ \E b \in Window(batches[x].head) : w \in held[b]

\* A holder at the block its bundle samples is never refused, whatever the
\* head, the memo, an outage or another batches's reads say; and a wallet that
\* held through the whole window of the head is not refused either.
HoldersAreAdmitted ==
  \A x \in Batch : batches[x].pc = "done" /\ declares =>
    \A w \in Open(batches[x]) :
      /\ w \notin held[batches[x].sample]
      /\ \E b \in Window(batches[x].head) : w \notin held[b]

Places(b, q) ==
  Cardinality({i \in DOMAIN queue : <<b, q>> \in Of(queue[i])})
  + Cardinality({call \in calls : <<b, q>> \in Of(call.chunk)})
  + (IF q \in groups[b] THEN 1 ELSE 0)

\* Every read someone waits for is in a group, a queued chunk or a call, and
\* no read is in two of them (enqueueRead's sharing).
ReadsAreInOnePlace ==
  /\ \A b \in Block, q \in Question : Places(b, q) <= 1
  /\ \A x \in Batch : \A q \in batches[x].waits : Places(ReadBlock(batches[x]), q) = 1

\* No chunk waits while a slot is free (acquire and release).
SlotsAreUsed == queue # <<>> => active = Concurrency

\* The admitted held the asset, and a holder is not refused.
VerdictsFollowHoldings == AdmittedHeldIt /\ HoldersAreAdmitted

\* The state keeps its types, and the pool neither loses a read nor idles.
RuleInv == RuleTypeOK /\ ReadsAreInOnePlace /\ SlotsAreUsed
=============================================================================
