# pubsub-voting in TLA+

A voter node keeps, for every contest, the set of vote bundles it has seen
(one wallet's latest bundle counts), checks them against a chain and against
name resolvers, gossips them over pubsub and serves a checkpoint of the
verified ones to its peers. These modules model the part of that where
interleavings, failures and time decide whether votes are counted, kept and
served correctly. Paths below are relative to `src/src/`.

## The system

| Component | State | Operations | What is hard | What makes it correct |
|---|---|---|---|---|
| Vote CRDT (`crdt/crdt.ts`, `chain/bucket.ts`) | Map of bundles by CID, in arrival order | merge, add, remove, prune, current entries | order of arrival, ties, a newest bundle that is still provisional | the winners do not depend on the order; a prune is invisible |
| Tally (`tally/tally.ts`, views of `client/voter.ts`) | cached tally, dirty flag, recomputes at work | kick, recompute, view update and stop | recomputes that overlap changes and each other | a listener sees the tally of the votes held |
| Admission: `ContestEngine` in `client/voter.ts` | CRDT, `#checks` (two flags per bundle), `#ownPublishes`, cached bucket | admit, settle, evict, prune, sign | four actors that change it between awaits | CRDT and checks agree; what is served is verified |
| Gossip gate (`transport/gossip-validator.ts`) | verdict cache, accepted-dedup, validations in flight | validate | deadline that answers before the work ends; cached verdicts | nothing unverified is forwarded; no honest relayer is penalized |
| Chaser (`transport/chase.ts`) | runs in flight | fetch a peer's checkpoint, admit its bundles provisionally | state read before an await and used after it | every provisional bundle is handed to the verifier |
| Background verifier (`verify/background.ts`) | queue, batch, retry timer, grace clock | enqueue, rounds, stop, resume, idle | retries, pauses, partial rounds | one verdict per bundle, none lost, all in the end |
| Checkpoint and snapshot (`client/voter.ts`, `checkpoint/codec.ts`) | dirty flag, cached record, snapshot timer, restore backlog | rootRecord, writeSnapshot, restore, leave; encode, decode | overlapping encodes, failed writes, crashes, re-joins; chunk limits | a persisted vote is not lost; the record is current and canonical |
| Cold start (`client/voter.ts`) | pulls, batch and request in flight per peer, answer cache | pull, bulk request, fallback, retry | pulls that join the requests and answers of others | no waiter is lost; absence is not believed wrongly |
| Root exchange (`client/voter.ts`) | interval flags, chases in flight | heartbeat, handle a record, chase, prune | suppression, loss | every node's winners converge |
| Publication (`client/voter.ts`) | state, attempts, callbacks, own bundles, peer roots | publish, settle, evict, credit a peer | verdicts that land between the awaits | the state speaks of the current attempt and only advances |
| Voter lifecycle and announcer (`client/voter.ts`, `transport/announce/*`) | engines, joined count, responder, timers, put in flight | create, join, leave, heartbeat, announce, destroy | overlapping calls, a change during a put | served while joined, quiet when left |
| Gate (`rules/gate.ts`) | the answers to a tree of rules | evaluate lazily, in full, tolerantly; blame, penalize, score | short-circuits and outages | one verdict however it is evaluated; certain blame |
| Soulbound rule and coalescer (`rules/erc5192-min-balance.ts`, `rules/cache.ts`, `chain/coalescer.ts`) | memo, batches, read groups, slots | evaluateMany, enqueueRead, flush, retry | shared reads, a moving head, one read of a call failing | answers of the chain they claim to be of; holders admitted |
| Browser storage (`storage/browser.ts`) | two databases, a counter | get, set, remove | counter read before an await | a swap drops the older half only |

The actors of a contest meet in the engine. Gossip verifies inline and admits a
bundle as settled. The chase and the snapshot restore admit bundles
provisionally and hand them to the background verifier, which settles or evicts
them through callbacks. The engine's own `signVote` admits provisionally too,
and leaves callbacks for the publication. Every change marks the state changed,
which dirties the cached root record, arms the snapshot write and kicks the
tally. The fetch responder, the heartbeat and the announcer read the record; a
joiner's root puller asks the responders of its peers. All of this is one
JavaScript thread: the steps of the models are the code between two awaits.

## The modules

| Module | Models | Extends or uses |
|---|---|---|
| `Lww` | the last-write-wins reduction, expiry and what a prune removes, as operators | |
| `VoteCrdt` | the abstract working set: bundles, provisional ones, the bucket; history of all that was ever integrated | `Lww` |
| `CheckpointCodec` | sorting, the size-capped fill into chunks, the root manifest, the decode with a piggybacked chunk index | `Lww` |
| `VoteCrdtMap` | the code's representation: the Map in insertion order, the one-pass fold and prune, the rows and the checkpoint computed from it; implements `VoteCrdt` | `CheckpointCodec`, `INSTANCE VoteCrdt` |
| `Tally` | kicks, the refresh loop and the views' own recomputes over that Map | `VoteCrdtMap` |
| `Admission` | the engine with gossip, chase, own publishes and the background verdicts, interleaved | `Lww` |
| `DeferredChecks` | what the background verifier promises: one verdict per bundle at a time, the gate reported at most once before it | |
| `BackgroundVerifier` | the queue, rounds, retries, grace window, stop, resume and idle; implements `DeferredChecks` | `INSTANCE DeferredChecks` |
| `Checkpoint` | the root record cache, snapshot writes, restore, leave and crashes | `Lww` |
| `ColdStart` | the root puller and the responders it asks | |
| `RootExchange` | heartbeat, suppression, answers and chases between nodes | |
| `Publication` | one ballot's attempts, callbacks, evictions, decay and peer credit | |
| `Lifecycle` | creation, joins, leaves, heartbeat chains, responder, announcer, destroy | |
| `Gate` | the gate tree, as a table of nodes, and its three evaluations | |
| `Coalescer` | the pool of shared reads | |
| `SoulboundRule` | batches of the two-leg rule over the pool, with head sharing and memo | `Coalescer` |
| `BrowserLru` | the two-database cache, call by call and request by request | |
| `*Proofs` | theorems and their proofs | the modules they are about; `VerifierProofs`: `BackgroundVerifier` and `Gate` |
| `MC...` | the constants of the runs | the module they check |

Names are the source's where TLA+ allows it: `Admission!EvictBundle` is
`#evictBundle`, `Checkpoint!WriteFailed` the catch of `#writeSnapshot`,
`Lifecycle!onTopicLeft` the callback of that name. `PROJECT.json` maps every
definition to the lines it stands for. A definition introduced as "mutant of" is
a plausible bug in the definition it names; no action uses it.

### What the models abstract

- A bundle is an opaque value. `address`, `blockNumber` and the byte order of
  its CID are functions given as constants. Encoding, signatures and CIDs are
  left out; a root record or a snapshot is the set of bundles in it, except in
  `CheckpointCodec`, where a block is its content and thereby its own CID.
- A network answer is a choice among the answers the bundle can get
  (`gateAnswers`, `nameAnswers`). A rule that blames the sender is
  deterministic, so a bundle that can be rejected is always rejected
  (`BlameAssumption`).
- Between `crdt.add` and `recordChecks` there are microtasks only; the two are
  one step.
- `HeadSamples`: a head sample taken by one reader may trail the head by one
  bucket when another lands.
- The first-in-first-out caches are exact, their sizes are constants.
- `VoteCrdt` compares the set with `live`, all that was integrated and not
  evicted. A settled bundle can be evicted or become pending again (see below);
  what had been pruned beneath it leaves `live` with its verdict (`lostWith`).
- In `Admission` and `Publication` the head a ballot is dated by is read in one
  step (`ReadHead`) and the ballot is admitted in another (`SignVote`), with
  whatever happens while the signer is awaited in between.
- In `Admission` the background verifier is a stage per bundle; its queue is
  the subject of `BackgroundVerifier`. In that module the queue and the batch
  are sets, a bundle's names are resolved in any order, and a delay is a timer
  that may fire at any time. The grace window is counted in ticks of an item's
  age.
- In `Checkpoint` verification is reduced to out, pending and verified. A head
  that is behind a restored bundle has the outcome of a failed head read.
- `ColdStart` has numbers for records, a bound on tries for the retries'
  deadline, and an answer cache that may expire at any time. Blocks inlined in
  an answer are kept before it is served. A responder encodes each of its
  records: one it cannot encode is missing from its answer like a contest
  beyond the limit, and taken for absent in the same way. The joiner's own
  `rootRecord()` may throw as well: a cold start then keeps the rejection
  (`unread`) and drops its records, a record handed over is dropped alone.
- `RootExchange` encodes at once, keeps the last record on a link, and admits
  what it chases, over or not: encoding is `Checkpoint`'s subject, verification
  `Admission`'s. Old samples of the head and head reads outside the heartbeat
  (`ReadHead`, with or without a prune) count against `MaxFaults`.
- In `Publication` the votes do not change between attempts, so a bundle is the
  bucket it is signed in; other wallets' bundles stay as they are.
- `Lifecycle` counts the calls that wait at each await, since calls of one kind
  on one contest are alike.
- In `Gate` a tree is the list of its nodes, children before their branch, and an
  evaluation gives each node its result; what the code reads off a result by
  recursion (`gateScore`, `gateBlame`, `gatePenalize`, the leaves without an
  answer) is part of it. The schema's caps on depth and leaves and the spellings
  it refuses are left out: `GateAssumption` asks only that a branch has children,
  each of them before it. Two leaves that ask one question share its answer, and
  answers come in any order. In `SoulboundRule` a batch names one sample block and fits one
  multicall, and the minimum is one token.
- History variables (`gatePassed`, `forwarded`, `live`, `raced`, `stale`, `dropped`,
  `pruned`, `shown`, `spoiled`, `advertised`, `stoodFor`, `doubled`, `missed`,
  `unannounced` and the like, each marked in its module) record
  what happened; no action's guard depends on them.

## The runs

| Run | What it checks | Bounds and why they are enough |
|---|---|---|
| `MCTally` | `TallyIsCurrent`, `RowsAreOrderFree`, `RecordIsCanonical`, `DecodeIsWholeOrNothing`, `PruningIsInvisible`, `ImplementsVoteCrdt` | three bundles of one wallet (one older, two tied), one of another, buckets 0..3 with expiry after one: every order of arrival, a tie, a superseded, an expired and a shielded bundle; a chunk limit that one bundle exceeds and two small ones fill; one view that starts and stops. `ObservedIsSmall` keeps the Map to one bundle while somebody listens: what the tally races with is that something changed, not what |
| `MCAdmissionGate` | `ForwardedIsVerified`, `RelayersAreSafe`, `ChecksMatchCrdt`, `ServedIsVerified` | one validation and one chase over a named bundle, one the gate refuses and one the offline checks refuse; caches of one entry, so every entry is dropped at some point; head reads and block writes may fail |
| `MCAdmissionLive` | `PendingSettles`, `PruneKeepsServed` | an older own vote and a newer named one of one wallet, a chase, up to the expiry of the older, no infrastructure failures, under `FairSpec`; the shield of the CRDT needs exactly two bundles |
| `MCBackgroundVerifier` | `InFlightIsHeld`, `WorkIsScheduled`, `Settles`, `ImplementsDeferredChecks` | three bundles: a name that may not resolve, the same name under another key, a wallet that may not hold the asset yet; one outage, a grace window of two ticks (one would hide a window that is restarted), stop and resume at any point |
| `MCCheckpoint` | `CheckpointInv`, `RecordIsCurrent`, `WritesKeepPersisted` | two bundles of one wallet, the older an own ballot that the restore refuses, buckets 0..2 with expiry after one; head reads, block writes and stores fail; two write attempts, any number of crashes, leaves and joins. Two bundles are what it takes to supersede, prune, evict late and fall back. No call that only serves (`Server = {}`): its overlaps are races, where the exploration ends |
| `MCColdStart` | `ColdStartInv`, `NoRecordIsTrue`, `AnswersReachContests`, `PullsEnd` | two contests and one peer whose responder may not be up and whose roots come, change and go; two tries, two faults (fetches that throw, own encodes that fail). Two contests are what it takes to share a request and to be served by another's; the puller keeps all state per peer |
| `MCRootExchange` | `RootExchangeInv`, `NothingOverSpreads`, `Converges` | three nodes and one vote that is missed by any subset and expires; one fault, which may be a prune that is not told. With two nodes a record that matches one neighbour and differs from another cannot occur |
| `MCLifecycle` | `LifecycleInv`, `HeartbeatGoesOn`, `QuietWhenLeft`, `ChangesAreAnnounced` | two contests, three joins and leaves, overlapping or not (`serial`), starts and stops of the transport that throw, destroy at any time: two calls on one contest overlap while the third moves the count of the other |
| `MCPublication` | `PublicationInv`, `VerdictsAreOfAttempt`, `AttemptOnlyAdvances`, `VerdictsAreHeard` | two attempts in one bucket or two, two peers, maps of one entry, so that one advertised root pushes out another; two pairs of a peer and a root it advertises (`MaxHeard`): two peers, or one that changes its root |
| `MCGate` | `GateInv`, `LazyIsFull`, `OutagesDecideNothing` | every answer of three rules, with scores up to two, over eleven trees up to three levels deep; in some a rule is named in several branches, or beside a branch that names it, so that a lazy evaluation meets an answer it already has |
| `MCSoulboundRule` | `RuleInv`, `MemoIsTrue`, `VerdictsFollowHoldings` | two batches, a constant holder and one that mints or burns at the second of three blocks of which two share a window; one slot, two reads a call, so that a chunk waits while another is sent again |
| `MCBrowserLru` | `AtMostHalfDrops`, violated | see "Where the code and its comments disagree"; two callers, caches of two entries |

Deadlock is checked in the runs whose system always has a next step; `MCColdStart`,
`MCGate`, `MCLifecycle`, `MCPublication` and `MCSoulboundRule` end when their
bounded work is done. Named bounds are marked as such in the modules:
`MaxBucket` (how far the chain goes), `MaxOutages` and `MaxFaults` (how often
infrastructure fails, needed for the liveness of retries), `MaxRoot`,
`MaxCalls`, `MaxAttempts`, `MaxHeard`, and the sets of concurrent validations, chases,
writers and restores. `GateGrace`, `WriteAttempts`, `BulkMax`, `PeerLimit`,
`EpochBlocks`, `ReadsPerCall`, `Concurrency` and the cache sizes are the code's
own limits, made small.

The invariants named after their module combine its type invariant with one
property: a backlog has its retry (`CheckpointInv`), a waiting pull is held by
exactly one batch or request (`ColdStartInv`), what a record under way names or
a chase wants can still be had unless it is over (`RootExchangeInv`), a joined
contest is served (`LifecycleInv`), a credited peer advertised a root that held
the bundle, or one equal to our own record that was taken to stand for it
(`PublicationInv`), blame is certain and
sufficient (`GateInv`), awaited reads are in one place and slots are used
(`RuleInv`).

`BlameIsEnough` (in `GateInv`) goes by the places reported without an answer, not
by the questions that have none: a lazy `all` of (`any` of A and B), C and A that
stops at C may have read A inside the `any`, where its refusal cost nothing, and
never looks at it in its second place.

`MCCheckpoint` explores only up to a race (`CONSTRAINT Unraced`): `raced` records
that two record-or-write calls overlapped, that a restore ran while a write
passed its guard, that two restores overlapped, that the store could not be
read, that a record cached before a failed encode was used again, that a restore
admitted anew what gossip had settled, or that a bundle the write was to keep
became pending while it awaited its head. The properties speak of executions without one, because with one they
fail; those failures are listed below. Its run therefore has one writer, one
restore and the flush of `leave`; the writer and the flush do overlap, which is
where the exploration ends.

Other properties are conditional because the code does not have them
unconditionally. What happens otherwise is listed below too.
- `PruningIsInvisible` goes by `live`, so not for what is lost with a settled
  bundle whose verdict is taken back (`lostWith`).
- `TallyIsCurrent` asks that the last recompute to end was the last one to begin
  and did not fail (`spoiled`), and lets votes that have run out stay on show.
- `RecordIsCurrent` says nothing from a failed encode to the next that comes
  through (`stale`); `WritesKeepPersisted` allows what a refused bundle took with
  it to be missing.
- `AnswersReachContests` leaves out the records that were dropped because the
  contest's own encode failed (`dropped`).
- `QuietWhenLeft` is about a host that awaits each call on a contest before the
  next (`serial`). It allows the chaser of a join that could not start
  (`failed`), a running responder if a `transport.stop` threw (`missed`), and the
  orphan heartbeat of a contest that was left and joined again during a tick
  (`doubled`).
- `VerdictsAreOfAttempt` and `AttemptOnlyAdvances` are about a host that awaits
  `publish()` (`HostAwaits`); evidence of a peer includes what an equal root was
  taken to stand for (`stoodFor`).

### Fairness

- `Admission!FairSpec`: every chase goes on (a per-root deadline aborts its
  wants, so no await of it lasts forever) and every background verdict comes
  (the verifier retries until infrastructure answers). Gossip, publishes,
  pruning and the chain's progress are not assumed fair.
- `BackgroundVerifier!FairSpec`: reads and resolvers answer or throw, timers
  fire and time passes. Outages are finite (`MaxOutages`). `stop` and `resume`
  are not fair, so `Settles` allows "or it is stopped".
- `ColdStart!FairSpec`: weak for a peer's bulk request, which a timer sends and
  a timeout ends; strong for a pull, because the limiter serves its queue in
  order, so a pull that finds a free slot again and again gets one.
- `RootExchange!FairExchangeSpec`: timers fire, and after the finitely many faults a
  message and a chase get through. Votes and expiry are not fair; there are
  finitely many.
- `Lifecycle!FairSpec`: the announcer's debounce fires and its puts end; the
  HTTP calls have timeouts. Nothing is assumed of joins and leaves.
- `Publication!FairSpec`: signers, routers, resolvers and chain reads answer or
  fail. Nothing is assumed of peers or of the head.
- `MCAdmissionLive` has a bundle chased again only while nothing is pruned
  in between its stages: a bundle that is pruned while the verifier still holds
  it, admitted anew and found in flight meets the stale-chase problem below.
  Only the older vote is an own one: signing a named ballot again in its bucket
  leaves it pending, see below.

## What is proved

The proofs hold for every value of the constants that satisfy the named
assumptions of the modules (`BundleAssumption`: finitely many bundles, CID order
injective; `CriteriaAssumption`, `AnswerAssumption`, `BlameAssumption`,
`BoundAssumption`, `VerifierAssumption`, `TaskAssumption`, `ExchangeAssumption`,
`LifecycleAssumption`, `ColdStartAssumption`, `PublicationAssumption`, `TallyAssumption`,
`GateAssumption`, `ChoiceAssumption`, `CodecAssumption`, `RuleAssumption`, `CoalescerAssumption`). All but
`BundleAssumption`, `BlameAssumption`, the order of addresses in `CodecAssumption`
and the last line of `RuleAssumption` (the wallets of a batch fit one call) only say which values a constant may take.

- `LwwProofs` has the lemmas of the reduction. `Beats` is a strict order on one
  wallet's bundles, so each bundle has a winner above it (`WinnerAbove`, by
  the finiteness of the set: `FiniteSetTheorems` gives a maximal CID-and-block).
  A beaten bundle expires no later than what beats it (`BeatenExpiresFirst`).
  Together, `CoveredReduction`: if everything missing from a set is *covered* in
  it, by an expired or a beating and eligible bundle, both sets reduce to
  the same current entries.
- `TallyProofs` goes from the set of bundles to the tally a view shows. A
  bundle that was integrated and is no longer held is covered in the sense of
  `CoveredReduction`, by a settled bundle (`IsCover`); what a prune takes away it
  leaves a cover for (`CoverPrunes`). The properties about pruning do not mention
  coverage and are not inductive by themselves. For the set: `TypeCorrect`,
  `TallySound`, `CheckpointSound`. For the Map: `Refinement` (every operation of
  the Map is that of the set, whatever the insertion order) and
  `PruningIsNeverSeen`. They need to know what the one-pass folds compute.
  The library's induction over data is out of the prover's reach, and `FoldLeft` is
  a choice of a function on sets of indices; that such a function exists is proved
  by a least counterexample (`FoldExists`), that it takes one index after the
  other follows (`FoldRuns`), and the facts that `FoldedWinners`, `KeepOnlyFacts`
  and `RowsOfList` state are again by a least counterexample. `ShownIsCurrent` is about the loop and the views' own
  computes: rows shown are those of some votes that include all in force and
  otherwise only votes that have run out (`Shows`), which a prune or a passing
  bucket cannot undo. The compute that took the votes last has what is there, or
  something is dirty or still to read (`LatestIsFresh`, from `TakenIsFresh` where
  it takes them: it puts the others behind it, and its end overtakes them);
  what is cached when nothing is at work was the latest
  (`CachedIsFresh`); an unanswered kick finds the loop at work wherever a view is
  on (`LoopRuns`). What the rows are is `RowsAreRight`: the Map has no
  bundle twice (`OneOfEach`), so every wallet has one first entry and the list
  that is counted has each current vote once (`ShownOncePerWallet`), and a vote
  more adds one to the rows it names (`RowsOfOneMore`). `RecordIsRight` takes the
  same list to the record: winners of different wallets have one order by address
  (`SortedFacts`: a winner's place is the number of winners up to it), and each
  bundle packed keeps the chunks whole, within the cap and full (`PackOnPacks`).
  `DecodesWhole` needs no invariant: an index that hashes to the root is the
  record's, and any other is not used.
- `AdmissionProofs`: `AdmissionTypeCorrect`; then `Established`, which adds to
  the property what each intermediate state has already established: a bundle
  with a cleared flag has passed that check, a cached valid verdict or an
  admitted validation has passed both, a chase that found a valid verdict may
  admit as settled, and CRDT and checks agree. It gives `ChecksNeverDrift`,
  `ServedSound` and `ForwardedSound`. `PruneSound` is an action property from the
  typing and `CoveredReduction`. `RelayersSound` needs the further invariant
  `Honest` (a cached reject has a gate that rejects, a forwarded one has not)
  and the assumption that own ballots pass the offline checks, which
  the code does not enforce (below).
- `VerifierProofs`, about `BackgroundVerifier`: the refinement `Refinement` of `DeferredChecks`,
  and `NoneLostOrDoubled`, `WorkNeverStranded`, `IdleResolvesWhenEmpty`,
  `TypeCorrect`. One inductive invariant carries them all. It adds to the
  properties the shape of the round's variables between rounds and before the
  gate read (`RoundShape`), that the item at hand had its gate reported
  (`GateReported`: a verified bundle was notified), and that a round that
  will count as failed has met an outage of its own (`FailuresCounted`: without
  it the bound on `failedRounds` is not inductive). A bundle just taken is in no
  place yet, and one that leaves the batch goes to one place, so the places stay
  disjoint; idle() resolves where no round runs and the queue is empty, where
  `Held` and `RoundShape` leave nothing in flight.
  About `Gate`, for every tree, any number of rules and every answer:
  `LazyEvaluationSound`, `OutagesSound` and `BlameSound`. The invariant
  `GateIInv` says that a decision is what the answers read come to, that without
  tolerance the first failed read ends the fold, and what was missing when it
  threw; the rest is about trees. A table whose rows depend on the rows before
  them exists (`TableExists`), so `Run` gives each node its result from those of
  its children (`RunUnfolds`), and what holds of the leaves and passes from
  children to a branch holds of every node (`NodeInduction`); both are by a
  least counterexample, since induction over data is out of the prover's
  reach. Then one lemma per fact, each with what a single branch does with its
  children: what is decided stays so whatever else is answered (`Monotone`) and
  what is open can go either way (`Undecided`), which makes an outage harmless;
  a lazy evaluation with nothing left to ask has reached a child that stops it
  or passed them all (`LazyBranch`), and agrees with the full one (`LazyAgrees`);
  an attributable refusal of an `all` has one attributable child and of an `any`
  only such (`BlameConvinces`); what a node wants to be satisfied contains what
  enough of its children want, or all leaves of a child it skipped
  (`WantedCured`).
- `CheckpointProofs`: three invariants, each up to the first race. `BacklogInv`
  (a backlog or a restore at work has a snapshot that decodes) gives
  `BacklogHasRetry`. `RecordInv` gives `RecordStaysCurrent`: one call at a time
  is past its head read (`OneWrites`), and an encode that nothing has dirtied
  carries the current winners (`EncodesCurrent`), also after one that failed. `KeepInv` gives
  `PersistedVotesAreKept`: every persisted bundle decayed, is held, was
  refused, was pruned for one that is held, or is still to be restored (`NoneForgotten`), a write that passed its guard has
  all of them excused (`WritesRight`), and what is being written is still held
  (`WritesWhatIsHeld`), so that the next write can start from it. A property of
  the store step alone is not inductive: a write decides several awaits before
  it stores. A refused bundle excuses itself, and what had been pruned for it
  where no other verified bundle replaces that. Any call may fail; `BacklogHasRetry` alone assumes that the
  store can be read.
- `LifecycleProofs`: `Inductive`, `Invariant`, `HeartbeatNeverStops`, `LeavesQuiet`, for any
  contests and any number of overlapping calls. The responder goes by a count,
  so the invariant bounds it: `joinedEngines` is at least the joined contests and
  the leaves that have still to be counted off (`Counted`); overlapping joins
  may make it larger, never smaller. `Beating` says who will arm the next beat,
  `JoinsAreCalls` keeps the counters of waiting calls within their types.
  `LeavesQuiet` is about a host that awaits its calls, and its invariant holds
  only there (`serial => SerialInv`): a contest has one call at a time
  (`OneCall`), what is left of a contest goes with its last call
  (`NothingStays`), destroy leaves every contest (`DestroyLeaves`), and the
  count is exact but for the leaves that failed (`CountsExactly`), so the last
  leave brings it to zero if none did.
  What a start or stop that throws leaves behind, and the timers of a contest
  re-joined during a tick, are followed by `failed`, `missed` and `doubled`.
  The module ends with `ExchangeInvariant` and `OverDiesOut` about
  `RootExchange`, for any nodes, bundles and faults. The first is inductive as it
  stands: a record names what its sender holds, and a node drops only what is
  over. The second is an action property, step by step, from the typing: a record
  sent names nothing its sender knows to be over.
- `SharedReadsProofs`, about `ColdStart`: `EveryWaiterIsHeld`, `AnswersReach` and `AbsenceIsTrue`,
  for any contests, peers and limits. The invariant adds that a batch gathers
  only while no request of its peer is in flight (`OneRequest`), and that a pull
  that is not over has tries left (`TriesLeft`). `AbsenceIsTrue` needs
  `Grounded` besides: from the request on a pull has been shown what the
  peer serves now, and has been shown nothing if the answer in hand leaves its
  contest out. It assumes that the contests fit a bulk answer.
  About `SoulboundRule`: `MemoSound` and `VerdictsSound`, from `HoldingsInv`. While a
  leg waits for its misses, what it found in the memo is true (`FoundIsTrue`); a
  batch in its balances has a declared contract, and one in its second leg was refused
  by its first for a reason (`Admits`, `Refuses`). An answer is true of a block in
  the window it is remembered for, and the epoch of a block has the same window
  (`EpochWindow`). This needs nothing of the pool, which may lose, delay or
  double any call. `PoolSound` needs `ReadsInv` besides: chunks are not empty and
  have no read in common, nor has a group with a chunk (`ChunksAreApart`,
  `GroupsAreApart`), so a call is never counted twice against the slots; a read
  is on its way until the batches that wait for it are told. It assumes that the
  wallets of a batch fit one call, as the model does.
- `PublicationProofs`: `CreditsAreEarned`, `VerdictsAreCurrent` and
  `OnlyAdvances`, for any bundles, peers and limits. None is inductive alone. A
  callback kept for a bundle is the one of the attempt that signed it
  (`CallbacksAreOfSigned`), so a verdict that arrives late is the verdict on that
  attempt's bundle; later attempts have not begun, and where the host awaits
  its calls the others have ended (`OneUnderWay`). A peer is credited from the
  root it announced, so every root noted was advertised by that peer, and a
  root decoded holds the bundles indexed under it or was taken to stand for them
  (`RootsHaveEvidence`, with `Backs`). A signer is asked in the state in which
  its attempt stays until it answers (`AskedInSigning`). `PutFacts` says that the two maps of roots keep one
  entry per key within their limits: `Put` removes the key's entry, or
  the oldest, before it appends.

Model-checked only: all liveness (`FairSpec` and `FairExchangeSpec` in the
runs; the theorems need only `Spec`), and whatever the list above does not name.
Every safety invariant and every action property of a passing run, and both
refinements, are stated by a theorem, under the conditions the property or the
list above names.

## Where the code and its comments disagree

With a run: `MCBrowserLru`. Two writes that fill the active database together
both await its length and both swap (`storage/browser.ts:61-62`); the second
swap clears the half just filled. The class comment promises that at most the
oldest half drops at once (`storage/browser.ts:11-13`).

Met while modelling, without a run. The models either contain the behaviour and
leave the property unstated or condition it, as said above.

Admission and verification:
- `#evictBundle` says of the bundle it drops that "its verified predecessor, if
  any, wins again" (`client/voter.ts:1425`). It also drops a bundle that gossip
  has settled since the background verifier took it up
  (`verify/background.ts:248-271`, `:341`), and then a prune may have taken the
  predecessor; the next snapshot write loses that one from the snapshot too.
  The models have it (`lostWith`, `Checkpoint!Evict`), the properties exclude it.
- The chase has no expiry check (`transport/chase.ts:263-290`; `#isEvaluableNow`,
  `client/voter.ts:1537-1541`, refuses only future buckets): what decayed and was
  pruned comes back from a record of before, until the next prune. A prune outside
  the heartbeat is not told either (`:1644-1654`, `:1830-1833`).
- `transport/chase.ts:270` asks whether a bundle is admitted, awaits and then
  admits it as unverified, though admitted bundles "are skipped" (`:113-114`);
  what gossip settled meanwhile is pending again.
- `transport/chase.ts:293` hands the bundles over only when the run reaches its
  end; a failed head read or block write leaves them pending and owed to nobody
  (against `:21-24`, `:128-129`), which suppresses every later snapshot write.
- An own publish with preflighted names is reported verified after the gate read
  and may still be evicted by the name stage (`client/voter.ts:1413`).
- `signVote` admits an own ballot without the constraint checks
  (`client/voter.ts:2094-2096`) and the background verifier does not make up for
  it.
- Two ballots of one bucket have one block number (`client/voter.ts:2084`); a
  withdrawal may lose the tie to the vote it withdraws, though an empty ballot
  published later "supersedes the prior vote" (`README.md:203`, `DESIGN.md:247`). The accepted-dedup likewise
  hides a wallet's return to an earlier choice within one bucket.
- A named own ballot that is signed again in its bucket while its check is
  queued gets fresh flags and no new check, and stays pending.
- A throwing host callback loses a background round (`verify/background.ts:278`).
- `evaluateGate` called with tolerance and without `collectAll` would stop an
  `all` at a child whose read failed and refuse (`rules/gate.ts:191`), where the
  comment has the branch "honestly unknown" (`:198-199`). No caller combines the
  two, and `Gate` has no such mode; `Stops` is as in the code.

Checkpoint and snapshot:
- "The previous snapshot stays in place (a restart restores older state, never
  none)" (`client/voter.ts:2186`), but a failed block write in `rootRecord` leaves
  the dirty flag down (`:2351`), so that the record cached before counts as
  current. After a restart the restored votes are pending; a record encoded then
  for a peer is empty; the votes settle, the write's encode fails, and the retry
  stores the empty record over the snapshot.
- A write looks for pending checks and then awaits its head (`:2173-2179`). A
  bundle that becomes pending in between, a settled one by a chase or by signing
  it again (`:2096`), is left out of the snapshot until the next write. A restore
  that makes a bundle pending which gossip had settled raises the dirty flag only
  when it ends (`:2277-2288`).
- Two overlapping encodes may end in the other order and pin the older record.
- A snapshot write during the first pass of a restore overwrites the blob; a
  retry of an earlier join replaces the backlog of a later one.
- A restore that ends after its join was left keeps its backlog without a timer
  (`client/voter.ts:2308`); if the next join cannot read the store
  (`:2225`), nothing retries it and no snapshot is written until it is left.
- A tally's prune of the last pending bundle does not arm the write it
  suppressed; a state change while `leave` awaits its flush arms a timer that
  outlives the join.

Tally:
- A recompute that weighed the votes earlier and ends later overwrites the
  newer tally (`client/voter.ts:1658-1673`, `:1680-1691`; against `README.md:168`
  and `:185`).
- The prunes of `getTally()` and of `join` (`client/voter.ts:1644-1654`,
  `:2709-2711`, `:1830-1833`) neither kick a refresh nor cache a tally, and the
  next heartbeat then finds nothing to prune and does not kick either (`:2627`): a
  view goes on showing votes that have run out until something else changes.

Cold start:
- A cold start keeps one promise of its own root (`client/voter.ts:1867`). If that
  rejects, every record pulled is dropped by the `catch` at `:1875`; a record that is
  handed over (`:2418`) is dropped by the caller's catch (`:2960`). Neither is
  chased or reported, until a peer's heartbeat carries the root.
- A responder with more than `BULK_ROOTS_MAX_RECORDS` joined contests answers
  with some of them. Its comment calls the truncation "safe and invisible to
  correctness — a caller that wanted a topic missing from the answer falls back
  to fetching it individually" (`client/voter.ts:3098-3099`, likewise
  `transport/messages.ts:147-148`); the puller takes a contest absent from a non-empty
  answer for a "definitive 'no record'" (`client/voter.ts:932-933`) and does not
  fetch it. `NoRecordIsTrue` holds with the contests of a peer within the limit
  (`MCColdStart`, and `AbsenceIsTrue` for every instance); with `BulkMax = 1` in
  `MCColdStart.cfg` TLC finds it violated in five steps.
- A pull that joins a request already answered but not yet served is told of the
  state before it asked (`client/voter.ts:1054-1058`); `shown` begins with the
  request for this reason.

Lifecycle:
- Two joins at once both pass the test of the joined flag
  (`client/voter.ts:1711`) and count twice, while one leave uncounts one: the
  responder then outlives the last contest.
- A leave or destroy during a join is undone when the join's start ends
  (`:1807`); so is a destroy while `createContest` awaits its criteria CID.
- A leave and re-join during a heartbeat tick arms a second timer, also for a host
  that awaits its calls (`:2598-2607`). `leave` clears only the newer; the other
  fires, and arms the next only if the contest has a timer again by then.
- A `transport.start` that throws leaves the chaser of its join behind (`:1806`); a
  `transport.stop` that throws ends the leave before it is counted off
  (`:2037-2041`), so that the responder and the announcer outlive the last contest.
- A leave during the restore leaks the listener the cold start adds after it.
- A PUT or a signature of the announcer that fails still counts as announced until
  the next interval (`transport/announce/node.ts:159-199`).

Publication:
- A root equal to our own is taken to contain "every bundle ours does"
  (`client/voter.ts:2435-2440`), and `#ownVerifiedCids` to be "our own bundles that
  are in our OWN checkpoint right now" (`:2482-2486`). It is every own bundle that
  is verified when the encode ends: superseded or decayed ones not pruned yet, and
  ones settled during the encode. A peer, even one with an empty root, is then
  credited with a bundle its root lacks, and the ballot is `verified-by-peer`,
  against `:131` and `:309-311`. `stoodFor` records exactly these pairs.
- Overlapping `publish()` calls move each other's state.
- A bundle already credited to a peer never fires `onCheckpointedByPeer` for a
  later publish of the same bundle; with more than `OWN_CIDS_MAX` own bundles the
  oldest loses its callbacks while its publish waits.

Browser storage: the promotion of a hit in the older half may overwrite a value
written meanwhile (`storage/browser.ts:75-77`).

## Not modelled, and why

Encodings, schemas, CIDs and signatures are pure functions whose inputs the
properties do not tell apart. Transport adapters, the sqlite and in-memory
stores, the routers' HTTP interface and single chain reads are I/O and appear as
choices of answers and failures. Of the components that are modelled, these parts
are left out: the decode, size and rate limits in front of the gossip gate; the
chaser's bitswap sessions; the balance rules other than the soulbound one, which
are single reads; weights other than one, row order and display names of a
tally; the name cache behind the preflight; the announcer's records and their
signatures; `checkEligibility`'s report around the tolerant gate evaluation;
lengths of delays everywhere. Examples and benchmarks are not the program.

## Plan

Left to do: the chase's sessions, and the composition of `Admission` with the
queue of `BackgroundVerifier` in one run, which its state space does not allow
yet.
