---------------------------- MODULE RootExchange ----------------------------
(***************************************************************************)
(* Anti-entropy between the nodes of a contest: the heartbeat that         *)
(* publishes a root record unless the interval already carried it, the     *)
(* handler of a record heard (ContestEngine.#heartbeatTick and             *)
(* #handleRootRecord of src/client/voter.ts) and the chase of a root that  *)
(* differs.  Gossip loses messages, for live votes as well as records.     *)
(*                                                                         *)
(* A root is the winner set it encodes, and encoding is instantaneous (it  *)
(* is the subject of Checkpoint).  A channel holds the last record         *)
(* published: older ones count as lost.  Verification has a module of its  *)
(* own: here an admitted bundle is served.  No admission looks at a        *)
(* bundle's expiry, so a chase brings back what is over.                   *)
(***************************************************************************)
EXTENDS Integers, FiniteSets

CONSTANTS
  Node,
  Bundle,       \* one for each wallet
  NoRoot,
  MaxFaults     \* bound: messages lost, chases and head reads that fail,
                \* ticks by an old sample of the head, head reads outside ticks

ASSUME ExchangeAssumption == MaxFaults \in Nat

VARIABLES
  held,       \* [Node -> bundles it holds]
  expired,    \* bundles whose window is over at the chain head
  aware,      \* [Node -> those its bucket knows to be over]
  channel,    \* [Node \X Node -> the record under way from, to]
  chasing,    \* [Node -> roots whose chase is in flight]
  faults,     \* faults so far
  heard,      \* nodes whose #heardMatchingRoot alone is set
  published   \* nodes whose #publishedRootThisInterval is set: the other flag
              \* then makes no difference, and is left out

exchangeVars == <<held, expired, aware, channel, chasing, faults, heard,
          published>>

Root == SUBSET Bundle
Link == {l \in Node \X Node : l[1] # l[2]}

\* mutant of rootRecord
rootRecordUnfiltered(n) == held[n]

\* what a node encodes: its winners, none of them over for its bucket
rootRecord(n) == held[n] \ aware[n]

ExchangeTypeOK ==
  /\ held \in [Node -> SUBSET Bundle]
  /\ expired \subseteq Bundle
  /\ aware \in [Node -> SUBSET expired]
  /\ channel \in [Link -> Root \cup {NoRoot}]
  /\ chasing \in [Node -> SUBSET Root]
  /\ faults \in 0..MaxFaults
  /\ published \subseteq Node /\ heard \subseteq Node \ published

ExchangeInit ==
  /\ held \in [Node -> SUBSET Bundle]
  /\ expired = {} /\ aware = [n \in Node |-> {}]
  /\ channel = [l \in Link |-> NoRoot]
  /\ chasing = [n \in Node |-> {}]
  /\ faults = 0
  /\ heard = {} /\ published = {}

\* publishRootRecord, to every other node
Sent(under_way, n, r) == [l \in Link |-> IF l[1] = n THEN r ELSE under_way[l]]

Fault == faults < MaxFaults /\ faults' = faults + 1

(***************************************************************************)
(* What the topic and the chain do.                                        *)
(***************************************************************************)
\* a bundle is cast at n; its live message reaches the nodes in S only
Vote(n, b) ==
  /\ \A m \in Node : b \notin held[m]
  /\ b \notin expired
  /\ \E S \in SUBSET Node :
       held' = [m \in Node |-> IF m = n \/ m \in S THEN held[m] \cup {b} ELSE held[m]]
  /\ UNCHANGED <<expired, aware, channel, chasing, faults, heard,
                 published>>

Expire(b) ==
  /\ b \notin expired /\ \E m \in Node : b \in held[m]
  /\ expired' = expired \cup {b}
  /\ UNCHANGED <<held, aware, channel, chasing, faults, heard,
                 published>>

Lose(l) ==
  /\ channel[l] # NoRoot /\ Fault
  /\ channel' = [channel EXCEPT ![l] = NoRoot]
  /\ UNCHANGED <<held, expired, aware, chasing, heard, published>>

(***************************************************************************)
(* A node.                                                                 *)
(***************************************************************************)
\* one chase of a root at a time; one that can bring nothing is left out
Chase(n, r) ==
  chasing' = [chasing EXCEPT ![n] = IF r \subseteq held[n] THEN @ ELSE @ \cup {r}]

\* mutant of handleRootRecord
handleRootRecordHeardAny(l) ==
  LET n == l[2]
      r == channel[l]
      own == rootRecord(n)
      taken == [channel EXCEPT ![l] = NoRoot] IN
  /\ heard' = (heard \cup {n}) \ published
  /\ channel' = taken
  /\ Chase(n, r)
  /\ UNCHANGED <<published>>

\* a match is noted, a difference is chased and answered once an interval
handleRootRecord(l) ==
  LET n == l[2]
      r == channel[l]
      own == rootRecord(n)
      taken == [channel EXCEPT ![l] = NoRoot] IN
  IF r = own
  THEN /\ heard' = (heard \cup {n}) \ published
       /\ channel' = taken
       /\ UNCHANGED <<chasing, published>>
  ELSE /\ Chase(n, r)
       /\ heard' = heard \ {n} /\ published' = published \cup {n}
       /\ channel' = IF n \in published THEN taken ELSE Sent(taken, n, own)

Hear(l) ==
  /\ channel[l] # NoRoot
  /\ handleRootRecord(l)
  /\ UNCHANGED <<held, expired, aware, faults>>

\* a chase decodes the root and admits what it brings, over or not
ChaseDelivers(n, r) ==
  /\ r \in chasing[n]
  /\ chasing' = [chasing EXCEPT ![n] = @ \ {r}]
  /\ held' = [held EXCEPT ![n] = @ \cup r]
  /\ UNCHANGED <<expired, aware, channel, faults, heard, published>>

\* no provider answered, or a block was bad
ChaseFails(n, r) ==
  /\ r \in chasing[n] /\ Fault
  /\ chasing' = [chasing EXCEPT ![n] = @ \ {r}]
  /\ UNCHANGED <<held, expired, aware, channel, heard, published>>

\* mutant of ReadHead
ReadHeadAhead(n) ==
  /\ held[n] # {} /\ Fault
  /\ aware' = [aware EXCEPT ![n] = expired]
  /\ held' = [held EXCEPT ![n] = {}]
  /\ UNCHANGED <<expired, channel, chasing, heard, published>>

\* a tally, a join, a signature or an answer to a fetch reads the head; the
\* first two prune as well, and the topic is not told
ReadHead(n) ==
  /\ held[n] # {} /\ Fault
  /\ aware' = [aware EXCEPT ![n] = expired]
  /\ \/ UNCHANGED held
     \/ held' = [held EXCEPT ![n] = @ \ expired]
  /\ UNCHANGED <<expired, channel, chasing, heard, published>>

Suppressed(n) == n \in heard \/ n \in published

\* the timer fires; a node that holds something samples the head, perhaps an
\* old sample, and prunes: only a tick that prunes nothing is suppressed
TickPrunes(n) ==
  \E bucket \in {aware[n], expired} :
    LET alive == held[n] \ bucket IN
    /\ IF held[n] = {} THEN bucket = aware[n] /\ UNCHANGED faults
       ELSE IF bucket = expired THEN UNCHANGED faults ELSE Fault
    /\ aware' = [aware EXCEPT ![n] = bucket]
    /\ held' = [held EXCEPT ![n] = alive]
    /\ IF alive = held[n] /\ Suppressed(n)
       THEN UNCHANGED channel
       ELSE channel' = Sent(channel, n, alive)

\* the sample fails and nothing is pruned; the record needs one too, and is
\* not sent unless that one is had
TickBlind(n) ==
  /\ held[n] # {} /\ Fault
  /\ UNCHANGED held
  /\ \/ UNCHANGED <<aware, channel>>
     \/ /\ ~Suppressed(n)
        /\ aware' = [aware EXCEPT ![n] = expired]
        /\ channel' = Sent(channel, n, rootRecord(n)')

Tick(n) ==
  /\ TickPrunes(n) \/ TickBlind(n)
  /\ heard' = heard \ {n}
  /\ published' = published \ {n}
  /\ UNCHANGED <<expired, chasing>>

ExchangeNext ==
  \/ \E n \in Node, b \in Bundle : Vote(n, b)
  \/ \E b \in Bundle : Expire(b)
  \/ \E l \in Link : Hear(l) \/ Lose(l)
  \/ \E n \in Node : Tick(n) \/ ReadHead(n)
  \/ \E n \in Node : \E r \in chasing[n] : ChaseDelivers(n, r) \/ ChaseFails(n, r)

ExchangeSpec == ExchangeInit /\ [][ExchangeNext]_exchangeVars

\* Timers fire, and messages and chases get through once the
\* faults are over.
FairExchangeSpec ==
  /\ ExchangeSpec
  /\ \A n \in Node : /\ WF_exchangeVars(Tick(n))
                      /\ WF_exchangeVars(\E r \in chasing[n] : ChaseDelivers(n, r))
  /\ \A l \in Link : WF_exchangeVars(Hear(l))

----------------------------------------------------------------------------
\* Whatever was lost, the nodes end up with one winner set (heartbeat,
\* suppression, answer and chase together; DESIGN.md "Checkpoints"), and what
\* is over has left them for good: a chase may bring it back from a record of
\* before, and no record tells of it again (the prune of the tick).
Converges ==
  <>[](\A n \in Node : /\ held[n] \cap expired = {}
                       /\ \A m \in Node : rootRecord(n) = rootRecord(m))

\* the traces of a bundle: who holds it, the records under way that name it,
\* and the roots being chased that contain it
HeldBy(b) == {n \in Node : b \in held[n]}
UnderWay(b) == {l \in Link : channel[l] # NoRoot /\ b \in channel[l]}
ChasedBy(b) == {c \in Node \X Root : c[2] \in chasing[c[1]] /\ b \in c[2]}

\* Once every node knows a bundle to be over, its traces move and never
\* multiply: no record names it anew, a chase of it began with a record that
\* is consumed, and a node takes it in only as a chase of it ends (rootRecord,
\* #handleRootRecord and the chase, over all nodes).
NothingOverSpreads ==
  [][\A b \in Bundle : (\A n \in Node : b \in aware[n]) =>
       /\ UnderWay(b)' \subseteq UnderWay(b)
       /\ \A c \in ChasedBy(b)' \ ChasedBy(b) :
            \E l \in UnderWay(b) \ UnderWay(b)' : l[2] = c[1]
       /\ \A n \in HeldBy(b)' \ HeldBy(b) :
            \E c \in ChasedBy(b) \ ChasedBy(b)' : c[1] = n]_exchangeVars

\* The state keeps its types, and what a record names can be had: unless it
\* is over, the sender of a record under way holds it still, and another node
\* holds what a node chases (prune drops nothing that is not over, whatever
\* was published before).
RootExchangeInv ==
  /\ ExchangeTypeOK
  /\ \A l \in Link : channel[l] # NoRoot => channel[l] \ expired \subseteq held[l[1]]
  /\ \A n \in Node : \A r \in chasing[n] : \A b \in r \ expired :
       \E m \in Node \ {n} : b \in held[m]
=============================================================================
