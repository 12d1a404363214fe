-------------------------------- MODULE Gate --------------------------------
(***************************************************************************)
(* The gate of src/rules/gate.ts: how one wallet's answers to the rules of *)
(* a tree of `all` and `any` fold into one admission decision, and how the *)
(* three callers evaluate it: the forward gate asks leaf by leaf and stops *)
(* once the outcome is determined ("lazy"), the background verifier asks   *)
(* everything ("all"), and checkEligibility (src/client/voter.ts) asks     *)
(* everything and takes a read that failed for unknown ("tolerant").       *)
(*                                                                         *)
(* A tree is the list of its nodes, each branch after its children, which  *)
(* it names by their places; the last node is the root.  Two leaves with   *)
(* one question share one answer.                                          *)
(***************************************************************************)
EXTENDS Integers, Sequences, FiniteSets, FiniteSetsExt

CONSTANTS
  Question,  \* rule references with their options
  Gates,     \* trees of leaves and of branches of kind "all" or "any"
  MaxScore   \* bound on the scores of rules

Leaf(q) == [kind |-> "leaf", question |-> q]
Branch(k, places) == [kind |-> k, children |-> places]

Node == [kind : {"leaf"}, question : Question] \cup [kind : {"all", "any"}, children : Seq(Nat)]

\* schema/criteria.ts accepts no branch without children
GateAssumption ==
  /\ MaxScore \in Nat \ {0}
  /\ \A tree \in Gates :
       /\ tree \in Seq(Node) /\ tree # <<>>
       /\ \A n \in DOMAIN tree : tree[n].kind # "leaf" =>
            /\ tree[n].children # <<>>
            /\ \A i \in DOMAIN tree[n].children : tree[n].children[i] \in 1..n - 1
ASSUME GateAssumption

(* A rule's answer: a score, or a refusal the sender may be blamed for or  *)
(* not.  A success without a score is a refusal.                           *)
Pass(n)   == [read |-> "answered", success |-> TRUE, score |-> n, penalize |-> TRUE]
Refuse(p) == [read |-> "answered", success |-> FALSE, score |-> 0, penalize |-> p]
Answer    == {Pass(n) : n \in 0..MaxScore} \cup {Refuse(TRUE), Refuse(FALSE)}
Unread    == [read |-> "none", success |-> FALSE, score |-> 0, penalize |-> FALSE]
Threw     == [read |-> "failed", success |-> FALSE, score |-> 0, penalize |-> FALSE]

VARIABLES
  rules, mode,
  got,      \* [Question -> answer, Threw or Unread]
  asked,    \* questions being evaluated
  phase,    \* "pending", "folded" or "thrown"
  decision   \* what the root was evaluated to, once folded

gateVars == <<rules, mode, got, asked, phase, decision>>

----------------------------------------------------------------------------
Evaluated(answer) == answer.read = "answered"

\* gateFailure and scoreOrZero
Admits(answer) == answer.success /\ answer.score > 0

Blamable(answer) == Evaluated(answer) /\ ~Admits(answer) /\ answer.penalize

(* A node's result, with what the callers read off it: the score, the      *)
(* leaves blamed, whether the sender is, the leaves below, those among     *)
(* them without an answer, and the question a lazy evaluation asks next.   *)
LeafResult(n, question, answer) ==
  LET verdict == IF ~Evaluated(answer) THEN "unknown" ELSE IF Admits(answer) THEN "yes" ELSE "no"
  IN [satisfied   |-> verdict,
      score       |-> IF verdict = "yes" THEN answer.score ELSE 0,
      blame       |-> IF verdict = "no" THEN {n} ELSE {},
      penalize    |-> Blamable(answer),
      leaves      |-> {n},
      unevaluated |-> IF verdict = "unknown" THEN {n} ELSE {},
      next        |-> IF answer = Unread THEN {question} ELSE {}]

DecidesAt(kind) == IF kind = "all" THEN "no" ELSE "yes"

Other(verdict) == IF verdict = "yes" THEN "no" ELSE "yes"

\* mutant of foldSatisfied
foldTwoValued(kind, results) ==
  IF \E i \in DOMAIN results : results[i].satisfied = DecidesAt(kind) THEN DecidesAt(kind)
  ELSE Other(DecidesAt(kind))

\* only a known answer may decide
foldSatisfied(kind, results) ==
  IF \E i \in DOMAIN results : results[i].satisfied = DecidesAt(kind) THEN DecidesAt(kind)
  ELSE IF \A i \in DOMAIN results : results[i].satisfied = Other(DecidesAt(kind))
  THEN Other(DecidesAt(kind)) ELSE "unknown"

\* mutant of Stops
StopsWhenKnown(kind, result) == result.satisfied # "unknown"

\* `isSatisfied(result) === decidesAt`: of an `all` also a child that is not known
Stops(kind, result) == (result.satisfied = "yes") <=> (DecidesAt(kind) = "yes")

gateScore(kind, scores) ==
  IF scores = {} THEN 0 ELSE IF kind = "all" THEN Min(scores) ELSE Max(scores)

\* the failing leaves that explain a refusal
gateBlame(verdict, blames) == IF verdict = "no" THEN UNION blames ELSE {}

\* mutant of gatePenalize
PenalizesSome(kind, failing, blamed) == blamed # {}

\* one attributable failure closes an `all`; an `any` needs all of them
gatePenalize(kind, failing, blamed) ==
  IF kind = "all" THEN blamed # {} ELSE failing # {} /\ blamed = failing

BranchResult(kind, results, lazy) ==
  LET stops    == {i \in DOMAIN results : Stops(kind, results[i])}
      reached  == IF lazy THEN {i \in DOMAIN results : \A j \in stops : i <= j} ELSE DOMAIN results
      verdict  == IF lazy /\ stops # {} THEN DecidesAt(kind) ELSE foldSatisfied(kind, results)
      passing  == {i \in reached : results[i].satisfied = "yes"}
      failing  == {i \in reached : results[i].satisfied = "no"}
      open     == {i \in DOMAIN results : results[i].next # {}}
      working  == {i \in open : \A j \in open \cup stops : i <= j}
  IN [satisfied   |-> verdict,
      score       |-> gateScore(kind, {results[i].score : i \in passing}),
      blame       |-> gateBlame(verdict, {results[i].blame : i \in failing}),
      penalize    |-> verdict = "no" /\ gatePenalize(kind, failing, {i \in failing : results[i].penalize}),
      leaves      |-> UNION {results[i].leaves : i \in DOMAIN results},
      unevaluated |-> UNION {IF i \in reached THEN results[i].unevaluated ELSE results[i].leaves :
                               i \in DOMAIN results},
      next        |-> UNION {results[i].next : i \in working}]

\* every node's result, from the answers at hand
Run(tree, known, lazy) ==
  LET result[n \in DOMAIN tree] ==
        IF tree[n].kind = "leaf" THEN LeafResult(n, tree[n].question, known[tree[n].question])
        ELSE BranchResult(tree[n].kind,
                          [i \in DOMAIN tree[n].children |-> result[tree[n].children[i]]], lazy)
  IN result

Evaluate(tree, known, lazy) == Run(tree, known, lazy)[Len(tree)]

Leaves(tree) == {n \in DOMAIN tree : tree[n].kind = "leaf"}

gateLeaves(tree) == {tree[n].question : n \in Leaves(tree)}

----------------------------------------------------------------------------
GateInit ==
  /\ rules \in Gates
  /\ mode \in {"lazy", "all", "tolerant"}
  /\ got = [q \in Question |-> Unread]
  /\ asked = {} /\ phase = "pending" /\ decision = [satisfied |-> "unknown"]

\* evaluate: lazily the next leaf, otherwise every distinct question at once
Ask ==
  /\ phase = "pending" /\ asked = {}
  /\ asked' = IF mode = "lazy" THEN Evaluate(rules, got, TRUE).next
              ELSE {q \in gateLeaves(rules) : got[q] = Unread}
  /\ asked' # {}
  /\ UNCHANGED <<rules, mode, got, phase, decision>>

Answered(q) ==
  /\ q \in asked /\ phase = "pending"
  /\ asked' = asked \ {q}
  /\ \E answer \in Answer : got' = [got EXCEPT ![q] = answer]
  /\ UNCHANGED <<rules, mode, phase, decision>>

\* the read failed: the whole fold throws, unless failures are tolerated
ReadThrows(q) ==
  /\ q \in asked /\ phase = "pending"
  /\ asked' = asked \ {q}
  /\ got' = [got EXCEPT ![q] = Threw]
  /\ phase' = IF mode = "tolerant" THEN phase ELSE "thrown"
  /\ UNCHANGED <<rules, mode, decision>>

\* checkGates gives the error of a read the verdict would have needed
Fold ==
  /\ phase = "pending" /\ asked = {}
  /\ IF mode = "lazy" THEN Evaluate(rules, got, TRUE).next = {}
     ELSE \A q \in gateLeaves(rules) : got[q] # Unread
  /\ decision' = Evaluate(rules, got, mode = "lazy")
  /\ phase' = IF decision'.satisfied = "unknown" THEN "thrown" ELSE "folded"
  /\ UNCHANGED <<rules, mode, got, asked>>

GateNext == Ask \/ Fold \/ \E q \in Question : Answered(q) \/ ReadThrows(q)

GateSpec == GateInit /\ [][GateNext]_gateVars

----------------------------------------------------------------------------
Folded == phase = "folded"

GateTypeOK ==
  /\ rules \in Gates /\ mode \in {"lazy", "all", "tolerant"}
  /\ got \in [Question -> Answer \cup {Unread, Threw}]
  /\ asked \subseteq {q \in gateLeaves(rules) : got[q] = Unread}
  /\ phase \in {"pending", "folded", "thrown"}
  /\ decision.satisfied \in {"yes", "no", "unknown"}

\* every way the leaves that gave no answer could have answered
Completions ==
  {full \in [gateLeaves(rules) -> Answer] :
     \A q \in gateLeaves(rules) : Evaluated(got[q]) => full[q] = got[q]}

\* Stopping early never changes the verdict, whatever the leaves it did not
\* ask would have answered, and blames nobody the full evaluation would not
\* (evaluateGate, collectAll off).
LazyIsFull ==
  Folded /\ mode = "lazy" =>
    \A full \in Completions :
      LET result == Evaluate(rules, full, FALSE) IN
      /\ result.satisfied = decision.satisfied
      /\ decision.penalize => result.penalize

\* A read that failed decides nothing: a verdict is given exactly when every
\* answer the read could have given leads to it, and otherwise the caller
\* gets the error of a read that failed (foldSatisfied, checkGates).
OutagesDecideNothing ==
  LET verdicts == {Evaluate(rules, full, FALSE).satisfied : full \in Completions}
  IN /\ Folded => verdicts = {decision.satisfied}
     /\ phase = "thrown" => \E q \in gateLeaves(rules) : got[q] = Threw
     /\ phase = "thrown" /\ mode = "tolerant" => Cardinality(verdicts) > 1

\* A refusal is blamed on the sender only if every verifier for which the
\* attributable failures among the blamed leaves hold refuses too, whatever
\* its other leaves answer (gatePenalize).
BlamedRefusalsAreCertain ==
  Folded /\ decision.penalize =>
    \A other \in [gateLeaves(rules) -> Answer] :
      (\A n \in decision.blame :
         Blamable(got[rules[n].question]) => ~Admits(other[rules[n].question]))
      => Evaluate(rules, other, FALSE).satisfied = "no"

\* What a refused wallet is told is enough: were the leaves it names to
\* pass, and those reported without an answer, it would be admitted, with a
\* score (gateBlame, gateScore).
BlameIsEnough ==
  Folded /\ decision.satisfied = "no" =>
    LET cured == {rules[n].question : n \in decision.blame \cup decision.unevaluated}
        result == Evaluate(rules, [q \in gateLeaves(rules) |-> IF q \in cured THEN Pass(1) ELSE got[q]],
                           FALSE)
    IN result.satisfied = "yes" /\ result.score > 0

\* The state keeps its types, and blame is certain and sufficient.
GateInv == GateTypeOK /\ BlamedRefusalsAreCertain /\ BlameIsEnough
=============================================================================
