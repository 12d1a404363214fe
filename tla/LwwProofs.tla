----------------------------- MODULE LwwProofs -----------------------------
(***************************************************************************)
(* Facts about the last-write-wins reduction, for every set of bundles and *)
(* every criteria: what a prune removes is never missed.                   *)
(***************************************************************************)
EXTENDS Lww, FiniteSetTheorems, TLAPS

----------------------------------------------------------------------------
(* The last-write-wins order.                                              *)

(* Comparing by block, then by CID, never ranks a bundle above itself.     *)
LEMMA BeatsIrreflexive == \A a \in Bundle : ~ Beats(a, a)
BY BundleAssumption DEF Beats

(* ... and ranks transitively.                                             *)
LEMMA BeatsTransitive ==
  ASSUME NEW a \in Bundle, NEW b \in Bundle, NEW c \in Bundle,
         Beats(a, b), Beats(b, c)
  PROVE  Beats(a, c)
BY BundleAssumption DEF Beats

(* Bucketing keeps the order of blocks.                                    *)
LEMMA BucketMonotone ==
  ASSUME NEW m \in Nat, NEW n \in Nat, m <= n
  PROVE  /\ bucketForBlock(m) \in Nat
         /\ bucketForBlock(n) \in Nat
         /\ bucketForBlock(m) <= bucketForBlock(n)
BY CriteriaAssumption, Z3 DEF bucketForBlock

(* A bundle decays no later than every bundle that beats it.               *)
LEMMA BeatenExpiresFirst ==
  ASSUME NEW a \in Bundle, NEW b \in Bundle, NEW k \in Nat,
         Beats(a, b), isExpired(a, k)
  PROVE  isExpired(b, k)
<1>1. blockNumber[a] \in Nat /\ blockNumber[b] \in Nat /\ blockNumber[b] <= blockNumber[a]
  BY BundleAssumption DEF Beats
<1>2. /\ bucketForBlock(blockNumber[a]) \in Nat
      /\ bucketForBlock(blockNumber[b]) \in Nat
      /\ bucketForBlock(blockNumber[b]) <= bucketForBlock(blockNumber[a])
  BY <1>1, BucketMonotone
<1>3. QED
  BY <1>2, CriteriaAssumption DEF isExpired

(* The newer bundles of b's wallet in S.                                   *)
Above(S, b) == {c \in S : SameWallet(c, b) /\ Beats(c, b)}

(***************************************************************************)
(* Every superseded bundle is superseded by its wallet's winner.  Finite   *)
(* sets of newer bundles cannot shrink for ever: a minimal one is empty.   *)
(***************************************************************************)
LEMMA WinnerAbove ==
  ASSUME NEW S \in SUBSET Bundle, NEW b \in S, b \notin winnersByWallet(S)
  PROVE  \E w \in winnersByWallet(S) : SameWallet(w, b) /\ Beats(w, b)
<1> DEFINE T == {Above(S, c) : c \in Above(S, b)}
<1>1. \A c : Above(S, c) \in FiniteSubsetsOf(S)
  BY BundleAssumption, FS_Subset DEF Above, FiniteSubsetsOf
<1>2. T \subseteq FiniteSubsetsOf(S)
  BY <1>1
<1>3. T # {}
  BY DEF winnersByWallet, Above, SameWallet
<1>4. IsWellFoundedOn(StrictSubsetOrdering(S), FiniteSubsetsOf(S))
  BY FS_StrictSubsetOrderingWellFounded
<1>5. PICK M \in T : \A U \in T : ~ (<<U, M>> \in StrictSubsetOrdering(S))
  <2> HIDE DEF T
  <2> QED BY <1>2, <1>3, <1>4, WFMin
<1>6. PICK w \in Above(S, b) : M = Above(S, w)
  BY <1>5
<1>7. Above(S, w) = {}
  <2>1. SUFFICES ASSUME NEW c \in Above(S, w) PROVE FALSE
    OBVIOUS
  <2>2. c \in Above(S, b)
    BY <1>6, <2>1, BeatsTransitive DEF Above, SameWallet
  <2>3. Above(S, c) \subseteq Above(S, w)
    BY <1>6, <2>1, BeatsTransitive DEF Above, SameWallet
  <2>4. c \notin Above(S, c)
    BY <2>1, BeatsIrreflexive DEF Above
  <2>5. <<Above(S, c), M>> \in StrictSubsetOrdering(S)
    BY <1>6, <2>1, <2>3, <2>4 DEF StrictSubsetOrdering, Above
  <2>6. Above(S, c) \in T
    BY <2>2
  <2>7. QED
    BY <1>5, <2>5, <2>6
<1>8. w \in winnersByWallet(S)
  BY <1>6, <1>7 DEF winnersByWallet, Above
<1>9. QED
  BY <1>6, <1>8 DEF Above

(* What a prune removes is expired, or beaten by a settled bundle it keeps.*)
LEMMA PrunedIsCovered ==
  ASSUME NEW S \in SUBSET Bundle, NEW P, NEW k \in Nat,
         NEW b \in Prunable(S, k, P)
  PROVE  \/ isExpired(b, k)
         \/ \E c \in (S \ Prunable(S, k, P)) \ P : SameWallet(c, b) /\ Beats(c, b)
<1>1. SUFFICES ASSUME ~ isExpired(b, k)
               PROVE  \E c \in (S \ Prunable(S, k, P)) \ P : SameWallet(c, b) /\ Beats(c, b)
  OBVIOUS
<1>2. b \in S /\ b \notin winnersByWallet(S)
  BY <1>1 DEF Prunable
<1>3. PICK w \in winnersByWallet(S) : SameWallet(w, b) /\ Beats(w, b)
  BY <1>2, WinnerAbove
<1>4. w \notin P
  BY <1>1, <1>2, <1>3 DEF Prunable, ShieldedByProvisionalWinner
<1>5. w \in S /\ ~ isExpired(w, k)
  BY <1>1, <1>2, <1>3, BeatenExpiresFirst DEF winnersByWallet
<1>6. w \notin Prunable(S, k, P)
  BY <1>3, <1>5 DEF Prunable
<1>7. QED
  BY <1>3, <1>4, <1>5, <1>6

(* Time only decays bundles.                                               *)
LEMMA ExpiredStays ==
  ASSUME NEW b \in Bundle, NEW k \in Nat, isExpired(b, k)
  PROVE  isExpired(b, k + 1)
<1>1. bucketForBlock(blockNumber[b]) \in Nat
  BY BundleAssumption, BucketMonotone
<1>2. QED
  BY <1>1, CriteriaAssumption DEF isExpired

(***************************************************************************)
(* Restricting to a set E that covers what was lost from L leaves the      *)
(* reduction as it is.                                                     *)
(***************************************************************************)
LEMMA CoveredReduction ==
  ASSUME NEW L \in SUBSET Bundle, NEW E \in SUBSET L, NEW k \in Nat,
         \A b \in L \ E : \/ isExpired(b, k)
                          \/ \E c \in E : SameWallet(c, b) /\ Beats(c, b)
  PROVE  currentEntries(E, k) = currentEntries(L, k)
<1>1. ASSUME NEW b \in currentEntries(E, k)
      PROVE  b \in currentEntries(L, k)
  <2>1. b \in E /\ ~ isExpired(b, k)
    BY DEF currentEntries, winnersByWallet
  <2>2. ASSUME NEW c \in L, SameWallet(c, b), Beats(c, b)
        PROVE  FALSE
    <3>1. c \notin E
      BY <2>2 DEF currentEntries, winnersByWallet
    <3>2. ~ isExpired(c, k)
      BY <2>1, <2>2, BeatenExpiresFirst
    <3>3. PICK d \in E : SameWallet(d, c) /\ Beats(d, c)
      BY <3>1, <3>2
    <3>4. SameWallet(d, b) /\ Beats(d, b)
      BY <2>1, <2>2, <3>3, BeatsTransitive DEF SameWallet
    <3>5. QED
      BY <3>4 DEF currentEntries, winnersByWallet
  <2>3. QED
    BY <2>1, <2>2 DEF currentEntries, winnersByWallet
<1>2. ASSUME NEW b \in currentEntries(L, k)
      PROVE  b \in currentEntries(E, k)
  BY DEF currentEntries, winnersByWallet
<1>3. QED
  BY <1>1, <1>2
=============================================================================
