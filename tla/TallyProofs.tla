----------------------------- MODULE TallyProofs -----------------------------
(***************************************************************************)
(* From the set of bundles to the tally a view shows, for every set of     *)
(* bundles, every criteria and any number of views.  The invariants: a     *)
(* bundle pruned away is covered, in the set of VoteCrdt and in the Map of *)
(* the code alike (IsCover); what the computes of the refresh loop hold is *)
(* the tally of what is there, or will be computed once more (TallyInv);   *)
(* the Map has no bundle twice (OneOfEach), so that the rows and the       *)
(* record are those of a set of votes.                                     *)
(***************************************************************************)
EXTENDS Tally, LwwProofs

----------------------------------------------------------------------------
(* Folds over a sequence.  FoldLeft chooses a function on the sets of      *)
(* indices; that one exists is by a least counterexample.                  *)

(* A nonempty set of numbers has a least one.                              *)
LEMMA LeastNatural ==
  ASSUME NEW T \in SUBSET Nat, T # {}
  PROVE  \E n \in T : \A m \in T : n <= m
<1>1. IsWellFoundedOn(OpToRel(<, Nat), Nat)
  BY NatLessThanWellFounded
<1>2. PICK n \in T : \A m \in T : ~ (<<m, n>> \in OpToRel(<, Nat))
  BY <1>1, WFMin
<1>3. ASSUME NEW m \in T, m < n
      PROVE  <<m, n>> \in OpToRel(<, Nat)
  BY <1>3 DEF OpToRel
<1>4. \A m \in T : ~ (m < n)
  BY <1>2, <1>3
<1>5. QED
  BY <1>4

\* g folds f over each set of indices, from base
IsFold(g, A, base, n, f) ==
  /\ g \in [SUBSET (1..n) -> A]
  /\ \A s \in SUBSET (1..n) : g[s] = IF s = {} THEN base ELSE f[Max(s)][g[s \ {Max(s)}]]

(***************************************************************************)
(* FoldLeft takes the sets of indices by their greatest element.  A        *)
(* function that does so exists: one on the sets below n extends to those  *)
(* below n + 1.                                                            *)
(***************************************************************************)
LEMMA FoldExists ==
  ASSUME NEW A, NEW base \in A, NEW N \in Nat, NEW f \in [1..N -> [A -> A]]
  PROVE  \E g : IsFold(g, A, base, N, f)
<1> DEFINE G(n, g) == IsFold(g, A, base, n, f)
           T == {n \in 0..N : ~ \E g : G(n, g)}
<1>1. SUFFICES ASSUME T # {} PROVE FALSE
  <2>1. ASSUME T = {} PROVE \E g : G(N, g)
    <3> HIDE DEF G
    <3>1. N \in 0..N
      OBVIOUS
    <3>2. QED
      BY <2>1, <3>1
  <2>2. QED
    BY <2>1
<1>2. PICK n \in T : \A m \in T : n <= m
  <2>1. T \in SUBSET Nat
    OBVIOUS
  <2>2. QED
    <3> HIDE DEF T
    <3> QED BY <1>1, <2>1, LeastNatural
<1>3. n \in 0..N /\ ~ \E g : G(n, g)
  <2> HIDE DEF G
  <2> QED BY <1>2
<1>4. n # 0
  <2>1. SUFFICES ASSUME n = 0 PROVE FALSE
    OBVIOUS
  <2>2. 1..0 = {}
    OBVIOUS
  <2>3. G(0, [s \in SUBSET (1..0) |-> base])
    BY <2>2 DEF IsFold
  <2>4. QED
    <3> HIDE DEF G
    <3> QED BY <1>3, <2>1, <2>3
<1>5. PICK g : G(n - 1, g)
  <2>1. n - 1 \in 0..N /\ ~ (n <= n - 1)
    BY <1>3, <1>4
  <2>2. n - 1 \notin T
    <3> HIDE DEF T
    <3> QED BY <1>2, <2>1
  <2>3. QED
    <3> HIDE DEF G
    <3> QED BY <2>1, <2>2
<1> DEFINE h == [s \in SUBSET (1..n) |-> IF n \in s THEN f[n][g[s \ {n}]] ELSE g[s]]
<1>6. \A s \in SUBSET (1..n) : n \notin s => s \in SUBSET (1..n - 1)
  BY <1>3
<1>7. ASSUME NEW s \in SUBSET (1..n), n \in s
      PROVE  Max(s) = n
  <2>1. n \in Int /\ \A y \in s : y \in Int /\ n >= y
    BY <1>3, <1>7
  <2>2. \A x \in s : (\A y \in s : x >= y) => x = n
    BY <1>7, <2>1
  <2>3. QED
    BY <1>7, <2>1, <2>2, Zenon DEF Max
<1>8. f[n] \in [A -> A]
  BY <1>3, <1>4
<1>9. h \in [SUBSET (1..n) -> A]
  BY <1>5, <1>6, <1>8 DEF IsFold
<1>10. ASSUME NEW s \in SUBSET (1..n)
       PROVE  h[s] = IF s = {} THEN base ELSE f[Max(s)][h[s \ {Max(s)}]]
  <2>1. CASE n \in s
    <3>1. s \ {n} \in SUBSET (1..n) /\ n \notin s \ {n}
      OBVIOUS
    <3>2. h[s \ {n}] = g[s \ {n}]
      BY <3>1
    <3>3. h[s] = f[n][g[s \ {n}]]
      BY <2>1
    <3>4. QED
      BY <1>7, <2>1, <3>2, <3>3
  <2>2. CASE n \notin s
    <3>1. /\ s \in SUBSET (1..n - 1)
          /\ s \ {Max(s)} \in SUBSET (1..n) /\ n \notin s \ {Max(s)}
      BY <1>6, <2>2
    <3>2. h[s] = g[s] /\ h[s \ {Max(s)}] = g[s \ {Max(s)}]
      BY <2>2, <3>1
    <3>3. QED
      BY <1>5, <3>1, <3>2 DEF IsFold
  <2>3. QED
    BY <2>1, <2>2
<1>11. G(n, h)
  <2> HIDE DEF h
  <2> QED BY <1>9, <1>10 DEF IsFold
<1>12. QED
  <2> HIDE DEF G
  <2> QED BY <1>3, <1>11

(* The greatest of 1..m is m.                                              *)
LEMMA MaxOfInterval ==
  ASSUME NEW m \in Nat \ {0}
  PROVE  1..m # {} /\ Max(1..m) = m /\ (1..m) \ {m} = 1..m - 1
<1>1. m \in 1..m /\ \A y \in 1..m : m >= y
  OBVIOUS
<1>2. \A x \in 1..m : (\A y \in 1..m : x >= y) => x = m
  OBVIOUS
<1>3. Max(1..m) = m
  BY <1>1, <1>2, Zenon DEF Max
<1>4. QED
  BY <1>3

(* Every other nonempty set of indices has a greatest element, too.        *)
LEMMA MaxOfIndices ==
  ASSUME NEW N \in Nat, NEW s \in SUBSET (1..N), s # {}
  PROVE  Max(s) \in s
<1> DEFINE T == {n \in Nat : \A y \in s : y <= n}
<1>1. N \in T
  OBVIOUS
<1>2. PICK n \in T : \A m \in T : n <= m
  <2>1. T \in SUBSET Nat /\ T # {}
    BY <1>1
  <2>2. QED
    <3> HIDE DEF T
    <3> QED BY <2>1, LeastNatural
<1>3. ASSUME n \notin s PROVE FALSE
  <2>1. n - 1 \in T
    <3>1. \A y \in s : y \in Int /\ 1 <= y /\ y <= n /\ y # n
      BY <1>3
    <3>2. PICK y \in s : TRUE
      OBVIOUS
    <3>3. n - 1 \in Nat /\ \A z \in s : z <= n - 1
      BY <3>1, <3>2
    <3>4. QED
      BY <3>3
  <2>2. QED
    BY <1>2, <2>1
<1>4. n \in s /\ \A y \in s : n >= y
  BY <1>3
<1>5. QED
  BY <1>4, Zenon DEF Max

\* it folds f over the sets of indices, as far as it stays in A
FoldsWithin(it, A, base, n, f) ==
  /\ it[{}] = base
  /\ \A s \in SUBSET (1..n) :
       s # {} /\ it[s \ {Max(s)}] \in A => it[s] = f[Max(s)][it[s \ {Max(s)}]]

\* run is the fold of f over 1..n, step by step
IsRun(run, A, base, n, f) ==
  /\ run \in [0..n -> A] /\ run[0] = base
  /\ \A i \in 1..n : run[i] = f[i][run[i - 1]]

(* A fold over sets of indices takes one index after the other.            *)
LEMMA FoldRuns ==
  ASSUME NEW A, NEW base \in A, NEW N \in Nat, NEW f \in [1..N -> [A -> A]],
         NEW it, FoldsWithin(it, A, base, N, f)
  PROVE  \E run : IsRun(run, A, base, N, f) /\ run[N] = it[1..N]
<1> DEFINE run == [i \in 0..N |-> it[1..i]]
<1>1. run[0] = base
  <2>1. 1..0 = {} /\ 0 \in 0..N
    OBVIOUS
  <2>2. QED
    BY <2>1 DEF FoldsWithin
<1>2. \A i \in 1..N : i \in 0..N /\ i - 1 \in 0..N /\ run[i] = it[1..i] /\ run[i - 1] = it[1..i - 1]
  OBVIOUS
<1>3. ASSUME NEW i \in 1..N, it[1..i - 1] \in A
      PROVE  it[1..i] = f[i][it[1..i - 1]]
  <2>1. i \in Nat \ {0} /\ 1..i \in SUBSET (1..N)
    OBVIOUS
  <2>2. 1..i # {} /\ Max(1..i) = i /\ (1..i) \ {i} = 1..i - 1
    BY <2>1, MaxOfInterval
  <2>3. QED
    BY <1>3, <2>1, <2>2 DEF FoldsWithin
<1>4. run \in [0..N -> A]
  <2> DEFINE T == {i \in 0..N : run[i] \notin A}
  <2> HIDE DEF run
  <2>1. SUFFICES ASSUME T # {} PROVE FALSE
    BY DEF run
  <2>2. PICK i \in T : \A j \in T : i <= j
    <3>1. T \in SUBSET Nat
      OBVIOUS
    <3>2. QED
      <4> HIDE DEF T
      <4> QED BY <2>1, <3>1, LeastNatural
  <2>3. i \in 1..N /\ i - 1 \in 0..N /\ i - 1 \notin T
    BY <1>1, <2>2
  <2>4. it[1..i - 1] \in A /\ f[i] \in [A -> A]
    BY <1>2, <2>3
  <2>5. run[i] \in A
    BY <1>2, <1>3, <2>3, <2>4
  <2>6. QED
    BY <2>2, <2>5
<1>5. \A i \in 1..N : run[i] = f[i][run[i - 1]]
  <2> HIDE DEF run
  <2> QED BY <1>2, <1>3, <1>4
<1>6. run[N] = it[1..N]
  OBVIOUS
<1>7. QED
  <2> HIDE DEF run
  <2> QED BY <1>1, <1>4, <1>5, <1>6 DEF IsRun

(* keepOnly takes the entries one after the other.                         *)
LEMMA KeepUnfolds ==
  ASSUME NEW E, NEW order \in Seq(E), NEW keep
  PROVE  \E kept \in [0..Len(order) -> Seq(E)] :
           /\ kept[0] = <<>>
           /\ \A i \in 1..Len(order) :
                kept[i] = IF order[i] \in keep THEN Append(kept[i - 1], order[i]) ELSE kept[i - 1]
           /\ keepOnly(order, keep) = kept[Len(order)]
<1> DEFINE N == Len(order)
           f == [i \in 1..N |-> [a \in Seq(E) |-> IF order[i] \in keep THEN Append(a, order[i]) ELSE a]]
           G(g) == g = [s \in SUBSET (DOMAIN order) |->
                     IF s = {} THEN <<>>
                     ELSE (IF order[Max(s)] \in keep
                           THEN Append(g[s \ {Max(s)}], order[Max(s)])
                           ELSE g[s \ {Max(s)}])]
           iter == CHOOSE g : G(g)
<1>1. keepOnly(order, keep) = iter[DOMAIN order]
  BY Zenon DEF keepOnly, FoldLeft, MapThenFoldSet
<1>2. N \in Nat /\ DOMAIN order = 1..N /\ \A i \in 1..N : order[i] \in E
  OBVIOUS
<1>3. f \in [1..N -> [Seq(E) -> Seq(E)]]
  <2>1. ASSUME NEW i \in 1..N, NEW a \in Seq(E)
        PROVE  (IF order[i] \in keep THEN Append(a, order[i]) ELSE a) \in Seq(E)
    BY <1>2
  <2>2. QED
    BY <2>1
<1>4. <<>> \in Seq(E)
  OBVIOUS
<1>5. PICK g : IsFold(g, Seq(E), <<>>, N, f)
  <2> DEFINE A == Seq(E)
             base == <<>>
  <2>1. N \in Nat /\ base \in A /\ f \in [1..N -> [A -> A]]
    BY <1>2, <1>3, <1>4
  <2>2. \E g : IsFold(g, A, base, N, f)
    <3> HIDE DEF f, N, A, base
    <3> QED BY <2>1, FoldExists
  <2>3. QED
    BY <2>2
<1>6. G(g)
  <2>1. ASSUME NEW s \in SUBSET (1..N), s # {}
        PROVE  g[s] = IF order[Max(s)] \in keep
                      THEN Append(g[s \ {Max(s)}], order[Max(s)])
                      ELSE g[s \ {Max(s)}]
    <3>1. Max(s) \in 1..N
      BY <1>2, <2>1, MaxOfIndices
    <3>2. g[s \ {Max(s)}] \in Seq(E)
      BY <1>5 DEF IsFold
    <3>3. QED
      BY <1>5, <2>1, <3>1, <3>2 DEF IsFold
  <2>2. \A s \in SUBSET (1..N) : g[s] =
          IF s = {} THEN <<>>
          ELSE (IF order[Max(s)] \in keep
                THEN Append(g[s \ {Max(s)}], order[Max(s)])
                ELSE g[s \ {Max(s)}])
    BY <1>5, <2>1 DEF IsFold
  <2>3. QED
    BY <1>2, <1>5, <2>2 DEF IsFold
<1>7. G(iter)
  <2> HIDE DEF G
  <2> QED BY <1>6
<1>8. \A s \in SUBSET (1..N) : iter[s] =
        IF s = {} THEN <<>>
        ELSE (IF order[Max(s)] \in keep
              THEN Append(iter[s \ {Max(s)}], order[Max(s)])
              ELSE iter[s \ {Max(s)}])
  <2> HIDE DEF iter
  <2> QED BY <1>2, <1>7
<1> HIDE DEF iter
<1> DEFINE base == <<>>
<1>9. FoldsWithin(iter, Seq(E), base, N, f)
  <2>1. iter[{}] = base
    BY <1>8
  <2>2. ASSUME NEW s \in SUBSET (1..N), s # {}, iter[s \ {Max(s)}] \in Seq(E)
        PROVE  iter[s] = f[Max(s)][iter[s \ {Max(s)}]]
    <3>1. Max(s) \in 1..N
      BY <1>2, <2>2, MaxOfIndices
    <3>2. QED
      BY <1>8, <2>2, <3>1
  <2>3. QED
    <3> HIDE DEF f, base
    <3> QED BY <2>1, <2>2 DEF FoldsWithin
<1>10. PICK kept : IsRun(kept, Seq(E), base, N, f) /\ kept[N] = iter[1..N]
  <2> DEFINE A == Seq(E)
  <2>1. N \in Nat /\ base \in A /\ f \in [1..N -> [A -> A]] /\ FoldsWithin(iter, A, base, N, f)
    BY <1>2, <1>3, <1>4, <1>9
  <2>2. \E kept : IsRun(kept, A, base, N, f) /\ kept[N] = iter[1..N]
    <3> HIDE DEF f, N, A, base
    <3> QED BY <2>1, FoldRuns
  <2>3. QED
    BY <2>2
<1>11. ASSUME NEW i \in 1..N
       PROVE  kept[i] = IF order[i] \in keep THEN Append(kept[i - 1], order[i]) ELSE kept[i - 1]
  <2>1. i - 1 \in 0..N
    BY <1>2
  <2>2. kept[i - 1] \in Seq(E)
    BY <1>10, <2>1 DEF IsRun
  <2>3. QED
    BY <1>10, <2>2 DEF IsRun
<1>12. QED
  BY <1>1, <1>2, <1>10, <1>11 DEF IsRun

\* what winnersByWallet can have filled: a winner for some of the wallets
WinnerMaps == UNION {[D -> Bundle] : D \in SUBSET Wallet}

(* One entry more: its wallet has a winner, the others keep theirs.        *)
LEMMA TakeEntryFacts ==
  ASSUME NEW winners \in WinnerMaps, NEW b \in Bundle
  PROVE  /\ TakeEntry(winners, b) \in WinnerMaps
         /\ DOMAIN TakeEntry(winners, b) = DOMAIN winners \cup {address[b]}
         /\ \A a \in DOMAIN winners \ {address[b]} : TakeEntry(winners, b)[a] = winners[a]
         /\ TakeEntry(winners, b)[address[b]] =
              IF address[b] \in DOMAIN winners THEN lwwResolve(winners[address[b]], b) ELSE b
<1>1. PICK D \in SUBSET Wallet : winners \in [D -> Bundle]
  BY DEF WinnerMaps
<1>2. DOMAIN winners = D /\ address[b] \in Wallet
  BY <1>1, BundleAssumption
<1> DEFINE w == IF address[b] \in D THEN lwwResolve(winners[address[b]], b) ELSE b
<1>3. w \in Bundle
  BY <1>1 DEF lwwResolve
<1>4. TakeEntry(winners, b) = [a \in D \cup {address[b]} |-> IF a # address[b] THEN winners[a] ELSE w]
  BY <1>2 DEF TakeEntry
<1>5. D \cup {address[b]} \in SUBSET Wallet
  BY <1>2
<1>6. TakeEntry(winners, b) \in [D \cup {address[b]} -> Bundle]
  <2> HIDE DEF w
  <2> QED BY <1>1, <1>3, <1>4
<1>7. TakeEntry(winners, b) \in WinnerMaps
  BY <1>5, <1>6 DEF WinnerMaps
<1>8. QED
  BY <1>2, <1>4, <1>7

(* foldWinners takes the entries one after the other.                      *)
LEMMA WinnersUnfold ==
  ASSUME NEW order \in Seq(Bundle)
  PROVE  \E won \in [0..Len(order) -> WinnerMaps] :
           /\ won[0] = <<>>
           /\ \A i \in 1..Len(order) : won[i] = TakeEntry(won[i - 1], order[i])
           /\ foldWinners(order) = won[Len(order)]
<1> DEFINE N == Len(order)
           f == [i \in 1..N |-> [a \in WinnerMaps |-> TakeEntry(a, order[i])]]
           G(g) == g = [s \in SUBSET (DOMAIN order) |->
                     IF s = {} THEN <<>> ELSE TakeEntry(g[s \ {Max(s)}], order[Max(s)])]
           iter == CHOOSE g : G(g)
<1>1. foldWinners(order) = iter[DOMAIN order]
  BY Zenon DEF foldWinners, FoldLeft, MapThenFoldSet
<1>2. N \in Nat /\ DOMAIN order = 1..N /\ \A i \in 1..N : order[i] \in Bundle
  OBVIOUS
<1>3. f \in [1..N -> [WinnerMaps -> WinnerMaps]]
  BY <1>2, TakeEntryFacts
<1>4. <<>> \in WinnerMaps
  <2>1. <<>> \in [{} -> Bundle]
    OBVIOUS
  <2>2. QED
    BY <2>1 DEF WinnerMaps
<1>5. PICK g : IsFold(g, WinnerMaps, <<>>, N, f)
  <2> DEFINE base == <<>>
  <2>1. N \in Nat /\ base \in WinnerMaps /\ f \in [1..N -> [WinnerMaps -> WinnerMaps]]
    BY <1>2, <1>3, <1>4
  <2>2. \E g : IsFold(g, WinnerMaps, base, N, f)
    <3> HIDE DEF f, N, base
    <3> QED BY <2>1, FoldExists
  <2>3. QED
    BY <2>2
<1>6. G(g)
  <2>1. ASSUME NEW s \in SUBSET (1..N), s # {}
        PROVE  g[s] = TakeEntry(g[s \ {Max(s)}], order[Max(s)])
    <3>1. Max(s) \in 1..N
      BY <1>2, <2>1, MaxOfIndices
    <3>2. g[s \ {Max(s)}] \in WinnerMaps
      BY <1>5 DEF IsFold
    <3>3. QED
      BY <1>5, <2>1, <3>1, <3>2 DEF IsFold
  <2>2. \A s \in SUBSET (1..N) : g[s] =
          IF s = {} THEN <<>> ELSE TakeEntry(g[s \ {Max(s)}], order[Max(s)])
    BY <1>5, <2>1 DEF IsFold
  <2>3. QED
    BY <1>2, <1>5, <2>2 DEF IsFold
<1>7. G(iter)
  <2> HIDE DEF G
  <2> QED BY <1>6
<1>8. \A s \in SUBSET (1..N) : iter[s] =
        IF s = {} THEN <<>> ELSE TakeEntry(iter[s \ {Max(s)}], order[Max(s)])
  <2> HIDE DEF iter
  <2> QED BY <1>2, <1>7
<1> HIDE DEF iter
<1> DEFINE base == <<>>
<1>9. FoldsWithin(iter, WinnerMaps, base, N, f)
  <2>1. iter[{}] = base
    BY <1>8
  <2>2. ASSUME NEW s \in SUBSET (1..N), s # {}, iter[s \ {Max(s)}] \in WinnerMaps
        PROVE  iter[s] = f[Max(s)][iter[s \ {Max(s)}]]
    <3>1. Max(s) \in 1..N
      BY <1>2, <2>2, MaxOfIndices
    <3>2. QED
      BY <1>8, <2>2, <3>1
  <2>3. QED
    <3> HIDE DEF f, base
    <3> QED BY <2>1, <2>2 DEF FoldsWithin
<1>10. PICK won : IsRun(won, WinnerMaps, base, N, f) /\ won[N] = iter[1..N]
  <2> DEFINE A == WinnerMaps
  <2>1. N \in Nat /\ base \in A /\ f \in [1..N -> [A -> A]] /\ FoldsWithin(iter, A, base, N, f)
    BY <1>2, <1>3, <1>4, <1>9
  <2>2. \E won : IsRun(won, A, base, N, f) /\ won[N] = iter[1..N]
    <3> HIDE DEF f, N, A, base
    <3> QED BY <2>1, FoldRuns
  <2>3. QED
    BY <2>2
<1>11. ASSUME NEW i \in 1..N
       PROVE  won[i] = TakeEntry(won[i - 1], order[i])
  <2>1. i - 1 \in 0..N
    BY <1>2
  <2>2. won[i - 1] \in WinnerMaps
    BY <1>10, <2>1 DEF IsRun
  <2>3. QED
    BY <1>10, <2>2 DEF IsRun
<1>12. QED
  BY <1>1, <1>2, <1>10, <1>11 DEF IsRun

(* The fold agrees with the set reduction: each wallet of the order has    *)
(* the winner of its bundles.                                              *)
LEMMA FoldedWinners ==
  ASSUME NEW order \in Seq(Bundle), NEW b \in ToSet(order)
  PROVE  /\ foldWinners(order)[address[b]] \in winnersByWallet(ToSet(order))
         /\ SameWallet(foldWinners(order)[address[b]], b)
         /\ b \in winnersByWallet(ToSet(order)) => b = foldWinners(order)[address[b]]
<1> DEFINE N == Len(order)
           first(i) == {order[j] : j \in 1..i}
<1>1. N \in Nat /\ DOMAIN order = 1..N /\ \A i \in 1..N : order[i] \in Bundle
  OBVIOUS
<1>2. PICK won \in [0..N -> WinnerMaps] :
        /\ won[0] = <<>>
        /\ \A i \in 1..N : won[i] = TakeEntry(won[i - 1], order[i])
        /\ foldWinners(order) = won[N]
  BY WinnersUnfold
<1> DEFINE Right(i) ==
             /\ \A c \in first(i) : address[c] \in DOMAIN won[i]
             /\ \A a \in DOMAIN won[i] :
                  /\ won[i][a] \in first(i) /\ address[won[i][a]] = a
                  /\ \A c \in first(i) : address[c] = a => ~ Beats(c, won[i][a])
<1>3. Right(0)
  <2>1. first(0) = {} /\ DOMAIN won[0] = {}
    BY <1>2
  <2>2. QED
    BY <2>1
<1>4. ASSUME NEW i \in 1..N, Right(i - 1)
      PROVE  Right(i)
  <2> DEFINE b0 == order[i]
             before == won[i - 1]
             after == won[i]
  <2>1. i - 1 \in 0..N /\ before \in WinnerMaps /\ b0 \in Bundle /\ after = TakeEntry(before, b0)
    BY <1>1, <1>2
  <2>2. first(i) = first(i - 1) \cup {b0}
    BY <1>1
  <2>3. first(i - 1) \subseteq Bundle
    BY <1>1
  <2> HIDE DEF first, b0, before, after
  <2>4. /\ DOMAIN after = DOMAIN before \cup {address[b0]}
        /\ \A a \in DOMAIN before \ {address[b0]} : after[a] = before[a]
        /\ after[address[b0]] = IF address[b0] \in DOMAIN before
                                THEN lwwResolve(before[address[b0]], b0) ELSE b0
    <3>1. \A v \in WinnerMaps, c \in Bundle :
            /\ DOMAIN TakeEntry(v, c) = DOMAIN v \cup {address[c]}
            /\ \A a \in DOMAIN v \ {address[c]} : TakeEntry(v, c)[a] = v[a]
            /\ TakeEntry(v, c)[address[c]] =
                 IF address[c] \in DOMAIN v THEN lwwResolve(v[address[c]], c) ELSE c
      BY TakeEntryFacts
    <3>2. /\ DOMAIN TakeEntry(before, b0) = DOMAIN before \cup {address[b0]}
          /\ \A a \in DOMAIN before \ {address[b0]} : TakeEntry(before, b0)[a] = before[a]
          /\ TakeEntry(before, b0)[address[b0]] =
               IF address[b0] \in DOMAIN before THEN lwwResolve(before[address[b0]], b0) ELSE b0
      BY <2>1, <3>1, Zenon
    <3>3. after = TakeEntry(before, b0)
      BY <2>1
    <3>4. QED
      BY ONLY <3>2, <3>3
  <2>5. /\ \A c \in first(i - 1) : address[c] \in DOMAIN before
        /\ \A a \in DOMAIN before :
             /\ before[a] \in first(i - 1) /\ address[before[a]] = a
             /\ \A c \in first(i - 1) : address[c] = a => ~ Beats(c, before[a])
    BY <1>4 DEF before
  <2>6. \A c \in first(i) : address[c] \in DOMAIN after
    BY <2>2, <2>4, <2>5
  <2>7. ASSUME NEW a \in DOMAIN after
        PROVE  /\ after[a] \in first(i) /\ address[after[a]] = a
               /\ \A c \in first(i) : address[c] = a => ~ Beats(c, after[a])
    <3>1. CASE a # address[b0]
      BY <2>2, <2>4, <2>5, <2>7, <3>1
    <3>2. CASE a = address[b0] /\ a \notin DOMAIN before
      <4>1. after[a] = b0
        BY <2>4, <3>2
      <4>2. \A c \in first(i) : address[c] = a => c = b0
        BY <2>2, <2>5, <3>2
      <4>3. QED
        BY <2>1, <2>2, <3>2, <4>1, <4>2, BeatsIrreflexive
    <3>3. CASE a = address[b0] /\ a \in DOMAIN before
      <4>1. after[a] = lwwResolve(before[a], b0) /\ before[a] \in Bundle
        BY <2>3, <2>4, <2>5, <3>3
      <4>2. CASE Beats(b0, before[a])
        <5>1. after[a] = b0
          BY <4>1, <4>2 DEF lwwResolve
        <5>2. ASSUME NEW c \in first(i), address[c] = a, Beats(c, b0)
              PROVE  FALSE
          <6>1. c \in first(i - 1) /\ c \in Bundle
            BY <2>1, <2>2, <2>3, <5>2, BeatsIrreflexive
          <6>2. Beats(c, before[a])
            BY <2>1, <4>1, <4>2, <5>2, <6>1, BeatsTransitive
          <6>3. QED
            BY <2>5, <3>3, <5>2, <6>1, <6>2
        <5>3. QED
          BY <2>2, <3>3, <5>1, <5>2
      <4>3. CASE ~ Beats(b0, before[a])
        <5>1. after[a] = before[a]
          BY <4>1, <4>3 DEF lwwResolve
        <5>2. QED
          BY <2>2, <2>5, <3>3, <4>3, <5>1
      <4>4. QED
        BY <4>2, <4>3
    <3>4. QED
      BY <3>1, <3>2, <3>3
  <2>8. QED
    BY <2>6, <2>7 DEF after
<1>5. Right(N)
  <2> DEFINE T == {i \in 0..N : ~ Right(i)}
  <2>1. SUFFICES ASSUME T # {} PROVE FALSE
    <3>1. N \in 0..N
      BY <1>1
    <3>2. QED
      <4> HIDE DEF Right
      <4> QED BY <3>1
  <2>2. PICK i \in T : \A j \in T : i <= j
    <3>1. T \in SUBSET Nat
      BY <1>1
    <3>2. QED
      <4> HIDE DEF T
      <4> QED BY <2>1, <3>1, LeastNatural
  <2> HIDE DEF Right
  <2>3. i # 0
    BY <1>3, <2>2
  <2>4. i \in 1..N /\ i - 1 \in 0..N /\ i - 1 \notin T
    BY <1>1, <2>2, <2>3
  <2>5. QED
    BY <1>4, <2>2, <2>4
<1>6. first(N) = ToSet(order)
  BY <1>1 DEF ToSet
<1> DEFINE w == won[N][address[b]]
<1>7. /\ w \in ToSet(order) /\ address[w] = address[b]
      /\ \A c \in ToSet(order) : address[c] = address[b] => ~ Beats(c, w)
  <2> HIDE DEF first
  <2> QED BY <1>5, <1>6
<1>8. ToSet(order) \subseteq Bundle
  BY <1>1 DEF ToSet
<1>9. w \in winnersByWallet(ToSet(order)) /\ SameWallet(w, b)
  BY <1>7 DEF winnersByWallet, SameWallet
<1>10. ASSUME b \in winnersByWallet(ToSet(order)) PROVE b = w
  <2>1. ~ Beats(w, b) /\ ~ Beats(b, w)
    BY <1>7, <1>10 DEF winnersByWallet, SameWallet
  <2>2. b \in Bundle /\ w \in Bundle
    BY <1>7, <1>8
  <2>3. QED
    BY <2>1, <2>2, BundleAssumption DEF Beats
<1>11. QED
  BY <1>2, <1>9, <1>10

(* An entry more.                                                          *)
LEMMA AppendedSet ==
  ASSUME NEW E, NEW s \in Seq(E), NEW e \in E
  PROVE  Append(s, e) \in Seq(E) /\ ToSet(Append(s, e)) = ToSet(s) \cup {e}
<1> DEFINE t == Append(s, e)
<1>1. /\ t \in Seq(E) /\ Len(t) = Len(s) + 1
      /\ \A j \in 1..Len(s) : t[j] = s[j]
      /\ t[Len(s) + 1] = e
  OBVIOUS
<1> HIDE DEF t
<1>2. DOMAIN s = 1..Len(s) /\ DOMAIN t = 1..Len(s) + 1 /\ Len(s) \in Nat
  BY <1>1
<1>3. ToSet(s) = {s[j] : j \in 1..Len(s)} /\ ToSet(t) = {t[j] : j \in 1..Len(s) + 1}
  BY <1>2 DEF ToSet
<1>4. 1..Len(s) + 1 = 1..Len(s) \cup {Len(s) + 1}
  BY <1>2
<1>5. {t[j] : j \in 1..Len(s) \cup {Len(s) + 1}} = {s[j] : j \in 1..Len(s)} \cup {e}
  BY <1>1
<1>6. QED
  BY <1>1, <1>3, <1>4, <1>5 DEF t

(* keepOnly keeps the entries that are in the set, and no others.          *)
LEMMA KeepOnlyFacts ==
  ASSUME NEW E, NEW order \in Seq(E), NEW keep
  PROVE  /\ keepOnly(order, keep) \in Seq(E)
         /\ ToSet(keepOnly(order, keep)) = ToSet(order) \cap keep
<1> DEFINE N == Len(order)
           first(i) == {order[j] : j \in 1..i}
<1>1. N \in Nat /\ DOMAIN order = 1..N /\ \A i \in 1..N : order[i] \in E
  OBVIOUS
<1>2. PICK kept \in [0..N -> Seq(E)] :
        /\ kept[0] = <<>>
        /\ \A i \in 1..N :
             kept[i] = IF order[i] \in keep THEN Append(kept[i - 1], order[i]) ELSE kept[i - 1]
        /\ keepOnly(order, keep) = kept[N]
  BY KeepUnfolds, SMTT(30)
<1> DEFINE Right(i) == ToSet(kept[i]) = first(i) \cap keep
<1>3. Right(0)
  BY <1>2 DEF ToSet
<1>4. ASSUME NEW i \in 1..N, Right(i - 1)
      PROVE  Right(i)
  <2>1. i - 1 \in 0..N /\ kept[i - 1] \in Seq(E) /\ order[i] \in E
    <3>1. i - 1 \in 0..N /\ order[i] \in E
      BY <1>1
    <3>2. QED
      BY <1>2, <3>1
  <2>2. first(i) = first(i - 1) \cup {order[i]}
    BY <1>1
  <2>3. ToSet(Append(kept[i - 1], order[i])) = ToSet(kept[i - 1]) \cup {order[i]}
    BY <2>1, AppendedSet
  <2> HIDE DEF first
  <2>4. kept[i] = IF order[i] \in keep THEN Append(kept[i - 1], order[i]) ELSE kept[i - 1]
    BY <1>2
  <2>5. CASE order[i] \in keep
    <3>1. kept[i] = Append(kept[i - 1], order[i])
      BY <2>4, <2>5
    <3>2. ToSet(kept[i]) = (first(i - 1) \cap keep) \cup {order[i]}
      BY <1>4, <2>3, <3>1
    <3>3. QED
      BY <2>2, <2>5, <3>2
  <2>6. CASE order[i] \notin keep
    <3>1. kept[i] = kept[i - 1]
      BY <2>4, <2>6
    <3>2. QED
      BY <1>4, <2>2, <2>6, <3>1
  <2>7. QED
    BY <2>5, <2>6
<1>5. Right(N)
  <2> DEFINE T == {i \in 0..N : ~ Right(i)}
  <2>1. SUFFICES ASSUME T # {} PROVE FALSE
    <3>1. N \in 0..N
      BY <1>1
    <3>2. QED
      <4> HIDE DEF Right
      <4> QED BY <3>1
  <2>2. PICK i \in T : \A j \in T : i <= j
    <3>1. T \in SUBSET Nat
      BY <1>1
    <3>2. QED
      <4> HIDE DEF T
      <4> QED BY <2>1, <3>1, LeastNatural
  <2> HIDE DEF Right
  <2>3. i # 0
    BY <1>3, <2>2
  <2>4. i \in 1..N /\ i - 1 \in 0..N /\ i - 1 \notin T
    BY <1>1, <2>2, <2>3
  <2>5. QED
    BY <1>4, <2>2, <2>4
<1>6. first(N) = ToSet(order)
  BY <1>1 DEF ToSet
<1>7. kept[N] \in Seq(E)
  BY <1>1, <1>2
<1>8. QED
  <2> HIDE DEF first
  <2> QED BY <1>2, <1>5, <1>6, <1>7

(* What is kept of two entries was kept in their order: a relation of the  *)
(* earlier to the later ones that are kept holds of the result, too.       *)
LEMMA KeepOnlyPairs ==
  ASSUME NEW E, NEW order \in Seq(E), NEW keep
  PROVE  \A R :
           (\A i, j \in DOMAIN order :
              i < j /\ order[i] \in keep /\ order[j] \in keep => <<order[i], order[j]>> \in R)
           => \A p, q \in DOMAIN keepOnly(order, keep) :
                p < q => <<keepOnly(order, keep)[p], keepOnly(order, keep)[q]>> \in R
<1> DEFINE N == Len(order)
<1>1. N \in Nat /\ DOMAIN order = 1..N /\ \A i \in 1..N : order[i] \in E
  OBVIOUS
<1>2. PICK kept \in [0..N -> Seq(E)] :
        /\ kept[0] = <<>>
        /\ \A i \in 1..N :
             kept[i] = IF order[i] \in keep THEN Append(kept[i - 1], order[i]) ELSE kept[i - 1]
        /\ keepOnly(order, keep) = kept[N]
  BY KeepUnfolds, SMTT(30)
<1> SUFFICES ASSUME NEW R,
                    \A i, j \in DOMAIN order :
                      i < j /\ order[i] \in keep /\ order[j] \in keep => <<order[i], order[j]>> \in R
             PROVE  \A p, q \in DOMAIN keepOnly(order, keep) :
                      p < q => <<keepOnly(order, keep)[p], keepOnly(order, keep)[q]>> \in R
  OBVIOUS
<1> DEFINE Right(i) ==
             /\ \A p \in DOMAIN kept[i] : \E m \in 1..i : kept[i][p] = order[m] /\ order[m] \in keep
             /\ \A p, q \in DOMAIN kept[i] : p < q => <<kept[i][p], kept[i][q]>> \in R
           T == {i \in 0..N : ~ Right(i)}
<1>3. Right(0)
  <2>1. kept[0] = <<>>
    BY <1>2, Zenon
  <2>2. DOMAIN kept[0] = {}
    BY <2>1
  <2>3. QED
    BY <2>2
<1>4. ASSUME NEW i \in 1..N, Right(i - 1)
      PROVE  Right(i)
  <2>1. i \in DOMAIN order /\ i - 1 \in 0..N /\ kept[i - 1] \in Seq(E)
    <3>1. i \in DOMAIN order /\ i - 1 \in 0..N
      BY <1>1
    <3>2. QED
      BY <3>1
  <2>2. kept[i] = IF order[i] \in keep THEN Append(kept[i - 1], order[i]) ELSE kept[i - 1]
    BY <1>2, Zenon
  <2>3. CASE order[i] \notin keep
    <3>1. kept[i] = kept[i - 1]
      BY <2>2, <2>3
    <3>2. \A m \in 1..(i - 1) : m \in 1..i
      BY <1>1
    <3>3. QED
      BY <1>4, <3>1, <3>2
  <2>4. CASE order[i] \in keep
    <3> DEFINE s == kept[i - 1]
               t == kept[i]
    <3>1. t = Append(s, order[i])
      BY <2>2, <2>4
    <3>2. /\ Len(s) \in Nat /\ DOMAIN s = 1..Len(s) /\ DOMAIN t = 1..Len(s) + 1
          /\ \A p \in 1..Len(s) : t[p] = s[p]
          /\ t[Len(s) + 1] = order[i]
      BY <2>1, <3>1
    <3>3. /\ \A p \in 1..Len(s) : \E m \in 1..(i - 1) : s[p] = order[m] /\ order[m] \in keep
          /\ \A p, q \in 1..Len(s) : p < q => <<s[p], s[q]>> \in R
      BY <1>4, <3>2
    <3>4. \A m \in 1..(i - 1) : m \in 1..i /\ m \in DOMAIN order /\ m < i
      BY <1>1
    <3> HIDE DEF s, t
    <3>5. \A p \in DOMAIN t : p \in 1..Len(s) \/ p = Len(s) + 1
      BY <3>2
    <3>6. \A p \in DOMAIN t : \E m \in 1..i : t[p] = order[m] /\ order[m] \in keep
      BY <1>1, <2>4, <3>2, <3>3, <3>4, <3>5
    <3>7. ASSUME NEW p \in DOMAIN t, NEW q \in DOMAIN t, p < q
          PROVE  <<t[p], t[q]>> \in R
      <4>1. p \in 1..Len(s)
        BY <3>2, <3>7
      <4>2. CASE q \in 1..Len(s)
        BY <3>2, <3>3, <3>7, <4>1, <4>2
      <4>3. CASE q = Len(s) + 1
        BY <2>1, <2>4, <3>2, <3>3, <3>4, <4>1, <4>3
      <4>4. QED
        BY <3>5, <4>2, <4>3
    <3>8. QED
      BY <3>6, <3>7 DEF t
  <2>5. QED
    BY <2>3, <2>4
<1>5. T = {}
  <2> SUFFICES ASSUME T # {} PROVE FALSE
    OBVIOUS
  <2>1. T \in SUBSET Nat
    BY <1>1
  <2>2. PICK i \in T : \A j \in T : i <= j
    <3> HIDE DEF T
    <3> QED BY <2>1, LeastNatural
  <2> HIDE DEF Right
  <2>3. i \in 0..N /\ i # 0
    BY <1>3, <2>2
  <2>4. i \in 1..N /\ i - 1 \in 0..N /\ ~ (i <= i - 1)
    BY <1>1, <2>3
  <2>5. Right(i - 1)
    BY <2>2, <2>4
  <2>6. QED
    BY <1>4, <2>2, <2>4, <2>5
<1>6. Right(N)
  <2> HIDE DEF Right
  <2>1. N \in 0..N
    BY <1>1
  <2>2. QED
    BY <1>5, <2>1
<1>7. QED
  BY <1>2, <1>6

----------------------------------------------------------------------------
(* Coverage.                                                               *)

\* what is held out of L covers what is missing, at bucket k; P is provisional
Covers(E, P, L, k) ==
  \A b \in L \ E : \/ isExpired(b, k)
                   \/ \E c \in E \ P : SameWallet(c, b) /\ Beats(c, b)

IsCover(E, P, L, k) ==
  /\ L \in SUBSET Bundle /\ E \in SUBSET L /\ P \in SUBSET E /\ k \in 0..MaxBucket
  /\ Covers(E, P, L, k)

\* what is lost of the missing when a settled bundle's verdict is taken back
Lost(b, E, P, L) == IF b \in E \ P THEN Beneath(b, L \ E) ELSE {}

(* A bundle that is integrated is live and held.  What it covered is lost  *)
(* when it was settled and becomes provisional.                            *)
LEMMA CoverIntegrates ==
  ASSUME NEW E, NEW P, NEW L, NEW k, IsCover(E, P, L, k),
         NEW b \in Bundle, NEW settled \in BOOLEAN
  PROVE  IsCover(E \cup {b}, IF settled THEN P \ {b} ELSE P \cup {b},
                 (IF settled THEN L ELSE L \ Lost(b, E, P, L)) \cup {b}, k)
<1>1. CASE settled
  BY <1>1 DEF IsCover, Covers
<1>2. CASE ~ settled
  <2> DEFINE gone == Lost(b, E, P, L)
  <2>1. gone \subseteq L \ E
    BY DEF Lost, Beneath
  <2>2. ASSUME NEW x \in L \ E, x \notin gone, ~ isExpired(x, k)
        PROVE  \E c \in (E \cup {b}) \ (P \cup {b}) : SameWallet(c, x) /\ Beats(c, x)
    <3>1. PICK c \in E \ P : SameWallet(c, x) /\ Beats(c, x)
      BY <2>2 DEF IsCover, Covers
    <3>2. c # b
      BY <2>2, <3>1 DEF Lost, Beneath
    <3>3. QED
      BY <3>1, <3>2
  <2> HIDE DEF gone
  <2>3. IsCover(E \cup {b}, P \cup {b}, (L \ gone) \cup {b}, k)
    BY <2>1, <2>2 DEF IsCover, Covers
  <2>4. QED
    BY <1>2, <2>3 DEF gone
<1>3. QED
  BY <1>1, <1>2

(* A bundle that settles may cover others, and needs no cover itself.      *)
LEMMA CoverSettles ==
  ASSUME NEW E, NEW P, NEW L, NEW k, IsCover(E, P, L, k), NEW b \in P
  PROVE  IsCover(E, P \ {b}, L, k)
BY DEF IsCover, Covers

(* An eviction is final, and what a settled bundle covered is lost with it. *)
LEMMA CoverRemoves ==
  ASSUME NEW E, NEW P, NEW L, NEW k, IsCover(E, P, L, k), NEW b \in E
  PROVE  IsCover(E \ {b}, P \ {b}, L \ ({b} \cup Lost(b, E, P, L)), k)
<1> DEFINE gone == Lost(b, E, P, L)
<1>1. gone \subseteq L \ E
  BY DEF Lost, Beneath
<1>2. ASSUME NEW x \in L \ E, x \notin gone, ~ isExpired(x, k)
      PROVE  \E c \in (E \ {b}) \ (P \ {b}) : SameWallet(c, x) /\ Beats(c, x)
  <2>1. PICK c \in E \ P : SameWallet(c, x) /\ Beats(c, x)
    BY <1>2 DEF IsCover, Covers
  <2>2. c # b
    BY <1>2, <2>1 DEF Lost, Beneath
  <2>3. QED
    BY <2>1, <2>2
<1> HIDE DEF gone
<1>3. IsCover(E \ {b}, P \ {b}, L \ ({b} \cup gone), k)
  BY <1>1, <1>2 DEF IsCover, Covers
<1>4. QED
  BY <1>3 DEF gone

(* A prune may take away a cover, but then it keeps a winner above it.     *)
LEMMA CoverPrunes ==
  ASSUME NEW E, NEW P, NEW L, NEW k, IsCover(E, P, L, k)
  PROVE  IsCover(E \ Prunable(E, k, P), P \ Prunable(E, k, P), L, k)
<1> DEFINE R == Prunable(E, k, P)
<1>1. /\ L \in SUBSET Bundle /\ E \in SUBSET L /\ P \in SUBSET E /\ k \in 0..MaxBucket
      /\ k \in Nat /\ E \in SUBSET Bundle
  BY CriteriaAssumption DEF IsCover
<1>2. R \subseteq E
  BY DEF Prunable
<1>3. ASSUME NEW b \in R
      PROVE  \/ isExpired(b, k)
             \/ \E c \in (E \ R) \ P : SameWallet(c, b) /\ Beats(c, b)
  BY <1>1, PrunedIsCovered
<1> HIDE DEF R
<1>4. ASSUME NEW b \in L, b \notin E \ R
      PROVE  \/ isExpired(b, k)
             \/ \E c \in (E \ R) \ (P \ R) : SameWallet(c, b) /\ Beats(c, b)
  <2>1. CASE b \in E
    BY <1>3, <1>4, <2>1
  <2>2. CASE b \notin E
    <3>1. SUFFICES ASSUME NEW c \in E \ P, SameWallet(c, b), Beats(c, b)
                   PROVE  \/ isExpired(b, k)
                          \/ \E d \in (E \ R) \ (P \ R) : SameWallet(d, b) /\ Beats(d, b)
      BY <2>2 DEF IsCover, Covers
    <3>2. CASE c \notin R
      BY <3>1, <3>2
    <3>3. CASE isExpired(c, k)
      BY <1>1, <3>1, <3>3, BeatenExpiresFirst
    <3>4. ASSUME NEW d \in (E \ R) \ P, SameWallet(d, c), Beats(d, c)
          PROVE  \E e \in (E \ R) \ (P \ R) : SameWallet(e, b) /\ Beats(e, b)
      <4>1. SameWallet(d, b) /\ Beats(d, b)
        BY <1>1, <3>1, <3>4, BeatsTransitive DEF SameWallet
      <4>2. QED
        BY <3>4, <4>1
    <3>5. QED
      BY <1>3, <3>2, <3>3, <3>4
  <2>3. QED
    BY <2>1, <2>2
<1>5. QED
  BY <1>1, <1>2, <1>4 DEF IsCover, Covers, R

(* The bucket only grows, and an expired bundle stays expired.             *)
LEMMA CoverAdvances ==
  ASSUME NEW E, NEW P, NEW L, NEW k, IsCover(E, P, L, k), k < MaxBucket
  PROVE  IsCover(E, P, L, k + 1)
<1>1. k \in Nat /\ L \in SUBSET Bundle /\ k + 1 \in 0..MaxBucket
  BY CriteriaAssumption DEF IsCover
<1>2. \A b \in L : isExpired(b, k) => isExpired(b, k + 1)
  BY <1>1, ExpiredStays
<1>3. QED
  BY <1>1, <1>2 DEF IsCover, Covers

(* A covered set shows what the whole one shows, with or without the       *)
(* provisional bundles.                                                    *)
LEMMA CoverShowsAll ==
  ASSUME NEW E, NEW P, NEW L, NEW k, IsCover(E, P, L, k)
  PROVE  /\ currentEntries(E, k) = currentEntries(L, k)
         /\ currentEntries(E \ P, k) = currentEntries(L \ P, k)
<1>1. k \in Nat /\ L \in SUBSET Bundle /\ E \in SUBSET L /\ P \in SUBSET E
  BY CriteriaAssumption DEF IsCover
<1>2. /\ \A b \in L \ E : isExpired(b, k) \/ \E c \in E : SameWallet(c, b) /\ Beats(c, b)
      /\ \A b \in (L \ P) \ (E \ P) :
           isExpired(b, k) \/ \E c \in E \ P : SameWallet(c, b) /\ Beats(c, b)
  BY <1>1 DEF IsCover, Covers
<1>3. currentEntries(E, k) = currentEntries(L, k)
  BY <1>1, <1>2, CoveredReduction
<1>4. L \ P \in SUBSET Bundle /\ E \ P \in SUBSET (L \ P)
  BY <1>1
<1>5. currentEntries(E \ P, k) = currentEntries(L \ P, k)
  BY <1>1, <1>2, <1>4, CoveredReduction
<1>6. QED
  BY <1>3, <1>5

----------------------------------------------------------------------------
(* The abstract set.                                                       *)
VARIABLE bundles

Set == INSTANCE VoteCrdt

(* The operators of the set are those the lemmas are about.                *)
LEMMA SetReduces ==
  ASSUME NEW S, NEW P, NEW k
  PROVE  /\ Set!currentEntries(S, k) = currentEntries(S, k)
         /\ Set!Prunable(S, k, P) = Prunable(S, k, P)
         /\ \A b : Set!lostWith(b) = Lost(b, bundles, provisional, live)
BY DEF Set!lostWith, Set!Beneath, Lost, Beneath, Set!currentEntries, Set!Prunable, Set!winnersByWallet, Set!ShieldedByProvisionalWinner,
       Set!Beats, Set!SameWallet, Set!isExpired, Set!bucketForBlock,
       currentEntries, Prunable, winnersByWallet, ShieldedByProvisionalWinner,
       Beats, SameWallet, isExpired, bucketForBlock

SetInv == IsCover(bundles, provisional, live, bucket)

(* An empty set has nothing to cover.                                      *)
LEMMA SetInvInit == Set!Init => SetInv
BY CriteriaAssumption DEF Set!Init, SetInv, IsCover, Covers

(* Every operation of the set keeps the coverage.                          *)
LEMMA SetInvStep == SetInv /\ [Set!Next]_(Set!vars) => SetInv'
<1> SUFFICES ASSUME SetInv, [Set!Next]_(Set!vars) PROVE SetInv'
  OBVIOUS
<1>1. ASSUME NEW b \in Bundle, NEW settled \in BOOLEAN, Set!Integrate(b, settled)
      PROVE  SetInv'
  BY <1>1, CoverIntegrates, SetReduces DEF SetInv, Set!Integrate
<1>2. ASSUME NEW b \in Bundle, Set!Settle(b)
      PROVE  SetInv'
  BY <1>2, CoverSettles DEF SetInv, Set!Settle
<1>3. ASSUME NEW b \in Bundle, Set!Remove(b)
      PROVE  SetInv'
  BY <1>3, CoverRemoves, SetReduces DEF SetInv, Set!Remove
<1>4. CASE Set!Prune
  BY <1>4, CoverPrunes, SetReduces DEF SetInv, Set!Prune
<1>5. CASE Set!AdvanceBucket
  BY <1>5, CoverAdvances DEF SetInv, Set!AdvanceBucket
<1>6. CASE UNCHANGED Set!vars
  BY <1>6 DEF Set!vars, SetInv
<1>7. QED
  BY <1>1, <1>2, <1>3, <1>4, <1>5, <1>6 DEF Set!Next

(* The variables keep their types, and only held bundles are provisional.  *)
THEOREM TypeCorrect == Set!Spec => []Set!TypeOK
<1>1. SetInv => Set!TypeOK
  BY DEF SetInv, IsCover, Set!TypeOK
<1>2. QED
  BY <1>1, SetInvInit, SetInvStep, PTL DEF Set!Spec

(* The tally of a node that prunes is the tally of a node that does not.   *)
THEOREM TallySound == Set!Spec => []Set!TallyIgnoresPruning
<1>1. SetInv => Set!TallyIgnoresPruning
  <2>1. SetInv => /\ currentEntries(bundles, bucket) = currentEntries(live, bucket)
                  /\ currentEntries(bundles \ provisional, bucket)
                       = currentEntries(live \ provisional, bucket)
    BY CoverShowsAll DEF SetInv
  <2>2. QED
    BY <2>1, SetReduces DEF Set!TallyIgnoresPruning
<1>2. QED
  BY <1>1, SetInvInit, SetInvStep, PTL DEF Set!Spec

(* So is the checkpoint, which reads the settled bundles only.             *)
THEOREM CheckpointSound == Set!Spec => []Set!CheckpointIgnoresPruning
<1>1. SetInv => Set!CheckpointIgnoresPruning
  <2>1. SetInv => currentEntries(bundles \ provisional, bucket)
                    = currentEntries(live \ provisional, bucket)
    BY CoverShowsAll DEF SetInv
  <2>2. QED
    BY <2>1, SetReduces DEF Set!CheckpointIgnoresPruning
<1>2. QED
  BY <1>1, SetInvInit, SetInvStep, PTL DEF Set!Spec

----------------------------------------------------------------------------
(* The Map.                                                                *)

(* So are those of the set that the Map stands for.                        *)
LEMMA MapReduces ==
  ASSUME NEW S, NEW P, NEW k
  PROVE  /\ Crdt!currentEntries(S, k) = currentEntries(S, k)
         /\ Crdt!Prunable(S, k, P) = Prunable(S, k, P)
         /\ \A b : Crdt!lostWith(b) = lostWith(b) /\ lostWith(b) = Lost(b, held, provisional, live)
BY DEF Crdt!lostWith, Crdt!Beneath, lostWith, Lost, Beneath, Crdt!currentEntries, Crdt!Prunable, Crdt!winnersByWallet, Crdt!ShieldedByProvisionalWinner,
       Crdt!Beats, Crdt!SameWallet, Crdt!isExpired, Crdt!bucketForBlock,
       currentEntries, Prunable, winnersByWallet, ShieldedByProvisionalWinner,
       Beats, SameWallet, isExpired, bucketForBlock

MapInv == entries \in Seq(Bundle) /\ IsCover(held, provisional, live, bucket)

(* Entry by entry, with the winners folded upfront, prune keeps what the   *)
(* set reduction says it must.                                             *)
LEMMA KeptIsNotPrunable ==
  ASSUME MapInv, NEW b \in held
  PROVE  KeptByPrune(b, foldWinners(entries)) <=> b \notin Prunable(held, bucket, provisional)
<1> DEFINE w == foldWinners(entries)[address[b]]
<1>1. entries \in Seq(Bundle) /\ b \in ToSet(entries)
  BY DEF MapInv, held
<1>2. /\ w \in winnersByWallet(held) /\ SameWallet(w, b)
      /\ b \in winnersByWallet(held) => b = w
  BY <1>1, FoldedWinners DEF held
<1>3. ASSUME NEW v \in winnersByWallet(held), SameWallet(v, b)
      PROVE  v = w
  <2>1. v \in ToSet(entries)
    BY DEF winnersByWallet, held
  <2>2. v = foldWinners(entries)[address[v]]
    BY <1>1, <2>1, FoldedWinners DEF held
  <2>3. QED
    BY <1>3, <2>2 DEF SameWallet
<1> HIDE DEF w
<1>4. KeptByPrune(b, foldWinners(entries)) <=>
        \/ b = w /\ ~ isExpired(b, bucket)
        \/ b # w /\ ~ isExpired(b, bucket) /\ w \in provisional
  BY DEF KeptByPrune, w
<1>5. ShieldedByProvisionalWinner(b, held, bucket, provisional) <=>
        b # w /\ ~ isExpired(b, bucket) /\ w \in provisional
  BY <1>2, <1>3 DEF ShieldedByProvisionalWinner
<1>6. QED
  BY <1>2, <1>4, <1>5 DEF Prunable

(* A prune of the Map leaves what a prune of the set leaves.               *)
LEMMA PrunedMap ==
  ASSUME MapInv, PruneMap
  PROVE  /\ entries' \in Seq(Bundle)
         /\ held' = held \ Prunable(held, bucket, provisional)
         /\ provisional' = provisional \ Prunable(held, bucket, provisional)
         /\ UNCHANGED <<live, bucket>>
<1> DEFINE kept == {b \in held : KeptByPrune(b, foldWinners(entries))}
           R == Prunable(held, bucket, provisional)
<1>1. /\ entries' = keepOnly(entries, kept)
      /\ provisional' = provisional \cap kept
      /\ UNCHANGED <<live, bucket>>
  BY DEF PruneMap
<1>2. kept = held \ R
  BY KeptIsNotPrunable
<1>3. entries \in Seq(Bundle) /\ provisional \subseteq held
  BY DEF MapInv, IsCover
<1> HIDE DEF kept, R
<1>4. entries' \in Seq(Bundle) /\ ToSet(entries') = ToSet(entries) \cap kept
  BY <1>1, <1>3, KeepOnlyFacts
<1>5. QED
  BY <1>1, <1>2, <1>3, <1>4 DEF held, R

(* A new entry is the last of the Map, and an old one keeps its place.     *)
LEMMA InsertedMap ==
  ASSUME entries \in Seq(Bundle), NEW b \in Bundle,
         entries' = IF b \in held THEN entries ELSE Append(entries, b)
  PROVE  entries' \in Seq(Bundle) /\ held' = held \cup {b}
<1>1. CASE b \in held
  BY <1>1 DEF held
<1>2. CASE b \notin held
  BY <1>2, AppendedSet DEF held
<1>3. QED
  BY <1>1, <1>2

(* Each operation of the Map is the one of the set.                        *)
LEMMA MapSteps ==
  ASSUME MapInv, [Next]_mapVars
  PROVE  entries' \in Seq(Bundle) /\ [Crdt!Next]_(Crdt!vars)
<1>1. ASSUME NEW b \in Bundle, NEW settled \in BOOLEAN, Insert(b, settled)
      PROVE  entries' \in Seq(Bundle) /\ Crdt!Integrate(b, settled)
  BY <1>1, InsertedMap, MapReduces DEF MapInv, Insert, Crdt!Integrate
<1>2. ASSUME NEW b \in Bundle, Settle(b)
      PROVE  entries' \in Seq(Bundle) /\ Crdt!Settle(b)
  BY <1>2 DEF MapInv, Settle, Crdt!Settle, held
<1>3. ASSUME NEW b \in Bundle, Delete(b)
      PROVE  entries' \in Seq(Bundle) /\ Crdt!Remove(b)
  <2>1. entries' \in Seq(Bundle) /\ ToSet(entries') = ToSet(entries) \cap (held \ {b})
    BY <1>3, KeepOnlyFacts DEF MapInv, Delete
  <2>2. held' = held \ {b}
    BY <2>1 DEF held
  <2>3. QED
    BY <1>3, <2>1, <2>2, MapReduces DEF Delete, Crdt!Remove
<1>4. ASSUME PruneMap
      PROVE  entries' \in Seq(Bundle) /\ Crdt!Prune
  BY <1>4, PrunedMap, MapReduces DEF Crdt!Prune
<1>5. ASSUME AdvanceBucket
      PROVE  entries' \in Seq(Bundle) /\ Crdt!AdvanceBucket
  BY <1>5 DEF MapInv, AdvanceBucket, Crdt!AdvanceBucket, held
<1>6. CASE UNCHANGED mapVars
  BY <1>6 DEF MapInv, mapVars, Crdt!vars, held
<1>7. QED
  <2>1. CASE Next
    BY <1>1, <1>2, <1>3, <1>4, <1>5, <2>1 DEF Next, Crdt!Next
  <2>2. QED
    BY <1>6, <2>1

(* An empty Map has nothing to cover.                                      *)
LEMMA MapInvInit == Init => MapInv
<1>1. ASSUME Init PROVE held = {}
  BY <1>1 DEF Init, held, ToSet
<1>2. QED
  BY <1>1, CriteriaAssumption DEF Init, MapInv, IsCover, Covers

(* Every operation of the Map keeps its entries bundles, and the coverage. *)
LEMMA MapInvStep == MapInv /\ [Next]_mapVars => MapInv'
<1> SUFFICES ASSUME MapInv, [Next]_mapVars PROVE MapInv'
  OBVIOUS
<1>1. entries' \in Seq(Bundle) /\ [Crdt!Next]_(Crdt!vars)
  BY MapSteps
<1>2. IsCover(held, provisional, live, bucket)
  BY DEF MapInv
<1> SUFFICES IsCover(held', provisional', live', bucket')
  BY <1>1 DEF MapInv
<1>3. ASSUME NEW b \in Bundle, NEW settled \in BOOLEAN, Crdt!Integrate(b, settled)
      PROVE  IsCover(held', provisional', live', bucket')
  BY <1>2, <1>3, CoverIntegrates, MapReduces DEF Crdt!Integrate
<1>4. ASSUME NEW b \in Bundle, Crdt!Settle(b)
      PROVE  IsCover(held', provisional', live', bucket')
  BY <1>2, <1>4, CoverSettles DEF Crdt!Settle
<1>5. ASSUME NEW b \in Bundle, Crdt!Remove(b)
      PROVE  IsCover(held', provisional', live', bucket')
  BY <1>2, <1>5, CoverRemoves, MapReduces DEF Crdt!Remove
<1>6. CASE Crdt!Prune
  BY <1>2, <1>6, CoverPrunes, MapReduces DEF Crdt!Prune
<1>7. CASE Crdt!AdvanceBucket
  BY <1>2, <1>7, CoverAdvances DEF Crdt!AdvanceBucket
<1>8. CASE UNCHANGED Crdt!vars
  BY <1>2, <1>8 DEF Crdt!vars
<1>9. QED
  BY <1>1, <1>3, <1>4, <1>5, <1>6, <1>7, <1>8 DEF Crdt!Next

(* What keeps the tally changes the Map by its own operations only.        *)
LEMMA TallyStepsMap == [TallyNext]_vars => [Next]_mapVars
BY DEF TallyNext, vars, Next, mapVars, Change, SilentPrune, BucketPasses, ViewUpdate, ViewJoined, ViewStop,
       Recompute, PruneAndWeigh, Emit, Fail

(* The Map of the code, with the refresh loop beside it, behaves like the  *)
(* set of VoteCrdt: what a prune or an eviction leaves does not depend on  *)
(* the order in which the bundles came.                                    *)
THEOREM Refinement == TallySpec => ImplementsVoteCrdt
<1>1. TallyInit => MapInv /\ Crdt!Init
  <2>1. ASSUME Init PROVE held = {}
    BY <2>1 DEF Init, held, ToSet
  <2>2. QED
    BY <2>1, MapInvInit DEF TallyInit, Init, Crdt!Init
<1>2. MapInv /\ [TallyNext]_vars => MapInv'
  BY MapInvStep, TallyStepsMap
<1>3. MapInv /\ [TallyNext]_vars => [Crdt!Next]_(Crdt!vars)
  BY MapSteps, TallyStepsMap
<1>4. QED
  BY <1>1, <1>2, <1>3, PTL DEF TallySpec, ImplementsVoteCrdt, Crdt!Spec

(* What the Map shows in the tally and the checkpoint is what a Map that   *)
(* was never pruned would show, at every bucket.                           *)
THEOREM PruningIsNeverSeen == TallySpec => []PruningIsInvisible
<1>1. TallyInit => MapInv
  BY MapInvInit DEF TallyInit
<1>2. MapInv /\ [TallyNext]_vars => MapInv'
  BY MapInvStep, TallyStepsMap
<1>3. MapInv => PruningIsInvisible
  <2>1. MapInv => /\ currentEntries(held, bucket) = currentEntries(live, bucket)
                  /\ currentEntries(held \ provisional, bucket)
                       = currentEntries(live \ provisional, bucket)
    BY CoverShowsAll DEF MapInv
  <2>2. QED
    BY <2>1, MapReduces
       DEF PruningIsInvisible, Crdt!TallyIgnoresPruning, Crdt!CheckpointIgnoresPruning
<1>4. QED
  BY <1>1, <1>2, <1>3, PTL DEF TallySpec

----------------------------------------------------------------------------
(* What the Map shows, in order: each wallet once.                         *)

NoRepeats(order) == \A i, j \in DOMAIN order : order[i] = order[j] => i = j

(* currentInOrder lists the current entries, and no wallet twice.          *)
LEMMA ShownOncePerWallet ==
  ASSUME NEW order \in Seq(Bundle), NoRepeats(order), NEW k
  PROVE  /\ currentInOrder(order, k) \in Seq(Bundle)
         /\ ToSet(currentInOrder(order, k)) = currentEntries(ToSet(order), k)
         /\ \A p, q \in DOMAIN currentInOrder(order, k) :
              p < q => ~ SameWallet(currentInOrder(order, k)[p], currentInOrder(order, k)[q])
<1> DEFINE winners == foldWinners(order)
           first(b) == \A i \in DOMAIN order :
                         order[i] = b => \A j \in 1..(i - 1) : ~ SameWallet(order[j], b)
           keep == {b \in ToSet(order) : first(b)}
           firsts == keepOnly(order, keep)
           shown == [i \in DOMAIN firsts |-> winners[address[firsts[i]]]]
           unexpired == {b \in ToSet(shown) : ~ isExpired(b, k)}
           apart == {e \in Bundle \X Bundle : ~ SameWallet(e[1], e[2])}
<1>1. currentInOrder(order, k) = keepOnly(shown, unexpired)
  BY DEF currentInOrder
<1>2. /\ Len(order) \in Nat /\ DOMAIN order = 1..Len(order)
      /\ \A i \in DOMAIN order : order[i] \in Bundle
      /\ ToSet(order) = {order[i] : i \in DOMAIN order}
  BY DEF ToSet
<1> HIDE DEF winners
<1>3. /\ \A b \in ToSet(order) : SameWallet(winners[address[b]], b)
      /\ \A b \in ToSet(order) : winners[address[b]] \in winnersByWallet(ToSet(order))
      /\ \A b \in winnersByWallet(ToSet(order)) : b = winners[address[b]]
  <2>1. winnersByWallet(ToSet(order)) \subseteq ToSet(order)
    BY DEF winnersByWallet
  <2>2. QED
    BY <2>1, FoldedWinners DEF winners
<1>4. winnersByWallet(ToSet(order)) \subseteq ToSet(order) /\ ToSet(order) \subseteq Bundle
  BY <1>2 DEF winnersByWallet
\* of two first entries neither is of the other's wallet
<1>5. ASSUME NEW i \in DOMAIN order, NEW j \in DOMAIN order,
             i < j, order[i] \in keep, order[j] \in keep
      PROVE  <<order[i], order[j]>> \in apart
  <2>1. i \in 1..(j - 1) /\ order[i] \in Bundle /\ order[j] \in Bundle
    BY <1>2, <1>5
  <2>2. ~ SameWallet(order[i], order[j])
    BY <1>5, <2>1
  <2>3. QED
    BY <2>1, <2>2
\* every wallet has a first entry
<1>6. ASSUME NEW b \in ToSet(order)
      PROVE  \E c \in keep : SameWallet(c, b)
  <2> DEFINE T == {i \in DOMAIN order : SameWallet(order[i], b)}
  <2>1. T \in SUBSET Nat /\ T # {}
    BY <1>2 DEF SameWallet
  <2>2. PICK i \in T : \A j \in T : i <= j
    <3> HIDE DEF T
    <3> QED BY <2>1, LeastNatural
  <2>3. i \in DOMAIN order /\ SameWallet(order[i], b) /\ order[i] \in ToSet(order)
    BY <1>2, <2>2
  <2>4. \A l \in DOMAIN order : order[l] = order[i] => l = i
    BY <2>3 DEF NoRepeats
  <2>5. ASSUME NEW j \in 1..(i - 1), SameWallet(order[j], order[i])
        PROVE  FALSE
    <3>1. j \in DOMAIN order /\ ~ (i <= j)
      BY <1>2, <2>3
    <3>2. SameWallet(order[j], b)
      BY <2>3, <2>5 DEF SameWallet
    <3>3. QED
      BY <2>2, <3>1, <3>2
  <2>6. first(order[i])
    BY <2>4, <2>5
  <2>7. QED
    BY <2>3, <2>6
<1> HIDE DEF keep
<1>7. /\ firsts \in Seq(Bundle)
      /\ ToSet(firsts) = ToSet(order) \cap keep
  BY KeepOnlyFacts
<1>8. \A p, q \in DOMAIN firsts : p < q => <<firsts[p], firsts[q]>> \in apart
  <2> HIDE DEF apart
  <2> QED BY <1>5, KeepOnlyPairs
<1>9. keep \subseteq ToSet(order)
  BY DEF keep
<1> HIDE DEF firsts
<1>10. /\ Len(firsts) \in Nat /\ DOMAIN firsts = 1..Len(firsts)
       /\ ToSet(firsts) = {firsts[i] : i \in DOMAIN firsts} /\ ToSet(firsts) = keep
  BY <1>7, <1>9 DEF ToSet
<1>11. shown \in Seq(Bundle) /\ DOMAIN shown = DOMAIN firsts
  <2>1. \A i \in DOMAIN firsts : winners[address[firsts[i]]] \in Bundle
    BY <1>3, <1>4, <1>9, <1>10
  <2>2. QED
    BY <1>10, <2>1
<1>12. ToSet(shown) = winnersByWallet(ToSet(order))
  <2>1. ToSet(shown) = {winners[address[firsts[i]]] : i \in DOMAIN firsts}
    BY <1>11 DEF ToSet
  <2>2. \A i \in DOMAIN firsts : winners[address[firsts[i]]] \in winnersByWallet(ToSet(order))
    BY <1>3, <1>9, <1>10
  <2>3. ASSUME NEW b \in winnersByWallet(ToSet(order))
        PROVE  \E i \in DOMAIN firsts : b = winners[address[firsts[i]]]
    <3>1. PICK c \in keep : SameWallet(c, b)
      BY <1>4, <1>6
    <3>2. PICK i \in DOMAIN firsts : c = firsts[i]
      BY <1>10
    <3>3. QED
      BY <1>3, <3>1, <3>2 DEF SameWallet
  <2>4. QED
    BY <2>1, <2>2, <2>3
<1>13. ASSUME NEW p \in DOMAIN shown, NEW q \in DOMAIN shown, p < q
       PROVE  <<shown[p], shown[q]>> \in apart
  <2>1. firsts[p] \in ToSet(order) /\ firsts[q] \in ToSet(order)
    BY <1>9, <1>10, <1>11
  <2>2. ~ SameWallet(firsts[p], firsts[q])
    BY <1>8, <1>11, <1>13
  <2>3. shown[p] = winners[address[firsts[p]]] /\ shown[q] = winners[address[firsts[q]]]
    BY <1>11
  <2>4. SameWallet(shown[p], firsts[p]) /\ SameWallet(shown[q], firsts[q])
    BY <1>3, <2>1, <2>3
  <2>5. shown[p] \in Bundle /\ shown[q] \in Bundle
    BY <1>11
  <2>6. QED
    BY <2>2, <2>4, <2>5 DEF SameWallet
<1> HIDE DEF shown
<1>14. \A p, q \in DOMAIN keepOnly(shown, unexpired) :
         p < q => <<keepOnly(shown, unexpired)[p], keepOnly(shown, unexpired)[q]>> \in apart
  <2> HIDE DEF apart, unexpired
  <2> QED BY <1>11, <1>13, KeepOnlyPairs
<1>15. /\ keepOnly(shown, unexpired) \in Seq(Bundle)
       /\ ToSet(keepOnly(shown, unexpired)) = ToSet(shown) \cap unexpired
  <2> HIDE DEF unexpired
  <2> QED BY <1>11, KeepOnlyFacts
<1>16. ToSet(shown) \cap unexpired = currentEntries(ToSet(order), k)
  BY <1>12 DEF currentEntries
<1>17. QED
  <2> HIDE DEF unexpired
  <2> QED BY <1>1, <1>14, <1>15, <1>16
----------------------------------------------------------------------------
(* The rows of the votes in F.                                             *)

Voters(F, c) == {b \in F : c \in choice[b]}

RowsOf(F) ==
  [c \in UNION {choice[b] : b \in F} |->
     [weight |-> Cardinality(Voters(F, c)), chainVerified |-> Voters(F, c) \cap provisional = {}]]

\* what the fold can have counted
TallyRow == [weight : Nat, chainVerified : BOOLEAN]

RowMaps == UNION {[D -> TallyRow] : D \in SUBSET Community}

(* A vote more gives rows again.                                          *)
LEMMA TakeVotesIsRowMap ==
  ASSUME NEW rows \in RowMaps, NEW b \in Bundle
  PROVE  TakeVotes(rows, b) \in RowMaps
<1>1. PICK D \in SUBSET Community : rows \in [D -> TallyRow]
  BY DEF RowMaps
<1>2. DOMAIN rows = D /\ choice[b] \in SUBSET Community
  BY <1>1, ChoiceAssumption
<1>3. ASSUME NEW c \in D \cup choice[b]
      PROVE  TakeVotes(rows, b)[c] \in TallyRow
  <2>1. TakeVotes(rows, b)[c] =
          IF c \in choice[b]
          THEN [weight |-> Row(rows, c).weight + 1,
                chainVerified |-> Row(rows, c).chainVerified /\ b \notin provisional]
          ELSE rows[c]
    BY <1>2 DEF TakeVotes
  <2>2. Row(rows, c) \in TallyRow
    <3>1. CASE c \in D
      BY <1>1, <3>1 DEF Row
    <3>2. CASE c \notin D
      BY <1>2, <3>2 DEF Row, EmptyRow, TallyRow
    <3>3. QED
      BY <3>1, <3>2
  <2>3. Row(rows, c).weight + 1 \in Nat
    BY <2>2 DEF TallyRow
  <2>4. (Row(rows, c).chainVerified /\ b \notin provisional) \in BOOLEAN
    OBVIOUS
  <2>5. QED
    BY <1>1, <2>1, <2>3, <2>4 DEF TallyRow
<1>4. DOMAIN TakeVotes(rows, b) = D \cup choice[b] /\ D \cup choice[b] \in SUBSET Community
  BY <1>2 DEF TakeVotes
<1>5. TakeVotes(rows, b) \in [D \cup choice[b] -> TallyRow]
  <2>1. TakeVotes(rows, b) = [c \in DOMAIN TakeVotes(rows, b) |-> TakeVotes(rows, b)[c]]
    BY DEF TakeVotes
  <2>2. QED
    BY <1>3, <1>4, <2>1
<1>6. QED
  BY <1>4, <1>5 DEF RowMaps

(* One vote more.                                                          *)
LEMMA RowsOfOneMore ==
  ASSUME NEW F \in SUBSET Bundle, NEW b \in Bundle, b \notin F
  PROVE  TakeVotes(RowsOf(F), b) = RowsOf(F \cup {b})
<1> DEFINE D(G) == UNION {choice[d] : d \in G}
<1>1. D(F \cup {b}) = D(F) \cup choice[b] /\ DOMAIN RowsOf(F) = D(F) /\ DOMAIN RowsOf(F \cup {b}) = D(F \cup {b})
  BY DEF RowsOf
<1>2. DOMAIN TakeVotes(RowsOf(F), b) = DOMAIN RowsOf(F \cup {b})
  BY <1>1 DEF TakeVotes
<1>3. ASSUME NEW c \in DOMAIN RowsOf(F \cup {b})
      PROVE  TakeVotes(RowsOf(F), b)[c] = RowsOf(F \cup {b})[c]
  <2> DEFINE V == Voters(F, c)
             W == Voters(F \cup {b}, c)
  <2>1. IsFiniteSet(V) /\ b \notin V
    <3>1. V \in SUBSET Bundle /\ b \notin V
      BY DEF Voters
    <3>2. IsFiniteSet(V)
      <4> HIDE DEF V
      <4> QED BY <3>1, BundleAssumption, FS_Subset
    <3>3. QED
      BY <3>1, <3>2
  <2>2. RowsOf(F \cup {b})[c] = [weight |-> Cardinality(W), chainVerified |-> W \cap provisional = {}]
    BY <1>3 DEF RowsOf
  <2>3. c \in D(F) => RowsOf(F)[c] = [weight |-> Cardinality(V), chainVerified |-> V \cap provisional = {}]
    BY DEF RowsOf
  <2>4. TakeVotes(RowsOf(F), b)[c] =
          IF c \in choice[b]
          THEN [weight |-> Row(RowsOf(F), c).weight + 1,
                chainVerified |-> Row(RowsOf(F), c).chainVerified /\ b \notin provisional]
          ELSE RowsOf(F)[c]
    BY <1>1 DEF TakeVotes
  <2>5. CASE c \notin choice[b]
    <3>1. W = V /\ c \in D(F)
      BY <1>1, <2>5 DEF Voters
    <3>2. QED
      BY <2>2, <2>3, <2>4, <2>5, <3>1
  <2>6. CASE c \in choice[b]
    <3>1. W = V \cup {b}
      BY <2>6 DEF Voters
    <3>2. Cardinality(W) = Cardinality(V) + 1
      BY <2>1, <3>1, FS_AddElement
    <3>3. Row(RowsOf(F), c) = [weight |-> Cardinality(V), chainVerified |-> V \cap provisional = {}]
      <4>1. CASE c \in D(F)
        BY <1>1, <2>3, <4>1 DEF Row
      <4>2. CASE c \notin D(F)
        <5>1. V = {}
          BY <4>2 DEF Voters
        <5>2. Cardinality(V) = 0 /\ (V \cap provisional = {}) = TRUE
          BY <5>1, FS_EmptySet
        <5>3. QED
          BY <1>1, <4>2, <5>2 DEF Row, EmptyRow
      <4>3. QED
        BY <4>1, <4>2
    <3>4. (W \cap provisional = {}) = ((V \cap provisional = {}) /\ b \notin provisional)
      BY <3>1
    <3>5. TakeVotes(RowsOf(F), b)[c] =
            [weight |-> Row(RowsOf(F), c).weight + 1,
             chainVerified |-> Row(RowsOf(F), c).chainVerified /\ b \notin provisional]
      BY <2>4, <2>6
    <3>6. Row(RowsOf(F), c).weight = Cardinality(V)
      BY <3>3
    <3>7. Row(RowsOf(F), c).chainVerified = (V \cap provisional = {})
      <4> HIDE DEF V
      <4> QED BY <3>3
    <3>8. (Row(RowsOf(F), c).chainVerified /\ b \notin provisional) = (W \cap provisional = {})
      BY <3>4, <3>7, Zenon
    <3> HIDE DEF V, W
    <3>9. QED
      BY <2>2, <3>2, <3>5, <3>6, <3>8, Zenon
  <2>7. QED
    BY <2>5, <2>6
<1>4. QED
  <2>1. TakeVotes(RowsOf(F), b) = [c \in DOMAIN TakeVotes(RowsOf(F), b) |-> TakeVotes(RowsOf(F), b)[c]]
    BY DEF TakeVotes
  <2>2. RowsOf(F \cup {b}) = [c \in DOMAIN RowsOf(F \cup {b}) |-> RowsOf(F \cup {b})[c]]
    BY DEF RowsOf
  <2>3. QED
    BY <1>2, <1>3, <2>1, <2>2

(* The tally counts the votes one after the other.                         *)
LEMMA RowsUnfold ==
  ASSUME NEW order \in Seq(Bundle)
  PROVE  \E counted \in [0..Len(order) -> RowMaps] :
           /\ counted[0] = <<>>
           /\ \A i \in 1..Len(order) : counted[i] = TakeVotes(counted[i - 1], order[i])
           /\ FoldLeft(TakeVotes, <<>>, order) = counted[Len(order)]
<1> DEFINE N == Len(order)
           f == [i \in 1..N |-> [a \in RowMaps |-> TakeVotes(a, order[i])]]
           G(g) == g = [s \in SUBSET (DOMAIN order) |->
                     IF s = {} THEN <<>> ELSE TakeVotes(g[s \ {Max(s)}], order[Max(s)])]
           iter == CHOOSE g : G(g)
           base == <<>>
<1>1. FoldLeft(TakeVotes, <<>>, order) = iter[DOMAIN order]
  BY Zenon DEF FoldLeft, MapThenFoldSet
<1>2. N \in Nat /\ DOMAIN order = 1..N /\ \A i \in 1..N : order[i] \in Bundle
  OBVIOUS
<1>3. f \in [1..N -> [RowMaps -> RowMaps]]
  BY <1>2, TakeVotesIsRowMap
<1>4. base \in RowMaps
  <2>1. <<>> \in [{} -> TallyRow]
    OBVIOUS
  <2>2. QED
    BY <2>1 DEF RowMaps
<1>5. PICK g : IsFold(g, RowMaps, base, N, f)
  <2> HIDE DEF f, N, base
  <2> QED BY <1>2, <1>3, <1>4, FoldExists
<1>6. G(g)
  <2>1. ASSUME NEW s \in SUBSET (1..N), s # {}
        PROVE  g[s] = TakeVotes(g[s \ {Max(s)}], order[Max(s)])
    <3>1. Max(s) \in 1..N
      BY <1>2, <2>1, MaxOfIndices
    <3>2. g[s \ {Max(s)}] \in RowMaps
      BY <1>5 DEF IsFold
    <3>3. QED
      BY <1>5, <2>1, <3>1, <3>2 DEF IsFold
  <2>2. \A s \in SUBSET (1..N) : g[s] =
          IF s = {} THEN <<>> ELSE TakeVotes(g[s \ {Max(s)}], order[Max(s)])
    BY <1>5, <2>1 DEF IsFold
  <2>3. QED
    BY <1>2, <1>5, <2>2 DEF IsFold
<1>7. G(iter)
  <2> HIDE DEF G
  <2> QED BY <1>6
<1>8. \A s \in SUBSET (1..N) : iter[s] =
        IF s = {} THEN <<>> ELSE TakeVotes(iter[s \ {Max(s)}], order[Max(s)])
  <2> HIDE DEF iter
  <2> QED BY <1>2, <1>7
<1> HIDE DEF iter
<1>9. FoldsWithin(iter, RowMaps, base, N, f)
  <2>1. iter[{}] = base
    BY <1>8
  <2>2. ASSUME NEW s \in SUBSET (1..N), s # {}, iter[s \ {Max(s)}] \in RowMaps
        PROVE  iter[s] = f[Max(s)][iter[s \ {Max(s)}]]
    <3>1. Max(s) \in 1..N
      BY <1>2, <2>2, MaxOfIndices
    <3>2. QED
      BY <1>8, <2>2, <3>1
  <2>3. QED
    <3> HIDE DEF f, base
    <3> QED BY <2>1, <2>2 DEF FoldsWithin
<1>10. PICK counted : IsRun(counted, RowMaps, base, N, f) /\ counted[N] = iter[1..N]
  <2> DEFINE A == RowMaps
  <2>1. N \in Nat /\ base \in A /\ f \in [1..N -> [A -> A]] /\ FoldsWithin(iter, A, base, N, f)
    BY <1>2, <1>3, <1>4, <1>9
  <2>2. \E counted : IsRun(counted, A, base, N, f) /\ counted[N] = iter[1..N]
    <3> HIDE DEF f, N, A, base
    <3> QED BY <2>1, FoldRuns
  <2>3. QED
    BY <2>2
<1>11. ASSUME NEW i \in 1..N
       PROVE  counted[i] = TakeVotes(counted[i - 1], order[i])
  <2>1. i - 1 \in 0..N
    BY <1>2
  <2>2. counted[i - 1] \in RowMaps
    BY <1>10, <2>1 DEF IsRun
  <2>3. QED
    BY <1>10, <2>2 DEF IsRun
<1>12. QED
  BY <1>1, <1>2, <1>10, <1>11 DEF IsRun

(* The rows of a list of votes are those of their set.                     *)
LEMMA RowsOfList ==
  ASSUME NEW order \in Seq(Bundle), \A p, q \in DOMAIN order : p < q => order[p] # order[q]
  PROVE  FoldLeft(TakeVotes, <<>>, order) = RowsOf(ToSet(order))
<1> DEFINE N == Len(order)
           first(i) == {order[j] : j \in 1..i}
<1>1. N \in Nat /\ DOMAIN order = 1..N /\ \A i \in 1..N : order[i] \in Bundle
  OBVIOUS
<1>2. PICK counted \in [0..N -> RowMaps] :
        /\ counted[0] = <<>>
        /\ \A i \in 1..N : counted[i] = TakeVotes(counted[i - 1], order[i])
        /\ FoldLeft(TakeVotes, <<>>, order) = counted[N]
  BY RowsUnfold
<1> DEFINE T == {i \in 0..N : counted[i] # RowsOf(first(i))}
<1>3. counted[0] = RowsOf(first(0))
  <2>1. first(0) = {}
    OBVIOUS
  <2>2. RowsOf({}) = <<>>
    BY DEF RowsOf
  <2>3. QED
    BY <1>2, <2>1, <2>2
<1>4. ASSUME NEW i \in 1..N, counted[i - 1] = RowsOf(first(i - 1))
      PROVE  counted[i] = RowsOf(first(i))
  <2>1. \A j \in 1..i - 1 : j \in DOMAIN order /\ j < i
    BY <1>1
  <2>2. first(i - 1) \in SUBSET Bundle /\ order[i] \notin first(i - 1) /\ order[i] \in Bundle
    BY <1>1, <2>1
  <2>3. first(i) = first(i - 1) \cup {order[i]}
    BY <1>1
  <2> HIDE DEF first
  <2>4. TakeVotes(RowsOf(first(i - 1)), order[i]) = RowsOf(first(i))
    BY <2>2, <2>3, RowsOfOneMore
  <2>5. QED
    BY <1>2, <1>4, <2>4
<1> HIDE DEF first
<1>5. T = {}
  <2> SUFFICES ASSUME T # {} PROVE FALSE
    OBVIOUS
  <2>1. T \in SUBSET Nat
    BY <1>1
  <2>2. PICK i \in T : \A j \in T : i <= j
    <3> HIDE DEF T
    <3> QED BY <2>1, LeastNatural
  <2>3. i \in 0..N /\ i # 0
    BY <1>3, <2>2
  <2>4. i \in 1..N /\ i - 1 \in 0..N /\ ~ (i <= i - 1)
    BY <1>1, <2>3
  <2>5. counted[i - 1] = RowsOf(first(i - 1))
    BY <2>2, <2>4
  <2>6. QED
    BY <1>4, <2>2, <2>4, <2>5
<1>6. N \in 0..N /\ first(N) = ToSet(order)
  BY <1>1 DEF ToSet, first
<1>7. QED
  BY <1>2, <1>5, <1>6

----------------------------------------------------------------------------
(* A key the Map has is not added again.                                   *)

OneOfEach == entries \in Seq(Bundle) /\ NoRepeats(entries)

(* keepOnly repeats nothing.                                               *)
LEMMA KeepsNoRepeats ==
  ASSUME NEW order \in Seq(Bundle), NoRepeats(order), NEW keep
  PROVE  NoRepeats(keepOnly(order, keep))
<1> DEFINE differ == {e \in Bundle \X Bundle : e[1] # e[2]}
           kept == keepOnly(order, keep)
<1>1. \A i, j \in DOMAIN order :
        i < j /\ order[i] \in keep /\ order[j] \in keep => <<order[i], order[j]>> \in differ
  BY DEF NoRepeats
<1>2. \A p, q \in DOMAIN kept : p < q => <<kept[p], kept[q]>> \in differ
  <2> HIDE DEF differ
  <2> QED BY <1>1, KeepOnlyPairs
<1>3. kept \in Seq(Bundle)
  BY KeepOnlyFacts
<1> HIDE DEF kept
<1>4. DOMAIN kept = 1..Len(kept) /\ Len(kept) \in Nat
  BY <1>3
<1>5. ASSUME NEW p \in DOMAIN kept, NEW q \in DOMAIN kept, kept[p] = kept[q]
      PROVE  p = q
  <2>1. ~ (p < q) /\ ~ (q < p)
    BY <1>2, <1>5
  <2>2. QED
    BY <1>4, <2>1
<1>6. QED
  BY <1>5 DEF NoRepeats, kept

(* An empty Map has no entry twice.                                        *)
LEMMA StartsWithNone == TallyInit => OneOfEach
<1> SUFFICES ASSUME TallyInit PROVE OneOfEach
  OBVIOUS
<1>1. entries = <<>>
  BY DEF TallyInit, Init
<1>2. QED
  BY <1>1 DEF OneOfEach, NoRepeats

(* Only a new bundle is appended, and nothing else grows the Map.          *)
LEMMA OneOfEachStep == OneOfEach /\ [Next]_mapVars => OneOfEach'
<1> SUFFICES ASSUME OneOfEach, [Next]_mapVars PROVE OneOfEach'
  OBVIOUS
<1>1. /\ entries \in Seq(Bundle) /\ Len(entries) \in Nat /\ DOMAIN entries = 1..Len(entries)
      /\ \A i, j \in DOMAIN entries : entries[i] = entries[j] => i = j
      /\ held = {entries[i] : i \in DOMAIN entries}
  BY DEF OneOfEach, NoRepeats, held, ToSet
<1>2. ASSUME entries' = entries
      PROVE  OneOfEach'
  BY <1>2 DEF OneOfEach, NoRepeats
<1>3. ASSUME NEW keep, entries' = keepOnly(entries, keep)
      PROVE  OneOfEach'
  <2>1. keepOnly(entries, keep) \in Seq(Bundle) /\ NoRepeats(keepOnly(entries, keep))
    BY KeepOnlyFacts, KeepsNoRepeats DEF OneOfEach
  <2>2. QED
    BY <1>3, <2>1 DEF OneOfEach, NoRepeats
<1>4. ASSUME NEW b \in Bundle, NEW settled \in BOOLEAN, Insert(b, settled)
      PROVE  OneOfEach'
  <2>0. CASE b \in held
    BY <1>2, <1>4, <2>0 DEF Insert
  <2> SUFFICES ASSUME b \notin held PROVE OneOfEach'
    BY <2>0
  <2>1. b \notin held /\ entries' = Append(entries, b)
    BY <1>4 DEF Insert
  <2>2. /\ entries' \in Seq(Bundle) /\ DOMAIN entries' = 1..Len(entries) + 1
        /\ \A i \in 1..Len(entries) : entries'[i] = entries[i]
        /\ entries'[Len(entries) + 1] = b
    BY <1>1, <2>1
  <2>3. ASSUME NEW p \in DOMAIN entries', NEW q \in DOMAIN entries', entries'[p] = entries'[q]
        PROVE  p = q
    <3>1. \A i \in DOMAIN entries : entries[i] # b
      BY <1>1, <2>1
    <3>2. \A i \in 1..Len(entries) + 1 : i \in DOMAIN entries \/ i = Len(entries) + 1
      BY <1>1
    <3>3. QED
      BY <1>1, <2>2, <2>3, <3>1, <3>2
  <2>4. QED
    BY <2>2, <2>3 DEF OneOfEach, NoRepeats
<1>5. ASSUME NEW b \in Bundle, Settle(b)
      PROVE  OneOfEach'
  BY <1>2, <1>5 DEF Settle
<1>6. ASSUME NEW b \in Bundle, Delete(b)
      PROVE  OneOfEach'
  BY <1>3, <1>6 DEF Delete
<1>7. CASE PruneMap
  BY <1>3, <1>7 DEF PruneMap
<1>8. CASE AdvanceBucket
  BY <1>2, <1>8 DEF AdvanceBucket
<1>9. CASE UNCHANGED mapVars
  BY <1>2, <1>9 DEF mapVars
<1>10. QED
  BY <1>4, <1>5, <1>6, <1>7, <1>8, <1>9 DEF Next

(* The rows of the list are those of the set.                              *)
LEMMA RowsAreOrderFreeNow == OneOfEach => RowsAreOrderFree
<1> SUFFICES ASSUME OneOfEach PROVE RowsAreOrderFree
  OBVIOUS
<1> DEFINE list == currentInOrder(entries, bucket)
           shown == currentEntries(held, bucket)
<1>1. /\ list \in Seq(Bundle) /\ ToSet(list) = shown
      /\ \A p, q \in DOMAIN list : p < q => list[p] # list[q]
  BY ShownOncePerWallet DEF OneOfEach, held, SameWallet
<1>2. tallied(entries, bucket) = FoldLeft(TakeVotes, <<>>, list)
  BY DEF tallied
<1>3. FoldLeft(TakeVotes, <<>>, list) = RowsOf(shown)
  <2> HIDE DEF list, shown
  <2> QED BY <1>1, RowsOfList
<1>4. QED
  BY <1>2, <1>3, Zenon DEF RowsAreOrderFree, rowsOf, RowsOf, Voters

(***************************************************************************)
(* A wallet's latest vote counts once for every community it names, in     *)
(* whatever order the Map holds the votes (compute).                       *)
(***************************************************************************)
THEOREM RowsAreRight == TallySpec => []RowsAreOrderFree
<1>1. TallyInit => OneOfEach
  BY StartsWithNone
<1>2. OneOfEach /\ [TallyNext]_vars => OneOfEach'
  BY TallyStepsMap, OneOfEachStep
<1>3. QED
  BY <1>1, <1>2, RowsAreOrderFreeNow, PTL DEF TallySpec

----------------------------------------------------------------------------
(* The tally.                                                              *)

\* the rows show the votes that are in force now
Fresh(rows) == Shows(rows, currentEntries(held, bucket), provisional, bucket)

(* No rows show that nothing is held.                                      *)
LEMMA NothingIsShown ==
  ASSUME NEW order, order = <<>>, NEW P, NEW k
  PROVE  Shows(<<>>, currentEntries(ToSet(order), k), P, k)
<1>1. currentEntries(ToSet(order), k) = {}
  BY DEF currentEntries, winnersByWallet, ToSet
<1>2. winnersByWallet({}) = {} /\ {b \in {} : ~ isExpired(b, k)} = {}
  BY DEF winnersByWallet
<1>3. <<>> = rowsOf({}, {})
  BY DEF rowsOf
<1>4. QED
  BY <1>1, <1>2, <1>3 DEF Shows

(* A compute that takes the votes shows those in force.                    *)
LEMMA TakenIsFresh == OneOfEach => Fresh(tallied(entries, bucket))
<1> SUFFICES ASSUME OneOfEach PROVE Fresh(tallied(entries, bucket))
  OBVIOUS
<1> DEFINE inForce == currentEntries(held, bucket)
           flagged == provisional \cap inForce
<1>1. tallied(entries, bucket) = rowsOf(inForce, provisional)
  BY RowsAreOrderFreeNow DEF RowsAreOrderFree
<1>2. /\ inForce \in SUBSET Bundle
      /\ winnersByWallet(inForce) = inForce
      /\ {b \in inForce : ~ isExpired(b, bucket)} = inForce
  <2>1. held \in SUBSET Bundle
    BY DEF OneOfEach, held, ToSet
  <2>2. QED
    BY <2>1 DEF currentEntries, winnersByWallet
<1> HIDE DEF inForce
<1>3. rowsOf(inForce, provisional) = rowsOf(inForce, flagged)
  <2>1. ASSUME NEW c
        PROVE  {b \in inForce : c \in choice[b]} \cap provisional = {}
                 <=> {b \in inForce : c \in choice[b]} \cap flagged = {}
    OBVIOUS
  <2>2. QED
    BY <2>1, Zenon DEF rowsOf
<1>4. flagged \in SUBSET inForce /\ flagged \cap inForce = provisional \cap inForce
  OBVIOUS
<1> HIDE DEF flagged
<1>5. Shows(tallied(entries, bucket), inForce, provisional, bucket)
  BY <1>1, <1>2, <1>3, <1>4, Zenon DEF Shows
<1>6. QED
  BY <1>5 DEF Fresh, inForce

(* The same of the state after a step.                                     *)
LEMMA TakenIsFreshNext == (OneOfEach => Fresh(tallied(entries, bucket)))'
BY TakenIsFresh, PTL

Reading == {c \in Compute : computes[c].phase = "reading"}

\* the types that matter; rows are whatever a tally gives
TallyShape ==
  /\ views \in [View -> {"off", "joining", "on"}]
  /\ dirty \in BOOLEAN /\ spoiled \in BOOLEAN /\ bucket \in Nat
  /\ DOMAIN computes = Compute
  /\ \A c \in Compute :
       /\ DOMAIN computes[c] = {"phase", "rows", "older", "overtaken"}
       /\ computes[c].phase \in {"idle", "reading", "weighing"}
       /\ computes[c].older \subseteq Compute \ {c}
       /\ computes[c].overtaken \in BOOLEAN

\* a view that joins has not computed yet
JoinsAreIdle == \A v \in View : views[v] = "joining" => computes[v].phase = "idle"

\* an unanswered kick has the loop at work, where a view is on
LoopRuns == dirty /\ (\E v \in View : views[v] = "on") => computes["loop"].phase # "idle"

\* the compute that took the votes last has taken what is there, or there will
\* be another
LatestIsFresh ==
  \A c \in Weighing :
    ~ computes[c].overtaken /\ (\A d \in Weighing : c \notin computes[d].older)
      => dirty \/ Reading # {} \/ Fresh(computes[c].rows)

CachedIsFresh == ~ spoiled /\ AtWork = {} => dirty \/ Fresh(cached)

TallyInv == TallyShape /\ JoinsAreIdle /\ LoopRuns /\ LatestIsFresh /\ CachedIsFresh

(* Before the first view nothing is held, and nothing is the tally of it.  *)
LEMMA TallyInvInit == TallyInit => TallyInv
<1> SUFFICES ASSUME TallyInit PROVE TallyInv
  OBVIOUS
<1>1. /\ views = [v \in View |-> "off"] /\ dirty = TRUE
      /\ computes = [c \in Compute |-> Idle] /\ spoiled = FALSE /\ bucket = 0
  BY DEF TallyInit, Init
<1>2. TallyShape
  BY <1>1 DEF TallyShape, Idle
<1>3. \A c \in Compute : computes[c].phase = "idle"
  BY <1>1 DEF Idle
<1>4. QED
  BY <1>1, <1>2, <1>3 DEF TallyInv, JoinsAreIdle, LoopRuns, LatestIsFresh, CachedIsFresh, Weighing, Compute

\* what a compute that starts looks like, over the entries of order
IsStarted(r, c, order, older) ==
  /\ DOMAIN r = {"phase", "rows", "older", "overtaken"}
  /\ r.phase = IF order = <<>> THEN "weighing" ELSE "reading"
  /\ r.older = IF order = <<>> THEN older \ {c} ELSE {}
  /\ r.rows = <<>> /\ r.overtaken = FALSE

(* What Started gives is what IsStarted says.                              *)
LEMMA StartedFacts ==
  ASSUME NEW c, NEW order
  PROVE  IsStarted(Started(c, order), c, order, Weighing)
BY DEF IsStarted, Started, Idle

(***************************************************************************)
(* A compute that starts: it will read, or, when there is nothing to read, *)
(* it has the rows already and every other one at work is older.           *)
(***************************************************************************)
LEMMA StartKeepsLatest ==
  ASSUME TallyInv, NEW c \in Compute, computes[c].phase = "idle",
         computes' = [computes EXCEPT ![c] = Started(c, entries')], bucket' = bucket
  PROVE  /\ \A d \in Compute :
              /\ DOMAIN computes'[d] = {"phase", "rows", "older", "overtaken"}
              /\ computes'[d].phase \in {"idle", "reading", "weighing"}
              /\ computes'[d].older \subseteq Compute \ {d}
              /\ computes'[d].overtaken \in BOOLEAN
         /\ DOMAIN computes' = Compute
         /\ computes'[c].phase # "idle"
         /\ \A d \in Compute \ {c} : computes'[d] = computes[d]
         /\ LatestIsFresh'
<1> DEFINE r == Started(c, entries')
<1>1. IsStarted(r, c, entries', Weighing)
  BY StartedFacts
<1> HIDE DEF r
<1>2. DOMAIN computes = Compute /\ bucket \in Nat
  BY DEF TallyInv, TallyShape
<1>3. /\ DOMAIN computes' = Compute /\ computes'[c] = r
      /\ \A d \in Compute \ {c} : computes'[d] = computes[d]
  BY <1>2 DEF r
<1>4. Weighing \subseteq Compute /\ c \notin Weighing
  BY DEF Weighing
<1>5. ASSUME NEW d \in Compute
      PROVE  /\ DOMAIN computes'[d] = {"phase", "rows", "older", "overtaken"}
             /\ computes'[d].phase \in {"idle", "reading", "weighing"}
             /\ computes'[d].older \subseteq Compute \ {d}
             /\ computes'[d].overtaken \in BOOLEAN
  <2>1. CASE d = c
    BY <1>1, <1>3, <1>4, <2>1 DEF IsStarted
  <2>2. CASE d # c
    BY <1>3, <2>2 DEF TallyInv, TallyShape
  <2>3. QED
    BY <2>1, <2>2
<1>6. computes'[c].phase # "idle"
  BY <1>1, <1>3 DEF IsStarted
<1>7. LatestIsFresh'
  <2>1. CASE entries' # <<>>
    <3>1. c \in Reading'
      BY <1>1, <1>3, <2>1 DEF IsStarted, Reading
    <3>2. QED
      BY <3>1 DEF LatestIsFresh
  <2>2. CASE entries' = <<>>
    <3>1. computes'[c].rows = <<>>
      BY <1>1, <1>3 DEF IsStarted
    <3>2. Shows(<<>>, currentEntries(ToSet(entries'), bucket'), provisional', bucket')
      BY <2>2, NothingIsShown
    <3>3. Fresh(computes[c].rows)'
      BY <3>1, <3>2 DEF Fresh, held
    <3>4. c \in Weighing' /\ computes'[c].older = Weighing
      BY <1>1, <1>3, <1>4, <2>2 DEF IsStarted, Weighing
    <3>5. \A d \in Weighing' : d # c => d \in Weighing
      BY <1>3 DEF Weighing
    <3>6. QED
      BY <3>3, <3>4, <3>5 DEF LatestIsFresh
  <2>3. QED
    BY <2>1, <2>2
<1>8. QED
  BY <1>3, <1>5, <1>6, <1>7

(* A kick that finds the loop at work leaves it dirty, else it starts the  *)
(* loop.                                                                   *)
LEMMA KickKeepsTally ==
  ASSUME TallyInv, kickTallyRefresh, bucket' = bucket
  PROVE  TallyInv'
<1>1. CASE computes["loop"].phase = "idle" /\ listeners # {}
  <2>1. /\ computes' = [computes EXCEPT !["loop"] = Started("loop", entries')]
        /\ dirty' = FALSE /\ UNCHANGED <<views, cached, spoiled>>
    BY <1>1 DEF kickTallyRefresh
  <2>2. "loop" \in Compute /\ \A v \in View : v \in Compute \ {"loop"}
    BY TallyAssumption DEF Compute
  <2>3. /\ \A d \in Compute :
             /\ DOMAIN computes'[d] = {"phase", "rows", "older", "overtaken"}
             /\ computes'[d].phase \in {"idle", "reading", "weighing"}
             /\ computes'[d].older \subseteq Compute \ {d}
             /\ computes'[d].overtaken \in BOOLEAN
        /\ DOMAIN computes' = Compute
        /\ computes'["loop"].phase # "idle"
        /\ \A d \in Compute \ {"loop"} : computes'[d] = computes[d]
        /\ LatestIsFresh'
    BY <1>1, <2>1, <2>2, StartKeepsLatest
  <2>4. TallyShape'
    BY <2>1, <2>3 DEF TallyInv, TallyShape
  <2>5. JoinsAreIdle' /\ LoopRuns'
    BY <2>1, <2>2, <2>3 DEF TallyInv, JoinsAreIdle, LoopRuns
  <2>6. CachedIsFresh'
    BY <2>2, <2>3 DEF CachedIsFresh, AtWork
  <2>7. QED
    BY <2>3, <2>4, <2>5, <2>6 DEF TallyInv
<1>2. CASE ~ (computes["loop"].phase = "idle" /\ listeners # {})
  <2>1. dirty' = TRUE /\ UNCHANGED <<views, computes, cached, spoiled>>
    BY <1>2 DEF kickTallyRefresh
  <2>2. TallyShape'
    BY <2>1 DEF TallyInv, TallyShape
  <2>3. JoinsAreIdle' /\ LoopRuns'
    BY <1>2, <2>1 DEF TallyInv, JoinsAreIdle, LoopRuns, listeners
  <2>4. LatestIsFresh' /\ CachedIsFresh'
    BY <2>1 DEF LatestIsFresh, CachedIsFresh
  <2>5. QED
    BY <2>2, <2>3, <2>4 DEF TallyInv
<1>3. QED
  BY <1>1, <1>2

(* A step that kicks and computes nothing keeps the tally, when what shows *)
(* the votes in force goes on showing them.                                *)
LEMMA ShownKeepsTally ==
  ASSUME TallyInv, UNCHANGED tallyVars, bucket' \in Nat,
         \A rows : Fresh(rows) => Shows(rows, currentEntries(held, bucket)', provisional', bucket')
  PROVE  TallyInv'
<1>1. UNCHANGED <<views, dirty, computes, cached, spoiled>>
  BY DEF tallyVars
<1>2. TallyShape'
  BY <1>1 DEF TallyInv, TallyShape
<1>3. JoinsAreIdle' /\ LoopRuns'
  BY <1>1 DEF TallyInv, JoinsAreIdle, LoopRuns
<1>4. LatestIsFresh' /\ CachedIsFresh'
  <2>1. Weighing' = Weighing /\ Reading' = Reading /\ AtWork' = AtWork
    BY <1>1 DEF Weighing, Reading, AtWork
  <2>2. ASSUME NEW c \in Compute, Fresh(computes[c].rows)
        PROVE  Fresh(computes[c].rows)'
    <3>1. Shows(computes[c].rows, currentEntries(held, bucket)', provisional', bucket')
      BY <2>2
    <3>2. QED
      BY <1>1, <3>1 DEF Fresh
  <2>3. Fresh(cached) => Fresh(cached)'
    <3>1. Fresh(cached) => Shows(cached, currentEntries(held, bucket)', provisional', bucket')
      OBVIOUS
    <3>2. QED
      BY <1>1, <3>1 DEF Fresh
  <2>4. LatestIsFresh'
    BY <1>1, <2>1, <2>2 DEF TallyInv, LatestIsFresh, Weighing
  <2>5. CachedIsFresh'
    BY <1>1, <2>1, <2>3 DEF TallyInv, CachedIsFresh
  <2>6. QED
    BY <2>4, <2>5
<1>5. QED
  BY <1>2, <1>3, <1>4 DEF TallyInv

(* A bucket that passes ends votes, and those may stay on show.            *)
LEMMA PassingKeepsTally ==
  ASSUME TallyInv, MapInv, BucketPasses
  PROVE  TallyInv'
<1>1. /\ bucket' = bucket + 1 /\ UNCHANGED <<entries, provisional>> /\ UNCHANGED tallyVars
  BY DEF BucketPasses, AdvanceBucket
<1>2. bucket \in Nat /\ bucket' \in Nat /\ held \in SUBSET Bundle
  BY <1>1 DEF TallyInv, TallyShape, MapInv, IsCover
<1> DEFINE inForce == currentEntries(held, bucket)
           after == currentEntries(held, bucket')
<1>3. \A b \in Bundle : isExpired(b, bucket) => isExpired(b, bucket')
  BY <1>1, <1>2, ExpiredStays, Zenon
<1>4. after = {b \in inForce : ~ isExpired(b, bucket')}
  BY <1>2, <1>3 DEF currentEntries, winnersByWallet
<1>5. ASSUME NEW rows, Shows(rows, inForce, provisional, bucket)
      PROVE  Shows(rows, after, provisional, bucket')
  <2> HIDE DEF inForce, after
  <2>1. PICK votes \in SUBSET Bundle : \E flagged \in SUBSET votes :
          /\ winnersByWallet(votes) = votes
          /\ {b \in votes : ~ isExpired(b, bucket)} = inForce
          /\ flagged \cap inForce = provisional \cap inForce
          /\ rows = rowsOf(votes, flagged)
    BY <1>5 DEF Shows
  <2>2. PICK flagged \in SUBSET votes :
          /\ winnersByWallet(votes) = votes
          /\ {b \in votes : ~ isExpired(b, bucket)} = inForce
          /\ flagged \cap inForce = provisional \cap inForce
          /\ rows = rowsOf(votes, flagged)
    BY <2>1
  <2>3. {b \in votes : ~ isExpired(b, bucket')} = after
    BY <1>3, <1>4, <2>2
  <2>4. flagged \cap after = provisional \cap after
    BY <1>4, <2>2
  <2>5. QED
    BY <2>2, <2>3, <2>4 DEF Shows
<1>6. currentEntries(held, bucket)' = after /\ provisional' = provisional
  BY <1>1 DEF held
<1>7. \A rows : Fresh(rows) => Shows(rows, currentEntries(held, bucket)', provisional', bucket')
  BY <1>5, <1>6 DEF Fresh
<1>8. QED
  BY <1>1, <1>2, <1>7, ShownKeepsTally

(* A prune that kicks nothing takes no vote in force.                      *)
LEMMA SilentPruneKeepsTally ==
  ASSUME TallyInv, MapInv, SilentPrune
  PROVE  TallyInv'
<1> DEFINE R == Prunable(held, bucket, provisional)
           inForce == currentEntries(held, bucket)
<1>1. /\ held' = held \ R /\ provisional' = provisional \ R
      /\ bucket' = bucket /\ UNCHANGED tallyVars
  BY PrunedMap DEF SilentPrune
<1>2. /\ held \in SUBSET Bundle /\ provisional \in SUBSET held /\ R \in SUBSET held
      /\ bucket \in Nat
  BY DEF MapInv, IsCover, Prunable, TallyInv, TallyShape
<1>3. currentEntries(held \ R, bucket) = inForce
  <2>1. \A b \in R : isExpired(b, bucket) \/ \E c \in held \ R : SameWallet(c, b) /\ Beats(c, b)
    BY <1>2, PrunedIsCovered
  <2> HIDE DEF R
  <2>2. \A b \in held \ (held \ R) :
          isExpired(b, bucket) \/ \E c \in held \ R : SameWallet(c, b) /\ Beats(c, b)
    BY <2>1
  <2>3. QED
    BY <1>2, <2>2, CoveredReduction
<1>4. inForce \cap R = {}
  <2> HIDE DEF R
  <2>1. currentEntries(held \ R, bucket) \subseteq held \ R
    BY DEF currentEntries, winnersByWallet
  <2>2. QED
    BY <1>3, <2>1
<1>5. currentEntries(held, bucket)' = inForce /\ provisional' \cap inForce = provisional \cap inForce
  <2> HIDE DEF R, inForce
  <2>1. currentEntries(held', bucket') = inForce
    BY <1>1, <1>3
  <2>2. QED
    BY <1>1, <1>4, <2>1
<1>6. ASSUME NEW rows, Fresh(rows)
      PROVE  Shows(rows, inForce, provisional', bucket)
  <2> HIDE DEF R, inForce
  <2>1. Shows(rows, inForce, provisional, bucket)
    BY <1>6 DEF Fresh, inForce
  <2>2. QED
    BY <1>5, <2>1 DEF Shows
<1>7. \A rows : Fresh(rows) => Shows(rows, currentEntries(held, bucket)', provisional', bucket')
  BY <1>1, <1>5, <1>6
<1>8. QED
  BY <1>1, <1>2, <1>7, ShownKeepsTally

(* Where the votes and the bucket are as they were, so is what is fresh.   *)
LEMMA SameVotes ==
  ASSUME UNCHANGED mapVars, NEW rows
  PROVE  Fresh(rows) <=> Shows(rows, currentEntries(held, bucket)', provisional', bucket')
<1>1. held' = held /\ bucket' = bucket /\ provisional' = provisional
  BY DEF mapVars, held
<1>2. QED
  BY <1>1 DEF Fresh

(* A view that begins to join computes nothing yet.                        *)
LEMMA ViewUpdateKeepsTally ==
  ASSUME TallyInv, NEW v \in View, ViewUpdate(v)
  PROVE  TallyInv'
<1>1. /\ views[v] = "off" /\ computes[v].phase = "idle"
      /\ views' = [views EXCEPT ![v] = "joining"]
      /\ UNCHANGED <<dirty, computes, cached, spoiled>> /\ UNCHANGED mapVars
  BY DEF ViewUpdate
<1>2. TallyShape' /\ JoinsAreIdle' /\ LoopRuns'
  BY <1>1 DEF TallyInv, TallyShape, JoinsAreIdle, LoopRuns, mapVars
<1>3. LatestIsFresh' /\ CachedIsFresh'
  BY <1>1, SameVotes
     DEF TallyInv, LatestIsFresh, CachedIsFresh, Weighing, Reading, AtWork, Fresh
<1>4. QED
  BY <1>2, <1>3 DEF TallyInv

(* A view that stops leaves its compute under way.                         *)
LEMMA ViewStopKeepsTally ==
  ASSUME TallyInv, NEW v \in View, ViewStop(v)
  PROVE  TallyInv'
<1>1. /\ views[v] = "on"
      /\ views' = [views EXCEPT ![v] = "off"]
      /\ UNCHANGED <<dirty, computes, cached, spoiled>> /\ UNCHANGED mapVars
  BY DEF ViewStop
<1>2. TallyShape' /\ JoinsAreIdle' /\ LoopRuns'
  BY <1>1 DEF TallyInv, TallyShape, JoinsAreIdle, LoopRuns, mapVars
<1>3. LatestIsFresh' /\ CachedIsFresh'
  BY <1>1, SameVotes
     DEF TallyInv, LatestIsFresh, CachedIsFresh, Weighing, Reading, AtWork, Fresh
<1>4. QED
  BY <1>2, <1>3 DEF TallyInv

(* The view's own compute starts, and answers what was dirty.              *)
LEMMA ViewJoinedKeepsTally ==
  ASSUME TallyInv, NEW v \in View, ViewJoined(v)
  PROVE  TallyInv'
<1>1. /\ views[v] = "joining" /\ views' = [views EXCEPT ![v] = "on"]
      /\ computes' = [computes EXCEPT ![v] = Started(v, entries')] /\ dirty' = FALSE
      /\ UNCHANGED <<cached, spoiled>> /\ UNCHANGED mapVars
  BY DEF ViewJoined, mapVars
<1>2. v \in Compute /\ computes[v].phase = "idle" /\ bucket' = bucket
  BY <1>1 DEF TallyInv, JoinsAreIdle, Compute, mapVars
<1>3. /\ \A d \in Compute :
           /\ DOMAIN computes'[d] = {"phase", "rows", "older", "overtaken"}
           /\ computes'[d].phase \in {"idle", "reading", "weighing"}
           /\ computes'[d].older \subseteq Compute \ {d}
           /\ computes'[d].overtaken \in BOOLEAN
      /\ DOMAIN computes' = Compute
      /\ computes'[v].phase # "idle"
      /\ \A d \in Compute \ {v} : computes'[d] = computes[d]
      /\ LatestIsFresh'
  BY <1>1, <1>2, StartKeepsLatest
<1>4. TallyShape'
  BY <1>1, <1>2, <1>3 DEF TallyInv, TallyShape
<1>5. JoinsAreIdle'
  BY <1>1, <1>3 DEF TallyInv, TallyShape, JoinsAreIdle, Compute
<1>6. LoopRuns'
  BY <1>1 DEF LoopRuns
<1>7. CachedIsFresh'
  BY <1>2, <1>3 DEF CachedIsFresh, AtWork
<1>8. QED
  BY <1>3, <1>4, <1>5, <1>6, <1>7 DEF TallyInv

(* A compute that takes the votes has all others behind it.                *)
LEMMA WeighKeepsTally ==
  ASSUME TallyInv, OneOfEach', NEW c \in Compute, PruneAndWeigh(c)
  PROVE  TallyInv'
<1>1. /\ computes[c].phase = "reading" /\ bucket' = bucket
      /\ computes' = [computes EXCEPT ![c].phase = "weighing", ![c].older = Weighing,
                                      ![c].rows = tallied(entries, bucket)']
      /\ UNCHANGED <<views, dirty, cached, spoiled>>
  BY DEF PruneAndWeigh, PruneMap
<1>2. /\ DOMAIN computes = Compute /\ bucket \in Nat
      /\ DOMAIN computes[c] = {"phase", "rows", "older", "overtaken"}
  BY DEF TallyInv, TallyShape
<1>3. Weighing \subseteq Compute \ {c}
  BY <1>1 DEF Weighing
<1> DEFINE rows == tallied(entries, bucket)'
<1> HIDE DEF rows
<1>4. /\ DOMAIN computes' = Compute
      /\ DOMAIN computes'[c] = {"phase", "rows", "older", "overtaken"}
      /\ computes'[c].phase = "weighing" /\ computes'[c].older = Weighing
      /\ computes'[c].rows = rows /\ computes'[c].overtaken = computes[c].overtaken
      /\ \A d \in Compute \ {c} : computes'[d] = computes[d]
  BY <1>1, <1>2 DEF rows
<1>5. TallyShape'
  <2>1. ASSUME NEW d \in Compute
        PROVE  /\ DOMAIN computes'[d] = {"phase", "rows", "older", "overtaken"}
               /\ computes'[d].phase \in {"idle", "reading", "weighing"}
               /\ computes'[d].older \subseteq Compute \ {d}
               /\ computes'[d].overtaken \in BOOLEAN
    <3>1. CASE d = c
      BY <1>3, <1>4, <3>1 DEF TallyInv, TallyShape
    <3>2. CASE d # c
      BY <1>4, <3>2 DEF TallyInv, TallyShape
    <3>3. QED
      BY <3>1, <3>2
  <2>2. QED
    BY <1>1, <1>4, <2>1 DEF TallyInv, TallyShape
<1>6. JoinsAreIdle' /\ LoopRuns'
  <2>1. \A d \in Compute : computes[d].phase = "idle" <=> computes'[d].phase = "idle"
    BY <1>1, <1>4
  <2>2. QED
    BY <1>1, <2>1 DEF TallyInv, JoinsAreIdle, LoopRuns, Compute
<1>7. LatestIsFresh'
  <2>1. \A d \in Weighing' : d # c => d \in Weighing
    BY <1>4 DEF Weighing
  <2>2. c \in Weighing'
    BY <1>4 DEF Weighing
  <2>3. \A d \in Weighing' : d # c => d \in computes'[c].older
    BY <1>4, <2>1
  <2>4. Fresh(computes[c].rows)'
    <3>1. Shows(rows, currentEntries(held, bucket)', provisional', bucket')
      BY TakenIsFreshNext DEF Fresh, rows
    <3>2. QED
      BY <1>4, <3>1 DEF Fresh
  <2>5. QED
    BY <2>2, <2>3, <2>4 DEF LatestIsFresh
<1>8. CachedIsFresh'
  BY <1>4 DEF CachedIsFresh, AtWork
<1>9. QED
  BY <1>5, <1>6, <1>7, <1>8 DEF TallyInv

\* the computes that the end of c overtakes
Behind(c) == IF computes[c].phase = "reading" THEN Weighing ELSE computes[c].older

\* does the loop go on after c?
Again(c) == c = "loop" /\ dirty /\ listeners # {}

(* What the end of a compute does to the others, and whether the loop goes *)
(* on.                                                                     *)
LEMMA EndedFacts ==
  ASSUME TallyInv, NEW c \in Compute, Ended(c)
  PROVE  /\ DOMAIN computes' = Compute /\ dirty' = (dirty /\ ~ Again(c))
         /\ computes'[c] = IF Again(c) THEN Started(c, entries) ELSE Idle
         /\ \A d \in Compute \ {c} :
              /\ DOMAIN computes'[d] = {"phase", "rows", "older", "overtaken"}
              /\ computes'[d].phase = computes[d].phase /\ computes'[d].rows = computes[d].rows
              /\ computes'[d].older = computes[d].older \ {c}
              /\ computes'[d].overtaken = (computes[d].overtaken \/ d \in Behind(c))
<1> DEFINE end(d) == [computes[d] EXCEPT !.older = @ \ {c}, !.overtaken = @ \/ d \in Behind(c)]
<1>1. /\ computes' = [d \in Compute |->
                        IF d = c THEN IF Again(c) THEN Started(c, entries) ELSE Idle ELSE end(d)]
      /\ dirty' = (dirty /\ ~ Again(c))
  BY DEF Ended, Again, Behind
<1>2. ASSUME NEW d \in Compute
      PROVE  /\ DOMAIN end(d) = {"phase", "rows", "older", "overtaken"}
             /\ end(d).phase = computes[d].phase /\ end(d).rows = computes[d].rows
             /\ end(d).older = computes[d].older \ {c}
             /\ end(d).overtaken = (computes[d].overtaken \/ d \in Behind(c))
  <2>1. DOMAIN computes[d] = {"phase", "rows", "older", "overtaken"}
    BY DEF TallyInv, TallyShape
  <2>2. QED
    BY <2>1
<1> HIDE DEF end
<1>3. QED
  BY <1>1, <1>2

(***************************************************************************)
(* An end overtakes what is behind it.  What is latest afterwards and not  *)
(* overtaken was latest before: were it behind, it would be overtaken now, *)
(* and a loop that goes on with nothing to read puts it behind itself.     *)
(***************************************************************************)
LEMMA EndKeepsLatest ==
  ASSUME TallyInv, NEW c \in Compute, Ended(c), UNCHANGED mapVars,
         computes[c].phase # "idle", UNCHANGED views, spoiled' \in BOOLEAN
  PROVE  TallyShape' /\ JoinsAreIdle' /\ LoopRuns' /\ LatestIsFresh'
<1>1. /\ DOMAIN computes' = Compute /\ dirty' = (dirty /\ ~ Again(c))
      /\ computes'[c] = IF Again(c) THEN Started(c, entries) ELSE Idle
      /\ \A d \in Compute \ {c} :
           /\ DOMAIN computes'[d] = {"phase", "rows", "older", "overtaken"}
           /\ computes'[d].phase = computes[d].phase /\ computes'[d].rows = computes[d].rows
           /\ computes'[d].older = computes[d].older \ {c}
           /\ computes'[d].overtaken = (computes[d].overtaken \/ d \in Behind(c))
  BY EndedFacts
<1> DEFINE r == Started(c, entries)
<1>2. IsStarted(r, c, entries, Weighing)
  BY StartedFacts
<1>3. Weighing \subseteq Compute /\ bucket' = bucket /\ bucket \in Nat
  BY DEF Weighing, mapVars, TallyInv, TallyShape
<1>4. TallyShape'
  <2>1. ASSUME NEW d \in Compute
        PROVE  /\ DOMAIN computes'[d] = {"phase", "rows", "older", "overtaken"}
               /\ computes'[d].phase \in {"idle", "reading", "weighing"}
               /\ computes'[d].older \subseteq Compute \ {d}
               /\ computes'[d].overtaken \in BOOLEAN
    <3>1. CASE d # c
      <4>1. /\ computes[d].phase \in {"idle", "reading", "weighing"}
            /\ computes[d].older \subseteq Compute \ {d}
            /\ computes[d].overtaken \in BOOLEAN
        BY DEF TallyInv, TallyShape
      <4>2. /\ DOMAIN computes'[d] = {"phase", "rows", "older", "overtaken"}
            /\ computes'[d].phase = computes[d].phase
            /\ computes'[d].older = computes[d].older \ {c}
            /\ computes'[d].overtaken = (computes[d].overtaken \/ d \in Behind(c))
        BY <1>1, <3>1
      <4>3. computes'[d].overtaken \in BOOLEAN
        BY <4>2, Zenon
      <4>4. QED
        BY <4>1, <4>2, <4>3
    <3>2. CASE d = c /\ Again(c)
      <4> HIDE DEF r
      <4>1. computes'[c] = r
        BY <1>1, <3>2 DEF r
      <4>2. /\ DOMAIN r = {"phase", "rows", "older", "overtaken"}
            /\ r.phase \in {"idle", "reading", "weighing"} /\ r.overtaken \in BOOLEAN
        BY <1>2 DEF IsStarted
      <4>3. r.older \subseteq Compute \ {c}
        BY <1>2, <1>3 DEF IsStarted
      <4>4. QED
        BY <3>2, <4>1, <4>2, <4>3
    <3>3. CASE d = c /\ ~ Again(c)
      <4>1. computes'[c] = Idle
        BY <1>1, <3>3
      <4>2. QED
        BY <3>3, <4>1 DEF Idle
    <3>4. QED
      BY <3>1, <3>2, <3>3
  <2>2. dirty' \in BOOLEAN
    BY <1>1
  <2>3. QED
    BY <1>1, <1>3, <2>1, <2>2 DEF TallyInv, TallyShape
<1>5. JoinsAreIdle'
  <2>1. SUFFICES ASSUME NEW v \in View, views[v] = "joining" PROVE computes'[v].phase = "idle"
    BY DEF JoinsAreIdle
  <2>2. v \in Compute \ {c} /\ computes[v].phase = "idle"
    BY <2>1 DEF TallyInv, JoinsAreIdle, Compute
  <2>3. QED
    BY <1>1, <2>2
<1>6. LoopRuns'
  <2>1. SUFFICES ASSUME dirty', NEW v \in View, views[v] = "on"
                 PROVE  computes'["loop"].phase # "idle"
    BY DEF LoopRuns
  <2>2. dirty /\ ~ Again(c) /\ listeners # {}
    BY <1>1, <2>1 DEF listeners
  <2>3. c # "loop" /\ computes["loop"].phase # "idle" /\ "loop" \in Compute
    BY <2>1, <2>2 DEF Again, TallyInv, LoopRuns, Compute
  <2>4. QED
    BY <1>1, <2>3
<1> HIDE DEF r
<1>7. LatestIsFresh'
  <2>1. SUFFICES ASSUME NEW d \in Weighing', ~ computes'[d].overtaken,
                        \A e \in Weighing' : d \notin computes'[e].older,
                        ~ dirty', Reading' = {}
                 PROVE  Fresh(computes[d].rows)'
    BY DEF LatestIsFresh
  <2>2. d \in Compute /\ computes'[d].phase = "weighing"
    BY <2>1 DEF Weighing
  <2>3. CASE d = c
    <3>1. Again(c)
      BY <1>1, <2>2, <2>3 DEF Idle
    <3>2. computes'[c] = r
      BY <1>1, <3>1 DEF r
    <3>3. entries = <<>> /\ computes'[c].rows = <<>>
      BY <1>2, <2>2, <2>3, <3>2 DEF IsStarted
    <3>4. Shows(<<>>, currentEntries(ToSet(entries'), bucket'), provisional', bucket')
      BY <3>3, NothingIsShown DEF mapVars
    <3>5. QED
      BY <2>3, <3>3, <3>4 DEF Fresh, held
  <2>4. CASE d # c
    <3>1. d \in Weighing /\ ~ computes[d].overtaken /\ d \notin Behind(c)
      BY <1>1, <2>1, <2>2, <2>4 DEF Weighing
    <3>2. computes[c].phase = "weighing" /\ d \notin computes[c].older
      <4>1. computes[c].phase # "reading"
        BY <3>1 DEF Behind
      <4>2. QED
        BY <3>1, <4>1 DEF Behind, TallyInv, TallyShape
    <3>3. ASSUME NEW e \in Weighing PROVE d \notin computes[e].older
      <4>1. CASE e = c
        BY <3>2, <4>1
      <4>2. CASE e # c
        <5>1. e \in Weighing' /\ computes'[e].older = computes[e].older \ {c}
          BY <1>1, <4>2 DEF Weighing
        <5>2. QED
          BY <2>1, <2>4, <5>1
      <4>3. QED
        BY <4>1, <4>2
    <3>4. Reading = {}
      <4>1. SUFFICES ASSUME NEW e \in Reading PROVE FALSE
        OBVIOUS
      <4>2. e \in Compute \ {c} /\ computes[e].phase = "reading"
        BY <3>2, <4>1 DEF Reading
      <4>3. e \in Reading'
        BY <1>1, <4>2 DEF Reading
      <4>4. QED
        BY <2>1, <4>3
    <3>5. ~ Again(c)
      <4>1. SUFFICES ASSUME Again(c) PROVE FALSE
        OBVIOUS
      <4>2. computes'[c] = r
        BY <1>1, <4>1 DEF r
      <4>3. c \notin Reading'
        BY <2>1
      <4>4. entries = <<>>
        BY <1>2, <4>2, <4>3 DEF IsStarted, Reading
      <4>5. c \in Weighing' /\ computes'[c].older = Weighing \ {c}
        BY <1>2, <4>2, <4>4 DEF IsStarted, Weighing
      <4>6. QED
        BY <2>1, <2>4, <3>1, <4>5
    <3>6. ~ dirty
      BY <1>1, <2>1, <3>5
    <3>7. Fresh(computes[d].rows)
      BY <3>1, <3>3, <3>4, <3>6 DEF TallyInv, LatestIsFresh
    <3>8. computes'[d].rows = computes[d].rows
      BY <1>1, <2>2, <2>4
    <3>9. QED
      BY <3>7, <3>8, SameVotes DEF Fresh
  <2>5. QED
    BY <2>3, <2>4
<1>8. QED
  BY <1>4, <1>5, <1>6, <1>7

(* What is cached when nothing is left at work was the latest.             *)
LEMMA EmitKeepsTally ==
  ASSUME TallyInv, NEW c \in Compute, Emit(c)
  PROVE  TallyInv'
<1>1. /\ computes[c].phase = "weighing" /\ Ended(c)
      /\ cached' = computes[c].rows /\ spoiled' = computes[c].overtaken
      /\ UNCHANGED views /\ UNCHANGED mapVars
  BY DEF Emit
<1>2. spoiled' \in BOOLEAN /\ c \notin computes[c].older
  BY <1>1 DEF TallyInv, TallyShape
<1>3. TallyShape' /\ JoinsAreIdle' /\ LoopRuns' /\ LatestIsFresh'
  BY <1>1, <1>2, EndKeepsLatest
<1>4. CachedIsFresh'
  <2>1. SUFFICES ASSUME ~ spoiled', AtWork' = {}, ~ dirty' PROVE Fresh(cached)'
    BY DEF CachedIsFresh
  <2>2. /\ dirty' = (dirty /\ ~ Again(c))
        /\ computes'[c] = IF Again(c) THEN Started(c, entries) ELSE Idle
        /\ \A d \in Compute \ {c} : computes'[d].phase = computes[d].phase
    BY <1>1, EndedFacts
  <2>3. \A d \in Compute : computes'[d].phase = "idle"
    BY <2>1 DEF AtWork
  <2>4. ~ Again(c)
    <3>1. IsStarted(Started(c, entries), c, entries, Weighing)
      BY StartedFacts
    <3>2. Started(c, entries).phase # "idle"
      BY <3>1 DEF IsStarted
    <3>3. QED
      BY <2>2, <2>3, <3>2
  <2>5. ~ dirty
    BY <2>1, <2>2, <2>4
  <2>6. Weighing = {c} /\ Reading = {}
    BY <1>1, <2>2, <2>3 DEF Weighing, Reading
  <2>7. Fresh(computes[c].rows)
    BY <1>1, <1>2, <2>1, <2>5, <2>6 DEF TallyInv, LatestIsFresh
  <2>8. QED
    BY <1>1, <2>7, SameVotes DEF Fresh
<1>5. QED
  BY <1>3, <1>4 DEF TallyInv

(* A compute that fails stores nothing, and what is cached is spoiled.     *)
LEMMA FailKeepsTally ==
  ASSUME TallyInv, NEW c \in Compute, Fail(c)
  PROVE  TallyInv'
<1>1. /\ computes[c].phase # "idle" /\ Ended(c) /\ spoiled' = TRUE
      /\ UNCHANGED <<views, cached>> /\ UNCHANGED mapVars
  BY DEF Fail
<1>2. TallyShape' /\ JoinsAreIdle' /\ LoopRuns' /\ LatestIsFresh'
  BY <1>1, EndKeepsLatest
<1>3. QED
  BY <1>1, <1>2 DEF TallyInv, CachedIsFresh

(* Every step of the tally keeps the invariant.                            *)
LEMMA TallyInvStep == TallyInv /\ MapInv /\ OneOfEach' /\ [TallyNext]_vars => TallyInv'
<1> SUFFICES ASSUME TallyInv, MapInv, OneOfEach', [TallyNext]_vars PROVE TallyInv'
  OBVIOUS
<1>1. CASE Change
  <2>1. kickTallyRefresh /\ bucket' = bucket
    BY <1>1 DEF Change, Insert, Settle, Delete, PruneMap
  <2>2. QED
    BY <2>1, KickKeepsTally
<1>2. CASE BucketPasses \/ SilentPrune
  BY <1>2, PassingKeepsTally, SilentPruneKeepsTally
<1>3. ASSUME NEW v \in View, ViewUpdate(v) \/ ViewJoined(v) \/ ViewStop(v)
      PROVE  TallyInv'
  BY <1>3, ViewUpdateKeepsTally, ViewJoinedKeepsTally, ViewStopKeepsTally
<1>4. ASSUME NEW c \in Compute, Recompute(c) \/ Fail(c)
      PROVE  TallyInv'
  BY <1>4, WeighKeepsTally, EmitKeepsTally, FailKeepsTally DEF Recompute
<1>5. CASE UNCHANGED vars
  <2>1. UNCHANGED mapVars /\ UNCHANGED tallyVars
    BY <1>5 DEF vars, mapVars, tallyVars
  <2>2. bucket' \in Nat
    BY <2>1 DEF TallyInv, TallyShape, mapVars
  <2>3. \A rows : Fresh(rows) => Shows(rows, currentEntries(held, bucket)', provisional', bucket')
    BY <2>1, SameVotes
  <2>4. QED
    BY <2>1, <2>2, <2>3, ShownKeepsTally
<1>6. QED
  BY <1>1, <1>2, <1>3, <1>4, <1>5 DEF TallyNext

(* A view that listens shows every vote in force, and besides these only   *)
(* votes that have run out, unless the last compute to end failed or had   *)
(* been overtaken (TallyIsCurrent).                                        *)
THEOREM ShownIsCurrent == TallySpec => []TallyIsCurrent
<1>1. TallyInv => TallyIsCurrent
  <2>1. SUFFICES ASSUME TallyInv, \E v \in View : views[v] = "on", AtWork = {}, ~ spoiled
                 PROVE  ~ dirty /\ Shows(cached, currentEntries(held, bucket), provisional, bucket)
    BY DEF TallyIsCurrent
  <2>2. computes["loop"].phase = "idle"
    BY <2>1 DEF AtWork, Compute
  <2>3. ~ dirty
    BY <2>1, <2>2 DEF TallyInv, LoopRuns
  <2>4. QED
    BY <2>1, <2>3 DEF TallyInv, CachedIsFresh, Fresh
<1>2. TallyInit => MapInv /\ OneOfEach /\ TallyInv
  BY MapInvInit, StartsWithNone, TallyInvInit DEF TallyInit
<1>3. MapInv /\ OneOfEach /\ [TallyNext]_vars => MapInv' /\ OneOfEach'
  BY TallyStepsMap, MapInvStep, OneOfEachStep
<1>4. QED
  BY <1>1, <1>2, <1>3, TallyInvStep, PTL DEF TallySpec

----------------------------------------------------------------------------
(* The order of the addresses.                                             *)

AddressRank(b) == addressRank[address[b]]

\* the list goes up by address
Ascends(list) == \A i, j \in DOMAIN list : i < j => AddressRank(list[i]) < AddressRank(list[j])

(* Winners that are of different wallets have one list that ascends: a     *)
(* winner's place in it is the number of those up to it.                   *)
LEMMA AscendingListExists ==
  ASSUME NEW W \in SUBSET Bundle, IsFiniteSet(W),
         \A b, c \in W : AddressRank(b) = AddressRank(c) => b = c
  PROVE  \E list \in [1..Cardinality(W) -> W] : Ascends(list)
<1> DEFINE N == Cardinality(W)
           upTo(b) == {c \in W : AddressRank(c) <= AddressRank(b)}
           place == [b \in W |-> Cardinality(upTo(b))]
<1>1. N \in Nat /\ \A b \in W : AddressRank(b) \in Int
  BY FS_CardinalityType, BundleAssumption, CodecAssumption DEF AddressRank
<1>2. ASSUME NEW b \in W
      PROVE  /\ upTo(b) \in SUBSET W /\ b \in upTo(b) /\ IsFiniteSet(upTo(b))
             /\ Cardinality(upTo(b)) \in 1..N
  <2>1. upTo(b) \in SUBSET W /\ b \in upTo(b)
    BY <1>1
  <2> HIDE DEF upTo
  <2>2. IsFiniteSet(upTo(b)) /\ Cardinality(upTo(b)) <= N
    BY <2>1, FS_Subset
  <2>3. Cardinality(upTo(b)) \in Nat /\ Cardinality(upTo(b)) # 0
    BY <2>1, <2>2, FS_CardinalityType, FS_EmptySet
  <2>4. QED
    BY <1>1, <2>1, <2>2, <2>3
<1>3. ASSUME NEW b \in W, NEW c \in W, AddressRank(b) < AddressRank(c)
      PROVE  Cardinality(upTo(b)) < Cardinality(upTo(c))
  <2>1. upTo(b) \in SUBSET upTo(c) /\ c \notin upTo(b)
    BY <1>1, <1>3
  <2>2. c \in upTo(c) /\ IsFiniteSet(upTo(c)) /\ Cardinality(upTo(b)) \in 1..N /\ Cardinality(upTo(c)) \in 1..N
    BY <1>2
  <2> HIDE DEF upTo
  <2>3. Cardinality(upTo(b)) <= Cardinality(upTo(c)) /\ Cardinality(upTo(b)) # Cardinality(upTo(c))
    BY <2>1, <2>2, FS_Subset
  <2>4. QED
    BY <1>1, <2>2, <2>3
<1> HIDE DEF upTo
<1>4. place \in Injection(W, 1..N)
  <2>1. place \in [W -> 1..N]
    BY <1>2
  <2>2. ASSUME NEW b \in W, NEW c \in W, place[b] = place[c]
        PROVE  b = c
    <3>1. ~ (AddressRank(b) < AddressRank(c)) /\ ~ (AddressRank(c) < AddressRank(b))
      <4>1. Cardinality(upTo(b)) = Cardinality(upTo(c)) /\ Cardinality(upTo(b)) \in Int
        BY <1>2, <2>2
      <4>2. QED
        BY <1>3, <4>1
    <3>2. QED
      BY <1>1, <3>1
  <2>3. QED
    BY <2>1, <2>2 DEF Injection, IsInjective
<1>5. place \in Surjection(W, 1..N)
  <2>1. IsFiniteSet(1..N) /\ Cardinality(1..N) = N
    BY <1>1, FS_Interval
  <2>2. QED
    BY <1>4, <2>1, FS_Injection
<1>6. place \in [W -> 1..N] /\ \A i \in 1..N : \E b \in W : place[b] = i
  BY <1>4, <1>5 DEF Injection, Surjection
<1> DEFINE list == [i \in 1..N |-> CHOOSE b \in W : place[b] = i]
<1>7. ASSUME NEW i \in 1..N
      PROVE  list[i] \in W /\ Cardinality(upTo(list[i])) = i
  <2>1. list[i] = CHOOSE b \in W : place[b] = i
    OBVIOUS
  <2> HIDE DEF list
  <2>2. list[i] \in W /\ place[list[i]] = i
    <3> HIDE DEF place
    <3> QED BY <1>6, <2>1
  <2>3. QED
    BY <2>2
<1>8. list \in [1..N -> W]
  BY <1>7
<1>9. ASSUME NEW i \in 1..N, NEW j \in 1..N, i < j
      PROVE  AddressRank(list[i]) < AddressRank(list[j])
  <2> HIDE DEF list
  <2>1. list[i] \in W /\ list[j] \in W /\ AddressRank(list[i]) \in Int /\ AddressRank(list[j]) \in Int
    BY <1>1, <1>7
  <2>2. ~ (AddressRank(list[j]) < AddressRank(list[i]))
    BY <1>1, <1>3, <1>7, <1>9
  <2>3. AddressRank(list[i]) # AddressRank(list[j])
    BY <1>1, <1>7, <1>9
  <2>4. QED
    BY <2>1, <2>2, <2>3
<1>10. QED
  <2> HIDE DEF list
  <2>1. DOMAIN list = 1..N
    BY <1>8
  <2>2. QED
    BY <1>8, <1>9, <2>1 DEF Ascends

(* What sorted gives ascends, and is all the winners.                      *)
LEMMA SortedFacts ==
  ASSUME NEW winners \in Seq(Bundle),
         \A p, q \in DOMAIN winners : p < q => ~ SameWallet(winners[p], winners[q])
  PROVE  /\ sorted(winners) \in Seq(Bundle)
         /\ ToSet(sorted(winners)) = ToSet(winners)
         /\ Ascends(sorted(winners))
<1> DEFINE N == Len(winners)
           W == ToSet(winners)
<1>1. N \in Nat /\ DOMAIN winners = 1..N /\ W = {winners[i] : i \in 1..N} /\ W \in SUBSET Bundle
  BY DEF ToSet
<1>2. \A b \in W : AddressRank(b) \in Int
  BY <1>1, BundleAssumption, CodecAssumption DEF AddressRank
<1>3. ASSUME NEW p \in 1..N, NEW q \in 1..N, SameWallet(winners[p], winners[q])
      PROVE  p = q
  <2>1. ~ (p < q) /\ ~ (q < p)
    BY <1>1, <1>3 DEF SameWallet
  <2>2. QED
    BY <1>1, <2>1
<1>4. ASSUME NEW b \in W, NEW c \in W, AddressRank(b) = AddressRank(c)
      PROVE  b = c
  <2>1. PICK p \in 1..N : b = winners[p]
    BY <1>1
  <2>2. PICK q \in 1..N : c = winners[q]
    BY <1>1
  <2>3. SameWallet(b, c)
    BY <1>1, <1>4, BundleAssumption, CodecAssumption DEF AddressRank, SameWallet
  <2>4. QED
    BY <1>3, <2>1, <2>2, <2>3
<1>5. IsFiniteSet(1..N) /\ Cardinality(1..N) = N
  BY <1>1, FS_Interval
<1>6. IsFiniteSet(W) /\ Cardinality(W) = N
  <2>1. winners \in [1..N -> W]
    BY <1>1
  <2>2. winners \in Bijection(1..N, W)
    BY <1>1, <1>3, <2>1 DEF Bijection, Injection, IsInjective, Surjection, SameWallet
  <2>3. QED
    <3> HIDE DEF N, W
    <3> QED BY <1>5, <2>2, FS_Bijection DEF ExistsBijection
<1> HIDE DEF W
<1>7. PICK list \in [1..N -> W] : Ascends(list)
  BY <1>1, <1>4, <1>6, AscendingListExists
<1> DEFINE s == sorted(winners)
<1>8. s \in [1..N -> W] /\ Ascends(s)
  <2>1. s = CHOOSE l \in [1..N -> W] : \A i, j \in DOMAIN l :
              i < j => addressRank[address[l[i]]] < addressRank[address[l[j]]]
    BY <1>1, Zenon DEF sorted, W
  <2> HIDE DEF s
  <2>2. QED
    BY <1>7, <2>1 DEF Ascends, AddressRank
<1> HIDE DEF s
<1>9. s \in Seq(Bundle) /\ DOMAIN s = 1..N
  BY <1>1, <1>8
<1>10. s \in Injection(1..N, W)
  <2>1. ASSUME NEW i \in 1..N, NEW j \in 1..N, s[i] = s[j]
        PROVE  i = j
    <3>1. s[i] \in W /\ AddressRank(s[i]) \in Int
      BY <1>2, <1>8
    <3>2. ~ (i < j) /\ ~ (j < i)
      BY <1>8, <1>9, <2>1, <3>1 DEF Ascends
    <3>3. QED
      BY <1>1, <3>2
  <2>2. QED
    BY <1>8, <2>1 DEF Injection, IsInjective
<1>11. s \in Surjection(1..N, W)
  BY <1>5, <1>6, <1>10, FS_Injection
<1>12. ToSet(s) = W
  <2>1. \A b \in W : \E i \in 1..N : s[i] = b
    BY <1>11 DEF Surjection
  <2>2. QED
    BY <1>8, <1>9, <2>1 DEF ToSet
<1>13. QED
  BY <1>8, <1>9, <1>12 DEF s, W

----------------------------------------------------------------------------
(* The bytes of a list, and the lists of a list.                           *)

Bytes(list) == FoldLeft(LAMBDA n, b : n + size[b], 0, list)

(* The bytes of a list are added up one bundle after the other.            *)
LEMMA BytesUnfold ==
  ASSUME NEW list \in Seq(Bundle)
  PROVE  \E sum \in [0..Len(list) -> Nat] :
           /\ sum[0] = 0
           /\ \A i \in 1..Len(list) : sum[i] = sum[i - 1] + size[list[i]]
           /\ Bytes(list) = sum[Len(list)]
<1> DEFINE N == Len(list)
           f == [i \in 1..N |-> [a \in Nat |-> a + size[list[i]]]]
           G(g) == g = [s \in SUBSET (DOMAIN list) |->
                     IF s = {} THEN 0 ELSE g[s \ {Max(s)}] + size[list[Max(s)]]]
           iter == CHOOSE g : G(g)
           base == 0
<1>1. Bytes(list) = iter[DOMAIN list]
  BY Zenon DEF Bytes, FoldLeft, MapThenFoldSet
<1>2. N \in Nat /\ DOMAIN list = 1..N /\ \A i \in 1..N : list[i] \in Bundle /\ size[list[i]] \in Nat
  BY CodecAssumption
<1>3. f \in [1..N -> [Nat -> Nat]]
  <2>1. \A i \in 1..N, a \in Nat : a + size[list[i]] \in Nat
    BY <1>2
  <2>2. QED
    BY <2>1
<1>4. base \in Nat
  OBVIOUS
<1>5. PICK g : IsFold(g, Nat, base, N, f)
  <2> DEFINE A == Nat
  <2>1. N \in Nat /\ base \in A /\ f \in [1..N -> [A -> A]]
    BY <1>2, <1>3, <1>4
  <2>2. \E g : IsFold(g, A, base, N, f)
    <3> HIDE DEF f, N, A, base
    <3> QED BY <2>1, FoldExists
  <2>3. QED
    BY <2>2
<1>6. G(g)
  <2>1. ASSUME NEW s \in SUBSET (1..N), s # {}
        PROVE  g[s] = g[s \ {Max(s)}] + size[list[Max(s)]]
    <3>1. Max(s) \in 1..N
      BY <1>2, <2>1, MaxOfIndices
    <3>2. g[s \ {Max(s)}] \in Nat
      BY <1>5 DEF IsFold
    <3>3. QED
      BY <1>5, <2>1, <3>1, <3>2 DEF IsFold
  <2>2. \A s \in SUBSET (1..N) : g[s] =
          IF s = {} THEN 0 ELSE g[s \ {Max(s)}] + size[list[Max(s)]]
    BY <1>5, <2>1 DEF IsFold
  <2>3. QED
    BY <1>2, <1>5, <2>2 DEF IsFold
<1>7. G(iter)
  <2> HIDE DEF G
  <2> QED BY <1>6
<1>8. \A s \in SUBSET (1..N) : iter[s] =
        IF s = {} THEN 0 ELSE iter[s \ {Max(s)}] + size[list[Max(s)]]
  <2> HIDE DEF iter
  <2> QED BY <1>2, <1>7
<1> HIDE DEF iter
<1>9. FoldsWithin(iter, Nat, base, N, f)
  <2>1. iter[{}] = base
    BY <1>8
  <2>2. ASSUME NEW s \in SUBSET (1..N), s # {}, iter[s \ {Max(s)}] \in Nat
        PROVE  iter[s] = f[Max(s)][iter[s \ {Max(s)}]]
    <3>1. Max(s) \in 1..N
      BY <1>2, <2>2, MaxOfIndices
    <3>2. QED
      BY <1>8, <2>2, <3>1
  <2>3. QED
    <3> HIDE DEF f, base
    <3> QED BY <2>1, <2>2 DEF FoldsWithin
<1>10. PICK sum : IsRun(sum, Nat, base, N, f) /\ sum[N] = iter[1..N]
  <2> DEFINE A == Nat
  <2>1. N \in Nat /\ base \in A /\ f \in [1..N -> [A -> A]] /\ FoldsWithin(iter, A, base, N, f)
    BY <1>2, <1>3, <1>4, <1>9
  <2>2. \E sum : IsRun(sum, A, base, N, f) /\ sum[N] = iter[1..N]
    <3> HIDE DEF f, N, A, base
    <3> QED BY <2>1, FoldRuns
  <2>3. QED
    BY <2>2
<1>11. ASSUME NEW i \in 1..N
       PROVE  sum[i] = sum[i - 1] + size[list[i]]
  <2>1. i - 1 \in 0..N
    BY <1>2
  <2>2. sum[i - 1] \in Nat
    BY <1>10, <2>1 DEF IsRun
  <2>3. QED
    BY <1>10, <2>2 DEF IsRun
<1>12. QED
  BY <1>1, <1>2, <1>10, <1>11 DEF IsRun

(* A bundle more.                                                          *)
LEMMA BytesOfOneMore ==
  ASSUME NEW list \in Seq(Bundle), NEW b \in Bundle
  PROVE  Bytes(list) \in Nat /\ Bytes(Append(list, b)) = Bytes(list) + size[b]
<1> DEFINE N == Len(list)
           more == Append(list, b)
<1>1. /\ N \in Nat /\ more \in Seq(Bundle) /\ Len(more) = N + 1
      /\ more[N + 1] = b /\ \A i \in 1..N : more[i] = list[i]
  OBVIOUS
<1>2. PICK sum \in [0..N -> Nat] :
        /\ sum[0] = 0
        /\ \A i \in 1..N : sum[i] = sum[i - 1] + size[list[i]]
        /\ Bytes(list) = sum[N]
  BY BytesUnfold
<1> HIDE DEF more
<1>3. PICK sumOfMore \in [0..N + 1 -> Nat] :
        /\ sumOfMore[0] = 0
        /\ \A i \in 1..N + 1 : sumOfMore[i] = sumOfMore[i - 1] + size[more[i]]
        /\ Bytes(more) = sumOfMore[N + 1]
  <2>1. PICK s \in [0..Len(more) -> Nat] :
          /\ s[0] = 0
          /\ \A i \in 1..Len(more) : s[i] = s[i - 1] + size[more[i]]
          /\ Bytes(more) = s[Len(more)]
    BY <1>1, BytesUnfold
  <2>2. QED
    BY <1>1, <2>1
<1> DEFINE T == {i \in 0..N : sumOfMore[i] # sum[i]}
<1>4. T = {}
  <2> SUFFICES ASSUME T # {} PROVE FALSE
    OBVIOUS
  <2>1. T \in SUBSET Nat
    BY <1>1
  <2>2. PICK i \in T : \A j \in T : i <= j
    <3> HIDE DEF T
    <3> QED BY <2>1, LeastNatural
  <2>3. i \in 0..N /\ i # 0
    BY <1>2, <1>3, <2>2
  <2>4. i \in 1..N /\ i \in 1..N + 1 /\ i - 1 \in 0..N /\ ~ (i <= i - 1)
    BY <1>1, <2>3
  <2>5. sumOfMore[i - 1] = sum[i - 1]
    BY <2>2, <2>4
  <2>6. sumOfMore[i] = sumOfMore[i - 1] + size[more[i]] /\ sum[i] = sum[i - 1] + size[list[i]]
    BY <1>2, <1>3, <2>4
  <2>7. sumOfMore[i] = sum[i]
    BY <1>1, <2>4, <2>5, <2>6
  <2>8. QED
    BY <2>2, <2>7
<1>5. N \in 0..N /\ N + 1 \in 1..N + 1 /\ (N + 1) - 1 = N
  BY <1>1
<1>6. sumOfMore[N] = sum[N] /\ sum[N] \in Nat
  BY <1>2, <1>4, <1>5
<1>7. sumOfMore[N + 1] = sumOfMore[N] + size[b]
  BY <1>1, <1>3, <1>5
<1>8. QED
  BY <1>2, <1>3, <1>6, <1>7 DEF more

\* flat lays the lists end to end
LaysOut(flat, lists) ==
  /\ flat \in [0..Len(lists) -> Seq(Bundle)] /\ flat[0] = <<>>
  /\ \A i \in 1..Len(lists) : flat[i] = flat[i - 1] \o lists[i]

(* FlattenSeq lays one list after the other.                               *)
LEMMA FlattenUnfold ==
  ASSUME NEW lists \in Seq(Seq(Bundle))
  PROVE  \E flat : LaysOut(flat, lists) /\ FlattenSeq(lists) = flat[Len(lists)]
<1> DEFINE N == Len(lists)
           A == Seq(Bundle)
           base == <<>>
           f == [i \in 1..N |-> [a \in A |-> a \o lists[i]]]
           G(g) == g = [i \in 1..N |-> IF i = 1 THEN lists[i] ELSE g[i - 1] \o lists[i]]
           iter == CHOOSE g : G(g)
<1>1. FlattenSeq(lists) = IF N = 0 THEN lists ELSE iter[N]
  BY Zenon DEF FlattenSeq
<1>2. N \in Nat /\ DOMAIN lists = 1..N /\ \A i \in 1..N : lists[i] \in A
  OBVIOUS
<1>3. f \in [1..N -> [A -> A]]
  <2>1. \A i \in 1..N, a \in A : a \o lists[i] \in A
    BY <1>2
  <2>2. QED
    BY <2>1
<1>4. base \in A
  OBVIOUS
<1>5. PICK g : IsFold(g, A, base, N, f)
  <2> HIDE DEF f, N, A, base
  <2> QED BY <1>2, <1>3, <1>4, FoldExists
<1>6. FoldsWithin(g, A, base, N, f)
  <2> HIDE DEF f, A, base
  <2>1. {} \in SUBSET (1..N)
    OBVIOUS
  <2>2. QED
    BY <1>5, <2>1 DEF IsFold, FoldsWithin
<1>7. PICK flat : IsRun(flat, A, base, N, f)
  <2> HIDE DEF f, N, A, base
  <2> QED BY <1>2, <1>3, <1>4, <1>6, FoldRuns
<1>8. /\ flat \in [0..N -> A] /\ flat[0] = <<>>
      /\ \A i \in 1..N : flat[i] = flat[i - 1] \o lists[i]
  <2>1. \A i \in 1..N : i - 1 \in 0..N
    BY <1>2
  <2>2. \A i \in 1..N : flat[i - 1] \in A
    BY <1>7, <2>1 DEF IsRun
  <2>3. QED
    BY <1>7, <2>2 DEF IsRun
<1> HIDE DEF A, f
<1> DEFINE h == [i \in 1..N |-> flat[i]]
<1>9. G(h)
  <2>1. ASSUME NEW i \in 1..N
        PROVE  h[i] = IF i = 1 THEN lists[i] ELSE h[i - 1] \o lists[i]
    <3>1. CASE i = 1
      <4>1. flat[i] = <<>> \o lists[i]
        <5>1. i - 1 = 0
          BY <3>1
        <5>2. flat[i - 1] = flat[0]
          BY <5>1
        <5>3. flat[i] = flat[i - 1] \o lists[i] /\ flat[0] = <<>>
          BY <1>8, Zenon
        <5>4. QED
          BY <5>2, <5>3, Zenon
      <4>2. <<>> \o lists[i] = lists[i]
        <5>1. lists[i] \in Seq(Bundle)
          BY <1>2 DEF A
        <5>2. QED
          BY <5>1
      <4>3. QED
        BY <3>1, <4>1, <4>2
    <3>2. CASE i # 1
      <4>1. i - 1 \in 1..N
        BY <1>2, <3>2
      <4>2. QED
        BY <1>8, <3>2, <4>1
    <3>3. QED
      BY <3>1, <3>2
  <2>2. QED
    BY <2>1
<1>10. G(iter)
  <2> HIDE DEF G
  <2> QED BY <1>9
<1>11. \A i \in 1..N : iter[i] = IF i = 1 THEN lists[i] ELSE iter[i - 1] \o lists[i]
  <2> HIDE DEF iter
  <2> QED BY <1>10
<1>12. \A i \in 1..N : h[i] = IF i = 1 THEN lists[i] ELSE h[i - 1] \o lists[i]
  <2> HIDE DEF h
  <2> QED BY <1>9
<1> HIDE DEF iter, h
<1> DEFINE T == {i \in 1..N : iter[i] # h[i]}
<1>13. T = {}
  <2> SUFFICES ASSUME T # {} PROVE FALSE
    OBVIOUS
  <2>1. T \in SUBSET Nat
    OBVIOUS
  <2>2. PICK i \in T : \A j \in T : i <= j
    <3> HIDE DEF T
    <3> QED BY <2>1, LeastNatural
  <2>3. i \in 1..N
    BY <2>2
  <2>4. i # 1
    BY <1>11, <1>12, <2>2, <2>3
  <2>5. i - 1 \in 1..N /\ ~ (i <= i - 1)
    BY <1>2, <2>3, <2>4
  <2>6. iter[i - 1] = h[i - 1]
    BY <2>2, <2>5
  <2>7. iter[i] = h[i]
    BY <1>11, <1>12, <2>3, <2>4, <2>6
  <2>8. QED
    BY <2>2, <2>7
<1>14. FlattenSeq(lists) = flat[N]
  <2>1. CASE N = 0
    <3>1. lists = <<>>
      BY <2>1
    <3>2. QED
      BY <1>1, <1>8, <2>1, <3>1
  <2>2. CASE N # 0
    <3>1. N \in 1..N
      BY <1>2, <2>2
    <3>2. iter[N] = h[N]
      BY <1>13, <3>1
    <3>3. QED
      BY <1>1, <2>2, <3>1, <3>2 DEF h
  <2>3. QED
    BY <2>1, <2>2
<1>15. QED
  BY <1>8, <1>14 DEF A, LaysOut

(* A list more.                                                            *)
LEMMA FlattenOfOneMore ==
  ASSUME NEW lists \in Seq(Seq(Bundle)), NEW list \in Seq(Bundle)
  PROVE  /\ FlattenSeq(lists) \in Seq(Bundle)
         /\ FlattenSeq(Append(lists, list)) = FlattenSeq(lists) \o list
<1> DEFINE N == Len(lists)
           more == Append(lists, list)
<1>1. /\ N \in Nat /\ more \in Seq(Seq(Bundle)) /\ Len(more) = N + 1
      /\ more[N + 1] = list /\ \A i \in 1..N : more[i] = lists[i]
  OBVIOUS
<1>2. PICK flat : LaysOut(flat, lists) /\ FlattenSeq(lists) = flat[N]
  BY FlattenUnfold
<1> HIDE DEF more
<1>3. PICK flatMore : LaysOut(flatMore, more) /\ FlattenSeq(more) = flatMore[N + 1]
  BY <1>1, FlattenUnfold
<1> DEFINE T == {i \in 0..N : flatMore[i] # flat[i]}
<1>4. T = {}
  <2> SUFFICES ASSUME T # {} PROVE FALSE
    OBVIOUS
  <2>1. T \in SUBSET Nat
    BY <1>1
  <2>2. PICK i \in T : \A j \in T : i <= j
    <3> HIDE DEF T
    <3> QED BY <2>1, LeastNatural
  <2>3. i \in 0..N /\ i # 0
    BY <1>2, <1>3, <2>2 DEF LaysOut
  <2>4. i \in 1..N /\ i \in 1..N + 1 /\ i - 1 \in 0..N /\ ~ (i <= i - 1)
    BY <1>1, <2>3
  <2>5. flatMore[i - 1] = flat[i - 1]
    BY <2>2, <2>4
  <2>6. flatMore[i] = flatMore[i - 1] \o more[i] /\ flat[i] = flat[i - 1] \o lists[i]
    BY <1>1, <1>2, <1>3, <2>4 DEF LaysOut
  <2>7. flatMore[i] = flat[i]
    BY <1>1, <2>4, <2>5, <2>6
  <2>8. QED
    BY <2>2, <2>7
<1>5. N \in 0..N /\ N + 1 \in 1..N + 1 /\ (N + 1) - 1 = N
  BY <1>1
<1>6. flatMore[N] = flat[N] /\ flat[N] \in Seq(Bundle)
  BY <1>2, <1>4, <1>5 DEF LaysOut
<1>7. flatMore[N + 1] = flatMore[N] \o list
  BY <1>1, <1>3, <1>5 DEF LaysOut
<1>8. QED
  BY <1>2, <1>3, <1>6, <1>7 DEF more

----------------------------------------------------------------------------
(* The size-cap fill.                                                      *)

Fill == [chunks : Seq(Seq(Bundle)), current : Seq(Bundle), currentBytes : Nat]

(* A bundle more gives a fill again.                                       *)
LEMMA PackOnFill ==
  ASSUME NEW fill \in Fill, NEW b \in Bundle
  PROVE  PackOn(fill, b) \in Fill
<1>1. size[b] \in Nat
  BY CodecAssumption
<1>2. /\ fill.chunks \in Seq(Seq(Bundle)) /\ fill.current \in Seq(Bundle) /\ fill.currentBytes \in Nat
      /\ fill = [chunks |-> fill.chunks, current |-> fill.current, currentBytes |-> fill.currentBytes]
  BY DEF Fill
<1>3. Append(fill.chunks, fill.current) \in Seq(Seq(Bundle)) /\ <<b>> \in Seq(Bundle)
  BY <1>2
<1>4. Append(fill.current, b) \in Seq(Bundle) /\ fill.currentBytes + size[b] \in Nat
  BY <1>1, <1>2
<1>5. CASE fill.current # <<>> /\ fill.currentBytes + size[b] > maxChunkBytes
  <2>1. PackOn(fill, b) =
          [chunks |-> Append(fill.chunks, fill.current), current |-> <<b>>, currentBytes |-> size[b]]
    BY <1>5 DEF PackOn
  <2>2. QED
    BY <1>1, <1>3, <2>1 DEF Fill
<1>6. CASE ~ (fill.current # <<>> /\ fill.currentBytes + size[b] > maxChunkBytes)
  <2>1. PackOn(fill, b) = [fill EXCEPT !.current = Append(@, b), !.currentBytes = @ + size[b]]
    BY <1>6 DEF PackOn
  <2>2. PackOn(fill, b) =
          [chunks |-> fill.chunks, current |-> Append(fill.current, b),
           currentBytes |-> fill.currentBytes + size[b]]
    BY <1>2, <2>1
  <2>3. QED
    BY <1>2, <1>4, <2>2 DEF Fill
<1>7. QED
  BY <1>5, <1>6

(* The fill takes the bundles one after the other.                         *)
LEMMA FillUnfold ==
  ASSUME NEW list \in Seq(Bundle)
  PROVE  \E filled \in [0..Len(list) -> Fill] :
           /\ filled[0] = EmptyFill
           /\ \A i \in 1..Len(list) : filled[i] = PackOn(filled[i - 1], list[i])
           /\ FoldLeft(PackOn, EmptyFill, list) = filled[Len(list)]
<1> DEFINE N == Len(list)
           f == [i \in 1..N |-> [a \in Fill |-> PackOn(a, list[i])]]
           G(g) == g = [s \in SUBSET (DOMAIN list) |->
                     IF s = {} THEN EmptyFill ELSE PackOn(g[s \ {Max(s)}], list[Max(s)])]
           iter == CHOOSE g : G(g)
<1>1. FoldLeft(PackOn, EmptyFill, list) = iter[DOMAIN list]
  BY Zenon DEF FoldLeft, MapThenFoldSet
<1>2. N \in Nat /\ DOMAIN list = 1..N /\ \A i \in 1..N : list[i] \in Bundle
  OBVIOUS
<1>3. f \in [1..N -> [Fill -> Fill]]
  BY <1>2, PackOnFill
<1>4. EmptyFill \in Fill
  BY DEF EmptyFill, Fill
<1>5. PICK g : IsFold(g, Fill, EmptyFill, N, f)
  <2> HIDE DEF f, N
  <2> QED BY <1>2, <1>3, <1>4, FoldExists
<1>6. G(g)
  <2>1. ASSUME NEW s \in SUBSET (1..N), s # {}
        PROVE  g[s] = PackOn(g[s \ {Max(s)}], list[Max(s)])
    <3>1. Max(s) \in 1..N
      BY <1>2, <2>1, MaxOfIndices
    <3>2. g[s \ {Max(s)}] \in Fill
      BY <1>5 DEF IsFold
    <3>3. QED
      BY <1>5, <2>1, <3>1, <3>2 DEF IsFold
  <2>2. \A s \in SUBSET (1..N) : g[s] =
          IF s = {} THEN EmptyFill ELSE PackOn(g[s \ {Max(s)}], list[Max(s)])
    BY <1>5, <2>1 DEF IsFold
  <2>3. QED
    BY <1>2, <1>5, <2>2 DEF IsFold
<1>7. G(iter)
  <2> HIDE DEF G
  <2> QED BY <1>6
<1>8. \A s \in SUBSET (1..N) : iter[s] =
        IF s = {} THEN EmptyFill ELSE PackOn(iter[s \ {Max(s)}], list[Max(s)])
  <2> HIDE DEF iter
  <2> QED BY <1>2, <1>7
<1> HIDE DEF iter
<1>9. FoldsWithin(iter, Fill, EmptyFill, N, f)
  <2>1. iter[{}] = EmptyFill
    BY <1>8
  <2>2. ASSUME NEW s \in SUBSET (1..N), s # {}, iter[s \ {Max(s)}] \in Fill
        PROVE  iter[s] = f[Max(s)][iter[s \ {Max(s)}]]
    <3>1. Max(s) \in 1..N
      BY <1>2, <2>2, MaxOfIndices
    <3>2. QED
      BY <1>8, <2>2, <3>1
  <2>3. QED
    <3> HIDE DEF f
    <3> QED BY <2>1, <2>2 DEF FoldsWithin
<1>10. PICK filled : IsRun(filled, Fill, EmptyFill, N, f) /\ filled[N] = iter[1..N]
  <2> HIDE DEF f, N
  <2> QED BY <1>2, <1>3, <1>4, <1>9, FoldRuns
<1>11. ASSUME NEW i \in 1..N
       PROVE  filled[i] = PackOn(filled[i - 1], list[i])
  <2>1. i - 1 \in 0..N
    BY <1>2
  <2>2. filled[i - 1] \in Fill
    BY <1>10, <2>1 DEF IsRun
  <2>3. QED
    BY <1>10, <2>2 DEF IsRun
<1>12. QED
  BY <1>1, <1>2, <1>10, <1>11 DEF IsRun

\* each chunk within the cap or a single bundle, and none with room for more
Packs(lists) ==
  /\ \A i \in DOMAIN lists : lists[i] # <<>> /\ (Bytes(lists[i]) <= maxChunkBytes \/ Len(lists[i]) = 1)
  /\ \A i \in 1..(Len(lists) - 1) : Bytes(lists[i]) + size[Head(lists[i + 1])] > maxChunkBytes

\* the chunks, with the one that is being filled
WithCurrent(fill) == IF fill.current = <<>> THEN fill.chunks ELSE Append(fill.chunks, fill.current)

\* what the fill has packed of a list
HasPacked(fill, list) ==
  /\ fill.currentBytes = Bytes(fill.current)
  /\ fill.current = <<>> => fill.chunks = <<>>
  /\ Packs(WithCurrent(fill)) /\ FlattenSeq(WithCurrent(fill)) = list

(* A chunk more.                                                           *)
LEMMA PacksOneMore ==
  ASSUME NEW lists \in Seq(Seq(Bundle)), NEW chunk \in Seq(Bundle), chunk # <<>>,
         Packs(lists), Bytes(chunk) <= maxChunkBytes \/ Len(chunk) = 1,
         lists = <<>> \/ Bytes(lists[Len(lists)]) + size[Head(chunk)] > maxChunkBytes
  PROVE  Packs(Append(lists, chunk))
<1> DEFINE N == Len(lists)
           more == Append(lists, chunk)
<1>1. /\ N \in Nat /\ more \in Seq(Seq(Bundle)) /\ Len(more) = N + 1 /\ DOMAIN more = 1..N + 1
      /\ DOMAIN lists = 1..N /\ more[N + 1] = chunk /\ \A i \in 1..N : more[i] = lists[i]
  OBVIOUS
<1>2. N = 0 \/ Bytes(lists[N]) + size[Head(chunk)] > maxChunkBytes
  OBVIOUS
<1> HIDE DEF more, N
<1>3. ASSUME NEW i \in 1..N + 1
      PROVE  more[i] # <<>> /\ (Bytes(more[i]) <= maxChunkBytes \/ Len(more[i]) = 1)
  <2>1. CASE i \in 1..N
    BY <1>1, <2>1 DEF Packs
  <2>2. CASE i = N + 1
    BY <1>1, <2>2
  <2>3. QED
    BY <1>1, <2>1, <2>2
<1>4. ASSUME NEW i \in 1..N
      PROVE  Bytes(more[i]) + size[Head(more[i + 1])] > maxChunkBytes
  <2>1. CASE i = N
    BY <1>1, <1>2, <2>1
  <2>2. CASE i # N
    <3>1. i \in 1..(N - 1) /\ i + 1 \in 1..N
      BY <1>1, <2>2
    <3>2. QED
      BY <1>1, <3>1 DEF Packs, N
  <2>3. QED
    BY <2>1, <2>2
<1>5. QED
  BY <1>1, <1>3, <1>4 DEF Packs, more

(* A chunk less.                                                           *)
LEMMA PacksOneLess ==
  ASSUME NEW lists \in Seq(Seq(Bundle)), NEW chunk \in Seq(Bundle), Packs(Append(lists, chunk))
  PROVE  /\ Packs(lists)
         /\ lists = <<>> \/ Bytes(lists[Len(lists)]) + size[Head(chunk)] > maxChunkBytes
<1> DEFINE N == Len(lists)
           more == Append(lists, chunk)
<1>1. /\ N \in Nat /\ Len(more) = N + 1 /\ DOMAIN more = 1..N + 1
      /\ DOMAIN lists = 1..N /\ more[N + 1] = chunk /\ \A i \in 1..N : more[i] = lists[i]
      /\ N = 0 => lists = <<>>
  OBVIOUS
<1>2. Packs(more)
  OBVIOUS
<1> HIDE DEF more, N
<1>3. \A i \in 1..N : i \in 1..N + 1 /\ i \in 1..(N + 1 - 1)
  BY <1>1
<1>4. ASSUME NEW i \in 1..N
      PROVE  lists[i] # <<>> /\ (Bytes(lists[i]) <= maxChunkBytes \/ Len(lists[i]) = 1)
  BY <1>1, <1>2, <1>3 DEF Packs
<1>5. ASSUME NEW i \in 1..N
      PROVE  Bytes(lists[i]) + size[Head(more[i + 1])] > maxChunkBytes
  BY <1>1, <1>2, <1>3 DEF Packs
<1>6. ASSUME NEW i \in 1..(N - 1)
      PROVE  Bytes(lists[i]) + size[Head(lists[i + 1])] > maxChunkBytes
  <2>1. i \in 1..N /\ i + 1 \in 1..N
    BY <1>1
  <2>2. QED
    BY <1>1, <1>5, <2>1
<1>7. N # 0 => Bytes(lists[N]) + size[Head(chunk)] > maxChunkBytes
  <2>1. N # 0 => N \in 1..N
    BY <1>1
  <2>2. QED
    BY <1>1, <1>5, <2>1
<1>8. QED
  BY <1>1, <1>4, <1>6, <1>7 DEF Packs, N

(* Nothing is packed into nothing.                                         *)
LEMMA NothingPacked ==
  Bytes(<<>>) = 0 /\ Packs(<<>>) /\ FlattenSeq(<<>>) = <<>>
<1>1. Bytes(<<>>) = 0
  <2> DEFINE list == <<>>
  <2>1. list \in Seq(Bundle) /\ Len(list) = 0
    OBVIOUS
  <2>2. Bytes(list) = 0
    <3> HIDE DEF list
    <3> QED BY <2>1, BytesUnfold
  <2>3. QED
    BY <2>2
<1>2. Packs(<<>>)
  BY DEF Packs
<1>3. FlattenSeq(<<>>) = <<>>
  BY DEF FlattenSeq
<1>4. QED
  BY <1>1, <1>2, <1>3

(* A bundle more keeps what was packed.                                    *)
LEMMA PackOnPacks ==
  ASSUME NEW fill \in Fill, NEW list \in Seq(Bundle), NEW b \in Bundle, HasPacked(fill, list)
  PROVE  HasPacked(PackOn(fill, b), Append(list, b))
<1> DEFINE chunks == fill.chunks
           current == fill.current
           bytes == fill.currentBytes
           one == <<b>>
           on == Append(current, b)
<1>1. /\ chunks \in Seq(Seq(Bundle)) /\ current \in Seq(Bundle) /\ bytes \in Nat
      /\ fill = [chunks |-> chunks, current |-> current, currentBytes |-> bytes]
  BY DEF Fill
<1>2. one \in Seq(Bundle) /\ one # <<>> /\ Len(one) = 1 /\ Head(one) = b /\ one = Append(<<>>, b)
  OBVIOUS
<1>3. on \in Seq(Bundle) /\ on # <<>> /\ (current # <<>> => Head(on) = Head(current))
  <2>1. /\ on \in Seq(Bundle) /\ Len(on) = Len(current) + 1 /\ Len(current) \in Nat
        /\ \A i \in 1..Len(current) : on[i] = current[i]
    BY <1>1
  <2>2. current # <<>> => Len(current) # 0
    BY <1>1
  <2> HIDE DEF on, current
  <2>3. on # <<>>
    BY <2>1
  <2>4. current # <<>> => on[1] = current[1]
    BY <2>1, <2>2
  <2>5. QED
    BY <2>1, <2>3, <2>4
<1>4. bytes = Bytes(current) /\ size[b] \in Nat /\ maxChunkBytes \in Nat
  BY CodecAssumption DEF HasPacked
<1>5. Bytes(on) = bytes + size[b] /\ Bytes(one) = size[b]
  <2>1. <<>> \in Seq(Bundle)
    OBVIOUS
  <2>2. Bytes(on) = Bytes(current) + size[b]
    BY <1>1, BytesOfOneMore
  <2>3. Bytes(Append(<<>>, b)) = 0 + size[b]
    BY <2>1, BytesOfOneMore, NothingPacked
  <2>4. QED
    BY <1>2, <1>4, <2>2, <2>3
<1> HIDE DEF one, on
<1>6. CASE current # <<>> /\ bytes + size[b] > maxChunkBytes
  <2> DEFINE full == Append(chunks, current)
  <2>1. PackOn(fill, b) = [chunks |-> full, current |-> one, currentBytes |-> size[b]]
    BY <1>6 DEF PackOn, one
  <2>2. full = WithCurrent(fill) /\ full \in Seq(Seq(Bundle)) /\ full[Len(full)] = current
    BY <1>1, <1>6 DEF WithCurrent
  <2>3. Packs(full) /\ FlattenSeq(full) = list
    BY <2>2 DEF HasPacked
  <2> HIDE DEF full
  <2>4. Bytes(full[Len(full)]) + size[Head(one)] > maxChunkBytes
    BY <1>2, <1>4, <1>6, <2>2
  <2>5. Packs(Append(full, one))
    BY <1>2, <2>2, <2>3, <2>4, PacksOneMore
  <2>6. FlattenSeq(Append(full, one)) = Append(list, b)
    <3>1. FlattenSeq(Append(full, one)) = list \o one
      BY <1>2, <2>2, <2>3, FlattenOfOneMore
    <3>2. list \o one = Append(list, b)
      BY DEF one
    <3>3. QED
      BY <3>1, <3>2
  <2>7. WithCurrent(PackOn(fill, b)) = Append(full, one)
    BY <1>2, <2>1 DEF WithCurrent
  <2>8. QED
    <3>1. PackOn(fill, b).current = one /\ PackOn(fill, b).currentBytes = size[b]
      BY <2>1
    <3>2. QED
      BY <1>2, <1>5, <2>5, <2>6, <2>7, <3>1, Zenon DEF HasPacked
<1>7. CASE ~ (current # <<>> /\ bytes + size[b] > maxChunkBytes)
  <2>1. PackOn(fill, b) = [chunks |-> chunks, current |-> on, currentBytes |-> bytes + size[b]]
    <3>1. PackOn(fill, b) = [fill EXCEPT !.current = Append(@, b), !.currentBytes = @ + size[b]]
      BY <1>7 DEF PackOn
    <3>2. QED
      BY <1>1, <3>1 DEF on
  <2>2. WithCurrent(PackOn(fill, b)) = Append(chunks, on)
    BY <1>3, <2>1 DEF WithCurrent
  <2>3. Packs(Append(chunks, on)) /\ FlattenSeq(Append(chunks, on)) = Append(list, b)
    <3>1. FlattenSeq(chunks) \in Seq(Bundle) /\ FlattenSeq(Append(chunks, on)) = FlattenSeq(chunks) \o on
      BY <1>1, <1>3, FlattenOfOneMore
    <3>2. CASE current = <<>>
      <4>1. chunks = <<>> /\ list = <<>> /\ on = one
        BY <1>2, <3>2, NothingPacked DEF HasPacked, WithCurrent, on
      <4>2. Packs(Append(chunks, on))
        BY <1>1, <1>2, <4>1, NothingPacked, PacksOneMore
      <4>3. FlattenSeq(chunks) \o on = Append(list, b)
        <5>1. <<>> \o one = one
          BY <1>2
        <5>2. FlattenSeq(chunks) = <<>>
          BY <4>1, NothingPacked
        <5>3. QED
          BY <1>2, <4>1, <5>1, <5>2
      <4>4. QED
        BY <3>1, <4>2, <4>3
    <3>3. CASE current # <<>>
      <4>1. Packs(Append(chunks, current)) /\ FlattenSeq(Append(chunks, current)) = list
        BY <3>3 DEF HasPacked, WithCurrent
      <4>2. Packs(chunks) /\ (chunks = <<>> \/ Bytes(chunks[Len(chunks)]) + size[Head(current)] > maxChunkBytes)
        BY <1>1, <4>1, PacksOneLess
      <4>3. Bytes(on) <= maxChunkBytes
        BY <1>1, <1>4, <1>5, <1>7, <3>3
      <4>4. Packs(Append(chunks, on))
        BY <1>1, <1>3, <3>3, <4>2, <4>3, PacksOneMore
      <4>5. FlattenSeq(chunks) \o current = list
        BY <1>1, <4>1, FlattenOfOneMore
      <4>6. FlattenSeq(chunks) \o on = Append(list, b)
        <5>1. \A s \in Seq(Bundle), t \in Seq(Bundle) : s \o Append(t, b) = Append(s \o t, b)
          OBVIOUS
        <5>2. QED
          BY <1>1, <3>1, <4>5, <5>1 DEF on
      <4>7. QED
        BY <3>1, <4>4, <4>6
    <3>4. QED
      BY <3>2, <3>3
  <2>4. QED
    <3>1. PackOn(fill, b).current = on /\ PackOn(fill, b).currentBytes = bytes + size[b]
      BY <2>1
    <3>2. QED
      BY <1>3, <1>5, <2>2, <2>3, <3>1, Zenon DEF HasPacked
<1>8. QED
  BY <1>6, <1>7

(* The chunks of a list hold it, end to end.                               *)
LEMMA PackedFacts ==
  ASSUME NEW list \in Seq(Bundle)
  PROVE  packed(list) \in Seq(Seq(Bundle)) /\ Packs(packed(list)) /\ FlattenSeq(packed(list)) = list
<1> DEFINE N == Len(list)
           first(i) == [j \in 1..i |-> list[j]]
<1>1. N \in Nat /\ DOMAIN list = 1..N /\ \A i \in 1..N : list[i] \in Bundle
  OBVIOUS
<1>2. PICK filled \in [0..N -> Fill] :
        /\ filled[0] = EmptyFill
        /\ \A i \in 1..N : filled[i] = PackOn(filled[i - 1], list[i])
        /\ FoldLeft(PackOn, EmptyFill, list) = filled[N]
  BY FillUnfold
<1>3. first(0) = <<>> /\ first(N) = list /\ \A i \in 0..N : first(i) \in Seq(Bundle)
  BY <1>1
<1>4. \A i \in 1..N : first(i) = Append(first(i - 1), list[i])
  BY <1>1
<1> HIDE DEF first
<1>5. HasPacked(filled[0], first(0))
  <2>1. WithCurrent(EmptyFill) = <<>> /\ EmptyFill.currentBytes = 0 /\ EmptyFill.current = <<>> /\ EmptyFill.chunks = <<>>
    BY DEF WithCurrent, EmptyFill
  <2>2. HasPacked(EmptyFill, <<>>)
    BY <2>1, NothingPacked DEF HasPacked
  <2>3. QED
    BY <1>2, <1>3, <2>2
<1>6. ASSUME NEW i \in 1..N, HasPacked(filled[i - 1], first(i - 1))
      PROVE  HasPacked(filled[i], first(i))
  <2>1. i - 1 \in 0..N /\ list[i] \in Bundle
    BY <1>1
  <2>2. filled[i - 1] \in Fill /\ first(i - 1) \in Seq(Bundle)
    BY <1>3, <2>1
  <2>3. HasPacked(PackOn(filled[i - 1], list[i]), Append(first(i - 1), list[i]))
    BY <1>6, <2>1, <2>2, PackOnPacks
  <2>4. QED
    BY <1>2, <1>4, <2>3
<1> DEFINE T == {i \in 0..N : ~ HasPacked(filled[i], first(i))}
<1>7. T = {}
  <2> SUFFICES ASSUME T # {} PROVE FALSE
    OBVIOUS
  <2>1. T \in SUBSET Nat
    BY <1>1
  <2>2. PICK i \in T : \A j \in T : i <= j
    <3> HIDE DEF T
    <3> QED BY <2>1, LeastNatural
  <2>3. i \in 0..N /\ i # 0
    BY <1>5, <2>2
  <2>4. i \in 1..N /\ i - 1 \in 0..N /\ ~ (i <= i - 1)
    BY <1>1, <2>3
  <2>5. HasPacked(filled[i - 1], first(i - 1))
    BY <2>2, <2>4
  <2>6. QED
    BY <1>6, <2>2, <2>4, <2>5
<1>8. N \in 0..N /\ HasPacked(filled[N], list) /\ filled[N] \in Fill
  <2>1. N \in 0..N
    BY <1>1
  <2>2. QED
    BY <1>2, <1>3, <1>7, <2>1
<1>9. packed(list) = WithCurrent(filled[N])
  BY <1>2, Zenon DEF packed, WithCurrent
<1>10. WithCurrent(filled[N]) \in Seq(Seq(Bundle))
  <2> DEFINE fill == filled[N]
  <2>1. fill.chunks \in Seq(Seq(Bundle)) /\ fill.current \in Seq(Bundle)
    BY <1>8 DEF Fill
  <2> HIDE DEF fill
  <2>2. WithCurrent(fill) \in Seq(Seq(Bundle))
    BY <2>1 DEF WithCurrent
  <2>3. QED
    BY <2>2 DEF fill
<1>11. QED
  BY <1>8, <1>9, <1>10 DEF HasPacked

(***************************************************************************)
(* Nodes that serve the same votes serve the same blocks: the record holds *)
(* the verified votes that count, in the order of their wallets, in chunks *)
(* filled up to the cap (encodeCheckpoint).                                *)
(***************************************************************************)
THEOREM RecordIsRight == TallySpec => []RecordIsCanonical
<1>1. TallyInit => OneOfEach
  BY StartsWithNone
<1>2. OneOfEach /\ [TallyNext]_vars => OneOfEach'
  BY TallyStepsMap, OneOfEachStep
<1>3. OneOfEach => RecordIsCanonical
  <2> SUFFICES ASSUME OneOfEach PROVE RecordIsCanonical
    OBVIOUS
  <2> DEFINE verified == keepOnly(entries, held \ provisional)
             winners == currentInOrder(verified, bucket)
             flat == sorted(winners)
             lists == packed(flat)
  <2>1. verified \in Seq(Bundle) /\ ToSet(verified) = held \ provisional /\ NoRepeats(verified)
    <3>1. verified \in Seq(Bundle) /\ ToSet(verified) = held \cap (held \ provisional)
      BY KeepOnlyFacts DEF OneOfEach, held
    <3>2. NoRepeats(verified)
      BY KeepsNoRepeats DEF OneOfEach
    <3>3. QED
      BY <3>1, <3>2
  <2> HIDE DEF verified
  <2>2. /\ winners \in Seq(Bundle) /\ ToSet(winners) = currentEntries(held \ provisional, bucket)
        /\ \A p, q \in DOMAIN winners : p < q => ~ SameWallet(winners[p], winners[q])
    BY <2>1, ShownOncePerWallet
  <2> HIDE DEF winners
  <2>3. /\ flat \in Seq(Bundle) /\ ToSet(flat) = currentEntries(held \ provisional, bucket)
        /\ Ascends(flat)
    BY <2>2, SortedFacts
  <2> HIDE DEF flat
  <2>4. lists \in Seq(Seq(Bundle)) /\ Packs(lists) /\ FlattenSeq(lists) = flat
    BY <2>3, PackedFacts
  <2> HIDE DEF lists
  <2>5. [i \in DOMAIN record.chunks |-> record.chunks[i].list] = lists
    <3>1. record.chunks = [i \in DOMAIN lists |-> ChunkBlock(lists[i])]
      BY DEF record, encodeCheckpoint, lists, flat, winners, verified
    <3>2. DOMAIN record.chunks = DOMAIN lists /\ \A i \in DOMAIN lists : record.chunks[i].list = lists[i]
      BY <3>1 DEF ChunkBlock
    <3>3. lists = [i \in DOMAIN lists |-> lists[i]]
      BY <2>4
    <3>4. QED
      BY <3>2, <3>3
  <2>6. /\ ToSet(FlattenSeq(lists)) = currentEntries(held \ provisional, bucket)
        /\ \A i, j \in DOMAIN FlattenSeq(lists) :
             i < j => addressRank[address[FlattenSeq(lists)[i]]] < addressRank[address[FlattenSeq(lists)[j]]]
    BY <2>3, <2>4, Zenon DEF Ascends, AddressRank
  <2>7. QED
    BY <2>4, <2>5, <2>6, Zenon DEF RecordIsCanonical, Packs, Bytes
<1>4. QED
  BY <1>1, <1>2, <1>3, PTL DEF TallySpec

(***************************************************************************)
(* Whatever index comes with a root and whatever blocks are at hand, a     *)
(* decode gives the record's votes or none (decodeCheckpoint).             *)
(***************************************************************************)
THEOREM DecodesWhole == TallySpec => []DecodeIsWholeOrNothing
<1>1. DecodeIsWholeOrNothing
  <2> DEFINE chunks == record.chunks
             whole == [kind |-> "decoded", bundles |-> FlattenSeq([i \in DOMAIN chunks |-> chunks[i].list])]
  <2>1. record.root = RootBlock(chunks) /\ record.blocks = ToSet(chunks) \cup {RootBlock(chunks)}
    BY DEF record, encodeCheckpoint
  <2> HIDE DEF chunks
  <2>2. ASSUME NEW claim
        PROVE  chunkIndex(record.root, claim) = chunks
    BY <2>1 DEF chunkIndex, RootBlock
  <2>3. ASSUME NEW claim, NEW available
        PROVE  decodeCheckpoint(record.root, available, claim) =
                 IF \/ ToSet(chunks) \ available # {}
                    \/ RootBlock(claim) # record.root /\ record.root \notin available
                 THEN Unavailable ELSE whole
    BY <2>2 DEF decodeCheckpoint
  <2>4. ASSUME NEW claim
        PROVE  decodeCheckpoint(record.root, record.blocks, claim) = whole
    BY <2>1, <2>3
  <2>5. ASSUME NEW claim, NEW available
        PROVE  decodeCheckpoint(record.root, available, claim) \in {whole, Unavailable}
    BY <2>3
  <2>6. QED
    BY <2>4, <2>5, Zenon DEF DecodeIsWholeOrNothing, chunks
<1>2. QED
  BY <1>1, PTL

==============================================================================
