-------------------------- MODULE AgentTurnProofs --------------------------
(***************************************************************************)
(* Theorems about AgentTurn and the operators of AgentHistory and          *)
(* LoopDetector, for any calls, budgets, quotas and thresholds.            *)
(***************************************************************************)
EXTENDS AgentTurn, FiniteSetTheorems, WellFoundedInduction, TLAPS

-----------------------------------------------------------------------------
(* Numbers in a finite set *)

\* Of any natural numbers one is the least.
LEMMA LeastExists ==
  ASSUME NEW T \in SUBSET Nat, T # {}
  PROVE  \E m \in T : \A n \in T : m <= n
<1>1. PICK m \in T : \A n \in T : ~ (<<n, m>> \in OpToRel(<, Nat))
  BY NatLessThanWellFounded, WFMin
<1>2. \A n \in T : ~ (n < m)
  BY <1>1 DEF OpToRel
<1> QED
  BY <1>2

Below(K, i) == {j \in K : j < i}

LEMMA InBelow ==
  ASSUME NEW K, NEW i, NEW j
  PROVE  j \in Below(K, i) <=> j \in K /\ j < i
BY DEF Below

LEMMA BelowIsFinite ==
  ASSUME NEW K, IsFiniteSet(K), NEW i
  PROVE  /\ IsFiniteSet(Below(K, i)) /\ Cardinality(Below(K, i)) \in Nat
         /\ Cardinality(Below(K, i)) <= Cardinality(K)
<1>1. Below(K, i) \in SUBSET K
  BY DEF Below
<1> QED
  BY <1>1, FS_Subset, FS_CardinalityType

\* Of two members the greater has more below it.
LEMMA RankGrows ==
  ASSUME NEW K \in SUBSET Nat, IsFiniteSet(K), NEW i \in K, NEW j \in K, i < j
  PROVE  Cardinality(Below(K, i)) + 1 <= Cardinality(Below(K, j))
<1>1. i \notin Below(K, i) /\ Below(K, i) \cup {i} \in SUBSET Below(K, j)
  <2>1. ASSUME NEW k \in Below(K, i) PROVE k \in Below(K, j) /\ k # i
    <3>1. k \in K /\ k < i
      BY InBelow
    <3>2. k \in Nat /\ i \in Nat /\ j \in Nat
      BY <3>1
    <3>3. k < j /\ k # i
      BY <3>1, <3>2
    <3> QED
      BY <3>1, <3>3, InBelow
  <2>2. i \in Below(K, j)
    BY InBelow
  <2> QED
    BY <2>1, <2>2
<1>2. Cardinality(Below(K, i) \cup {i}) = Cardinality(Below(K, i)) + 1
  BY <1>1, BelowIsFinite, FS_AddElement
<1> QED
  BY <1>1, <1>2, BelowIsFinite, FS_Subset

\* The member behind another has one more below it.
LEMMA NextRank ==
  ASSUME NEW K \in SUBSET Nat, IsFiniteSet(K), NEW i \in K, \E j \in K : i < j
  PROVE  \E q \in K : i < q /\ Cardinality(Below(K, q)) = Cardinality(Below(K, i)) + 1
<1>1. PICK q \in {j \in K : i < j} : \A m \in {j \in K : i < j} : q <= m
  <2>1. {j \in K : i < j} \in SUBSET Nat /\ {j \in K : i < j} # {}
    OBVIOUS
  <2> QED
    BY <2>1, LeastExists
<1>2. Below(K, q) = Below(K, i) \cup {i} /\ i \notin Below(K, i)
  <2>1. \A k \in K : k \in Nat
    OBVIOUS
  <2>2. \A k \in K : k < q <=> k < i \/ k = i
    BY <1>1, <2>1
  <2>3. \A k : k \in Below(K, q) <=> k \in Below(K, i) \/ k = i
    BY <2>2, InBelow
  <2> QED
    BY <2>1, <2>3, InBelow
<1> QED
  BY <1>1, <1>2, BelowIsFinite, FS_AddElement

\* In a finite set of numbers there is a member with n below it, for each n that its size
\* allows.
LEMMA RankExists ==
  ASSUME NEW K \in SUBSET Nat, IsFiniteSet(K), NEW n \in Nat, n < Cardinality(K)
  PROVE  \E i \in K : Cardinality(Below(K, i)) = n
<1> DEFINE D == {Cardinality(K) - Cardinality(Below(K, i)) :
                   i \in {i \in K : Cardinality(Below(K, i)) <= n}}
<1>1. Cardinality(K) \in Nat /\ \A i : Cardinality(Below(K, i)) \in 0..Cardinality(K)
  BY BelowIsFinite, FS_CardinalityType
<1>2. D \in SUBSET Nat
  BY <1>1
<1>3. D # {}
  <2>1. K # {}
    BY FS_EmptySet
  <2>2. PICK i \in K : \A j \in K : i <= j
    BY <2>1, LeastExists
  <2>3. Below(K, i) = {}
    <3>1. \A j \in K : j \in Nat /\ ~ (j < i)
      BY <2>2
    <3> QED
      BY <3>1 DEF Below
  <2>4. Cardinality(Below(K, i)) = 0
    BY <2>3, FS_EmptySet
  <2> QED
    BY <2>4
<1>4. PICK d \in D : \A m \in D : d <= m
  <2> HIDE DEF D
  <2> QED
    BY <1>2, <1>3, LeastExists
<1>5. PICK i \in K : Cardinality(Below(K, i)) <= n /\ d = Cardinality(K) - Cardinality(Below(K, i))
  OBVIOUS
<1>6. SUFFICES ASSUME Cardinality(Below(K, i)) # n PROVE FALSE
  BY <1>5
<1>7. \E j \in K : i < j
  <2>1. SUFFICES ASSUME \A j \in K : j <= i PROVE FALSE
    OBVIOUS
  <2>2. K = Below(K, i) \cup {i} /\ i \notin Below(K, i)
    <3>1. \A j \in K : j \in Nat /\ (j < i \/ j = i)
      BY <2>1
    <3>2. \A j : j \in K <=> j \in Below(K, i) \/ j = i
      BY <3>1, InBelow
    <3> QED
      BY <3>1, <3>2, InBelow
  <2>3. Cardinality(K) = Cardinality(Below(K, i)) + 1
    BY <2>2, BelowIsFinite, FS_AddElement
  <2> QED
    BY <1>1, <1>5, <1>6, <2>3
<1>8. PICK q \in K : Cardinality(Below(K, q)) = Cardinality(Below(K, i)) + 1
  BY <1>7, NextRank
<1>9. Cardinality(K) - Cardinality(Below(K, q)) \in D
  BY <1>1, <1>5, <1>6, <1>8
<1> HIDE DEF D
<1> QED
  BY <1>1, <1>4, <1>5, <1>8, <1>9

-----------------------------------------------------------------------------
(* The history *)

Item == [kind : {"Turn", "Summary"}, of : SUBSET Nat]

\* A history that tells of no turn after m.
HistoryUpTo(h, m) ==
  /\ h \in Seq(Item)
  /\ \A i \in 1..Len(h) : h[i].of \subseteq 1..m
  /\ \A i \in 1..Len(h) : IsTurn(h[i]) => \E n \in Nat : h[i].of = {n}
  /\ InOrder(h)
  /\ Cardinality(TurnIndices(h)) <= MaxHistoryTurns

LEMMA TurnIndicesFinite ==
  ASSUME NEW h \in Seq(Item)
  PROVE  /\ TurnIndices(h) \in SUBSET (1..Len(h)) /\ TurnIndices(h) \in SUBSET Nat
         /\ IsFiniteSet(TurnIndices(h)) /\ Cardinality(TurnIndices(h)) \in Nat
         /\ \A i : /\ TurnsAfter(h, i) \in SUBSET TurnIndices(h)
                   /\ IsFiniteSet(TurnsAfter(h, i)) /\ Cardinality(TurnsAfter(h, i)) \in Nat
<1>1. Len(h) \in Nat /\ DOMAIN h = 1..Len(h)
  OBVIOUS
<1>2. TurnIndices(h) \in SUBSET (1..Len(h))
  BY <1>1 DEF TurnIndices
<1>3. IsFiniteSet(TurnIndices(h)) /\ Cardinality(TurnIndices(h)) \in Nat
  <2>1. IsFiniteSet(1..Len(h))
    BY <1>1, FS_Interval
  <2> QED
    BY <1>2, <2>1, FS_Subset, FS_CardinalityType
<1>4. ASSUME NEW i
      PROVE  /\ TurnsAfter(h, i) \in SUBSET TurnIndices(h)
             /\ IsFiniteSet(TurnsAfter(h, i)) /\ Cardinality(TurnsAfter(h, i)) \in Nat
  <2>1. TurnsAfter(h, i) \in SUBSET TurnIndices(h)
    BY DEF TurnsAfter
  <2> QED
    BY <1>3, <2>1, FS_Subset, FS_CardinalityType
<1> QED
  BY <1>1, <1>2, <1>3, <1>4

\* Without leaves the other items, each once and in their order: f tells where an item was.
LEMMA WithoutKeeps ==
  ASSUME NEW S, NEW h \in Seq(S), NEW dropped
  PROVE  LET g == Without(h, dropped) IN
         /\ g \in Seq(S)
         /\ \E f \in [1..Len(g) -> (1..Len(h)) \ dropped] :
              /\ \A n \in 1..Len(g) : g[n] = h[f[n]]
              /\ \A m, n \in 1..Len(g) : m < n => f[m] < f[n]
              /\ \A i \in (1..Len(h)) \ dropped : \E n \in 1..Len(g) : f[n] = i
<1> DEFINE kept == DOMAIN h \ dropped
           c == Cardinality(kept)
           Nth(n) == CHOOSE i \in kept : Cardinality({j \in kept : j < i}) = n - 1
           f == [n \in 1..c |-> Nth(n)]
           g == [n \in 1..c |-> h[Nth(n)]]
<1>1. Without(h, dropped) = g
  BY DEF Without
<1>2. /\ Len(h) \in Nat /\ kept = (1..Len(h)) \ dropped /\ kept \in SUBSET Nat
      /\ \A i \in kept : h[i] \in S
  OBVIOUS
<1>3. IsFiniteSet(kept) /\ c \in Nat
  <2>1. kept \in SUBSET (1..Len(h))
    OBVIOUS
  <2>2. IsFiniteSet(1..Len(h))
    BY <1>2, FS_Interval
  <2> QED
    BY <2>1, <2>2, FS_Subset, FS_CardinalityType
<1>4. ASSUME NEW n \in 1..c
      PROVE  Nth(n) \in kept /\ Cardinality(Below(kept, Nth(n))) = n - 1
  <2>1. \E i \in kept : Cardinality(Below(kept, i)) = n - 1
    <3> HIDE DEF kept
    <3> QED
      BY <1>2, <1>3, RankExists
  <2>2. \E i \in kept : Cardinality({j \in kept : j < i}) = n - 1
    BY <2>1 DEF Below
  <2> HIDE DEF kept
  <2>3. Nth(n) \in kept /\ Cardinality({j \in kept : j < Nth(n)}) = n - 1
    BY <2>2
  <2> QED
    BY <2>3 DEF Below
<1>5. f \in [1..c -> kept] /\ \A n \in 1..c : f[n] = Nth(n) /\ g[n] = h[f[n]]
  <2>1. \A n \in 1..c : Nth(n) \in kept
    BY <1>4
  <2> HIDE DEF kept, Nth, c
  <2> QED
    BY <2>1
<1>6. g \in Seq(S) /\ Len(g) = c
  <2>1. g \in [1..c -> S]
    BY <1>2, <1>4
  <2> HIDE DEF g, c
  <2> QED
    BY <1>3, <2>1
<1>7. \A i, j \in kept : i < j => Cardinality(Below(kept, i)) < Cardinality(Below(kept, j))
  <2> HIDE DEF kept
  <2> QED
    BY <1>2, <1>3, RankGrows, BelowIsFinite
<1>8. ASSUME NEW m \in 1..c, NEW n \in 1..c, m < n PROVE f[m] < f[n]
  <2>1. /\ f[m] \in kept /\ f[n] \in kept /\ Cardinality(Below(kept, f[m])) = m - 1
        /\ Cardinality(Below(kept, f[n])) = n - 1
    BY <1>4, <1>5
  <2> HIDE DEF kept, f, c
  <2>2. f[m] \in Nat /\ f[n] \in Nat /\ m \in Nat /\ n \in Nat
    BY <1>2, <1>3, <2>1
  <2> QED
    BY <1>7, <1>8, <2>1, <2>2
<1>9. ASSUME NEW i \in kept PROVE \E n \in 1..c : f[n] = i
  <2> DEFINE n == Cardinality(Below(kept, i)) + 1
  <2> HIDE DEF kept
  <2>1. n \in 1..c
    <3>1. i \notin Below(kept, i) /\ Below(kept, i) \cup {i} \in SUBSET kept
      BY <1>2 DEF Below
    <3>2. Cardinality(Below(kept, i) \cup {i}) = Cardinality(Below(kept, i)) + 1
      BY <1>3, <3>1, BelowIsFinite, FS_AddElement
    <3> QED
      BY <1>3, <3>1, <3>2, BelowIsFinite, FS_Subset
  <2>2. f[n] \in kept /\ Cardinality(Below(kept, f[n])) = n - 1
    BY <1>4, <1>5, <2>1
  <2> HIDE DEF f
  <2>3. Cardinality(Below(kept, f[n])) = Cardinality(Below(kept, i))
    BY <1>3, <2>2, BelowIsFinite
  <2>4. f[n] \in Nat /\ i \in Nat /\ (f[n] = i \/ f[n] < i \/ i < f[n])
    BY <1>2, <2>2
  <2>5. Cardinality(Below(kept, i)) \in Nat
    BY <1>3, BelowIsFinite
  <2>6. f[n] = i
    BY <1>7, <2>2, <2>3, <2>4, <2>5
  <2> QED
    BY <2>1, <2>6
<1>10. \E e \in [1..Len(g) -> (1..Len(h)) \ dropped] :
         /\ \A n \in 1..Len(g) : g[n] = h[e[n]]
         /\ \A m, n \in 1..Len(g) : m < n => e[m] < e[n]
         /\ \A i \in (1..Len(h)) \ dropped : \E n \in 1..Len(g) : e[n] = i
  <2> HIDE DEF f, g, c
  <2>1. f \in [1..Len(g) -> (1..Len(h)) \ dropped]
    BY <1>2, <1>5, <1>6
  <2> HIDE DEF kept
  <2>2. /\ \A n \in 1..Len(g) : g[n] = h[f[n]]
        /\ \A m, n \in 1..Len(g) : m < n => f[m] < f[n]
        /\ \A i \in (1..Len(h)) \ dropped : \E n \in 1..Len(g) : f[n] = i
    BY <1>2, <1>5, <1>6, <1>8, <1>9
  <2> QED
    BY <2>1, <2>2
<1> HIDE DEF f, g, c
<1> QED
  BY <1>1, <1>6, <1>10

\* The turn items behind another are fewer than all.
LEMMA TurnsBehind ==
  ASSUME NEW h \in Seq(Item), NEW i \in TurnIndices(h)
  PROVE  Cardinality(TurnsAfter(h, i)) + 1 <= Cardinality(TurnIndices(h))
<1>1. i \notin TurnsAfter(h, i) /\ TurnsAfter(h, i) \cup {i} \in SUBSET TurnIndices(h)
  <2>1. i \in Nat
    BY TurnIndicesFinite
  <2> QED
    BY <2>1 DEF TurnsAfter
<1>2. Cardinality(TurnsAfter(h, i) \cup {i}) = Cardinality(TurnsAfter(h, i)) + 1
  BY <1>1, TurnIndicesFinite, FS_AddElement
<1> QED
  BY <1>1, <1>2, TurnIndicesFinite, FS_Subset

\* Where an item tells of one turn at most m and the new item of the next one.
LEMMA AppendedTurn ==
  ASSUME NEW m \in Nat, NEW h, HistoryUpTo(h, m), NEW n \in Nat, m < n
  PROVE  LET g == Append(h, TurnItem(n)) IN
         /\ g \in Seq(Item) /\ Len(g) = Len(h) + 1 /\ Len(h) \in Nat
         /\ \A i \in 1..Len(h) : g[i] = h[i]
         /\ g[Len(g)] = TurnItem(n) /\ IsTurn(TurnItem(n)) /\ TurnItem(n).of = {n}
         /\ TurnIndices(g) = TurnIndices(h) \cup {Len(g)}
         /\ TurnsAfter(g, Len(g)) = {}
         /\ \A i \in TurnIndices(h) :
              Cardinality(TurnsAfter(g, i)) = Cardinality(TurnsAfter(h, i)) + 1
<1> DEFINE g == Append(h, TurnItem(n))
<1>1. TurnItem(n) \in Item /\ IsTurn(TurnItem(n)) /\ TurnItem(n).of = {n}
  BY DEF TurnItem, Item, IsTurn
<1>2. h \in Seq(Item) /\ Len(h) \in Nat
  BY DEF HistoryUpTo
<1>3. /\ g \in Seq(Item) /\ Len(g) = Len(h) + 1 /\ g[Len(g)] = TurnItem(n)
      /\ \A i \in 1..Len(h) : g[i] = h[i]
  BY <1>1, <1>2
<1> HIDE DEF g
<1>4. TurnIndices(g) = TurnIndices(h) \cup {Len(g)} /\ Len(g) \notin TurnIndices(h)
  <2>1. DOMAIN g = 1..Len(g) /\ DOMAIN h = 1..Len(h)
    BY <1>2, <1>3
  <2>2. \A i : i \in 1..Len(g) <=> i \in 1..Len(h) \/ i = Len(g)
    BY <1>2, <1>3
  <2>3. \A i : i \in TurnIndices(g) <=> i \in 1..Len(g) /\ IsTurn(g[i])
    BY <2>1 DEF TurnIndices
  <2>4. \A i : i \in TurnIndices(h) <=> i \in 1..Len(h) /\ IsTurn(h[i])
    BY <2>1 DEF TurnIndices
  <2>5. Len(g) \notin 1..Len(h)
    BY <1>2, <1>3
  <2> QED
    BY <1>1, <1>3, <2>2, <2>3, <2>4, <2>5
<1>5. \A i \in TurnIndices(g) : i \in Nat /\ i <= Len(g)
  BY <1>3, TurnIndicesFinite
<1>6. TurnsAfter(g, Len(g)) = {}
  BY <1>5, <1>3 DEF TurnsAfter
<1>7. ASSUME NEW i \in TurnIndices(h)
      PROVE  Cardinality(TurnsAfter(g, i)) = Cardinality(TurnsAfter(h, i)) + 1
  <2>1. i \in 1..Len(h)
    BY <1>2, TurnIndicesFinite
  <2>2. TurnsAfter(g, i) = TurnsAfter(h, i) \cup {Len(g)}
    BY <1>2, <1>3, <1>4, <2>1 DEF TurnsAfter
  <2>3. Len(g) \notin TurnsAfter(h, i)
    BY <1>4 DEF TurnsAfter
  <2> QED
    BY <1>2, <2>2, <2>3, TurnIndicesFinite, FS_AddElement
<1> QED
  BY <1>1, <1>2, <1>3, <1>4, <1>6, <1>7 DEF g

\* A set of turn items of which each has few behind it is small.
LEMMA FewTurns ==
  ASSUME NEW g \in Seq(Item), NEW K \in SUBSET TurnIndices(g), NEW q \in Nat \ {0},
         \A i \in K : Cardinality(TurnsAfter(g, i)) < q
  PROVE  IsFiniteSet(K) /\ Cardinality(K) <= q
<1>1. IsFiniteSet(K) /\ \A i \in K : i \in Nat
  BY TurnIndicesFinite, FS_Subset
<1>2. CASE K = {}
  BY <1>1, <1>2, FS_EmptySet
<1>3. CASE K # {}
  <2>1. PICK i \in K : \A j \in K : i <= j
    BY <1>1, <1>3, LeastExists
  <2>2. K \in SUBSET (TurnsAfter(g, i) \cup {i})
    BY <1>1, <2>1 DEF TurnsAfter
  <2>3. /\ IsFiniteSet(TurnsAfter(g, i) \cup {i})
        /\ Cardinality(TurnsAfter(g, i) \cup {i}) <= Cardinality(TurnsAfter(g, i)) + 1
        /\ Cardinality(TurnsAfter(g, i) \cup {i}) \in Nat
    <3>1. IsFiniteSet(TurnsAfter(g, i)) /\ Cardinality(TurnsAfter(g, i)) \in Nat
      BY TurnIndicesFinite
    <3>2. /\ IsFiniteSet(TurnsAfter(g, i) \cup {i})
          /\ Cardinality(TurnsAfter(g, i) \cup {i}) =
               IF i \in TurnsAfter(g, i) THEN Cardinality(TurnsAfter(g, i))
               ELSE Cardinality(TurnsAfter(g, i)) + 1
      BY <3>1, FS_AddElement
    <3> QED
      BY <3>1, <3>2
  <2>4. Cardinality(K) <= Cardinality(TurnsAfter(g, i) \cup {i}) /\ Cardinality(K) \in Nat
    BY <1>1, <2>2, <2>3, FS_Subset, FS_CardinalityType
  <2>5. Cardinality(TurnsAfter(g, i)) < q /\ Cardinality(TurnsAfter(g, i)) \in Nat
    BY <2>1, TurnIndicesFinite
  <2> QED
    BY <1>1, <2>3, <2>4, <2>5
<1> QED
  BY <1>2, <1>3

\* commit_turn adds the turn and forgets only what is beyond the quota.
LEMMA Committed ==
  ASSUME NEW m \in Nat, NEW h, HistoryUpTo(h, m), NEW n \in Nat, m < n
  PROVE  LET g == CommitTurn(h, n) IN
         /\ HistoryUpTo(g, n)
         /\ ToldBy(g) \ ToldBy(h) \subseteq {n}
         /\ \A x \in ToldBy(h) \ ToldBy(g) :
              \E i \in TurnIndices(h) :
                h[i].of = {x} /\ Cardinality(TurnsAfter(h, i)) = MaxHistoryTurns - 1
<1> DEFINE a == Append(h, TurnItem(n))
           dropped == {i \in TurnIndices(a) : Cardinality(TurnsAfter(a, i)) >= MaxHistoryTurns}
           g == Without(a, dropped)
<1>1. CommitTurn(h, n) = g
  BY DEF CommitTurn
<1>2. /\ a \in Seq(Item) /\ Len(a) = Len(h) + 1 /\ Len(h) \in Nat
      /\ \A i \in 1..Len(h) : a[i] = h[i]
      /\ a[Len(a)] = TurnItem(n) /\ IsTurn(TurnItem(n)) /\ TurnItem(n).of = {n}
      /\ TurnIndices(a) = TurnIndices(h) \cup {Len(a)}
      /\ TurnsAfter(a, Len(a)) = {}
      /\ \A i \in TurnIndices(h) :
           Cardinality(TurnsAfter(a, i)) = Cardinality(TurnsAfter(h, i)) + 1
  BY AppendedTurn
<1>3. PICK f \in [1..Len(g) -> (1..Len(a)) \ dropped] :
        /\ \A k \in 1..Len(g) : g[k] = a[f[k]]
        /\ \A j, k \in 1..Len(g) : j < k => f[j] < f[k]
        /\ \A i \in (1..Len(a)) \ dropped : \E k \in 1..Len(g) : f[k] = i
  <2> HIDE DEF a, dropped
  <2>1. a \in Seq(Item)
    BY <1>2
  <2> QED
    BY <2>1, WithoutKeeps
<1>4. g \in Seq(Item) /\ Len(g) \in Nat
  <2> HIDE DEF a, dropped
  <2>1. g \in Seq(Item)
    BY <1>2, WithoutKeeps
  <2> QED
    BY <2>1
<1>5. MaxHistoryTurns \in Nat \ {0}
  BY HistoryAssumption
<1>6. /\ h \in Seq(Item) /\ InOrder(h) /\ Cardinality(TurnIndices(h)) <= MaxHistoryTurns
      /\ \A i \in 1..Len(h) : h[i].of \subseteq 1..m
      /\ \A i \in 1..Len(h) : IsTurn(h[i]) => \E x \in Nat : h[i].of = {x}
  BY DEF HistoryUpTo
<1>7. \A i \in dropped : i \in TurnIndices(h)
  <2>1. Len(a) \notin dropped
    <3>1. Cardinality(TurnsAfter(a, Len(a))) = 0
      BY <1>2, FS_EmptySet
    <3> QED
      BY <1>5, <3>1
  <2> QED
    BY <1>2, <2>1
<1>8. \A k \in 1..Len(g) : f[k] \in 1..Len(a) /\ f[k] \notin dropped /\ f[k] \in Nat
  BY <1>2, <1>3
<1>9. /\ DOMAIN g = 1..Len(g) /\ DOMAIN a = 1..Len(a) /\ DOMAIN h = 1..Len(h)
  BY <1>2, <1>4, <1>6
<1> HIDE DEF a, g
<1>10. ASSUME NEW i \in 1..Len(a)
       PROVE  /\ a[i].of \subseteq 1..n
              /\ IsTurn(a[i]) => \E x \in Nat : a[i].of = {x}
  <2>1. CASE i = Len(a)
    BY <1>2, <2>1
  <2>2. CASE i # Len(a)
    <3>1. i \in 1..Len(h)
      BY <1>2, <2>2
    <3> QED
      BY SMTT(20), <1>2, <1>6, <3>1
  <2> QED
    BY <2>1, <2>2
<1>11. ASSUME NEW i \in 1..Len(a), NEW j \in 1..Len(a), i < j, NEW x \in a[i].of, NEW y \in a[j].of
       PROVE  x < y
  <2>1. i \in 1..Len(h)
    BY <1>2, <1>11
  <2>2. x \in 1..m /\ x \in h[i].of
    BY <1>2, <1>6, <1>11, <2>1
  <2>3. CASE j = Len(a)
    BY <1>2, <1>11, <2>2, <2>3
  <2>4. CASE j # Len(a)
    <3>1. j \in 1..Len(h)
      BY <1>2, <2>4
    <3> QED
      BY <1>2, <1>6, <1>9, <1>11, <2>1, <2>2, <3>1 DEF InOrder
  <2> QED
    BY <2>3, <2>4
<1>12. ASSUME NEW i \in 1..Len(a), ~ IsTurn(a[i]) PROVE i = 1
  <2>1. i # Len(a)
    BY <1>2, <1>12
  <2>2. i \in 1..Len(h)
    BY <1>2, <2>1
  <2> QED
    BY <1>2, <1>6, <1>9, <1>12, <2>2 DEF InOrder
<1>13. InOrder(g)
  <2>1. ASSUME NEW i \in 1..Len(g), NEW j \in 1..Len(g), i < j, NEW x \in g[i].of, NEW y \in g[j].of
        PROVE  x < y
    <3>1. f[i] \in 1..Len(a) /\ f[j] \in 1..Len(a) /\ f[i] < f[j]
      BY <1>3, <1>8, <2>1
    <3>2. x \in a[f[i]].of /\ y \in a[f[j]].of
      BY <1>3
    <3> QED
      BY <1>11, <3>1, <3>2
  <2>2. ASSUME NEW i \in 1..Len(g), ~ IsTurn(g[i]) PROVE i = 1
    <3>1. f[i] = 1
      BY <1>3, <1>8, <1>12, <2>2
    <3>2. SUFFICES ASSUME i # 1 PROVE FALSE
      OBVIOUS
    <3>3. 1 \in 1..Len(g) /\ 1 < i
      BY <1>4, <3>2
    <3>4. f[1] < f[i]
      BY <1>3, <3>3
    <3> QED
      BY <1>2, <1>8, <3>1, <3>3, <3>4
  <2> QED
    BY <1>9, <2>1, <2>2 DEF InOrder
<1>14. Cardinality(TurnIndices(g)) <= MaxHistoryTurns
  <2> DEFINE K == TurnIndices(a) \ dropped
             e == [k \in TurnIndices(g) |-> f[k]]
  <2>1. \A k \in TurnIndices(g) : k \in 1..Len(g) /\ IsTurn(g[k])
    BY <1>9 DEF TurnIndices
  <2>2. \A k \in TurnIndices(g) : f[k] \in K
    BY <1>3, <1>8, <1>9, <2>1 DEF TurnIndices
  <2>3. \A i \in K : Cardinality(TurnsAfter(a, i)) < MaxHistoryTurns
    <3>1. \A i : Cardinality(TurnsAfter(a, i)) \in Nat
      BY <1>2, TurnIndicesFinite
    <3> QED
      BY <1>5, <3>1
  <2>4. IsFiniteSet(K) /\ Cardinality(K) <= MaxHistoryTurns
    <3>1. K \in SUBSET TurnIndices(a)
      OBVIOUS
    <3> HIDE DEF K
    <3> QED
      BY <1>2, <1>5, <2>3, <3>1, FewTurns
  <2>5. e \in Injection(TurnIndices(g), K)
    <3>1. \A j, k \in TurnIndices(g) : f[j] = f[k] => j = k
      BY <1>3, <1>4, <1>8, <2>1
    <3> HIDE DEF K
    <3> QED
      BY <2>2, <3>1 DEF Injection, IsInjective
  <2> HIDE DEF e, K
  <2>6. Cardinality(TurnIndices(g)) <= Cardinality(K)
    BY <2>4, <2>5, FS_Injection
  <2> QED
    BY <1>4, <1>5, <2>4, <2>6, TurnIndicesFinite, FS_CardinalityType
<1>15. HistoryUpTo(g, n)
  <2>1. ASSUME NEW k \in 1..Len(g)
        PROVE  g[k].of \subseteq 1..n /\ (IsTurn(g[k]) => \E x \in Nat : g[k].of = {x})
    <3>1. g[k] = a[f[k]] /\ f[k] \in 1..Len(a)
      BY <1>3, <1>8
    <3> QED
      BY <1>10, <3>1
  <2> QED
    BY <1>4, <1>13, <1>14, <2>1 DEF HistoryUpTo
<1>16. ASSUME NEW x \in ToldBy(g), x \notin ToldBy(h) PROVE x = n
  <2>1. PICK k \in 1..Len(g) : x \in g[k].of
    BY <1>9 DEF ToldBy
  <2>2. f[k] \in 1..Len(a) /\ x \in a[f[k]].of
    BY <1>3, <1>8, <2>1
  <2>3. f[k] \notin 1..Len(h)
    <3>1. SUFFICES ASSUME f[k] \in 1..Len(h) PROVE FALSE
      OBVIOUS
    <3>2. x \in h[f[k]].of
      BY <1>2, <2>2, <3>1
    <3> QED
      BY <1>9, <1>16, <3>1, <3>2 DEF ToldBy
  <2>4. f[k] = Len(a)
    BY <1>2, <2>2, <2>3
  <2> QED
    BY <1>2, <2>2, <2>4
<1>17. ASSUME NEW x \in ToldBy(h), x \notin ToldBy(g)
       PROVE  \E i \in TurnIndices(h) :
                h[i].of = {x} /\ Cardinality(TurnsAfter(h, i)) = MaxHistoryTurns - 1
  <2>1. PICK i \in 1..Len(h) : x \in h[i].of
    BY <1>9 DEF ToldBy
  <2>2. i \in 1..Len(a) /\ a[i].of = h[i].of
    BY <1>2, <2>1
  <2>3. i \in dropped
    <3>1. SUFFICES ASSUME i \notin dropped PROVE FALSE
      OBVIOUS
    <3>2. PICK k \in 1..Len(g) : f[k] = i
      BY <1>3, <2>2, <3>1
    <3>3. x \in g[k].of
      BY <1>3, <2>1, <2>2, <3>2
    <3> QED
      BY <1>9, <1>17, <3>3 DEF ToldBy
  <2>4. i \in TurnIndices(h) /\ Cardinality(TurnsAfter(a, i)) >= MaxHistoryTurns
    BY <1>7, <2>3
  <2>5. Cardinality(TurnsAfter(h, i)) = MaxHistoryTurns - 1
    <3>1. Cardinality(TurnsAfter(a, i)) = Cardinality(TurnsAfter(h, i)) + 1
      BY <1>2, <2>4
    <3>2. Cardinality(TurnsAfter(h, i)) + 1 <= Cardinality(TurnIndices(h))
      BY <1>6, <2>4, TurnsBehind
    <3>3. Cardinality(TurnsAfter(h, i)) \in Nat /\ Cardinality(TurnIndices(h)) \in Nat
      BY <1>6, TurnIndicesFinite
    <3> QED
      BY <1>5, <1>6, <2>4, <3>1, <3>2, <3>3
  <2>6. h[i].of = {x}
    <3>1. IsTurn(h[i])
      BY <2>4 DEF TurnIndices
    <3> QED
      BY <1>6, <2>1, <3>1
  <2> QED
    BY <2>4, <2>5, <2>6
<1> HIDE DEF dropped
<1> QED
  BY <1>1, <1>15, <1>16, <1>17 DEF g

\* try_compact tells of the same turns in one summary and the newest turns.
LEMMA CompactedKeeps ==
  ASSUME NEW m \in Nat, NEW h, HistoryUpTo(h, m), Compressible(h)
  PROVE  LET g == Compacted(h) IN
         /\ HistoryUpTo(g, m) /\ ToldBy(g) = ToldBy(h)
         /\ Cardinality(TurnIndices(g)) < MaxHistoryTurns
<1> DEFINE c == Cutoff(h)
           s == SummaryItem(ToldBy(SubSeq(h, 1, c - 1)))
           g == Compacted(h)
<1>1. /\ h \in Seq(Item) /\ InOrder(h) /\ Cardinality(TurnIndices(h)) <= MaxHistoryTurns
      /\ \A i \in 1..Len(h) : h[i].of \subseteq 1..m
      /\ \A i \in 1..Len(h) : IsTurn(h[i]) => \E x \in Nat : h[i].of = {x}
      /\ Len(h) \in Nat /\ DOMAIN h = 1..Len(h)
  BY DEF HistoryUpTo
<1>2. /\ MaxHistoryTurns \in Nat /\ CompactAbove \in Nat /\ KeptTurns \in Nat \ {0}
      /\ KeptTurns <= CompactAbove /\ CompactAbove <= MaxHistoryTurns
  BY HistoryAssumption
<1>3. Cardinality(TurnIndices(h)) \in Nat /\ Cardinality(TurnIndices(h)) > CompactAbove
  BY <1>1, TurnIndicesFinite DEF Compressible
<1>4. c \in TurnIndices(h) /\ Cardinality(TurnsAfter(h, c)) = KeptTurns - 1
  <2> DEFINE T == TurnIndices(h)
  <2>1. T \in SUBSET Nat /\ IsFiniteSet(T) /\ Cardinality(T) - KeptTurns \in Nat
        /\ Cardinality(T) - KeptTurns < Cardinality(T)
    BY <1>1, <1>2, <1>3, TurnIndicesFinite
  <2> HIDE DEF T
  <2>2. PICK i \in T : Cardinality(Below(T, i)) = Cardinality(T) - KeptTurns
    BY <2>1, RankExists
  <2>3. Cardinality(TurnsAfter(h, i)) = KeptTurns - 1
    <3>1. Below(T, i) \cup {i} \in SUBSET T /\ i \notin Below(T, i)
      BY <2>1, InBelow
    <3>2. TurnsAfter(h, i) = T \ (Below(T, i) \cup {i})
      <4>1. \A j \in T : j \in Nat /\ (j > i <=> ~ (j < i) /\ j # i)
        BY <2>1
      <4>2. \A j : j \in TurnsAfter(h, i) <=> j \in T /\ j > i
        BY DEF TurnsAfter, T
      <4> QED
        BY <4>1, <4>2, InBelow
    <3>3. /\ Cardinality(Below(T, i) \cup {i}) = Cardinality(Below(T, i)) + 1
          /\ IsFiniteSet(Below(T, i) \cup {i})
      BY <2>1, <3>1, BelowIsFinite, FS_AddElement
    <3>4. T \cap (Below(T, i) \cup {i}) = Below(T, i) \cup {i}
      BY <3>1
    <3>5. Cardinality(T \ (Below(T, i) \cup {i})) = Cardinality(T) - Cardinality(Below(T, i) \cup {i})
      BY <2>1, <3>4, FS_Difference
    <3> QED
      BY <1>2, <1>3, <2>1, <2>2, <3>2, <3>3, <3>5 DEF T
  <2>4. \E j \in TurnIndices(h) : Cardinality(TurnsAfter(h, j)) = KeptTurns - 1
    BY <2>2, <2>3 DEF T
  <2> QED
    BY <2>4 DEF Cutoff
<1>5. c \in 1..Len(h) /\ c \in Nat /\ IsTurn(h[c])
  BY <1>1, <1>4 DEF TurnIndices
<1> HIDE DEF c
<1>6. \A x : x \in s.of <=> \E i \in 1..(c - 1) : x \in h[i].of
  <2> DEFINE u == SubSeq(h, 1, c - 1)
  <2>1. /\ DOMAIN u = 1..(c - 1) /\ \A i \in 1..(c - 1) : u[i] = h[i]
    BY <1>1, <1>5
  <2> HIDE DEF u
  <2>2. s.of = ToldBy(u)
    BY DEF SummaryItem, u
  <2> HIDE DEF s
  <2> QED
    BY <2>1, <2>2 DEF ToldBy
<1>7. s \in Item /\ s.of \subseteq 1..m /\ ~ IsTurn(s)
  <2>1. \A i \in 1..(c - 1) : h[i].of \subseteq 1..m
    BY <1>1, <1>5
  <2>2. s.of \subseteq 1..m
    BY <1>6, <2>1
  <2> QED
    BY <2>2 DEF SummaryItem, Item, IsTurn
<1>8. /\ g \in Seq(Item) /\ Len(g) = Len(h) - c + 2 /\ g[1] = s
      /\ \A i \in 2..Len(g) : g[i] = h[i + c - 2] /\ i + c - 2 \in c..Len(h)
  <2> DEFINE u == SubSeq(h, c, Len(h))
  <2>1. /\ u \in Seq(Item) /\ Len(u) = Len(h) - c + 1
        /\ \A i \in 1..Len(u) : u[i] = h[c + i - 1]
    BY <1>1, <1>5
  <2>2. <<s>> \in Seq(Item) /\ Len(<<s>>) = 1 /\ <<s>>[1] = s
    BY <1>7
  <2>3. g = <<s>> \o u
    BY DEF Compacted, c
  <2> HIDE DEF u, s, g
  <2>4. /\ g \in Seq(Item) /\ Len(g) = Len(u) + 1 /\ g[1] = s
        /\ \A i \in 2..Len(g) : g[i] = u[i - 1]
    BY <2>1, <2>2, <2>3
  <2>5. ASSUME NEW i \in 2..Len(g) PROVE g[i] = h[i + c - 2] /\ i + c - 2 \in c..Len(h)
    <3>1. i - 1 \in 1..Len(u) /\ c + (i - 1) - 1 = i + c - 2 /\ i + c - 2 \in c..Len(h)
      BY SMTT(20), <1>1, <1>5, <2>1, <2>4
    <3> QED
      BY <2>1, <2>4, <3>1
  <2> QED
    BY <1>1, <1>5, <2>1, <2>4, <2>5
<1> HIDE DEF s, g
<1>9. DOMAIN g = 1..Len(g) /\ Len(g) \in Nat
  BY <1>8
<1>10. \A i \in 1..Len(g) : i = 1 \/ i \in 2..Len(g)
  BY <1>9
<1>11. \A j \in c..Len(h) : \E i \in 2..Len(g) : g[i] = h[j]
  <2> SUFFICES ASSUME NEW j \in c..Len(h) PROVE \E i \in 2..Len(g) : g[i] = h[j]
    OBVIOUS
  <2>1. j - c + 2 \in 2..Len(g) /\ (j - c + 2) + c - 2 = j
    BY <1>1, <1>5, <1>8
  <2> QED
    BY <1>8, <2>1
<1>12. ToldBy(g) = ToldBy(h)
  <2>1. \A x : x \in ToldBy(g) <=> \E i \in 1..Len(g) : x \in g[i].of
    BY <1>9 DEF ToldBy
  <2>2. \A x : x \in ToldBy(h) <=> \E i \in 1..Len(h) : x \in h[i].of
    BY <1>1 DEF ToldBy
  <2>3. ASSUME NEW x, x \in ToldBy(g) PROVE x \in ToldBy(h)
    <3>1. PICK i \in 1..Len(g) : x \in g[i].of
      BY <2>1, <2>3
    <3>2. CASE i = 1
      <4>1. PICK k \in 1..(c - 1) : x \in h[k].of
        BY <1>6, <1>8, <3>1, <3>2
      <4>2. k \in 1..Len(h)
        BY <1>1, <1>5
      <4> QED
        BY <2>2, <4>1, <4>2
    <3>3. CASE i \in 2..Len(g)
      <4>1. x \in h[i + c - 2].of /\ i + c - 2 \in 1..Len(h)
        BY <1>1, <1>5, <1>8, <3>1, <3>3
      <4> QED
        BY <2>2, <4>1
    <3> QED
      BY <1>10, <3>2, <3>3
  <2>4. ASSUME NEW x, x \in ToldBy(h) PROVE x \in ToldBy(g)
    <3>1. PICK i \in 1..Len(h) : x \in h[i].of
      BY <2>2, <2>4
    <3>2. CASE i < c
      <4>1. i \in 1..(c - 1) /\ 1 \in 1..Len(g)
        BY <1>1, <1>5, <1>8, <3>2
      <4> QED
        BY <1>6, <1>8, <2>1, <3>1, <4>1
    <3>3. CASE i >= c
      <4>1. i \in c..Len(h)
        BY <1>1, <1>5, <3>3
      <4>2. PICK k \in 2..Len(g) : g[k] = h[i]
        BY <1>11, <4>1
      <4>3. k \in 1..Len(g)
        BY <1>9
      <4> QED
        BY <2>1, <3>1, <4>2, <4>3
    <3> QED
      BY <1>5, <3>2, <3>3
  <2> QED
    BY <2>3, <2>4
<1>13. InOrder(g)
  <2>1. ASSUME NEW i \in 1..Len(g), NEW j \in 1..Len(g), i < j, NEW x \in g[i].of, NEW y \in g[j].of
        PROVE  x < y
    <3>1. j \in 2..Len(g) /\ y \in h[j + c - 2].of /\ j + c - 2 \in c..Len(h)
      BY <1>8, <1>9, <2>1
    <3>2. PICK k \in 1..Len(h) : x \in h[k].of /\ k < j + c - 2
      <4>1. CASE i = 1
        <5>1. PICK k \in 1..(c - 1) : x \in h[k].of
          BY <1>6, <1>8, <4>1
        <5>2. k \in 1..Len(h) /\ k < j + c - 2
          BY <1>1, <1>5, <3>1
        <5> QED
          BY <5>1, <5>2
      <4>2. CASE i \in 2..Len(g)
        <5>1. x \in h[i + c - 2].of /\ i + c - 2 \in c..Len(h)
          BY <1>8, <4>2
        <5>2. i + c - 2 \in 1..Len(h) /\ i + c - 2 < j + c - 2
          BY <1>1, <1>5, <1>9, <2>1, <5>1
        <5> QED
          BY <5>1, <5>2
      <4> QED
        BY <1>10, <4>1, <4>2
    <3>3. j + c - 2 \in 1..Len(h)
      BY <1>1, <1>5, <3>1
    <3> QED
      BY <1>1, <3>1, <3>2, <3>3 DEF InOrder
  <2>2. ASSUME NEW i \in 1..Len(g), ~ IsTurn(g[i]) PROVE i = 1
    <3>1. SUFFICES ASSUME i \in 2..Len(g) PROVE FALSE
      BY <1>10
    <3>2. g[i] = h[i + c - 2] /\ i + c - 2 \in c..Len(h) /\ i + c - 2 \in 1..Len(h)
      BY <1>1, <1>5, <1>8, <3>1
    <3>3. i + c - 2 = 1
      BY <1>1, <2>2, <3>2 DEF InOrder
    <3>4. c = 1
      BY <1>5, <3>2, <3>3
    <3> QED
      BY <1>5, <2>2, <3>2, <3>3, <3>4
  <2> QED
    BY <1>9, <2>1, <2>2 DEF InOrder
<1>14. Cardinality(TurnIndices(g)) < MaxHistoryTurns
  <2> DEFINE K == {c} \cup TurnsAfter(h, c)
             e == [k \in TurnIndices(g) |-> k + c - 2]
  <2>1. IsFiniteSet(K) /\ Cardinality(K) <= KeptTurns /\ Cardinality(K) \in Nat
    <3>1. IsFiniteSet(TurnsAfter(h, c)) /\ K = TurnsAfter(h, c) \cup {c}
      BY <1>1, TurnIndicesFinite
    <3>2. /\ IsFiniteSet(TurnsAfter(h, c) \cup {c})
          /\ Cardinality(TurnsAfter(h, c) \cup {c}) =
               IF c \in TurnsAfter(h, c) THEN Cardinality(TurnsAfter(h, c))
               ELSE Cardinality(TurnsAfter(h, c)) + 1
      BY <3>1, FS_AddElement
    <3> QED
      BY <1>2, <1>4, <3>1, <3>2
  <2>2. ASSUME NEW k \in TurnIndices(g) PROVE k \in Nat /\ k + c - 2 \in K
    <3>1. k \in 1..Len(g) /\ IsTurn(g[k])
      BY <1>9 DEF TurnIndices
    <3>2. k \in 2..Len(g)
      BY <1>7, <1>8, <1>10, <3>1
    <3>3. k + c - 2 \in c..Len(h) /\ k + c - 2 \in 1..Len(h) /\ IsTurn(h[k + c - 2])
      BY <1>1, <1>5, <1>8, <3>1, <3>2
    <3>4. k + c - 2 \in TurnIndices(h) /\ (k + c - 2 = c \/ k + c - 2 > c)
      BY <1>1, <1>5, <3>3 DEF TurnIndices
    <3> QED
      BY <3>1, <3>4 DEF TurnsAfter
  <2>3. e \in Injection(TurnIndices(g), K)
    <3>1. e \in [TurnIndices(g) -> K]
      BY <2>2
    <3>2. \A j, k \in TurnIndices(g) : e[j] = e[k] => j = k
      BY <1>5, <2>2
    <3> HIDE DEF e, K
    <3> QED
      BY <3>1, <3>2 DEF Injection, IsInjective
  <2> HIDE DEF e, K
  <2>4. Cardinality(TurnIndices(g)) <= Cardinality(K) /\ Cardinality(TurnIndices(g)) \in Nat
    BY <1>8, <2>1, <2>3, FS_Injection, TurnIndicesFinite
  <2> QED
    BY <1>1, <1>2, <1>3, <2>1, <2>4
<1>15. ASSUME NEW i \in 1..Len(g)
       PROVE  g[i].of \subseteq 1..m /\ (IsTurn(g[i]) => \E x \in Nat : g[i].of = {x})
  <2>1. CASE i = 1
    BY <1>7, <1>8, <2>1
  <2>2. CASE i \in 2..Len(g)
    <3>1. g[i] = h[i + c - 2] /\ i + c - 2 \in 1..Len(h)
      BY <1>1, <1>5, <1>8, <2>2
    <3> QED
      BY <1>1, <3>1
  <2> QED
    BY <1>10, <2>1, <2>2
<1>16. Cardinality(TurnIndices(g)) <= MaxHistoryTurns
  BY <1>2, <1>8, <1>14, TurnIndicesFinite
<1>17. HistoryUpTo(g, m)
  BY <1>8, <1>13, <1>15, <1>16 DEF HistoryUpTo
<1> QED
  BY <1>12, <1>14, <1>17 DEF g

\* What do_compact leaves, a summary or the history as it was, a turn can be committed to.
LEMMA AfterCompactKeeps ==
  ASSUME NEW m \in Nat, NEW h, HistoryUpTo(h, m), NEW g \in AfterCompact(h)
  PROVE  /\ HistoryUpTo(g, m) /\ ToldBy(g) = ToldBy(h)
         /\ g = h \/ Cardinality(TurnIndices(g)) < MaxHistoryTurns
<1>1. g = h \/ (Compressible(h) /\ g = Compacted(h))
  BY DEF AfterCompact
<1> QED
  BY <1>1, CompactedKeeps

\* A turn that is committed behind a compaction or without one: what the history gains and
\* what it forgets.
LEMMA CommittedAfterCompact ==
  ASSUME NEW m \in Nat, NEW h, HistoryUpTo(h, m), NEW g \in AfterCompact(h),
         NEW n \in Nat, m < n
  PROVE  LET new == CommitTurn(g, n) IN
         /\ HistoryUpTo(new, n) /\ InOrder(new)
         /\ ToldBy(new) \ ToldBy(h) \subseteq {n}
         /\ \A x \in ToldBy(h) \ ToldBy(new) :
              \E i \in TurnIndices(h) :
                h[i].of = {x} /\ Cardinality(TurnsAfter(h, i)) = MaxHistoryTurns - 1
<1> DEFINE new == CommitTurn(g, n)
<1>1. /\ HistoryUpTo(g, m) /\ ToldBy(g) = ToldBy(h)
      /\ g = h \/ Cardinality(TurnIndices(g)) < MaxHistoryTurns
  BY AfterCompactKeeps
<1>2. /\ HistoryUpTo(new, n) /\ ToldBy(new) \ ToldBy(g) \subseteq {n}
      /\ \A x \in ToldBy(g) \ ToldBy(new) :
           \E i \in TurnIndices(g) :
             g[i].of = {x} /\ Cardinality(TurnsAfter(g, i)) = MaxHistoryTurns - 1
  <2>1. HistoryUpTo(g, m)
    BY <1>1
  <2> QED
    BY <2>1, Committed
<1>3. InOrder(new)
  BY <1>2 DEF HistoryUpTo
<1>4. ASSUME Cardinality(TurnIndices(g)) < MaxHistoryTurns, NEW x \in ToldBy(g) \ ToldBy(new)
      PROVE  FALSE
  <2>1. PICK i \in TurnIndices(g) : Cardinality(TurnsAfter(g, i)) = MaxHistoryTurns - 1
    BY <1>2, <1>4
  <2>2. g \in Seq(Item)
    BY <1>1 DEF HistoryUpTo
  <2>3. Cardinality(TurnsAfter(g, i)) + 1 <= Cardinality(TurnIndices(g))
    BY <2>2, TurnsBehind
  <2>4. Cardinality(TurnIndices(g)) \in Nat /\ MaxHistoryTurns \in Nat
    BY <2>2, TurnIndicesFinite, HistoryAssumption
  <2> QED
    BY <1>4, <2>1, <2>3, <2>4
<1> HIDE DEF new
<1>5. CASE g = h
  BY <1>2, <1>3, <1>5 DEF new
<1>6. CASE Cardinality(TurnIndices(g)) < MaxHistoryTurns
  <2>1. ToldBy(h) \ ToldBy(new) = {}
    BY <1>1, <1>4, <1>6
  <2> QED
    BY <1>1, <1>2, <1>3, <2>1 DEF new
<1> QED
  BY <1>1, <1>5, <1>6

-----------------------------------------------------------------------------
(* The loop detector *)

Key == Calls \X {1, 2}

Detector == [window : Seq(Key), state : Signals, warned : SUBSET Key]

\* The last n keys of the window are this one.
EndsWith(window, key, n) ==
  n <= Len(window) /\ \A i \in 1..Len(window) : i > Len(window) - n => window[i] = key

LEMMA PushedIs ==
  ASSUME NEW w \in Seq(Key), NEW key \in Key, Len(w) <= WindowCapacity
  PROVE  /\ Pushed(w, key) \in Seq(Key) /\ Len(Pushed(w, key)) <= WindowCapacity
         /\ \A n \in Nat : EndsWith(w, key, n) /\ n < WindowCapacity
                             => EndsWith(Pushed(w, key), key, n + 1)
<1> DEFINE a == Append(w, key)
<1>1. WindowCapacity \in Nat /\ WindowCapacity > 0 /\ Len(w) \in Nat
  BY DetectorAssumption
<1>2. /\ a \in Seq(Key) /\ Len(a) = Len(w) + 1 /\ a[Len(w) + 1] = key
      /\ \A i \in 1..Len(w) : a[i] = w[i]
  OBVIOUS
<1>3. \A n \in Nat : EndsWith(w, key, n) => EndsWith(a, key, n + 1)
  <2> SUFFICES ASSUME NEW n \in Nat, EndsWith(w, key, n) PROVE EndsWith(a, key, n + 1)
    OBVIOUS
  <2>1. ASSUME NEW i \in 1..Len(a), i > Len(a) - (n + 1) PROVE a[i] = key
    <3>1. CASE i \in 1..Len(w)
      BY <1>1, <1>2, <2>1, <3>1 DEF EndsWith
    <3>2. CASE i = Len(w) + 1
      BY <1>2, <3>2
    <3> QED
      BY <1>1, <1>2, <3>1, <3>2
  <2> HIDE DEF a
  <2> QED
    BY <1>1, <1>2, <2>1 DEF EndsWith
<1>4. Pushed(w, key) = IF Len(a) > WindowCapacity THEN Tail(a) ELSE a
  BY DEF Pushed
<1> HIDE DEF a
<1>5. CASE Len(a) <= WindowCapacity
  BY <1>1, <1>2, <1>3, <1>4, <1>5
<1>6. CASE Len(a) > WindowCapacity
  <2>1. /\ Tail(a) \in Seq(Key) /\ Len(Tail(a)) = Len(w)
        /\ \A i \in 1..Len(w) : Tail(a)[i] = a[i + 1]
    BY <1>1, <1>2
  <2>2. Len(w) = WindowCapacity
    BY <1>1, <1>2, <1>6
  <2>3. ASSUME NEW n \in Nat, EndsWith(w, key, n), n < WindowCapacity
        PROVE  EndsWith(Tail(a), key, n + 1)
    <3>1. EndsWith(a, key, n + 1)
      BY <1>3, <2>3
    <3>2. ASSUME NEW i \in 1..Len(w), i > Len(w) - (n + 1) PROVE Tail(a)[i] = key
      <4>1. i + 1 \in 1..Len(a) /\ i + 1 > Len(a) - (n + 1)
        BY <1>1, <1>2, <3>2
      <4> QED
        BY <2>1, <3>1, <4>1 DEF EndsWith
    <3> QED
      BY <1>1, <2>1, <2>2, <2>3, <3>2 DEF EndsWith
  <2> QED
    BY <1>1, <1>4, <1>6, <2>1, <2>2, <2>3
<1> QED
  BY <1>1, <1>2, <1>5, <1>6

LEMMA EndsCount ==
  ASSUME NEW w \in Seq(Key), NEW key, NEW n \in Nat, EndsWith(w, key, n)
  PROVE  ConsecutiveCount(w, key) >= n
<1> DEFINE K == {i \in DOMAIN w : \A j \in i..Len(w) : w[j] = key}
           e == (Len(w) - n + 1)..Len(w)
<1>1. Len(w) \in Nat /\ n <= Len(w) /\ DOMAIN w = 1..Len(w)
  BY DEF EndsWith
<1>2. IsFiniteSet(K) /\ Cardinality(K) \in Nat
  <2>1. K \in SUBSET (1..Len(w)) /\ IsFiniteSet(1..Len(w))
    BY <1>1, FS_Interval
  <2> HIDE DEF K
  <2> QED
    BY <2>1, FS_Subset, FS_CardinalityType
<1>3. e \in SUBSET K
  <2>1. ASSUME NEW i \in e PROVE i \in K
    BY <1>1 DEF EndsWith
  <2> QED
    BY <2>1
<1>4. Cardinality(e) = n
  <2>1. Len(w) - n + 1 \in Int /\ Len(w) \in Int
    BY <1>1
  <2>2. Cardinality(e) = IF Len(w) - n + 1 > Len(w) THEN 0 ELSE Len(w) - (Len(w) - n + 1) + 1
    BY <2>1, FS_Interval
  <2> QED
    BY <1>1, <2>2
<1> HIDE DEF e
<1>5. Cardinality(e) <= Cardinality(K)
  <2> HIDE DEF K
  <2> QED
    BY <1>2, <1>3, FS_Subset
<1> QED
  BY <1>2, <1>4, <1>5 DEF ConsecutiveCount

\* check_and_advance: a halt on a key it warned of; else the key is in the window, and a
\* window that it fills up is warned of.
LEMMA CheckIs ==
  ASSUME NEW d \in Detector, NEW key \in Key, d.state # "Halt", Len(d.window) <= WindowCapacity
  PROVE  LET c == CheckAndAdvance(d, key)
             w == Pushed(d.window, key) IN
         /\ c.after \in Detector /\ Len(c.after.window) <= WindowCapacity
         /\ c.signal = "Halt" <=> d.state = "Warned" /\ key \in d.warned
         /\ c.signal # "Halt" =>
              /\ c.after.state # "Halt" /\ c.after.window = w
              /\ EndsWith(w, key, WarnThreshold)
                   => c.after.state = "Warned" /\ key \in c.after.warned
<1> DEFINE w == Pushed(d.window, key)
           repeated == ConsecutiveCount(w, key) >= WarnThreshold
<1>1. /\ d.window \in Seq(Key) /\ d.state \in {"None", "Warned"} /\ d.warned \in SUBSET Key
  BY DEF Detector, Signals
<1>2. w \in Seq(Key) /\ Len(w) <= WindowCapacity
  BY <1>1, PushedIs
<1>3. EndsWith(w, key, WarnThreshold) => repeated
  <2> HIDE DEF w
  <2> QED
    BY <1>2, EndsCount, DetectorAssumption
<1>4. CASE d.state = "Warned" /\ key \in d.warned
  <2>1. CheckAndAdvance(d, key) = [after |-> [d EXCEPT !.state = "Halt"], signal |-> "Halt"]
    BY <1>4 DEF CheckAndAdvance
  <2>2. /\ [d EXCEPT !.state = "Halt"] \in Detector
        /\ [d EXCEPT !.state = "Halt"].window = d.window
    BY DEF Detector, Signals
  <2> DEFINE c == CheckAndAdvance(d, key)
  <2>3. c.after = [d EXCEPT !.state = "Halt"] /\ c.signal = "Halt"
    BY <2>1
  <2> HIDE DEF c
  <2>4. c.after \in Detector /\ Len(c.after.window) <= WindowCapacity
    BY <2>2, <2>3
  <2> QED
    BY <1>4, <2>3, <2>4 DEF c
<1>5. CASE ~ (d.state = "Warned" /\ key \in d.warned)
  <2> DEFINE new == [window |-> w,
                     state  |-> IF repeated THEN "Warned" ELSE "None",
                     warned |-> IF repeated THEN {key}
                                ELSE IF d.state = "Warned" THEN {} ELSE d.warned]
  <2>1. CheckAndAdvance(d, key) =
          [after |-> new, signal |-> IF repeated THEN "Warned" ELSE "None"]
    BY <1>1, <1>5 DEF CheckAndAdvance
  <2> HIDE DEF repeated, w
  <2>2. new \in Detector
    BY <1>1, <1>2 DEF Detector, Signals
  <2> QED
    BY <1>2, <1>3, <1>5, <2>1, <2>2 DEF w
<1> QED
  BY <1>4, <1>5

-----------------------------------------------------------------------------
(* The invariant *)

Recent == [call : Calls, ok : BOOLEAN, epoch : Nat]
Entry  == [call : AllCalls, status : Statuses]

Agent == [next : 1..(MaxTurns + 1), history : Seq(Item), recent : Seq(Recent), epoch : Nat,
          detector : Detector]
Turn  == [pc : {"idle", "planning", "model", "batch", "tool"}, executed : 0..MaxToolCalls,
          rounds : 0..MaxRounds, skips : 0..(MaxSkips - 1), batch : Seq(Entry),
          at : Nat \ {0}, recovery : BOOLEAN]
World == [valid : SUBSET Calls, unseen : SUBSET Calls, last : AllCalls, streak : Nat]

\* The records, the sizes of what is kept, and the call that runs: it is the one at the
\* turn's place of the batch. The epoch counts executed calls, so that the budget bounds it.
Typed ==
  /\ agent \in Agent /\ turn \in Turn /\ world \in World
  /\ Len(agent.recent) <= MaxRecent
  /\ turn.at <= Len(turn.batch) + 1
  /\ agent.epoch <= MaxToolCalls + 1
  /\ turn.pc # "idle" => agent.next >= 2 /\ agent.epoch <= turn.executed
  /\ turn.pc = "model" => turn.executed < MaxToolCalls
  /\ turn.pc = "tool" => /\ turn.at \in 1..Len(turn.batch)
                         /\ turn.batch[turn.at].status = "proposed"
                         /\ turn.batch[turn.at].call \in Calls
                         /\ turn.executed < MaxToolCalls

Status(i) == turn.batch[i].status
NoneSkipped == \A i \in 1..Len(turn.batch) : Status(i) # "skipped"

\* What is behind the turn's place of the batch is over, what is before it is not. The
\* calls that are left fit into the budget, and the first that was dropped is just beyond
\* it, unless a call was skipped: that one uses no budget.
Tidy ==
  /\ turn.pc \in {"batch", "tool"} =>
       \A i \in 1..Len(turn.batch) :
         /\ i < turn.at => Status(i) \in {"ran", "skipped"}
         /\ i >= turn.at => Status(i) \in {"proposed", "dropped"}
         /\ Status(i) = "proposed" => turn.executed + i < turn.at + MaxToolCalls
         /\ NoneSkipped /\ Status(i) = "dropped" /\ (i = 1 \/ Status(i - 1) # "dropped")
              => turn.executed + i = turn.at + MaxToolCalls
  /\ turn.pc \in {"planning", "model"} =>
       \A i \in 1..Len(turn.batch) : Status(i) # "proposed"
  /\ turn.pc = "planning" =>
       \A i \in 1..Len(turn.batch) :
         NoneSkipped /\ Status(i) = "dropped" => turn.executed = MaxToolCalls
  /\ turn.pc = "model" => EveryCallAnswered

\* The detector has seen the calls that returned: as long as the last call comes in one form
\* its repetitions are at the end of the window, and a full threshold of them was warned of.
Watched ==
  /\ turn.pc # "idle" => agent.detector.state # "Halt"
                         /\ Len(agent.detector.window) <= WindowCapacity
  /\ world.last \notin UnorderedCalls => world.streak <= WarnThreshold + 1
  /\ turn.pc # "idle" /\ world.last \notin UnorderedCalls =>
       /\ world.streak <= WarnThreshold
       /\ EndsWith(agent.detector.window, <<world.last, 1>>, world.streak)
       /\ world.streak = WarnThreshold =>
            agent.detector.state = "Warned" /\ <<world.last, 1>> \in agent.detector.warned
       /\ turn.pc = "model" /\ world.streak = WarnThreshold => turn.recovery

\* The history tells of turns that are over.
Told == IF turn.pc = "idle" THEN agent.next - 1 ELSE agent.next - 2
Remembered == HistoryUpTo(agent.history, Told)

\* The calls that no change the agent could know of has outdated.
Trusted(w) == w.valid \cup w.unseen

\* A recorded success of the current epoch has been outdated by no such change.
UpToDate ==
  turn.pc # "idle" =>
    \A i \in 1..Len(agent.recent) :
      /\ agent.recent[i].epoch <= agent.epoch
      /\ agent.recent[i].ok /\ agent.recent[i].epoch = agent.epoch
           => agent.recent[i].call \in Trusted(world)

-----------------------------------------------------------------------------
(* What each action writes *)

LEMMA Budgets ==
  /\ MaxToolCalls \in Nat \ {0} /\ MaxRounds \in Nat \ {0} /\ MaxSkips \in Nat \ {0}
  /\ MaxRecent \in Nat \ {0} /\ MaxTurns \in Nat \ {0}
  /\ WindowCapacity \in Nat /\ WarnThreshold \in Nat \ {0} /\ WarnThreshold <= WindowCapacity
  /\ Nameless \notin Calls /\ UnorderedCalls \subseteq Calls
BY BudgetAssumption, DetectorAssumption, CallsAssumption

LEMMA NoTurnIs ==
  /\ NoTurn \in Turn /\ NoTurn.pc = "idle" /\ NoTurn.executed = 0 /\ NoTurn.rounds = 0
  /\ NoTurn.skips = 0 /\ NoTurn.batch = <<>> /\ NoTurn.at = 1 /\ NoTurn.recovery = FALSE
  /\ Len(NoTurn.batch) = 0
BY Budgets DEF NoTurn, Turn

LEMMA FreshIs ==
  /\ FreshDetector \in Detector /\ FreshDetector.window = <<>> /\ Len(FreshDetector.window) = 0
  /\ FreshDetector.state = "None" /\ FreshDetector.warned = {}
BY DEF FreshDetector, Detector, Signals

LEMMA NewTurnIs ==
  ASSUME Typed, agent.next <= MaxTurns
  PROVE  /\ NewTurn \in Agent /\ NewTurn.next = agent.next + 1
         /\ NewTurn.history = agent.history /\ NewTurn.recent = <<>> /\ Len(NewTurn.recent) = 0
         /\ NewTurn.epoch = 0 /\ NewTurn.detector = agent.detector
<1>1. PICK a \in Agent : a = agent
  BY DEF Typed
<1>2. /\ a.next \in Nat /\ a.next + 1 \in 1..(MaxTurns + 1) /\ <<>> \in Seq(Recent) /\ 0 \in Nat
  BY <1>1, Budgets DEF Agent
<1>3. PICK b \in Agent : b = [a EXCEPT !.recent = <<>>, !.epoch = 0]
  BY <1>2 DEF Agent
<1>4. /\ b.next = a.next /\ b.history = a.history /\ b.recent = <<>> /\ b.epoch = 0
      /\ b.detector = a.detector
  BY <1>3 DEF Agent
<1>5. NewTurn = [b EXCEPT !.next = @ + 1]
  BY <1>1, <1>3 DEF NewTurn, Forgetting
<1>6. NewTurn \in Agent /\ NewTurn.next = b.next + 1 /\ NewTurn.history = b.history
      /\ NewTurn.recent = b.recent /\ NewTurn.epoch = b.epoch /\ NewTurn.detector = b.detector
  BY <1>2, <1>4, <1>5 DEF Agent
<1> QED
  BY <1>1, <1>4, <1>6

LEMMA BeginTurnIs ==
  ASSUME Typed, BeginTurn
  PROVE  /\ turn.pc = "idle" /\ agent' \in Agent /\ agent'.next = agent.next + 1
         /\ agent'.history = agent.history /\ agent'.recent = <<>> /\ Len(agent'.recent) = 0
         /\ agent'.epoch = 0 /\ agent'.detector = FreshDetector
         /\ turn' \in Turn /\ turn'.pc = "planning" /\ turn'.executed = 0 /\ turn'.at = 1
         /\ turn'.batch = <<>> /\ Len(turn'.batch) = 0 /\ turn'.skips = 0
         /\ world' \in World /\ world'.valid = {} /\ world'.last = Nameless /\ world'.streak = 0
<1>1. PICK a \in Agent : /\ a = NewTurn /\ a.next = agent.next + 1 /\ a.history = agent.history
                         /\ a.recent = <<>> /\ Len(a.recent) = 0 /\ a.epoch = 0
  BY NewTurnIs DEF BeginTurn
<1>2. agent' = [a EXCEPT !.detector = FreshDetector] /\ turn.pc = "idle"
  BY <1>1 DEF BeginTurn
<1>3. /\ agent' \in Agent /\ agent'.next = a.next /\ agent'.history = a.history
      /\ agent'.recent = a.recent /\ agent'.epoch = a.epoch /\ agent'.detector = FreshDetector
  BY <1>2, FreshIs DEF Agent
<1>4. PICK t \in Turn : /\ t = NoTurn /\ t.executed = 0 /\ t.at = 1 /\ t.batch = <<>>
                        /\ Len(t.batch) = 0 /\ t.skips = 0
  BY NoTurnIs
<1>5. turn' = [t EXCEPT !.pc = "planning"]
  BY <1>4 DEF BeginTurn
<1>6. /\ turn' \in Turn /\ turn'.pc = "planning" /\ turn'.executed = t.executed
      /\ turn'.at = t.at /\ turn'.batch = t.batch /\ turn'.skips = t.skips
  BY <1>5 DEF Turn
<1>7. world' \in World /\ world'.valid = {} /\ world'.last = Nameless /\ world'.streak = 0
  BY DEF BeginTurn, FreshWorld, World, AllCalls
<1> QED
  BY <1>1, <1>2, <1>3, <1>4, <1>6, <1>7

\* A turn typed by the user, an operation, a compaction: idle before and after.
LEMMA DirectTurnIs ==
  ASSUME Typed, NEW committed \in BOOLEAN, DirectTurn(committed),
         CommitTurn(agent.history, agent.next) \in Seq(Item)
  PROVE  /\ turn.pc = "idle" /\ turn' = turn /\ world' = world
         /\ agent' \in Agent /\ agent'.next = agent.next + 1
         /\ agent'.history = IF committed THEN CommitTurn(agent.history, agent.next)
                             ELSE agent.history
         /\ agent'.recent = <<>> /\ Len(agent'.recent) = 0
         /\ agent'.epoch = 0 /\ agent'.detector = agent.detector
<1>1. PICK a \in Agent : /\ a = NewTurn /\ a.next = agent.next + 1 /\ a.history = agent.history
                         /\ a.recent = <<>> /\ Len(a.recent) = 0 /\ a.epoch = 0
                         /\ a.detector = agent.detector
  BY NewTurnIs DEF DirectTurn
<1> DEFINE h == IF committed THEN CommitTurn(a.history, agent.next) ELSE a.history
<1>2. /\ agent' = [a EXCEPT !.history = h] /\ turn.pc = "idle" /\ turn' = turn /\ world' = world
      /\ h = IF committed THEN CommitTurn(agent.history, agent.next) ELSE agent.history
  BY <1>1 DEF DirectTurn
<1>3. h \in Seq(Item)
  BY <1>1 DEF Typed, Agent
<1> HIDE DEF h
<1>4. /\ agent' \in Agent /\ agent'.next = a.next /\ agent'.history = h
      /\ agent'.recent = a.recent /\ agent'.epoch = a.epoch /\ agent'.detector = a.detector
  BY <1>2, <1>3 DEF Agent
<1> QED
  BY <1>1, <1>2, <1>4

LEMMA OtherOpIs ==
  ASSUME Typed, OtherOp
  PROVE  /\ turn.pc = "idle" /\ turn' = turn /\ world' = world
         /\ agent' \in Agent /\ agent'.next = agent.next + 1
         /\ agent'.history = agent.history /\ agent'.recent = agent.recent
         /\ agent'.epoch = agent.epoch /\ agent'.detector = agent.detector
<1>1. PICK a \in Agent : a = agent
  BY DEF Typed
<1>2. a.next + 1 \in 1..(MaxTurns + 1)
  BY <1>1, Budgets DEF OtherOp, Agent
<1>3. agent' = [a EXCEPT !.next = a.next + 1]
  BY <1>1 DEF OtherOp
<1>4. /\ agent' \in Agent /\ agent'.next = a.next + 1 /\ agent'.history = a.history
      /\ agent'.recent = a.recent /\ agent'.epoch = a.epoch /\ agent'.detector = a.detector
  BY <1>2, <1>3 DEF Agent
<1> QED
  BY <1>1, <1>4 DEF OtherOp

LEMMA HistoryIs ==
  ASSUME Typed, NEW h \in Seq(Item), agent' = [agent EXCEPT !.history = h]
  PROVE  /\ agent' \in Agent /\ agent'.next = agent.next /\ agent'.history = h
         /\ agent'.recent = agent.recent /\ agent'.epoch = agent.epoch
         /\ agent'.detector = agent.detector
BY DEF Typed, Agent

LEMMA AskModelIs ==
  ASSUME Typed, AskModel
  PROVE  /\ turn.pc = "planning" /\ turn.executed < MaxToolCalls
         /\ UNCHANGED <<agent, world>>
         /\ turn' \in Turn /\ turn'.pc = "model" /\ turn'.executed = turn.executed
         /\ turn'.at = turn.at /\ turn'.batch = turn.batch /\ turn'.skips = turn.skips
         /\ turn'.recovery = NeedsRecovery
<1>1. PICK t \in Turn : t = turn
  BY DEF Typed
<1>2. t.rounds + 1 \in 0..MaxRounds /\ NeedsRecovery \in BOOLEAN
  BY <1>1, Budgets DEF AskModel, WithinLimits, NeedsRecovery, Turn
<1>3. turn' = [t EXCEPT !.pc = "model", !.rounds = t.rounds + 1, !.recovery = NeedsRecovery]
  BY <1>1 DEF AskModel
<1>4. /\ turn' \in Turn /\ turn'.pc = "model" /\ turn'.executed = t.executed
      /\ turn'.at = t.at /\ turn'.batch = t.batch /\ turn'.skips = t.skips
      /\ turn'.recovery = NeedsRecovery
  BY <1>2, <1>3 DEF Turn
<1> QED
  BY <1>1, <1>4 DEF AskModel, WithinLimits

LEMMA ProposeIs ==
  ASSUME Typed, NEW calls \in Batches, NEW h \in Seq(Item), ProposeTools(calls, h)
  PROVE  /\ turn.pc = "model" /\ world' = world /\ agent' = [agent EXCEPT !.history = h]
         /\ turn' \in Turn /\ turn'.pc = "batch" /\ turn'.executed = turn.executed
         /\ turn'.at = 1 /\ turn'.skips = turn.skips /\ turn'.batch \in Seq(Entry)
         /\ \A i \in 1..Len(turn'.batch) :
              turn'.batch[i].status = IF i <= Remaining THEN "proposed" ELSE "dropped"
<1>1. PICK t \in Turn : t = turn
  BY DEF Typed
<1>2. PICK n \in 1..MaxBatch : calls \in [1..n -> AllCalls]
  BY DEF Batches, AllCalls
<1> DEFINE b == Proposal(calls)
<1>3. /\ b \in [1..n -> Entry] /\ n \in Nat
      /\ \A i \in 1..n : b[i].status = IF i <= Remaining THEN "proposed" ELSE "dropped"
  BY <1>2 DEF Proposal, Entry, Statuses
<1> HIDE DEF b
<1>4. b \in Seq(Entry) /\ Len(b) = n
  BY <1>3
<1>5. turn' = [t EXCEPT !.pc = "batch", !.batch = b, !.at = 1]
  BY <1>1 DEF ProposeTools, b
<1>6. /\ turn' \in Turn /\ turn'.pc = "batch" /\ turn'.executed = t.executed
      /\ turn'.at = 1 /\ turn'.skips = t.skips /\ turn'.batch = b
  <2>1. 1 \in Nat \ {0} /\ b \in Seq(Entry)
    BY <1>4
  <2>2. turn' \in Turn
    BY <1>5, <2>1 DEF Turn
  <2> QED
    BY <1>5, <2>1 DEF Turn
<1> QED
  BY <1>1, <1>3, <1>4, <1>6 DEF ProposeTools

LEMMA OverIs ==
  ASSUME Typed, turn.at \in 1..Len(turn.batch), NEW status \in Statuses
  PROVE  /\ Over(status) \in Turn /\ Over(status).pc = "batch"
         /\ Over(status).executed = turn.executed /\ Over(status).skips = turn.skips
         /\ Over(status).at = turn.at + 1
         /\ Len(Over(status).batch) = Len(turn.batch)
         /\ \A i \in 1..Len(turn.batch) :
              Over(status).batch[i].status = IF i = turn.at THEN status ELSE Status(i)
<1>1. PICK t \in Turn : t = turn
  BY DEF Typed
<1>2. t.batch \in Seq(Entry) /\ t.at \in 1..Len(t.batch) /\ t.at \in Nat
  BY <1>1 DEF Turn
<1>3. PICK e \in Entry : e = t.batch[t.at]
  BY <1>2
<1>4. [e EXCEPT !.status = status] \in Entry /\ [e EXCEPT !.status = status].status = status
  BY DEF Entry
<1> DEFINE b == [t.batch EXCEPT ![t.at] = [e EXCEPT !.status = status]]
<1>5. /\ b \in Seq(Entry) /\ Len(b) = Len(t.batch)
      /\ \A i \in 1..Len(t.batch) :
           b[i].status = IF i = t.at THEN status ELSE t.batch[i].status
  BY <1>2, <1>4
<1>6. b = [t.batch EXCEPT ![t.at].status = status]
  BY <1>2, <1>3
<1> HIDE DEF b
<1>7. Over(status) = [t EXCEPT !.pc = "batch", !.batch = b, !.at = t.at + 1]
  BY <1>1, <1>6 DEF Over
<1>8. /\ Over(status) \in Turn /\ Over(status).pc = "batch"
      /\ Over(status).executed = t.executed /\ Over(status).skips = t.skips
      /\ Over(status).at = t.at + 1 /\ Over(status).batch = b
  <2>1. t.at + 1 \in Nat \ {0} /\ b \in Seq(Entry)
    BY <1>2, <1>5
  <2>2. Over(status) \in Turn
    BY <1>7, <2>1 DEF Turn
  <2> QED
    BY <1>7, <2>1 DEF Turn
<1> QED
  BY <1>1, <1>5, <1>8 DEF Status

LEMMA RecordedIs ==
  ASSUME NEW a \in Agent, Len(a.recent) <= MaxRecent, NEW call \in Calls, NEW ok \in BOOLEAN,
         NEW b, b = Recorded(a, call, ok)
  PROVE  /\ b \in Agent /\ b.next = a.next /\ b.history = a.history /\ b.epoch = a.epoch
         /\ b.detector = a.detector /\ Len(b.recent) <= MaxRecent
         /\ \A i \in 1..Len(b.recent) :
              \/ b.recent[i].call = call /\ b.recent[i].ok = ok /\ b.recent[i].epoch = a.epoch
              \/ \E j \in 1..Len(a.recent) : b.recent[i] = a.recent[j]
<1>1. PICK e \in Recent : /\ e = [call |-> call, ok |-> ok, epoch |-> a.epoch]
                          /\ e.call = call /\ e.ok = ok /\ e.epoch = a.epoch
  <2>1. a.epoch \in Nat
    BY DEF Agent
  <2>2. [call |-> call, ok |-> ok, epoch |-> a.epoch] \in Recent
    BY <2>1 DEF Recent
  <2> QED
    BY <2>2
<1>2. PICK s \in Seq(Recent) : s = a.recent /\ Len(s) <= MaxRecent
  BY DEF Agent
<1> DEFINE r == Append(s, e)
           q == IF Len(r) > MaxRecent THEN Tail(r) ELSE r
<1>3. /\ r \in Seq(Recent) /\ Len(r) = Len(s) + 1 /\ Len(s) \in Nat /\ r[Len(s) + 1] = e
      /\ \A i \in 1..Len(s) : r[i] = s[i]
  OBVIOUS
<1>4. Recorded(a, call, ok) = [a EXCEPT !.recent = q]
  BY <1>1, <1>2 DEF Recorded
<1> HIDE DEF r
<1>5. \A i \in 1..Len(r) : r[i] = e \/ \E j \in 1..Len(s) : r[i] = s[j]
  <2> SUFFICES ASSUME NEW i \in 1..Len(r) PROVE r[i] = e \/ \E j \in 1..Len(s) : r[i] = s[j]
    OBVIOUS
  <2>1. i \in 1..Len(s) \/ i = Len(s) + 1
    BY <1>3
  <2> QED
    BY <1>3, <2>1
<1>6. /\ q \in Seq(Recent) /\ Len(q) <= MaxRecent
      /\ \A i \in 1..Len(q) : q[i] = e \/ \E j \in 1..Len(s) : q[i] = s[j]
  <2>1. CASE Len(r) > MaxRecent
    <3>1. /\ Tail(r) \in Seq(Recent) /\ Len(Tail(r)) = Len(s)
          /\ \A i \in 1..Len(s) : Tail(r)[i] = r[i + 1] /\ i + 1 \in 1..Len(r)
      BY <1>3
    <3> QED
      BY <1>2, <1>5, <2>1, <3>1
  <2>2. CASE ~ (Len(r) > MaxRecent)
    BY <1>3, <1>5, <2>2, Budgets
  <2> QED
    BY <2>1, <2>2
<1> HIDE DEF q
<1>7. /\ b \in Agent /\ b.next = a.next /\ b.history = a.history /\ b.epoch = a.epoch
      /\ b.detector = a.detector /\ b.recent = q
  BY <1>4, <1>6 DEF Agent
<1> QED
  BY <1>1, <1>2, <1>6, <1>7

LEMMA AtCallIs ==
  ASSUME Typed, NEW call, AtCall(call)
  PROVE  /\ turn.pc = "batch" /\ turn.at \in 1..Len(turn.batch)
         /\ turn.batch[turn.at].call = call /\ Status(turn.at) = "proposed"
<1>1. turn.batch \in Seq(Entry)
  BY DEF Typed, Turn
<1> QED
  BY <1>1 DEF AtCall, Status

LEMMA StartCallIs ==
  ASSUME Typed, NEW call \in Calls, StartCall(call)
  PROVE  /\ turn.pc = "batch" /\ turn.at \in 1..Len(turn.batch)
         /\ turn.batch[turn.at].call = call /\ Status(turn.at) = "proposed"
         /\ UNCHANGED <<agent, world>>
         /\ turn' \in Turn /\ turn'.pc = "tool" /\ turn'.executed = turn.executed
         /\ turn'.at = turn.at /\ turn'.batch = turn.batch /\ turn'.skips = turn.skips
<1>1. PICK t \in Turn : t = turn
  BY DEF Typed
<1>2. turn' = [t EXCEPT !.pc = "tool"]
  BY <1>1 DEF StartCall
<1>3. /\ turn' \in Turn /\ turn'.pc = "tool" /\ turn'.executed = t.executed
      /\ turn'.at = t.at /\ turn'.batch = t.batch /\ turn'.skips = t.skips
  BY <1>2 DEF Turn
<1> QED
  BY <1>1, <1>3, AtCallIs DEF StartCall

LEMMA SkipIs ==
  ASSUME Typed, NEW call \in Calls, SkipDuplicate(call)
  PROVE  /\ turn.pc = "batch" /\ turn.at \in 1..Len(turn.batch)
         /\ turn.batch[turn.at].call = call /\ Status(turn.at) = "proposed"
         /\ UNCHANGED <<agent, world>>
         /\ \/ turn' = NoTurn
            \/ /\ turn' \in Turn /\ turn'.pc = "batch" /\ turn'.executed = turn.executed
               /\ turn'.at = turn.at + 1 /\ turn'.skips = turn.skips + 1
               /\ Len(turn'.batch) = Len(turn.batch)
               /\ \A i \in 1..Len(turn.batch) :
                    turn'.batch[i].status = IF i = turn.at THEN "skipped" ELSE Status(i)
<1>1. /\ turn.pc = "batch" /\ turn.at \in 1..Len(turn.batch)
      /\ turn.batch[turn.at].call = call /\ Status(turn.at) = "proposed"
  BY AtCallIs DEF SkipDuplicate
<1>2. CASE turn' = NoTurn
  BY <1>1, <1>2 DEF SkipDuplicate
<1>3. CASE turn' # NoTurn
  <2>1. turn' = [Over("skipped") EXCEPT !.skips = @ + 1] /\ turn.skips + 1 < MaxSkips
    BY <1>3 DEF SkipDuplicate, EndTurn
  <2>2. PICK t \in Turn : /\ t = Over("skipped") /\ t.pc = "batch" /\ t.executed = turn.executed
                          /\ t.skips = turn.skips /\ t.at = turn.at + 1
                          /\ Len(t.batch) = Len(turn.batch)
                          /\ \A i \in 1..Len(turn.batch) :
                               t.batch[i].status = IF i = turn.at THEN "skipped" ELSE Status(i)
    BY <1>1, OverIs DEF Statuses
  <2>3. turn' = [t EXCEPT !.skips = t.skips + 1] /\ t.skips + 1 \in 0..(MaxSkips - 1)
    BY <2>1, <2>2, Budgets DEF Turn
  <2>4. /\ turn' \in Turn /\ turn'.pc = "batch" /\ turn'.executed = t.executed
        /\ turn'.at = t.at /\ turn'.skips = t.skips + 1 /\ turn'.batch = t.batch
    BY <2>2, <2>3 DEF Turn
  <2> QED
    BY <1>1, <2>2, <2>4 DEF SkipDuplicate
<1> QED
  BY <1>2, <1>3

\* The call has used the budget and is over.
LEMMA ExecutedIs ==
  ASSUME Typed, turn.pc = "tool", turn' = Executed(Over("ran"))
  PROVE  /\ turn' \in Turn /\ turn'.pc = "batch" /\ turn'.executed = turn.executed + 1
         /\ turn'.at = turn.at + 1 /\ turn'.skips = 0
         /\ Len(turn'.batch) = Len(turn.batch)
         /\ \A i \in 1..Len(turn.batch) :
              turn'.batch[i].status = IF i = turn.at THEN "ran" ELSE Status(i)
<1>1. turn.at \in 1..Len(turn.batch) /\ turn.executed < MaxToolCalls
  BY DEF Typed
<1>2. PICK t \in Turn : /\ t = Over("ran") /\ t.pc = "batch" /\ t.executed = turn.executed
                        /\ t.skips = turn.skips /\ t.at = turn.at + 1
                        /\ Len(t.batch) = Len(turn.batch)
                        /\ \A i \in 1..Len(turn.batch) :
                             t.batch[i].status = IF i = turn.at THEN "ran" ELSE Status(i)
  BY <1>1, OverIs DEF Statuses
<1>3. t.executed + 1 \in 0..MaxToolCalls /\ 0 \in 0..(MaxSkips - 1)
  BY <1>1, <1>2, Budgets DEF Turn
<1>4. turn' = [t EXCEPT !.executed = t.executed + 1, !.skips = 0]
  BY <1>2 DEF Executed
<1>5. /\ turn' \in Turn /\ turn'.pc = "batch" /\ turn'.executed = t.executed + 1
      /\ turn'.at = t.at /\ turn'.skips = 0 /\ turn'.batch = t.batch
  BY <1>2, <1>3, <1>4 DEF Turn
<1> QED
  BY <1>2, <1>5

\* A call that fails outdates at most what stays trusted.
LEMMA ChangedIs ==
  ASSUME Typed, NEW changed \in BOOLEAN, NEW advances \in BOOLEAN
  PROVE  LET w == Changed(changed, advances) IN
         /\ w \in World /\ w.last = world.last /\ w.streak = world.streak
         /\ ~ advances => Trusted(world) \subseteq Trusted(w)
<1>1. PICK v \in World : v = world
  BY DEF Typed
<1> DEFINE valid  == IF changed THEN {} ELSE v.valid
           unseen == IF advances THEN {} ELSE IF changed THEN v.unseen \cup v.valid ELSE v.unseen
           w      == [v EXCEPT !.valid = valid, !.unseen = unseen]
<1>2. valid \in SUBSET Calls /\ unseen \in SUBSET Calls
  BY DEF World
<1>3. Changed(changed, advances) = w
  BY <1>1 DEF Changed
<1>4. ~ advances => v.valid \cup v.unseen \subseteq valid \cup unseen
  OBVIOUS
<1> HIDE DEF valid, unseen
<1>5. w \in World /\ w.last = v.last /\ w.streak = v.streak /\ w.valid = valid /\ w.unseen = unseen
  BY <1>2 DEF World
<1> HIDE DEF w
<1> QED
  BY <1>1, <1>3, <1>4, <1>5 DEF Trusted

\* A call that returns is trusted when it succeeded, and of the others it outdates only what
\* it is known to change.
LEMMA WorldAfterIs ==
  ASSUME Typed, NEW call \in Calls, NEW ok \in BOOLEAN, NEW changed \in BOOLEAN
  PROVE  LET w == WorldAfter(call, ok, changed) IN
         /\ w \in World /\ w.last = call
         /\ w.streak = IF world.last = call THEN world.streak + 1 ELSE 1
         /\ call \notin MutatingCalls => Trusted(world) \subseteq Trusted(w)
         /\ ok => call \in Trusted(w)
<1> DEFINE advances == call \in MutatingCalls
           n        == IF world.last = call THEN world.streak + 1 ELSE 1
<1>1. n \in Nat
  BY DEF Typed, World
<1>2. PICK v \in World : /\ v = Changed(changed, advances) /\ v.streak = world.streak
                         /\ ~ advances => Trusted(world) \subseteq Trusted(v)
  <2>1. advances \in BOOLEAN
    OBVIOUS
  <2> HIDE DEF advances
  <2> QED
    BY <2>1, ChangedIs
<1> DEFINE c == [v EXCEPT !.last = call, !.streak = n]
<1>3. c \in World /\ c.last = call /\ c.streak = n /\ c.valid = v.valid /\ c.unseen = v.unseen
  <2> HIDE DEF n
  <2> QED
    BY <1>1 DEF World, AllCalls
<1>4. WorldAfter(call, ok, changed) = IF ok THEN Succeeded(c, call) ELSE c
  <2>1. c = [v EXCEPT !.last = call, !.streak = IF world.last = call THEN @ + 1 ELSE 1]
    BY <1>2
  <2> HIDE DEF c, n
  <2> QED
    BY <1>2, <2>1 DEF WorldAfter
<1>5. Trusted(c) = Trusted(v)
  BY <1>3 DEF Trusted
<1> HIDE DEF c
<1>6. CASE ok
  <2> DEFINE s == [c EXCEPT !.valid = c.valid \cup {call}, !.unseen = c.unseen \ {call}]
  <2>1. WorldAfter(call, ok, changed) = s
    BY <1>4, <1>6 DEF Succeeded
  <2>2. /\ s \in World /\ s.last = c.last /\ s.streak = c.streak
        /\ s.valid = c.valid \cup {call} /\ s.unseen = c.unseen \ {call}
    BY <1>3 DEF World
  <2> HIDE DEF s
  <2>3. call \in Trusted(s) /\ Trusted(c) \subseteq Trusted(s)
    BY <2>2 DEF Trusted
  <2> QED
    BY <1>2, <1>3, <1>5, <2>1, <2>2, <2>3
<1>7. CASE ~ ok
  BY <1>2, <1>3, <1>4, <1>5, <1>7
<1> QED
  BY <1>6, <1>7

LEMMA ToolFailsIs ==
  ASSUME Typed, NEW blocked \in BOOLEAN, NEW changed \in BOOLEAN, ToolFails(blocked, changed)
  PROVE  /\ turn.pc = "tool"
         /\ world' \in World /\ world'.last = world.last /\ world'.streak = world.streak
         /\ Trusted(world) \subseteq Trusted(world')
         /\ agent' \in Agent /\ agent'.next = agent.next /\ agent'.history = agent.history
         /\ agent'.epoch = agent.epoch /\ agent'.detector = agent.detector
         /\ Len(agent'.recent) <= MaxRecent
         /\ \A i \in 1..Len(agent'.recent) :
              \/ ~ agent'.recent[i].ok /\ agent'.recent[i].epoch = agent.epoch
              \/ \E j \in 1..Len(agent.recent) : agent'.recent[i] = agent.recent[j]
         /\ turn' = NoTurn \/ turn' = Executed(Over("ran"))
<1>1. /\ turn.pc = "tool" /\ agent' = Recorded(agent, Running, FALSE)
      /\ turn' = NoTurn \/ turn' = Executed(Over("ran"))
  BY DEF ToolFails, EndTurn
<1>5. /\ world' \in World /\ world'.last = world.last /\ world'.streak = world.streak
      /\ Trusted(world) \subseteq Trusted(world')
  BY ChangedIs DEF ToolFails
<1>2. Running \in Calls
  BY <1>1 DEF Typed, Running
<1>3. agent \in Agent /\ Len(agent.recent) <= MaxRecent
  BY DEF Typed
<1>4. /\ agent' \in Agent /\ agent'.next = agent.next /\ agent'.history = agent.history
      /\ agent'.epoch = agent.epoch /\ agent'.detector = agent.detector
      /\ Len(agent'.recent) <= MaxRecent
      /\ \A i \in 1..Len(agent'.recent) :
           \/ agent'.recent[i].ok = FALSE /\ agent'.recent[i].epoch = agent.epoch
           \/ \E j \in 1..Len(agent.recent) : agent'.recent[i] = agent.recent[j]
  <2>1. PICK a \in Agent, call \in Calls, ok \in BOOLEAN :
          a = agent /\ call = Running /\ Len(a.recent) <= MaxRecent /\ ~ ok
    BY <1>2, <1>3
  <2>2. PICK b : b = Recorded(a, call, ok)
    OBVIOUS
  <2>3. /\ b \in Agent /\ b.next = a.next /\ b.history = a.history /\ b.epoch = a.epoch
        /\ b.detector = a.detector /\ Len(b.recent) <= MaxRecent
        /\ \A i \in 1..Len(b.recent) :
             \/ b.recent[i].call = call /\ b.recent[i].ok = ok /\ b.recent[i].epoch = a.epoch
             \/ \E j \in 1..Len(a.recent) : b.recent[i] = a.recent[j]
    BY <2>1, <2>2, RecordedIs, SMTT(60)
  <2>4. agent' = b
    BY <1>1, <2>1, <2>2
  <2> QED
    BY <2>1, <2>3, <2>4
<1> QED
  BY <1>1, <1>4, <1>5

LEMMA ToolReturnsIs ==
  ASSUME Typed, Watched, NEW ok \in BOOLEAN, NEW changed \in BOOLEAN,
         NEW key \in LoopKeys(Running), ToolReturns(ok, changed, key)
  PROVE  LET check == CheckAndAdvance(agent.detector, key) IN
         /\ turn.pc = "tool" /\ Running \in Calls /\ key \in Key
         /\ agent.detector \in Detector /\ agent.detector.state # "Halt"
         /\ Len(agent.detector.window) <= WindowCapacity
         /\ world' \in World /\ world'.last = Running
         /\ Running \notin MutatingCalls => Trusted(world) \subseteq Trusted(world')
         /\ ok => Running \in Trusted(world')
         /\ world'.streak = IF world.last = Running THEN world.streak + 1 ELSE 1
         /\ agent' \in Agent /\ agent'.next = agent.next /\ agent'.history = agent.history
         /\ agent'.epoch = EpochAfter(Running) /\ agent'.detector = check.after
         /\ Len(agent'.recent) <= MaxRecent
         /\ EpochAfter(Running) \in agent.epoch..(agent.epoch + 1)
         /\ \/ check.signal = "Halt" /\ turn' = NoTurn
            \/ /\ check.signal # "Halt" /\ turn' = Executed(Over("ran"))
               /\ \A i \in 1..Len(agent'.recent) :
                    \/ /\ agent'.recent[i].call = Running /\ agent'.recent[i].ok = ok
                       /\ agent'.recent[i].epoch = EpochAfter(Running)
                    \/ \E j \in 1..Len(agent.recent) : agent'.recent[i] = agent.recent[j]
<1> DEFINE check == CheckAndAdvance(agent.detector, key)
           seen == [agent EXCEPT !.epoch = EpochAfter(Running), !.detector = check.after]
<1>1. turn.pc = "tool" /\ Running \in Calls
  BY DEF Typed, Running, ToolReturns
<1>2. key \in Key
  BY <1>1 DEF LoopKeys, Key
<1>3. PICK a \in Agent : a = agent /\ Len(a.recent) <= MaxRecent
  BY DEF Typed
<1>4. /\ a.detector \in Detector /\ a.epoch \in Nat /\ a.detector.state # "Halt"
      /\ Len(a.detector.window) <= WindowCapacity
  BY <1>1, <1>3 DEF Agent, Watched
<1>5. EpochAfter(Running) \in Nat /\ EpochAfter(Running) \in agent.epoch..(agent.epoch + 1)
  BY <1>3, <1>4 DEF EpochAfter
<1>6. check.after \in Detector
  BY <1>2, <1>3, <1>4, CheckIs
<1>7. /\ world' = WorldAfter(Running, ok, changed)
      /\ \/ check.signal = "Halt" /\ turn' = NoTurn /\ agent' = seen
         \/ /\ check.signal # "Halt" /\ turn' = Executed(Over("ran"))
            /\ agent' = Recorded(seen, Running, ok)
  BY DEF ToolReturns, EndTurn
<1> HIDE DEF check
<1>8. PICK b \in Agent : /\ b = seen /\ b.next = a.next /\ b.history = a.history
                         /\ b.recent = a.recent /\ b.epoch = EpochAfter(Running)
                         /\ b.detector = check.after
  <2> DEFINE n == EpochAfter(Running)
  <2>1. n \in Nat /\ seen = [a EXCEPT !.epoch = n, !.detector = check.after]
    BY <1>3, <1>5
  <2> HIDE DEF n, seen
  <2>2. seen \in Agent
    BY <1>6, <2>1 DEF Agent
  <2>3. /\ seen.next = a.next /\ seen.history = a.history /\ seen.recent = a.recent
        /\ seen.epoch = n /\ seen.detector = check.after
    BY <1>6, <2>1 DEF Agent
  <2> QED
    BY <2>2, <2>3 DEF n
<1> HIDE DEF seen
<1>9. /\ world' \in World /\ world'.last = Running
      /\ Running \notin MutatingCalls => Trusted(world) \subseteq Trusted(world')
      /\ ok => Running \in Trusted(world')
      /\ world'.streak = IF world.last = Running THEN world.streak + 1 ELSE 1
  BY <1>1, <1>7, WorldAfterIs
<1>10. CASE check.signal = "Halt" /\ turn' = NoTurn /\ agent' = seen
  BY <1>1, <1>2, <1>3, <1>4, <1>5, <1>8, <1>9, <1>10 DEF check
<1>11. CASE /\ check.signal # "Halt" /\ turn' = Executed(Over("ran"))
            /\ agent' = Recorded(seen, Running, ok)
  <2>1. PICK c : c = agent' /\ c = Recorded(b, Running, ok) /\ Len(b.recent) <= MaxRecent
    BY <1>3, <1>8, <1>11
  <2>2. /\ c \in Agent /\ c.next = b.next /\ c.history = b.history
        /\ c.epoch = b.epoch /\ c.detector = b.detector
        /\ Len(c.recent) <= MaxRecent
        /\ \A i \in 1..Len(c.recent) :
             \/ /\ c.recent[i].call = Running /\ c.recent[i].ok = ok
                /\ c.recent[i].epoch = b.epoch
             \/ \E j \in 1..Len(b.recent) : c.recent[i] = b.recent[j]
    BY <1>1, <2>1, RecordedIs, SMTT(60)
  <2>3. /\ agent'.next = agent.next /\ agent'.history = agent.history
        /\ agent'.epoch = EpochAfter(Running) /\ agent'.detector = check.after
    BY <1>3, <1>8, <2>1, <2>2
  <2>4. \A i \in 1..Len(agent'.recent) :
          \/ /\ agent'.recent[i].call = Running /\ agent'.recent[i].ok = ok
             /\ agent'.recent[i].epoch = EpochAfter(Running)
          \/ \E j \in 1..Len(agent.recent) : agent'.recent[i] = agent.recent[j]
    BY <1>3, <1>8, <2>1, <2>2
  <2>5. EpochAfter(Running) \in agent.epoch..(agent.epoch + 1)
    BY <1>5
  <2>6. agent' \in Agent /\ Len(agent'.recent) <= MaxRecent
    BY <2>1, <2>2
  <2>7. /\ turn.pc = "tool" /\ Running \in Calls /\ key \in Key
        /\ agent.detector \in Detector /\ agent.detector.state # "Halt"
        /\ Len(agent.detector.window) <= WindowCapacity
    BY <1>1, <1>2, <1>3, <1>4
  <2>8. check.signal # "Halt" /\ turn' = Executed(Over("ran"))
    BY <1>11, Zenon
  <2> QED
    BY <1>9, <2>3, <2>4, <2>5, <2>6, <2>7, <2>8, Zenon DEF check
<1> QED
  BY <1>7, <1>10, <1>11

-----------------------------------------------------------------------------
(* The steps *)

\* The turn ends and the agent stays as it is.
Ends == turn.pc # "idle" /\ turn' = NoTurn /\ UNCHANGED <<agent, world>>

\* The alternatives of a step, with those that only end the turn taken together.
LEMMA StepIs ==
  ASSUME Typed, Next
  PROVE  \/ BeginTurn
         \/ OtherOp
         \/ AskModel
         \/ EndBatch
         \/ Ends
         \/ \E committed \in BOOLEAN : DirectTurn(committed)
         \/ \E history \in AfterCompact(agent.history) :
              \/ FinalAnswer(history)
              \/ CompactNow(history)
              \/ \E calls \in Batches : ProposeTools(calls, history)
         \/ \E call \in Calls : SkipDuplicate(call) /\ turn' # NoTurn
         \/ \E call \in Calls : StartCall(call)
         \/ \E ok \in BOOLEAN, changed \in BOOLEAN, key \in LoopKeys(Running) :
              ToolReturns(ok, changed, key)
         \/ \E blocked \in BOOLEAN, changed \in BOOLEAN : ToolFails(blocked, changed)
<1>1. GiveUp \/ ModelFails \/ InvalidCall \/ Abort => Ends
  BY DEF GiveUp, ModelFails, InvalidCall, Abort, EndTurn, AtCall, Ends
<1>2. ASSUME NEW call \in Calls, SkipDuplicate(call), turn' = NoTurn PROVE Ends
  BY <1>2, SkipIs DEF Ends
<1>3. ASSUME NEW changed \in MayChange(Running) PROVE changed \in BOOLEAN
  BY DEF MayChange
<1>4. CASE \E changed \in MayChange(Running) :
             \/ \E ok \in BOOLEAN, key \in LoopKeys(Running) : ToolReturns(ok, changed, key)
             \/ \E blocked \in BOOLEAN : ToolFails(blocked, changed)
  BY <1>3, <1>4
<1>5. CASE \E history \in AfterCompact(agent.history) :
             \/ FinalAnswer(history)
             \/ CompactNow(history)
             \/ \E calls \in Batches : ProposeTools(calls, history)
  BY <1>5
<1>6. CASE \E call \in Calls : SkipDuplicate(call) \/ StartCall(call)
  BY <1>2, <1>6
<1> QED
  BY <1>1, <1>4, <1>5, <1>6 DEF Next

LEMMA HistoryWidens ==
  ASSUME NEW m \in Int, NEW n \in Int, m <= n, NEW h, HistoryUpTo(h, m)
  PROVE  HistoryUpTo(h, n)
BY DEF HistoryUpTo

LEMMA ToldIs ==
  ASSUME Typed
  PROVE  /\ agent.next \in Nat /\ Told \in Nat /\ Told <= agent.next - 1
         /\ turn.pc = "idle" => Told = agent.next - 1
         /\ turn.pc # "idle" => Told = agent.next - 2 /\ ThisTurn = agent.next - 1
BY DEF Typed, Agent, Told, ThisTurn

\* Each history that a step writes.
LEMMA HistoriesAre ==
  ASSUME Typed, Remembered, NEW h \in AfterCompact(agent.history)
  PROVE  /\ h \in Seq(Item) /\ HistoryUpTo(h, Told)
         /\ turn.pc # "idle" => /\ CommitTurn(h, ThisTurn) \in Seq(Item)
                                /\ HistoryUpTo(CommitTurn(h, ThisTurn), ThisTurn)
         /\ turn.pc = "idle" => /\ CommitTurn(agent.history, agent.next) \in Seq(Item)
                                /\ HistoryUpTo(CommitTurn(agent.history, agent.next), agent.next)
<1>1. HistoryUpTo(agent.history, Told) /\ Told \in Nat
  BY ToldIs DEF Remembered
<1>2. HistoryUpTo(h, Told)
  BY <1>1, AfterCompactKeeps
<1>3. h \in Seq(Item)
  BY <1>2 DEF HistoryUpTo
<1>4. ASSUME turn.pc # "idle" PROVE HistoryUpTo(CommitTurn(h, ThisTurn), ThisTurn)
  <2>1. ThisTurn \in Nat /\ Told < ThisTurn
    BY <1>4, ToldIs
  <2> QED
    BY <1>1, <1>2, <2>1, Committed
<1>5. ASSUME turn.pc = "idle"
      PROVE  HistoryUpTo(CommitTurn(agent.history, agent.next), agent.next)
  <2>1. agent.next \in Nat /\ Told < agent.next
    BY <1>5, ToldIs
  <2> QED
    BY <1>1, <2>1, Committed
<1> QED
  BY <1>2, <1>3, <1>4, <1>5 DEF HistoryUpTo

\* After the history alone: no compaction is as good as any.
LEMMA NoCompaction == agent.history \in AfterCompact(agent.history)
BY DEF AfterCompact

LEMMA FinalAnswerIs ==
  ASSUME Typed, Remembered, NEW h \in AfterCompact(agent.history), FinalAnswer(h)
  PROVE  /\ turn.pc = "model" /\ turn' = NoTurn /\ world' = world
         /\ agent' \in Agent /\ agent'.next = agent.next
         /\ agent'.history = CommitTurn(h, ThisTurn)
         /\ agent'.recent = agent.recent /\ agent'.epoch = agent.epoch
         /\ agent'.detector = agent.detector
<1>1. /\ turn.pc = "model" /\ turn' = NoTurn /\ world' = world
      /\ agent' = [agent EXCEPT !.history = CommitTurn(h, ThisTurn)]
  BY DEF FinalAnswer, EndTurn
<1>2. CommitTurn(h, ThisTurn) \in Seq(Item)
  BY <1>1, HistoriesAre
<1> QED
  BY <1>1, <1>2, HistoryIs

LEMMA TypedStep ==
  ASSUME Typed, Tidy, Watched, Remembered, [Next]_vars
  PROVE  Typed'
<1>1. CASE UNCHANGED vars
  BY <1>1 DEF vars, Typed
<1> SUFFICES ASSUME Next PROVE Typed'
  BY <1>1
<1>2. /\ turn \in Turn /\ turn.executed \in 0..MaxToolCalls /\ turn.batch \in Seq(Entry)
      /\ turn.at \in Nat \ {0}
      /\ agent.next \in Nat /\ agent.epoch \in Nat /\ MaxToolCalls \in Nat /\ MaxRecent \in Nat
  BY Budgets DEF Typed, Turn, Agent
<1>3. ASSUME BeginTurn PROVE Typed'
  <2>1. /\ agent' \in Agent /\ agent'.next = agent.next + 1 /\ Len(agent'.recent) = 0
        /\ agent'.epoch = 0 /\ agent.next >= 1
        /\ turn' \in Turn /\ turn'.pc = "planning" /\ turn'.executed = 0 /\ turn'.at = 1
        /\ Len(turn'.batch) = 0 /\ world' \in World
    BY <1>3, BeginTurnIs DEF Typed, Agent
  <2> QED
    BY <1>2, <2>1 DEF Typed
<1>4. ASSUME OtherOp PROVE Typed'
  BY <1>2, <1>4, OtherOpIs DEF Typed
<1>5. ASSUME AskModel PROVE Typed'
  BY <1>2, <1>5, AskModelIs DEF Typed
<1>6. ASSUME EndBatch PROVE Typed'
  <2>1. PICK t \in Turn : t = turn
    BY <1>2
  <2>2. /\ turn' = [t EXCEPT !.pc = "planning"] /\ UNCHANGED <<agent, world>>
        /\ turn.pc = "batch"
    BY <1>6, <2>1 DEF EndBatch
  <2>3. /\ turn' \in Turn /\ turn'.pc = "planning" /\ turn'.at = t.at /\ turn'.batch = t.batch
        /\ turn'.executed = t.executed
    BY <2>2 DEF Turn
  <2> QED
    BY <2>1, <2>2, <2>3 DEF Typed
<1>7. ASSUME Ends PROVE Typed'
  BY <1>2, <1>7, NoTurnIs DEF Typed, Ends
<1>8. ASSUME NEW committed \in BOOLEAN, DirectTurn(committed) PROVE Typed'
  <2>1. turn.pc = "idle"
    BY <1>8 DEF DirectTurn
  <2>2. CommitTurn(agent.history, agent.next) \in Seq(Item)
    BY <2>1, HistoriesAre, NoCompaction
  <2> QED
    BY <1>2, <1>8, <2>2, DirectTurnIs DEF Typed
<1>9. ASSUME NEW h \in AfterCompact(agent.history), FinalAnswer(h) PROVE Typed'
  BY <1>2, <1>9, FinalAnswerIs, NoTurnIs DEF Typed
<1>10. ASSUME NEW h \in AfterCompact(agent.history), CompactNow(h) PROVE Typed'
  <2>1. h \in Seq(Item)
    BY HistoriesAre
  <2>2. agent' = [agent EXCEPT !.history = h] /\ turn.pc = "idle" /\ UNCHANGED <<turn, world>>
    BY <1>10 DEF CompactNow
  <2> QED
    BY <2>1, <2>2, HistoryIs DEF Typed
<1>11. ASSUME NEW h \in AfterCompact(agent.history), NEW calls \in Batches, ProposeTools(calls, h)
       PROVE  Typed'
  <2>1. h \in Seq(Item)
    BY HistoriesAre
  <2>2. /\ agent' \in Agent /\ agent'.next = agent.next /\ agent'.recent = agent.recent
        /\ agent'.epoch = agent.epoch
    BY <1>11, <2>1, ProposeIs, HistoryIs
  <2>3. /\ turn.pc = "model" /\ world' = world
        /\ turn' \in Turn /\ turn'.pc = "batch" /\ turn'.executed = turn.executed
        /\ turn'.at = 1 /\ turn'.batch \in Seq(Entry)
    BY <1>11, <2>1, ProposeIs
  <2> QED
    BY <1>2, <2>2, <2>3 DEF Typed
<1>12. ASSUME NEW call \in Calls, SkipDuplicate(call), turn' # NoTurn PROVE Typed'
  <2>1. /\ turn.pc = "batch" /\ turn.at \in 1..Len(turn.batch) /\ UNCHANGED <<agent, world>>
        /\ turn' \in Turn /\ turn'.pc = "batch" /\ turn'.executed = turn.executed
        /\ turn'.at = turn.at + 1 /\ Len(turn'.batch) = Len(turn.batch)
    BY <1>12, SkipIs
  <2> QED
    BY <1>2, <2>1 DEF Typed
<1>13. ASSUME NEW call \in Calls, StartCall(call) PROVE Typed'
  <2>1. /\ turn.pc = "batch" /\ turn.at \in 1..Len(turn.batch) /\ UNCHANGED <<agent, world>>
        /\ turn.batch[turn.at].call = call /\ Status(turn.at) = "proposed"
        /\ turn' \in Turn /\ turn'.pc = "tool" /\ turn'.executed = turn.executed
        /\ turn'.at = turn.at /\ turn'.batch = turn.batch
    BY <1>13, StartCallIs
  <2>2. turn.executed < MaxToolCalls
    <3>1. turn.executed + turn.at < turn.at + MaxToolCalls
      BY <2>1 DEF Tidy
    <3> QED
      BY <1>2, <3>1
  <2> QED
    BY <1>2, <2>1, <2>2 DEF Typed, Status
<1>14. ASSUME NEW ok \in BOOLEAN, NEW changed \in BOOLEAN, NEW key \in LoopKeys(Running),
              ToolReturns(ok, changed, key)
       PROVE  Typed'
  <2>1. /\ turn.pc = "tool" /\ world' \in World
        /\ agent' \in Agent /\ agent'.next = agent.next
        /\ agent'.epoch \in agent.epoch..(agent.epoch + 1)
        /\ Len(agent'.recent) <= MaxRecent
        /\ turn' = NoTurn \/ turn' = Executed(Over("ran"))
    BY <1>14, ToolReturnsIs
  <2>2. /\ agent.epoch <= turn.executed /\ agent.next >= 2 /\ turn.executed < MaxToolCalls
        /\ turn.at \in 1..Len(turn.batch)
    BY <2>1 DEF Typed
  <2>3. CASE turn' = NoTurn
    BY <1>2, <2>1, <2>2, <2>3, NoTurnIs DEF Typed
  <2>4. CASE turn' = Executed(Over("ran"))
    <3>1. /\ turn' \in Turn /\ turn'.pc = "batch" /\ turn'.executed = turn.executed + 1
          /\ turn'.at = turn.at + 1 /\ Len(turn'.batch) = Len(turn.batch)
      BY <2>1, <2>4, ExecutedIs
    <3>2. agent'.epoch <= turn'.executed /\ agent'.epoch <= MaxToolCalls
      BY <1>2, <2>1, <2>2, <3>1
    <3>3. turn'.at <= Len(turn'.batch) + 1
      BY <1>2, <2>2, <3>1
    <3>4. agent'.epoch \in Nat
      BY <2>1 DEF Agent
    <3> QED
      BY <1>2, <2>1, <2>2, <3>1, <3>2, <3>3, <3>4 DEF Typed
  <2> QED
    BY <2>1, <2>3, <2>4
<1>15. ASSUME NEW blocked \in BOOLEAN, NEW changed \in BOOLEAN, ToolFails(blocked, changed) PROVE Typed'
  <2>1. /\ turn.pc = "tool" /\ world' \in World
        /\ agent' \in Agent /\ agent'.next = agent.next /\ agent'.epoch = agent.epoch
        /\ Len(agent'.recent) <= MaxRecent
        /\ turn' = NoTurn \/ turn' = Executed(Over("ran"))
    BY <1>15, ToolFailsIs
  <2>2. /\ agent.epoch <= turn.executed /\ agent.next >= 2 /\ turn.executed < MaxToolCalls
        /\ turn.at \in 1..Len(turn.batch)
    BY <2>1 DEF Typed
  <2>3. CASE turn' = NoTurn
    BY <1>2, <2>1, <2>2, <2>3, NoTurnIs DEF Typed
  <2>4. CASE turn' = Executed(Over("ran"))
    <3>1. /\ turn' \in Turn /\ turn'.pc = "batch" /\ turn'.executed = turn.executed + 1
          /\ turn'.at = turn.at + 1 /\ Len(turn'.batch) = Len(turn.batch)
      BY <2>1, <2>4, ExecutedIs
    <3> QED
      BY SMTT(20), <1>2, <2>1, <2>2, <3>1 DEF Typed
  <2> QED
    BY <2>1, <2>3, <2>4
<1> QED
  BY StepIs, <1>3, <1>4, <1>5, <1>6, <1>7, <1>8, <1>9, <1>10, <1>11, <1>12, <1>13, <1>14, <1>15

\* Tidy of a batch in which the call at the turn's place goes from proposed to over. What is
\* left shifts by one place, and so does the budget if the call used it.
LEMMA OneCallOver ==
  ASSUME Typed, Tidy, turn.pc \in {"batch", "tool"}, turn.at \in 1..Len(turn.batch),
         Status(turn.at) = "proposed", NEW status \in {"ran", "skipped"}, Typed',
         turn'.pc = "batch", turn'.at = turn.at + 1, Len(turn'.batch) = Len(turn.batch),
         status = "ran" => turn'.executed = turn.executed + 1,
         status = "skipped" => turn'.executed = turn.executed,
         \A i \in 1..Len(turn.batch) :
           turn'.batch[i].status = IF i = turn.at THEN status ELSE Status(i)
  PROVE  Tidy'
<1>1. /\ turn.executed \in Nat /\ turn.at \in Nat /\ MaxToolCalls \in Nat
      /\ turn'.executed \in Nat /\ Len(turn.batch) \in Nat
  BY Budgets DEF Typed, Turn
<1>2. \A i \in 1..Len(turn.batch) : Status(i)' = IF i = turn.at THEN status ELSE Status(i)
  BY DEF Status
<1>3. NoneSkipped' => NoneSkipped /\ status = "ran"
  <2>1. SUFFICES ASSUME NoneSkipped' PROVE NoneSkipped /\ status = "ran"
    OBVIOUS
  <2>2. \A i \in 1..Len(turn.batch) : Status(i)' # "skipped"
    BY <2>1 DEF NoneSkipped
  <2>3. status = "ran"
    BY <1>2, <2>2
  <2>4. \A i \in 1..Len(turn.batch) : Status(i) # "skipped"
    BY <1>2, <2>2
  <2> QED
    BY <2>3, <2>4 DEF NoneSkipped
<1>4. ASSUME NEW i \in 1..Len(turn.batch)
      PROVE  /\ i < turn'.at => Status(i)' \in {"ran", "skipped"}
             /\ i >= turn'.at => Status(i)' \in {"proposed", "dropped"}
             /\ Status(i)' = "proposed" => turn'.executed + i < turn'.at + MaxToolCalls
             /\ NoneSkipped' /\ Status(i)' = "dropped" /\ (i = 1 \/ Status(i - 1)' # "dropped")
                  => turn'.executed + i = turn'.at + MaxToolCalls
  <2>1. /\ i < turn.at => Status(i) \in {"ran", "skipped"}
        /\ i >= turn.at => Status(i) \in {"proposed", "dropped"}
        /\ Status(i) = "proposed" => turn.executed + i < turn.at + MaxToolCalls
        /\ NoneSkipped /\ Status(i) = "dropped" /\ (i = 1 \/ Status(i - 1) # "dropped")
             => turn.executed + i = turn.at + MaxToolCalls
    BY DEF Tidy
  <2>2. CASE i = turn.at
    <3>1. Status(i)' = status
      BY <1>2, <2>2
    <3> QED
      BY <1>1, <2>2, <3>1
  <2>3. CASE i # turn.at
    <3>1. Status(i)' = Status(i) /\ (i < turn'.at <=> i < turn.at)
      BY <1>1, <1>2, <2>3
    <3>2. Status(i)' = "proposed" => turn'.executed + i < turn'.at + MaxToolCalls
      BY <1>1, <2>1, <3>1
    <3>3. ASSUME NoneSkipped', Status(i)' = "dropped", i = 1 \/ Status(i - 1)' # "dropped"
          PROVE  turn'.executed + i = turn'.at + MaxToolCalls
      <4>1. turn'.executed = turn.executed + 1 /\ NoneSkipped
        BY <1>3, <3>3
      <4>2. i = 1 \/ Status(i - 1) # "dropped"
        <5>1. SUFFICES ASSUME i # 1 PROVE Status(i - 1) # "dropped"
          OBVIOUS
        <5>2. i - 1 \in 1..Len(turn.batch)
          BY <5>1
        <5>3. CASE i - 1 = turn.at
          BY <5>3
        <5>4. CASE i - 1 # turn.at
          <6>1. Status(i - 1)' = Status(i - 1) /\ Status(i - 1)' # "dropped"
            BY <1>2, <3>3, <5>1, <5>2, <5>4
          <6> QED
            BY <6>1
        <5> QED
          BY <5>3, <5>4
      <4>3. turn.executed + i = turn.at + MaxToolCalls
        BY <2>1, <3>1, <3>3, <4>1, <4>2
      <4>4. i \in Nat /\ turn'.at = turn.at + 1
        BY <1>1
      <4>5. turn'.executed = turn.executed + 1
        BY <4>1
      <4>6. turn'.executed + i = (turn.executed + i) + 1
        BY <1>1, <4>4, <4>5
      <4>7. turn'.at + MaxToolCalls = (turn.at + MaxToolCalls) + 1
        BY <1>1, <4>4
      <4> QED
        BY <4>3, <4>6, <4>7
    <3> QED
      BY <1>1, <2>1, <3>1, <3>2, <3>3
  <2> QED
    BY <2>2, <2>3
<1> QED
  BY <1>4 DEF Tidy

LEMMA TidyStep ==
  ASSUME Typed, Tidy, Watched, Remembered, [Next]_vars
  PROVE  Tidy'
<1>1. CASE UNCHANGED vars
  BY <1>1 DEF vars, Tidy, Status, NoneSkipped, EveryCallAnswered
<1> SUFFICES ASSUME Next PROVE Tidy'
  BY <1>1
<1>2. /\ turn.executed \in Nat /\ turn.at \in Nat \ {0} /\ MaxToolCalls \in Nat
      /\ turn.batch \in Seq(Entry) /\ Len(turn.batch) \in Nat
  BY Budgets DEF Typed, Turn
<1>3. Typed'
  BY TypedStep
<1>4. ASSUME turn'.pc = "idle" PROVE Tidy'
  BY <1>4 DEF Tidy
<1>5. ASSUME BeginTurn PROVE Tidy'
  <2>1. turn'.pc = "planning" /\ Len(turn'.batch) = 0
    BY <1>5, BeginTurnIs
  <2> QED
    BY <2>1 DEF Tidy
<1>6. ASSUME AskModel PROVE Tidy'
  <2>1. /\ turn.pc = "planning" /\ turn.executed < MaxToolCalls
        /\ turn'.pc = "model" /\ turn'.batch = turn.batch
    BY <1>6, AskModelIs
  <2>2. \A i \in 1..Len(turn.batch) : /\ Status(i) \in Statuses /\ Status(i) # "proposed"
                                      /\ NoneSkipped => Status(i) # "dropped"
    <3>1. \A i \in 1..Len(turn.batch) : turn.batch[i] \in Entry
      BY <1>2
    <3> QED
      BY <1>2, <2>1, <3>1 DEF Tidy, Entry, Status
  <2>3. EveryCallAnswered'
    <3>1. DOMAIN turn'.batch = 1..Len(turn.batch)
      BY <1>2, <2>1
    <3>2. CASE \A i \in 1..Len(turn.batch) : Status(i) # "dropped"
      BY <2>1, <2>2, <3>1, <3>2 DEF EveryCallAnswered, Status, Statuses
    <3>3. CASE \E j \in 1..Len(turn.batch) : Status(j) = "dropped"
      <4>1. \E i \in 1..Len(turn.batch) : Status(i) = "skipped"
        BY <2>2, <3>3 DEF NoneSkipped
      <4> QED
        BY <2>1, <3>1, <3>3, <4>1 DEF EveryCallAnswered, Status
    <3> QED
      BY <3>2, <3>3
  <2> QED
    BY <2>1, <2>2, <2>3 DEF Tidy, Status
<1>7. ASSUME EndBatch PROVE Tidy'
  <2>1. PICK t \in Turn : t = turn
    BY DEF Typed
  <2>2. /\ turn.pc = "batch" /\ turn' = [t EXCEPT !.pc = "planning"]
        /\ \A i \in 1..Len(turn.batch) : i >= turn.at => Status(i) = "dropped"
    BY <1>2, <1>7, <2>1 DEF EndBatch, Status
  <2>3. turn'.pc = "planning" /\ turn'.batch = turn.batch /\ turn'.executed = turn.executed
    BY <2>1, <2>2 DEF Turn
  <2>4. ASSUME NEW i \in 1..Len(turn.batch)
        PROVE  Status(i) # "proposed" /\ (i < turn.at \/ i >= turn.at)
    BY <1>2, <2>2 DEF Tidy
  <2>5. ASSUME NoneSkipped, NEW i \in 1..Len(turn.batch), Status(i) = "dropped"
        PROVE  turn.executed = MaxToolCalls
    <3>1. turn.at \in 1..Len(turn.batch) /\ Status(turn.at) = "dropped"
      BY <1>2, <2>2, <2>4, <2>5 DEF Tidy
    <3>2. turn.at = 1 \/ Status(turn.at - 1) # "dropped"
      <4>1. SUFFICES ASSUME turn.at # 1 PROVE Status(turn.at - 1) # "dropped"
        OBVIOUS
      <4>2. turn.at - 1 \in 1..Len(turn.batch) /\ turn.at - 1 < turn.at
        BY <1>2, <3>1, <4>1
      <4>3. Status(turn.at - 1) \in {"ran", "skipped"}
        BY <2>2, <4>2 DEF Tidy
      <4> QED
        BY <4>3
    <3>3. turn.executed + turn.at = turn.at + MaxToolCalls
      BY <2>2, <2>5, <3>1, <3>2 DEF Tidy
    <3> QED
      BY <1>2, <3>3
  <2> QED
    BY <2>3, <2>4, <2>5 DEF Tidy, Status, NoneSkipped
<1>8. ASSUME NEW h \in AfterCompact(agent.history), NEW calls \in Batches, ProposeTools(calls, h)
      PROVE  Tidy'
  <2>1. h \in Seq(Item)
    BY HistoriesAre
  <2>2. /\ turn.pc = "model" /\ turn'.pc = "batch" /\ turn'.executed = turn.executed
        /\ turn'.at = 1 /\ turn'.batch \in Seq(Entry)
        /\ \A i \in 1..Len(turn'.batch) :
             turn'.batch[i].status = IF i <= Remaining THEN "proposed" ELSE "dropped"
    BY <1>8, <2>1, ProposeIs
  <2>3. Remaining = MaxToolCalls - turn.executed /\ turn.executed < MaxToolCalls
    BY <2>2 DEF Typed, Remaining
  <2>4. ASSUME NEW i \in 1..Len(turn'.batch)
        PROVE  /\ i < turn'.at => Status(i)' \in {"ran", "skipped"}
               /\ i >= turn'.at => Status(i)' \in {"proposed", "dropped"}
               /\ Status(i)' = "proposed" => turn'.executed + i < turn'.at + MaxToolCalls
               /\ Status(i)' = "dropped" /\ (i = 1 \/ Status(i - 1)' # "dropped")
                    => turn'.executed + i = turn'.at + MaxToolCalls
    <3>1. /\ Status(i)' = IF i <= Remaining THEN "proposed" ELSE "dropped"
          /\ i # 1 => Status(i - 1)' = IF i - 1 <= Remaining THEN "proposed" ELSE "dropped"
      BY <2>2 DEF Status
    <3>2. i >= turn'.at /\ Status(i)' \in {"proposed", "dropped"}
      BY <2>2, <3>1
    <3>3. Status(i)' = "proposed" => turn'.executed + i < turn'.at + MaxToolCalls
      BY <1>2, <2>2, <2>3, <3>1
    <3>4. ASSUME Status(i)' = "dropped", i = 1 \/ Status(i - 1)' # "dropped"
          PROVE  turn'.executed + i = turn'.at + MaxToolCalls
      <4>1. i > Remaining /\ Remaining >= 1 /\ Remaining \in Int
        BY <1>2, <2>3, <3>1, <3>4
      <4>2. i # 1
        BY <4>1
      <4>3. i - 1 <= Remaining
        BY <3>1, <3>4, <4>2
      <4>4. i \in Nat
        BY <2>2
      <4>5. i = Remaining + 1
        BY <4>1, <4>3, <4>4
      <4> QED
        BY <1>2, <2>2, <2>3, <4>5
    <3> QED
      BY <2>2, <3>2, <3>3, <3>4
  <2> QED
    BY <2>2, <2>4 DEF Tidy
<1>9. ASSUME NEW call \in Calls, SkipDuplicate(call), turn' # NoTurn PROVE Tidy'
  <2>1. /\ turn.pc = "batch" /\ turn.at \in 1..Len(turn.batch) /\ Status(turn.at) = "proposed"
        /\ turn'.pc = "batch" /\ turn'.executed = turn.executed /\ turn'.at = turn.at + 1
        /\ Len(turn'.batch) = Len(turn.batch)
        /\ \A i \in 1..Len(turn.batch) :
             turn'.batch[i].status = IF i = turn.at THEN "skipped" ELSE Status(i)
    BY <1>9, SkipIs
  <2> QED
    BY <1>3, <2>1, OneCallOver
<1>10. ASSUME NEW call \in Calls, StartCall(call) PROVE Tidy'
  <2>1. /\ turn.pc = "batch" /\ turn'.pc = "tool" /\ turn'.executed = turn.executed
        /\ turn'.at = turn.at /\ turn'.batch = turn.batch
    BY <1>10, StartCallIs
  <2> QED
    BY <2>1 DEF Tidy, Status, NoneSkipped
<1>11. ASSUME turn.pc = "tool", turn' = Executed(Over("ran")) PROVE Tidy'
  <2>1. /\ turn'.pc = "batch" /\ turn'.executed = turn.executed + 1 /\ turn'.at = turn.at + 1
        /\ Len(turn'.batch) = Len(turn.batch)
        /\ \A i \in 1..Len(turn.batch) :
             turn'.batch[i].status = IF i = turn.at THEN "ran" ELSE Status(i)
    BY <1>11, ExecutedIs
  <2>2. turn.at \in 1..Len(turn.batch) /\ Status(turn.at) = "proposed"
    BY <1>11 DEF Typed, Status
  <2> QED
    BY <1>3, <1>11, <2>1, <2>2, OneCallOver
<1>12. ASSUME NEW ok \in BOOLEAN, NEW changed \in BOOLEAN, NEW key \in LoopKeys(Running),
              ToolReturns(ok, changed, key)
       PROVE  Tidy'
  <2>1. turn.pc = "tool" /\ (turn' = NoTurn \/ turn' = Executed(Over("ran")))
    BY <1>12, ToolReturnsIs
  <2> QED
    BY <1>4, <1>11, <2>1, NoTurnIs
<1>13. ASSUME NEW blocked \in BOOLEAN, NEW changed \in BOOLEAN, ToolFails(blocked, changed) PROVE Tidy'
  <2>1. turn.pc = "tool" /\ (turn' = NoTurn \/ turn' = Executed(Over("ran")))
    BY <1>13, ToolFailsIs
  <2> QED
    BY <1>4, <1>11, <2>1, NoTurnIs
<1>14. ASSUME turn.pc = "idle", turn' = turn PROVE Tidy'
  BY <1>4, <1>14
<1>15. ASSUME OtherOp \/ (\E committed \in BOOLEAN : DirectTurn(committed))
              \/ (\E h \in AfterCompact(agent.history) : CompactNow(h))
       PROVE  Tidy'
  BY <1>14, <1>15 DEF OtherOp, DirectTurn, CompactNow
<1>16. ASSUME NEW h \in AfterCompact(agent.history), FinalAnswer(h) PROVE Tidy'
  BY <1>4, <1>16, FinalAnswerIs, NoTurnIs
<1>17. ASSUME Ends PROVE Tidy'
  BY <1>4, <1>17, NoTurnIs DEF Ends
<1> QED
  BY StepIs, <1>5, <1>6, <1>7, <1>8, <1>9, <1>10, <1>12, <1>13, <1>15, <1>16, <1>17

\* The detector and the world are as before, and a request knows of the warning.
LEMMA WatchedQuiet ==
  ASSUME Watched, agent'.detector = agent.detector,
         world'.last = world.last, world'.streak = world.streak,
         turn'.pc # "idle" => turn.pc # "idle",
         turn'.pc = "model" => turn'.recovery = NeedsRecovery
  PROVE  Watched'
BY DEF Watched, NeedsRecovery

\* The call returned and the detector did not halt: one more of it at the end of the window,
\* or the first of it.
LEMMA WatchedReturn ==
  ASSUME Typed, Watched, NEW ok \in BOOLEAN, NEW changed \in BOOLEAN,
         NEW key \in LoopKeys(Running), ToolReturns(ok, changed, key),
         Running \notin UnorderedCalls, CheckAndAdvance(agent.detector, key).signal # "Halt"
  PROVE  LET d == CheckAndAdvance(agent.detector, key).after IN
         /\ key = <<Running, 1>> /\ world'.streak <= WarnThreshold
         /\ EndsWith(d.window, key, world'.streak)
         /\ world'.streak = WarnThreshold => d.state = "Warned" /\ key \in d.warned
<1> DEFINE d == CheckAndAdvance(agent.detector, key).after
           old == agent.detector.window
<1>1. key = <<Running, 1>>
  BY DEF LoopKeys
<1>2. /\ turn.pc = "tool" /\ key \in Key /\ agent.detector \in Detector
      /\ agent.detector.state # "Halt" /\ Len(old) <= WindowCapacity
      /\ world'.streak = IF world.last = Running THEN world.streak + 1 ELSE 1
  BY ToolReturnsIs
<1>3. old \in Seq(Key) /\ Len(old) \in Nat /\ world.streak \in Nat
  BY <1>2 DEF Detector, Typed, World
<1>4. /\ d.window = Pushed(old, key)
      /\ EndsWith(Pushed(old, key), key, WarnThreshold) => d.state = "Warned" /\ key \in d.warned
      /\ ~ (agent.detector.state = "Warned" /\ key \in agent.detector.warned)
  BY <1>2, CheckIs
<1>5. \A n \in Nat : EndsWith(old, key, n) /\ n < WindowCapacity
                       => EndsWith(Pushed(old, key), key, n + 1)
  BY <1>2, <1>3, PushedIs
<1>6. CASE world.last = Running
  <2>1. /\ world.streak <= WarnThreshold /\ EndsWith(old, key, world.streak)
        /\ world.streak = WarnThreshold =>
             agent.detector.state = "Warned" /\ key \in agent.detector.warned
    BY <1>1, <1>2, <1>6 DEF Watched
  <2>2. world.streak < WarnThreshold /\ world.streak < WindowCapacity
    BY <1>3, <1>4, <2>1, Budgets
  <2>3. EndsWith(Pushed(old, key), key, world.streak + 1)
    BY <1>3, <1>5, <2>1, <2>2
  <2>4. world'.streak = world.streak + 1 /\ world'.streak <= WarnThreshold
    BY <1>2, <1>3, <1>6, <2>2, Budgets
  <2> QED
    BY <1>1, <1>4, <2>3, <2>4
<1>7. CASE world.last # Running
  <2>1. EndsWith(old, key, 0)
    BY <1>3 DEF EndsWith
  <2>2. EndsWith(Pushed(old, key), key, 1)
    <3>1. 0 \in Nat /\ 0 < WindowCapacity /\ 0 + 1 = 1
      BY Budgets
    <3> QED
      BY <1>5, <2>1, <3>1
  <2>3. world'.streak = 1 /\ 1 <= WarnThreshold
    BY <1>2, <1>7, Budgets
  <2> QED
    BY <1>1, <1>4, <2>2, <2>3
<1> QED
  BY <1>6, <1>7

LEMMA WatchedStep ==
  ASSUME Typed, Tidy, Watched, Remembered, [Next]_vars
  PROVE  Watched'
<1>1. CASE UNCHANGED vars
  BY <1>1 DEF vars, Watched
<1> SUFFICES ASSUME Next PROVE Watched'
  BY <1>1
<1>2. ASSUME agent'.detector = agent.detector, world' = world, turn'.pc # "model",
             turn'.pc # "idle" => turn.pc # "idle"
      PROVE  Watched'
  BY <1>2, WatchedQuiet
<1>3. ASSUME BeginTurn PROVE Watched'
  <2>1. /\ agent'.detector = FreshDetector /\ turn'.pc = "planning"
        /\ world'.last = Nameless /\ world'.streak = 0
    BY <1>3, BeginTurnIs
  <2>2. EndsWith(<<>>, <<Nameless, 1>>, 0)
    BY DEF EndsWith
  <2>3. 0 \in Nat /\ 0 <= WarnThreshold + 1 /\ 0 <= WarnThreshold /\ 0 # WarnThreshold
        /\ 0 <= WindowCapacity
    BY Budgets
  <2> QED
    BY <2>1, <2>2, <2>3, FreshIs DEF Watched
<1>4. ASSUME AskModel PROVE Watched'
  <2>1. /\ turn.pc = "planning" /\ agent' = agent /\ world' = world
        /\ turn'.recovery = NeedsRecovery
    BY <1>4, AskModelIs
  <2> QED
    BY <2>1, WatchedQuiet
<1>5. ASSUME EndBatch PROVE Watched'
  <2>1. PICK t \in Turn : t = turn
    BY DEF Typed
  <2>2. /\ turn.pc = "batch" /\ turn' = [t EXCEPT !.pc = "planning"]
        /\ agent' = agent /\ world' = world
    BY <1>5, <2>1 DEF EndBatch
  <2>3. turn'.pc = "planning"
    BY <2>2 DEF Turn
  <2> QED
    BY <1>2, <2>2, <2>3
<1>6. ASSUME turn.pc = "idle", turn' = turn, agent'.detector = agent.detector, world' = world
      PROVE  Watched'
  BY <1>2, <1>6
<1>7. ASSUME OtherOp PROVE Watched'
  BY <1>6, <1>7, OtherOpIs
<1>8. ASSUME NEW committed \in BOOLEAN, DirectTurn(committed) PROVE Watched'
  <2>1. turn.pc = "idle"
    BY <1>8 DEF DirectTurn
  <2>2. CommitTurn(agent.history, agent.next) \in Seq(Item)
    BY <2>1, HistoriesAre, NoCompaction
  <2> QED
    BY <1>6, <1>8, <2>2, DirectTurnIs
<1>9. ASSUME NEW h \in AfterCompact(agent.history), CompactNow(h) PROVE Watched'
  <2>1. h \in Seq(Item)
    BY HistoriesAre
  <2>2. /\ agent' = [agent EXCEPT !.history = h] /\ turn.pc = "idle" /\ turn' = turn
        /\ world' = world
    BY <1>9 DEF CompactNow
  <2> QED
    BY <1>6, <2>1, <2>2, HistoryIs
<1>10. ASSUME Ends PROVE Watched'
  <2>1. turn'.pc = "idle" /\ agent' = agent /\ world' = world
    BY <1>10, NoTurnIs DEF Ends
  <2> QED
    BY <1>2, <2>1
<1>11. ASSUME NEW h \in AfterCompact(agent.history), FinalAnswer(h) PROVE Watched'
  <2>1. turn'.pc = "idle" /\ agent'.detector = agent.detector /\ world' = world
    BY <1>11, FinalAnswerIs, NoTurnIs
  <2> QED
    BY <1>2, <2>1
<1>12. ASSUME NEW h \in AfterCompact(agent.history), NEW calls \in Batches, ProposeTools(calls, h)
       PROVE  Watched'
  <2>1. h \in Seq(Item)
    BY HistoriesAre
  <2>2. /\ turn.pc = "model" /\ turn'.pc = "batch" /\ world' = world
        /\ agent' = [agent EXCEPT !.history = h]
    BY <1>12, <2>1, ProposeIs
  <2>3. agent'.detector = agent.detector
    BY <2>1, <2>2, HistoryIs
  <2> QED
    BY <1>2, <2>2, <2>3
<1>13. ASSUME NEW call \in Calls, SkipDuplicate(call), turn' # NoTurn PROVE Watched'
  <2>1. turn.pc = "batch" /\ turn'.pc = "batch" /\ agent' = agent /\ world' = world
    BY <1>13, SkipIs
  <2> QED
    BY <1>2, <2>1
<1>14. ASSUME NEW call \in Calls, StartCall(call) PROVE Watched'
  <2>1. turn.pc = "batch" /\ turn'.pc = "tool" /\ agent' = agent /\ world' = world
    BY <1>14, StartCallIs
  <2> QED
    BY <1>2, <2>1
<1>15. ASSUME NEW blocked \in BOOLEAN, NEW changed \in BOOLEAN, ToolFails(blocked, changed) PROVE Watched'
  <2>1. /\ turn.pc = "tool" /\ agent'.detector = agent.detector
        /\ world'.last = world.last /\ world'.streak = world.streak
        /\ turn' = NoTurn \/ turn' = Executed(Over("ran"))
    BY <1>15, ToolFailsIs
  <2>2. turn'.pc \in {"idle", "batch"}
    BY <2>1, NoTurnIs, ExecutedIs
  <2> QED
    BY <2>1, <2>2, WatchedQuiet
<1>16. ASSUME NEW ok \in BOOLEAN, NEW changed \in BOOLEAN, NEW key \in LoopKeys(Running),
              ToolReturns(ok, changed, key)
       PROVE  Watched'
  <2> DEFINE check == CheckAndAdvance(agent.detector, key)
  <2>1. /\ turn.pc = "tool" /\ key \in Key /\ agent.detector \in Detector
        /\ agent.detector.state # "Halt" /\ Len(agent.detector.window) <= WindowCapacity
        /\ world'.last = Running /\ agent'.detector = check.after
        /\ world'.streak = IF world.last = Running THEN world.streak + 1 ELSE 1
        /\ \/ check.signal = "Halt" /\ turn' = NoTurn
           \/ check.signal # "Halt" /\ turn' = Executed(Over("ran"))
    BY <1>16, ToolReturnsIs
  <2>2. ASSUME Running \notin UnorderedCalls PROVE world'.streak <= WarnThreshold + 1
    <3>1. world.streak \in Nat
      BY DEF Typed, World
    <3>2. world.last = Running => world.streak <= WarnThreshold
      BY <2>1, <2>2 DEF Watched
    <3> QED
      BY <2>1, <3>1, <3>2, Budgets
  <2>3. CASE check.signal = "Halt" /\ turn' = NoTurn
    <3>1. turn'.pc = "idle"
      BY <2>3, NoTurnIs
    <3> QED
      BY <2>1, <2>2, <3>1 DEF Watched
  <2>4. CASE check.signal # "Halt" /\ turn' = Executed(Over("ran"))
    <3>1. turn'.pc = "batch"
      BY <2>1, <2>4, ExecutedIs
    <3>2. /\ check.after.state # "Halt" /\ Len(check.after.window) <= WindowCapacity
      BY <2>1, <2>4, CheckIs
    <3>3. ASSUME Running \notin UnorderedCalls
          PROVE  /\ key = <<Running, 1>> /\ world'.streak <= WarnThreshold
                 /\ EndsWith(check.after.window, key, world'.streak)
                 /\ world'.streak = WarnThreshold =>
                      check.after.state = "Warned" /\ key \in check.after.warned
      BY <1>16, <2>4, <3>3, WatchedReturn
    <3> HIDE DEF check
    <3> QED
      BY <2>1, <2>2, <3>1, <3>2, <3>3 DEF Watched
  <2> QED
    BY <2>1, <2>3, <2>4
<1> QED
  BY StepIs, <1>3, <1>4, <1>5, <1>7, <1>8, <1>9, <1>10, <1>11, <1>12, <1>13, <1>14, <1>15, <1>16

\* The turn is over or goes on, and the history has not gone beyond what was told.
LEMMA StillRemembered ==
  ASSUME Typed, agent'.next \in Nat, agent'.next >= agent.next,
         turn.pc = "idle" => turn'.pc = "idle" \/ agent'.next > agent.next,
         HistoryUpTo(agent'.history, Told)
  PROVE  Remembered'
<1>1. Told \in Int /\ Told' \in Int /\ Told <= Told'
  BY ToldIs DEF Told
<1> QED
  BY <1>1, HistoryWidens DEF Remembered

LEMMA RememberedStep ==
  ASSUME Typed, Tidy, Watched, Remembered, [Next]_vars
  PROVE  Remembered'
<1>1. CASE UNCHANGED vars
  BY <1>1 DEF vars, Remembered, Told
<1> SUFFICES ASSUME Next PROVE Remembered'
  BY <1>1
<1>2. HistoryUpTo(agent.history, Told) /\ agent.next \in Nat
  BY ToldIs DEF Remembered
<1>3. ASSUME agent'.history = agent.history, agent'.next = agent.next, turn.pc # "idle"
      PROVE  Remembered'
  BY <1>2, <1>3, StillRemembered
<1>4. ASSUME BeginTurn PROVE Remembered'
  <2>1. agent'.history = agent.history /\ agent'.next = agent.next + 1
    BY <1>4, BeginTurnIs
  <2> QED
    BY <1>2, <2>1, StillRemembered
<1>5. ASSUME OtherOp PROVE Remembered'
  <2>1. agent'.history = agent.history /\ agent'.next = agent.next + 1
    BY <1>5, OtherOpIs
  <2> QED
    BY <1>2, <2>1, StillRemembered
<1>6. ASSUME AskModel \/ EndBatch \/ Ends PROVE Remembered'
  <2>1. agent' = agent /\ turn.pc # "idle"
    BY <1>6 DEF AskModel, EndBatch, Ends
  <2> QED
    BY <1>3, <2>1
<1>7. ASSUME NEW committed \in BOOLEAN, DirectTurn(committed) PROVE Remembered'
  <2>1. turn.pc = "idle"
    BY <1>7 DEF DirectTurn
  <2>2. /\ CommitTurn(agent.history, agent.next) \in Seq(Item)
        /\ HistoryUpTo(CommitTurn(agent.history, agent.next), agent.next)
    BY <2>1, HistoriesAre, NoCompaction
  <2>3. /\ turn' = turn /\ agent'.next = agent.next + 1
        /\ agent'.history = IF committed THEN CommitTurn(agent.history, agent.next)
                            ELSE agent.history
    BY <1>7, <2>2, DirectTurnIs
  <2>4. CASE committed
    <3>1. Told' = agent.next
      BY <1>2, <2>1, <2>3 DEF Told
    <3> QED
      BY <2>2, <2>3, <2>4, <3>1 DEF Remembered
  <2>5. CASE ~ committed
    BY <1>2, <2>3, <2>5, StillRemembered
  <2> QED
    BY <2>4, <2>5
<1>8. ASSUME NEW h \in AfterCompact(agent.history), FinalAnswer(h) PROVE Remembered'
  <2>1. /\ turn.pc = "model" /\ turn'.pc = "idle" /\ agent'.next = agent.next
        /\ agent'.history = CommitTurn(h, ThisTurn)
    BY <1>8, FinalAnswerIs, NoTurnIs
  <2>2. HistoryUpTo(CommitTurn(h, ThisTurn), ThisTurn)
    BY <2>1, HistoriesAre
  <2>3. Told' = ThisTurn
    BY <2>1 DEF Told, ThisTurn
  <2> QED
    BY <2>1, <2>2, <2>3 DEF Remembered
<1>9. ASSUME NEW h \in AfterCompact(agent.history), CompactNow(h) PROVE Remembered'
  <2>1. h \in Seq(Item) /\ HistoryUpTo(h, Told)
    BY HistoriesAre
  <2>2. agent' = [agent EXCEPT !.history = h] /\ turn' = turn
    BY <1>9 DEF CompactNow
  <2>3. agent'.history = h /\ agent'.next = agent.next
    BY <2>1, <2>2, HistoryIs
  <2> QED
    BY <1>2, <2>1, <2>2, <2>3, StillRemembered
<1>10. ASSUME NEW h \in AfterCompact(agent.history), NEW calls \in Batches, ProposeTools(calls, h)
       PROVE  Remembered'
  <2>1. h \in Seq(Item) /\ HistoryUpTo(h, Told)
    BY HistoriesAre
  <2>2. agent' = [agent EXCEPT !.history = h] /\ turn.pc = "model"
    BY <1>10 DEF ProposeTools
  <2>3. agent'.history = h /\ agent'.next = agent.next
    BY <2>1, <2>2, HistoryIs
  <2> QED
    BY <1>2, <2>1, <2>2, <2>3, StillRemembered
<1>11. ASSUME NEW call \in Calls, SkipDuplicate(call) \/ StartCall(call) PROVE Remembered'
  <2>1. agent' = agent /\ turn.pc # "idle"
    BY <1>11 DEF SkipDuplicate, StartCall, AtCall
  <2> QED
    BY <1>3, <2>1
<1>12. ASSUME NEW ok \in BOOLEAN, NEW changed \in BOOLEAN, NEW key \in LoopKeys(Running),
              ToolReturns(ok, changed, key)
       PROVE  Remembered'
  <2>1. turn.pc = "tool" /\ agent'.history = agent.history /\ agent'.next = agent.next
    BY <1>12, ToolReturnsIs
  <2> QED
    BY <1>3, <2>1
<1>13. ASSUME NEW blocked \in BOOLEAN, NEW changed \in BOOLEAN, ToolFails(blocked, changed) PROVE Remembered'
  <2>1. turn.pc = "tool" /\ agent'.history = agent.history /\ agent'.next = agent.next
    BY <1>13, ToolFailsIs
  <2> QED
    BY <1>3, <2>1
<1> QED
  BY StepIs, <1>4, <1>5, <1>6, <1>7, <1>8, <1>9, <1>10, <1>11, <1>12, <1>13

\* A success that is remembered has been outdated by nothing the agent could know of.
LEMMA UpToDateStep ==
  ASSUME Typed, Tidy, Watched, Remembered, UpToDate, [Next]_vars
  PROVE  UpToDate'
<1>1. CASE UNCHANGED vars
  BY <1>1 DEF vars, UpToDate
<1> SUFFICES ASSUME Next PROVE UpToDate'
  BY <1>1
<1>2. ASSUME turn'.pc = "idle" PROVE UpToDate'
  BY <1>2 DEF UpToDate
<1>3. ASSUME turn.pc # "idle", agent'.recent = agent.recent, agent'.epoch = agent.epoch,
             world' = world
      PROVE  UpToDate'
  BY <1>3 DEF UpToDate
<1>4. ASSUME BeginTurn PROVE UpToDate'
  <2>1. Len(agent'.recent) = 0
    BY <1>4, BeginTurnIs
  <2> QED
    BY <2>1 DEF UpToDate
<1>5. ASSUME AskModel \/ EndBatch \/ Ends PROVE UpToDate'
  <2>1. turn.pc # "idle" /\ agent' = agent /\ world' = world
    BY <1>5 DEF AskModel, EndBatch, Ends
  <2> QED
    BY <1>3, <2>1
<1>6. ASSUME OtherOp \/ (\E committed \in BOOLEAN : DirectTurn(committed))
             \/ (\E h \in AfterCompact(agent.history) : CompactNow(h))
      PROVE  UpToDate'
  BY <1>2, <1>6 DEF OtherOp, DirectTurn, CompactNow
<1>7. ASSUME NEW h \in AfterCompact(agent.history), FinalAnswer(h) PROVE UpToDate'
  BY <1>2, <1>7, FinalAnswerIs, NoTurnIs
<1>8. ASSUME NEW h \in AfterCompact(agent.history), NEW calls \in Batches, ProposeTools(calls, h)
      PROVE  UpToDate'
  <2>1. h \in Seq(Item)
    BY HistoriesAre
  <2>2. agent' = [agent EXCEPT !.history = h] /\ turn.pc = "model" /\ world' = world
    BY <1>8 DEF ProposeTools
  <2>3. agent'.recent = agent.recent /\ agent'.epoch = agent.epoch
    BY <2>1, <2>2, HistoryIs
  <2> QED
    BY <1>3, <2>2, <2>3
<1>9. ASSUME NEW call \in Calls, SkipDuplicate(call) \/ StartCall(call) PROVE UpToDate'
  <2>1. agent' = agent /\ world' = world /\ turn.pc # "idle"
    BY <1>9 DEF SkipDuplicate, StartCall, AtCall
  <2> QED
    BY <1>3, <2>1
<1>10. ASSUME turn.pc # "idle",
              \A i \in 1..Len(agent'.recent) :
                \/ /\ agent'.recent[i].epoch = agent'.epoch
                   /\ agent'.recent[i].ok => agent'.recent[i].call \in Trusted(world')
                \/ \E j \in 1..Len(agent.recent) : agent'.recent[i] = agent.recent[j],
              agent'.epoch \in Nat, agent.epoch <= agent'.epoch,
              agent'.epoch = agent.epoch => Trusted(world) \subseteq Trusted(world')
       PROVE  UpToDate'
  <2> SUFFICES ASSUME NEW i \in 1..Len(agent'.recent)
               PROVE  /\ agent'.recent[i].epoch <= agent'.epoch
                      /\ agent'.recent[i].ok /\ agent'.recent[i].epoch = agent'.epoch
                           => agent'.recent[i].call \in Trusted(world')
    BY DEF UpToDate
  <2>1. CASE /\ agent'.recent[i].epoch = agent'.epoch
             /\ agent'.recent[i].ok => agent'.recent[i].call \in Trusted(world')
    BY <1>10, <2>1
  <2>2. ASSUME NEW j \in 1..Len(agent.recent), agent'.recent[i] = agent.recent[j]
        PROVE  /\ agent'.recent[i].epoch <= agent'.epoch
               /\ agent'.recent[i].ok /\ agent'.recent[i].epoch = agent'.epoch
                    => agent'.recent[i].call \in Trusted(world')
    <3>1. PICK e \in Recent : e = agent.recent[j] /\ e = agent'.recent[i]
      BY <2>2 DEF Typed, Agent
    <3>2. e.epoch \in Nat /\ agent.epoch \in Nat
      BY DEF Recent, Typed, Agent
    <3>3. e.epoch <= agent.epoch /\ (e.ok /\ e.epoch = agent.epoch => e.call \in Trusted(world))
      BY <1>10, <3>1 DEF UpToDate
    <3>4. e.epoch <= agent'.epoch
      BY <1>10, <3>2, <3>3
    <3>5. ASSUME e.ok, e.epoch = agent'.epoch PROVE e.call \in Trusted(world')
      <4>1. agent'.epoch = agent.epoch
        BY <1>10, <3>2, <3>3, <3>5
      <4> QED
        BY <1>10, <3>3, <3>5, <4>1
    <3> QED
      BY <3>1, <3>4, <3>5
  <2> QED
    BY <1>10, <2>1, <2>2
<1>11. ASSUME NEW ok \in BOOLEAN, NEW changed \in BOOLEAN, NEW key \in LoopKeys(Running),
              ToolReturns(ok, changed, key)
       PROVE  UpToDate'
  <2>1. /\ turn.pc = "tool" /\ Running \in Calls /\ agent' \in Agent
        /\ agent'.epoch = EpochAfter(Running)
        /\ EpochAfter(Running) \in agent.epoch..(agent.epoch + 1)
        /\ Running \notin MutatingCalls => Trusted(world) \subseteq Trusted(world')
        /\ ok => Running \in Trusted(world')
        /\ \/ turn' = NoTurn
           \/ \A i \in 1..Len(agent'.recent) :
                \/ /\ agent'.recent[i].call = Running /\ agent'.recent[i].ok = ok
                   /\ agent'.recent[i].epoch = EpochAfter(Running)
                \/ \E j \in 1..Len(agent.recent) : agent'.recent[i] = agent.recent[j]
    BY <1>11, ToolReturnsIs
  <2>2. CASE turn' = NoTurn
    BY <1>2, <2>2, NoTurnIs
  <2>3. CASE \A i \in 1..Len(agent'.recent) :
               \/ /\ agent'.recent[i].call = Running /\ agent'.recent[i].ok = ok
                  /\ agent'.recent[i].epoch = EpochAfter(Running)
               \/ \E j \in 1..Len(agent.recent) : agent'.recent[i] = agent.recent[j]
    <3>1. agent'.epoch \in Nat /\ agent.epoch \in Nat /\ agent.epoch <= agent'.epoch
      BY <2>1 DEF Typed, Agent
    <3>2. agent'.epoch = agent.epoch => Trusted(world) \subseteq Trusted(world')
      <4>1. SUFFICES ASSUME agent'.epoch = agent.epoch PROVE Running \notin MutatingCalls
        BY <2>1
      <4> QED
        BY <2>1, <3>1, <4>1 DEF EpochAfter
    <3>3. ok => Running \in Trusted(world')
      BY <2>1
    <3>4. \A i \in 1..Len(agent'.recent) :
            \/ /\ agent'.recent[i].epoch = agent'.epoch
               /\ agent'.recent[i].ok => agent'.recent[i].call \in Trusted(world')
            \/ \E j \in 1..Len(agent.recent) : agent'.recent[i] = agent.recent[j]
      BY <2>1, <2>3, <3>3
    <3> QED
      BY <1>10, <2>1, <3>1, <3>2, <3>4
  <2> QED
    BY <2>1, <2>2, <2>3
<1>12. ASSUME NEW blocked \in BOOLEAN, NEW changed \in BOOLEAN, ToolFails(blocked, changed) PROVE UpToDate'
  <2>1. /\ turn.pc = "tool" /\ Trusted(world) \subseteq Trusted(world') /\ agent'.epoch = agent.epoch
        /\ \A i \in 1..Len(agent'.recent) :
             \/ ~ agent'.recent[i].ok /\ agent'.recent[i].epoch = agent.epoch
             \/ \E j \in 1..Len(agent.recent) : agent'.recent[i] = agent.recent[j]
    BY <1>12, ToolFailsIs
  <2>2. agent.epoch \in Nat
    BY DEF Typed, Agent
  <2> QED
    BY <1>10, <2>1, <2>2
<1> QED
  BY StepIs, <1>4, <1>5, <1>6, <1>7, <1>8, <1>9, <1>11, <1>12

LEMMA Start == Init => Typed /\ Tidy /\ Watched /\ Remembered /\ UpToDate
<1> SUFFICES ASSUME Init PROVE Typed /\ Tidy /\ Watched /\ Remembered /\ UpToDate
  OBVIOUS
<1>1. turn.pc = "idle" /\ turn \in Turn /\ turn.at = 1 /\ Len(turn.batch) = 0
  BY NoTurnIs DEF Init
<1>2. PICK d \in Detector : d = FreshDetector
  BY FreshIs
<1>3. /\ agent = [next |-> 1, history |-> <<>>, recent |-> <<>>, epoch |-> 0, detector |-> d]
      /\ agent.next = 1 /\ agent.history = <<>> /\ Len(agent.recent) = 0 /\ agent.epoch = 0
  BY <1>2 DEF Init
<1>4. agent \in Agent
  <2>1. 1 \in 1..(MaxTurns + 1) /\ 0 \in Nat /\ <<>> \in Seq(Item) /\ <<>> \in Seq(Recent)
    BY Budgets
  <2> QED
    BY <1>3, <2>1 DEF Agent
<1>5. world \in World /\ world.streak = 0
  BY DEF Init, FreshWorld, World, AllCalls
<1>6. Typed
  BY <1>1, <1>3, <1>4, <1>5, Budgets DEF Typed
<1>7. Watched
  BY <1>1, <1>5, Budgets DEF Watched
<1>8. Remembered
  <2> DEFINE h == agent.history
  <2>1. h \in Seq(Item) /\ Len(h) = 0 /\ \A i : i \notin DOMAIN h
    BY <1>3
  <2>2. TurnIndices(h) = {}
    BY <2>1 DEF TurnIndices
  <2>3. Cardinality(TurnIndices(h)) = 0 /\ 0 <= MaxHistoryTurns
    BY <2>2, FS_EmptySet, HistoryAssumption
  <2> HIDE DEF h
  <2>4. HistoryUpTo(h, Told)
    BY <2>1, <2>3 DEF HistoryUpTo, InOrder
  <2> QED
    BY <2>4 DEF Remembered, h
<1> QED
  BY <1>1, <1>6, <1>7, <1>8 DEF Tidy, UpToDate

Invariant == Typed /\ Tidy /\ Watched /\ Remembered

LEMMA InvariantStep == Invariant /\ [Next]_vars => Invariant'
BY TypedStep, TidyStep, WatchedStep, RememberedStep DEF Invariant

LEMMA InvariantAlways == Spec => []Invariant
<1>1. Init => Invariant
  BY Start DEF Invariant
<1> QED
  BY <1>1, InvariantStep, PTL DEF Spec

-----------------------------------------------------------------------------
(* Theorems *)

\* When the model is asked again it gets a result for every tool call of its last answer,
\* unless that answer went beyond the budget and one of its calls was skipped (planner.rs).
THEOREM EveryCallIsAnswered == Spec => []EveryCallAnswered
<1>1. Invariant => EveryCallAnswered
  BY DEF Invariant, Tidy, EveryCallAnswered
<1> QED
  BY <1>1, InvariantAlways, PTL

\* A turn stays within its budgets, and a call in one form that keeps returning runs once at
\* most after the warning, which the model is told of (execute_natural_language_turn,
\* loop_detector.rs).
THEOREM TurnsAreBounded == Spec => []TurnIsBounded
<1>1. ASSUME Invariant PROVE TypeOK
  <2>1. Typed /\ HistoryUpTo(agent.history, Told)
    BY <1>1 DEF Invariant, Remembered
  <2>2. /\ agent.next \in 1..(MaxTurns + 1) /\ agent.epoch \in 0..MaxToolCalls + 1
        /\ agent.recent \in Seq([call : Calls, ok : BOOLEAN, epoch : Nat])
        /\ Len(agent.recent) <= MaxRecent /\ agent.detector.state \in Signals
    BY <2>1, Budgets DEF Typed, Agent, Recent, Detector
  <2>3. \A i \in DOMAIN agent.history : agent.history[i].of \subseteq 1..ThisTurn
    <3>1. Told <= ThisTurn /\ Told \in Nat /\ ThisTurn \in Int
      BY <2>1, ToldIs DEF ThisTurn
    <3>2. 1..Told \subseteq 1..ThisTurn
      BY <3>1
    <3>3. DOMAIN agent.history = 1..Len(agent.history)
      BY <2>1 DEF HistoryUpTo
    <3> QED
      BY <2>1, <3>2, <3>3 DEF HistoryUpTo
  <2>4. /\ turn.pc \in {"idle", "planning", "model", "batch", "tool"}
        /\ turn.executed \in 0..MaxToolCalls /\ turn.rounds \in 0..MaxRounds
        /\ turn.skips \in 0..(MaxSkips - 1)
        /\ turn.batch \in Seq([call : AllCalls, status : Statuses])
        /\ turn.recovery \in BOOLEAN
    BY <2>1 DEF Typed, Turn, Entry
  <2>5. turn.at \in 1..(Len(turn.batch) + 1)
    BY <2>1, <2>4 DEF Typed, Turn
  <2>6. /\ world.valid \cup world.unseen \subseteq Calls
        /\ world.last \in AllCalls /\ world.streak \in Nat
    BY <2>1 DEF Typed, World
  <2> QED
    BY <2>2, <2>3, <2>4, <2>5, <2>6 DEF TypeOK
<1>2. ASSUME Invariant PROVE RepeatsAreStopped
  <2>1. world.streak \in Nat /\ Watched /\ WarnThreshold \in Nat
    BY <1>2, Budgets DEF Invariant, Typed, World
  <2> QED
    BY <2>1 DEF Watched, RepeatsAreStopped
<1>3. Invariant => TurnIsBounded
  BY <1>1, <1>2 DEF TurnIsBounded
<1> QED
  BY <1>3, InvariantAlways, PTL

\* What a step makes of the history: as it was, what do_compact leaves, or a turn committed.
LEMMA HistorySteps ==
  ASSUME Invariant, [Next]_vars
  PROVE  \/ agent'.history \in AfterCompact(agent.history)
         \/ /\ agent'.next - 1 \in Nat /\ Told < agent'.next - 1
            /\ \E h \in AfterCompact(agent.history) :
                 agent'.history = CommitTurn(h, agent'.next - 1)
<1>1. CASE UNCHANGED vars
  BY <1>1, NoCompaction DEF vars
<1> SUFFICES ASSUME Next
             PROVE  \/ agent'.history \in AfterCompact(agent.history)
                    \/ /\ agent'.next - 1 \in Nat /\ Told < agent'.next - 1
                       /\ \E h \in AfterCompact(agent.history) :
                            agent'.history = CommitTurn(h, agent'.next - 1)
  BY <1>1
<1>2. Typed /\ Watched /\ Remembered
  BY DEF Invariant
<1>3. ASSUME agent'.history = agent.history PROVE agent'.history \in AfterCompact(agent.history)
  BY <1>3, NoCompaction
<1>4. ASSUME AskModel \/ EndBatch \/ Ends PROVE agent'.history = agent.history
  BY <1>4 DEF AskModel, EndBatch, Ends
<1>5. ASSUME NEW committed \in BOOLEAN, DirectTurn(committed)
      PROVE  \/ agent'.history = agent.history
             \/ /\ agent'.next - 1 \in Nat /\ Told < agent'.next - 1
                /\ agent'.history = CommitTurn(agent.history, agent'.next - 1)
  <2>1. turn.pc = "idle"
    BY <1>5 DEF DirectTurn
  <2>2. CommitTurn(agent.history, agent.next) \in Seq(Item)
    BY <1>2, <2>1, HistoriesAre, NoCompaction
  <2>3. /\ agent'.next = agent.next + 1
        /\ agent'.history = IF committed THEN CommitTurn(agent.history, agent.next)
                            ELSE agent.history
    BY <1>2, <1>5, <2>2, DirectTurnIs
  <2>4. agent'.next - 1 = agent.next /\ agent.next \in Nat /\ Told < agent.next
    BY <1>2, <2>3, ToldIs
  <2> QED
    BY <2>3, <2>4
<1>6. ASSUME NEW h \in AfterCompact(agent.history), FinalAnswer(h)
      PROVE  /\ agent'.next - 1 \in Nat /\ Told < agent'.next - 1
             /\ agent'.history = CommitTurn(h, agent'.next - 1)
  <2>1. /\ turn.pc = "model" /\ agent'.next = agent.next
        /\ agent'.history = CommitTurn(h, ThisTurn)
    BY <1>2, <1>6, FinalAnswerIs
  <2>2. ThisTurn = agent'.next - 1 /\ Told = agent.next - 2 /\ Told \in Nat /\ agent.next \in Nat
    BY <1>2, <2>1, ToldIs
  <2> QED
    BY <2>1, <2>2
<1>7. ASSUME NEW h \in AfterCompact(agent.history),
             CompactNow(h) \/ \E calls \in Batches : ProposeTools(calls, h)
      PROVE  agent'.history = h
  <2>1. h \in Seq(Item)
    BY <1>2, HistoriesAre
  <2>2. agent' = [agent EXCEPT !.history = h]
    BY <1>7 DEF CompactNow, ProposeTools
  <2> QED
    BY <1>2, <2>1, <2>2, HistoryIs
<1>8. ASSUME NEW call \in Calls, SkipDuplicate(call) \/ StartCall(call)
      PROVE  agent'.history = agent.history
  BY <1>8 DEF SkipDuplicate, StartCall
<1>9. ASSUME NEW ok \in BOOLEAN, NEW changed \in BOOLEAN, NEW key \in LoopKeys(Running),
             ToolReturns(ok, changed, key)
      PROVE  agent'.history = agent.history
  BY <1>2, <1>9, ToolReturnsIs
<1>10. ASSUME NEW blocked \in BOOLEAN, NEW changed \in BOOLEAN, ToolFails(blocked, changed)
       PROVE  agent'.history = agent.history
  BY <1>2, <1>10, ToolFailsIs
<1>11. ASSUME BeginTurn \/ OtherOp PROVE agent'.history = agent.history
  BY <1>2, <1>11, BeginTurnIs, OtherOpIs
<1> QED
  BY <1>2, StepIs, NoCompaction, <1>3, <1>4, <1>5, <1>6, <1>7, <1>8, <1>9, <1>10, <1>11

LEMMA HistoryStep ==
  ASSUME Invariant, [Next]_vars
  PROVE  LET h == agent.history
             forgotten == ToldBy(h) \ ToldBy(agent'.history)
         IN  /\ InOrder(agent'.history)
             /\ ToldBy(agent'.history) \ ToldBy(h) \subseteq {agent'.next - 1}
             /\ \A n \in forgotten : \E i \in TurnIndices(h) :
                  h[i].of = {n} /\ Cardinality(TurnsAfter(h, i)) = MaxHistoryTurns - 1
<1>1. HistoryUpTo(agent.history, Told) /\ Told \in Nat
  BY ToldIs DEF Invariant, Remembered
<1>2. InOrder(agent'.history)
  BY InvariantStep DEF Invariant, Remembered, HistoryUpTo
<1>3. CASE agent'.history \in AfterCompact(agent.history)
  <2>1. ToldBy(agent'.history) = ToldBy(agent.history)
    BY <1>1, <1>3, AfterCompactKeeps
  <2> QED
    BY <1>2, <2>1
<1>4. CASE /\ agent'.next - 1 \in Nat /\ Told < agent'.next - 1
           /\ \E h \in AfterCompact(agent.history) :
                agent'.history = CommitTurn(h, agent'.next - 1)
  <2>1. PICK g \in AfterCompact(agent.history) : agent'.history = CommitTurn(g, agent'.next - 1)
    BY <1>4
  <2> DEFINE n == agent'.next - 1
             new == CommitTurn(g, n)
  <2>2. n \in Nat /\ Told < n /\ agent'.history = new
    BY <1>4, <2>1
  <2> HIDE DEF n
  <2>3. /\ ToldBy(new) \ ToldBy(agent.history) \subseteq {n}
        /\ \A x \in ToldBy(agent.history) \ ToldBy(new) :
             \E i \in TurnIndices(agent.history) :
               /\ agent.history[i].of = {x}
               /\ Cardinality(TurnsAfter(agent.history, i)) = MaxHistoryTurns - 1
    BY <1>1, <2>2, CommittedAfterCompact
  <2> HIDE DEF new
  <2> QED
    BY <1>2, <2>2, <2>3 DEF n
<1> QED
  BY <1>3, <1>4, HistorySteps

\* The history of an agent stays in order, gains the turn that ends and no other, and what it
\* forgets is the oldest of a full number of turns held one by one (commit_turn,
\* try_compact).
THEOREM OnlyTheOldestIsForgotten == Spec => ForgetsOnlyTheOldest
<1>1. Invariant /\ [Next]_vars =>
        [LET h == agent.history
             forgotten == ToldBy(h) \ ToldBy(agent'.history)
         IN  /\ InOrder(agent'.history)
             /\ ToldBy(agent'.history) \ ToldBy(h) \subseteq {agent'.next - 1}
             /\ \A n \in forgotten : \E i \in TurnIndices(h) :
                  h[i].of = {n} /\ Cardinality(TurnsAfter(h, i)) = MaxHistoryTurns - 1]_vars
  BY HistoryStep
<1> QED
  BY <1>1, InvariantAlways, PTL DEF Spec, ForgetsOnlyTheOldest

LEMMA SkipStep ==
  ASSUME Invariant, UpToDate, [Next]_vars, turn'.skips > turn.skips
  PROVE  turn.batch[turn.at].call \in Trusted(world)
<1>1. Typed /\ Watched /\ Remembered /\ turn.skips \in Nat
  BY DEF Invariant, Typed, Turn
<1>2. turn' # turn /\ turn'.skips # 0
  BY <1>1
<1>3. Next
  BY <1>2 DEF vars
<1>4. ASSUME NEW call \in Calls, SkipDuplicate(call), turn' # NoTurn
      PROVE  turn.batch[turn.at].call \in Trusted(world)
  <2>1. turn.pc = "batch" /\ turn.batch[turn.at].call = call
    BY <1>1, <1>4, SkipIs
  <2>2. PICK i \in DOMAIN agent.recent :
          agent.recent[i] = [call |-> call, ok |-> TRUE, epoch |-> agent.epoch]
    BY <1>4 DEF SkipDuplicate, IsDuplicate
  <2>3. /\ i \in 1..Len(agent.recent) /\ agent.recent[i].call = call
        /\ agent.recent[i].ok /\ agent.recent[i].epoch = agent.epoch
    BY <1>1, <2>2 DEF Typed, Agent
  <2> QED
    BY <2>1, <2>3 DEF UpToDate
<1>5. ASSUME EndBatch PROVE FALSE
  <2>1. PICK t \in Turn : t = turn
    BY <1>1 DEF Typed
  <2>2. turn' = [t EXCEPT !.pc = "planning"]
    BY <1>5, <2>1 DEF EndBatch
  <2>3. turn'.skips = t.skips
    BY <2>2 DEF Turn
  <2> QED
    BY <1>1, <2>1, <2>3
<1>6. ASSUME NEW h \in AfterCompact(agent.history), FinalAnswer(h) PROVE FALSE
  BY <1>1, <1>2, <1>6, FinalAnswerIs, NoTurnIs
<1>7. ASSUME NEW h \in AfterCompact(agent.history), CompactNow(h) PROVE FALSE
  BY <1>2, <1>7 DEF CompactNow
<1>8. ASSUME NEW h \in AfterCompact(agent.history), NEW calls \in Batches, ProposeTools(calls, h)
      PROVE  FALSE
  <2>1. h \in Seq(Item)
    BY <1>1, HistoriesAre
  <2>2. turn'.skips = turn.skips
    BY <1>1, <1>8, <2>1, ProposeIs
  <2> QED
    BY <1>1, <2>2
<1>9. ASSUME NEW call \in Calls, StartCall(call) PROVE FALSE
  <2>1. turn'.skips = turn.skips
    BY <1>1, <1>9, StartCallIs
  <2> QED
    BY <1>1, <2>1
<1>10. ASSUME NEW ok \in BOOLEAN, NEW changed \in BOOLEAN, NEW key \in LoopKeys(Running),
              ToolReturns(ok, changed, key)
       PROVE  FALSE
  <2>1. turn.pc = "tool" /\ (turn' = NoTurn \/ turn' = Executed(Over("ran")))
    BY <1>1, <1>10, ToolReturnsIs
  <2> QED
    BY <1>1, <1>2, <2>1, NoTurnIs, ExecutedIs
<1>11. ASSUME NEW blocked \in BOOLEAN, NEW changed \in BOOLEAN, ToolFails(blocked, changed) PROVE FALSE
  <2>1. turn.pc = "tool" /\ (turn' = NoTurn \/ turn' = Executed(Over("ran")))
    BY <1>1, <1>11, ToolFailsIs
  <2> QED
    BY <1>1, <1>2, <2>1, NoTurnIs, ExecutedIs
<1>12. ASSUME BeginTurn PROVE FALSE
  BY <1>1, <1>2, <1>12, BeginTurnIs
<1>13. ASSUME AskModel PROVE FALSE
  <2>1. turn'.skips = turn.skips
    BY <1>1, <1>13, AskModelIs
  <2> QED
    BY <1>1, <2>1
<1>14. ASSUME Ends PROVE FALSE
  BY <1>2, <1>14, NoTurnIs DEF Ends
<1>15. ASSUME OtherOp \/ \E committed \in BOOLEAN : DirectTurn(committed) PROVE FALSE
  BY <1>2, <1>15 DEF OtherOp, DirectTurn
<1> QED
  BY <1>1, <1>3, StepIs, <1>4, <1>5, <1>6, <1>7, <1>8, <1>9, <1>10, <1>11, <1>12, <1>13, <1>14,
     <1>15

\* An agent leaves out nothing that, as far as it can know, it needs: neither a call whose
\* result nothing but a write_file or a call that failed has outdated nor a turn that its
\* quota has room for (tool_guard.rs, state.rs).
THEOREM OnlyTheKnownIsMissing == Spec => OnlyTheKnownIsLeftOut
<1>1. Init => Invariant /\ UpToDate
  BY Start DEF Invariant
<1>2. Invariant /\ UpToDate /\ [Next]_vars => (Invariant /\ UpToDate)'
  BY InvariantStep, UpToDateStep DEF Invariant
<1>3. Invariant /\ UpToDate /\ [Next]_vars =>
        [turn'.skips > turn.skips =>
           turn.batch[turn.at].call \in world.valid \cup world.unseen]_vars
  BY SkipStep DEF Trusted
<1>4. Spec => SkipIsRedundant
  BY <1>1, <1>2, <1>3, PTL DEF Spec, SkipIsRedundant
<1> QED
  BY <1>4, OnlyTheOldestIsForgotten, PTL DEF OnlyTheKnownIsLeftOut

=============================================================================
