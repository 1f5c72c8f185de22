------------------------- MODULE TurnSettingsProofs -------------------------
(***************************************************************************)
(* Theorems about the policies and the providers of TurnSettings, for any  *)
(* rule book, calls, sessions, clients and bounds: decisions are made by   *)
(* the rules of the version they report and do not depend on the order of  *)
(* the rules, destructive calls are escalated, a session has one overlay,  *)
(* the active provider is a row, its snapshot names the row's model, and   *)
(* agents plan with the providers they read.                               *)
(***************************************************************************)
EXTENDS TurnSettings, FiniteSetTheorems, WellFoundedInduction, TLAPS

USE PolicyAssumption

-----------------------------------------------------------------------------
(* The order of precedence *)

\* A rule's place in the order of precedence, from the first key to the last.
LEMMA RankIs == /\ Rank["allow"] = 0 /\ Rank["ask"] = 1
                /\ Rank["escalate"] = 2 /\ Rank["deny"] = 3
                /\ \A k \in Kinds : Rank[k] \in Nat
                /\ \A k, l \in Kinds : Rank[k] = Rank[l] => k = l
BY DEF Rank, Kinds

LEMMA RuleFields ==
  ASSUME NEW r \in RuleType
  PROVE  /\ r.id \in Nat /\ r.priority \in Nat /\ r.specificity \in Nat
         /\ r.decision \in Kinds /\ Rank[r.decision] \in Nat
BY RankIs DEF RuleType

LEMMA PrecedesIsTotal ==
  ASSUME NEW a \in RuleType, NEW b \in RuleType
  PROVE  Precedes(a, b) \/ Precedes(b, a)
BY RuleFields, RankIs DEF Precedes

LEMMA PrecedesIsTransitive ==
  ASSUME NEW a \in RuleType, NEW b \in RuleType, NEW c \in RuleType,
         Precedes(a, b), Precedes(b, c)
  PROVE  Precedes(a, c)
BY RuleFields, RankIs DEF Precedes

LEMMA PrecedesIsStrict ==
  ASSUME NEW a \in RuleType, NEW b \in RuleType, Precedes(a, b), Precedes(b, a)
  PROVE  a.id = b.id
BY RuleFields, RankIs DEF Precedes

-----------------------------------------------------------------------------
(* Decisions *)

\* Rules as a store holds them: no two have a name.
Named(rules) ==
  /\ rules \in Seq(RuleType)
  /\ \A i, j \in DOMAIN rules : rules[i].id = rules[j].id => i = j

Greatest(i, U, rules) ==
  /\ i \in U
  /\ \A j \in U : Precedes(rules[j], rules[i]) /\ (j # i => ~ Precedes(rules[i], rules[j]))

\* Of any rules with different names one has precedence over all others. A smallest set of
\* rules without such a one cannot be: what is greatest without one of its members either
\* is greatest with it or gives way to it.
LEMMA GreatestExists ==
  ASSUME NEW rules, Named(rules), NEW V \in SUBSET DOMAIN rules, IsFiniteSet(V), V # {}
  PROVE  \E i \in V : Greatest(i, V, rules)
<1> DEFINE Bad == {U \in FiniteSubsetsOf(V) : U # {} /\ ~ \E i \in U : Greatest(i, U, rules)}
<1>1. SUFFICES ASSUME Bad # {} PROVE FALSE
  <2>1. V \in FiniteSubsetsOf(V)
    BY DEF FiniteSubsetsOf
  <2> QED
    BY <2>1
<1>2. PICK U \in Bad : \A T \in Bad : ~ (<<T, U>> \in StrictSubsetOrdering(V))
  <2>1. IsWellFoundedOn(StrictSubsetOrdering(V), FiniteSubsetsOf(V))
    BY FS_StrictSubsetOrderingWellFounded
  <2>2. Bad \subseteq FiniteSubsetsOf(V)
    OBVIOUS
  <2> HIDE DEF Bad
  <2> QED
    BY <1>1, <2>1, <2>2, WFMin
<1>3. U \subseteq V /\ IsFiniteSet(U) /\ U # {} /\ ~ \E i \in U : Greatest(i, U, rules)
  BY DEF FiniteSubsetsOf
<1>4. PICK x \in U : TRUE
  BY <1>3
<1> DEFINE T == U \ {x}
<1>5. T \subseteq V /\ IsFiniteSet(T) /\ T \subseteq U /\ T # U
  BY <1>3, <1>4, FS_RemoveElement
<1>6. T \notin Bad
  <2>1. <<T, U>> \in StrictSubsetOrdering(V)
    BY <1>3, <1>5 DEF StrictSubsetOrdering
  <2> HIDE DEF Bad, T
  <2> QED
    BY <1>2, <2>1
<1>7. \A i, j \in U : /\ rules[i] \in RuleType
                      /\ Precedes(rules[i], rules[i])
                      /\ Precedes(rules[i], rules[j]) \/ Precedes(rules[j], rules[i])
                      /\ Precedes(rules[i], rules[j]) /\ Precedes(rules[j], rules[i]) => i = j
  <2> TAKE i, j \in U
  <2>1. rules[i] \in RuleType /\ rules[j] \in RuleType
    BY <1>3 DEF Named
  <2>2. rules[i].id = rules[j].id => i = j
    BY <1>3 DEF Named
  <2> QED
    BY <2>1, <2>2, PrecedesIsTotal, PrecedesIsStrict
<1>8. CASE T = {}
  <2>1. U = {x}
    BY <1>4, <1>8
  <2>2. Greatest(x, U, rules)
    BY <1>7, <2>1 DEF Greatest
  <2> QED
    BY <1>3, <2>1, <2>2
<1>9. CASE T # {}
  <2>1. PICK i \in T : Greatest(i, T, rules)
    BY <1>5, <1>6, <1>9 DEF FiniteSubsetsOf
  <2>2. i \in U /\ i # x
    BY <1>5, <2>1
  <2>3. CASE Precedes(rules[x], rules[i])
    <3>1. ~ Precedes(rules[i], rules[x])
      BY <1>4, <1>7, <2>2, <2>3
    <3>2. Greatest(i, U, rules)
      BY <1>4, <2>1, <2>2, <2>3, <3>1 DEF Greatest
    <3> QED
      BY <1>3, <2>2, <3>2
  <2>4. CASE Precedes(rules[i], rules[x])
    <3>1. ASSUME NEW j \in T PROVE Precedes(rules[j], rules[x])
      <4>1. Precedes(rules[j], rules[i])
        BY <2>1, <3>1 DEF Greatest
      <4> QED
        BY <1>4, <1>5, <1>7, <2>2, <2>4, <3>1, <4>1, PrecedesIsTransitive
    <3>2. \A j \in T : ~ Precedes(rules[x], rules[j])
      BY <1>4, <1>7, <3>1
    <3>3. Greatest(x, U, rules)
      BY <1>4, <1>7, <3>1, <3>2 DEF Greatest
    <3> QED
      BY <1>3, <1>4, <3>3
  <2> QED
    BY <1>4, <1>7, <2>2, <2>3, <2>4
<1> QED
  BY <1>8, <1>9

LEMMA SelectedIs ==
  ASSUME NEW rules, Named(rules), NEW input, Matching(input, rules) # {}
  PROVE  /\ Selected(input, rules) \in Matching(input, rules)
         /\ \A j \in Matching(input, rules) : Precedes(rules[j], rules[Selected(input, rules)])
<1> DEFINE V == Matching(input, rules)
           Q(i) == \A j \in V : Precedes(rules[j], rules[i]) /\ (j > i => ~ Precedes(rules[i], rules[j]))
<1>1. V \in SUBSET DOMAIN rules /\ IsFiniteSet(V)
  <2>1. DOMAIN rules = 1..Len(rules) /\ Len(rules) \in Nat
    BY DEF Named
  <2>2. IsFiniteSet(DOMAIN rules)
    BY <2>1, FS_Interval
  <2>3. V \in SUBSET DOMAIN rules
    BY DEF Matching
  <2> QED
    BY <2>2, <2>3, FS_Subset
<1>2. PICK i \in V : Greatest(i, V, rules)
  BY <1>1, GreatestExists
<1>3. Q(i)
  <2>1. \A j \in V : j > i => j # i
    BY <1>1 DEF Named
  <2> QED
    BY <1>2, <2>1 DEF Greatest
<1>4. Selected(input, rules) = CHOOSE k \in V : Q(k)
  BY DEF Selected
<1> HIDE DEF V
<1>5. Selected(input, rules) \in V /\ Q(Selected(input, rules))
  <2> HIDE DEF Q
  <2> QED
    BY <1>2, <1>3, <1>4
<1> QED
  BY <1>5 DEF V

\* However the rules are written down, the same one of them decides.
LEMMA PermutedDecides ==
  ASSUME NEW rules, Named(rules), NEW input, NEW default, NEW other \in Permuted(rules)
  PROVE  Decide(input, other, default) = Decide(input, rules, default)
<1> DEFINE D == DOMAIN rules
<1>1. D = 1..Len(rules) /\ Len(rules) \in Nat /\ rules \in [D -> RuleType]
  BY DEF Named
<1>2. PICK p \in [D -> D] : /\ Cardinality({p[i] : i \in D}) = Len(rules)
                            /\ other = [i \in D |-> rules[p[i]]]
  BY DEF Permuted
<1>3. IsFiniteSet(D) /\ Cardinality(D) = Len(rules)
  <2> DEFINE n == Len(rules)
  <2>1. n \in Nat /\ D = 1..n
    BY <1>1
  <2> HIDE DEF D, n
  <2>2. IsFiniteSet(1..n) /\ Cardinality(1..n) = IF 1 > n THEN 0 ELSE n - 1 + 1
    BY <2>1, FS_Interval
  <2>3. Cardinality(1..n) = n
    BY <2>1, <2>2
  <2> QED
    BY <2>1, <2>2, <2>3 DEF n
<1>4. \A k \in D : \E i \in D : p[i] = k
  <2> DEFINE img == {p[i] : i \in D}
  <2>1. img \subseteq D
    OBVIOUS
  <2>2. img = D
    <3> HIDE DEF img
    <3> QED
      BY <1>2, <1>3, <2>1, FS_Subset DEF img
  <2> QED
    BY <2>2
<1>5. \A i, j \in D : p[i] = p[j] => i = j
  <2>1. p \in Surjection(D, D)
    BY <1>4 DEF Surjection
  <2>2. p \in Injection(D, D)
    BY <1>3, <2>1, FS_SurjSameCardinalityImpliesInj
  <2> QED
    BY <2>2 DEF Injection, IsInjective
<1>6. Named(other) /\ DOMAIN other = D
  <2>1. other \in [D -> RuleType]
    BY <1>1, <1>2
  <2>2. other \in Seq(RuleType)
    BY <1>1, <2>1
  <2>3. \A i, j \in D : other[i].id = other[j].id => i = j
    BY <1>2, <1>5 DEF Named
  <2> QED
    BY <2>1, <2>2, <2>3 DEF Named
<1> HIDE DEF D
<1>7. \A i \in D : i \in Matching(input, other) <=> p[i] \in Matching(input, rules)
  BY <1>2, <1>6 DEF Matching, D
<1>8. Matching(input, rules) \subseteq D /\ Matching(input, other) \subseteq D
  BY <1>6 DEF Matching, D
<1>9. CASE Matching(input, rules) = {}
  <2>1. Matching(input, other) = {}
    BY <1>7, <1>8, <1>9
  <2> QED
    BY <1>9, <2>1 DEF Decide
<1>10. CASE Matching(input, rules) # {}
  <2> DEFINE a == Selected(input, rules)  b == Selected(input, other)
  <2>1. a \in Matching(input, rules) /\ \A j \in Matching(input, rules) : Precedes(rules[j], rules[a])
    BY <1>10, SelectedIs
  <2>2. PICK x \in D : p[x] = a
    BY <1>4, <1>8, <2>1
  <2>3. x \in Matching(input, other)
    BY <1>7, <2>1, <2>2
  <2>4. b \in Matching(input, other) /\ \A j \in Matching(input, other) : Precedes(other[j], other[b])
    BY <1>6, <2>3, SelectedIs
  <2> HIDE DEF a, b
  <2>5. b \in D /\ a \in D /\ p[b] \in D /\ p[b] \in Matching(input, rules)
    BY <1>2, <1>7, <1>8, <2>1, <2>4
  <2>6. Precedes(rules[p[b]], rules[a])
    BY <2>1, <2>5
  <2>7. Precedes(rules[a], rules[p[b]])
    BY <1>2, <2>2, <2>3, <2>4, <2>5
  <2>8. rules[a] \in RuleType /\ rules[p[b]] \in RuleType
    BY <1>1, <2>5 DEF D
  <2>9. p[b] = a
    BY <2>5, <2>6, <2>7, <2>8, PrecedesIsStrict DEF Named, D
  <2>10. other[b] = rules[a]
    BY <1>2, <2>5, <2>9
  <2> QED
    BY <1>10, <2>3, <2>10 DEF Decide, a, b
<1> QED
  BY <1>9, <1>10

\* The built-in rule decides of a destructive call that nothing outranks it on.
LEMMA SystemRuleDecides ==
  ASSUME NEW rules, Named(rules), NEW s \in DOMAIN rules, rules[s] = SystemRule,
         NEW input \in Destructive, NEW default,
         \A i \in DOMAIN rules : rules[i].id # SystemId => rules[i].priority < SystemPriority
  PROVE  Decide(input, rules, default).kind = "escalate"
<1> DEFINE k == Selected(input, rules)
<1>1. s \in Matching(input, rules)
  BY DEF Matching, SystemRule
<1>2. k \in Matching(input, rules) /\ Precedes(rules[s], rules[k])
  BY <1>1, SelectedIs
<1>3. k \in DOMAIN rules
  BY <1>2 DEF Matching
<1> HIDE DEF k
<1>4. rules[k].id = SystemId
  <2>1. rules[k] \in RuleType
    BY <1>3 DEF Named
  <2>2. rules[k].priority \in Nat
    BY <2>1, RuleFields
  <2>3. SystemPriority <= rules[k].priority
    BY <1>2, <2>2 DEF Precedes, SystemRule, SystemPriority
  <2> QED
    BY <1>3, <2>2, <2>3 DEF SystemPriority
<1>5. k = s
  BY <1>3, <1>4 DEF Named, SystemRule
<1> QED
  BY <1>1, <1>5 DEF Decide, SystemRule, k

-----------------------------------------------------------------------------
(* Sequences *)

\* The place in s of the i-th element that is left when the k-th is removed.
Skipping(k, i) == IF i < k THEN i ELSE i + 1

LEMMA SkippingCovers ==
  ASSUME NEW n \in Nat, NEW k \in 1..n, NEW j \in 1..n, j # k
  PROVE  \E i \in 1..(n - 1) : Skipping(k, i) = j
<1>1. CASE j < k
  <2>1. j \in 1..(n - 1) /\ Skipping(k, j) = j
    BY <1>1 DEF Skipping
  <2> QED
    BY <2>1
<1>2. CASE k < j
  <2>1. j - 1 \in 1..(n - 1) /\ Skipping(k, j - 1) = j
    BY <1>2 DEF Skipping
  <2> QED
    BY <2>1
<1> QED
  BY <1>1, <1>2

LEMMA RemovedIs ==
  ASSUME NEW T, NEW s \in Seq(T), NEW k \in 1..Len(s)
  PROVE  /\ RemoveAt(s, k) \in Seq(T) /\ Len(RemoveAt(s, k)) = Len(s) - 1
         /\ DOMAIN RemoveAt(s, k) = 1..(Len(s) - 1)
         /\ \A i \in 1..(Len(s) - 1) :
              Skipping(k, i) \in 1..Len(s) /\ RemoveAt(s, k)[i] = s[Skipping(k, i)]
<1> DEFINE n == Len(s)  m == k - 1
           low == SubSeq(s, 1, m)  high == SubSeq(s, k + 1, n)
<1>1. n \in Nat /\ m \in Nat /\ m + 1 = k /\ n - k \in Nat /\ m + (n - k) = n - 1
  OBVIOUS
<1>2. low \in Seq(T) /\ Len(low) = m /\ \A i \in 1..m : low[i] = s[i]
  OBVIOUS
<1>3. high \in Seq(T) /\ Len(high) = n - k /\ \A i \in 1..(n - k) : high[i] = s[k + i]
  OBVIOUS
<1>4. RemoveAt(s, k) = low \o high
  BY DEF RemoveAt
<1> HIDE DEF low, high, n, m
<1>5. low \o high \in Seq(T) /\ Len(low \o high) = n - 1 /\ DOMAIN (low \o high) = 1..(n - 1)
  BY <1>1, <1>2, <1>3
<1>6. ASSUME NEW i \in 1..(n - 1)
      PROVE  Skipping(k, i) \in 1..n /\ (low \o high)[i] = s[Skipping(k, i)]
  <2>1. CASE i < k
    <3>1. i \in 1..Len(low) /\ i \in 1..m /\ Skipping(k, i) = i
      BY <1>1, <1>2, <2>1 DEF Skipping
    <3> QED
      BY <1>1, <1>2, <1>3, <3>1
  <2>2. CASE ~ (i < k)
    <3>1. /\ i - m \in 1..Len(high) /\ i - m \in 1..(n - k) /\ Len(low) + (i - m) = i
          /\ k + (i - m) = i + 1 /\ Skipping(k, i) = i + 1
      BY <1>1, <1>2, <1>3, <2>2 DEF Skipping
    <3>2. (low \o high)[Len(low) + (i - m)] = high[i - m]
      BY <1>2, <1>3, <3>1
    <3>3. high[i - m] = s[k + (i - m)]
      BY <1>3, <3>1
    <3> QED
      BY <1>1, <3>1, <3>2, <3>3
  <2> QED
    BY <2>1, <2>2
<1> QED
  BY <1>4, <1>5, <1>6 DEF n

-----------------------------------------------------------------------------
(* The inductive invariant *)

OverlayRules == Overlays \union {NoOverlay}

\* A store holds its rules under different names, the built-in rule among them.
LawfulStores ==
  {store \in [default : Kinds, rules : Seq(RuleType)] :
     /\ Named(store.rules)
     /\ \E i \in DOMAIN store.rules : store.rules[i] = SystemRule}

LawfulSnapshots ==
  [version : Nat \ {0}, store : LawfulStores, overlays : [Sessions -> OverlayRules]]

\* The drafts are of the rule book and no two have a name.
DraftsAreNamed == drafts \in Seq(RuleBook) /\ Named(drafts)

\* The runtime's snapshot is the last of the history, in which each is found by its number.
HistoryIsNumbered ==
  /\ snapshot \in LawfulSnapshots
  /\ history \in [1 .. snapshot.version -> LawfulSnapshots]
  /\ history[snapshot.version] = snapshot
  /\ \A v \in 1 .. snapshot.version : history[v].version = v

\* A turn judges by the runtime of its own or by a snapshot of the history.
Runtimes == {Shared} \union LawfulSnapshots

TurnJudges(s) ==
  /\ turns[s].at \in {"running", "holding", "decided"} => turns[s].runtime \in Runtimes
  /\ turns[s].at = "holding" =>
       IF turns[s].runtime = Shared
         THEN \E v \in 1 .. snapshot.version : turns[s].handle = history[v]
         ELSE turns[s].handle = turns[s].runtime
  /\ turns[s].at = "decided" =>
       /\ turns[s].runtime = Shared => turns[s].version \in 1 .. snapshot.version
       /\ turns[s].decision = DecideFor(s, turns[s].input, JudgedBy(s))

Writes == {NoWrite} \union [at : {"copying"}, s : Sessions, rules : OverlayRules]

SettingsTypes ==
  /\ copies \in [Sessions -> OverlayRules]
  /\ levels \in [Sessions -> {"none", "allow", "ask", "deny"}]
  /\ writing \in [Clients -> Writes]
  /\ turns = [s \in Sessions |-> turns[s]]

\* Of the requests for the overlay of a session that is not mixed up one at most is under
\* way, and it is the one the runtime was told of last.
OverlayIsHeld(s) ==
  s \notin mixed =>
    /\ ~ Copying(s) => copies[s] = snapshot.overlays[s]
    /\ \A c \in Clients : writing[c] # NoWrite /\ writing[c].s = s =>
         /\ snapshot.overlays[s] = writing[c].rules
         /\ \A d \in Clients : writing[d] # NoWrite /\ writing[d].s = s => d = c

Governed ==
  /\ DraftsAreNamed
  /\ HistoryIsNumbered
  /\ SettingsTypes
  /\ \A s \in Sessions : TurnJudges(s) /\ OverlayIsHeld(s)

-----------------------------------------------------------------------------
(* Stores and snapshots *)

LEMMA StoreIsLawful ==
  ASSUME NEW rules \in Seq(RuleBook), Named(rules), NEW default \in Kinds
  PROVE  Store(default, rules) \in LawfulStores
<1> DEFINE all == Append(rules, SystemRule)  n == Len(rules)
<1>1. /\ SystemRule \in RuleType /\ SystemRule.id = SystemId
      /\ rules \in Seq(RuleType) /\ n \in Nat
  BY DEF SystemRule, RuleType, Kinds, SystemId, SystemPriority, Named
<1>2. /\ all \in Seq(RuleType) /\ DOMAIN all = 1..(n + 1) /\ all[n + 1] = SystemRule
      /\ \A i \in 1..n : all[i] = rules[i] /\ rules[i] \in RuleBook
  BY <1>1
<1> HIDE DEF all
<1>3. \A i \in 1..n : all[i].id # SystemId
  BY <1>2
<1>4. 1..(n + 1) = 1..n \union {n + 1} /\ DOMAIN rules = 1..n
  BY <1>1
<1>5. \A i, j \in 1..(n + 1) : all[i].id = all[j].id => i = j
  <2> HIDE DEF n
  <2>1. \A i, j \in 1..n : rules[i].id = rules[j].id => i = j
    BY <1>4 DEF Named
  <2> QED
    BY <1>1, <1>2, <1>3, <1>4, <2>1
<1>6. Named(all)
  BY <1>2, <1>5 DEF Named
<1>7. Store(default, rules) = [default |-> default, rules |-> all]
  BY DEF Store, all
<1>8. n + 1 \in DOMAIN all
  BY <1>1, <1>2
<1> QED
  BY <1>2, <1>6, <1>7, <1>8 DEF LawfulStores

LEMMA FirstIsLawful ==
  ASSUME NEW default \in Kinds
  PROVE  FirstSnapshot(Store(default, << >>)) \in LawfulSnapshots
<1>1. Named(<< >>) /\ << >> \in Seq(RuleBook)
  BY DEF Named
<1>2. Store(default, << >>) \in LawfulStores
  BY <1>1, StoreIsLawful
<1> QED
  BY <1>2 DEF FirstSnapshot, LawfulSnapshots, OverlayRules

\* Another overlay of one session leaves the store and the other sessions' overlays alone.
LEMMA WithOverlayIs ==
  ASSUME NEW snap \in LawfulSnapshots, NEW s \in Sessions, NEW rules \in OverlayRules
  PROVE  /\ WithOverlay(snap, s, rules) \in LawfulSnapshots
         /\ WithOverlay(snap, s, rules).version = snap.version + 1
         /\ WithOverlay(snap, s, rules).overlays[s] = rules
         /\ \A t \in Sessions \ {s} :
              WithOverlay(snap, s, rules).overlays[t] = snap.overlays[t]
<1> DEFINE own == [snap.overlays EXCEPT ![s] = rules]
<1>1. /\ snap.version \in Nat \ {0} /\ snap.store \in LawfulStores
      /\ snap.overlays \in [Sessions -> OverlayRules]
      /\ snap = [version |-> snap.version, store |-> snap.store, overlays |-> snap.overlays]
  BY DEF LawfulSnapshots
<1>2. /\ own \in [Sessions -> OverlayRules] /\ own[s] = rules
      /\ \A t \in Sessions \ {s} : own[t] = snap.overlays[t]
  BY <1>1
<1>3. WithOverlay(snap, s, rules) =
        [version |-> snap.version + 1, store |-> snap.store, overlays |-> own]
  <2>1. WithOverlay(snap, s, rules) =
          [snap EXCEPT !.version = snap.version + 1, !.overlays = own]
    BY <1>1 DEF WithOverlay
  <2> HIDE DEF own
  <2> QED
    BY <1>1, <2>1
<1> HIDE DEF own
<1> QED
  BY <1>1, <1>2, <1>3 DEF LawfulSnapshots

LEMMA OwnRuntimeIsLawful ==
  ASSUME SettingsTypes, NEW s \in Sessions, levels[s] # "none"
  PROVE  OwnRuntime(s) \in LawfulSnapshots
<1>1. levels[s] \in Kinds /\ copies[s] \in OverlayRules
  BY DEF SettingsTypes, Kinds
<1> DEFINE fresh == FirstSnapshot(Store(levels[s], << >>))
<1>2. fresh \in LawfulSnapshots
  BY <1>1, FirstIsLawful
<1>3. OwnRuntime(s) = IF copies[s] = NoOverlay THEN fresh ELSE WithOverlay(fresh, s, copies[s])
  BY DEF OwnRuntime
<1> HIDE DEF fresh
<1> QED
  BY <1>1, <1>2, <1>3, WithOverlayIs

\* The history only grows, by the snapshot that becomes the current one.
LEMMA SwapStep ==
  ASSUME HistoryIsNumbered, NEW next \in LawfulSnapshots,
         next.version = snapshot.version + 1, Swap(next)
  PROVE  /\ HistoryIsNumbered' /\ snapshot' = next
         /\ snapshot'.version = snapshot.version + 1
         /\ \A v \in 1 .. snapshot.version : v \in 1 .. snapshot'.version /\ history'[v] = history[v]
<1> DEFINE n == snapshot.version
<1>1. /\ snapshot' = next /\ n \in Nat \ {0} /\ DOMAIN history = 1..n
      /\ history' = [v \in DOMAIN history \union {next.version} |->
                       IF v = next.version THEN next ELSE history[v]]
      /\ history \in [1..n -> LawfulSnapshots]
  BY DEF Swap, HistoryIsNumbered, LawfulSnapshots
<1> HIDE DEF n
<1>2. 1..(n + 1) = 1..n \union {n + 1} /\ n + 1 \notin 1..n
  BY <1>1
<1>3. /\ history' \in [1..(n + 1) -> LawfulSnapshots] /\ history'[n + 1] = next
      /\ \A v \in 1..n : history'[v] = history[v]
  BY <1>1, <1>2 DEF n
<1>4. \A v \in 1..n : history[v].version = v
  BY DEF HistoryIsNumbered, n
<1>5. \A v \in 1..(n + 1) : history'[v].version = v
  BY <1>2, <1>3, <1>4 DEF n
<1>6. snapshot'.version = n + 1
  BY <1>1 DEF n
<1>7. HistoryIsNumbered'
  BY <1>1, <1>3, <1>5, <1>6 DEF HistoryIsNumbered
<1> QED
  BY <1>1, <1>2, <1>3, <1>6, <1>7 DEF n

-----------------------------------------------------------------------------
(* The steps *)

\* The history keeps what it has.
HistoryGrows ==
  \A v \in 1 .. snapshot.version : v \in 1 .. snapshot'.version /\ history'[v] = history[v]

LEMMA NothingForgotten ==
  ASSUME HistoryIsNumbered, UNCHANGED <<snapshot, history>>
  PROVE  HistoryIsNumbered' /\ HistoryGrows
BY DEF HistoryIsNumbered, HistoryGrows

LEMMA JudgesStay ==
  ASSUME NEW s \in Sessions, TurnJudges(s), HistoryGrows, turns'[s] = turns[s]
  PROVE  TurnJudges(s)'
<1>1. ASSUME turns[s].at = "decided"
      PROVE  JudgedBy(s)' = JudgedBy(s)
             /\ (turns[s].runtime = Shared => turns[s].version \in 1 .. snapshot'.version)
  BY <1>1 DEF TurnJudges, JudgedBy, HistoryGrows
<1>2. ASSUME turns[s].at = "holding", turns[s].runtime = Shared
      PROVE  \E v \in 1 .. snapshot'.version : turns[s].handle = history'[v]
  BY <1>2 DEF TurnJudges, HistoryGrows
<1>3. turns[s].at = "decided" => (TurnJudges(s)' <=> TurnJudges(s))
  BY <1>1 DEF TurnJudges, DecideFor
<1> QED
  BY <1>2, <1>3 DEF TurnJudges

LEMMA OverlayStays ==
  ASSUME NEW s \in Sessions, OverlayIsHeld(s), UNCHANGED <<copies, writing, mixed>>,
         snapshot'.overlays = snapshot.overlays
  PROVE  OverlayIsHeld(s)'
BY DEF OverlayIsHeld, Copying

LEMMA DraftStep ==
  ASSUME DraftsAreNamed, NEW r \in RuleBook, CreateRule(r) \/ UpdateRule(r)
  PROVE  DraftsAreNamed'
<1> DEFINE n == Len(drafts)
<1>1. /\ drafts \in Seq(RuleBook) /\ r \in RuleType /\ n \in Nat /\ DOMAIN drafts = 1..n
      /\ \A i \in 1..n : drafts[i] \in RuleBook /\ drafts[i] \in RuleType
      /\ \A i, j \in 1..n : drafts[i].id = drafts[j].id => i = j
  BY DEF DraftsAreNamed, Named
<1>2. CASE CreateRule(r)
  <2> DEFINE all == Append(drafts, r)
  <2>1. drafts' = all /\ \A i \in 1..n : drafts[i].id # r.id
    BY <1>1, <1>2 DEF CreateRule, DraftIds
  <2>2. /\ all \in Seq(RuleBook) /\ all \in Seq(RuleType) /\ DOMAIN all = 1..(n + 1)
        /\ all[n + 1] = r /\ \A i \in 1..n : all[i] = drafts[i]
    <3>1. drafts \in Seq(RuleType)
      BY DEF DraftsAreNamed, Named
    <3> QED
      BY <1>1, <3>1
  <2> HIDE DEF all, n
  <2>3. 1..(n + 1) = 1..n \union {n + 1}
    BY <1>1
  <2>4. \A i, j \in 1..(n + 1) : all[i].id = all[j].id => i = j
    BY <1>1, <2>1, <2>2, <2>3
  <2> QED
    BY <2>1, <2>2, <2>4 DEF DraftsAreNamed, Named
<1>3. CASE UpdateRule(r)
  <2>1. drafts' = [i \in 1..n |-> IF drafts[i].id = r.id THEN r ELSE drafts[i]]
    BY <1>1, <1>3 DEF UpdateRule
  <2>2. /\ drafts' \in [1..n -> RuleBook] /\ drafts' \in [1..n -> RuleType]
        /\ \A i \in 1..n : drafts'[i].id = drafts[i].id
    BY <1>1, <2>1
  <2>3. drafts' \in Seq(RuleBook) /\ drafts' \in Seq(RuleType) /\ DOMAIN drafts' = 1..n
    <3> HIDE DEF n
    <3> QED
      BY <1>1, <2>2
  <2> QED
    BY <1>1, <2>2, <2>3 DEF DraftsAreNamed, Named
<1> QED
  BY <1>2, <1>3

LEMMA DeleteStep ==
  ASSUME DraftsAreNamed, NEW k \in DOMAIN drafts, DeleteRule(k)
  PROVE  DraftsAreNamed'
<1> DEFINE n == Len(drafts)
<1>1. /\ drafts \in Seq(RuleBook) /\ n \in Nat /\ k \in 1..n
      /\ \A i \in 1..n : drafts[i] \in RuleType
      /\ \A i, j \in 1..n : drafts[i].id = drafts[j].id => i = j
  BY DEF DraftsAreNamed, Named
<1>2. /\ drafts' = RemoveAt(drafts, k)
      /\ drafts' \in Seq(RuleBook) /\ Len(drafts') = n - 1 /\ DOMAIN drafts' = 1..(n - 1)
      /\ \A i \in 1..(n - 1) : Skipping(k, i) \in 1..n /\ drafts'[i] = drafts[Skipping(k, i)]
  BY <1>1, RemovedIs DEF DeleteRule, RemoveAt
<1> HIDE DEF n
<1>3. \A i, j \in 1..(n - 1) : drafts'[i].id = drafts'[j].id => i = j
  <2> TAKE i, j \in 1..(n - 1)
  <2>1. Skipping(k, i) = Skipping(k, j) => i = j
    BY <1>1 DEF Skipping
  <2> QED
    BY <1>1, <1>2, <2>1
<1>4. drafts' \in Seq(RuleType)
  <2>1. drafts' \in [1..(n - 1) -> RuleType]
    BY <1>1, <1>2
  <2> QED
    BY <1>1, <2>1
<1> QED
  BY <1>2, <1>3, <1>4 DEF DraftsAreNamed, Named

LEMMA PublishStep ==
  ASSUME Governed, Publish
  PROVE  /\ HistoryIsNumbered' /\ HistoryGrows /\ snapshot'.overlays = snapshot.overlays
<1> DEFINE next == [snapshot EXCEPT !.version = @ + 1, !.store = Store("ask", drafts)]
<1>1. /\ HistoryIsNumbered /\ drafts \in Seq(RuleBook) /\ Named(drafts) /\ "ask" \in Kinds
      /\ snapshot \in LawfulSnapshots
  BY DEF Governed, DraftsAreNamed, HistoryIsNumbered, Kinds
<1>2. Store("ask", drafts) \in LawfulStores
  BY <1>1, StoreIsLawful
<1>3. /\ next \in LawfulSnapshots /\ next.version = snapshot.version + 1
      /\ next.overlays = snapshot.overlays
  <2> DEFINE store == Store("ask", drafts)
  <2>1. /\ snapshot.version \in Nat \ {0} /\ snapshot.overlays \in [Sessions -> OverlayRules]
        /\ snapshot = [version |-> snapshot.version, store |-> snapshot.store,
                       overlays |-> snapshot.overlays]
    BY <1>1 DEF LawfulSnapshots
  <2>2. store \in LawfulStores
    BY <1>2
  <2> HIDE DEF store
  <2>3. next = [version |-> snapshot.version + 1, store |-> store,
                overlays |-> snapshot.overlays]
    <3> DEFINE number == snapshot.version + 1
    <3>1. next = [snapshot EXCEPT !.version = number, !.store = store]
      BY DEF store
    <3> HIDE DEF next, number
    <3>2. next = [version |-> number, store |-> store, overlays |-> snapshot.overlays]
      BY <2>1, <3>1
    <3> QED
      BY <3>2 DEF number
  <2> HIDE DEF next
  <2> QED
    BY <2>1, <2>2, <2>3 DEF LawfulSnapshots
<1>4. Swap(next)
  BY DEF Publish
<1> HIDE DEF next
<1> QED
  BY <1>1, <1>3, <1>4, SwapStep DEF HistoryGrows

LEMMA StartOverlayStep ==
  ASSUME Governed, NEW c \in Clients, NEW s \in Sessions, NEW rules \in OverlayRules,
         StartOverlay(c, s, rules)
  PROVE  /\ HistoryIsNumbered' /\ HistoryGrows /\ SettingsTypes'
         /\ \A t \in Sessions : OverlayIsHeld(t)'
<1> DEFINE w == [at |-> "copying", s |-> s, rules |-> rules]
           next == WithOverlay(snapshot, s, rules)
<1>1. /\ HistoryIsNumbered /\ SettingsTypes /\ \A t \in Sessions : OverlayIsHeld(t)
      /\ snapshot \in LawfulSnapshots /\ writing \in [Clients -> Writes]
  BY DEF Governed, HistoryIsNumbered, SettingsTypes
<1>2. /\ next \in LawfulSnapshots /\ next.version = snapshot.version + 1
      /\ next.overlays[s] = rules
      /\ \A t \in Sessions \ {s} : next.overlays[t] = snapshot.overlays[t]
  BY <1>1, WithOverlayIs
<1>3. Swap(next)
  BY DEF StartOverlay
<1>4. HistoryIsNumbered' /\ HistoryGrows /\ snapshot' = next
  <2> HIDE DEF next
  <2> QED
    BY <1>1, <1>2, <1>3, SwapStep DEF HistoryGrows
<1>5. /\ writing' = [writing EXCEPT ![c] = w] /\ writing[c] = NoWrite
      /\ UNCHANGED <<copies, levels, turns>>
      /\ mixed' = IF Copying(s) THEN mixed \union {s} ELSE mixed \ {s}
  BY DEF StartOverlay
<1>6. w \in Writes /\ w # NoWrite /\ w.s = s /\ w.rules = rules
  BY DEF Writes, NoWrite
<1> HIDE DEF w, next
<1>7. /\ writing' \in [Clients -> Writes] /\ writing'[c] = w
      /\ \A d \in Clients \ {c} : writing'[d] = writing[d]
  BY <1>1, <1>5, <1>6
<1>8. SettingsTypes'
  BY <1>1, <1>5, <1>7 DEF SettingsTypes
<1>9. OverlayIsHeld(s)'
  <2> SUFFICES ASSUME s \notin mixed'
               PROVE  /\ Copying(s)'
                      /\ \A d \in Clients : writing'[d] # NoWrite /\ writing'[d].s = s => d = c
    BY <1>2, <1>4, <1>6, <1>7 DEF OverlayIsHeld
  <2>1. ~ Copying(s)
    BY <1>5
  <2> QED
    BY <1>6, <1>7, <2>1 DEF Copying
<1>10. ASSUME NEW t \in Sessions, t # s PROVE OverlayIsHeld(t)'
  <2>1. OverlayIsHeld(t) /\ (t \notin mixed' => t \notin mixed)
        /\ snapshot'.overlays[t] = snapshot.overlays[t] /\ copies' = copies
    BY <1>1, <1>2, <1>4, <1>5, <1>10
  <2>2. \A d \in Clients : /\ (writing'[d] # NoWrite /\ writing'[d].s = t)
                                <=> (writing[d] # NoWrite /\ writing[d].s = t)
                           /\ writing'[d].s = t /\ writing'[d] # NoWrite => writing'[d] = writing[d]
    BY <1>5, <1>6, <1>7, <1>10
  <2> QED
    BY <2>1, <2>2 DEF OverlayIsHeld, Copying
<1> QED
  BY <1>4, <1>8, <1>9, <1>10

LEMMA FinishOverlayStep ==
  ASSUME Governed, NEW c \in Clients, FinishOverlay(c)
  PROVE  SettingsTypes' /\ \A t \in Sessions : OverlayIsHeld(t)'
<1>1. /\ SettingsTypes /\ \A t \in Sessions : OverlayIsHeld(t)
      /\ writing \in [Clients -> Writes] /\ copies \in [Sessions -> OverlayRules]
  BY DEF Governed, SettingsTypes
<1>2. /\ writing[c] # NoWrite /\ UNCHANGED <<levels, turns, mixed, snapshot>>
      /\ copies' = [copies EXCEPT ![writing[c].s] = writing[c].rules]
      /\ writing' = [writing EXCEPT ![c] = NoWrite]
  BY DEF FinishOverlay
<1>3. PICK s \in Sessions, rules \in OverlayRules : writing[c].s = s /\ writing[c].rules = rules
  BY <1>1, <1>2 DEF Writes
<1>4. /\ writing' \in [Clients -> Writes] /\ writing'[c] = NoWrite
      /\ \A d \in Clients \ {c} : writing'[d] = writing[d]
      /\ copies' \in [Sessions -> OverlayRules] /\ copies'[s] = rules
      /\ \A t \in Sessions \ {s} : copies'[t] = copies[t]
  BY <1>1, <1>2, <1>3 DEF Writes
<1>5. SettingsTypes'
  BY <1>1, <1>2, <1>4 DEF SettingsTypes
<1>6. OverlayIsHeld(s)'
  <2>1. OverlayIsHeld(s)
    BY <1>1, <1>3
  <2>2. s \notin mixed => /\ snapshot.overlays[s] = rules
                          /\ \A d \in Clients : writing[d] # NoWrite /\ writing[d].s = s => d = c
    BY <1>2, <1>3, <2>1 DEF OverlayIsHeld
  <2> QED
    BY <1>2, <1>4, <2>2 DEF OverlayIsHeld
<1>7. ASSUME NEW t \in Sessions, t # s PROVE OverlayIsHeld(t)'
  <2>1. \A d \in Clients : /\ (writing'[d] # NoWrite /\ writing'[d].s = t)
                                <=> (writing[d] # NoWrite /\ writing[d].s = t)
                           /\ writing'[d].s = t /\ writing'[d] # NoWrite => writing'[d] = writing[d]
    BY <1>3, <1>4, <1>7
  <2>2. OverlayIsHeld(t) /\ copies'[t] = copies[t]
    BY <1>1, <1>4, <1>7
  <2> QED
    BY <1>2, <2>1, <2>2 DEF OverlayIsHeld, Copying
<1> QED
  BY <1>5, <1>6, <1>7

LEMMA ForgetStep ==
  ASSUME Governed, NEW s \in Sessions, ForgetPolicy(s)
  PROVE  SettingsTypes' /\ \A t \in Sessions : OverlayIsHeld(t)'
<1>1. /\ SettingsTypes /\ \A t \in Sessions : OverlayIsHeld(t)
      /\ copies \in [Sessions -> OverlayRules] /\ NoOverlay \in OverlayRules
  BY DEF Governed, SettingsTypes, OverlayRules
<1>2. /\ UNCHANGED <<writing, turns, snapshot>> /\ mixed' = mixed \union {s}
      /\ copies' = [copies EXCEPT ![s] = NoOverlay] /\ levels' = [levels EXCEPT ![s] = "none"]
  BY DEF ForgetPolicy
<1>3. SettingsTypes'
  BY <1>1, <1>2 DEF SettingsTypes
<1>4. ASSUME NEW t \in Sessions PROVE OverlayIsHeld(t)'
  <2>1. t # s => copies'[t] = copies[t]
    BY <1>1, <1>2
  <2> QED
    BY <1>1, <1>2, <2>1 DEF OverlayIsHeld, Copying
<1> QED
  BY <1>3, <1>4

\* A step of the turn of session s; the other turns and the policy stay as they are.
TurnMoves(s, t) ==
  /\ turns' = [turns EXCEPT ![s] = t]
  /\ UNCHANGED <<drafts, snapshot, history, copies, levels, writing, mixed>>

LEMMA TurnMoveStep ==
  ASSUME Governed, NEW s \in Sessions, NEW t, TurnMoves(s, t)
  PROVE  /\ DraftsAreNamed' /\ HistoryIsNumbered' /\ HistoryGrows /\ SettingsTypes'
         /\ \A u \in Sessions : OverlayIsHeld(u)'
         /\ \A u \in Sessions \ {s} : TurnJudges(u)'
         /\ turns'[s] = t
<1>1. /\ DraftsAreNamed /\ HistoryIsNumbered /\ SettingsTypes
      /\ \A u \in Sessions : TurnJudges(u) /\ OverlayIsHeld(u)
      /\ UNCHANGED <<drafts, snapshot, history, copies, levels, writing, mixed>>
      /\ turns' = [turns EXCEPT ![s] = t] /\ turns = [u \in Sessions |-> turns[u]]
  BY DEF Governed, TurnMoves, SettingsTypes
<1>2. /\ turns'[s] = t /\ \A u \in Sessions \ {s} : turns'[u] = turns[u]
      /\ turns' = [u \in Sessions |-> turns'[u]]
  BY <1>1
<1>3. HistoryIsNumbered' /\ HistoryGrows
  BY <1>1, NothingForgotten
<1>4. DraftsAreNamed' /\ SettingsTypes'
  BY <1>1, <1>2 DEF DraftsAreNamed, SettingsTypes
<1>5. \A u \in Sessions : OverlayIsHeld(u)'
  BY <1>1, OverlayStays
<1>6. \A u \in Sessions \ {s} : TurnJudges(u)'
  BY <1>1, <1>2, <1>3, JudgesStay
<1> QED
  BY <1>2, <1>3, <1>4, <1>5, <1>6

\* A turn takes the runtime of its session's level, a handle of that runtime, and decides
\* by the handle.
LEMMA TurnStep ==
  ASSUME Governed, NEW s \in Sessions,
         \/ TurnBegins(s) \/ DecideCall(s) \/ CallEnds(s) \/ TurnEnds(s)
         \/ \E input \in Inputs : TakeHandle(s, input)
  PROVE  Governed'
<1>1. /\ TurnJudges(s) /\ SettingsTypes /\ HistoryIsNumbered
  BY DEF Governed
<1>2. ASSUME NEW t, TurnMoves(s, t), turns'[s] = t => TurnJudges(s)'
      PROVE  Governed'
  BY <1>2, TurnMoveStep DEF Governed
<1>3. Shared \in Runtimes /\ Shared \notin LawfulSnapshots
  BY DEF Runtimes, Shared, LawfulSnapshots
<1>4. CASE TurnBegins(s)
  <2> DEFINE own == IF levels[s] = "none" THEN Shared ELSE OwnRuntime(s)
             t == [at |-> "running", runtime |-> own]
  <2>1. own \in Runtimes
    BY <1>1, <1>3, OwnRuntimeIsLawful DEF Runtimes
  <2>2. TurnMoves(s, t)
    BY <1>4 DEF TurnBegins, TurnMoves
  <2> HIDE DEF own
  <2>3. turns'[s] = t => TurnJudges(s)'
    BY <2>1 DEF TurnJudges, Runtimes
  <2> QED
    BY <1>2, <2>2, <2>3
<1>5. ASSUME NEW input \in Inputs, TakeHandle(s, input) PROVE Governed'
  <2> DEFINE run == turns[s].runtime
             t == [at |-> "holding", runtime |-> run, input |-> input,
                   handle |-> IF run = Shared THEN snapshot ELSE run]
  <2>1. run \in Runtimes
    BY <1>1, <1>5 DEF TurnJudges, TakeHandle
  <2>2. TurnMoves(s, t)
    BY <1>5 DEF TakeHandle, TurnMoves
  <2>3. snapshot.version \in 1 .. snapshot.version /\ history[snapshot.version] = snapshot
    BY <1>1 DEF HistoryIsNumbered, LawfulSnapshots
  <2> HIDE DEF run
  <2>4. turns'[s] = t => TurnJudges(s)'
    BY <2>1, <2>2, <2>3 DEF TurnJudges, TurnMoves, Runtimes
  <2> QED
    BY <1>2, <2>2, <2>4
<1>6. CASE DecideCall(s)
  <2> DEFINE u == turns[s]
             t == [at |-> "decided", runtime |-> u.runtime, input |-> u.input,
                   version |-> u.handle.version, decision |-> DecideFor(s, u.input, u.handle)]
  <2>1. u.at = "holding" /\ TurnMoves(s, t) /\ u.runtime \in Runtimes
    BY <1>1, <1>6 DEF DecideCall, TurnMoves, TurnJudges
  <2>2. IF u.runtime = Shared
          THEN u.handle.version \in 1 .. snapshot.version /\ u.handle = history[u.handle.version]
          ELSE u.handle = u.runtime
    BY <1>1, <2>1 DEF TurnJudges, HistoryIsNumbered
  <2>3. snapshot' = snapshot /\ history' = history
    BY <2>1 DEF TurnMoves
  <2>4. ASSUME turns'[s] = t PROVE TurnJudges(s)'
    <3>1. /\ turns'[s].at = "decided" /\ turns'[s].runtime = u.runtime
          /\ turns'[s].input = u.input /\ turns'[s].version = u.handle.version
          /\ turns'[s].decision = DecideFor(s, u.input, u.handle)
      BY <2>4
    <3> HIDE DEF u, t
    <3>2. JudgedBy(s)' = u.handle
      BY <2>2, <2>3, <3>1 DEF JudgedBy
    <3>3. turns'[s].decision = DecideFor(s, turns'[s].input, JudgedBy(s)')
      BY <3>1, <3>2
    <3> QED
      BY <2>1, <2>2, <2>3, <3>1, <3>3 DEF TurnJudges, DecideFor, Runtimes
  <2> QED
    BY <1>2, <2>1, <2>4
<1>7. CASE CallEnds(s)
  <2> DEFINE t == [at |-> "running", runtime |-> turns[s].runtime]
  <2>1. turns[s].runtime \in Runtimes /\ TurnMoves(s, t)
    BY <1>1, <1>7 DEF CallEnds, TurnMoves, TurnJudges
  <2>2. turns'[s] = t => TurnJudges(s)'
    BY <2>1 DEF TurnJudges, Runtimes
  <2> QED
    BY <1>2, <2>1, <2>2
<1>8. CASE TurnEnds(s)
  <2>1. TurnMoves(s, NoTurn)
    BY <1>8 DEF TurnEnds, TurnMoves
  <2>2. turns'[s] = NoTurn => TurnJudges(s)'
    BY DEF TurnJudges, NoTurn
  <2> QED
    BY <1>2, <2>1, <2>2
<1> QED
  BY <1>4, <1>5, <1>6, <1>7, <1>8

-----------------------------------------------------------------------------
(* The theorems *)

LEMMA GovernedStart == Init => Governed
<1> SUFFICES ASSUME Init PROVE Governed
  OBVIOUS
<1> DEFINE first == FirstSnapshot(Store("ask", << >>))
<1>1. /\ drafts = << >> /\ snapshot = first /\ history = [v \in {1} |-> snapshot]
      /\ copies = [s \in Sessions |-> NoOverlay] /\ levels = [s \in Sessions |-> "none"]
      /\ writing = [c \in Clients |-> NoWrite] /\ turns = [s \in Sessions |-> NoTurn]
  BY DEF Init, PolicyInit
<1>2. /\ first \in LawfulSnapshots /\ first.version = 1
      /\ first.overlays = [s \in Sessions |-> NoOverlay]
  BY FirstIsLawful DEF FirstSnapshot, Kinds
<1> HIDE DEF first
<1>3. DraftsAreNamed
  BY <1>1 DEF DraftsAreNamed, Named
<1>4. HistoryIsNumbered
  BY <1>1, <1>2 DEF HistoryIsNumbered
<1>5. SettingsTypes
  BY <1>1 DEF SettingsTypes, OverlayRules, Writes
<1>6. \A s \in Sessions : TurnJudges(s)
  BY <1>1 DEF TurnJudges, NoTurn
<1>7. \A s \in Sessions : OverlayIsHeld(s)
  BY <1>1, <1>2 DEF OverlayIsHeld
<1> QED
  BY <1>3, <1>4, <1>5, <1>6, <1>7 DEF Governed

LEMMA EditStep ==
  ASSUME Governed, PolicyEdit
  PROVE  Governed'
<1>1. /\ DraftsAreNamed /\ HistoryIsNumbered /\ SettingsTypes
      /\ \A s \in Sessions : TurnJudges(s) /\ OverlayIsHeld(s)
  BY DEF Governed
<1>2. ASSUME HistoryGrows, UNCHANGED turns PROVE \A s \in Sessions : TurnJudges(s)'
  BY <1>1, <1>2, JudgesStay
<1>3. ASSUME UNCHANGED <<snapshot, history, copies, levels, writing, turns, mixed>>,
             DraftsAreNamed'
      PROVE  Governed'
  <2>1. HistoryIsNumbered' /\ HistoryGrows
    BY <1>1, <1>3, NothingForgotten
  <2>2. SettingsTypes'
    BY <1>1, <1>3 DEF SettingsTypes
  <2>3. \A s \in Sessions : OverlayIsHeld(s)'
    BY <1>1, <1>3, OverlayStays
  <2> QED
    BY <1>2, <1>3, <2>1, <2>2, <2>3 DEF Governed
<1>4. ASSUME NEW r \in RuleBook, CreateRule(r) \/ UpdateRule(r) PROVE Governed'
  <2>1. UNCHANGED <<snapshot, history, copies, levels, writing, turns, mixed>>
    BY <1>4 DEF CreateRule, UpdateRule
  <2>2. DraftsAreNamed'
    BY <1>1, <1>4, DraftStep
  <2> QED
    BY <1>3, <2>1, <2>2
<1>5. ASSUME NEW k \in DOMAIN drafts, DeleteRule(k) PROVE Governed'
  <2>1. UNCHANGED <<snapshot, history, copies, levels, writing, turns, mixed>>
    BY <1>5 DEF DeleteRule
  <2>2. DraftsAreNamed'
    BY <1>1, <1>5, DeleteStep
  <2> QED
    BY <1>3, <2>1, <2>2
<1>6. CASE Publish
  <2>1. UNCHANGED <<drafts, copies, levels, writing, turns, mixed>>
    BY <1>6 DEF Publish
  <2>2. HistoryIsNumbered' /\ HistoryGrows /\ snapshot'.overlays = snapshot.overlays
    BY <1>6, PublishStep
  <2>3. \A s \in Sessions : OverlayIsHeld(s)'
    BY <1>1, <2>1, <2>2, OverlayStays
  <2>4. DraftsAreNamed' /\ SettingsTypes'
    BY <1>1, <2>1 DEF DraftsAreNamed, SettingsTypes
  <2> QED
    BY <1>2, <2>1, <2>2, <2>3, <2>4 DEF Governed
<1>7. ASSUME NEW c \in Clients, NEW s \in Sessions, NEW rules \in Overlays \union {NoOverlay},
             StartOverlay(c, s, rules)
      PROVE  Governed'
  <2>1. /\ HistoryIsNumbered' /\ HistoryGrows /\ SettingsTypes'
        /\ \A t \in Sessions : OverlayIsHeld(t)'
    BY <1>7, StartOverlayStep DEF OverlayRules
  <2>2. UNCHANGED <<drafts, turns>>
    BY <1>7 DEF StartOverlay
  <2>3. DraftsAreNamed'
    BY <1>1, <2>2 DEF DraftsAreNamed
  <2> QED
    BY <1>2, <2>1, <2>2, <2>3 DEF Governed
<1>8. ASSUME NEW s \in Sessions, NEW level \in {"allow", "ask", "deny"}, SetLevel(s, level)
      PROVE  Governed'
  <2>1. /\ levels' = [levels EXCEPT ![s] = level]
        /\ UNCHANGED <<drafts, snapshot, history, copies, writing, turns, mixed>>
    BY <1>8 DEF SetLevel
  <2>2. HistoryIsNumbered' /\ HistoryGrows
    BY <1>1, <2>1, NothingForgotten
  <2>3. SettingsTypes' /\ DraftsAreNamed'
    BY <1>1, <2>1 DEF SettingsTypes, DraftsAreNamed
  <2>4. \A t \in Sessions : OverlayIsHeld(t)'
    BY <1>1, <2>1, OverlayStays
  <2> QED
    BY <1>2, <2>1, <2>2, <2>3, <2>4 DEF Governed
<1> QED
  BY <1>4, <1>5, <1>6, <1>7, <1>8 DEF PolicyEdit

LEMMA GovernedStep == Governed /\ [Next]_vars => Governed'
<1> SUFFICES ASSUME Governed, [Next]_vars PROVE Governed'
  OBVIOUS
<1>1. /\ DraftsAreNamed /\ HistoryIsNumbered /\ SettingsTypes
      /\ \A s \in Sessions : TurnJudges(s) /\ OverlayIsHeld(s)
  BY DEF Governed
<1>2. ASSUME UNCHANGED <<drafts, snapshot, history, turns>>, SettingsTypes',
             \A t \in Sessions : OverlayIsHeld(t)'
      PROVE  Governed'
  <2>1. HistoryIsNumbered' /\ HistoryGrows
    BY <1>1, <1>2, NothingForgotten
  <2>2. DraftsAreNamed'
    BY <1>1, <1>2 DEF DraftsAreNamed
  <2>3. \A t \in Sessions : TurnJudges(t)'
    BY <1>1, <1>2, <2>1, JudgesStay
  <2> QED
    BY <1>2, <2>1, <2>2, <2>3 DEF Governed
<1>3. ASSUME UNCHANGED policyVars PROVE Governed'
  <2>1. UNCHANGED <<drafts, snapshot, history, copies, levels, writing, turns, mixed>>
    BY <1>3 DEF policyVars
  <2>2. SettingsTypes'
    BY <1>1, <2>1 DEF SettingsTypes
  <2>3. \A t \in Sessions : OverlayIsHeld(t)'
    BY <1>1, <2>1, OverlayStays
  <2> QED
    BY <1>2, <2>1, <2>2, <2>3
<1>4. CASE PolicyEdit
  BY <1>4, EditStep
<1>5. ASSUME NEW c \in Clients, FinishOverlay(c) PROVE Governed'
  <2>1. UNCHANGED <<drafts, snapshot, history, turns>>
    BY <1>5 DEF FinishOverlay
  <2> QED
    BY <1>2, <1>5, <2>1, FinishOverlayStep
<1>6. ASSUME NEW s \in Sessions, ForgetPolicy(s) PROVE Governed'
  <2>1. UNCHANGED <<drafts, snapshot, history, turns>>
    BY <1>6 DEF ForgetPolicy
  <2> QED
    BY <1>2, <1>6, <2>1, ForgetStep
<1>7. ASSUME PolicyStep PROVE Governed'
  BY <1>5, <1>7, TurnStep DEF PolicyStep
<1> QED
  BY <1>3, <1>4, <1>6, <1>7 DEF Next, vars, ClearSession

LEMMA GovernedAlways == Spec => []Governed
BY GovernedStart, GovernedStep, PTL DEF Spec

LEMMA JudgedByIsLawful ==
  ASSUME Governed, NEW s \in Sessions, turns[s].at = "decided"
  PROVE  JudgedBy(s) \in LawfulSnapshots
<1>1. TurnJudges(s) /\ HistoryIsNumbered
  BY DEF Governed
<1> QED
  BY <1>1 DEF TurnJudges, HistoryIsNumbered, Runtimes, JudgedBy

LEMMA GovernedIsLawful == Governed => DecisionsAreLawful
<1> SUFFICES ASSUME Governed PROVE DecisionsAreLawful
  OBVIOUS
<1>1. DecisionsFollowTheirVersion
  BY DEF Governed, TurnJudges, DecisionsFollowTheirVersion
<1>2. OrderIndependent
  <2>1. Named(snapshot.store.rules)
    BY DEF Governed, HistoryIsNumbered, LawfulSnapshots, LawfulStores
  <2> QED
    BY <2>1, PermutedDecides DEF OrderIndependent
<1>3. DestructiveEscalates
  <2> SUFFICES ASSUME NEW s \in Sessions, turns[s].at = "decided", turns[s].input \in Destructive,
                      Matching(turns[s].input, JudgedBy(s).overlays[s]) = {},
                      \A i \in DOMAIN JudgedBy(s).store.rules :
                        JudgedBy(s).store.rules[i].id # SystemId
                          => JudgedBy(s).store.rules[i].priority < SystemPriority
               PROVE  turns[s].decision.kind = "escalate"
    BY DEF DestructiveEscalates
  <2> DEFINE snap == JudgedBy(s)  input == turns[s].input  default == snap.store.default
  <2>1. snap \in LawfulSnapshots
    BY JudgedByIsLawful
  <2>2. PICK k \in DOMAIN snap.store.rules : snap.store.rules[k] = SystemRule
    BY <2>1 DEF LawfulSnapshots, LawfulStores
  <2>3. Named(snap.store.rules)
    BY <2>1 DEF LawfulSnapshots, LawfulStores
  <2>4. turns[s].decision = DecideFor(s, input, snap)
    BY <1>1 DEF DecisionsFollowTheirVersion
  <2> HIDE DEF snap, input
  <2>5. DecideFor(s, input, snap) = Decide(input, snap.store.rules, default)
    BY DEF DecideFor, Decide, snap, input
  <2>6. Decide(input, snap.store.rules, default).kind = "escalate"
    BY <2>2, <2>3, SystemRuleDecides DEF snap, input
  <2> QED
    BY <2>4, <2>5, <2>6
<1> QED
  BY <1>1, <1>2, <1>3 DEF DecisionsAreLawful

LEMMA GovernedIsOne == Governed => OverlayIsOne
BY DEF Governed, OverlayIsHeld, OverlayIsOne

\* A decision is that of the version it reports, the order in which the rules were written
\* does not matter to it, and a destructive call is escalated unless a rule of the session
\* or one with the priority of the built-in rule speaks of it (engine.rs, store.rs,
\* runtime.rs, tools/orchestrator.rs).
THEOREM DecisionsStayLawful == Spec => []DecisionsAreLawful
BY GovernedAlways, GovernedIsLawful, PTL

\* The runtime and the session hold the same overlay once its requests are over, unless they
\* overlapped or the session was cleared (handlers/policy.rs).
THEOREM OverlayStaysOne == Spec => []OverlayIsOne
BY GovernedAlways, GovernedIsOne, PTL

-----------------------------------------------------------------------------
(* The invariant of the providers *)

Row == [id : Nat \ {0}, name : Names, model : Models]

\* Rows as they are listed: newest first, under names of their own.
Ordered(rows) ==
  /\ rows \in Seq(Row)
  /\ \A i, j \in DOMAIN rows : i < j => rows[i].id > rows[j].id
  /\ \A i, j \in DOMAIN rows : rows[i].name = rows[j].name => i = j

\* The rows are in order and have numbers that were given out.
RowsInOrder ==
  /\ Ordered(providers)
  /\ created \in Nat
  /\ \A id \in Listed : id <= created

\* One provider at most is active, and it is listed.
ActiveIsOne ==
  /\ active = {} \/ \E a \in [id : Nat \ {0}, model : Models] : active = {a}
  /\ ActiveIsListed

OpenRequest == [at : {"updated", "read"}, id : Nat \ {0}, model : Models]

\* A request is about a number that was given out.
RequestsAreOfRows ==
  /\ request \in [Requests -> {NoRequest} \union OpenRequest]
  /\ \A r \in Requests : request[r] # NoRequest => request[r].id <= created

\* Unless requests for it overlapped, a provider has one request under way, which knows the
\* model its row names; the snapshot names it too but between the two writes of an update.
SnapshotHeld(id) ==
  id \notin raced =>
    /\ \A q, r \in UnderWay(id) : q = r
    /\ id \in Listed => \A r \in UnderWay(id) : request[r].model = RowOf(id).model
    /\ \A a \in active :
         (a.id = id /\ \A r \in UnderWay(id) : request[r].at = "read") => a.model = RowOf(id).model

ActiveIds == {a.id : a \in active}

AgentTypes ==
  /\ building = [s \in Agents |-> building[s]]
  /\ routes = [s \in Agents |-> routes[s]]
  /\ unchanged \in [Agents -> BOOLEAN]

\* As long as nothing was changed what an agent has read is what is there.
AgentKnows(s) ==
  unchanged[s] =>
    /\ building[s] = NotBuilding => routes[s] = Route(providers, ActiveIds)
    /\ building[s].at = "listed" => building[s].rows = providers
    /\ building[s].at = "read" => building[s].route = Route(providers, ActiveIds)

-----------------------------------------------------------------------------
(* Rows *)

\* A row is found by its number.
LEMMA RowFound ==
  ASSUME NEW rows, Ordered(rows), NEW i \in DOMAIN rows
  PROVE  /\ (CHOOSE k \in DOMAIN rows : rows[k].id = rows[i].id) = i
         /\ rows[i] \in Row
<1>1. /\ rows \in Seq(Row) /\ DOMAIN rows = 1..Len(rows) /\ Len(rows) \in Nat
      /\ \A k \in 1..Len(rows) : rows[k] \in Row /\ rows[k].id \in Nat
  <2>1. /\ rows \in Seq(Row) /\ DOMAIN rows = 1..Len(rows) /\ Len(rows) \in Nat
        /\ \A k \in 1..Len(rows) : rows[k] \in Row
    BY DEF Ordered
  <2>2. \A r \in Row : r.id \in Nat
    BY DEF Row
  <2> QED
    BY <2>1, <2>2
<1>2. \A j, k \in 1..Len(rows) : j < k => rows[j].id > rows[k].id
  BY <1>1 DEF Ordered
<1>3. ASSUME NEW k \in 1..Len(rows), rows[k].id = rows[i].id PROVE k = i
  <2>1. ~ (k < i) /\ ~ (i < k)
    BY <1>1, <1>2, <1>3
  <2> QED
    BY <1>1, <2>1
<1> QED
  BY <1>1, <1>3

LEMMA ListedIs ==
  ASSUME RowsInOrder, NEW id \in Listed
  PROVE  /\ Place(id) \in DOMAIN providers /\ providers[Place(id)].id = id
         /\ RowOf(id) \in Row /\ RowOf(id).id = id /\ id \in Nat \ {0} /\ id <= created
         /\ \A i \in DOMAIN providers : providers[i].id = id => i = Place(id)
<1>1. PICK i \in DOMAIN providers : providers[i].id = id
  BY DEF Listed
<1>2. Ordered(providers) /\ id <= created
  BY DEF RowsInOrder
<1>3. Place(id) = i /\ providers[i] \in Row
  BY <1>1, <1>2, RowFound DEF Place
<1>4. ASSUME NEW j \in DOMAIN providers, providers[j].id = id PROVE j = i
  <2>1. (CHOOSE k \in DOMAIN providers : providers[k].id = id) = j
    BY <1>2, <1>4, RowFound
  <2> QED
    BY <1>3, <2>1 DEF Place
<1>5. RowOf(id) = providers[i] /\ RowOf(id) \in Row /\ RowOf(id).id = id
  BY <1>1, <1>3 DEF RowOf
<1>6. id \in Nat \ {0}
  BY <1>5 DEF Row
<1> QED
  BY <1>1, <1>2, <1>3, <1>4, <1>5, <1>6

\* The rows of the numbers in K stay as they are.
RowsKept(K) == \A id \in K : id \in Listed /\ id \in Listed' /\ RowOf(id)' = RowOf(id)

\* A row that is there before and after a step, in whatever place, is kept.
LEMMA RowStays ==
  ASSUME Ordered(providers), Ordered(providers)', NEW id,
         NEW i \in DOMAIN providers, providers[i].id = id,
         NEW j \in DOMAIN providers', providers'[j] = providers[i]
  PROVE  id \in Listed /\ id \in Listed' /\ RowOf(id)' = RowOf(id)
<1>1. (CHOOSE k \in DOMAIN providers : providers[k].id = id) = i
  BY RowFound
<1>2. Ordered(providers') /\ providers'[j].id = id
  BY DEF Ordered
<1>3. (CHOOSE k \in DOMAIN providers' : providers'[k].id = id) = j
  BY <1>2, RowFound
<1> QED
  BY <1>1, <1>2, <1>3 DEF Listed, RowOf, Place

LEMMA AddedRow ==
  ASSUME RowsInOrder, NEW name \in Names, NEW model \in Models, AddProvider(name, model)
  PROVE  /\ RowsInOrder' /\ created' = created + 1
         /\ Listed' = Listed \union {created + 1} /\ RowsKept(Listed)
<1> DEFINE n == Len(providers)
           row == [id |-> created + 1, name |-> name, model |-> model]
           all == <<row>> \o providers
<1>1. /\ Ordered(providers) /\ providers \in Seq(Row) /\ n \in Nat /\ DOMAIN providers = 1..n
      /\ created \in Nat /\ \A i \in 1..n : providers[i] \in Row /\ providers[i].id <= created
  BY DEF RowsInOrder, Ordered, Listed
<1>2. /\ providers' = all /\ created' = created + 1 /\ row \in Row
      /\ row.id = created + 1 /\ row.name = name
      /\ \A i \in 1..n : providers[i].name # name
  <2>1. \A i \in 1..n : providers[i] \in ToSet(providers) /\ providers[i].id # 0
    BY <1>1 DEF ToSet, Row
  <2> QED
    BY <1>1, <2>1 DEF AddProvider, TakenNames, Row
<1> HIDE DEF row
<1>3. /\ all \in Seq(Row) /\ DOMAIN all = 1..(n + 1) /\ all[1] = row
      /\ \A i \in 1..n : all[i + 1] = providers[i]
  BY <1>1, <1>2
<1> HIDE DEF all, n
<1>4. ASSUME NEW i \in 1..(n + 1), i # 1
      PROVE  i - 1 \in 1..n /\ all[i] = providers[i - 1]
  <2>1. i - 1 \in 1..n /\ (i - 1) + 1 = i
    BY <1>1, <1>4
  <2> QED
    BY <1>3, <2>1
<1>5. Ordered(all)
  <2>1. ASSUME NEW i \in 1..(n + 1), NEW j \in 1..(n + 1), i < j PROVE all[i].id > all[j].id
    <3>1. j - 1 \in 1..n /\ all[j] = providers[j - 1] /\ all[j] \in Row
      BY <1>1, <1>4, <2>1
    <3>2. CASE i = 1
      BY <1>1, <1>2, <1>3, <3>1, <3>2 DEF Row
    <3>3. CASE i # 1
      <4>1. i - 1 \in 1..n /\ all[i] = providers[i - 1] /\ i - 1 < j - 1
        BY <1>1, <1>4, <2>1, <3>3
      <4> QED
        BY <1>1, <3>1, <4>1 DEF Ordered
    <3> QED
      BY <3>2, <3>3
  <2>2. ASSUME NEW i \in 1..(n + 1), NEW j \in 1..(n + 1), all[i].name = all[j].name PROVE i = j
    <3>1. CASE i = 1 /\ j # 1
      BY <1>2, <1>3, <1>4, <2>2, <3>1
    <3>2. CASE j = 1 /\ i # 1
      BY <1>2, <1>3, <1>4, <2>2, <3>2
    <3>3. CASE i # 1 /\ j # 1
      <4>1. /\ i - 1 \in 1..n /\ all[i] = providers[i - 1]
            /\ j - 1 \in 1..n /\ all[j] = providers[j - 1]
        BY <1>4, <3>3
      <4>2. i - 1 = j - 1
        BY <1>1, <2>2, <4>1 DEF Ordered
      <4> QED
        BY <4>2
    <3> QED
      BY <3>1, <3>2, <3>3
  <2> QED
    BY <1>3, <2>1, <2>2 DEF Ordered
<1>6. \A i \in 1..n : i + 1 \in 1..(n + 1)
  BY <1>1
<1>7. RowsKept(Listed)
  <2> SUFFICES ASSUME NEW id \in Listed
               PROVE  id \in Listed /\ id \in Listed' /\ RowOf(id)' = RowOf(id)
    BY DEF RowsKept
  <2> PICK i \in 1..n : providers[i].id = id
    BY <1>1 DEF Listed
  <2>1. i + 1 \in DOMAIN providers' /\ providers'[i + 1] = providers[i]
    BY <1>2, <1>3, <1>6
  <2>2. Ordered(providers)'
    BY <1>2, <1>5 DEF Ordered
  <2> QED
    BY <1>1, <2>1, <2>2, RowStays
<1>8. Listed' = Listed \union {created + 1}
  <2>1. Listed' = {all[i].id : i \in 1..(n + 1)} /\ Listed = {providers[i].id : i \in 1..n}
    BY <1>1, <1>2, <1>3 DEF Listed
  <2>2. ASSUME NEW id \in Listed' PROVE id \in Listed \union {created + 1}
    <3>1. PICK i \in 1..(n + 1) : id = all[i].id
      BY <2>1, <2>2
    <3> QED
      BY <1>2, <1>3, <1>4, <2>1, <3>1
  <2>3. 1 \in 1..(n + 1)
    BY <1>1
  <2>4. created + 1 \in Listed'
    BY <1>2, <1>3, <2>1, <2>3
  <2>5. Listed \subseteq Listed'
    BY <1>7 DEF RowsKept
  <2> QED
    BY <2>2, <2>4, <2>5
<1>9. \A id \in Listed' : id <= created'
  <2>1. \A id \in Listed : id \in Nat /\ id <= created
    BY ListedIs
  <2> QED
    BY <1>1, <1>2, <1>8, <2>1
<1>10. Ordered(providers)' /\ created' \in Nat
  BY <1>1, <1>2, <1>5 DEF Ordered
<1> QED
  BY <1>2, <1>7, <1>8, <1>9, <1>10 DEF RowsInOrder

\* A row that goes takes its number with it.
LEMMA RemovedRow ==
  ASSUME RowsInOrder, NEW id \in Listed, RemoveProvider(id)
  PROVE  RowsInOrder' /\ Listed' = Listed \ {id} /\ RowsKept(Listed \ {id})
<1> DEFINE n == Len(providers)  k == Place(id)
<1>1. /\ Ordered(providers) /\ providers \in Seq(Row) /\ n \in Nat /\ DOMAIN providers = 1..n
      /\ k \in 1..n /\ providers[k].id = id
      /\ \A i \in 1..n : providers[i].id = id => i = k
  BY ListedIs DEF RowsInOrder, Ordered
<1>2. /\ providers' = RemoveAt(providers, k) /\ providers' \in Seq(Row)
      /\ DOMAIN providers' = 1..(n - 1) /\ created' = created
      /\ \A i \in 1..(n - 1) :
           Skipping(k, i) \in 1..n /\ providers'[i] = providers[Skipping(k, i)]
  BY <1>1, RemovedIs DEF RemoveProvider, Without
<1> HIDE DEF n, k
<1>3. \A i, j \in 1..(n - 1) : /\ i < j => Skipping(k, i) < Skipping(k, j)
                               /\ Skipping(k, i) = Skipping(k, j) => i = j
  BY <1>1 DEF Skipping
<1>4. \A i \in 1..(n - 1) : Skipping(k, i) # k
  BY <1>1 DEF Skipping
<1>5. Ordered(providers)'
  <2>1. ASSUME NEW i \in 1..(n - 1), NEW j \in 1..(n - 1)
        PROVE  /\ i < j => providers'[i].id > providers'[j].id
               /\ providers'[i].name = providers'[j].name => i = j
    BY <1>1, <1>2, <1>3 DEF Ordered
  <2> QED
    BY <1>2, <2>1 DEF Ordered
<1>6. \A j \in 1..n : j # k => \E i \in 1..(n - 1) : Skipping(k, i) = j
  BY <1>1, SkippingCovers
<1>7. RowsKept(Listed \ {id})
  <2> SUFFICES ASSUME NEW u \in Listed, u # id
               PROVE  u \in Listed' /\ RowOf(u)' = RowOf(u)
    BY DEF RowsKept
  <2> PICK j \in 1..n : providers[j].id = u
    BY <1>1 DEF Listed
  <2>1. PICK i \in 1..(n - 1) : Skipping(k, i) = j
    BY <1>1, <1>6
  <2>2. i \in DOMAIN providers' /\ providers'[i] = providers[j]
    BY <1>2, <2>1
  <2> QED
    BY <1>1, <1>5, <2>2, RowStays
<1>8. Listed' = Listed \ {id}
  <2>1. ASSUME NEW u \in Listed' PROVE u \in Listed \ {id}
    <3>1. PICK i \in 1..(n - 1) : providers'[i].id = u
      BY <1>2, <2>1 DEF Listed
    <3>2. /\ Skipping(k, i) \in 1..n /\ Skipping(k, i) # k
          /\ providers[Skipping(k, i)].id = u
      BY <1>2, <1>4, <3>1
    <3> QED
      BY <1>1, <3>2 DEF Listed
  <2>2. Listed \ {id} \subseteq Listed'
    BY <1>7 DEF RowsKept
  <2> QED
    BY <2>1, <2>2
<1> QED
  BY <1>2, <1>5, <1>7, <1>8 DEF RowsInOrder

LEMMA UpdatedRow ==
  ASSUME RowsInOrder, NEW id \in Listed, NEW name \in Names, NEW model \in Models,
         name \notin TakenNames(id),
         providers' = [i \in DOMAIN providers |->
                        IF providers[i].id = id THEN [id |-> id, name |-> name, model |-> model]
                        ELSE providers[i]],
         created' = created
  PROVE  /\ RowsInOrder' /\ Listed' = Listed /\ RowsKept(Listed \ {id})
         /\ RowOf(id)'.model = model
<1> DEFINE n == Len(providers)  k == Place(id)
           row == [id |-> id, name |-> name, model |-> model]
<1>1. /\ Ordered(providers) /\ providers \in Seq(Row) /\ n \in Nat /\ DOMAIN providers = 1..n
      /\ k \in 1..n /\ providers[k].id = id /\ id \in Nat \ {0}
      /\ \A i \in 1..n : providers[i] \in Row /\ (providers[i].id = id => i = k)
  BY ListedIs DEF RowsInOrder, Ordered
<1>2. row \in Row /\ row.id = id /\ row.name = name /\ row.model = model
  BY <1>1 DEF Row
<1>3. \A i \in 1..n \ {k} : providers[i].name # name
  <2>1. \A i \in 1..n \ {k} : providers[i] \in ToSet(providers) /\ providers[i].id # id
    BY <1>1 DEF ToSet
  <2> QED
    BY <2>1 DEF TakenNames
<1>4. providers' = [i \in 1..n |-> IF providers[i].id = id THEN row ELSE providers[i]]
  BY <1>1
<1> HIDE DEF row, k, n
<1>5. /\ providers' \in [1..n -> Row] /\ providers'[k] = row
      /\ \A i \in 1..n \ {k} : providers'[i] = providers[i]
  BY <1>1, <1>2, <1>4
<1>6. providers' \in Seq(Row) /\ DOMAIN providers' = 1..n
  BY <1>1, <1>5
<1>7. \A i \in 1..n : providers'[i].id = providers[i].id
  BY <1>1, <1>2, <1>5
<1>8. Ordered(providers)'
  <2>1. \A i, j \in 1..n : i < j => providers'[i].id > providers'[j].id
    BY <1>1, <1>7 DEF Ordered
  <2>2. \A i, j \in 1..n : providers'[i].name = providers'[j].name => i = j
    BY <1>1, <1>2, <1>3, <1>5 DEF Ordered
  <2> QED
    BY <1>6, <2>1, <2>2 DEF Ordered
<1>9. Listed' = Listed
  BY <1>1, <1>6, <1>7 DEF Listed
<1>10. RowsKept(Listed \ {id})
  <2> SUFFICES ASSUME NEW u \in Listed, u # id
               PROVE  u \in Listed' /\ RowOf(u)' = RowOf(u)
    BY DEF RowsKept
  <2> PICK j \in 1..n : providers[j].id = u
    BY <1>1 DEF Listed
  <2>1. j # k
    BY <1>1
  <2>2. j \in DOMAIN providers' /\ providers'[j] = providers[j]
    BY <1>5, <1>6, <2>1
  <2> QED
    BY <1>1, <1>8, <2>2, RowStays
<1>11. RowOf(id)'.model = model
  <2>1. Ordered(providers') /\ k \in DOMAIN providers' /\ providers'[k].id = id
    BY <1>1, <1>6, <1>7, <1>8 DEF Ordered
  <2>2. (CHOOSE i \in DOMAIN providers' : providers'[i].id = id) = k
    BY <2>1, RowFound
  <2> QED
    BY <1>2, <1>5, <2>2 DEF RowOf, Place
<1> QED
  BY <1>8, <1>9, <1>10, <1>11 DEF RowsInOrder

-----------------------------------------------------------------------------
(* Requests and the active provider *)

Settled ==
  /\ RowsInOrder /\ ActiveIsOne /\ RequestsAreOfRows
  /\ \A id \in Nat \ {0} : SnapshotHeld(id)

\* A request that is not about a provider does not change what is under way for it.
LEMMA OtherRequest ==
  ASSUME RequestsAreOfRows, NEW r \in Requests, NEW x, NEW id,
         request' = [request EXCEPT ![r] = x],
         request[r] = NoRequest \/ request[r].id # id, x = NoRequest \/ x.id # id
  PROVE  UnderWay(id)' = UnderWay(id) /\ \A q \in UnderWay(id) : request'[q] = request[q]
<1>1. request'[r] = x /\ \A q \in Requests \ {r} : request'[q] = request[q]
  BY DEF RequestsAreOfRows
<1>2. r \notin UnderWay(id) /\ r \notin UnderWay(id)'
  BY <1>1 DEF UnderWay
<1> QED
  BY <1>1, <1>2 DEF UnderWay

\* The request r begins or ends, about the provider id, which has no other one.
LEMMA OnlyRequest ==
  ASSUME RequestsAreOfRows, NEW r \in Requests, NEW x, NEW id,
         request' = [request EXCEPT ![r] = x], UnderWay(id) \subseteq {r}
  PROVE  /\ request'[r] = x
         /\ UnderWay(id)' = IF x # NoRequest /\ x.id = id THEN {r} ELSE {}
<1>1. request'[r] = x /\ \A q \in Requests \ {r} : request'[q] = request[q]
  BY DEF RequestsAreOfRows
<1>2. UnderWay(id)' \subseteq {r}
  BY <1>1 DEF UnderWay
<1> QED
  BY <1>1, <1>2 DEF UnderWay

LEMMA SnapshotKept ==
  ASSUME NEW id, SnapshotHeld(id), raced \subseteq raced',
         id \in Listed' => id \in Listed /\ RowOf(id)' = RowOf(id),
         \A a \in active' : a.id = id => a \in active /\ id \in Listed',
         UnderWay(id)' = UnderWay(id), \A q \in UnderWay(id) : request'[q] = request[q]
  PROVE  SnapshotHeld(id)'
<1> SUFFICES ASSUME id \notin raced'
             PROVE  /\ \A q, r \in UnderWay(id) : q = r
                    /\ id \in Listed' =>
                         \A r \in UnderWay(id) : request'[r].model = RowOf(id)'.model
                    /\ \A a \in active' :
                         (a.id = id /\ \A r \in UnderWay(id) : request'[r].at = "read")
                           => a.model = RowOf(id)'.model
  BY DEF SnapshotHeld
<1>1. /\ \A q, r \in UnderWay(id) : q = r
      /\ id \in Listed => \A r \in UnderWay(id) : request[r].model = RowOf(id).model
      /\ \A a \in active :
           (a.id = id /\ \A r \in UnderWay(id) : request[r].at = "read")
             => a.model = RowOf(id).model
  BY DEF SnapshotHeld
<1> QED
  BY <1>1

LEMMA RequestTypes ==
  ASSUME RequestsAreOfRows, NEW r \in Requests, NEW x \in {NoRequest} \union OpenRequest,
         request' = [request EXCEPT ![r] = x], x # NoRequest => x.id <= created,
         created' = created
  PROVE  RequestsAreOfRows'
<1>1. /\ request' \in [Requests -> {NoRequest} \union OpenRequest]
      /\ request'[r] = x /\ \A q \in Requests \ {r} : request'[q] = request[q]
  BY DEF RequestsAreOfRows
<1> QED
  BY <1>1 DEF RequestsAreOfRows

LEMMA AddStep ==
  ASSUME Settled, NEW name \in Names, NEW model \in Models, AddProvider(name, model)
  PROVE  Settled'
<1>1. /\ RowsInOrder' /\ created' = created + 1 /\ created \in Nat
      /\ Listed' = Listed \union {created + 1} /\ RowsKept(Listed)
      /\ UNCHANGED <<active, request, raced>>
  BY AddedRow DEF Settled, AddProvider, RowsInOrder
<1>2. /\ \A a \in active : a.id \in Listed
      /\ \A id \in Listed : id \in Nat /\ id <= created
      /\ \A r \in Requests : request[r] # NoRequest => request[r].id \in Nat /\ request[r].id <= created
  <2>1. /\ ActiveIsListed /\ RowsInOrder
        /\ request \in [Requests -> {NoRequest} \union OpenRequest]
        /\ \A r \in Requests : request[r] # NoRequest => request[r].id <= created
    BY DEF Settled, ActiveIsOne, RequestsAreOfRows
  <2>2. \A x \in OpenRequest : x.id \in Nat
    BY DEF OpenRequest
  <2> QED
    BY <2>1, <2>2, ListedIs DEF ActiveIsListed
<1>3. ActiveIsOne'
  BY <1>1 DEF Settled, ActiveIsOne, ActiveIsListed
<1>4. RequestsAreOfRows'
  <2>1. \A r \in Requests : request[r] # NoRequest => request[r].id <= created + 1
    BY <1>1, <1>2
  <2> QED
    BY <1>1, <2>1 DEF Settled, RequestsAreOfRows
<1>5. ASSUME NEW id \in Nat \ {0} PROVE SnapshotHeld(id)'
  <2>1. UnderWay(id)' = UnderWay(id)
    BY <1>1 DEF UnderWay
  <2>2. CASE id = created + 1
    <3>1. UnderWay(id) = {} /\ \A a \in active : a.id # id
      BY <1>1, <1>2, <2>2 DEF UnderWay
    <3> QED
      BY <1>1, <2>1, <3>1 DEF SnapshotHeld
  <2>3. CASE id # created + 1
    <3>1. id \in Listed' => id \in Listed /\ RowOf(id)' = RowOf(id)
      BY <1>1, <2>3 DEF RowsKept
    <3> QED
      BY <1>1, <1>2, <2>1, <3>1, SnapshotKept DEF Settled
  <2> QED
    BY <2>2, <2>3
<1> QED
  BY <1>1, <1>3, <1>4, <1>5 DEF Settled

LEMMA RemoveStep ==
  ASSUME Settled, NEW id \in Listed, RemoveProvider(id)
  PROVE  Settled'
<1>1. /\ RowsInOrder' /\ Listed' = Listed \ {id} /\ RowsKept(Listed \ {id})
      /\ active' = {a \in active : a.id # id} /\ UNCHANGED <<created, request, raced>>
  BY RemovedRow DEF Settled, RemoveProvider
<1>2. \A a \in active : a.id \in Listed
  BY DEF Settled, ActiveIsOne, ActiveIsListed
<1>3. ActiveIsOne'
  <2>1. active' = {} \/ \E a \in [id : Nat \ {0}, model : Models] : active' = {a}
    BY <1>1 DEF Settled, ActiveIsOne
  <2> QED
    BY <1>1, <1>2, <2>1 DEF ActiveIsOne, ActiveIsListed
<1>4. RequestsAreOfRows'
  BY <1>1 DEF Settled, RequestsAreOfRows
<1>5. ASSUME NEW u \in Nat \ {0} PROVE SnapshotHeld(u)'
  <2>1. UnderWay(u)' = UnderWay(u)
    BY <1>1 DEF UnderWay
  <2>2. u \in Listed' => u \in Listed /\ RowOf(u)' = RowOf(u)
    BY <1>1 DEF RowsKept
  <2> QED
    BY <1>1, <1>2, <2>1, <2>2, SnapshotKept DEF Settled
<1> QED
  BY <1>1, <1>3, <1>4, <1>5 DEF Settled

LEMMA UpdateStep ==
  ASSUME Settled, NEW r \in Requests, NEW id \in Listed, NEW name \in Names,
         NEW model \in Models, UpdateProvider(r, id, name, model)
  PROVE  Settled'
<1> DEFINE x == [at |-> "updated", id |-> id, model |-> model]
<1>1. /\ RowsInOrder' /\ Listed' = Listed /\ RowsKept(Listed \ {id})
      /\ RowOf(id)'.model = model
  BY UpdatedRow DEF Settled, UpdateProvider
<1>2. /\ request[r] = NoRequest /\ request' = [request EXCEPT ![r] = x]
      /\ raced' = IF UnderWay(id) = {} THEN raced ELSE raced \union {id}
      /\ UNCHANGED <<active, created>>
  BY DEF UpdateProvider
<1>3. /\ id \in Nat \ {0} /\ id <= created
      /\ x \in OpenRequest /\ x # NoRequest /\ x.id = id /\ x.at = "updated" /\ x.model = model
  BY ListedIs DEF Settled, OpenRequest, NoRequest
<1> HIDE DEF x
<1>4. /\ RequestsAreOfRows /\ \A a \in active : a.id \in Listed
      /\ \A u \in Nat \ {0} : SnapshotHeld(u)
  BY DEF Settled, ActiveIsOne, ActiveIsListed
<1>5. ActiveIsOne'
  BY <1>1, <1>2 DEF Settled, ActiveIsOne, ActiveIsListed
<1>6. RequestsAreOfRows'
  BY <1>2, <1>3, <1>4, RequestTypes
<1>7. SnapshotHeld(id)'
  <2>1. CASE UnderWay(id) = {}
    <3>1. UnderWay(id)' = {r} /\ request'[r] = x
      BY <1>2, <1>3, <1>4, <2>1, OnlyRequest
    <3> QED
      BY <1>1, <1>3, <3>1 DEF SnapshotHeld
  <2>2. CASE UnderWay(id) # {}
    BY <1>2, <2>2 DEF SnapshotHeld
  <2> QED
    BY <2>1, <2>2
<1>8. ASSUME NEW u \in Nat \ {0}, u # id PROVE SnapshotHeld(u)'
  <2>1. UnderWay(u)' = UnderWay(u) /\ \A q \in UnderWay(u) : request'[q] = request[q]
    BY <1>2, <1>3, <1>4, <1>8, OtherRequest
  <2>2. u \in Listed' => u \in Listed /\ RowOf(u)' = RowOf(u)
    BY <1>1, <1>8 DEF RowsKept
  <2>3. raced \subseteq raced' /\ \A a \in active' : a.id = u => a \in active /\ u \in Listed'
    BY <1>1, <1>2, <1>4
  <2> QED
    BY <1>4, <2>1, <2>2, <2>3, SnapshotKept
<1> QED
  BY <1>1, <1>5, <1>6, <1>7, <1>8 DEF Settled

LEMMA ReadStep ==
  ASSUME Settled, NEW r \in Requests, NEW id \in Listed, ReadForActive(r, id)
  PROVE  Settled'
<1> DEFINE x == [at |-> "read", id |-> id, model |-> RowOf(id).model]
<1>1. /\ request[r] = NoRequest /\ request' = [request EXCEPT ![r] = x]
      /\ raced' = IF UnderWay(id) = {} THEN raced ELSE raced \union {id}
      /\ UNCHANGED <<providers, active, created>>
  BY DEF ReadForActive
<1>2. /\ id \in Nat \ {0} /\ id <= created /\ RowOf(id) \in Row
      /\ x \in OpenRequest /\ x # NoRequest /\ x.id = id /\ x.at = "read"
      /\ x.model = RowOf(id).model
  BY ListedIs DEF Settled, OpenRequest, NoRequest, Row
<1>3. Listed' = Listed /\ \A u : RowOf(u)' = RowOf(u)
  BY <1>1 DEF Listed, RowOf, Place
<1> PICK y \in OpenRequest : y = x
  BY <1>2
<1> HIDE DEF x
<1>4. /\ RequestsAreOfRows /\ \A a \in active : a.id \in Listed
      /\ \A u \in Nat \ {0} : SnapshotHeld(u)
  BY DEF Settled, ActiveIsOne, ActiveIsListed
<1>5. RowsInOrder' /\ ActiveIsOne'
  BY <1>1, <1>3 DEF Settled, RowsInOrder, Ordered, ActiveIsOne, ActiveIsListed
<1>6. RequestsAreOfRows'
  BY <1>1, <1>2, <1>4, RequestTypes
<1>7. SnapshotHeld(id)'
  <2>1. CASE UnderWay(id) = {}
    <3>1. UnderWay(id)' = {r} /\ request'[r] = x
      BY <1>1, <1>2, <1>4, <2>1, OnlyRequest
    <3>2. id \notin raced => \A a \in active : a.id = id => a.model = RowOf(id).model
      BY <1>2, <1>4, <2>1 DEF SnapshotHeld
    <3> QED
      BY <1>1, <1>2, <1>3, <2>1, <3>1, <3>2 DEF SnapshotHeld
  <2>2. CASE UnderWay(id) # {}
    BY <1>1, <2>2 DEF SnapshotHeld
  <2> QED
    BY <2>1, <2>2
<1>8. ASSUME NEW u \in Nat \ {0}, u # id PROVE SnapshotHeld(u)'
  <2>1. UnderWay(u)' = UnderWay(u) /\ \A q \in UnderWay(u) : request'[q] = request[q]
    <3>1. request[r] = NoRequest /\ request' = [request EXCEPT ![r] = y] /\ y.id # u
      BY <1>1, <1>2, <1>8
    <3> QED
      BY <1>4, <3>1, OtherRequest
  <2>2. raced \subseteq raced' /\ \A a \in active' : a.id = u => a \in active /\ u \in Listed'
    BY <1>1, <1>3, <1>4
  <2> QED
    BY <1>3, <1>4, <2>1, <2>2, SnapshotKept
<1> QED
  BY <1>5, <1>6, <1>7, <1>8 DEF Settled

\* The second statement of a request: the snapshot is that of the row unless requests for
\* it overlapped.
LEMMA EndRequestStep ==
  ASSUME Settled, NEW r \in Requests, SyncActive(r) \/ WriteActive(r)
  PROVE  Settled'
<1> DEFINE id == request[r].id  model == request[r].model
           sync(a) == IF a.id = id THEN [a EXCEPT !.model = model] ELSE a
<1>1. /\ RequestsAreOfRows /\ \A a \in active : a.id \in Listed
      /\ \A u \in Nat \ {0} : SnapshotHeld(u)
      /\ active = {} \/ \E a \in [id : Nat \ {0}, model : Models] : active = {a}
  BY DEF Settled, ActiveIsOne, ActiveIsListed
<1>2. /\ request[r] # NoRequest /\ request' = [request EXCEPT ![r] = NoRequest]
      /\ UNCHANGED <<providers, created, raced>>
  BY DEF SyncActive, WriteActive, NoRequest
<1>3. id \in Nat \ {0} /\ model \in Models
  <2>1. request[r] \in OpenRequest
    BY <1>1, <1>2 DEF RequestsAreOfRows
  <2> QED
    BY <2>1 DEF OpenRequest
<1>4. Listed' = Listed /\ \A u : RowOf(u)' = RowOf(u)
  BY <1>2 DEF Listed, RowOf, Place
<1>5. /\ active' = {} \/ \E a \in [id : Nat \ {0}, model : Models] : active' = {a}
      /\ \A a \in active' : /\ a.id \in Listed
                            /\ a.id # id => a \in active
                            /\ a.id = id => a.model = model
  <2>1. CASE SyncActive(r)
    <3>1. active' = {sync(a) : a \in active}
      BY <2>1 DEF SyncActive
    <3>2. ASSUME NEW a \in [id : Nat \ {0}, model : Models], active = {a}
          PROVE  /\ sync(a) \in [id : Nat \ {0}, model : Models] /\ sync(a).id = a.id
                 /\ a.id # id => sync(a) = a
                 /\ a.id = id => sync(a).model = model
      <4> HIDE DEF id, model
      <4> QED
        BY <1>3
    <3> HIDE DEF sync, id, model
    <3>3. CASE active = {}
      BY <3>1, <3>3
    <3>4. CASE active # {}
      <4>1. PICK a \in [id : Nat \ {0}, model : Models] : active = {a}
        BY <1>1, <3>4
      <4>2. active' = {sync(a)}
        BY <3>1, <4>1
      <4> QED
        BY <1>1, <3>2, <4>1, <4>2
    <3> QED
      BY <3>3, <3>4
  <2>2. CASE WriteActive(r)
    <3> DEFINE new == [id |-> id, model |-> model]
    <3>1. active' = IF id \in Listed THEN {new} ELSE active
      BY <2>2 DEF WriteActive
    <3>2. new \in [id : Nat \ {0}, model : Models] /\ new.id = id /\ new.model = model
      BY <1>3
    <3> HIDE DEF new, id, model
    <3> QED
      BY <1>1, <3>1, <3>2
  <2> QED
    BY <2>1, <2>2
<1>6. RowsInOrder' /\ ActiveIsOne'
  BY <1>2, <1>4, <1>5 DEF Settled, RowsInOrder, Ordered, ActiveIsOne, ActiveIsListed
<1>7. RequestsAreOfRows'
  BY <1>1, <1>2, RequestTypes
<1>8. PICK k \in Nat \ {0} : k = id
  BY <1>3
<1>9. r \in UnderWay(k)
  BY <1>2, <1>8 DEF UnderWay
<1> HIDE DEF id
<1>10. SnapshotHeld(k)'
  <2> SUFFICES ASSUME k \notin raced
               PROVE  /\ UnderWay(k)' = {}
                      /\ \A a \in active' : a.id = k => a.model = RowOf(k).model
    BY <1>2, <1>4 DEF SnapshotHeld
  <2>1. /\ UnderWay(k) \subseteq {r}
        /\ k \in Listed => model = RowOf(k).model
    BY <1>1, <1>9 DEF SnapshotHeld
  <2>2. UnderWay(k)' = {}
    BY <1>1, <1>2, <2>1, OnlyRequest
  <2> QED
    BY <1>5, <1>8, <2>1, <2>2
<1>11. ASSUME NEW u \in Nat \ {0}, u # k PROVE SnapshotHeld(u)'
  <2>1. UnderWay(u)' = UnderWay(u) /\ \A q \in UnderWay(u) : request'[q] = request[q]
    BY <1>1, <1>2, <1>8, <1>11, OtherRequest DEF id
  <2>2. \A a \in active' : a.id = u => a \in active /\ u \in Listed'
    BY <1>4, <1>5, <1>8, <1>11
  <2> QED
    BY <1>1, <1>2, <1>4, <2>1, <2>2, SnapshotKept
<1> QED
  BY <1>6, <1>7, <1>10, <1>11 DEF Settled

-----------------------------------------------------------------------------
(* Agents *)

\* A route tells of all rows, the active one first.
LEMMA RouteIs ==
  ASSUME NEW rows, Ordered(rows), NEW ids
  PROVE  /\ ToSet(Route(rows, ids)) = ToSet(rows)
         /\ \A i \in DOMAIN rows : ids = {rows[i].id} => Route(rows, ids)[1] = rows[i]
<1>1. CASE \A i \in DOMAIN rows : rows[i].id \notin ids
  BY <1>1 DEF Route
<1>2. CASE ~ \A i \in DOMAIN rows : rows[i].id \notin ids
  <2> DEFINE n == Len(rows)  k == CHOOSE i \in DOMAIN rows : rows[i].id \in ids
             rest == RemoveAt(rows, k)  route == <<rows[k]>> \o rest
  <2>1. k \in DOMAIN rows /\ rows[k].id \in ids
    BY <1>2
  <2>2. Route(rows, ids) = route
    BY <1>2 DEF Route
  <2> HIDE DEF k
  <2>3. /\ rows \in Seq(Row) /\ n \in Nat /\ DOMAIN rows = 1..n /\ k \in 1..n
    BY <2>1 DEF Ordered
  <2>4. /\ rest \in Seq(Row) /\ Len(rest) = n - 1
        /\ \A i \in 1..(n - 1) : Skipping(k, i) \in 1..n /\ rest[i] = rows[Skipping(k, i)]
    BY <2>3, RemovedIs
  <2> HIDE DEF n, rest
  <2>5. /\ DOMAIN route = 1..n /\ route[1] = rows[k]
        /\ \A i \in 1..(n - 1) : i + 1 \in 1..n /\ route[i + 1] = rest[i]
    <3>1. rows[k] \in Row
      BY <2>3
    <3> QED
      BY <2>3, <2>4, <3>1
  <2> HIDE DEF route
  <2>6. ASSUME NEW i \in 1..n PROVE \E j \in 1..n : route[i] = rows[j]
    <3>1. CASE i = 1
      BY <2>3, <2>5, <3>1
    <3>2. CASE i # 1
      <4>1. i - 1 \in 1..(n - 1) /\ (i - 1) + 1 = i
        BY <2>3, <3>2
      <4> QED
        BY <2>4, <2>5, <4>1
    <3> QED
      BY <3>1, <3>2
  <2>7. ASSUME NEW j \in 1..n PROVE \E i \in 1..n : route[i] = rows[j]
    <3>1. CASE j = k
      BY <2>3, <2>5, <3>1
    <3>2. CASE j # k
      <4>1. PICK i \in 1..(n - 1) : Skipping(k, i) = j
        BY <2>3, <3>2, SkippingCovers
      <4> QED
        BY <2>4, <2>5, <4>1
    <3> QED
      BY <3>1, <3>2
  <2>8. ToSet(route) = ToSet(rows)
    <3>1. /\ ToSet(route) = {route[i] : i \in 1..n}
          /\ ToSet(rows) = {rows[i] : i \in 1..n}
      BY <2>3, <2>5 DEF ToSet
    <3>2. {route[i] : i \in 1..n} = {rows[i] : i \in 1..n}
      BY <2>6, <2>7
    <3> QED
      BY <3>1, <3>2
  <2>9. ASSUME NEW i \in 1..n, ids = {rows[i].id} PROVE i = k
    <3>1. (CHOOSE j \in DOMAIN rows : rows[j].id = rows[i].id) = i
      BY <2>3, RowFound
    <3>2. (CHOOSE j \in DOMAIN rows : rows[j].id = rows[k].id) = k
      BY <2>3, RowFound
    <3>3. rows[k].id = rows[i].id
      BY <2>1, <2>9
    <3> QED
      BY <3>1, <3>2, <3>3
  <2> QED
    BY <2>2, <2>3, <2>5, <2>8, <2>9
<1> QED
  BY <1>1, <1>2

AgentsKnow == AgentTypes /\ \A s \in Agents : AgentKnows(s)

\* What changes the providers makes every agent's knowledge old.
LEMMA ChangedStep ==
  ASSUME AgentsKnow, Changed, UNCHANGED <<building, routes>>
  PROVE  AgentsKnow'
<1>1. /\ building = [s \in Agents |-> building[s]] /\ routes = [s \in Agents |-> routes[s]]
      /\ unchanged' = [s \in Agents |-> FALSE] /\ building' = building /\ routes' = routes
  BY DEF AgentsKnow, AgentTypes, Changed
<1>2. AgentTypes'
  BY <1>1 DEF AgentTypes
<1>3. \A s \in Agents : ~ unchanged'[s]
  BY <1>1
<1> QED
  BY <1>2, <1>3 DEF AgentsKnow, AgentKnows

LEMMA QuietStep ==
  ASSUME AgentsKnow, UNCHANGED <<providers, active, building, routes, unchanged>>
  PROVE  AgentsKnow'
BY DEF AgentsKnow, AgentTypes, AgentKnows, ActiveIds

\* The agent of s reads the rows, then which is active, and is built from them.
LEMMA BuildStep ==
  ASSUME AgentsKnow, NEW s \in Agents,
         ListForAgent(s) \/ ReadActiveForAgent(s) \/ BuildAgent(s)
  PROVE  AgentsKnow'
<1>1. /\ building = [u \in Agents |-> building[u]] /\ routes = [u \in Agents |-> routes[u]]
      /\ unchanged \in [Agents -> BOOLEAN]
      /\ \A u \in Agents : AgentKnows(u)
      /\ UNCHANGED <<providers, active>>
  BY DEF AgentsKnow, AgentTypes, ListForAgent, ReadActiveForAgent, BuildAgent
<1>2. ActiveIds' = ActiveIds
  BY <1>1 DEF ActiveIds
<1>3. ASSUME NEW b, building' = [building EXCEPT ![s] = b]
      PROVE  /\ building'[s] = b /\ building' = [u \in Agents |-> building'[u]]
             /\ \A u \in Agents \ {s} : building'[u] = building[u]
  BY <1>1, <1>3
<1>4. CASE ListForAgent(s)
  <2> DEFINE b == [at |-> "listed", rows |-> providers]
  <2>1. /\ building' = [building EXCEPT ![s] = b] /\ unchanged' = [unchanged EXCEPT ![s] = TRUE]
        /\ routes' = routes /\ b.at = "listed" /\ b.rows = providers /\ b # NotBuilding
    BY <1>4 DEF ListForAgent, NotBuilding
  <2> HIDE DEF b
  <2>2. /\ building'[s] = b /\ building' = [u \in Agents |-> building'[u]]
        /\ \A u \in Agents \ {s} : building'[u] = building[u]
    BY <1>1, <2>1
  <2>3. /\ unchanged' \in [Agents -> BOOLEAN]
        /\ \A u \in Agents \ {s} : unchanged'[u] = unchanged[u]
    BY <1>1, <2>1
  <2>4. AgentTypes'
    BY <1>1, <2>1, <2>2, <2>3 DEF AgentTypes
  <2>5. AgentKnows(s)'
    BY <1>1, <2>1, <2>2 DEF AgentKnows
  <2>6. \A u \in Agents \ {s} : AgentKnows(u)'
    BY <1>1, <1>2, <2>1, <2>2, <2>3 DEF AgentKnows
  <2> QED
    BY <2>4, <2>5, <2>6 DEF AgentsKnow
<1>5. CASE ReadActiveForAgent(s)
  <2> DEFINE b == [at |-> "read", route |-> Route(building[s].rows, ActiveIds)]
  <2>1. /\ building' = [building EXCEPT ![s] = b] /\ UNCHANGED <<unchanged, routes>>
        /\ building[s].at = "listed"
        /\ b.at = "read" /\ b.route = Route(building[s].rows, ActiveIds) /\ b # NotBuilding
    BY <1>5 DEF ReadActiveForAgent, NotBuilding, ActiveIds
  <2> HIDE DEF b
  <2>2. /\ building'[s] = b /\ building' = [u \in Agents |-> building'[u]]
        /\ \A u \in Agents \ {s} : building'[u] = building[u]
    BY <1>1, <2>1
  <2>3. AgentTypes'
    BY <1>1, <2>1, <2>2 DEF AgentTypes
  <2>4. unchanged[s] => b.route = Route(providers, ActiveIds)
    BY <1>1, <2>1 DEF AgentKnows
  <2>5. AgentKnows(s)'
    BY <1>1, <1>2, <2>1, <2>2, <2>4 DEF AgentKnows
  <2>6. \A u \in Agents \ {s} : AgentKnows(u)'
    BY <1>1, <1>2, <2>1, <2>2 DEF AgentKnows
  <2> QED
    BY <2>3, <2>5, <2>6 DEF AgentsKnow
<1>6. CASE BuildAgent(s)
  <2>1. /\ building' = [building EXCEPT ![s] = NotBuilding] /\ unchanged' = unchanged
        /\ building[s].at = "read" /\ routes' = [routes EXCEPT ![s] = building[s].route]
    BY <1>6 DEF BuildAgent
  <2>2. /\ building'[s] = NotBuilding /\ building' = [u \in Agents |-> building'[u]]
        /\ \A u \in Agents \ {s} : building'[u] = building[u]
    BY <1>1, <2>1
  <2>3. /\ routes'[s] = building[s].route /\ routes' = [u \in Agents |-> routes'[u]]
        /\ \A u \in Agents \ {s} : routes'[u] = routes[u]
    BY <1>1, <2>1
  <2>4. AgentTypes'
    BY <1>1, <2>1, <2>2, <2>3 DEF AgentTypes
  <2>5. AgentKnows(s)'
    BY <1>1, <1>2, <2>1, <2>2, <2>3 DEF AgentKnows, NotBuilding
  <2>6. \A u \in Agents \ {s} : AgentKnows(u)'
    BY <1>1, <1>2, <2>1, <2>2, <2>3 DEF AgentKnows
  <2> QED
    BY <2>4, <2>5, <2>6 DEF AgentsKnow
<1> QED
  BY <1>4, <1>5, <1>6

-----------------------------------------------------------------------------
(* The providers in every state *)

LEMMA ProvidedStart == Init => Settled /\ AgentsKnow
<1> SUFFICES ASSUME Init PROVE Settled /\ AgentsKnow
  OBVIOUS
<1>1. /\ providers = << >> /\ active = {} /\ created = 0 /\ raced = {}
      /\ request = [r \in Requests |-> NoRequest] /\ building = [s \in Agents |-> NotBuilding]
      /\ routes = [s \in Agents |-> << >>] /\ unchanged = [s \in Agents |-> TRUE]
  BY DEF Init, ProvidersInit
<1>2. RowsInOrder
  BY <1>1 DEF RowsInOrder, Ordered, Listed
<1>3. ActiveIsOne /\ RequestsAreOfRows
  BY <1>1 DEF ActiveIsOne, ActiveIsListed, RequestsAreOfRows
<1>4. \A id \in Nat \ {0} : SnapshotHeld(id)
  BY <1>1 DEF SnapshotHeld, UnderWay
<1>5. AgentTypes
  BY <1>1 DEF AgentTypes
<1>6. Route(providers, ActiveIds) = << >>
  BY <1>1 DEF Route
<1>7. \A s \in Agents : AgentKnows(s)
  BY <1>1, <1>6 DEF AgentKnows, NotBuilding
<1> QED
  BY <1>2, <1>3, <1>4, <1>5, <1>7 DEF Settled, AgentsKnow

LEMMA SettledSame ==
  ASSUME Settled, UNCHANGED <<providers, active, created, request, raced>>
  PROVE  Settled'
<1>1. Listed' = Listed /\ \A u : RowOf(u)' = RowOf(u) /\ UnderWay(u)' = UnderWay(u)
  BY DEF Listed, RowOf, Place, UnderWay
<1>2. RowsInOrder' /\ ActiveIsOne' /\ RequestsAreOfRows'
  BY <1>1 DEF Settled, RowsInOrder, Ordered, ActiveIsOne, ActiveIsListed, RequestsAreOfRows
<1>3. \A id \in Nat \ {0} : SnapshotHeld(id)'
  BY <1>1, SnapshotKept DEF Settled, ActiveIsOne, ActiveIsListed
<1> QED
  BY <1>2, <1>3 DEF Settled

LEMMA ProvidedStep == Settled /\ AgentsKnow /\ [Next]_vars => Settled' /\ AgentsKnow'
<1> SUFFICES ASSUME Settled, AgentsKnow, [Next]_vars PROVE Settled' /\ AgentsKnow'
  OBVIOUS
<1>1. ASSUME UNCHANGED providerVars PROVE Settled' /\ AgentsKnow'
  BY <1>1, SettledSame, QuietStep DEF providerVars
<1>2. ASSUME NEW name \in Names, NEW model \in Models, CreateProvider(name, model)
      PROVE  Settled' /\ AgentsKnow'
  <2>1. AddProvider(name, model)
    BY <1>2 DEF CreateProvider
  <2> QED
    BY <2>1, AddStep, ChangedStep DEF AddProvider
<1>3. ASSUME NEW id \in Listed, DeleteProvider(id) PROVE Settled' /\ AgentsKnow'
  <2>1. RemoveProvider(id)
    BY <1>3 DEF DeleteProvider
  <2> QED
    BY <2>1, RemoveStep, ChangedStep DEF RemoveProvider
<1>4. ASSUME NEW r \in Requests, NEW id \in Listed, NEW name \in Names, NEW model \in Models,
             ChangeProvider(r, id, name, model)
      PROVE  Settled' /\ AgentsKnow'
  <2>1. UpdateProvider(r, id, name, model)
    BY <1>4 DEF ChangeProvider
  <2> QED
    BY <2>1, UpdateStep, ChangedStep DEF UpdateProvider
<1>5. ASSUME NEW r \in Requests, NEW id \in Listed, ReadForActive(r, id)
      PROVE  Settled' /\ AgentsKnow'
  BY <1>5, ReadStep, QuietStep DEF ReadForActive
<1>6. ASSUME NEW r \in Requests, SyncActive(r) \/ WriteActive(r) PROVE Settled' /\ AgentsKnow'
  BY <1>6, EndRequestStep, ChangedStep DEF SyncActive, WriteActive
<1>7. ASSUME NEW s \in Agents, ListForAgent(s) \/ ReadActiveForAgent(s) \/ BuildAgent(s)
      PROVE  Settled' /\ AgentsKnow'
  BY <1>7, SettledSame, BuildStep DEF ListForAgent, ReadActiveForAgent, BuildAgent
<1>8. CASE ProviderEdit
  BY <1>2, <1>3, <1>4, <1>5, <1>7, <1>8 DEF ProviderEdit
<1>9. CASE ProviderStep
  BY <1>6, <1>7, <1>9 DEF ProviderStep
<1>10. ASSUME NEW s \in Sessions, ClearSession(s) PROVE Settled' /\ AgentsKnow'
  BY <1>7, <1>10, SettingsAssumption DEF ClearSession
<1> QED
  BY <1>1, <1>8, <1>9, <1>10 DEF Next, vars

-----------------------------------------------------------------------------
(* Bounds and types *)

Bounded ==
  /\ Len(drafts) <= MaxDrafts
  /\ snapshot.version <= MaxVersion
  /\ \A s \in Sessions : turns[s].at \in {"idle", "running", "holding", "decided"}

LEMMA BoundedStart == Init => Bounded
BY DEF Init, PolicyInit, Bounded, FirstSnapshot, NoTurn

LEMMA BoundedSame ==
  ASSUME Bounded, UNCHANGED <<snapshot, turns>>, Len(drafts') <= MaxDrafts
  PROVE  Bounded'
BY DEF Bounded

LEMMA BoundedTurn ==
  ASSUME Governed, Bounded, NEW s \in Sessions,
         \/ TurnBegins(s) \/ DecideCall(s) \/ CallEnds(s) \/ TurnEnds(s)
         \/ \E input \in Inputs : TakeHandle(s, input)
  PROVE  Bounded'
<1>1. turns = [u \in Sessions |-> turns[u]]
  BY DEF Governed, SettingsTypes
<1>2. /\ UNCHANGED <<drafts, snapshot>>
      /\ turns'[s].at \in {"idle", "running", "holding", "decided"}
      /\ \A u \in Sessions \ {s} : turns'[u] = turns[u]
  BY <1>1 DEF TurnBegins, TakeHandle, DecideCall, CallEnds, TurnEnds, NoTurn
<1> QED
  BY <1>2 DEF Bounded

LEMMA BoundedSwap ==
  ASSUME Bounded, NEW next, Swap(next), snapshot.version \in Nat,
         next.version = snapshot.version + 1, UNCHANGED <<drafts, turns>>
  PROVE  Bounded'
BY PolicyAssumption DEF Bounded, Swap

LEMMA BoundedStep == Governed /\ Bounded /\ [Next]_vars => Bounded'
<1> SUFFICES ASSUME Governed, Bounded, [Next]_vars PROVE Bounded'
  OBVIOUS
<1>1. /\ drafts \in Seq(RuleBook) /\ Len(drafts) \in Nat /\ Len(drafts) <= MaxDrafts
      /\ snapshot \in LawfulSnapshots /\ snapshot.version \in Nat
  BY DEF Governed, DraftsAreNamed, HistoryIsNumbered, LawfulSnapshots, Bounded
<1>2. CASE UNCHANGED policyVars
  BY <1>1, <1>2, BoundedSame DEF policyVars
<1>3. ASSUME NEW r \in RuleBook, CreateRule(r) \/ UpdateRule(r) PROVE Bounded'
  <2>1. UNCHANGED <<snapshot, turns>>
    BY <1>3 DEF CreateRule, UpdateRule
  <2>2. Len(drafts') <= MaxDrafts
    <3>1. CASE CreateRule(r)
      BY <1>1, <3>1, PolicyAssumption DEF CreateRule
    <3>2. CASE UpdateRule(r)
      <4>1. Len(drafts') = Len(drafts)
        BY <1>1, <3>2 DEF UpdateRule
      <4> QED
        BY <1>1, <4>1
    <3> QED
      BY <1>3, <3>1, <3>2
  <2> QED
    BY <2>1, <2>2, BoundedSame
<1>4. ASSUME NEW i \in DOMAIN drafts, DeleteRule(i) PROVE Bounded'
  <2>1. UNCHANGED <<snapshot, turns>> /\ drafts' = RemoveAt(drafts, i)
    BY <1>4 DEF DeleteRule, RemoveAt
  <2>2. Len(drafts') = Len(drafts) - 1
    BY <1>1, <2>1, RemovedIs
  <2> QED
    BY <1>1, <2>1, <2>2, BoundedSame, PolicyAssumption
<1>5. CASE Publish
  <2> DEFINE store == Store("ask", drafts)  number == snapshot.version + 1
             next == [snapshot EXCEPT !.version = number, !.store = store]
  <2>1. Swap(next) /\ UNCHANGED <<drafts, turns>>
    BY <1>5 DEF Publish
  <2>2. next.version = snapshot.version + 1
    <3> HIDE DEF store
    <3> QED
      BY <1>1 DEF LawfulSnapshots
  <2> HIDE DEF next
  <2> QED
    BY <1>1, <2>1, <2>2, BoundedSwap
<1>6. ASSUME NEW c \in Clients, NEW s \in Sessions, NEW rules \in Overlays \union {NoOverlay},
             StartOverlay(c, s, rules)
      PROVE  Bounded'
  <2>1. Swap(WithOverlay(snapshot, s, rules)) /\ UNCHANGED <<drafts, turns>>
    BY <1>6 DEF StartOverlay
  <2>2. WithOverlay(snapshot, s, rules).version = snapshot.version + 1
    BY <1>1, WithOverlayIs DEF OverlayRules
  <2> QED
    BY <1>1, <2>1, <2>2, BoundedSwap
<1>7. ASSUME NEW s \in Sessions, NEW level \in {"allow", "ask", "deny"}, SetLevel(s, level)
      PROVE  Bounded'
  BY <1>1, <1>7, BoundedSame DEF SetLevel
<1>8. CASE PolicyEdit
  BY <1>3, <1>4, <1>5, <1>6, <1>7, <1>8 DEF PolicyEdit
<1>9. ASSUME NEW c \in Clients, FinishOverlay(c) PROVE Bounded'
  BY <1>1, <1>9, BoundedSame DEF FinishOverlay
<1>10. CASE PolicyStep
  BY <1>9, <1>10, BoundedTurn DEF PolicyStep
<1>11. ASSUME NEW s \in Sessions, ClearSession(s) PROVE Bounded'
  BY <1>1, <1>11, BoundedSame DEF ClearSession, ForgetPolicy
<1> QED
  BY <1>2, <1>8, <1>10, <1>11 DEF Next, vars

LEMMA TypesAlways == Governed /\ Bounded /\ Settled => TypeOK
<1> SUFFICES ASSUME Governed, Bounded, Settled PROVE TypeOK
  OBVIOUS
<1>1. /\ drafts \in Seq(RuleBook) /\ Len(drafts) <= MaxDrafts
      /\ levels \in [Sessions -> {"none", "allow", "ask", "deny"}]
      /\ copies \in [Sessions -> Overlays \union {NoOverlay}]
      /\ \A s \in Sessions : turns[s].at \in {"idle", "running", "holding", "decided"}
      /\ snapshot = history[snapshot.version]
  BY DEF Governed, DraftsAreNamed, SettingsTypes, OverlayRules, HistoryIsNumbered, Bounded
<1>2. history \in [1 .. snapshot.version -> SnapshotType]
  <2>1. /\ history \in [1 .. snapshot.version -> LawfulSnapshots]
        /\ snapshot.version \in Nat /\ snapshot.version <= MaxVersion
        /\ \A v \in 1 .. snapshot.version : history[v].version = v
    BY DEF Governed, HistoryIsNumbered, LawfulSnapshots, Bounded
  <2>2. ASSUME NEW v \in 1 .. snapshot.version PROVE history[v] \in SnapshotType
    <3> PICK snap \in LawfulSnapshots : snap = history[v]
      BY <2>1
    <3>1. snap.version \in 1 .. MaxVersion
      BY <2>1, PolicyAssumption
    <3>2. OverlayRules \subseteq Seq(RuleType)
      <4>1. NoOverlay \in Seq(RuleType)
        BY DEF NoOverlay
      <4>2. Overlays \subseteq Seq(RuleType)
        BY SettingsAssumption
      <4> QED
        BY <4>1, <4>2 DEF OverlayRules
    <3>3. snap.overlays \in [Sessions -> Seq(RuleType)]
      BY <3>2 DEF LawfulSnapshots
    <3>4. /\ snap.store \in [default : Kinds, rules : Seq(RuleType)]
          /\ snap = [version |-> snap.version, store |-> snap.store, overlays |-> snap.overlays]
      BY DEF LawfulSnapshots, LawfulStores
    <3> QED
      BY <3>1, <3>3, <3>4 DEF SnapshotType
  <2> QED
    BY <2>1, <2>2
<1>3. /\ \A i, j \in DOMAIN providers : i < j => providers[i].id > providers[j].id
      /\ \A i, j \in DOMAIN providers : providers[i].name = providers[j].name => i = j
  BY DEF Settled, RowsInOrder, Ordered
<1>4. Cardinality(active) <= 1
  <2>1. CASE active = {}
    <3>1. Cardinality(active) = 0
      BY <2>1, FS_EmptySet
    <3> QED
      BY <3>1
  <2>2. CASE \E a \in active : active = {a}
    <3> PICK a \in active : active = {a}
      BY <2>2
    <3>1. Cardinality(active) = 1
      BY FS_Singleton
    <3> QED
      BY <3>1
  <2> QED
    BY <2>1, <2>2 DEF Settled, ActiveIsOne
<1> QED
  BY <1>1, <1>2, <1>3, <1>4 DEF TypeOK

-----------------------------------------------------------------------------

LEMMA SettledAgrees == Governed /\ Bounded /\ Settled /\ AgentsKnow => ProvidersAgree
<1> SUFFICES ASSUME Governed, Bounded, Settled, AgentsKnow PROVE ProvidersAgree
  OBVIOUS
<1>1. TypeOK /\ ActiveIsListed
  BY TypesAlways DEF Settled, ActiveIsOne
<1>2. SnapshotFollowsProvider
  <2> SUFFICES ASSUME NEW a \in active, a.id \notin raced, UnderWay(a.id) = {}
               PROVE  a.model = RowOf(a.id).model
    BY DEF SnapshotFollowsProvider
  <2>1. a.id \in Nat \ {0}
    BY <1>1, ListedIs DEF ActiveIsListed, Settled
  <2> QED
    BY <2>1 DEF Settled, SnapshotHeld
<1>3. AgentsKnowTheProviders
  <2> SUFFICES ASSUME NEW s \in Agents, unchanged[s], building[s] = NotBuilding,
                      Len(providers) > 0
               PROVE  /\ ToSet(routes[s]) = ToSet(providers)
                      /\ \A a \in active : routes[s][1] = RowOf(a.id)
    BY DEF AgentsKnowTheProviders
  <2>1. routes[s] = Route(providers, ActiveIds) /\ Ordered(providers)
    BY DEF AgentsKnow, AgentKnows, Settled, RowsInOrder
  <2>2. ASSUME NEW a \in active PROVE routes[s][1] = RowOf(a.id)
    <3>1. ActiveIds = {a.id}
      BY <2>2 DEF Settled, ActiveIsOne, ActiveIds
    <3>2. Place(a.id) \in DOMAIN providers /\ providers[Place(a.id)].id = a.id
      BY <1>1, <2>2, ListedIs DEF ActiveIsListed, Settled
    <3> QED
      BY <2>1, <3>1, <3>2, RouteIs DEF RowOf
  <2> QED
    BY <2>1, <2>2, RouteIs
<1> QED
  BY <1>1, <1>2, <1>3 DEF ProvidersAgree

\* The active provider is listed, its snapshot names the model of its row once the requests
\* for it are over and did not overlap, and agents know the providers as they were read
\* (openjax-store/src/sqlite.rs, provider_store.rs).
THEOREM ProvidersStayOfOnePiece == Spec => []ProvidersAgree
<1>1. Init => Settled /\ AgentsKnow /\ Bounded
  BY ProvidedStart, BoundedStart
<1>2. Governed /\ (Settled /\ AgentsKnow /\ Bounded) /\ [Next]_vars
        => (Settled /\ AgentsKnow /\ Bounded)'
  BY ProvidedStep, BoundedStep
<1>3. Governed /\ (Settled /\ AgentsKnow /\ Bounded) => ProvidersAgree
  BY SettledAgrees
<1> QED
  BY <1>1, <1>2, <1>3, GovernedAlways, PTL DEF Spec

=============================================================================
