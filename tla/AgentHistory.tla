---------------------------- MODULE AgentHistory ----------------------------
(***************************************************************************)
(* What the agent remembers of the session (openjax-core/src/agent:        *)
(* state.rs, context_compressor.rs): the committed turns, the oldest of    *)
(* which may have been replaced by one summary.                            *)
(***************************************************************************)
EXTENDS Naturals, Sequences, FiniteSets

CONSTANTS
  MaxHistoryTurns,  \* MAX_CONVERSATION_HISTORY_TURNS, 100
  CompactAbove,     \* a history of this many turns is not compressed, 4
  KeptTurns         \* the turns that stay as they are, 3

ASSUME HistoryAssumption ==
  /\ {MaxHistoryTurns, CompactAbove} \subseteq Nat /\ KeptTurns \in Nat \ {0}
  /\ KeptTurns <= CompactAbove /\ CompactAbove <= MaxHistoryTurns

\* HistoryItem; "of" are the turns the item tells of.
TurnItem(n)     == [kind |-> "Turn", of |-> {n}]
SummaryItem(ns) == [kind |-> "Summary", of |-> ns]

IsTurn(item)     == item.kind = "Turn"
TurnIndices(h)   == {i \in DOMAIN h : IsTurn(h[i])}
ToldBy(h)        == UNION {h[i].of : i \in DOMAIN h}
TurnsAfter(h, i) == {j \in TurnIndices(h) : j > i}

\* The items of h but those at these indices, in order (Vec::retain).
Without(h, dropped) ==
  LET kept == DOMAIN h \ dropped
      Nth(n) == CHOOSE i \in kept : Cardinality({j \in kept : j < i}) = n - 1
  IN  [n \in 1..Cardinality(kept) |-> h[Nth(n)]]

\* commit_turn: the new turn, and the oldest turns beyond the quota dropped; summaries
\* do not count.
CommitTurn(h, n) ==
  LET g == Append(h, TurnItem(n))
  IN  Without(g, {i \in TurnIndices(g) : Cardinality(TurnsAfter(g, i)) >= MaxHistoryTurns})

\* split_for_compression: the turn at which the part that stays begins.
Compressible(h) == Cardinality(TurnIndices(h)) > CompactAbove
Cutoff(h) == CHOOSE i \in TurnIndices(h) : Cardinality(TurnsAfter(h, i)) = KeptTurns - 1

\* Variant: an earlier summary is left out of the new one.
CompactedTurnsOnly(h) ==
  <<SummaryItem(UNION {h[i].of : i \in TurnIndices(h) \cap 1..(Cutoff(h) - 1)})>>
    \o SubSeq(h, Cutoff(h), Len(h))

\* do_compact when the model has written the summary.
Compacted(h) ==
  <<SummaryItem(ToldBy(SubSeq(h, 1, Cutoff(h) - 1)))>> \o SubSeq(h, Cutoff(h), Len(h))

\* do_compact: the histories it can leave, when the model may fail.
AfterCompact(h) == {h} \cup (IF Compressible(h) THEN {Compacted(h)} ELSE {})
=============================================================================
