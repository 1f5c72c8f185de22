---------------------------- MODULE PolicyCenter ----------------------------
(***************************************************************************)
(* The policy center of the gateway: rules that say of a tool call whether *)
(* it is allowed, asked for, escalated or denied.                          *)
(*                                                                         *)
(* Rules are edited as drafts and take effect when they are published.     *)
(* The runtime holds one snapshot, the published rules and the overlays of *)
(* the sessions, which is replaced as a whole and numbered; a decision is  *)
(* made on the snapshot its handle took, carries its number to the         *)
(* approval, and may be waited on while others are published.  A session   *)
(* whose user chose a level does not use that runtime: each of its turns   *)
(* builds one of its own from the level and the session's copy of its      *)
(* overlay.                                                                *)
(*                                                                         *)
(* What a rule asks of a call is abstracted to the set of inputs it        *)
(* matches and the number of things it asks for.                           *)
(***************************************************************************)
EXTENDS Naturals, Sequences, FiniteSets

CONSTANTS
  Sessions,
  Clients,      \* concurrent requests that set or clear an overlay
  Inputs,       \* calls as the policy sees them
  Destructive,  \* the inputs that carry the tag "destructive"
  RuleBook,     \* the rules that clients submit
  MaxDrafts,    \* bound: drafts at a time
  MaxVersion    \* bound: snapshots of the runtime

Kinds == {"allow", "ask", "escalate", "deny"}

RuleType == [id : Nat, decision : Kinds, priority : Nat, specificity : Nat, matches : SUBSET Inputs]

\* The built-in rule: its name stands among the clients' names in their order.
SystemId == 5
SystemPriority == 1000

ASSUME PolicyAssumption ==
  /\ Destructive \subseteq Inputs
  /\ RuleBook \subseteq {r \in RuleType : r.id # SystemId}
  /\ MaxDrafts \in Nat /\ MaxVersion \in Nat \ {0}

VARIABLES
  drafts,     \* draft_rules
  snapshot,   \* the current snapshot of the shared runtime
  history,    \* every snapshot there was, by its number
  copies,     \* policy_overlay_rules of each session
  levels,     \* policy_level_override of each session
  writing,    \* the overlay requests between the runtime's update and the session's
  turns,      \* the turn of each session, its runtime, handle and last decision
  mixed       \* ghost: sessions whose last overlay request overlapped another or was cleared

policyVars == <<drafts, snapshot, history, copies, levels, writing, turns, mixed>>

-----------------------------------------------------------------------------
(* Decisions *)

Rank == [allow |-> 0, ask |-> 1, escalate |-> 2, deny |-> 3]

\* compare_rule_precedence: a does not go before b.
Precedes(a, b) ==
  \/ a.priority < b.priority
  \/ /\ a.priority = b.priority
     /\ \/ a.specificity < b.specificity
        \/ /\ a.specificity = b.specificity
           /\ \/ Rank[a.decision] < Rank[b.decision]
              \/ a.decision = b.decision /\ b.id <= a.id

Matching(input, rules) == {i \in DOMAIN rules : input \in rules[i].matches}

\* max_by: of several greatest, the last.
Selected(input, rules) ==
  CHOOSE i \in Matching(input, rules) :
    \A j \in Matching(input, rules) :
      /\ Precedes(rules[j], rules[i])
      /\ j > i => ~Precedes(rules[i], rules[j])

\* The kind of the decision and the name of the rule it comes from, if any.
Decide(input, rules, default) ==
  IF Matching(input, rules) = {} THEN [kind |-> default, rule |-> {}]
  ELSE LET r == rules[Selected(input, rules)] IN [kind |-> r.decision, rule |-> {r.id}]


SystemRule ==
  [id |-> SystemId, decision |-> "escalate", priority |-> SystemPriority,
   specificity |-> 1, matches |-> Destructive]

\* A store is its default and its rules, the built-in one last.
Store(default, rules) == [default |-> default, rules |-> Append(rules, SystemRule)]

NoOverlay == << >>

FirstSnapshot(store) ==
  [version |-> 1, store |-> store, overlays |-> [s \in Sessions |-> NoOverlay]]

\* A session's overlay decides when one of its rules matches, whatever the store says.
DecideFor(s, input, snap) ==
  LET own == Decide(input, snap.overlays[s], snap.store.default) IN
  IF own.rule # {} THEN own ELSE Decide(input, snap.store.rules, snap.store.default)

-----------------------------------------------------------------------------
(* The shared runtime *)

\* Variant: an overlay does not count as a change of the policy.
WithOverlayUncounted(snap, s, rules) == [snap EXCEPT !.overlays[s] = rules]

\* The next snapshot with another overlay of one session.
WithOverlay(snap, s, rules) ==
  [snap EXCEPT !.version = @ + 1, !.overlays = [@ EXCEPT ![s] = rules]]

Swap(next) ==
  /\ snapshot.version < MaxVersion
  /\ snapshot' = next
  /\ history'  = [v \in DOMAIN history \union {next.version} |->
                    IF v = next.version THEN next ELSE history[v]]

NoTurn == [at |-> "idle"]
NoWrite == [at |-> "none"]

PolicyInit ==
  /\ drafts   = << >>
  /\ snapshot = FirstSnapshot(Store("ask", << >>))
  /\ history  = [v \in {1} |-> snapshot]
  /\ copies   = [s \in Sessions |-> NoOverlay]
  /\ levels   = [s \in Sessions |-> "none"]
  /\ writing  = [c \in Clients |-> NoWrite]
  /\ turns    = [s \in Sessions |-> NoTurn]
  /\ mixed    = {}

DraftIds == {drafts[i].id : i \in DOMAIN drafts}

\* A rule whose name is taken is a conflict.
CreateRule(r) ==
  /\ Len(drafts) < MaxDrafts
  /\ r.id \notin DraftIds
  /\ drafts' = Append(drafts, r)
  /\ UNCHANGED <<snapshot, history, copies, levels, writing, turns, mixed>>

UpdateRule(r) ==
  /\ r.id \in DraftIds
  /\ drafts' = [i \in DOMAIN drafts |-> IF drafts[i].id = r.id THEN r ELSE drafts[i]]
  /\ UNCHANGED <<snapshot, history, copies, levels, writing, turns, mixed>>

DeleteRule(i) ==
  /\ drafts' = SubSeq(drafts, 1, i - 1) \o SubSeq(drafts, i + 1, Len(drafts))
  /\ UNCHANGED <<snapshot, history, copies, levels, writing, turns, mixed>>

\* The policy state stays locked from reading the drafts to the new snapshot.
Publish ==
  /\ Swap([snapshot EXCEPT !.version = @ + 1, !.store = Store("ask", drafts)])
  /\ UNCHANGED <<drafts, copies, levels, writing, turns, mixed>>

Copying(s) == \E c \in Clients : writing[c] # NoWrite /\ writing[c].s = s

\* An overlay is set, or cleared by NoOverlay, in the runtime first.
StartOverlay(c, s, rules) ==
  /\ writing[c] = NoWrite
  /\ mixed' = IF Copying(s) THEN mixed \union {s} ELSE mixed \ {s}
  /\ Swap(WithOverlay(snapshot, s, rules))
  /\ writing' = [writing EXCEPT ![c] = [at |-> "copying", s |-> s, rules |-> rules]]
  /\ UNCHANGED <<drafts, copies, levels, turns>>

\* Variant: only the runtime is told.
FinishOverlayNot(c) ==
  /\ writing[c] # NoWrite
  /\ writing' = [writing EXCEPT ![c] = NoWrite]
  /\ UNCHANGED <<drafts, snapshot, history, copies, levels, turns, mixed>>

\* ... and in the session when its lock is free.
FinishOverlay(c) ==
  /\ writing[c] # NoWrite
  /\ copies'  = [copies EXCEPT ![writing[c].s] = writing[c].rules]
  /\ writing' = [writing EXCEPT ![c] = NoWrite]
  /\ UNCHANGED <<drafts, snapshot, history, levels, turns, mixed>>

-----------------------------------------------------------------------------
(* Sessions and their turns *)

SetLevel(s, level) ==
  /\ levels' = [levels EXCEPT ![s] = level]
  /\ UNCHANGED <<drafts, snapshot, history, copies, writing, turns, mixed>>

\* Clearing a session forgets its copy and its level; the shared runtime keeps the overlay.
ForgetPolicy(s) ==
  /\ copies' = [copies EXCEPT ![s] = NoOverlay]
  /\ levels' = [levels EXCEPT ![s] = "none"]
  /\ mixed' = mixed \union {s}
  /\ UNCHANGED <<drafts, snapshot, history, writing, turns>>

OwnRuntime(s) ==
  LET fresh == FirstSnapshot(Store(levels[s], << >>)) IN
  IF copies[s] = NoOverlay THEN fresh ELSE WithOverlay(fresh, s, copies[s])

\* The runtime of a turn: the shared one, looked up at every call, or one of its own.
Shared == [version |-> 0]

TurnBegins(s) ==
  /\ turns[s] = NoTurn
  /\ turns' = [turns EXCEPT ![s] =
                 [at |-> "running",
                  runtime |-> IF levels[s] = "none" THEN Shared ELSE OwnRuntime(s)]]
  /\ UNCHANGED <<drafts, snapshot, history, copies, levels, writing, mixed>>

TakeHandle(s, input) ==
  /\ turns[s].at = "running"
  /\ turns' = [turns EXCEPT ![s] =
                 [at |-> "holding", runtime |-> turns[s].runtime, input |-> input,
                  handle |-> IF turns[s].runtime = Shared THEN snapshot ELSE turns[s].runtime]]
  /\ UNCHANGED <<drafts, snapshot, history, copies, levels, writing, mixed>>

\* The decision and the version it is reported with, which an approval shows while it waits.
DecideCall(s) ==
  LET t == turns[s] IN
  /\ t.at = "holding"
  /\ turns' = [turns EXCEPT ![s] =
                 [at |-> "decided", runtime |-> t.runtime, input |-> t.input,
                  version |-> t.handle.version,
                  decision |-> DecideFor(s, t.input, t.handle)]]
  /\ UNCHANGED <<drafts, snapshot, history, copies, levels, writing, mixed>>

CallEnds(s) ==
  /\ turns[s].at = "decided"
  /\ turns' = [turns EXCEPT ![s] = [at |-> "running", runtime |-> turns[s].runtime]]
  /\ UNCHANGED <<drafts, snapshot, history, copies, levels, writing, mixed>>

TurnEnds(s) ==
  /\ turns[s].at \in {"running", "decided"}
  /\ turns' = [turns EXCEPT ![s] = NoTurn]
  /\ UNCHANGED <<drafts, snapshot, history, copies, levels, writing, mixed>>

-----------------------------------------------------------------------------
(* Properties *)

\* The snapshot a decided call of session s was judged by, going by the number it reports.
JudgedBy(s) ==
  IF turns[s].runtime = Shared THEN history[turns[s].version] ELSE turns[s].runtime

\* The version shown with a decision identifies the policy that made it: judging the call
\* again by the snapshot of that number gives the same decision and the same rule, however
\* many publications and overlays happened while the decision was made and waited on.
DecisionsFollowTheirVersion ==
  \A s \in Sessions : turns[s].at = "decided" =>
    turns[s].decision = DecideFor(s, turns[s].input, JudgedBy(s))

Permuted(rules) ==
  {[i \in DOMAIN rules |-> rules[p[i]]] :
     p \in {q \in [DOMAIN rules -> DOMAIN rules] :
              Cardinality({q[i] : i \in DOMAIN rules}) = Len(rules)}}

\* The decision does not depend on the order in which the rules were written
\* (openjax-policy/README.md:148), the order of the list that compare_rule_precedence sees.
OrderIndependent ==
  \A input \in Inputs : \A rules \in Permuted(snapshot.store.rules) :
    Decide(input, rules, snapshot.store.default)
      = Decide(input, snapshot.store.rules, snapshot.store.default)

\* A destructive call that no rule of the session's overlay speaks of is escalated, whatever
\* level the session has chosen and whatever was published, as long as no published rule
\* claims the priority of the built-in one: the comment on it in PolicyStore::new.
DestructiveEscalates ==
  \A s \in Sessions :
    (turns[s].at = "decided" /\ turns[s].input \in Destructive) =>
      LET snap == JudgedBy(s)
          rules == snap.store.rules
      IN (/\ Matching(turns[s].input, snap.overlays[s]) = {}
          /\ \A i \in DOMAIN rules : rules[i].id # SystemId => rules[i].priority < SystemPriority)
         => turns[s].decision.kind = "escalate"

\* The overlay of a session is the same in the shared runtime, for turns without a level,
\* and in the session, for turns with one, once its requests are over; only requests that
\* overlap, or a clear, which the shared runtime is not told of, can set them apart.
OverlayIsOne ==
  \A s \in Sessions : (s \notin mixed /\ ~Copying(s)) => copies[s] = snapshot.overlays[s]
=============================================================================
