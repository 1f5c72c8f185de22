---------------------------- MODULE TurnSettings ----------------------------
(***************************************************************************)
(* What governs the turns of the gateway's sessions beside their input:    *)
(* the policy their calls are judged by and the providers their agents     *)
(* plan with, edited by clients while turns run.  Clearing a session gives *)
(* it a new agent and forgets its own part of the policy in one step,      *)
(* after the providers were read without the session's lock.               *)
(***************************************************************************)
EXTENDS PolicyCenter, ModelProviders

CONSTANTS
  Overlays,   \* the overlays that clients submit, sequences of rules
  MaxEdits    \* bound: requests of clients

ASSUME SettingsAssumption ==
  /\ Agents = Sessions
  /\ Overlays \subseteq Seq(RuleType) \ {NoOverlay}
  /\ MaxEdits \in Nat

VARIABLES edits

vars == <<policyVars, providerVars, edits>>

Init == PolicyInit /\ ProvidersInit /\ edits = 0

Edit == edits < MaxEdits /\ edits' = edits + 1

\* A session is cleared: a new agent, no overlay of its own, no level of its own.
ClearSession(s) == BuildAgent(s) /\ ForgetPolicy(s)

PolicyEdit ==
  \/ \E r \in RuleBook : CreateRule(r) \/ UpdateRule(r)
  \/ \E i \in DOMAIN drafts : DeleteRule(i)
  \/ Publish
  \/ \E c \in Clients, s \in Sessions, rules \in Overlays \union {NoOverlay} :
       StartOverlay(c, s, rules)
  \/ \E s \in Sessions, level \in {"allow", "ask", "deny"} : SetLevel(s, level)

PolicyStep ==
  \/ \E c \in Clients : FinishOverlay(c)
  \/ \E s \in Sessions : TurnBegins(s) \/ DecideCall(s) \/ CallEnds(s) \/ TurnEnds(s)
  \/ \E s \in Sessions, input \in Inputs : TakeHandle(s, input)

ProviderEdit ==
  \/ \E name \in Names, model \in Models : CreateProvider(name, model)
  \/ \E id \in Listed : DeleteProvider(id)
  \/ \E r \in Requests, id \in Listed, name \in Names, model \in Models :
       ChangeProvider(r, id, name, model)
  \/ \E r \in Requests, id \in Listed : ReadForActive(r, id)
  \/ \E s \in Agents : ListForAgent(s)

ProviderStep ==
  \/ \E r \in Requests : SyncActive(r) \/ WriteActive(r)
  \/ \E s \in Agents : ReadActiveForAgent(s)

Next ==
  \/ PolicyEdit /\ Edit /\ UNCHANGED providerVars
  \/ PolicyStep /\ UNCHANGED <<providerVars, edits>>
  \/ ProviderEdit /\ Edit /\ UNCHANGED policyVars
  \/ ProviderStep /\ UNCHANGED <<policyVars, edits>>
  \/ \E s \in Sessions : ClearSession(s) /\ UNCHANGED edits

Spec == Init /\ [][Next]_vars

-----------------------------------------------------------------------------
(* Properties *)

SnapshotType ==
  [version : 1 .. MaxVersion, store : [default : Kinds, rules : Seq(RuleType)],
   overlays : [Sessions -> Seq(RuleType)]]

\* Drafts, snapshots and providers keep their shapes; the current snapshot is the last one
\* of the history and is numbered by how many there were.
TypeOK ==
  /\ drafts \in Seq(RuleBook) /\ Len(drafts) <= MaxDrafts
  /\ history \in [1 .. snapshot.version -> SnapshotType]
  /\ snapshot = history[snapshot.version]
  /\ levels \in [Sessions -> {"none", "allow", "ask", "deny"}]
  /\ copies \in [Sessions -> Overlays \union {NoOverlay}]
  /\ \A s \in Sessions : turns[s].at \in {"idle", "running", "holding", "decided"}
  /\ \A i, j \in DOMAIN providers : i < j => providers[i].id > providers[j].id
  /\ Cardinality(active) <= 1
  /\ \A i, j \in DOMAIN providers : providers[i].name = providers[j].name => i = j

\* What a call is allowed is decided by the rules of one version, whatever their order, and a
\* destructive call is never let through in silence (engine.rs, store.rs, runtime.rs).
DecisionsAreLawful == DecisionsFollowTheirVersion /\ OrderIndependent /\ DestructiveEscalates

\* The providers, the active one with its snapshot and what the agents were built from are of
\* one piece (sqlite.rs, provider_store.rs).
ProvidersAgree ==
  TypeOK /\ ActiveIsListed /\ SnapshotFollowsProvider /\ AgentsKnowTheProviders
=============================================================================
