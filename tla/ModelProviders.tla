--------------------------- MODULE ModelProviders ---------------------------
(***************************************************************************)
(* The model providers of the gateway: the rows of llm_providers, the      *)
(* active one with its snapshot of the model's name, and the route of each *)
(* session's agent.                                                        *)
(*                                                                         *)
(* Every statement holds the connection alone, but activating a provider,  *)
(* updating one and reading the configuration for an agent are two         *)
(* statements each, between which other requests run.  An agent keeps the  *)
(* route it was built with until its session is cleared.                   *)
(***************************************************************************)
EXTENDS Naturals, Sequences, FiniteSets, SequencesExt

CONSTANTS
  Agents,        \* sessions, whose agents have a route
  Requests,      \* concurrent requests that activate or update a provider
  Names, Models,
  Blank,         \* a field that is empty once trimmed
  MaxProviders   \* bound: providers ever created

ASSUME ProvidersAssumption == MaxProviders \in Nat \ {0}

VARIABLES
  providers,   \* the rows, newest first: id, name, model
  active,      \* the row active_provider: {} or one record of id and model
  created,     \* providers created so far
  request,     \* a two-statement request between its statements
  building,    \* the configuration read so far for an agent
  routes,      \* the route of each agent: the rows it was built with, the planner's first
  raced,       \* ghost: providers updated while an activation or another update was under way
  unchanged    \* ghost: agents since the start of whose reading nothing was changed

providerVars == <<providers, active, created, request, building, routes, raced, unchanged>>

NoRequest == [at |-> "none"]
NotBuilding == [at |-> "none"]

Listed == {providers[i].id : i \in DOMAIN providers}
Place(id) == CHOOSE i \in DOMAIN providers : providers[i].id = id
RowOf(id) == providers[Place(id)]
TakenNames(id) == {p.name : p \in {q \in ToSet(providers) : q.id # id}}

ProvidersInit ==
  /\ providers = << >>
  /\ active    = {}
  /\ created   = 0
  /\ request   = [r \in Requests |-> NoRequest]
  /\ building  = [s \in Agents |-> NotBuilding]
  /\ routes    = [s \in Agents |-> << >>]
  /\ raced     = {}
  /\ unchanged = [s \in Agents |-> TRUE]

Changed == unchanged' = [s \in Agents |-> FALSE]

-----------------------------------------------------------------------------
(* Rows *)

\* A name that is taken fails the UNIQUE constraint.
AddProvider(name, model) ==
  /\ created < MaxProviders
  /\ name \notin TakenNames(0)
  /\ created' = created + 1
  /\ providers' = <<[id |-> created', name |-> name, model |-> model]>> \o providers
  /\ Changed
  /\ UNCHANGED <<active, request, building, routes, raced>>

Without(id) == RemoveAt(providers, Place(id))

\* Variant: the reference of the active provider is not a foreign key.
RemoveProviderUnreferenced(id) ==
  /\ providers' = Without(id)
  /\ Changed
  /\ UNCHANGED <<active, created, request, building, routes, raced>>

\* ON DELETE SET NULL: with its provider the active one is gone.
RemoveProvider(id) ==
  /\ providers' = Without(id)
  /\ active' = {a \in active : a.id # id}
  /\ Changed
  /\ UNCHANGED <<created, request, building, routes, raced>>

\* Requests that have read or written the row of id and have a statement to come.
UnderWay(id) == {r \in Requests : request[r] # NoRequest /\ request[r].id = id}

\* update_provider, first statement: the row.
UpdateProvider(r, id, name, model) ==
  /\ request[r] = NoRequest
  /\ id \in Listed
  /\ name \notin TakenNames(id)
  /\ providers' = [i \in DOMAIN providers |->
                     IF providers[i].id = id THEN [id |-> id, name |-> name, model |-> model]
                     ELSE providers[i]]
  /\ request' = [request EXCEPT ![r] = [at |-> "updated", id |-> id, model |-> model]]
  /\ raced' = IF UnderWay(id) = {} THEN raced ELSE raced \union {id}
  /\ Changed
  /\ UNCHANGED <<active, created, building, routes>>

\* ... second statement: the snapshot, if it is still this provider's.
SyncActive(r) ==
  /\ request[r].at = "updated"
  /\ active' = {IF a.id = request[r].id THEN [a EXCEPT !.model = request[r].model] ELSE a :
                  a \in active}
  /\ request' = [request EXCEPT ![r] = NoRequest]
  /\ Changed
  /\ UNCHANGED <<providers, created, building, routes, raced>>

\* set_active_provider, first statement: an unknown provider is not found.
ReadForActive(r, id) ==
  /\ request[r] = NoRequest
  /\ id \in Listed
  /\ request' = [request EXCEPT ![r] = [at |-> "read", id |-> id, model |-> RowOf(id).model]]
  /\ raced' = IF UnderWay(id) = {} THEN raced ELSE raced \union {id}
  /\ UNCHANGED <<providers, active, created, building, routes, unchanged>>

\* ... second statement: the upsert, refused when the provider was deleted since.
WriteActive(r) ==
  /\ request[r].at = "read"
  /\ active' = IF request[r].id \in Listed
                 THEN {[id |-> request[r].id, model |-> request[r].model]} ELSE active
  /\ request' = [request EXCEPT ![r] = NoRequest]
  /\ Changed
  /\ UNCHANGED <<providers, created, building, routes, raced>>

-----------------------------------------------------------------------------
(* Requests of clients *)

\* A field that is blank once trimmed is refused before the store is asked.
Filled(name, model) == Blank \notin {name, model}

CreateProvider(name, model) == Filled(name, model) /\ AddProvider(name, model)

ChangeProvider(r, id, name, model) == Filled(name, model) /\ UpdateProvider(r, id, name, model)

\* An id that no row has is not found.
DeleteProvider(id) == id \in Listed /\ RemoveProvider(id)

-----------------------------------------------------------------------------
(* The agent of a session *)

\* runtime_config: the rows ...
ListForAgent(s) ==
  /\ building[s].at = "none"
  /\ building' = [building EXCEPT ![s] = [at |-> "listed", rows |-> providers]]
  /\ unchanged' = [unchanged EXCEPT ![s] = TRUE]
  /\ UNCHANGED <<providers, active, created, request, routes, raced>>

\* build_config_from_providers: the active provider first, the others in the order of the list.
Route(rows, ids) ==
  IF \A i \in DOMAIN rows : rows[i].id \notin ids THEN rows
  ELSE LET k == CHOOSE i \in DOMAIN rows : rows[i].id \in ids
       IN <<rows[k]>> \o RemoveAt(rows, k)

\* ... and then which of them is active.
ReadActiveForAgent(s) ==
  /\ building[s].at = "listed"
  /\ building' = [building EXCEPT ![s] =
       [at |-> "read", route |-> Route(building[s].rows, {a.id : a \in active})]]
  /\ UNCHANGED <<providers, active, created, request, routes, raced, unchanged>>

BuildAgent(s) ==
  /\ building[s].at = "read"
  /\ routes' = [routes EXCEPT ![s] = building[s].route]
  /\ building' = [building EXCEPT ![s] = NotBuilding]
  /\ UNCHANGED <<providers, active, created, request, raced, unchanged>>

-----------------------------------------------------------------------------
(* Properties *)

\* The active provider exists, whichever requests delete, update and activate it at the
\* same time: an agent built from an id that no row has would fall back in silence.
ActiveIsListed == \A a \in active : a.id \in Listed

\* The active provider's snapshot names the model its row names once the requests for it
\* are over, unless two of them overlapped (the test active_snapshot_updated_when_
\* provider_model_switches, openjax-store/src/sqlite.rs:1083, for every sequence of requests).
SnapshotFollowsProvider ==
  \A a \in active :
    (a.id \notin raced /\ UnderWay(a.id) = {}) => a.model = RowOf(a.id).model

\* An agent plans with the active provider and knows every provider, as they are now, when
\* nothing was changed since its configuration began to be read.
AgentsKnowTheProviders ==
  \A s \in Agents :
    (unchanged[s] /\ building[s] = NotBuilding /\ Len(providers) > 0) =>
      /\ ToSet(routes[s]) = ToSet(providers)
      /\ \A a \in active : routes[s][1] = RowOf(a.id)
=============================================================================
