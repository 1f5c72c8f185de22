---------------------------- MODULE ToolApproval ----------------------------
(***************************************************************************)
(* Tool calls that need the user's approval: ToolOrchestrator::run and the *)
(* second approval of a shell command that cannot be sandboxed             *)
(* (openjax-core/src/tools/orchestrator.rs, sandbox/), the handler that    *)
(* parks a request until it is answered (GatewayApprovalHandler), and the  *)
(* endpoint that answers it (resolve_approval).                            *)
(*                                                                         *)
(* An agent runs one tool call at a time; clearing a session gives it a    *)
(* new agent with a new handler while the old one finishes its turn.       *)
(* Generation g of the session owns agent g and handler g.                 *)
(***************************************************************************)
EXTENDS Naturals, FiniteSets, FiniteSetsExt

CONSTANTS
  Generations,       \* 1..n: the agents the session has had
  Requests,          \* 1..n: approval requests, numbered in order
  Clients,           \* calls of resolve_approval
  MaxTurns,          \* bound: turns of the session
  MaxRetries,        \* RetryConfig::max_retries
  MaxApprovedTurns   \* 256 in record_mutating_approval

ASSUME GenerationsAssumption == 1 \in Generations /\ Generations \subseteq Nat
ASSUME RequestsAssumption    == Requests \subseteq Nat \ {0}
ASSUME LimitsAssumption      == {MaxTurns, MaxRetries, MaxApprovedTurns} \subseteq Nat

Tools     == {"Edit", "shell", "reader"}  \* a reader is a command, or a tool, that only reads
Decisions == {"Allow", "Ask", "Deny"}   \* Ask stands for Escalate too
None      == "none"
NoRequest == 0

VARIABLES
  session,   \* the current generation and resolved_approvals
  agents,    \* per generation: its turn and the tool call it is in
  pending,   \* per generation: the requests parked in its handler
  reqs,      \* per request: what became of it
  clients    \* per call of resolve_approval: how far it got

vars == <<session, agents, pending, reqs, clients>>

-----------------------------------------------------------------------------
Idle == [turn |-> 0, mode |-> "planner", pc |-> "idle", attempt |-> 0, tool |-> "shell",
         decision |-> "Allow", main |-> NoRequest, req |-> NoRequest, got |-> None,
         approved |-> {}]

New  == [gen |-> 0, turn |-> 0, tool |-> "shell", open |-> FALSE, value |-> None, end |-> "new",
         shown |-> None]

Caller == [pc |-> "idle", req |-> NoRequest, value |-> None, gen |-> 0, reply |-> None]

Fresh    == {r \in Requests : reqs[r].end = "new"}
Current  == session.gen
My(g)    == reqs[agents[g].req]
IsMain(g) == agents[g].req = agents[g].main

\* Variant: every error goes back to the model, or is tried again.
GoesOn(call, class) ==
  IF call.mode = "planner" THEN {"ready"}
  ELSE IF call.attempt = MaxRetries THEN {"idle"} ELSE {"retry"}

\* Where an error of the tool call leaves the turn: the planner stops when approval was
\* refused or never came; a tool call typed by the user is tried again unless refused.
AfterError(call, class) ==
  IF call.mode = "planner" THEN {IF class = "other" THEN "ready" ELSE "idle"}
  ELSE IF class = "rejected" \/ call.attempt = MaxRetries THEN {"idle"}
  ELSE {"retry"} \cup (IF class = "other" THEN {"idle"} ELSE {})

AfterResult(call) == IF call.mode = "planner" THEN "ready" ELSE "idle"

\* The tool call is over and the turn goes on at pc.
CallOver(call, pc) ==
  [turn |-> call.turn, mode |-> IF pc = "idle" THEN "planner" ELSE call.mode, pc |-> pc,
   attempt |-> IF pc = "retry" THEN call.attempt + 1 ELSE 0,
   tool |-> IF pc = "retry" THEN call.tool ELSE "shell", decision |-> "Allow",
   main |-> NoRequest, req |-> NoRequest, got |-> None, approved |-> call.approved]

Failed(g, call, class) ==
  \E pc \in AfterError(call, class) : agents' = [agents EXCEPT ![g] = CallOver(call, pc)]

Init ==
  /\ session = [gen |-> 1, resolved |-> {}]
  /\ agents = [g \in Generations |-> Idle]
  /\ pending = [g \in Generations |-> {}]
  /\ reqs = [r \in Requests |-> New]
  /\ clients = [c \in Clients |-> Caller]

-----------------------------------------------------------------------------
(* Turns *)

TurnsBegun == MapThenSumSet(LAMBDA h : agents[h].turn, Generations)

BeginTurn(g, mode) ==
  /\ g = Current /\ agents[g].pc = "idle"
  /\ TurnsBegun < MaxTurns
  /\ agents' = [agents EXCEPT ![g].turn = @ + 1, ![g].mode = mode, ![g].pc = "ready"]
  /\ UNCHANGED <<session, pending, reqs, clients>>

EndTurn(g) ==
  /\ agents[g].pc = "ready" /\ agents[g].mode = "planner"
  /\ agents' = [agents EXCEPT ![g] = CallOver(@, "idle")]
  /\ UNCHANGED <<session, pending, reqs, clients>>

\* Variant: an approval is good for all turns.
ReusableLater(g) == agents[g].approved # {}

\* should_reuse_mutating_approval
Reusable(g) == agents[g].turn \in agents[g].approved

\* The ApprovalRequested event, sent before the handler is called.
AskFor(g, call, degrade) ==
  \E r \in Fresh :
    /\ \A s \in Fresh : r <= s
    /\ agents' = [agents EXCEPT ![g] = [call EXCEPT !.pc = "registering", !.req = r,
                                                    !.main = IF degrade THEN @ ELSE r]]
    /\ reqs' = [reqs EXCEPT ![r] = [New EXCEPT !.gen = g, !.turn = call.turn,
                                               !.tool = call.tool, !.open = TRUE,
                                               !.end = None, !.shown = "asked"]]

\* ToolOrchestrator::run up to the approval or the execution.
RunTool(g, tool, decision) ==
  /\ \/ agents[g].pc = "ready"
     \/ agents[g].pc = "retry" /\ tool = agents[g].tool
  /\ LET call  == [agents[g] EXCEPT !.tool = tool, !.decision = decision]
         reuse == tool = "Edit" /\ Reusable(g)
     IN  \/ decision = "Ask" /\ ~ reuse /\ AskFor(g, call, FALSE)
         \/ /\ decision = "Allow" \/ (decision = "Ask" /\ reuse)
            /\ agents' = [agents EXCEPT ![g] = [call EXCEPT !.pc = "running"]]
            /\ UNCHANGED reqs
         \/ decision = "Deny" /\ Failed(g, call, "other") /\ UNCHANGED reqs
  /\ UNCHANGED <<session, pending, clients>>

-----------------------------------------------------------------------------
(* GatewayApprovalHandler::request_approval, within the orchestrator's timeout *)

Registered(g) == [pending EXCEPT ![g] = @ \cup {agents[g].req}]

Register(g) ==
  /\ agents[g].pc = "registering"
  /\ pending' = Registered(g)
  /\ agents' = [agents EXCEPT ![g].pc = "waiting"]
  /\ UNCHANGED <<session, reqs, clients>>

TakeAnswer(g) ==
  /\ agents[g].pc = "waiting" /\ My(g).value # None
  /\ agents' = [agents EXCEPT ![g].pc = "forgetting", ![g].got = My(g).value]
  /\ reqs' = [reqs EXCEPT ![agents[g].req].open = FALSE, ![agents[g].req].value = None]
  /\ UNCHANGED <<session, pending, clients>>

\* The time is up and the channel was empty when it was last looked at.
Expire(g) ==
  /\ agents[g].pc = "waiting" /\ My(g).value = None
  /\ agents' = [agents EXCEPT ![g].pc = "expired"]
  /\ UNCHANGED <<session, pending, reqs, clients>>

\* The handler's own timeout comes first: an answer sent since is dropped.
InnerTimeout(g) ==
  /\ agents[g].pc = "expired"
  /\ agents' = [agents EXCEPT ![g].pc = "forgetting", ![g].got = "late"]
  /\ reqs' = [reqs EXCEPT ![agents[g].req].open = FALSE, ![agents[g].req].value = None]
  /\ UNCHANGED <<session, pending, clients>>

\* The orchestrator's timeout comes first and drops the handler's future.
OuterTimeout(g) ==
  /\ agents[g].pc \in {"registering", "expired", "forgetting"}
  /\ reqs' = [reqs EXCEPT ![agents[g].req] = [@ EXCEPT !.open = FALSE, !.value = None,
                                                       !.end = "dropped", !.shown = "rejected"]]
  /\ Failed(g, agents[g], "timedout")
  /\ UNCHANGED <<session, pending, clients>>

\* record_mutating_approval
Recorded(g) ==
  LET approved == agents[g].approved \cup {agents[g].turn}
  IN  IF Cardinality(approved) > MaxApprovedTurns THEN {} ELSE approved

Forgotten(g) == [pending EXCEPT ![g] = @ \ {agents[g].req}]

\* The handler returns, and the call proceeds as the answer says.
Conclude(g) ==
  /\ agents[g].pc = "forgetting"
  /\ pending' = Forgotten(g)
  /\ \/ /\ agents[g].got = "approved"
        /\ agents' = [agents EXCEPT
             ![g].pc = IF IsMain(g) THEN "running" ELSE "unboxed",
             ![g].approved = IF IsMain(g) /\ agents[g].tool = "Edit" THEN Recorded(g) ELSE @]
        /\ reqs' = [reqs EXCEPT ![agents[g].req].end = "approved",
                                ![agents[g].req].shown = "approved"]
     \/ /\ agents[g].got = "rejected"
        /\ Failed(g, agents[g], "rejected")
        /\ reqs' = [reqs EXCEPT ![agents[g].req].end = "rejected",
                                ![agents[g].req].shown = "rejected"]
     \/ /\ agents[g].got = "late"
        /\ Failed(g, agents[g], "timedout")
        /\ reqs' = [reqs EXCEPT ![agents[g].req].end = "timedout"]
  /\ UNCHANGED <<session, clients>>

-----------------------------------------------------------------------------
(* The execution *)

Finish(g) ==
  /\ agents[g].pc \in {"running", "unboxed"}
  /\ \/ agents' = [agents EXCEPT ![g] = CallOver(@, AfterResult(@))]
     \/ Failed(g, agents[g], "other")
  /\ UNCHANGED <<session, pending, reqs, clients>>

\* request_degrade_approval: the user is asked, even about a call that was approved, unless
\* the policy denies it, which is an error without a question.
AskForDegrade(g) ==
  \/ AskFor(g, agents[g], TRUE)
  \/ Failed(g, agents[g], "other") /\ UNCHANGED reqs

\* A command that writes, uses the network or observes processes never leaves the sandbox
\* by itself.
LeavesByItself(g) == agents[g].tool = "reader"

\* The sandbox is unavailable, or denied a command that observes processes: the command
\* runs outside of it, by itself or when the user agrees, unless the policy says no.
Degrade(g) ==
  /\ agents[g].pc = "running" /\ agents[g].tool # "Edit"
  /\ \/ ~LeavesByItself(g) /\ AskForDegrade(g)
     \/ LeavesByItself(g) /\ agents' = [agents EXCEPT ![g].pc = "unboxed"] /\ UNCHANGED reqs
     \/ Failed(g, agents[g], "other") /\ UNCHANGED reqs
  /\ UNCHANGED <<session, pending, clients>>

\* The task of the current turn is aborted wherever it waits.
Abort(g) ==
  /\ g = Current /\ agents[g].pc # "idle"
  /\ agents' = [agents EXCEPT ![g] = CallOver(@, "idle")]
  /\ reqs' = IF agents[g].req = NoRequest \/ My(g).end # None THEN reqs
             ELSE [reqs EXCEPT ![agents[g].req] = [@ EXCEPT !.open = FALSE, !.value = None,
                                                         !.end = "aborted"]]
  /\ UNCHANGED <<session, pending, clients>>

\* clear_context: a new agent and a new handler.
Clear ==
  /\ Current + 1 \in Generations
  /\ session' = [gen |-> Current + 1, resolved |-> {}]
  /\ UNCHANGED <<agents, pending, reqs, clients>>

-----------------------------------------------------------------------------
(* resolve_approval *)

\* An answer without effect is not remembered.
Reply(c, reply) ==
  clients' = [clients EXCEPT ![c] =
    IF reply = "resolved" THEN [@ EXCEPT !.pc = "done", !.reply = reply]
    ELSE [Caller EXCEPT !.pc = "done", !.reply = reply]]

\* A client answers a request it was shown; the first look is under the session's lock.
CallResolve(c, r, value) ==
  /\ clients[c].pc = "idle" /\ reqs[r].shown # None
  /\ IF r \in session.resolved THEN Reply(c, "conflict")
     ELSE clients' = [clients EXCEPT ![c] = [Caller EXCEPT !.pc = "found", !.req = r,
                                                           !.value = value, !.gen = Current]]
  /\ UNCHANGED <<session, agents, pending, reqs>>

\* Variant: the sender is left in the map for the next answer.
LeftInPlace(c) == pending

Taken(c) == [pending EXCEPT ![clients[c].gen] = @ \ {clients[c].req}]

TakeSender(c) ==
  /\ clients[c].pc = "found"
  /\ IF clients[c].req \in pending[clients[c].gen]
     THEN pending' = Taken(c) /\ clients' = [clients EXCEPT ![c].pc = "holds"]
     ELSE UNCHANGED pending /\ Reply(c, "not found")
  /\ UNCHANGED <<session, agents, reqs>>

SendAnswer(c) ==
  /\ clients[c].pc = "holds"
  /\ IF reqs[clients[c].req].open
     THEN /\ reqs' = [reqs EXCEPT ![clients[c].req].value = clients[c].value]
          /\ clients' = [clients EXCEPT ![c].pc = "sent"]
     ELSE UNCHANGED reqs /\ Reply(c, "not found")
  /\ UNCHANGED <<session, agents, pending>>

Acknowledge(c) ==
  /\ clients[c].pc = "sent"
  /\ session' = [session EXCEPT !.resolved = @ \cup {clients[c].req}]
  /\ Reply(c, "resolved")
  /\ UNCHANGED <<agents, pending, reqs>>

-----------------------------------------------------------------------------
Next ==
  \/ \E g \in Generations :
       \/ \E mode \in {"planner", "direct"} : BeginTurn(g, mode)
       \/ \E tool \in Tools, decision \in Decisions : RunTool(g, tool, decision)
       \/ EndTurn(g) \/ Register(g) \/ TakeAnswer(g) \/ Expire(g) \/ InnerTimeout(g)
       \/ OuterTimeout(g) \/ Conclude(g) \/ Finish(g) \/ Degrade(g) \/ Abort(g)
  \/ Clear
  \/ \E c \in Clients :
       \/ \E r \in Requests, value \in {"approved", "rejected"} : CallResolve(c, r, value)
       \/ TakeSender(c) \/ SendAnswer(c) \/ Acknowledge(c)

Spec == Init /\ [][Next]_vars

-----------------------------------------------------------------------------
(* Properties *)

Answers == {None, "approved", "rejected"}

Agent ==
  [turn : Nat, mode : {"planner", "direct"}, attempt : 0..MaxRetries,
   pc : {"idle", "ready", "retry", "registering", "waiting", "expired", "forgetting", "running",
         "unboxed"},
   tool : Tools, decision : Decisions, main : Requests \cup {NoRequest},
   req : Requests \cup {NoRequest}, got : Answers \cup {"late"}, approved : SUBSET Nat]

Request ==
  [gen : Generations \cup {0}, turn : Nat, tool : Tools, open : BOOLEAN, value : Answers,
   end : {"new", None, "approved", "rejected", "timedout", "dropped", "aborted"},
   shown : {None, "asked", "approved", "rejected"}]

Resolve ==
  [pc : {"idle", "found", "holds", "sent", "done"}, req : Requests \cup {NoRequest},
   value : Answers, gen : Generations \cup {0},
   reply : {None, "resolved", "conflict", "not found"}]

TypeOK ==
  /\ session \in [gen : Generations, resolved : SUBSET Requests]
  /\ agents \in [Generations -> Agent]
  /\ \A g \in Generations : Cardinality(agents[g].approved) <= MaxApprovedTurns
  /\ pending \in [Generations -> SUBSET Requests]
  /\ reqs \in [Requests -> Request]
  /\ clients \in [Clients -> Resolve]

\* The clients whose answer went into the channel of a request.
Senders(r) == {c \in Clients : clients[c].req = r /\ (clients[c].pc = "sent"
                                                      \/ clients[c].reply = "resolved")}

ApprovedBy(r, c) == c \in Senders(r) /\ clients[c].value = "approved"
UserApproved(r)  == r # NoRequest /\ \E c \in Clients : ApprovedBy(r, c)

\* A tool runs only if the policy allows it, a client approved this very attempt, or it is
\* an edit and a client approved an edit of the same turn; a command the user was asked
\* about again leaves the sandbox only if that was approved too, and one that writes or
\* observes leaves it only so.
RunsOnlyWhenAllowed ==
  \A g \in Generations : agents[g].pc \in {"running", "unboxed"} =>
    /\ \/ agents[g].decision = "Allow"
       \/ UserApproved(agents[g].main)
       \/ /\ agents[g].tool = "Edit"
          /\ \E r \in Requests : /\ reqs[r].gen = g /\ reqs[r].turn = agents[g].turn
                                 /\ reqs[r].tool = "Edit" /\ UserApproved(r)
    /\ ~ IsMain(g) => UserApproved(agents[g].req)
    /\ agents[g].pc = "unboxed" /\ agents[g].tool = "shell" => ~ IsMain(g)

\* A request is decided by exactly one answer, the one whose client is told so, however
\* many clients answer at once.
DecidedByOneClient ==
  \A r \in Requests :
    /\ Cardinality(Senders(r)) <= 1
    /\ reqs[r].end \in {"approved", "rejected"} =>
         \E c \in Senders(r) : clients[c].value = reqs[r].end

\* As long as a request waits without an answer, its handler can find it, or a client that
\* did is about to answer: no request is lost to a concurrent answer or timeout.
WaitingIsAnswerable ==
  \A g \in Generations : agents[g].pc \in {"waiting", "expired"} /\ My(g).value = None =>
    agents[g].req \in pending[g]
      \/ \E c \in Clients : clients[c].req = agents[g].req /\ clients[c].pc = "holds"

\* A request that is over is only left in the map when its future was dropped, and one that
\* is not over is awaited by its agent, whose timeout ends it at last.
OverIsForgotten ==
  /\ \A g \in Generations : \A r \in pending[g] : reqs[r].end \in {None, "dropped", "aborted"}
  /\ \A r \in Requests : reqs[r].end = None =>
       LET a == agents[reqs[r].gen]
       IN  a.req = r /\ a.pc \in {"registering", "waiting", "expired", "forgetting"}

\* Nothing more happens in a turn whose approval was refused, or, in a planner's turn,
\* never came.
RefusalStopsTurn ==
  \A g \in Generations, r \in Requests :
    /\ reqs[r].gen = g /\ reqs[r].turn = agents[g].turn
    /\ agents[g].pc # "idle"
    => /\ reqs[r].end # "rejected"
       /\ agents[g].mode = "planner" => reqs[r].end \notin {"timedout", "dropped"}

\* A request is answered once by a client that learns so, is never lost while it waits and
\* never outlives its wait (the map of pending approvals of GatewayApprovalHandler).
RequestsSettle == TypeOK /\ DecidedByOneClient /\ WaitingIsAnswerable /\ OverIsForgotten
=============================================================================
