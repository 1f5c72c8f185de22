------------------------- MODULE ToolApprovalProofs -------------------------
(***************************************************************************)
(* Theorems about ToolApproval, for any number of agents, requests,        *)
(* clients, turns and retries: tools run only when allowed, a request is   *)
(* settled by one client, and a refusal ends the turn.                     *)
(***************************************************************************)
EXTENDS ToolApproval, FiniteSetTheorems, TLAPS

-----------------------------------------------------------------------------
(* Types *)

\* The sets of approved turns are finite, so that their size is a number.
FiniteApprovals == \A g \in Generations : IsFiniteSet(agents[g].approved)

Typed == TypeOK /\ FiniteApprovals

\* Where an agent has a request open, and where it is between two calls.
Asking  == {"registering", "waiting", "expired", "forgetting"}
Between == {"idle", "ready", "retry"}

USE GenerationsAssumption, RequestsAssumption, LimitsAssumption
    DEF Answers, None, NoRequest, Tools, Decisions

LEMMA StartTypes ==
  /\ Idle \in Agent /\ New \in Request /\ Caller \in Resolve
  /\ IsFiniteSet({}) /\ Cardinality({}) = 0
BY FS_EmptySet DEF Idle, Agent, New, Request, Caller, Resolve

\* A call that is over leaves an agent of its type, with the approvals it had.
LEMMA CallOverType ==
  ASSUME NEW call \in Agent, NEW pc \in {"idle", "ready", "retry"},
         pc = "retry" => call.attempt # MaxRetries
  PROVE  /\ CallOver(call, pc) \in Agent
         /\ CallOver(call, pc).approved = call.approved
         /\ CallOver(call, pc).turn = call.turn
         /\ CallOver(call, pc).pc = pc
         /\ CallOver(call, pc).req = NoRequest
         /\ CallOver(call, pc).main = NoRequest
         /\ pc # "idle" => CallOver(call, pc).mode = call.mode
<1>1. MaxRetries \in Nat
  OBVIOUS
<1>2. pc = "retry" => call.attempt + 1 \in 0..MaxRetries
  BY <1>1 DEF Agent
<1>3. CallOver(call, pc) \in Agent
  BY <1>1, <1>2 DEF CallOver, Agent
<1> QED
  BY <1>3 DEF CallOver

\* Where an error leaves a call.
LEMMA AfterErrorType ==
  ASSUME NEW call \in Agent, NEW class \in {"rejected", "timedout", "other"},
         NEW pc \in AfterError(call, class)
  PROVE  /\ pc \in {"idle", "ready", "retry"}
         /\ pc = "retry" => call.attempt # MaxRetries
         /\ class = "rejected" => pc = "idle"
         /\ class = "timedout" => pc = "idle" \/ call.mode # "planner"
BY DEF AfterError, Agent

-----------------------------------------------------------------------------
(* What the steps do to an agent *)

\* Agent g takes a step and keeps its type; no other agent does anything.
Steps(g) ==
  /\ agents' \in [Generations -> Agent]
  /\ \A h \in Generations \ {g} : agents'[h] = agents[h]

\* The agent leaves its call, in the turn it was in and with the approvals it had.
LeavesCall(g) ==
  /\ Steps(g)
  /\ agents'[g].pc \in Between
  /\ agents'[g].req = NoRequest /\ agents'[g].main = NoRequest
  /\ agents'[g].turn = agents[g].turn /\ agents'[g].approved = agents[g].approved
  /\ agents'[g].pc # "idle" => agents'[g].mode = agents[g].mode

\* An update of one agent is a step of it.
LEMMA PutAgent ==
  ASSUME Typed, NEW g \in Generations, NEW call \in Agent, agents' = [agents EXCEPT ![g] = call]
  PROVE  Steps(g) /\ agents'[g] = call
BY DEF Typed, TypeOK, Steps

LEMMA OverLeavesCall ==
  ASSUME Typed, NEW g \in Generations, NEW pc \in Between,
         pc = "retry" => agents[g].attempt # MaxRetries,
         agents' = [agents EXCEPT ![g] = CallOver(agents[g], pc)]
  PROVE  LeavesCall(g) /\ agents'[g].pc = pc
<1>1. agents[g] \in Agent
  BY DEF Typed, TypeOK
<1>2. /\ CallOver(agents[g], pc) \in Agent
      /\ CallOver(agents[g], pc).approved = agents[g].approved
      /\ CallOver(agents[g], pc).turn = agents[g].turn
      /\ CallOver(agents[g], pc).pc = pc
      /\ CallOver(agents[g], pc).req = NoRequest
      /\ CallOver(agents[g], pc).main = NoRequest
      /\ pc # "idle" => CallOver(agents[g], pc).mode = agents[g].mode
  BY <1>1, CallOverType DEF Between
<1>3. Steps(g) /\ agents'[g] = CallOver(agents[g], pc)
  BY <1>2, PutAgent
<1> QED
  BY <1>2, <1>3 DEF LeavesCall

\* A failed call, which may have been given its tool and decision in this step.
LEMMA FailedLeavesCall ==
  ASSUME Typed, NEW g \in Generations, NEW call \in Agent,
         call.turn = agents[g].turn, call.approved = agents[g].approved,
         call.mode = agents[g].mode,
         NEW class \in {"rejected", "timedout", "other"}, Failed(g, call, class)
  PROVE  /\ LeavesCall(g)
         /\ class = "rejected" => agents'[g].pc = "idle"
         /\ class = "timedout" => agents'[g].pc = "idle" \/ agents[g].mode # "planner"
<1>1. PICK pc \in AfterError(call, class) : agents' = [agents EXCEPT ![g] = CallOver(call, pc)]
  BY DEF Failed
<1>2. /\ pc \in {"idle", "ready", "retry"}
      /\ pc = "retry" => call.attempt # MaxRetries
      /\ class = "rejected" => pc = "idle"
      /\ class = "timedout" => pc = "idle" \/ call.mode # "planner"
  BY <1>1, AfterErrorType
<1>3. /\ CallOver(call, pc) \in Agent
      /\ CallOver(call, pc).approved = agents[g].approved
      /\ CallOver(call, pc).turn = agents[g].turn
      /\ CallOver(call, pc).pc = pc
      /\ CallOver(call, pc).req = NoRequest
      /\ CallOver(call, pc).main = NoRequest
      /\ pc # "idle" => CallOver(call, pc).mode = agents[g].mode
  BY <1>2, CallOverType
<1>4. Steps(g) /\ agents'[g] = CallOver(call, pc)
  BY <1>1, <1>3, PutAgent
<1> QED
  BY <1>2, <1>3, <1>4 DEF LeavesCall, Between

LEMMA BeginTurnStep ==
  ASSUME Typed, NEW g \in Generations, NEW mode \in {"planner", "direct"}, BeginTurn(g, mode)
  PROVE  /\ Steps(g) /\ agents[g].pc = "idle" /\ agents'[g].pc = "ready"
         /\ agents'[g].turn = agents[g].turn + 1 /\ agents'[g].approved = agents[g].approved
         /\ agents'[g].req = agents[g].req /\ agents'[g].main = agents[g].main
<1>1. agents[g] \in Agent /\ agents[g].turn + 1 \in Nat
  BY DEF Typed, TypeOK, Agent
<1>2. agents'[g] = [agents[g] EXCEPT !.turn = @ + 1, !.mode = mode, !.pc = "ready"]
  BY DEF BeginTurn, Typed, TypeOK
<1>3. agents'[g] \in Agent
  BY <1>1, <1>2 DEF Agent
<1>4. Steps(g)
  BY <1>3 DEF Steps, BeginTurn, Typed, TypeOK
<1>5. agents[g].pc = "idle"
  BY DEF BeginTurn
<1> QED
  BY <1>1, <1>2, <1>4, <1>5 DEF Agent

\* A question: a request that is new becomes the one the agent registers.
Asks(g, r) ==
  /\ r \in Fresh /\ Steps(g)
  /\ agents'[g].pc = "registering" /\ agents'[g].req = r
  /\ agents'[g].turn = agents[g].turn /\ agents'[g].approved = agents[g].approved
  /\ agents'[g].mode = agents[g].mode
  /\ reqs' \in [Requests -> Request]
  /\ \A s \in Requests \ {r} : reqs'[s] = reqs[s]
  /\ reqs'[r].gen = g /\ reqs'[r].turn = agents[g].turn /\ reqs'[r].tool = agents'[g].tool
  /\ reqs'[r].open /\ reqs'[r].value = None /\ reqs'[r].end = None

LEMMA AskForAsks ==
  ASSUME Typed, NEW g \in Generations, NEW call \in Agent, NEW degrade \in BOOLEAN,
         call.turn = agents[g].turn, call.approved = agents[g].approved,
         call.mode = agents[g].mode, AskFor(g, call, degrade)
  PROVE  \E r \in Requests :
           /\ Asks(g, r)
           /\ agents'[g].main = (IF degrade THEN call.main ELSE r)
           /\ agents'[g].tool = call.tool /\ agents'[g].decision = call.decision
<1> DEFINE asking(r) == [call EXCEPT !.pc = "registering", !.req = r,
                                     !.main = IF degrade THEN @ ELSE r]
           asked == [New EXCEPT !.gen = g, !.turn = call.turn, !.tool = call.tool,
                                !.open = TRUE, !.end = None, !.shown = "asked"]
<1>1. PICK r \in Fresh : /\ agents' = [agents EXCEPT ![g] = asking(r)]
                         /\ reqs' = [reqs EXCEPT ![r] = asked]
  BY DEF AskFor
<1>2. r \in Requests
  BY <1>1 DEF Fresh
<1>3. asking(r) \in Agent /\ asked \in Request
  BY <1>2 DEF Agent, Request, New
<1>4. Steps(g) /\ agents'[g] = asking(r)
  BY <1>1, <1>3, PutAgent
<1>5. reqs' \in [Requests -> Request] /\ reqs'[r] = asked
      /\ \A s \in Requests \ {r} : reqs'[s] = reqs[s]
  BY <1>1, <1>2, <1>3 DEF Typed, TypeOK
<1>6. /\ asking(r).pc = "registering" /\ asking(r).req = r
      /\ asking(r).turn = call.turn /\ asking(r).approved = call.approved
      /\ asking(r).mode = call.mode /\ asking(r).tool = call.tool
      /\ asking(r).decision = call.decision
      /\ asking(r).main = IF degrade THEN call.main ELSE r
  BY DEF Agent
<1>7. /\ asked.gen = g /\ asked.turn = call.turn /\ asked.tool = call.tool
      /\ asked.open /\ asked.value = None /\ asked.end = None
  BY DEF New
<1> HIDE DEF asking, asked
<1>8. Asks(g, r)
  BY <1>1, <1>4, <1>5, <1>6, <1>7 DEF Asks
<1> QED
  BY <1>2, <1>4, <1>6, <1>8

\* The agent goes on with the call it is in.
SameCall(g) ==
  /\ Steps(g)
  /\ agents'[g].req = agents[g].req /\ agents'[g].main = agents[g].main
  /\ agents'[g].turn = agents[g].turn /\ agents'[g].approved = agents[g].approved
  /\ agents'[g].mode = agents[g].mode /\ agents'[g].tool = agents[g].tool
  /\ agents'[g].decision = agents[g].decision

\* The agent starts a call that needs no question.
StartsCall(g) ==
  /\ Steps(g) /\ agents'[g].pc = "running"
  /\ agents'[g].req = agents[g].req /\ agents'[g].main = agents[g].main
  /\ agents'[g].turn = agents[g].turn /\ agents'[g].approved = agents[g].approved
  /\ agents'[g].mode = agents[g].mode
  /\ \/ agents'[g].decision = "Allow"
     \/ agents'[g].tool = "Edit" /\ agents[g].turn \in agents[g].approved

LEMMA RunToolStep ==
  ASSUME Typed, NEW g \in Generations, NEW tool \in Tools, NEW decision \in Decisions,
         RunTool(g, tool, decision)
  PROVE  /\ agents[g].pc \in {"ready", "retry"}
         /\ UNCHANGED <<session, pending, clients>>
         /\ \/ \E r \in Requests : Asks(g, r) /\ agents'[g].main = r
            \/ StartsCall(g) /\ UNCHANGED reqs
            \/ LeavesCall(g) /\ UNCHANGED reqs
<1> DEFINE call == [agents[g] EXCEPT !.tool = tool, !.decision = decision]
           reuse == tool = "Edit" /\ Reusable(g)
<1>1. /\ call \in Agent /\ call.tool = tool /\ call.decision = decision
      /\ call.turn = agents[g].turn /\ call.approved = agents[g].approved
      /\ call.mode = agents[g].mode /\ call.req = agents[g].req
      /\ call.main = agents[g].main /\ call.pc = agents[g].pc
  <2>1. agents[g] \in Agent
    BY DEF Typed, TypeOK
  <2> QED
    BY <2>1 DEF Agent
<1>2. \/ decision = "Ask" /\ ~ reuse /\ AskFor(g, call, FALSE)
      \/ /\ decision = "Allow" \/ (decision = "Ask" /\ reuse)
         /\ agents' = [agents EXCEPT ![g] = [call EXCEPT !.pc = "running"]]
         /\ UNCHANGED reqs
      \/ decision = "Deny" /\ Failed(g, call, "other") /\ UNCHANGED reqs
  BY DEF RunTool
<1>3. agents[g].pc \in {"ready", "retry"} /\ UNCHANGED <<session, pending, clients>>
  BY DEF RunTool
<1>4. reuse => tool = "Edit" /\ agents[g].turn \in agents[g].approved
  BY DEF Reusable
<1> HIDE DEF call, reuse
<1>5. CASE AskFor(g, call, FALSE)
  BY <1>1, <1>3, <1>5, AskForAsks
<1>6. CASE /\ decision = "Allow" \/ (decision = "Ask" /\ reuse)
           /\ agents' = [agents EXCEPT ![g] = [call EXCEPT !.pc = "running"]]
           /\ UNCHANGED reqs
  <2> DEFINE running == [call EXCEPT !.pc = "running"]
  <2>1. /\ running \in Agent /\ running.pc = "running"
        /\ running.tool = tool /\ running.decision = decision
        /\ running.turn = agents[g].turn /\ running.approved = agents[g].approved
        /\ running.mode = agents[g].mode /\ running.req = agents[g].req
        /\ running.main = agents[g].main
    BY <1>1 DEF Agent
  <2>2. agents' = [agents EXCEPT ![g] = running]
    BY <1>6
  <2> HIDE DEF running
  <2>3. Steps(g) /\ agents'[g] = running
    BY <2>1, <2>2, PutAgent
  <2>4. StartsCall(g)
    BY <1>4, <1>6, <2>1, <2>3 DEF StartsCall
  <2> QED
    BY <1>3, <1>6, <2>4
<1>7. CASE Failed(g, call, "other") /\ UNCHANGED reqs
  BY <1>1, <1>3, <1>7, FailedLeavesCall
<1> QED
  BY <1>2, <1>5, <1>6, <1>7

\* The command leaves the sandbox without a question.
LeavesSandbox(g) == SameCall(g) /\ agents'[g].pc = "unboxed" /\ agents[g].tool = "reader"

LEMMA DegradeStep ==
  ASSUME Typed, NEW g \in Generations, Degrade(g)
  PROVE  /\ agents[g].pc = "running"
         /\ UNCHANGED <<session, pending, clients>>
         /\ \/ \E r \in Requests : /\ Asks(g, r) /\ agents'[g].main = agents[g].main
                                   /\ agents'[g].tool = agents[g].tool
                                   /\ agents'[g].decision = agents[g].decision
            \/ LeavesSandbox(g) /\ UNCHANGED reqs
            \/ LeavesCall(g) /\ UNCHANGED reqs
<1>1. agents[g] \in Agent
  BY DEF Typed, TypeOK
<1>2. agents[g].pc = "running" /\ UNCHANGED <<session, pending, clients>>
  BY DEF Degrade
<1>3. \/ AskFor(g, agents[g], TRUE)
      \/ /\ agents[g].tool = "reader" /\ UNCHANGED reqs
         /\ agents' = [agents EXCEPT ![g].pc = "unboxed"]
      \/ Failed(g, agents[g], "other") /\ UNCHANGED reqs
  BY DEF Degrade, AskForDegrade, LeavesByItself
<1>4. CASE AskFor(g, agents[g], TRUE)
  BY <1>1, <1>2, <1>4, AskForAsks
<1>5. CASE /\ agents[g].tool = "reader" /\ UNCHANGED reqs
           /\ agents' = [agents EXCEPT ![g].pc = "unboxed"]
  BY <1>1, <1>2, <1>5 DEF LeavesSandbox, SameCall, Steps, Agent, Typed, TypeOK
<1>6. CASE Failed(g, agents[g], "other") /\ UNCHANGED reqs
  BY <1>1, <1>2, <1>6, FailedLeavesCall
<1> QED
  BY <1>2, <1>3, <1>4, <1>5, <1>6

LEMMA FinishStep ==
  ASSUME Typed, NEW g \in Generations, Finish(g)
  PROVE  LeavesCall(g)
<1>1. agents[g] \in Agent
  BY DEF Typed, TypeOK
<1>2. CASE agents' = [agents EXCEPT ![g] = CallOver(@, AfterResult(@))]
  <2>1. AfterResult(agents[g]) \in {"ready", "idle"}
    BY DEF AfterResult
  <2>2. agents' = [agents EXCEPT ![g] = CallOver(agents[g], AfterResult(agents[g]))]
    BY <1>2
  <2> QED
    BY <2>1, <2>2, OverLeavesCall DEF Between
<1>3. CASE Failed(g, agents[g], "other")
  BY <1>1, <1>3, FailedLeavesCall
<1> QED
  BY <1>2, <1>3 DEF Finish

LEMMA EndTurnStep ==
  ASSUME Typed, NEW g \in Generations, EndTurn(g)
  PROVE  LeavesCall(g)
<1>1. agents' = [agents EXCEPT ![g] = CallOver(agents[g], "idle")]
  BY DEF EndTurn
<1> QED
  BY <1>1, OverLeavesCall DEF Between

-----------------------------------------------------------------------------
(* The handler: one agent, one request and at most one client per channel *)

\* An agent that asks awaits a request of its own, of the call it is in, that nothing ended;
\* between two calls it has none.
AskingAwaits ==
  \A g \in Generations :
    /\ agents[g].pc \in Asking =>
         /\ agents[g].req \in Requests
         /\ My(g).gen = g /\ My(g).turn = agents[g].turn /\ My(g).tool = agents[g].tool
         /\ My(g).end = None
    /\ agents[g].pc \in Between => agents[g].req = NoRequest
    /\ agents[g].req # NoRequest =>
         agents[g].req \in Requests /\ My(g).gen = g /\ My(g).end # "new"

\* A request that is not over is the one its agent awaits.
AwaitedByAgent ==
  \A r \in Requests : reqs[r].end = None =>
    /\ reqs[r].gen \in Generations
    /\ agents[reqs[r].gen].req = r
    /\ agents[reqs[r].gen].pc \in Asking

\* The channel of a request is open until its agent has the answer or stops waiting.
ChannelsOpen ==
  /\ \A g \in Generations :
       /\ agents[g].pc \in {"registering", "waiting", "expired"} => My(g).open
       /\ agents[g].pc = "forgetting" => ~ My(g).open
  /\ \A r \in Requests : reqs[r].open => reqs[r].end = None

\* What is in a channel was sent into it by a client.
AnswersWereSent ==
  /\ \A r \in Requests :
       /\ reqs[r].value # None =>
            reqs[r].open /\ \E c \in Senders(r) : clients[c].value = reqs[r].value
       /\ reqs[r].end \in {"approved", "rejected"} =>
            \E c \in Senders(r) : clients[c].value = reqs[r].end
  /\ \A g \in Generations : agents[g].pc = "forgetting" =>
       \/ agents[g].got = "late"
       \/ /\ agents[g].got \in {"approved", "rejected"}
          /\ \E c \in Senders(agents[g].req) : clients[c].value = agents[g].got

\* Nobody has heard of a request that was not made yet.
NewIsUntouched ==
  \A r \in Requests : reqs[r].end = "new" =>
    /\ reqs[r] = New
    /\ \A g \in Generations : r \notin pending[g]
    /\ \A c \in Clients : clients[c].req # r

\* A client that got as far as the handler has a request and an answer for it.
ClientsKnow ==
  \A c \in Clients :
    /\ clients[c].pc \in {"found", "holds", "sent"} \/ clients[c].reply = "resolved" =>
         clients[c].req \in Requests /\ clients[c].value \in {"approved", "rejected"}
    /\ clients[c].pc \in {"found", "holds", "sent"} => clients[c].gen \in Generations
    /\ clients[c].pc # "done" => clients[c].reply = None

\* The client that took the sender of a request, whether it used it already or not.
Owns(c, r) ==
  clients[c].req = r /\ (clients[c].pc \in {"holds", "sent"} \/ clients[c].reply = "resolved")

\* A sender is in the map or with one client; it is taken once.
SendersAreTakenOnce ==
  \A r \in Requests, c \in Clients : Owns(c, r) =>
    /\ \A d \in Clients : Owns(d, r) => d = c
    /\ \A g \in Generations :
         r \notin pending[g] /\ ~ (agents[g].pc = "registering" /\ agents[g].req = r)

\* What a handler keeps is a request of its own agent, waiting or given up by a drop; one
\* that is about to be registered is not there yet.
PendingIsOwn ==
  \A g \in Generations :
    /\ \A r \in pending[g] : reqs[r].gen = g /\ reqs[r].end \in {None, "dropped", "aborted"}
    /\ agents[g].pc = "registering" => agents[g].req \notin pending[g]

Handler ==
  /\ Typed
  /\ AskingAwaits /\ AwaitedByAgent /\ ChannelsOpen /\ AnswersWereSent /\ NewIsUntouched
  /\ ClientsKnow /\ SendersAreTakenOnce /\ PendingIsOwn /\ WaitingIsAnswerable

-----------------------------------------------------------------------------
(* What the steps of the handler do to a request *)

\* Something happens to request r of agent g; whose it is does not change.
Touches(g, r) ==
  /\ r \in Requests /\ agents[g].req = r /\ reqs[r].gen = g /\ reqs[r].end = None
  /\ reqs' \in [Requests -> Request]
  /\ \A s \in Requests \ {r} : reqs'[s] = reqs[s]
  /\ reqs'[r].gen = reqs[r].gen /\ reqs'[r].turn = reqs[r].turn
  /\ reqs'[r].tool = reqs[r].tool

\* Its channel is closed, and it stays the request its agent is concerned with.
Closes(g, r) ==
  /\ Touches(g, r)
  /\ ~ reqs'[r].open /\ reqs'[r].value = None /\ reqs'[r].end = reqs[r].end
  /\ SameCall(g) /\ agents'[g].pc = "forgetting"

\* It is over: decided by the answer its agent has, or given up.
Ends(g, r, end) ==
  /\ Touches(g, r) /\ agents[g].pc \in Asking
  /\ ~ reqs'[r].open /\ reqs'[r].value = None /\ reqs'[r].end = end
  /\ Steps(g) /\ agents'[g].turn = agents[g].turn
  /\ agents'[g].pc \in Between => agents'[g].req = NoRequest
  /\ agents'[g].req # NoRequest => agents'[g].req = r

\* The request of an agent that asks.
LEMMA MyRequest ==
  ASSUME Typed, AskingAwaits, NEW g \in Generations, agents[g].pc \in Asking
  PROVE  /\ agents[g].req \in Requests
         /\ reqs[agents[g].req] \in Request
         /\ My(g).gen = g /\ My(g).end = None
         /\ My(g).turn = agents[g].turn /\ My(g).tool = agents[g].tool
BY DEF AskingAwaits, Typed, TypeOK

LEMMA TakeAnswerStep ==
  ASSUME Typed, AskingAwaits, NEW g \in Generations, TakeAnswer(g)
  PROVE  /\ Closes(g, agents[g].req)
         /\ agents[g].pc = "waiting" /\ agents'[g].got = My(g).value /\ My(g).value # None
<1>1. agents[g].pc = "waiting" /\ agents[g] \in Agent /\ My(g).value # None
  BY DEF TakeAnswer, Typed, TypeOK
<1> DEFINE r == agents[g].req
<1>2. r \in Requests /\ reqs[r] \in Request /\ reqs[r].gen = g /\ reqs[r].end = None
  BY <1>1, MyRequest DEF Asking, My
<1>3. /\ agents' = [agents EXCEPT ![g] = [agents[g] EXCEPT !.pc = "forgetting", !.got = reqs[r].value]]
      /\ reqs' = [reqs EXCEPT ![r] = [reqs[r] EXCEPT !.open = FALSE, !.value = None]]
  BY <1>1, <1>2 DEF TakeAnswer, My, Typed, TypeOK
<1>4. [agents[g] EXCEPT !.pc = "forgetting", !.got = reqs[r].value] \in Agent
  BY <1>1, <1>2 DEF Agent, Request
<1>5. [reqs[r] EXCEPT !.open = FALSE, !.value = None] \in Request
  BY <1>2 DEF Request
<1>6. /\ Steps(g)
      /\ agents'[g] = [agents[g] EXCEPT !.pc = "forgetting", !.got = reqs[r].value]
  BY <1>3, <1>4, PutAgent
<1>7. SameCall(g) /\ agents'[g].pc = "forgetting" /\ agents'[g].got = reqs[r].value
  BY <1>1, <1>6 DEF SameCall, Agent
<1>8. /\ reqs' \in [Requests -> Request] /\ \A s \in Requests \ {r} : reqs'[s] = reqs[s]
      /\ reqs'[r] = [reqs[r] EXCEPT !.open = FALSE, !.value = None]
  BY <1>2, <1>3, <1>5 DEF Typed, TypeOK
<1>9. Closes(g, r)
  BY <1>2, <1>7, <1>8 DEF Closes, Touches, Request
<1> QED
  BY <1>1, <1>7, <1>9 DEF My

LEMMA InnerTimeoutStep ==
  ASSUME Typed, AskingAwaits, NEW g \in Generations, InnerTimeout(g)
  PROVE  /\ Closes(g, agents[g].req)
         /\ agents[g].pc = "expired" /\ agents'[g].got = "late"
<1>1. agents[g].pc = "expired" /\ agents[g] \in Agent
  BY DEF InnerTimeout, Typed, TypeOK
<1> DEFINE r == agents[g].req
<1>2. r \in Requests /\ reqs[r] \in Request /\ reqs[r].gen = g /\ reqs[r].end = None
  BY <1>1, MyRequest DEF Asking, My
<1>3. /\ agents' = [agents EXCEPT ![g] = [agents[g] EXCEPT !.pc = "forgetting", !.got = "late"]]
      /\ reqs' = [reqs EXCEPT ![r] = [reqs[r] EXCEPT !.open = FALSE, !.value = None]]
  BY <1>1, <1>2 DEF InnerTimeout, Typed, TypeOK
<1>4. [agents[g] EXCEPT !.pc = "forgetting", !.got = "late"] \in Agent
  BY <1>1 DEF Agent
<1>5. [reqs[r] EXCEPT !.open = FALSE, !.value = None] \in Request
  BY <1>2 DEF Request
<1>6. Steps(g) /\ agents'[g] = [agents[g] EXCEPT !.pc = "forgetting", !.got = "late"]
  BY <1>3, <1>4, PutAgent
<1>7. SameCall(g) /\ agents'[g].pc = "forgetting" /\ agents'[g].got = "late"
  BY <1>1, <1>6 DEF SameCall, Agent
<1>8. /\ reqs' \in [Requests -> Request] /\ \A s \in Requests \ {r} : reqs'[s] = reqs[s]
      /\ reqs'[r] = [reqs[r] EXCEPT !.open = FALSE, !.value = None]
  BY <1>2, <1>3, <1>5 DEF Typed, TypeOK
<1>9. Closes(g, r)
  BY <1>2, <1>7, <1>8 DEF Closes, Touches, Request
<1> QED
  BY <1>1, <1>7, <1>9

LEMMA OuterTimeoutStep ==
  ASSUME Typed, AskingAwaits, NEW g \in Generations, OuterTimeout(g)
  PROVE  /\ Ends(g, agents[g].req, "dropped") /\ LeavesCall(g)
         /\ agents'[g].pc = "idle" \/ agents[g].mode # "planner"
<1>1. agents[g].pc \in Asking /\ agents[g] \in Agent
  BY DEF OuterTimeout, Asking, Typed, TypeOK
<1> DEFINE r == agents[g].req
<1>2. r \in Requests /\ reqs[r] \in Request /\ reqs[r].gen = g /\ reqs[r].end = None
  BY <1>1, MyRequest DEF My
<1>3. LeavesCall(g) /\ (agents'[g].pc = "idle" \/ agents[g].mode # "planner")
  BY <1>1, FailedLeavesCall DEF OuterTimeout
<1>4. reqs' = [reqs EXCEPT ![r] = [reqs[r] EXCEPT !.open = FALSE, !.value = None,
                                                  !.end = "dropped", !.shown = "rejected"]]
  BY DEF OuterTimeout
<1>5. [reqs[r] EXCEPT !.open = FALSE, !.value = None, !.end = "dropped", !.shown = "rejected"]
        \in Request
  BY <1>2 DEF Request
<1>6. /\ reqs' \in [Requests -> Request] /\ \A s \in Requests \ {r} : reqs'[s] = reqs[s]
      /\ reqs'[r] = [reqs[r] EXCEPT !.open = FALSE, !.value = None, !.end = "dropped",
                                    !.shown = "rejected"]
  BY <1>2, <1>4, <1>5 DEF Typed, TypeOK
<1>7. Touches(g, r) /\ ~ reqs'[r].open /\ reqs'[r].value = None /\ reqs'[r].end = "dropped"
  BY <1>2, <1>6 DEF Touches, Request
<1> QED
  BY <1>1, <1>3, <1>7 DEF Ends, LeavesCall

\* The call goes ahead: an approved edit is recorded for the rest of its turn.
GoesAhead(g) ==
  /\ Steps(g)
  /\ agents'[g].pc = IF IsMain(g) THEN "running" ELSE "unboxed"
  /\ agents'[g].req = agents[g].req /\ agents'[g].main = agents[g].main
  /\ agents'[g].turn = agents[g].turn /\ agents'[g].mode = agents[g].mode
  /\ agents'[g].tool = agents[g].tool /\ agents'[g].decision = agents[g].decision
  /\ IF IsMain(g) /\ agents[g].tool = "Edit" THEN agents'[g].approved = Recorded(g)
     ELSE agents'[g].approved = agents[g].approved

LEMMA RecordedType ==
  ASSUME Typed, NEW g \in Generations
  PROVE  /\ Recorded(g) \in SUBSET Nat /\ IsFiniteSet(Recorded(g))
         /\ Cardinality(Recorded(g)) <= MaxApprovedTurns
         /\ Recorded(g) \subseteq agents[g].approved \cup {agents[g].turn}
<1> DEFINE approved == agents[g].approved \cup {agents[g].turn}
<1>1. approved \in SUBSET Nat
  BY DEF Typed, TypeOK, Agent
<1>2. IsFiniteSet(approved) /\ Cardinality(approved) \in Nat
  BY FS_AddElement, FS_CardinalityType DEF Typed, FiniteApprovals
<1>3. IsFiniteSet({}) /\ Cardinality({}) = 0 /\ MaxApprovedTurns \in Nat
  BY FS_EmptySet
<1> QED
  BY <1>1, <1>2, <1>3 DEF Recorded

LEMMA ConcludeStep ==
  ASSUME Handler, NEW g \in Generations, Conclude(g)
  PROVE  /\ agents[g].pc = "forgetting"
         /\ pending' = Forgotten(g) /\ UNCHANGED <<session, clients>>
         /\ \/ /\ agents[g].got = "approved"
               /\ Ends(g, agents[g].req, "approved") /\ GoesAhead(g)
            \/ /\ agents[g].got = "rejected"
               /\ Ends(g, agents[g].req, "rejected") /\ LeavesCall(g) /\ agents'[g].pc = "idle"
            \/ /\ agents[g].got = "late"
               /\ Ends(g, agents[g].req, "timedout") /\ LeavesCall(g)
               /\ agents'[g].pc = "idle" \/ agents[g].mode # "planner"
<1> DEFINE r == agents[g].req
<1>1. /\ agents[g].pc = "forgetting" /\ agents[g] \in Agent
      /\ pending' = Forgotten(g) /\ UNCHANGED <<session, clients>>
  BY DEF Conclude, Handler, Typed, TypeOK
<1>2. r \in Requests /\ reqs[r] \in Request /\ reqs[r].gen = g /\ reqs[r].end = None
  BY <1>1, MyRequest DEF My, Handler, Asking
<1>3. ~ reqs[r].open /\ reqs[r].value = None
  BY <1>1, <1>2 DEF Handler, ChannelsOpen, AnswersWereSent, My
<1>4. ASSUME NEW end \in {"approved", "rejected"},
             reqs' = [reqs EXCEPT ![r].end = end, ![r].shown = end]
      PROVE  Touches(g, r) /\ ~ reqs'[r].open /\ reqs'[r].value = None /\ reqs'[r].end = end
  <2>1. reqs' = [reqs EXCEPT ![r] = [reqs[r] EXCEPT !.end = end, !.shown = end]]
    BY <1>2, <1>4 DEF Handler, Typed, TypeOK
  <2>2. [reqs[r] EXCEPT !.end = end, !.shown = end] \in Request
    BY <1>2 DEF Request
  <2>3. /\ reqs' \in [Requests -> Request] /\ \A s \in Requests \ {r} : reqs'[s] = reqs[s]
        /\ reqs'[r] = [reqs[r] EXCEPT !.end = end, !.shown = end]
    BY <1>2, <2>1, <2>2 DEF Handler, Typed, TypeOK
  <2> QED
    BY <1>2, <1>3, <2>3 DEF Touches, Request
<1>5. CASE /\ agents[g].got = "approved"
           /\ agents' = [agents EXCEPT
                ![g].pc = IF IsMain(g) THEN "running" ELSE "unboxed",
                ![g].approved = IF IsMain(g) /\ agents[g].tool = "Edit" THEN Recorded(g) ELSE @]
           /\ reqs' = [reqs EXCEPT ![r].end = "approved", ![r].shown = "approved"]
  <2> DEFINE pc == IF IsMain(g) THEN "running" ELSE "unboxed"
             approved == IF IsMain(g) /\ agents[g].tool = "Edit" THEN Recorded(g)
                         ELSE agents[g].approved
  <2>1. approved \in SUBSET Nat /\ pc \in {"running", "unboxed"}
    BY <1>1, RecordedType DEF Handler, Agent
  <2>2. agents' = [agents EXCEPT ![g] = [agents[g] EXCEPT !.pc = pc, !.approved = approved]]
    BY <1>5 DEF Handler, Typed, TypeOK
  <2> HIDE DEF pc, approved
  <2>3. [agents[g] EXCEPT !.pc = pc, !.approved = approved] \in Agent
    BY <1>1, <2>1 DEF Agent
  <2>4. Steps(g) /\ agents'[g] = [agents[g] EXCEPT !.pc = pc, !.approved = approved]
    BY <2>2, <2>3, PutAgent DEF Handler
  <2>5. /\ agents'[g].pc = pc /\ agents'[g].approved = approved
        /\ agents'[g].req = agents[g].req /\ agents'[g].main = agents[g].main
        /\ agents'[g].turn = agents[g].turn /\ agents'[g].mode = agents[g].mode
        /\ agents'[g].tool = agents[g].tool /\ agents'[g].decision = agents[g].decision
    BY <1>1, <2>4 DEF Agent
  <2>6. GoesAhead(g)
    BY <2>4, <2>5 DEF GoesAhead, pc, approved
  <2>7. Ends(g, r, "approved")
    BY <1>1, <1>4, <1>5, <2>1, <2>4, <2>5 DEF Ends, Asking, Between
  <2> QED
    BY <1>1, <1>5, <2>6, <2>7
<1>6. CASE /\ agents[g].got = "rejected" /\ Failed(g, agents[g], "rejected")
           /\ reqs' = [reqs EXCEPT ![r].end = "rejected", ![r].shown = "rejected"]
  <2>1. LeavesCall(g) /\ agents'[g].pc = "idle"
    BY <1>1, <1>6, FailedLeavesCall DEF Handler
  <2>2. Ends(g, r, "rejected")
    BY <1>1, <1>4, <1>6, <2>1 DEF Ends, LeavesCall, Asking
  <2> QED
    BY <1>1, <1>6, <2>1, <2>2
<1>7. CASE /\ agents[g].got = "late" /\ Failed(g, agents[g], "timedout")
           /\ reqs' = [reqs EXCEPT ![r].end = "timedout"]
  <2>1. LeavesCall(g) /\ (agents'[g].pc = "idle" \/ agents[g].mode # "planner")
    BY <1>1, <1>7, FailedLeavesCall DEF Handler
  <2>2. [reqs[r] EXCEPT !.end = "timedout"] \in Request
    BY <1>2 DEF Request
  <2>3. /\ reqs' \in [Requests -> Request] /\ \A s \in Requests \ {r} : reqs'[s] = reqs[s]
        /\ reqs'[r] = [reqs[r] EXCEPT !.end = "timedout"]
    BY <1>2, <1>7, <2>2 DEF Handler, Typed, TypeOK
  <2>4. /\ Touches(g, r) /\ ~ reqs'[r].open /\ reqs'[r].value = None
        /\ reqs'[r].end = "timedout"
    BY <1>2, <1>3, <2>3 DEF Touches, Request
  <2>5. Ends(g, r, "timedout")
    BY <1>1, <2>1, <2>4 DEF Ends, LeavesCall, Asking
  <2> QED
    BY <1>1, <1>7, <2>1, <2>5
<1> QED
  BY <1>5, <1>6, <1>7 DEF Conclude

\* An abort ends the request its agent asks, if it asks.
LEMMA AbortStep ==
  ASSUME Handler, NEW g \in Generations, Abort(g)
  PROVE  /\ LeavesCall(g) /\ agents'[g].pc = "idle"
         /\ UNCHANGED <<session, pending, clients>>
         /\ \/ agents[g].pc \notin Asking /\ UNCHANGED reqs
            \/ Ends(g, agents[g].req, "aborted")
<1> DEFINE r == agents[g].req
<1>1. agents' = [agents EXCEPT ![g] = CallOver(agents[g], "idle")]
      /\ UNCHANGED <<session, pending, clients>>
  BY DEF Abort
<1>2. LeavesCall(g) /\ agents'[g].pc = "idle"
  BY <1>1, OverLeavesCall DEF Handler, Between
<1>3. CASE agents[g].pc \in Asking
  <2>1. r \in Requests /\ reqs[r] \in Request /\ reqs[r].gen = g /\ reqs[r].end = None
    BY <1>3, MyRequest DEF My, Handler
  <2>2. reqs' = [reqs EXCEPT ![r] = [reqs[r] EXCEPT !.open = FALSE, !.value = None,
                                                    !.end = "aborted"]]
    BY <2>1 DEF Abort, My
  <2>3. [reqs[r] EXCEPT !.open = FALSE, !.value = None, !.end = "aborted"] \in Request
    BY <2>1 DEF Request
  <2>4. /\ reqs' \in [Requests -> Request] /\ \A s \in Requests \ {r} : reqs'[s] = reqs[s]
        /\ reqs'[r] = [reqs[r] EXCEPT !.open = FALSE, !.value = None, !.end = "aborted"]
    BY <2>1, <2>2, <2>3 DEF Handler, Typed, TypeOK
  <2>5. Touches(g, r) /\ ~ reqs'[r].open /\ reqs'[r].value = None /\ reqs'[r].end = "aborted"
    BY <2>1, <2>4 DEF Touches, Request
  <2>6. Ends(g, r, "aborted")
    BY <1>2, <1>3, <2>5 DEF Ends, LeavesCall
  <2> QED
    BY <1>1, <1>2, <2>6
<1>4. CASE agents[g].pc \notin Asking
  <2>1. r = NoRequest \/ My(g).end # None
    BY <1>4 DEF Handler, AskingAwaits, AwaitedByAgent, My
  <2>2. UNCHANGED reqs
    BY <2>1 DEF Abort
  <2> QED
    BY <1>1, <1>2, <1>4, <2>2
<1> QED
  BY <1>3, <1>4

-----------------------------------------------------------------------------
(* What the steps of a client do *)

\* Client c takes a step and keeps its type; no other client does anything.
Calls(c) ==
  /\ clients' \in [Clients -> Resolve]
  /\ \A d \in Clients \ {c} : clients'[d] = clients[d]

\* The client goes on with its answer, or gives it up without effect.
GoesOnTo(c, pc, reply) ==
  /\ Calls(c) /\ clients'[c].pc = pc /\ clients'[c].reply = reply
  /\ clients'[c].req = clients[c].req /\ clients'[c].value = clients[c].value
  /\ clients'[c].gen = clients[c].gen

GivesUp(c) ==
  /\ Calls(c) /\ clients'[c].pc = "done" /\ clients'[c].req = NoRequest
  /\ clients'[c].reply \notin {None, "resolved"}

LEMMA ReplyGivesUp ==
  ASSUME Typed, NEW c \in Clients, NEW reply \in {"conflict", "not found"}, Reply(c, reply)
  PROVE  GivesUp(c)
<1>1. [Caller EXCEPT !.pc = "done", !.reply = reply] \in Resolve
  BY DEF Caller, Resolve
<1>2. clients' = [clients EXCEPT ![c] = [Caller EXCEPT !.pc = "done", !.reply = reply]]
  BY DEF Reply
<1>3. Calls(c) /\ clients'[c] = [Caller EXCEPT !.pc = "done", !.reply = reply]
  BY <1>1, <1>2 DEF Calls, Typed, TypeOK
<1> QED
  BY <1>3 DEF GivesUp, Caller

LEMMA CallResolveStep ==
  ASSUME Handler, NEW c \in Clients, NEW r \in Requests, NEW value \in {"approved", "rejected"},
         CallResolve(c, r, value)
  PROVE  /\ clients[c].pc = "idle" /\ UNCHANGED <<session, agents, pending, reqs>>
         /\ reqs[r].end # "new"
         /\ \/ GivesUp(c)
            \/ /\ Calls(c) /\ clients'[c].pc = "found" /\ clients'[c].reply = None
               /\ clients'[c].req = r /\ clients'[c].value = value
               /\ clients'[c].gen \in Generations
<1>1. clients[c].pc = "idle" /\ UNCHANGED <<session, agents, pending, reqs>>
  BY DEF CallResolve
<1>2. reqs[r].end # "new"
  BY DEF CallResolve, Handler, NewIsUntouched, New
<1>3. CASE r \in session.resolved
  BY <1>1, <1>2, <1>3, ReplyGivesUp DEF CallResolve, Handler
<1>4. CASE r \notin session.resolved
  <2> DEFINE found == [Caller EXCEPT !.pc = "found", !.req = r, !.value = value, !.gen = Current]
  <2>1. clients' = [clients EXCEPT ![c] = found]
    BY <1>4 DEF CallResolve
  <2>2. Current \in Generations
    BY DEF Current, Handler, Typed, TypeOK
  <2>3. found \in Resolve
    BY <2>2 DEF Caller, Resolve
  <2>4. Calls(c) /\ clients'[c] = found
    BY <2>1, <2>3 DEF Calls, Handler, Typed, TypeOK
  <2> QED
    BY <1>1, <1>2, <2>2, <2>4 DEF Caller
<1> QED
  BY <1>3, <1>4

LEMMA TakeSenderStep ==
  ASSUME Handler, NEW c \in Clients, TakeSender(c)
  PROVE  /\ clients[c].pc = "found" /\ UNCHANGED <<session, agents, reqs>>
         /\ clients[c].gen \in Generations
         /\ \/ GivesUp(c) /\ UNCHANGED pending
            \/ /\ clients[c].req \in pending[clients[c].gen] /\ pending' = Taken(c)
               /\ GoesOnTo(c, "holds", None)
<1>1. /\ clients[c].pc = "found" /\ UNCHANGED <<session, agents, reqs>>
      /\ clients[c] \in Resolve /\ clients[c].gen \in Generations /\ clients[c].reply = None
  BY DEF TakeSender, Handler, ClientsKnow, Typed, TypeOK
<1>2. CASE clients[c].req \in pending[clients[c].gen]
  <2>1. clients' = [clients EXCEPT ![c].pc = "holds"] /\ pending' = Taken(c)
    BY <1>2 DEF TakeSender
  <2>2. [clients[c] EXCEPT !.pc = "holds"] \in Resolve
    BY <1>1 DEF Resolve
  <2>3. Calls(c) /\ clients'[c] = [clients[c] EXCEPT !.pc = "holds"]
    BY <2>1, <2>2 DEF Calls, Handler, Typed, TypeOK
  <2> QED
    BY <1>1, <1>2, <2>1, <2>3 DEF GoesOnTo, Resolve
<1>3. CASE clients[c].req \notin pending[clients[c].gen]
  BY <1>1, <1>3, ReplyGivesUp DEF TakeSender, Handler
<1> QED
  BY <1>2, <1>3

LEMMA SendAnswerStep ==
  ASSUME Handler, NEW c \in Clients, SendAnswer(c)
  PROVE  /\ clients[c].pc = "holds" /\ UNCHANGED <<session, agents, pending>>
         /\ \/ GivesUp(c) /\ UNCHANGED reqs /\ ~ reqs[clients[c].req].open
            \/ /\ GoesOnTo(c, "sent", None)
               /\ reqs[clients[c].req].open
               /\ Touches(reqs[clients[c].req].gen, clients[c].req)
               /\ reqs'[clients[c].req].value = clients[c].value
               /\ reqs'[clients[c].req].open /\ reqs'[clients[c].req].end = None
<1> DEFINE r == clients[c].req
<1>1. /\ clients[c].pc = "holds" /\ UNCHANGED <<session, agents, pending>>
      /\ clients[c] \in Resolve /\ clients[c].reply = None
      /\ r \in Requests /\ clients[c].value \in {"approved", "rejected"} /\ reqs[r] \in Request
  BY DEF SendAnswer, Handler, ClientsKnow, Typed, TypeOK
<1>2. CASE reqs[r].open
  <2>1. reqs[r].end = None /\ agents[reqs[r].gen].req = r
    BY <1>1, <1>2 DEF Handler, ChannelsOpen, AwaitedByAgent
  <2>2. /\ clients' = [clients EXCEPT ![c].pc = "sent"]
        /\ reqs' = [reqs EXCEPT ![r].value = clients[c].value]
    BY <1>2 DEF SendAnswer
  <2>3. [clients[c] EXCEPT !.pc = "sent"] \in Resolve
    BY <1>1 DEF Resolve
  <2>4. Calls(c) /\ clients'[c] = [clients[c] EXCEPT !.pc = "sent"]
    BY <2>2, <2>3 DEF Calls, Handler, Typed, TypeOK
  <2>5. [reqs[r] EXCEPT !.value = clients[c].value] \in Request
    BY <1>1 DEF Request
  <2>6. /\ reqs' \in [Requests -> Request] /\ \A s \in Requests \ {r} : reqs'[s] = reqs[s]
        /\ reqs'[r] = [reqs[r] EXCEPT !.value = clients[c].value]
    BY <1>1, <2>2, <2>5 DEF Handler, Typed, TypeOK
  <2>7. /\ Touches(reqs[r].gen, r) /\ reqs'[r].value = clients[c].value /\ reqs'[r].open
        /\ reqs'[r].end = None
    BY <1>1, <1>2, <2>1, <2>6 DEF Touches, Request
  <2>8. GoesOnTo(c, "sent", None)
    BY <1>1, <2>4 DEF GoesOnTo, Resolve
  <2> QED
    BY <1>1, <1>2, <2>7, <2>8
<1>3. CASE ~ reqs[r].open
  BY <1>1, <1>3, ReplyGivesUp DEF SendAnswer, Handler
<1> QED
  BY <1>2, <1>3

LEMMA AcknowledgeStep ==
  ASSUME Handler, NEW c \in Clients, Acknowledge(c)
  PROVE  /\ clients[c].pc = "sent" /\ UNCHANGED <<agents, pending, reqs>>
         /\ session' \in [gen : Generations, resolved : SUBSET Requests]
         /\ GoesOnTo(c, "done", "resolved")
<1>1. /\ clients[c].pc = "sent" /\ UNCHANGED <<agents, pending, reqs>>
      /\ clients[c] \in Resolve /\ clients[c].req \in Requests
  BY DEF Acknowledge, Handler, ClientsKnow, Typed, TypeOK
<1>2. session' \in [gen : Generations, resolved : SUBSET Requests]
  BY <1>1 DEF Acknowledge, Handler, Typed, TypeOK
<1>3. clients' = [clients EXCEPT ![c] = [clients[c] EXCEPT !.pc = "done", !.reply = "resolved"]]
  BY <1>1 DEF Acknowledge, Reply, Handler, Typed, TypeOK
<1>4. [clients[c] EXCEPT !.pc = "done", !.reply = "resolved"] \in Resolve
  BY <1>1 DEF Resolve
<1>5. Calls(c) /\ clients'[c] = [clients[c] EXCEPT !.pc = "done", !.reply = "resolved"]
  BY <1>3, <1>4 DEF Calls, Handler, Typed, TypeOK
<1> QED
  BY <1>1, <1>2, <1>5 DEF GoesOnTo, Resolve

-----------------------------------------------------------------------------
(* The invariant of the handler *)

LEMMA HandlerStart == Init => Handler
<1> SUFFICES ASSUME Init PROVE Handler
  OBVIOUS
<1>1. /\ session = [gen |-> 1, resolved |-> {}]
      /\ agents \in [Generations -> Agent] /\ pending \in [Generations -> SUBSET Requests]
      /\ reqs \in [Requests -> Request] /\ clients \in [Clients -> Resolve]
  BY StartTypes DEF Init
<1>2. \A g \in Generations : agents[g] = Idle /\ pending[g] = {}
  BY DEF Init
<1>3. \A r \in Requests : reqs[r] = New
  BY DEF Init
<1>4. \A c \in Clients : clients[c] = Caller
  BY DEF Init
<1>5. Typed
  <2>1. \A g \in Generations : agents[g].approved = {}
    BY <1>2 DEF Idle
  <2>2. session \in [gen : Generations, resolved : SUBSET Requests]
    BY <1>1
  <2>3. \A g \in Generations : /\ IsFiniteSet(agents[g].approved)
                               /\ Cardinality(agents[g].approved) <= MaxApprovedTurns
    BY <2>1, StartTypes
  <2> QED
    BY <1>1, <2>2, <2>3 DEF Typed, TypeOK, FiniteApprovals
<1>6. /\ AskingAwaits /\ AwaitedByAgent /\ ChannelsOpen /\ AnswersWereSent /\ PendingIsOwn
      /\ WaitingIsAnswerable
  BY <1>2, <1>3 DEF AskingAwaits, AwaitedByAgent, ChannelsOpen, AnswersWereSent, PendingIsOwn,
                    WaitingIsAnswerable, Asking, Idle, New
<1>7. NewIsUntouched /\ ClientsKnow /\ SendersAreTakenOnce
  BY <1>2, <1>3, <1>4 DEF NewIsUntouched, ClientsKnow, SendersAreTakenOnce, Owns, Caller
<1> QED
  BY <1>5, <1>6, <1>7 DEF Handler

\* What the type invariant asks of the approvals of an agent that takes a step.
ApprovalsFit(g) ==
  IsFiniteSet(agents'[g].approved) /\ Cardinality(agents'[g].approved) <= MaxApprovedTurns

LEMMA StepIsTyped ==
  ASSUME Typed, NEW g \in Generations, Steps(g), ApprovalsFit(g),
         session' \in [gen : Generations, resolved : SUBSET Requests],
         pending' \in [Generations -> SUBSET Requests], reqs' \in [Requests -> Request],
         clients' \in [Clients -> Resolve]
  PROVE  Typed'
<1>1. /\ agents' \in [Generations -> Agent]
      /\ \A h \in Generations : h = g \/ agents'[h] = agents[h]
  BY DEF Steps
<1>2. \A h \in Generations : IsFiniteSet(agents'[h].approved)
                             /\ Cardinality(agents'[h].approved) <= MaxApprovedTurns
  BY <1>1 DEF ApprovalsFit, Typed, TypeOK, FiniteApprovals
<1> QED
  BY <1>1, <1>2 DEF Typed, TypeOK, FiniteApprovals

LEMMA SameApprovalsFit ==
  ASSUME Typed, NEW g \in Generations, agents'[g].approved = agents[g].approved
  PROVE  ApprovalsFit(g)
BY DEF Typed, TypeOK, FiniteApprovals, ApprovalsFit

\* No client moves, an agent that has an answer had it, and a request that is touched has no
\* answer in its channel and none that ended it.
NoNewAnswer ==
  /\ UNCHANGED clients
  /\ \A g \in Generations : agents'[g].pc = "forgetting" => agents'[g] = agents[g]
  /\ \A r \in Requests :
       \/ reqs'[r] = reqs[r]
       \/ reqs'[r].value = None /\ reqs'[r].end \notin {"approved", "rejected"}

LEMMA AnswersStay == ASSUME AnswersWereSent, NoNewAnswer PROVE AnswersWereSent'
<1>1. ASSUME NEW r
      PROVE  Senders(r)' = Senders(r)
  BY DEF Senders, NoNewAnswer
<1>2. ASSUME NEW r \in Requests
      PROVE  /\ reqs'[r].value # None =>
                  reqs'[r].open /\ \E c \in Senders(r)' : clients'[c].value = reqs'[r].value
             /\ reqs'[r].end \in {"approved", "rejected"} =>
                  \E c \in Senders(r)' : clients'[c].value = reqs'[r].end
  <2>1. CASE reqs'[r] = reqs[r]
    BY <1>1, <2>1 DEF AnswersWereSent, NoNewAnswer
  <2>2. CASE reqs'[r].value = None /\ reqs'[r].end \notin {"approved", "rejected"}
    BY <2>2
  <2> QED
    BY <2>1, <2>2 DEF NoNewAnswer
<1>3. ASSUME NEW g \in Generations, agents'[g].pc = "forgetting", agents'[g].got # "late"
      PROVE  /\ agents'[g].got \in {"approved", "rejected"}
             /\ \E c \in Senders(agents[g].req)' : clients'[c].value = agents'[g].got
  <2>1. agents'[g] = agents[g]
    BY <1>3 DEF NoNewAnswer
  <2>2. /\ agents[g].got \in {"approved", "rejected"}
        /\ \E c \in Senders(agents[g].req) : clients[c].value = agents[g].got
    BY <1>3, <2>1 DEF AnswersWereSent
  <2> QED
    BY <2>1, <2>2 DEF Senders, NoNewAnswer
<1> QED
  BY <1>2, <1>3 DEF AnswersWereSent

\* A request that waits can still be answered when no client moves and the maps keep what
\* the agents that wait have in them.
LEMMA WaitersStay ==
  ASSUME WaitingIsAnswerable, UNCHANGED clients,
         \A g \in Generations : agents'[g].pc \in {"waiting", "expired"} =>
           \/ /\ agents[g].pc \in {"waiting", "expired"} /\ agents'[g].req = agents[g].req
              /\ My(g)' = My(g)
              /\ agents[g].req \in pending[g] => agents[g].req \in pending'[g]
           \/ agents'[g].req \in pending'[g]
  PROVE  WaitingIsAnswerable'
<1> SUFFICES ASSUME NEW g \in Generations, agents'[g].pc \in {"waiting", "expired"},
                    My(g)'.value = None
             PROVE  \/ agents'[g].req \in pending'[g]
                    \/ \E c \in Clients : clients'[c].req = agents'[g].req
                                          /\ clients'[c].pc = "holds"
  BY DEF WaitingIsAnswerable
<1>1. CASE agents'[g].req \in pending'[g]
  BY <1>1
<1>2. CASE /\ agents[g].pc \in {"waiting", "expired"} /\ agents'[g].req = agents[g].req
           /\ My(g)' = My(g)
           /\ agents[g].req \in pending[g] => agents[g].req \in pending'[g]
  <2>1. \/ agents[g].req \in pending[g]
        \/ \E c \in Clients : clients[c].req = agents[g].req /\ clients[c].pc = "holds"
    BY <1>2 DEF WaitingIsAnswerable
  <2> QED
    BY <1>2, <2>1
<1> QED
  BY <1>1, <1>2

\* An agent that asks nothing, before and after.
LEMMA QuietStep ==
  ASSUME Handler, NEW g \in Generations, Steps(g),
         agents[g].pc \notin Asking, agents'[g].pc \notin Asking,
         agents'[g].pc \in Between => agents'[g].req = NoRequest,
         agents'[g].req # NoRequest => agents'[g].req = agents[g].req,
         agents'[g].approved = agents[g].approved,
         UNCHANGED <<session, pending, reqs, clients>>
  PROVE  Handler'
<1> USE DEF Handler
<1>1. \A h \in Generations : h = g \/ agents'[h] = agents[h]
  BY DEF Steps
<1>2. Typed'
  BY StepIsTyped, SameApprovalsFit DEF Typed, TypeOK
<1>3. AskingAwaits'
  BY <1>1 DEF AskingAwaits, My
<1>4. AwaitedByAgent'
  BY <1>1 DEF AwaitedByAgent
<1>5. ChannelsOpen'
  BY <1>1 DEF ChannelsOpen, My, Asking
<1>6. AnswersWereSent'
  <2>1. \A q \in Requests : \/ reqs'[q] = reqs[q]
                            \/ reqs'[q].value = None
                               /\ reqs'[q].end \notin {"approved", "rejected"}
    OBVIOUS
  <2>2. \A h \in Generations : agents'[h].pc = "forgetting" => agents'[h] = agents[h]
    BY <1>1 DEF Asking
  <2>3. clients' = clients
    OBVIOUS
  <2>4. NoNewAnswer
    BY <2>1, <2>2, <2>3 DEF NoNewAnswer
  <2> QED
    BY <2>4, AnswersStay
<1>7. NewIsUntouched' /\ ClientsKnow' /\ PendingIsOwn'
  <2>1. NewIsUntouched' /\ ClientsKnow'
    BY DEF NewIsUntouched, ClientsKnow
  <2>2. \A h \in Generations : agents'[h].pc = "registering" => agents'[h] = agents[h]
    BY <1>1 DEF Asking
  <2>3. PendingIsOwn'
    BY <2>2 DEF PendingIsOwn
  <2> QED
    BY <2>1, <2>3
<1>8. SendersAreTakenOnce'
  BY <1>1 DEF SendersAreTakenOnce, Owns, Asking
<1>9. WaitingIsAnswerable'
  BY <1>1, WaitersStay DEF My, Asking
<1> QED
  BY <1>2, <1>3, <1>4, <1>5, <1>6, <1>7, <1>8, <1>9

\* An agent that asks a new request.
LEMMA AskedStep ==
  ASSUME Handler, NEW g \in Generations, NEW r \in Requests, Asks(g, r),
         agents[g].pc \notin Asking, UNCHANGED <<session, pending, clients>>
  PROVE  Handler'
<1> USE DEF Handler
<1>1. /\ \A h \in Generations : h = g \/ agents'[h] = agents[h]
      /\ \A s \in Requests : s = r \/ reqs'[s] = reqs[s]
      /\ reqs[r].end = "new"
  BY DEF Asks, Steps, Fresh
<1>2. Typed'
  BY StepIsTyped, SameApprovalsFit DEF Asks, Typed, TypeOK
<1>3. \A h \in Generations : agents[h].req # r
  BY <1>1 DEF AskingAwaits, My
<1>4. AskingAwaits'
  <2> SUFFICES ASSUME NEW h \in Generations
               PROVE  /\ agents'[h].pc \in Asking =>
                           /\ agents'[h].req \in Requests
                           /\ My(h)'.gen = h /\ My(h)'.turn = agents'[h].turn
                           /\ My(h)'.tool = agents'[h].tool /\ My(h)'.end = None
                      /\ agents'[h].pc \in Between => agents'[h].req = NoRequest
                      /\ agents'[h].req # NoRequest =>
                           /\ agents'[h].req \in Requests
                           /\ My(h)'.gen = h /\ My(h)'.end # "new"
    BY DEF AskingAwaits
  <2>1. CASE h = g
    BY <2>1 DEF My, Asks, Between
  <2>2. CASE h # g
    <3>1. agents'[h] = agents[h] /\ agents[h].req # r
      BY <1>1, <1>3, <2>2
    <3>2. agents[h].req \in Requests => My(h)' = My(h)
      BY <1>1, <3>1 DEF My
    <3> QED
      BY <3>1, <3>2 DEF AskingAwaits
  <2> QED
    BY <2>1, <2>2
<1>5. AwaitedByAgent'
  <2> SUFFICES ASSUME NEW s \in Requests, reqs'[s].end = None
               PROVE  /\ reqs'[s].gen \in Generations
                      /\ agents'[reqs'[s].gen].req = s
                      /\ agents'[reqs'[s].gen].pc \in Asking
    BY DEF AwaitedByAgent
  <2>1. CASE s = r
    BY <2>1 DEF Asks, Asking
  <2>2. CASE s # r
    <3>1. reqs'[s] = reqs[s]
      BY <1>1, <2>2
    <3>2. /\ reqs[s].gen \in Generations /\ agents[reqs[s].gen].req = s
          /\ agents[reqs[s].gen].pc \in Asking
      BY <3>1 DEF AwaitedByAgent
    <3> QED
      BY <1>1, <3>1, <3>2
  <2> QED
    BY <2>1, <2>2
<1>6. ChannelsOpen'
  <2>1. \A s \in Requests : reqs'[s].open => reqs'[s].end = None
    BY <1>1 DEF ChannelsOpen, Asks
  <2> SUFFICES ASSUME NEW h \in Generations
               PROVE  /\ agents'[h].pc \in {"registering", "waiting", "expired"} => My(h)'.open
                      /\ agents'[h].pc = "forgetting" => ~ My(h)'.open
    BY <2>1 DEF ChannelsOpen
  <2>2. CASE h = g
    BY <2>2 DEF My, Asks
  <2>3. CASE h # g
    <3>1. agents'[h] = agents[h] /\ agents[h].req # r
      BY <1>1, <1>3, <2>3
    <3>2. agents[h].pc \in Asking => My(h)' = My(h)
      BY <1>1, <3>1 DEF My, AskingAwaits
    <3> QED
      BY <3>1, <3>2 DEF ChannelsOpen, Asking
  <2> QED
    BY <2>2, <2>3
<1>7. AnswersWereSent'
  <2>1. \A q \in Requests : \/ reqs'[q] = reqs[q]
                            \/ reqs'[q].value = None
                               /\ reqs'[q].end \notin {"approved", "rejected"}
    BY <1>1 DEF Asks
  <2>2. \A h \in Generations : agents'[h].pc = "forgetting" => agents'[h] = agents[h]
    BY <1>1 DEF Asks
  <2>3. clients' = clients
    OBVIOUS
  <2>4. NoNewAnswer
    BY <2>1, <2>2, <2>3 DEF NoNewAnswer
  <2> QED
    BY <2>4, AnswersStay
<1>8. NewIsUntouched' /\ ClientsKnow'
  BY <1>1 DEF NewIsUntouched, ClientsKnow, Asks
<1>9. PendingIsOwn'
  <2>1. \A h \in Generations : r \notin pending[h] /\ pending'[h] = pending[h]
                               /\ pending[h] \subseteq Requests
    BY <1>1 DEF NewIsUntouched, Typed, TypeOK
  <2> QED
    <3>1. \A h \in Generations : \A s \in pending'[h] :
            reqs'[s].gen = h /\ reqs'[s].end \in {None, "dropped", "aborted"}
      <4> TAKE h \in Generations
      <4> TAKE s \in pending'[h]
      <4>1. s \in pending[h] /\ s \in Requests /\ s # r
        BY <2>1
      <4> QED
        BY <1>1, <4>1 DEF PendingIsOwn
    <3>2. agents'[g].req = r
      BY DEF Asks
    <3>3. \A h \in Generations : agents'[h].pc = "registering" => agents'[h].req \notin pending'[h]
      BY <1>1, <2>1, <3>2 DEF PendingIsOwn
    <3> QED
      BY <3>1, <3>3 DEF PendingIsOwn
<1>10. SendersAreTakenOnce'
  BY <1>1 DEF SendersAreTakenOnce, Owns, NewIsUntouched, Asks
<1>11. WaitingIsAnswerable'
  <2>1. ASSUME NEW h \in Generations, agents'[h].pc \in {"waiting", "expired"}
        PROVE  agents'[h] = agents[h] /\ My(h)' = My(h)
    <3>1. agents'[h] = agents[h]
      BY <1>1, <2>1 DEF Asks
    <3>2. agents[h].req \in Requests /\ agents[h].req # r
      BY <1>3, <2>1, <3>1 DEF AskingAwaits, Asking
    <3> QED
      BY <1>1, <3>1, <3>2 DEF My
  <2> QED
    BY <2>1, WaitersStay
<1> QED
  BY <1>2, <1>4, <1>5, <1>6, <1>7, <1>8, <1>9, <1>10, <1>11

\* The handler puts the sender into its map.
LEMMA RegisteredStep ==
  ASSUME Handler, NEW g \in Generations, Register(g)
  PROVE  Handler'
<1> USE DEF Handler
<1> DEFINE r == agents[g].req
<1>1. /\ agents[g].pc = "registering" /\ agents[g] \in Agent
      /\ r \in Requests /\ UNCHANGED <<session, reqs, clients>>
      /\ reqs[r].gen = g /\ reqs[r].end = None
  BY MyRequest DEF Register, Typed, TypeOK, Asking, My
<1>2. SameCall(g) /\ agents'[g].pc = "waiting"
  BY <1>1 DEF Register, SameCall, Steps, Agent, Typed, TypeOK
<1>3. \A h \in Generations : h = g \/ agents'[h] = agents[h]
  BY <1>2 DEF SameCall, Steps
<1>4. /\ pending' \in [Generations -> SUBSET Requests]
      /\ pending'[g] = pending[g] \cup {r}
      /\ \A h \in Generations : h = g \/ pending'[h] = pending[h]
  BY <1>1 DEF Register, Registered, Typed, TypeOK
<1>5. Typed'
  BY <1>1, <1>2, <1>4, StepIsTyped, SameApprovalsFit DEF SameCall, Typed, TypeOK
<1>6. AskingAwaits' /\ AwaitedByAgent'
  <2>1. \A h \in Generations : /\ agents'[h].req = agents[h].req
                               /\ agents'[h].turn = agents[h].turn
                               /\ agents'[h].tool = agents[h].tool
                               /\ My(h)' = My(h)
    BY <1>1, <1>2, <1>3 DEF SameCall, My
  <2>2. \A h \in Generations : /\ agents'[h].pc \in Asking <=> agents[h].pc \in Asking
                               /\ agents'[h].pc \in Between => agents[h].pc \in Between
    BY <1>1, <1>2, <1>3 DEF Asking, Between
  <2>3. AskingAwaits'
    BY <2>1, <2>2 DEF AskingAwaits
  <2>4. AwaitedByAgent'
    BY <1>1, <2>1, <2>2 DEF AwaitedByAgent
  <2> QED
    BY <2>3, <2>4
<1>7. ChannelsOpen'
  BY <1>1, <1>2, <1>3 DEF ChannelsOpen, My, SameCall
<1>8. AnswersWereSent'
  <2>1. \A q \in Requests : \/ reqs'[q] = reqs[q]
                            \/ reqs'[q].value = None
                               /\ reqs'[q].end \notin {"approved", "rejected"}
    BY <1>1
  <2>2. \A h \in Generations : agents'[h].pc = "forgetting" => agents'[h] = agents[h]
    BY <1>2, <1>3
  <2>3. clients' = clients
    BY <1>1
  <2>4. NoNewAnswer
    BY <2>1, <2>2, <2>3 DEF NoNewAnswer
  <2> QED
    BY <2>4, AnswersStay
<1>9. NewIsUntouched' /\ ClientsKnow' /\ PendingIsOwn'
  <2>1. NewIsUntouched'
    BY <1>1, <1>4 DEF NewIsUntouched
  <2>2. ClientsKnow'
    BY <1>1 DEF ClientsKnow
  <2>3. PendingIsOwn'
    BY <1>1, <1>2, <1>3, <1>4 DEF PendingIsOwn
  <2> QED
    BY <2>1, <2>2, <2>3
<1>10. SendersAreTakenOnce'
  BY <1>1, <1>2, <1>3, <1>4 DEF SendersAreTakenOnce, Owns
<1>11. WaitingIsAnswerable'
  <2>1. agents'[g].req \in pending'[g]
    BY <1>2, <1>4 DEF SameCall
  <2>2. \A h \in Generations : h # g => My(h)' = My(h)
    BY <1>1, <1>3 DEF My
  <2> QED
    BY <1>1, <1>3, <1>4, <2>1, <2>2, WaitersStay
<1> QED
  BY <1>5, <1>6, <1>7, <1>8, <1>9, <1>10, <1>11

\* The time is up.
LEMMA ExpiredStep ==
  ASSUME Handler, NEW g \in Generations, Expire(g)
  PROVE  Handler' /\ SameCall(g) /\ agents'[g].pc = "expired"
<1> USE DEF Handler
<1>1. /\ agents[g].pc = "waiting" /\ agents[g] \in Agent /\ agents[g].req \in Requests
      /\ UNCHANGED <<session, pending, reqs, clients>>
  BY MyRequest DEF Expire, Typed, TypeOK, Asking
<1>2. SameCall(g) /\ agents'[g].pc = "expired"
  BY <1>1 DEF Expire, SameCall, Steps, Agent, Typed, TypeOK
<1>3. \A h \in Generations : h = g \/ agents'[h] = agents[h]
  BY <1>2 DEF SameCall, Steps
<1>4. Typed'
  BY <1>1, <1>2, StepIsTyped, SameApprovalsFit DEF SameCall, Typed, TypeOK
<1>5. AskingAwaits' /\ AwaitedByAgent'
  <2>1. \A h \in Generations : /\ agents'[h].req = agents[h].req
                               /\ agents'[h].turn = agents[h].turn
                               /\ agents'[h].tool = agents[h].tool
                               /\ My(h)' = My(h)
    BY <1>1, <1>2, <1>3 DEF SameCall, My
  <2>2. \A h \in Generations : /\ agents'[h].pc \in Asking <=> agents[h].pc \in Asking
                               /\ agents'[h].pc \in Between => agents[h].pc \in Between
    BY <1>1, <1>2, <1>3 DEF Asking, Between
  <2>3. AskingAwaits'
    BY <2>1, <2>2 DEF AskingAwaits
  <2>4. AwaitedByAgent'
    BY <1>1, <2>1, <2>2 DEF AwaitedByAgent
  <2> QED
    BY <2>3, <2>4
<1>6. ChannelsOpen' /\ AnswersWereSent'
  <2>1. ChannelsOpen'
    BY <1>1, <1>2, <1>3 DEF ChannelsOpen, My, SameCall
  <2>2. AnswersWereSent'
    <3>1. \A r \in Requests : \/ reqs'[r] = reqs[r]
                              \/ reqs'[r].value = None
                                 /\ reqs'[r].end \notin {"approved", "rejected"}
      BY <1>1
    <3>2. \A h \in Generations : agents'[h].pc = "forgetting" => agents'[h] = agents[h]
      BY <1>2, <1>3
    <3>3. clients' = clients
      BY <1>1
    <3>4. NoNewAnswer
      BY <3>1, <3>2, <3>3 DEF NoNewAnswer
    <3> QED
      BY <3>4, AnswersStay
  <2> QED
    BY <2>1, <2>2
<1>7. NewIsUntouched' /\ ClientsKnow' /\ PendingIsOwn'
  <2>1. NewIsUntouched' /\ ClientsKnow'
    BY <1>1 DEF NewIsUntouched, ClientsKnow
  <2>2. \A h \in Generations : agents'[h].pc = "registering" => agents'[h] = agents[h]
    BY <1>2, <1>3
  <2>3. PendingIsOwn'
    BY <1>1, <2>2 DEF PendingIsOwn
  <2> QED
    BY <2>1, <2>3
<1>8. SendersAreTakenOnce'
  BY <1>1, <1>2, <1>3 DEF SendersAreTakenOnce, Owns, SameCall
<1>9. WaitingIsAnswerable'
  <2>1. \A h \in Generations : agents'[h].req = agents[h].req /\ My(h)' = My(h)
    BY <1>1, <1>2, <1>3 DEF SameCall, My
  <2> QED
    BY <1>1, <1>2, <1>3, <2>1, WaitersStay
<1> QED
  BY <1>2, <1>4, <1>5, <1>6, <1>7, <1>8, <1>9

\* The agent closes the channel, with an answer or too late for one.
LEMMA ClosedStep ==
  ASSUME Handler, NEW g \in Generations, Closes(g, agents[g].req),
         agents[g].pc \in {"waiting", "expired"},
         agents'[g].got = "late" \/ (agents'[g].got = My(g).value /\ My(g).value # None),
         UNCHANGED <<session, pending, clients>>
  PROVE  Handler'
<1> USE DEF Handler
<1> DEFINE r == agents[g].req
<1>1. /\ r \in Requests /\ reqs[r].gen = g /\ reqs[r].end = None
      /\ reqs' \in [Requests -> Request] /\ \A s \in Requests : s = r \/ reqs'[s] = reqs[s]
      /\ reqs'[r].gen = reqs[r].gen /\ reqs'[r].turn = reqs[r].turn
      /\ reqs'[r].tool = reqs[r].tool /\ reqs'[r].end = reqs[r].end
      /\ ~ reqs'[r].open /\ reqs'[r].value = None
  BY DEF Closes, Touches
<1>2. /\ \A h \in Generations : h = g \/ agents'[h] = agents[h]
      /\ SameCall(g) /\ agents'[g].pc = "forgetting"
  BY DEF Closes, SameCall, Steps
<1>3. \A h \in Generations : agents[h].req = r => h = g
  BY <1>1 DEF AskingAwaits, My
<1>4. Typed'
  BY <1>1, <1>2, StepIsTyped, SameApprovalsFit DEF SameCall, Typed, TypeOK
<1>5. \A h \in Generations : /\ agents'[h].req = agents[h].req
                             /\ agents'[h].turn = agents[h].turn
                             /\ agents'[h].tool = agents[h].tool
                             /\ agents'[h].pc \in Asking <=> agents[h].pc \in Asking
                             /\ agents'[h].pc \in Between => agents[h].pc \in Between
  BY <1>2 DEF SameCall, Asking, Between
<1>6. \A s \in Requests : /\ reqs'[s].gen = reqs[s].gen /\ reqs'[s].turn = reqs[s].turn
                          /\ reqs'[s].tool = reqs[s].tool /\ reqs'[s].end = reqs[s].end
  BY <1>1
<1>7. AskingAwaits'
  <2>1. \A h \in Generations : agents[h].req \in Requests =>
          /\ My(h)'.gen = My(h).gen /\ My(h)'.turn = My(h).turn
          /\ My(h)'.tool = My(h).tool /\ My(h)'.end = My(h).end
    <3> TAKE h \in Generations
    <3>1. My(h)' = reqs'[agents[h].req]
      BY <1>5 DEF My
    <3> QED
      BY <1>6, <3>1 DEF My
  <2> QED
    BY <1>5, <2>1 DEF AskingAwaits
<1>8. AwaitedByAgent'
  <2> SUFFICES ASSUME NEW s \in Requests, reqs'[s].end = None
               PROVE  /\ reqs'[s].gen \in Generations
                      /\ agents'[reqs'[s].gen].req = s
                      /\ agents'[reqs'[s].gen].pc \in Asking
    BY DEF AwaitedByAgent
  <2>1. reqs[s].end = None /\ reqs'[s].gen = reqs[s].gen
    BY <1>6
  <2>2. /\ reqs[s].gen \in Generations /\ agents[reqs[s].gen].req = s
        /\ agents[reqs[s].gen].pc \in Asking
    BY <2>1 DEF AwaitedByAgent
  <2> QED
    BY <1>5, <2>1, <2>2
<1>9. ChannelsOpen'
  <2>1. \A s \in Requests : reqs'[s].open => reqs'[s].end = None
    BY <1>1 DEF ChannelsOpen
  <2>2. ASSUME NEW h \in Generations
        PROVE  /\ agents'[h].pc \in {"registering", "waiting", "expired"} => My(h)'.open
               /\ agents'[h].pc = "forgetting" => ~ My(h)'.open
    <3>1. CASE h = g
      BY <1>1, <1>2, <1>5, <3>1 DEF My
    <3>2. CASE h # g
      <4>1. agents'[h] = agents[h] /\ agents[h].req # r
        BY <1>2, <1>3, <3>2
      <4>2. agents[h].pc \in Asking => agents[h].req \in Requests
        BY DEF AskingAwaits
      <4>3. agents[h].pc \in Asking => My(h)' = My(h)
        BY <1>1, <4>1, <4>2 DEF My
      <4> QED
        BY <4>1, <4>3 DEF ChannelsOpen, Asking
    <3> QED
      BY <3>1, <3>2
  <2> QED
    BY <2>1, <2>2 DEF ChannelsOpen
<1>10. AnswersWereSent'
  <2>1. \A s \in Requests :
          /\ reqs'[s].value # None =>
               reqs'[s].open /\ \E c \in Senders(s)' : clients'[c].value = reqs'[s].value
          /\ reqs'[s].end \in {"approved", "rejected"} =>
               \E c \in Senders(s)' : clients'[c].value = reqs'[s].end
    BY <1>1 DEF AnswersWereSent, Senders
  <2>2. ASSUME NEW h \in Generations, agents'[h].pc = "forgetting", agents'[h].got # "late"
        PROVE  /\ agents'[h].got \in {"approved", "rejected"}
               /\ \E c \in Senders(agents[h].req)' : clients'[c].value = agents'[h].got
    <3>1. CASE h = g
      <4>1. /\ h = g /\ agents'[g].got = reqs[r].value /\ reqs[r].value # None
            /\ agents'[g].req = r
        BY <2>2, <3>1, <1>2 DEF My, SameCall
      <4>2. \E c \in Senders(r) : clients[c].value = reqs[r].value
        BY <1>1, <4>1 DEF AnswersWereSent
      <4>3. reqs[r].value \in {"approved", "rejected"}
        BY <1>1, <4>1 DEF Typed, TypeOK, Request
      <4> QED
        BY <3>1, <4>1, <4>2, <4>3 DEF Senders
    <3>2. CASE h # g
      <4>1. agents'[h] = agents[h]
        BY <1>2, <3>2
      <4>2. /\ agents[h].got \in {"approved", "rejected"}
            /\ \E c \in Senders(agents[h].req) : clients[c].value = agents[h].got
        BY <2>2, <4>1 DEF AnswersWereSent
      <4> QED
        BY <4>1, <4>2 DEF Senders
    <3> QED
      BY <3>1, <3>2
  <2> QED
    BY <2>1, <2>2 DEF AnswersWereSent
<1>11. NewIsUntouched'
  BY <1>1 DEF NewIsUntouched
<1>12. ClientsKnow'
  BY DEF ClientsKnow
<1>13. PendingIsOwn'
  <2>1. \A h \in Generations : pending[h] \subseteq Requests /\ pending'[h] = pending[h]
    BY DEF Typed, TypeOK
  <2>2. ASSUME NEW h \in Generations, NEW s \in pending[h]
        PROVE  reqs'[s].gen = h /\ reqs'[s].end \in {None, "dropped", "aborted"}
    <3>1. s \in Requests /\ reqs[s].gen = h /\ reqs[s].end \in {None, "dropped", "aborted"}
      BY <2>1 DEF PendingIsOwn
    <3> QED
      BY <1>6, <3>1
  <2>3. \A h \in Generations : agents'[h].pc = "registering" => agents'[h] = agents[h]
    BY <1>2
  <2> QED
    BY <2>1, <2>2, <2>3 DEF PendingIsOwn
<1>14. SendersAreTakenOnce'
  BY <1>2, <1>5 DEF SendersAreTakenOnce, Owns
<1>15. WaitingIsAnswerable'
  <2>1. ASSUME NEW h \in Generations, agents'[h].pc \in {"waiting", "expired"}
        PROVE  agents'[h] = agents[h] /\ My(h)' = My(h)
    <3>1. h # g /\ agents'[h] = agents[h]
      BY <1>2, <2>1
    <3>2. agents[h].req \in Requests /\ agents[h].req # r
      BY <1>3, <2>1, <3>1 DEF AskingAwaits, Asking
    <3> QED
      BY <1>1, <3>1, <3>2 DEF My
  <2> QED
    BY <2>1, WaitersStay
<1> QED
  BY <1>4, <1>7, <1>8, <1>9, <1>10, <1>11, <1>12, <1>13, <1>14, <1>15

\* The request is over: its handler has forgotten it, or was dropped with the agent's call.
LEMMA EndedStep ==
  ASSUME Handler, NEW g \in Generations,
         NEW end \in {"approved", "rejected", "timedout", "dropped", "aborted"},
         Ends(g, agents[g].req, end), agents'[g].pc \notin Asking, ApprovalsFit(g),
         end \in {"approved", "rejected"} =>
           agents[g].pc = "forgetting" /\ agents[g].got = end,
         \/ end \in {"dropped", "aborted"} /\ UNCHANGED pending
         \/ pending' = Forgotten(g),
         UNCHANGED <<session, clients>>
  PROVE  Handler'
<1> USE DEF Handler
<1> DEFINE r == agents[g].req
<1>1. /\ r \in Requests /\ reqs[r].gen = g /\ reqs[r].end = None /\ agents[g].pc \in Asking
      /\ reqs' \in [Requests -> Request] /\ \A s \in Requests : s = r \/ reqs'[s] = reqs[s]
      /\ reqs'[r].gen = reqs[r].gen /\ reqs'[r].end = end
      /\ ~ reqs'[r].open /\ reqs'[r].value = None
  BY DEF Ends, Touches
<1>2. /\ \A h \in Generations : h = g \/ agents'[h] = agents[h]
      /\ Steps(g)
      /\ agents'[g].pc \in Between => agents'[g].req = NoRequest
      /\ agents'[g].req # NoRequest => agents'[g].req = r
  BY DEF Ends, Steps
<1>3. \A h \in Generations : agents[h].req = r => h = g
  BY <1>1 DEF AskingAwaits, My
<1>4. /\ pending' \in [Generations -> SUBSET Requests]
      /\ \A h \in Generations : pending'[h] \subseteq pending[h]
      /\ \A h \in Generations : h = g \/ pending'[h] = pending[h]
      /\ pending[g] \subseteq pending'[g] \cup {r}
      /\ end \in {"dropped", "aborted"} \/ r \notin pending'[g]
  BY DEF Forgotten, Typed, TypeOK
<1>5. Typed'
  BY <1>1, <1>2, <1>4, StepIsTyped DEF Typed, TypeOK
<1>6. ASSUME NEW h \in Generations, h # g
      PROVE  /\ agents'[h] = agents[h] /\ agents[h].req # r
             /\ agents[h].req \in Requests => My(h)' = My(h)
  BY <1>1, <1>2, <1>3, <1>6 DEF My
<1>7. AskingAwaits'
  <2> SUFFICES ASSUME NEW h \in Generations
               PROVE  /\ agents'[h].pc \in Asking =>
                           /\ agents'[h].req \in Requests
                           /\ My(h)'.gen = h /\ My(h)'.turn = agents'[h].turn
                           /\ My(h)'.tool = agents'[h].tool /\ My(h)'.end = None
                      /\ agents'[h].pc \in Between => agents'[h].req = NoRequest
                      /\ agents'[h].req # NoRequest =>
                           /\ agents'[h].req \in Requests
                           /\ My(h)'.gen = h /\ My(h)'.end # "new"
    BY DEF AskingAwaits
  <2>1. CASE h = g
    BY <1>1, <1>2, <2>1 DEF My
  <2>2. CASE h # g
    BY <1>6, <2>2 DEF AskingAwaits
  <2> QED
    BY <2>1, <2>2
<1>8. AwaitedByAgent'
  <2> SUFFICES ASSUME NEW s \in Requests, reqs'[s].end = None
               PROVE  /\ reqs'[s].gen \in Generations
                      /\ agents'[reqs'[s].gen].req = s
                      /\ agents'[reqs'[s].gen].pc \in Asking
    BY DEF AwaitedByAgent
  <2>1. s # r /\ reqs'[s] = reqs[s]
    BY <1>1
  <2>2. /\ reqs[s].gen \in Generations /\ agents[reqs[s].gen].req = s
        /\ agents[reqs[s].gen].pc \in Asking
    BY <2>1 DEF AwaitedByAgent
  <2> QED
    BY <1>2, <2>1, <2>2
<1>9. ChannelsOpen'
  <2>1. \A s \in Requests : reqs'[s].open => reqs'[s].end = None
    BY <1>1 DEF ChannelsOpen
  <2>2. ASSUME NEW h \in Generations, agents'[h].pc \in Asking
        PROVE  agents'[h] = agents[h] /\ My(h)' = My(h)
    BY <1>6, <2>2 DEF AskingAwaits
  <2> QED
    BY <2>1, <2>2 DEF ChannelsOpen, Asking
<1>10. AnswersWereSent'
  <2>1. \A s \in Requests : reqs'[s].value # None =>
          reqs'[s].open /\ \E c \in Senders(s)' : clients'[c].value = reqs'[s].value
    BY <1>1 DEF AnswersWereSent, Senders
  <2>2. \A s \in Requests : reqs'[s].end \in {"approved", "rejected"} =>
          \E c \in Senders(s)' : clients'[c].value = reqs'[s].end
    <3>1. end \in {"approved", "rejected"} => \E c \in Senders(r) : clients[c].value = end
      BY DEF AnswersWereSent
    <3> QED
      BY <1>1, <3>1 DEF AnswersWereSent, Senders
  <2>3. ASSUME NEW h \in Generations, agents'[h].pc = "forgetting"
        PROVE  agents'[h] = agents[h]
    BY <1>2, <2>3 DEF Asking
  <2>4. ASSUME NEW h \in Generations, agents'[h].pc = "forgetting", agents'[h].got # "late"
        PROVE  /\ agents'[h].got \in {"approved", "rejected"}
               /\ \E c \in Senders(agents[h].req)' : clients'[c].value = agents'[h].got
    <3>1. agents'[h] = agents[h]
      BY <2>3, <2>4
    <3>2. /\ agents[h].got \in {"approved", "rejected"}
          /\ \E c \in Senders(agents[h].req) : clients[c].value = agents[h].got
      BY <2>4, <3>1 DEF AnswersWereSent
    <3> QED
      BY <3>1, <3>2 DEF Senders
  <2> QED
    BY <2>1, <2>2, <2>4 DEF AnswersWereSent
<1>11. NewIsUntouched'
  BY <1>1, <1>4 DEF NewIsUntouched
<1>12. ClientsKnow'
  BY DEF ClientsKnow
<1>13. PendingIsOwn'
  <2>4. \A h \in Generations : agents'[h].pc = "registering" => agents'[h].req \notin pending'[h]
    BY <1>2, <1>4 DEF PendingIsOwn, Asking
  <2> SUFFICES ASSUME NEW h \in Generations, NEW s \in pending'[h]
               PROVE  reqs'[s].gen = h /\ reqs'[s].end \in {None, "dropped", "aborted"}
    BY <2>4 DEF PendingIsOwn
  <2>1. s \in pending[h] /\ s \in Requests /\ reqs[s].gen = h
        /\ reqs[s].end \in {None, "dropped", "aborted"}
    BY <1>4 DEF PendingIsOwn
  <2>2. CASE s = r
    BY <1>1, <1>4, <2>1, <2>2
  <2>3. CASE s # r
    BY <1>1, <2>1, <2>3
  <2> QED
    BY <2>2, <2>3
<1>14. SendersAreTakenOnce'
  BY <1>2, <1>4 DEF SendersAreTakenOnce, Owns, Asking
<1>15. WaitingIsAnswerable'
  <2>1. ASSUME NEW h \in Generations, agents'[h].pc \in {"waiting", "expired"}
        PROVE  agents'[h] = agents[h] /\ My(h)' = My(h) /\ pending'[h] = pending[h]
    <3>1. h # g
      BY <2>1 DEF Asking
    <3> QED
      BY <1>4, <1>6, <2>1, <3>1 DEF AskingAwaits, Asking
  <2> QED
    BY <2>1, WaitersStay
<1> QED
  BY <1>5, <1>7, <1>8, <1>9, <1>10, <1>11, <1>12, <1>13, <1>14, <1>15

\* A step of a client leaves the agents' part of the invariant as it is.
LEMMA ClientIsTyped ==
  ASSUME Typed, NEW c \in Clients, Calls(c), UNCHANGED agents,
         session' \in [gen : Generations, resolved : SUBSET Requests],
         pending' \in [Generations -> SUBSET Requests], reqs' \in [Requests -> Request]
  PROVE  Typed'
BY DEF Typed, TypeOK, FiniteApprovals, Calls

LEMMA AgentsSame ==
  ASSUME Handler, UNCHANGED <<agents, reqs>>
  PROVE  AskingAwaits' /\ AwaitedByAgent' /\ ChannelsOpen'
<1> USE DEF Handler
<1>1. AskingAwaits'
  BY DEF AskingAwaits, My
<1>2. AwaitedByAgent'
  BY DEF AwaitedByAgent
<1>3. ChannelsOpen'
  BY DEF ChannelsOpen, My
<1> QED
  BY <1>1, <1>2, <1>3

LEMMA PendingStays ==
  ASSUME PendingIsOwn, UNCHANGED <<agents, reqs, pending>>
  PROVE  PendingIsOwn'
<1>1. \A g \in Generations : \A r \in pending'[g] :
        reqs'[r].gen = g /\ reqs'[r].end \in {None, "dropped", "aborted"}
  BY DEF PendingIsOwn
<1>2. \A g \in Generations : agents'[g].pc = "registering" => agents'[g].req \notin pending'[g]
  BY DEF PendingIsOwn
<1> QED
  BY <1>1, <1>2 DEF PendingIsOwn

\* A client finds a request that was shown to it.
LEMMA FoundStep ==
  ASSUME Handler, NEW c \in Clients, Calls(c), clients[c].pc = "idle",
         clients'[c].pc = "found", clients'[c].reply = None,
         clients'[c].req \in Requests, clients'[c].value \in {"approved", "rejected"},
         clients'[c].gen \in Generations, reqs[clients'[c].req].end # "new",
         UNCHANGED <<session, agents, pending, reqs>>
  PROVE  Handler'
<1> USE DEF Handler
<1>1. \A d \in Clients : d = c \/ clients'[d] = clients[d]
  BY DEF Calls
<1>2. clients[c].reply = None
  BY DEF ClientsKnow
<1>3. Typed'
  BY ClientIsTyped DEF Typed, TypeOK
<1>4. AskingAwaits' /\ AwaitedByAgent' /\ ChannelsOpen'
  BY AgentsSame
<1>5. \A r : Senders(r)' = Senders(r) /\ \A d \in Senders(r) : clients'[d] = clients[d]
  BY <1>1, <1>2 DEF Senders
<1>6. AnswersWereSent'
  BY <1>5 DEF AnswersWereSent
<1>7. NewIsUntouched'
  BY <1>1 DEF NewIsUntouched
<1>8. ClientsKnow'
  BY <1>1 DEF ClientsKnow
<1>9. SendersAreTakenOnce'
  BY <1>1, <1>2 DEF SendersAreTakenOnce, Owns
<1>10. PendingIsOwn'
  BY PendingStays
<1>11. WaitingIsAnswerable'
  <2>1. \A d \in Clients : clients[d].pc = "holds" => clients'[d] = clients[d]
    BY <1>1
  <2>2. \A h \in Generations : My(h)' = My(h)
    BY DEF My
  <2> QED
    BY <2>1, <2>2 DEF WaitingIsAnswerable
<1> QED
  BY <1>3, <1>4, <1>6, <1>7, <1>8, <1>9, <1>10, <1>11

\* A client gives up: it has no sender, or one whose channel is closed.
LEMMA GaveUpStep ==
  ASSUME Handler, NEW c \in Clients, GivesUp(c), clients[c].pc \in {"idle", "found", "holds"},
         clients[c].pc = "holds" => ~ reqs[clients[c].req].open,
         UNCHANGED <<session, agents, pending, reqs>>
  PROVE  Handler'
<1> USE DEF Handler
<1>1. /\ \A d \in Clients : d = c \/ clients'[d] = clients[d]
      /\ clients'[c].pc = "done" /\ clients'[c].req = NoRequest
      /\ clients'[c].reply # None /\ clients'[c].reply # "resolved"
  BY DEF Calls, GivesUp
<1>2. clients[c].reply = None
  BY DEF ClientsKnow
<1>3. Typed'
  BY ClientIsTyped DEF GivesUp, Typed, TypeOK
<1>4. AskingAwaits' /\ AwaitedByAgent' /\ ChannelsOpen'
  BY AgentsSame
<1>5. \A r : Senders(r)' = Senders(r) /\ \A d \in Senders(r) : clients'[d] = clients[d]
  BY <1>1, <1>2 DEF Senders
<1>6. AnswersWereSent'
  BY <1>5 DEF AnswersWereSent
<1>7. NewIsUntouched'
  BY <1>1 DEF NewIsUntouched
<1>8. ClientsKnow'
  BY <1>1 DEF ClientsKnow
<1>9. SendersAreTakenOnce'
  BY <1>1 DEF SendersAreTakenOnce, Owns
<1>10. PendingIsOwn'
  BY PendingStays
<1>11. WaitingIsAnswerable'
  <2> SUFFICES ASSUME NEW h \in Generations, agents[h].pc \in {"waiting", "expired"},
                      My(h).value = None
               PROVE  \/ agents[h].req \in pending[h]
                      \/ \E d \in Clients : clients'[d].req = agents[h].req
                                            /\ clients'[d].pc = "holds"
    BY DEF WaitingIsAnswerable, My
  <2>1. reqs[agents[h].req].open
    BY DEF ChannelsOpen, My
  <2>2. \/ agents[h].req \in pending[h]
        \/ \E d \in Clients : clients[d].req = agents[h].req /\ clients[d].pc = "holds"
    BY DEF WaitingIsAnswerable
  <2> QED
    BY <1>1, <2>1, <2>2
<1> QED
  BY <1>3, <1>4, <1>6, <1>7, <1>8, <1>9, <1>10, <1>11

\* A client takes the sender out of the map.
LEMMA TookStep ==
  ASSUME Handler, NEW c \in Clients, clients[c].pc = "found", clients[c].gen \in Generations,
         clients[c].req \in pending[clients[c].gen], pending' = Taken(c),
         GoesOnTo(c, "holds", None), UNCHANGED <<session, agents, reqs>>
  PROVE  Handler'
<1> USE DEF Handler
<1> DEFINE r == clients[c].req
           g == clients[c].gen
<1>1. /\ \A d \in Clients : d = c \/ clients'[d] = clients[d]
      /\ clients'[c].pc = "holds" /\ clients'[c].reply = None /\ clients'[c].req = r
      /\ clients'[c].value = clients[c].value /\ clients'[c].gen = g
  BY DEF Calls, GoesOnTo
<1>2. clients[c].reply = None /\ r \in Requests
      /\ clients[c].value \in {"approved", "rejected"}
  BY DEF ClientsKnow
<1>3. /\ pending' \in [Generations -> SUBSET Requests]
      /\ pending'[g] = pending[g] \ {r}
      /\ \A h \in Generations : h = g \/ pending'[h] = pending[h]
  BY DEF Taken, Typed, TypeOK
<1>4. \A h \in Generations : r \in pending[h] => h = g
  <2>1. \A h \in Generations : r \in pending[h] => reqs[r].gen = h
    BY DEF PendingIsOwn
  <2> QED
    BY <2>1
<1>5. Typed'
  BY <1>3, ClientIsTyped DEF GoesOnTo, Typed, TypeOK
<1>6. AskingAwaits' /\ AwaitedByAgent' /\ ChannelsOpen'
  BY AgentsSame
<1>7. \A s : Senders(s)' = Senders(s) /\ \A d \in Senders(s) : clients'[d] = clients[d]
  BY <1>1, <1>2 DEF Senders
<1>8. AnswersWereSent'
  BY <1>7 DEF AnswersWereSent
<1>9. NewIsUntouched'
  BY <1>1, <1>3 DEF NewIsUntouched
<1>10. ClientsKnow'
  BY <1>1, <1>2 DEF ClientsKnow
<1>11. \A d \in Clients : ~ Owns(d, r)
  BY <1>2 DEF SendersAreTakenOnce
<1>12. \A h \in Generations : ~ (agents[h].pc = "registering" /\ agents[h].req = r)
  <2> SUFFICES ASSUME NEW h \in Generations, agents[h].pc = "registering", agents[h].req = r
               PROVE  FALSE
    OBVIOUS
  <2>1. reqs[r].gen = h /\ r \notin pending[h]
    BY DEF PendingIsOwn, AskingAwaits, Asking, My
  <2>2. reqs[r].gen = g /\ r \in pending[g]
    BY DEF PendingIsOwn
  <2> QED
    BY <2>1, <2>2
<1>13. SendersAreTakenOnce'
  <2>1. ASSUME NEW s \in Requests, NEW d \in Clients, Owns(d, s)', d # c
        PROVE  Owns(d, s) /\ s # r
    BY <1>1, <1>11, <2>1 DEF Owns
  <2>2. ASSUME NEW s \in Requests, Owns(c, s)'
        PROVE  s = r
    BY <1>1, <2>2 DEF Owns
  <2>3. ASSUME NEW s \in Requests, NEW d \in Clients, NEW e \in Clients, Owns(d, s)', Owns(e, s)'
        PROVE  e = d
    BY <2>1, <2>2, <2>3 DEF SendersAreTakenOnce
  <2>4. ASSUME NEW s \in Requests, NEW d \in Clients, Owns(d, s)', NEW h \in Generations
        PROVE  s \notin pending'[h] /\ ~ (agents[h].pc = "registering" /\ agents[h].req = s)
    <3>1. CASE d = c
      BY <1>3, <1>4, <1>12, <2>2, <2>4, <3>1
    <3>2. CASE d # c
      <4>1. Owns(d, s)
        BY <2>1, <2>4, <3>2
      <4>2. s \notin pending[h] /\ ~ (agents[h].pc = "registering" /\ agents[h].req = s)
        BY <4>1 DEF SendersAreTakenOnce
      <4> QED
        BY <1>3, <4>2
    <3> QED
      BY <3>1, <3>2
  <2> QED
    BY <2>3, <2>4 DEF SendersAreTakenOnce
<1>14. PendingIsOwn'
  BY <1>3 DEF PendingIsOwn
<1>15. WaitingIsAnswerable'
  BY <1>1, <1>2, <1>3 DEF WaitingIsAnswerable, My
<1> QED
  BY <1>5, <1>6, <1>8, <1>9, <1>10, <1>13, <1>14, <1>15

\* A client sends its answer into the channel of the request.
LEMMA SentStep ==
  ASSUME Handler, NEW c \in Clients, clients[c].pc = "holds", GoesOnTo(c, "sent", None),
         reqs[clients[c].req].open, Touches(reqs[clients[c].req].gen, clients[c].req),
         reqs'[clients[c].req].value = clients[c].value, reqs'[clients[c].req].open,
         reqs'[clients[c].req].end = None, UNCHANGED <<session, agents, pending>>
  PROVE  Handler'
<1> USE DEF Handler
<1> DEFINE r == clients[c].req
<1>1. /\ \A d \in Clients : d = c \/ clients'[d] = clients[d]
      /\ clients'[c].pc = "sent" /\ clients'[c].reply = None /\ clients'[c].req = r
      /\ clients'[c].value = clients[c].value /\ clients'[c].gen = clients[c].gen
  BY DEF Calls, GoesOnTo
<1>2. /\ clients[c].reply = None /\ r \in Requests /\ clients[c].gen \in Generations
      /\ clients[c].value \in {"approved", "rejected"}
  BY DEF ClientsKnow
<1>3. /\ reqs' \in [Requests -> Request] /\ \A s \in Requests : s = r \/ reqs'[s] = reqs[s]
      /\ reqs'[r].gen = reqs[r].gen /\ reqs'[r].turn = reqs[r].turn
      /\ reqs'[r].tool = reqs[r].tool /\ reqs'[r].end = reqs[r].end /\ reqs[r].end = None
      /\ reqs'[r].open /\ reqs[r].open /\ reqs'[r].value = clients[c].value
  BY <1>2 DEF Touches
<1>4. \A s \in Requests : /\ reqs'[s].gen = reqs[s].gen /\ reqs'[s].turn = reqs[s].turn
                          /\ reqs'[s].tool = reqs[s].tool /\ reqs'[s].end = reqs[s].end
                          /\ reqs'[s].open = reqs[s].open
  BY <1>3 DEF Typed, TypeOK, Request
<1>5. Typed'
  BY <1>3, ClientIsTyped DEF GoesOnTo, Typed, TypeOK
<1>6. AskingAwaits' /\ AwaitedByAgent' /\ ChannelsOpen'
  <2>1. \A h \in Generations : agents[h].req \in Requests =>
          /\ My(h)'.gen = My(h).gen /\ My(h)'.turn = My(h).turn
          /\ My(h)'.tool = My(h).tool /\ My(h)'.end = My(h).end /\ My(h)'.open = My(h).open
    BY <1>4 DEF My
  <2>2. AskingAwaits'
    BY <2>1 DEF AskingAwaits
  <2>3. AwaitedByAgent'
    BY <1>4 DEF AwaitedByAgent
  <2>4. \A h \in Generations : agents[h].pc \in Asking => agents[h].req \in Requests
    BY DEF AskingAwaits
  <2>5. ChannelsOpen'
    BY <1>4, <2>1, <2>4 DEF ChannelsOpen, Asking
  <2> QED
    BY <2>2, <2>3, <2>5
<1>7. /\ \A s : Senders(s) \subseteq Senders(s)'
      /\ \A s : \A d \in Senders(s) : clients'[d] = clients[d]
      /\ c \in Senders(r)'
  BY <1>1, <1>2 DEF Senders
<1>8. AnswersWereSent'
  <2>1. ASSUME NEW s \in Requests, reqs'[s].value # None
        PROVE  reqs'[s].open /\ \E d \in Senders(s)' : clients'[d].value = reqs'[s].value
    <3>1. CASE s = r
      BY <1>1, <1>3, <1>7, <3>1
    <3>2. CASE s # r
      BY <1>3, <1>7, <2>1, <3>2 DEF AnswersWereSent
    <3> QED
      BY <3>1, <3>2
  <2>2. ASSUME NEW s \in Requests, reqs'[s].end \in {"approved", "rejected"}
        PROVE  \E d \in Senders(s)' : clients'[d].value = reqs'[s].end
    BY <1>4, <1>7, <2>2 DEF AnswersWereSent
  <2>3. ASSUME NEW h \in Generations, agents[h].pc = "forgetting", agents[h].got # "late"
        PROVE  /\ agents[h].got \in {"approved", "rejected"}
               /\ \E d \in Senders(agents[h].req)' : clients'[d].value = agents[h].got
    <3>1. /\ agents[h].got \in {"approved", "rejected"}
          /\ \E d \in Senders(agents[h].req) : clients[d].value = agents[h].got
      BY <2>3 DEF AnswersWereSent
    <3> QED
      BY <1>1, <1>2, <3>1 DEF Senders
  <2> QED
    BY <2>1, <2>2, <2>3 DEF AnswersWereSent
<1>9. NewIsUntouched'
  BY <1>1, <1>3 DEF NewIsUntouched
<1>10. ClientsKnow'
  BY <1>1, <1>2 DEF ClientsKnow
<1>11. SendersAreTakenOnce'
  BY <1>1, <1>2 DEF SendersAreTakenOnce, Owns
<1>12. PendingIsOwn'
  <2>1. \A h \in Generations : pending[h] \subseteq Requests /\ pending'[h] = pending[h]
    BY DEF Typed, TypeOK
  <2>2. \A h \in Generations : \A s \in pending[h] :
          reqs'[s].gen = h /\ reqs'[s].end \in {None, "dropped", "aborted"}
    <3> TAKE h \in Generations
    <3> TAKE s \in pending[h]
    <3>1. s \in Requests /\ reqs[s].gen = h /\ reqs[s].end \in {None, "dropped", "aborted"}
      BY <2>1 DEF PendingIsOwn
    <3> QED
      BY <1>4, <3>1
  <2> QED
    BY <2>1, <2>2 DEF PendingIsOwn
<1>13. WaitingIsAnswerable'
  <2> SUFFICES ASSUME NEW h \in Generations, agents[h].pc \in {"waiting", "expired"},
                      My(h)'.value = None
               PROVE  \/ agents[h].req \in pending[h]
                      \/ \E d \in Clients : clients'[d].req = agents[h].req
                                            /\ clients'[d].pc = "holds"
    BY DEF WaitingIsAnswerable
  <2>1. agents[h].req \in Requests
    BY DEF AskingAwaits, Asking
  <2>2. agents[h].req # r
    BY <1>2, <1>3 DEF My
  <2>3. My(h).value = None
    BY <1>3, <2>1, <2>2 DEF My
  <2>4. \/ agents[h].req \in pending[h]
        \/ \E d \in Clients : clients[d].req = agents[h].req /\ clients[d].pc = "holds"
    BY <2>3 DEF WaitingIsAnswerable
  <2> QED
    BY <1>1, <2>2, <2>4
<1> QED
  BY <1>5, <1>6, <1>8, <1>9, <1>10, <1>11, <1>12, <1>13

\* The client is told that its answer was the one.
LEMMA AcknowledgedStep ==
  ASSUME Handler, NEW c \in Clients, clients[c].pc = "sent", GoesOnTo(c, "done", "resolved"),
         session' \in [gen : Generations, resolved : SUBSET Requests],
         UNCHANGED <<agents, pending, reqs>>
  PROVE  Handler'
<1> USE DEF Handler
<1>1. /\ \A d \in Clients : d = c \/ clients'[d] = clients[d]
      /\ clients'[c].pc = "done" /\ clients'[c].reply = "resolved"
      /\ clients'[c].req = clients[c].req /\ clients'[c].value = clients[c].value
  BY DEF Calls, GoesOnTo
<1>2. clients[c].req \in Requests /\ clients[c].value \in {"approved", "rejected"}
  BY DEF ClientsKnow
<1>3. Typed'
  BY ClientIsTyped DEF GoesOnTo, Typed, TypeOK
<1>4. AskingAwaits' /\ AwaitedByAgent' /\ ChannelsOpen'
  BY AgentsSame
<1>5. \A d \in Clients : /\ clients'[d].req = clients[d].req
                         /\ clients'[d].value = clients[d].value
                         /\ \A r : d \in Senders(r)' <=> d \in Senders(r)
                         /\ \A r : Owns(d, r)' <=> Owns(d, r)
  BY <1>1 DEF Senders, Owns
<1>6. AnswersWereSent'
  BY <1>1, <1>5 DEF AnswersWereSent, Senders
<1>7. NewIsUntouched' /\ PendingIsOwn'
  <2>1. NewIsUntouched'
    BY <1>5 DEF NewIsUntouched
  <2>2. PendingIsOwn'
    BY PendingStays
  <2> QED
    BY <2>1, <2>2
<1>8. ClientsKnow'
  BY <1>1, <1>2 DEF ClientsKnow
<1>9. SendersAreTakenOnce'
  BY <1>5 DEF SendersAreTakenOnce
<1>10. WaitingIsAnswerable'
  <2>1. \A d \in Clients : clients[d].pc = "holds" => clients'[d] = clients[d]
    BY <1>1
  <2> SUFFICES ASSUME NEW h \in Generations, agents[h].pc \in {"waiting", "expired"},
                      My(h).value = None
               PROVE  \/ agents[h].req \in pending[h]
                      \/ \E d \in Clients : clients'[d].req = agents[h].req
                                            /\ clients'[d].pc = "holds"
    BY DEF WaitingIsAnswerable, My
  <2>2. \/ agents[h].req \in pending[h]
        \/ \E d \in Clients : clients[d].req = agents[h].req /\ clients[d].pc = "holds"
    BY DEF WaitingIsAnswerable
  <2> QED
    BY <2>1, <2>2
<1> QED
  BY <1>3, <1>4, <1>6, <1>7, <1>8, <1>9, <1>10

\* The rest of the invariant does not read what the session remembers.
LEMMA SessionAside ==
  ASSUME Handler, Typed', UNCHANGED <<agents, pending, reqs, clients>>
  PROVE  Handler'
<1> USE DEF Handler
<1>1. AskingAwaits' /\ AwaitedByAgent' /\ ChannelsOpen'
  BY AgentsSame
<1>2. AnswersWereSent'
  BY DEF AnswersWereSent, Senders
<1>3. NewIsUntouched' /\ ClientsKnow' /\ SendersAreTakenOnce'
  BY DEF NewIsUntouched, ClientsKnow, SendersAreTakenOnce, Owns
<1>4. PendingIsOwn'
  BY PendingStays
<1>5. WaitingIsAnswerable'
  BY DEF WaitingIsAnswerable, My
<1> QED
  BY <1>1, <1>2, <1>3, <1>4, <1>5

LEMMA HandlerStep == Handler /\ [Next]_vars => Handler'
<1> SUFFICES ASSUME Handler, [Next]_vars PROVE Handler'
  OBVIOUS
<1>0. Typed /\ AskingAwaits
  BY DEF Handler
<1>1. ASSUME NEW g \in Generations, NEW mode \in {"planner", "direct"}, BeginTurn(g, mode)
      PROVE  Handler'
  <2>1. /\ Steps(g) /\ agents[g].pc = "idle" /\ agents'[g].pc = "ready"
        /\ agents'[g].approved = agents[g].approved /\ agents'[g].req = agents[g].req
    BY <1>0, <1>1, BeginTurnStep
  <2>2. agents[g].req = NoRequest /\ UNCHANGED <<session, pending, reqs, clients>>
    BY <1>0, <1>1, <2>1 DEF AskingAwaits, Between, BeginTurn
  <2> QED
    BY <2>1, <2>2, QuietStep DEF Asking
<1>2. ASSUME NEW g \in Generations, NEW tool \in Tools, NEW decision \in Decisions,
             RunTool(g, tool, decision)
      PROVE  Handler'
  <2>1. /\ agents[g].pc \in {"ready", "retry"} /\ UNCHANGED <<session, pending, clients>>
        /\ \/ \E r \in Requests : Asks(g, r) /\ agents'[g].main = r
           \/ StartsCall(g) /\ UNCHANGED reqs
           \/ LeavesCall(g) /\ UNCHANGED reqs
    BY <1>0, <1>2, RunToolStep
  <2>2. agents[g].pc \notin Asking
    BY <2>1 DEF Asking
  <2>3. CASE \E r \in Requests : Asks(g, r) /\ agents'[g].main = r
    BY <2>1, <2>2, <2>3, AskedStep
  <2>4. CASE StartsCall(g) /\ UNCHANGED reqs
    BY <2>1, <2>2, <2>4, QuietStep DEF StartsCall, Asking, Between
  <2>5. CASE LeavesCall(g) /\ UNCHANGED reqs
    BY <2>1, <2>2, <2>5, QuietStep DEF LeavesCall, Asking, Between
  <2> QED
    BY <2>1, <2>3, <2>4, <2>5
<1>3. ASSUME NEW g \in Generations, EndTurn(g)
      PROVE  Handler'
  <2>1. LeavesCall(g) /\ agents[g].pc = "ready" /\ UNCHANGED <<session, pending, reqs, clients>>
    BY <1>0, <1>3, EndTurnStep DEF EndTurn
  <2> QED
    BY <2>1, QuietStep DEF LeavesCall, Asking, Between
<1>4. ASSUME NEW g \in Generations, TakeAnswer(g)
      PROVE  Handler'
  <2>1. UNCHANGED <<session, pending, clients>>
    BY <1>4 DEF TakeAnswer
  <2> QED
    BY <1>0, <1>4, <2>1, TakeAnswerStep, ClosedStep
<1>5. ASSUME NEW g \in Generations, InnerTimeout(g)
      PROVE  Handler'
  <2>1. UNCHANGED <<session, pending, clients>>
    BY <1>5 DEF InnerTimeout
  <2> QED
    BY <1>0, <1>5, <2>1, InnerTimeoutStep, ClosedStep
<1>6. ASSUME NEW g \in Generations, OuterTimeout(g)
      PROVE  Handler'
  <2>1. Ends(g, agents[g].req, "dropped") /\ LeavesCall(g)
    BY <1>0, <1>6, OuterTimeoutStep
  <2>2. UNCHANGED <<session, pending, clients>>
    BY <1>6 DEF OuterTimeout
  <2>3. agents'[g].pc \notin Asking /\ ApprovalsFit(g)
    BY <1>0, <2>1, SameApprovalsFit DEF LeavesCall, Asking, Between
  <2> QED
    BY <2>1, <2>2, <2>3, EndedStep
<1>7. ASSUME NEW g \in Generations, Conclude(g)
      PROVE  Handler'
  <2>1. /\ agents[g].pc = "forgetting"
        /\ pending' = Forgotten(g) /\ UNCHANGED <<session, clients>>
        /\ \/ /\ agents[g].got = "approved"
              /\ Ends(g, agents[g].req, "approved") /\ GoesAhead(g)
           \/ /\ agents[g].got = "rejected"
              /\ Ends(g, agents[g].req, "rejected") /\ LeavesCall(g) /\ agents'[g].pc = "idle"
           \/ /\ agents[g].got = "late"
              /\ Ends(g, agents[g].req, "timedout") /\ LeavesCall(g)
              /\ agents'[g].pc = "idle" \/ agents[g].mode # "planner"
    BY <1>7, ConcludeStep
  <2>2. ASSUME GoesAhead(g)
        PROVE  agents'[g].pc \notin Asking /\ ApprovalsFit(g)
    <3>1. agents'[g].pc \notin Asking
      BY <2>2 DEF GoesAhead, Asking
    <3>2. agents'[g].approved = Recorded(g) \/ agents'[g].approved = agents[g].approved
      BY <2>2 DEF GoesAhead
    <3> QED
      BY <1>0, <3>1, <3>2, RecordedType, SameApprovalsFit DEF ApprovalsFit
  <2>3. ASSUME LeavesCall(g)
        PROVE  agents'[g].pc \notin Asking /\ ApprovalsFit(g)
    BY <1>0, <2>3, SameApprovalsFit DEF LeavesCall, Asking, Between
  <2>4. CASE agents[g].got = "approved" /\ Ends(g, agents[g].req, "approved") /\ GoesAhead(g)
    BY <2>1, <2>2, <2>4, EndedStep
  <2>5. CASE agents[g].got = "rejected" /\ Ends(g, agents[g].req, "rejected") /\ LeavesCall(g)
    BY <2>1, <2>3, <2>5, EndedStep
  <2>6. CASE agents[g].got = "late" /\ Ends(g, agents[g].req, "timedout") /\ LeavesCall(g)
    BY <2>1, <2>3, <2>6, EndedStep
  <2> QED
    BY <2>1, <2>4, <2>5, <2>6
<1>8. ASSUME NEW g \in Generations, Finish(g)
      PROVE  Handler'
  <2>1. /\ LeavesCall(g) /\ agents[g].pc \in {"running", "unboxed"}
        /\ UNCHANGED <<session, pending, reqs, clients>>
    BY <1>0, <1>8, FinishStep DEF Finish
  <2> QED
    BY <2>1, QuietStep DEF LeavesCall, Asking, Between
<1>9. ASSUME NEW g \in Generations, Degrade(g)
      PROVE  Handler'
  <2>1. /\ agents[g].pc = "running" /\ UNCHANGED <<session, pending, clients>>
        /\ \/ \E r \in Requests : Asks(g, r)
           \/ LeavesSandbox(g) /\ UNCHANGED reqs
           \/ LeavesCall(g) /\ UNCHANGED reqs
    BY <1>0, <1>9, DegradeStep
  <2>2. agents[g].pc \notin Asking
    BY <2>1 DEF Asking
  <2>3. CASE \E r \in Requests : Asks(g, r)
    BY <2>1, <2>2, <2>3, AskedStep
  <2>4. CASE LeavesSandbox(g) /\ UNCHANGED reqs
    BY <2>1, <2>2, <2>4, QuietStep DEF LeavesSandbox, SameCall, Asking, Between
  <2>5. CASE LeavesCall(g) /\ UNCHANGED reqs
    BY <2>1, <2>2, <2>5, QuietStep DEF LeavesCall, Asking, Between
  <2> QED
    BY <2>1, <2>3, <2>4, <2>5
<1>10. ASSUME NEW g \in Generations, Abort(g)
       PROVE  Handler'
  <2>1. /\ LeavesCall(g) /\ agents'[g].pc = "idle"
        /\ UNCHANGED <<session, pending, clients>>
        /\ \/ agents[g].pc \notin Asking /\ UNCHANGED reqs
           \/ Ends(g, agents[g].req, "aborted")
    BY <1>10, AbortStep
  <2>2. agents'[g].pc \notin Asking /\ ApprovalsFit(g)
    BY <1>0, <2>1, SameApprovalsFit DEF LeavesCall, Asking
  <2>3. CASE agents[g].pc \notin Asking /\ UNCHANGED reqs
    BY <2>1, <2>2, <2>3, QuietStep DEF LeavesCall
  <2>4. CASE Ends(g, agents[g].req, "aborted")
    BY <2>1, <2>2, <2>4, EndedStep
  <2> QED
    BY <2>1, <2>3, <2>4
<1>11. ASSUME NEW c \in Clients, NEW r \in Requests, NEW value \in {"approved", "rejected"},
              CallResolve(c, r, value)
       PROVE  Handler'
  BY <1>11, CallResolveStep, FoundStep, GaveUpStep
<1>12. ASSUME NEW c \in Clients, TakeSender(c)
       PROVE  Handler'
  BY <1>12, TakeSenderStep, TookStep, GaveUpStep
<1>13. ASSUME NEW c \in Clients, SendAnswer(c)
       PROVE  Handler'
  BY <1>13, SendAnswerStep, SentStep, GaveUpStep
<1>14. ASSUME NEW c \in Clients, Acknowledge(c)
       PROVE  Handler'
  BY <1>14, AcknowledgeStep, AcknowledgedStep
<1>15. CASE Clear
  <2>1. session' \in [gen : Generations, resolved : SUBSET Requests]
        /\ UNCHANGED <<agents, pending, reqs, clients>>
    BY <1>15 DEF Clear, Current
  <2>2. Typed'
    BY <1>0, <2>1 DEF Typed, TypeOK, FiniteApprovals
  <2> QED
    BY <2>1, <2>2, SessionAside
<1>16. CASE UNCHANGED vars
  <2>1. UNCHANGED <<session, agents, pending, reqs, clients>>
    BY <1>16 DEF vars
  <2>2. Typed'
    BY <1>0, <2>1 DEF Typed, TypeOK, FiniteApprovals
  <2> QED
    BY <2>1, <2>2, SessionAside
<1> QED
  BY <1>1, <1>2, <1>3, <1>4, <1>5, <1>6, <1>7, <1>8, <1>9, <1>10, <1>11, <1>12, <1>13, <1>14,
     <1>15, <1>16, RegisteredStep, ExpiredStep DEF Next

LEMMA HandlerAlways == Spec => []Handler
BY HandlerStart, HandlerStep, PTL DEF Spec

\* One answer settles a request: from the invariant of the handler.
LEMMA HandlerSettles == Handler => RequestsSettle
<1> SUFFICES ASSUME Handler PROVE RequestsSettle
  OBVIOUS
<1> USE DEF Handler
<1>1. ASSUME NEW r \in Requests
      PROVE  Cardinality(Senders(r)) <= 1
  <2>1. \A c, d \in Senders(r) : c = d
    BY DEF SendersAreTakenOnce, Owns, Senders
  <2>2. CASE Senders(r) = {}
    BY <2>2, FS_EmptySet
  <2>3. CASE Senders(r) # {}
    <3>1. PICK c : c \in Senders(r)
      BY <2>3
    <3>2. Senders(r) = {c}
      BY <2>1, <3>1
    <3>3. Cardinality({c}) = 1
      BY FS_Singleton
    <3> QED
      BY <3>2, <3>3
  <2> QED
    BY <2>2, <2>3
<1>2. DecidedByOneClient
  BY <1>1 DEF DecidedByOneClient, AnswersWereSent
<1>3. OverIsForgotten
  BY DEF OverIsForgotten, PendingIsOwn, AwaitedByAgent, Asking
<1> QED
  BY <1>2, <1>3 DEF RequestsSettle, Typed

\* GatewayApprovalHandler: whatever the interleaving of answers, timeouts, aborts and a
\* clear, a request is decided by one client that learns so, a request that waits can be
\* answered, and none outlives its wait but those whose future was dropped.
THEOREM EveryRequestSettles == Spec => []RequestsSettle
BY HandlerAlways, HandlerSettles, PTL

-----------------------------------------------------------------------------
(* The steps of an agent, as far as permissions and turns are concerned *)

BeginsTurn(g) ==
  /\ Steps(g) /\ agents[g].pc = "idle" /\ agents'[g].pc = "ready"
  /\ agents'[g].turn = agents[g].turn + 1 /\ agents'[g].approved = agents[g].approved
  /\ agents'[g].main = agents[g].main
  /\ UNCHANGED <<reqs, clients>>

\* A call without an open request ends, or starts, or leaves the sandbox.
MovesAlone(g) ==
  /\ \/ LeavesCall(g)
     \/ agents[g].pc \in Between /\ StartsCall(g)
     \/ agents[g].pc = "running" /\ LeavesSandbox(g)
  /\ agents[g].pc # "idle" /\ UNCHANGED <<reqs, clients>>

\* A call asks, about itself or about leaving the sandbox.
AsksFirst(g, r)  == Asks(g, r) /\ agents'[g].main = r /\ agents[g].pc \in {"ready", "retry"}
AsksSecond(g, r) ==
  /\ Asks(g, r) /\ agents[g].pc = "running" /\ agents'[g].main = agents[g].main
  /\ agents'[g].tool = agents[g].tool /\ agents'[g].decision = agents[g].decision

MovesInCall(g) ==
  /\ SameCall(g) /\ agents[g].pc \in Asking /\ agents'[g].pc \in Asking
  /\ UNCHANGED reqs \/ Closes(g, agents[g].req)
  /\ UNCHANGED clients

IsApproved(g) ==
  /\ agents[g].pc = "forgetting" /\ agents[g].got = "approved"
  /\ Ends(g, agents[g].req, "approved") /\ GoesAhead(g) /\ UNCHANGED clients

\* A request ends without permission, and its call with it: the turn goes on only after a
\* timeout, and only if the user typed the call.
IsRefused(g, end) ==
  /\ Ends(g, agents[g].req, end) /\ LeavesCall(g) /\ UNCHANGED clients
  /\ \/ agents'[g].pc = "idle"
     \/ end \in {"timedout", "dropped"} /\ agents[g].mode # "planner"

\* A client moves: it keeps what it sent, and what it sends goes into an open channel.
ClientMoves(c) ==
  /\ \/ GivesUp(c) /\ clients[c].pc \in {"idle", "found", "holds"}
     \/ Calls(c) /\ clients[c].pc = "idle"
     \/ \E pc \in {"holds", "sent", "done"}, reply \in {None, "resolved"} : 
          /\ GoesOnTo(c, pc, reply)
          /\ clients[c].pc = "sent" => pc = "done" /\ reply = "resolved"
          /\ clients[c].pc \in {"found", "holds", "sent"}
  /\ UNCHANGED agents
  /\ \/ UNCHANGED reqs
     \/ /\ Touches(reqs[clients[c].req].gen, clients[c].req)
        /\ reqs'[clients[c].req].end = None

LEMMA WhatMoves ==
  ASSUME Handler, [Next]_vars
  PROVE  \/ \E g \in Generations : \/ BeginsTurn(g) \/ MovesAlone(g)
                                   \/ MovesInCall(g) \/ IsApproved(g)
                                   \/ \E r \in Requests : /\ AsksFirst(g, r) \/ AsksSecond(g, r)
                                                          /\ UNCHANGED clients
                                   \/ \E end \in {"rejected", "timedout", "dropped", "aborted"} :
                                        IsRefused(g, end)
         \/ \E c \in Clients : ClientMoves(c)
         \/ UNCHANGED <<agents, reqs, clients>>
<1>0. Typed /\ AskingAwaits /\ ClientsKnow
  BY DEF Handler
<1>1. ASSUME NEW g \in Generations, NEW mode \in {"planner", "direct"}, BeginTurn(g, mode)
      PROVE  BeginsTurn(g)
  BY <1>0, <1>1, BeginTurnStep DEF BeginTurn, BeginsTurn
<1>2. ASSUME NEW g \in Generations, NEW tool \in Tools, NEW decision \in Decisions,
             RunTool(g, tool, decision)
      PROVE  MovesAlone(g) \/ (\E r \in Requests : AsksFirst(g, r) /\ UNCHANGED clients)
  BY <1>0, <1>2, RunToolStep DEF MovesAlone, AsksFirst, Between
<1>3. ASSUME NEW g \in Generations, EndTurn(g)
      PROVE  MovesAlone(g)
  BY <1>0, <1>3, EndTurnStep DEF MovesAlone, EndTurn
<1>4. ASSUME NEW g \in Generations, Register(g)
      PROVE  MovesInCall(g)
  <2>1. agents[g].pc = "registering" /\ agents[g] \in Agent /\ UNCHANGED <<reqs, clients>>
    BY <1>0, <1>4 DEF Register, Typed, TypeOK
  <2>2. SameCall(g) /\ agents'[g].pc = "waiting"
    BY <1>0, <1>4, <2>1 DEF Register, SameCall, Steps, Agent, Typed, TypeOK
  <2> QED
    BY <2>1, <2>2 DEF MovesInCall, Asking
<1>5. ASSUME NEW g \in Generations, TakeAnswer(g)
      PROVE  MovesInCall(g)
  BY <1>0, <1>5, TakeAnswerStep DEF TakeAnswer, MovesInCall, Closes, Asking
<1>6. ASSUME NEW g \in Generations, Expire(g)
      PROVE  MovesInCall(g)
  BY <1>6, ExpiredStep DEF Expire, MovesInCall, Asking
<1>7. ASSUME NEW g \in Generations, InnerTimeout(g)
      PROVE  MovesInCall(g)
  BY <1>0, <1>7, InnerTimeoutStep DEF InnerTimeout, MovesInCall, Closes, Asking
<1>8. ASSUME NEW g \in Generations, OuterTimeout(g)
      PROVE  IsRefused(g, "dropped")
  BY <1>0, <1>8, OuterTimeoutStep DEF OuterTimeout, IsRefused
<1>9. ASSUME NEW g \in Generations, Conclude(g)
      PROVE  IsApproved(g) \/ IsRefused(g, "rejected") \/ IsRefused(g, "timedout")
  BY <1>9, ConcludeStep DEF IsApproved, IsRefused
<1>10. ASSUME NEW g \in Generations, Finish(g)
       PROVE  MovesAlone(g)
  BY <1>0, <1>10, FinishStep DEF MovesAlone, Finish
<1>11. ASSUME NEW g \in Generations, Degrade(g)
       PROVE  MovesAlone(g) \/ (\E r \in Requests : AsksSecond(g, r) /\ UNCHANGED clients)
  BY <1>0, <1>11, DegradeStep DEF MovesAlone, AsksSecond
<1>12. ASSUME NEW g \in Generations, Abort(g)
       PROVE  MovesAlone(g) \/ IsRefused(g, "aborted")
  <2>1. agents[g].pc # "idle"
    BY <1>12 DEF Abort
  <2> QED
    BY <1>12, <2>1, AbortStep DEF MovesAlone, IsRefused
<1>13. ASSUME NEW c \in Clients, NEW r \in Requests, NEW value \in {"approved", "rejected"},
              CallResolve(c, r, value)
       PROVE  ClientMoves(c)
  BY <1>13, CallResolveStep DEF ClientMoves
<1>14. ASSUME NEW c \in Clients, TakeSender(c)
       PROVE  ClientMoves(c)
  BY <1>14, TakeSenderStep DEF ClientMoves
<1>15. ASSUME NEW c \in Clients, SendAnswer(c)
       PROVE  ClientMoves(c)
  BY <1>15, SendAnswerStep DEF ClientMoves
<1>16. ASSUME NEW c \in Clients, Acknowledge(c)
       PROVE  ClientMoves(c)
  BY <1>16, AcknowledgeStep DEF ClientMoves
<1>17. CASE Clear
  BY <1>17 DEF Clear
<1>18. CASE UNCHANGED vars
  BY <1>18 DEF vars
<1> QED
  BY <1>1, <1>2, <1>3, <1>4, <1>5, <1>6, <1>7, <1>8, <1>9, <1>10, <1>11, <1>12, <1>13, <1>14,
     <1>15, <1>16, <1>17, <1>18 DEF Next

-----------------------------------------------------------------------------
(* Permission: what was approved stays approved, and nothing else runs *)

\* An edit of the turn t of agent g was approved by a client.
EditApproved(g, t) ==
  \E r \in Requests : /\ reqs[r].gen = g /\ reqs[r].turn = t
                      /\ reqs[r].tool = "Edit" /\ UserApproved(r)

\* Why the call of an agent may run, as far as the policy and the first approval go.
Permitted(g) ==
  \/ agents[g].decision = "Allow"
  \/ UserApproved(agents[g].main)
  \/ agents[g].tool = "Edit" /\ EditApproved(g, agents[g].turn)

\* A call that runs, or asks a second time, had its permission; between calls none is left.
CallsArePermitted ==
  \A g \in Generations :
    /\ agents[g].pc \in {"running", "unboxed"} \/ (agents[g].pc \in Asking /\ ~ IsMain(g)) =>
         Permitted(g)
    /\ agents[g].pc = "running" => IsMain(g)
    /\ agents[g].pc = "unboxed" /\ ~ IsMain(g) => UserApproved(agents[g].req)
    /\ agents[g].pc = "unboxed" /\ agents[g].tool = "shell" => ~ IsMain(g)
    /\ agents[g].pc \in Between => agents[g].main = NoRequest

\* A turn whose edits run without a question is one in which an edit was approved.
RecordedWereApproved ==
  \A g \in Generations : \A t \in agents[g].approved : EditApproved(g, t)

Permission == CallsArePermitted /\ RecordedWereApproved

LEMMA ApprovalsLast ==
  ASSUME Handler, [Next]_vars
  PROVE  /\ \A r : UserApproved(r) => UserApproved(r)'
         /\ \A r \in Requests : reqs[r].end # "new" =>
              /\ reqs'[r].gen = reqs[r].gen /\ reqs'[r].turn = reqs[r].turn
              /\ reqs'[r].tool = reqs[r].tool
<1>1. ASSUME UNCHANGED clients
      PROVE  \A r : UserApproved(r) => UserApproved(r)'
  <2> TAKE r
  <2>1. Senders(r)' = Senders(r)
    BY <1>1 DEF Senders
  <2> QED
    BY <1>1, <2>1 DEF UserApproved, ApprovedBy
<1>2. ASSUME NEW c \in Clients, ClientMoves(c)
      PROVE  \A r : UserApproved(r) => UserApproved(r)'
  <2>1. /\ \A d \in Clients : d = c \/ clients'[d] = clients[d]
        /\ clients[c].pc # "done" => clients[c].reply = None
    BY <1>2 DEF ClientMoves, GivesUp, GoesOnTo, Calls, Handler, ClientsKnow
  <2>2. clients[c].pc = "sent" =>
          /\ clients'[c].pc = "done" /\ clients'[c].reply = "resolved"
          /\ clients'[c].req = clients[c].req /\ clients'[c].value = clients[c].value
    BY <1>2 DEF ClientMoves, GoesOnTo
  <2>3. clients[c].pc # "done"
    BY <1>2 DEF ClientMoves
  <2>4. \A r : \A d \in Senders(r) : d \in Senders(r)' /\ clients'[d].value = clients[d].value
    BY <2>1, <2>2, <2>3 DEF Senders
  <2> QED
    BY <2>4 DEF UserApproved, ApprovedBy
<1>3. \A r : UserApproved(r) => UserApproved(r)'
  <2>1. ASSUME NEW g \in Generations,
               BeginsTurn(g) \/ MovesAlone(g) \/ MovesInCall(g) \/ IsApproved(g)
        PROVE  UNCHANGED clients
    BY <2>1 DEF BeginsTurn, MovesAlone, MovesInCall, IsApproved
  <2>2. ASSUME NEW g \in Generations, NEW end, IsRefused(g, end)
        PROVE  UNCHANGED clients
    BY <2>2 DEF IsRefused
  <2> QED
    BY <1>1, <1>2, <2>1, <2>2, WhatMoves
<1> DEFINE fixed(r) == /\ reqs'[r].gen = reqs[r].gen /\ reqs'[r].turn = reqs[r].turn
                       /\ reqs'[r].tool = reqs[r].tool
<1>4. ASSUME NEW g, NEW s, Touches(g, s)
      PROVE  \A r \in Requests : fixed(r)
  BY <1>4 DEF Touches
<1>5. ASSUME NEW g \in Generations, NEW s \in Requests, Asks(g, s)
      PROVE  \A r \in Requests : reqs[r].end # "new" => fixed(r)
  BY <1>5 DEF Asks, Fresh
<1> HIDE DEF fixed
<1>6. ASSUME UNCHANGED reqs
      PROVE  \A r \in Requests : fixed(r)
  BY <1>6 DEF fixed
<1>7. ASSUME NEW g \in Generations,
             BeginsTurn(g) \/ MovesAlone(g) \/ MovesInCall(g) \/ IsApproved(g)
      PROVE  UNCHANGED reqs \/ Touches(g, agents[g].req)
  BY <1>7 DEF BeginsTurn, MovesAlone, MovesInCall, IsApproved, Closes, Ends
<1>8. ASSUME NEW g \in Generations, NEW end, IsRefused(g, end)
      PROVE  Touches(g, agents[g].req)
  BY <1>8 DEF IsRefused, Ends
<1>9. ASSUME NEW c \in Clients, ClientMoves(c)
      PROVE  UNCHANGED reqs \/ \E g : Touches(g, clients[c].req)
  BY <1>9 DEF ClientMoves
<1>10. ASSUME NEW g \in Generations, NEW r \in Requests, AsksFirst(g, r) \/ AsksSecond(g, r)
       PROVE  Asks(g, r)
  BY <1>10 DEF AsksFirst, AsksSecond
<1>11. \A r \in Requests : reqs[r].end # "new" => fixed(r)
  BY <1>4, <1>5, <1>6, <1>7, <1>8, <1>9, <1>10, WhatMoves
<1> QED
  BY <1>3, <1>11 DEF fixed

LEMMA EditsLast ==
  ASSUME Handler, [Next]_vars, NEW g, NEW t, EditApproved(g, t)
  PROVE  EditApproved(g, t)'
<1>1. PICK r \in Requests : /\ reqs[r].gen = g /\ reqs[r].turn = t
                            /\ reqs[r].tool = "Edit" /\ UserApproved(r)
  BY DEF EditApproved
<1>2. reqs[r].end # "new"
  BY <1>1 DEF UserApproved, ApprovedBy, Senders, Handler, NewIsUntouched
<1>3. /\ reqs'[r].gen = g /\ reqs'[r].turn = t /\ reqs'[r].tool = "Edit" /\ UserApproved(r)'
  BY <1>1, <1>2, ApprovalsLast
<1> QED
  BY <1>3 DEF EditApproved

LEMMA PermissionStart == Init => Permission
BY DEF Init, Permission, CallsArePermitted, RecordedWereApproved, Idle, Asking, IsMain

\* What is left to show for one agent.
AgentPermitted(g) ==
  /\ agents[g].pc \in {"running", "unboxed"} \/ (agents[g].pc \in Asking /\ ~ IsMain(g)) =>
       Permitted(g)
  /\ agents[g].pc = "running" => IsMain(g)
  /\ agents[g].pc = "unboxed" /\ ~ IsMain(g) => UserApproved(agents[g].req)
  /\ agents[g].pc = "unboxed" /\ agents[g].tool = "shell" => ~ IsMain(g)
  /\ agents[g].pc \in Between => agents[g].main = NoRequest
  /\ \A t \in agents[g].approved : EditApproved(g, t)

LEMMA PermissionStep ==
  ASSUME Handler, Permission, [Next]_vars
  PROVE  Permission'
<1>1. \A g \in Generations : AgentPermitted(g)
  BY DEF Permission, CallsArePermitted, RecordedWereApproved, AgentPermitted
<1>2. /\ \A r : UserApproved(r) => UserApproved(r)'
      /\ \A g, t : EditApproved(g, t) => EditApproved(g, t)'
  BY ApprovalsLast, EditsLast
<1>3. ASSUME NEW g \in Generations, agents'[g] = agents[g]
      PROVE  AgentPermitted(g)'
  <2>1. IsMain(g)' <=> IsMain(g)
    BY <1>3 DEF IsMain
  <2>2. Permitted(g) => Permitted(g)'
    BY <1>2, <1>3 DEF Permitted
  <2> QED
    BY <1>1, <1>2, <1>3, <2>1, <2>2 DEF AgentPermitted
<1>4. ASSUME NEW g \in Generations, BeginsTurn(g)
      PROVE  AgentPermitted(g)'
  BY <1>1, <1>2, <1>4 DEF BeginsTurn, AgentPermitted, Between, Asking
<1>5. ASSUME NEW g \in Generations, LeavesCall(g)
      PROVE  AgentPermitted(g)'
  BY <1>1, <1>2, <1>5 DEF LeavesCall, AgentPermitted, Between, Asking
<1>6. ASSUME NEW g \in Generations, agents[g].pc \in Between, StartsCall(g)
      PROVE  AgentPermitted(g)'
  <2>1. IsMain(g)'
    BY <1>1, <1>6 DEF StartsCall, AgentPermitted, IsMain, Handler, AskingAwaits
  <2>2. Permitted(g)'
    BY <1>1, <1>2, <1>6 DEF StartsCall, AgentPermitted, Permitted
  <2> QED
    BY <1>1, <1>2, <1>6, <2>1, <2>2 DEF StartsCall, AgentPermitted, Between, Asking
<1>7. ASSUME NEW g \in Generations, agents[g].pc = "running", LeavesSandbox(g)
      PROVE  AgentPermitted(g)'
  <2>1. IsMain(g)'
    BY <1>1, <1>7 DEF LeavesSandbox, SameCall, AgentPermitted, IsMain
  <2>2. Permitted(g)'
    BY <1>1, <1>2, <1>7 DEF LeavesSandbox, SameCall, AgentPermitted, Permitted
  <2> QED
    BY <1>1, <1>2, <1>7, <2>1, <2>2 DEF LeavesSandbox, SameCall, AgentPermitted, Between, Asking
<1>8. ASSUME NEW g \in Generations, NEW r \in Requests, AsksFirst(g, r)
      PROVE  AgentPermitted(g)'
  <2>1. IsMain(g)'
    BY <1>8 DEF AsksFirst, Asks, IsMain
  <2> QED
    BY <1>1, <1>2, <1>8, <2>1 DEF AsksFirst, Asks, AgentPermitted, Between
<1>9. ASSUME NEW g \in Generations, NEW r \in Requests, AsksSecond(g, r)
      PROVE  AgentPermitted(g)'
  <2>1. Permitted(g)'
    BY <1>1, <1>2, <1>9 DEF AsksSecond, Asks, AgentPermitted, Permitted
  <2> QED
    BY <1>1, <1>2, <1>9, <2>1 DEF AsksSecond, Asks, AgentPermitted, Between
<1>10. ASSUME NEW g \in Generations, MovesInCall(g)
       PROVE  AgentPermitted(g)'
  <2>1. IsMain(g)' <=> IsMain(g)
    BY <1>10 DEF MovesInCall, SameCall, IsMain
  <2>2. Permitted(g) => Permitted(g)'
    BY <1>2, <1>10 DEF MovesInCall, SameCall, Permitted
  <2> QED
    BY <1>1, <1>2, <1>10, <2>1, <2>2
       DEF MovesInCall, SameCall, AgentPermitted, Between, Asking
<1>11. ASSUME NEW g \in Generations, IsApproved(g)
       PROVE  AgentPermitted(g)'
  <2>1. /\ agents[g].req \in Requests /\ My(g).gen = g /\ My(g).turn = agents[g].turn
        /\ My(g).tool = agents[g].tool /\ My(g).end # "new"
    BY <1>11, MyRequest DEF IsApproved, Asking, Handler
  <2>2. UserApproved(agents[g].req)
    BY <1>11, <2>1
       DEF IsApproved, Handler, AnswersWereSent, UserApproved, ApprovedBy, Senders
  <2>3. IsMain(g)' <=> IsMain(g)
    BY <1>11 DEF IsApproved, GoesAhead, IsMain
  <2>4. Permitted(g)'
    <3>1. CASE IsMain(g)
      BY <1>2, <1>11, <2>2, <3>1 DEF IsApproved, GoesAhead, IsMain, Permitted
    <3>2. CASE ~ IsMain(g)
      <4>1. Permitted(g)
        BY <1>1, <1>11, <3>2 DEF AgentPermitted, IsApproved, Asking
      <4> QED
        BY <1>2, <1>11, <4>1 DEF IsApproved, GoesAhead, Permitted
    <3> QED
      BY <3>1, <3>2
  <2>5. \A t \in agents'[g].approved : EditApproved(g, t)'
    <3>1. agents[g].tool = "Edit" => EditApproved(g, agents[g].turn)
      BY <2>1, <2>2 DEF EditApproved, My
    <3>2. \/ agents'[g].approved = agents[g].approved
          \/ /\ agents'[g].approved \subseteq agents[g].approved \cup {agents[g].turn}
             /\ agents[g].tool = "Edit"
      BY <1>11, RecordedType DEF IsApproved, GoesAhead, Handler
    <3> QED
      BY <1>1, <1>2, <3>1, <3>2 DEF AgentPermitted
  <2>6. UserApproved(agents[g].req)'
    BY <1>2, <1>11, <2>2 DEF IsApproved, GoesAhead
  <2>7. agents'[g].pc = IF IsMain(g) THEN "running" ELSE "unboxed"
    BY <1>11 DEF IsApproved, GoesAhead
  <2> QED
    BY <2>3, <2>4, <2>5, <2>6, <2>7 DEF AgentPermitted, Between, Asking
<1>12. ASSUME NEW g \in Generations, Steps(g), AgentPermitted(g)'
       PROVE  \A h \in Generations : AgentPermitted(h)'
  BY <1>3, <1>12 DEF Steps
<1>13. \A g \in Generations : AgentPermitted(g)'
  <2>1. ASSUME NEW g \in Generations,
               \/ BeginsTurn(g) \/ MovesAlone(g) \/ MovesInCall(g) \/ IsApproved(g)
               \/ \E end : IsRefused(g, end)
        PROVE  Steps(g) /\ AgentPermitted(g)'
    BY <1>4, <1>5, <1>6, <1>7, <1>10, <1>11, <2>1
       DEF BeginsTurn, MovesAlone, LeavesCall, StartsCall, LeavesSandbox, MovesInCall, SameCall,
           IsApproved, GoesAhead, IsRefused
  <2>2. ASSUME NEW g \in Generations, NEW r \in Requests, AsksFirst(g, r) \/ AsksSecond(g, r)
        PROVE  Steps(g) /\ AgentPermitted(g)'
    BY <1>8, <1>9, <2>2 DEF AsksFirst, AsksSecond, Asks
  <2>3. CASE UNCHANGED agents
    BY <1>3, <2>3
  <2>4. ASSUME NEW c \in Clients, ClientMoves(c)
        PROVE  UNCHANGED agents
    BY <2>4 DEF ClientMoves
  <2> QED
    BY <1>12, <2>1, <2>2, <2>3, <2>4, WhatMoves
<1> QED
  BY <1>13 DEF Permission, CallsArePermitted, RecordedWereApproved, AgentPermitted

\* Nothing runs without a permission: the policy's, or a client's for this very attempt, or,
\* for an edit, a client's for an edit of the same turn; and a command leaves the sandbox
\* only as its user agreed (ToolOrchestrator::run, request_degrade_approval).
THEOREM OnlyTheAllowedRuns == Spec => []RunsOnlyWhenAllowed
<1>1. Handler /\ Permission /\ [Next]_vars => (Handler /\ Permission)'
  BY HandlerStep, PermissionStep
<1>2. Permission => RunsOnlyWhenAllowed
  BY DEF Permission, CallsArePermitted, Permitted, EditApproved, RunsOnlyWhenAllowed
<1>3. Init => Handler /\ Permission
  BY HandlerStart, PermissionStart
<1> QED
  BY <1>1, <1>2, <1>3, PTL DEF Spec

-----------------------------------------------------------------------------
(* Refusal: a turn does not go on after a request that was refused *)

\* No request is of a turn to come.
TurnsAreReached ==
  \A r \in Requests : reqs[r].end # "new" =>
    reqs[r].gen \in Generations /\ reqs[r].turn <= agents[reqs[r].gen].turn

\* How request r left agent g, if it was of the turn g is in.
Uncontradicted(g, r) ==
  /\ reqs[r].gen = g /\ reqs[r].turn = agents[g].turn
  /\ agents[g].pc # "idle"
  => /\ reqs[r].end # "rejected"
     /\ agents[g].mode = "planner" => reqs[r].end \notin {"timedout", "dropped"}

LEMMA TurnsNeverBack ==
  ASSUME Handler, [Next]_vars
  PROVE  \A g \in Generations : /\ agents[g].turn \in Nat /\ agents'[g].turn \in Nat
                                /\ agents[g].turn <= agents'[g].turn
<1>1. \A g \in Generations : agents[g].turn \in Nat
  BY DEF Handler, Typed, TypeOK, Agent
<1>2. ASSUME NEW g \in Generations, Steps(g),
             agents'[g].turn \in {agents[g].turn, agents[g].turn + 1}
      PROVE  \A h \in Generations : agents'[h].turn \in Nat /\ agents[h].turn <= agents'[h].turn
  <2> TAKE h \in Generations
  <2>1. CASE h = g
    BY <1>1, <1>2, <2>1
  <2>2. CASE h # g
    <3>1. agents'[h] = agents[h]
      BY <1>2, <2>2 DEF Steps
    <3>2. agents[h].turn \in Nat
      BY <1>1
    <3> QED
      BY <3>1, <3>2
  <2> QED
    BY <2>1, <2>2
<1>3. ASSUME NEW g \in Generations,
             \/ BeginsTurn(g) \/ MovesAlone(g) \/ MovesInCall(g) \/ IsApproved(g)
             \/ \E end : IsRefused(g, end)
      PROVE  Steps(g) /\ agents'[g].turn \in {agents[g].turn, agents[g].turn + 1}
  BY <1>3 DEF BeginsTurn, MovesAlone, LeavesCall, StartsCall, LeavesSandbox, MovesInCall,
              SameCall, IsApproved, GoesAhead, IsRefused
<1>4. ASSUME NEW g \in Generations, NEW r \in Requests, AsksFirst(g, r) \/ AsksSecond(g, r)
      PROVE  Steps(g) /\ agents'[g].turn \in {agents[g].turn, agents[g].turn + 1}
  BY <1>4 DEF AsksFirst, AsksSecond, Asks
<1>5. ASSUME UNCHANGED agents
      PROVE  \A h \in Generations : agents'[h].turn \in Nat /\ agents[h].turn <= agents'[h].turn
  BY <1>1, <1>5
<1>6. ASSUME NEW c \in Clients, ClientMoves(c)
      PROVE  UNCHANGED agents
  BY <1>6 DEF ClientMoves
<1>7. \A h \in Generations : agents'[h].turn \in Nat /\ agents[h].turn <= agents'[h].turn
  BY <1>2, <1>3, <1>4, <1>5, <1>6, WhatMoves
<1> QED
  BY <1>1, <1>7

Refusal == TurnsAreReached /\ RefusalStopsTurn

LEMMA TurnsReachedStep ==
  ASSUME Handler, TurnsAreReached, [Next]_vars
  PROVE  TurnsAreReached'
<1> SUFFICES ASSUME NEW r \in Requests, reqs'[r].end # "new"
             PROVE  /\ reqs'[r].gen \in Generations
                    /\ reqs'[r].turn <= agents'[reqs'[r].gen].turn
  BY DEF TurnsAreReached
<1>1. CASE reqs[r].end # "new"
  <2>1. /\ reqs'[r].gen = reqs[r].gen /\ reqs'[r].turn = reqs[r].turn
        /\ reqs[r].gen \in Generations /\ reqs[r].turn <= agents[reqs[r].gen].turn
    BY <1>1, ApprovalsLast DEF TurnsAreReached
  <2>2. reqs[r].turn \in Nat
    BY DEF Handler, Typed, TypeOK, Request
  <2>3. /\ agents[reqs[r].gen].turn \in Nat /\ agents'[reqs[r].gen].turn \in Nat
        /\ agents[reqs[r].gen].turn <= agents'[reqs[r].gen].turn
    BY <2>1, TurnsNeverBack
  <2> QED
    BY <2>1, <2>2, <2>3
<1>2. CASE reqs[r].end = "new"
  <2>1. ~ UNCHANGED reqs
    BY <1>2
  <2>2. ASSUME NEW g, NEW s, Touches(g, s)
        PROVE  FALSE
    BY <1>2, <2>2 DEF Touches
  <2>3. ASSUME NEW g \in Generations,
               BeginsTurn(g) \/ MovesAlone(g) \/ MovesInCall(g) \/ IsApproved(g)
        PROVE  UNCHANGED reqs \/ Touches(g, agents[g].req)
    BY <2>3 DEF BeginsTurn, MovesAlone, MovesInCall, IsApproved, Closes, Ends
  <2>4. ASSUME NEW g \in Generations, NEW end, IsRefused(g, end)
        PROVE  Touches(g, agents[g].req)
    BY <2>4 DEF IsRefused, Ends
  <2>5. ASSUME NEW c \in Clients, ClientMoves(c)
        PROVE  UNCHANGED reqs \/ \E g : Touches(g, clients[c].req)
    BY <2>5 DEF ClientMoves
  <2>6. ASSUME NEW g \in Generations, NEW s \in Requests, AsksFirst(g, s) \/ AsksSecond(g, s)
        PROVE  /\ reqs'[r].gen \in Generations
               /\ reqs'[r].turn <= agents'[reqs'[r].gen].turn
    <3>1. Asks(g, s)
      BY <2>6 DEF AsksFirst, AsksSecond
    <3>2. s = r
      BY <1>2, <3>1 DEF Asks
    <3>3. /\ reqs'[r].gen = g /\ reqs'[r].turn = agents[g].turn
          /\ agents'[g].turn = agents[g].turn
      BY <3>1, <3>2 DEF Asks
    <3> QED
      BY <3>3, TurnsNeverBack
  <2> QED
    BY <2>1, <2>2, <2>3, <2>4, <2>5, <2>6, WhatMoves
<1> QED
  BY <1>1, <1>2

\* A step in which agent g goes on with its turn leaves it uncontradicted.
LEMMA GoesOnUnrefused ==
  ASSUME RefusalStopsTurn, NEW g \in Generations, NEW r \in Requests, agents[g].pc # "idle",
         agents'[g].turn = agents[g].turn,
         agents'[g].pc # "idle" => agents'[g].mode = agents[g].mode,
         reqs'[r] = reqs[r]
  PROVE  Uncontradicted(g, r)'
BY DEF RefusalStopsTurn, Uncontradicted

LEMMA RefusalStep ==
  ASSUME Handler, Refusal, [Next]_vars
  PROVE  Refusal'
<1> USE DEF Refusal
<1>1. \A g \in Generations, r \in Requests : Uncontradicted(g, r)
  BY DEF RefusalStopsTurn, Uncontradicted
<1>2. ASSUME NEW g \in Generations, NEW r \in Requests, agents'[g] = agents[g],
             reqs'[r] = reqs[r] \/ reqs'[r].end \in {"new", None, "approved", "aborted"}
      PROVE  Uncontradicted(g, r)'
  BY <1>1, <1>2 DEF Uncontradicted
<1>3. ASSUME NEW g \in Generations, Steps(g), \A r \in Requests : Uncontradicted(g, r)',
             \A r \in Requests : reqs'[r] = reqs[r] \/ reqs'[r].gen = g
      PROVE  \A h \in Generations, r \in Requests : Uncontradicted(h, r)'
  <2> SUFFICES ASSUME NEW h \in Generations, NEW r \in Requests, h # g
               PROVE  Uncontradicted(h, r)'
    BY <1>3
  <2>1. agents'[h] = agents[h]
    BY <1>3 DEF Steps
  <2>2. CASE reqs'[r] = reqs[r]
    BY <1>2, <2>1, <2>2
  <2>3. CASE reqs'[r].gen = g
    BY <2>3 DEF Uncontradicted
  <2> QED
    BY <1>3, <2>2, <2>3
<1>4. ASSUME NEW g \in Generations, BeginsTurn(g)
      PROVE  \A h \in Generations, r \in Requests : Uncontradicted(h, r)'
  <2>1. ASSUME NEW r \in Requests
        PROVE  Uncontradicted(g, r)'
    <3>1. CASE reqs[r].end = "new"
      BY <1>4, <3>1 DEF BeginsTurn, Uncontradicted
    <3>2. CASE reqs[r].end # "new"
      <4>1. reqs[r].gen = g => reqs[r].turn <= agents[g].turn
        BY <3>2 DEF TurnsAreReached
      <4>2. agents[g].turn \in Nat /\ reqs[r].turn \in Nat
        BY DEF Handler, Typed, TypeOK, Agent, Request
      <4>3. agents'[g].turn = agents[g].turn + 1 /\ UNCHANGED reqs
        BY <1>4 DEF BeginsTurn
      <4>4. reqs'[r].gen = g => reqs'[r].turn # agents'[g].turn
        BY <4>1, <4>2, <4>3
      <4> QED
        BY <4>4 DEF Uncontradicted
    <3> QED
      BY <3>1, <3>2
  <2> QED
    BY <1>3, <1>4, <2>1 DEF BeginsTurn
<1>5. ASSUME NEW g \in Generations, MovesAlone(g)
      PROVE  \A h \in Generations, r \in Requests : Uncontradicted(h, r)'
  <2>1. /\ Steps(g) /\ UNCHANGED reqs /\ agents[g].pc # "idle"
        /\ agents'[g].turn = agents[g].turn
        /\ agents'[g].pc # "idle" => agents'[g].mode = agents[g].mode
    BY <1>5 DEF MovesAlone, LeavesCall, StartsCall, LeavesSandbox, SameCall
  <2> QED
    BY <1>3, <2>1, GoesOnUnrefused
<1>6. ASSUME NEW g \in Generations, MovesInCall(g)
      PROVE  \A h \in Generations, r \in Requests : Uncontradicted(h, r)'
  <2>1. /\ Steps(g) /\ agents[g].pc # "idle"
        /\ agents'[g].turn = agents[g].turn /\ agents'[g].mode = agents[g].mode
    BY <1>6 DEF MovesInCall, SameCall, Asking
  <2>2. \A r \in Requests : reqs'[r] = reqs[r] \/ (reqs'[r].gen = g /\ reqs'[r].end = None)
    BY <1>6 DEF MovesInCall, Closes, Touches
  <2>3. \A r \in Requests : Uncontradicted(g, r)'
    <3> TAKE r \in Requests
    <3>1. CASE reqs'[r] = reqs[r]
      BY <2>1, <3>1, GoesOnUnrefused
    <3>2. CASE reqs'[r].end = None
      BY <3>2 DEF Uncontradicted
    <3> QED
      BY <2>2, <3>1, <3>2
  <2> QED
    BY <1>3, <2>1, <2>2, <2>3
<1>7. ASSUME NEW g \in Generations, IsApproved(g)
      PROVE  \A h \in Generations, r \in Requests : Uncontradicted(h, r)'
  <2>1. /\ Steps(g) /\ agents[g].pc # "idle"
        /\ agents'[g].turn = agents[g].turn /\ agents'[g].mode = agents[g].mode
    BY <1>7 DEF IsApproved, GoesAhead
  <2>2. \A r \in Requests : reqs'[r] = reqs[r] \/ (reqs'[r].gen = g /\ reqs'[r].end = "approved")
    BY <1>7 DEF IsApproved, Ends, Touches
  <2>3. \A r \in Requests : Uncontradicted(g, r)'
    <3> TAKE r \in Requests
    <3>1. CASE reqs'[r] = reqs[r]
      BY <2>1, <3>1, GoesOnUnrefused
    <3>2. CASE reqs'[r].end = "approved"
      BY <3>2 DEF Uncontradicted
    <3> QED
      BY <2>2, <3>1, <3>2
  <2> QED
    BY <1>3, <2>1, <2>2, <2>3
<1>8. ASSUME NEW g \in Generations, NEW s \in Requests, AsksFirst(g, s) \/ AsksSecond(g, s)
      PROVE  \A h \in Generations, r \in Requests : Uncontradicted(h, r)'
  <2>1. /\ Steps(g) /\ agents[g].pc # "idle"
        /\ agents'[g].turn = agents[g].turn /\ agents'[g].mode = agents[g].mode
    BY <1>8 DEF AsksFirst, AsksSecond, Asks
  <2>2. \A r \in Requests : reqs'[r] = reqs[r] \/ (reqs'[r].gen = g /\ reqs'[r].end = None)
    BY <1>8 DEF AsksFirst, AsksSecond, Asks
  <2>3. \A r \in Requests : Uncontradicted(g, r)'
    <3> TAKE r \in Requests
    <3>1. CASE reqs'[r] = reqs[r]
      BY <2>1, <3>1, GoesOnUnrefused
    <3>2. CASE reqs'[r].end = None
      BY <3>2 DEF Uncontradicted
    <3> QED
      BY <2>2, <3>1, <3>2
  <2> QED
    BY <1>3, <2>1, <2>2, <2>3
<1>9. ASSUME NEW g \in Generations,
             NEW end \in {"rejected", "timedout", "dropped", "aborted"}, IsRefused(g, end)
      PROVE  \A h \in Generations, r \in Requests : Uncontradicted(h, r)'
  <2>1. /\ Steps(g) /\ agents[g].pc # "idle" /\ agents'[g].turn = agents[g].turn
        /\ agents'[g].pc # "idle" => agents'[g].mode = agents[g].mode
        /\ agents'[g].pc = "idle" \/ (end \in {"timedout", "dropped"}
                                      /\ agents[g].mode # "planner")
    BY <1>9 DEF IsRefused, LeavesCall, Ends, Asking
  <2>2. \A r \in Requests : reqs'[r] = reqs[r] \/ (reqs'[r].gen = g /\ reqs'[r].end = end)
    BY <1>9 DEF IsRefused, Ends, Touches
  <2>3. \A r \in Requests : Uncontradicted(g, r)'
    <3> TAKE r \in Requests
    <3>1. CASE reqs'[r] = reqs[r]
      BY <2>1, <3>1, GoesOnUnrefused
    <3>2. CASE reqs'[r].end = end
      BY <2>1, <3>2 DEF Uncontradicted
    <3> QED
      BY <2>2, <3>1, <3>2
  <2> QED
    BY <1>3, <2>1, <2>2, <2>3
<1>10. ASSUME NEW c \in Clients, ClientMoves(c)
       PROVE  \A h \in Generations, r \in Requests : Uncontradicted(h, r)'
  <2>1. UNCHANGED agents
    BY <1>10 DEF ClientMoves
  <2>2. \A r \in Requests : reqs'[r] = reqs[r] \/ reqs'[r].end = None
    BY <1>10 DEF ClientMoves, Touches
  <2> QED
    BY <1>2, <2>1, <2>2
<1>11. ASSUME UNCHANGED <<agents, reqs>>
       PROVE  \A h \in Generations, r \in Requests : Uncontradicted(h, r)'
  BY <1>2, <1>11
<1>12. \A h \in Generations, r \in Requests : Uncontradicted(h, r)'
  BY <1>4, <1>5, <1>6, <1>7, <1>8, <1>9, <1>10, <1>11, WhatMoves
<1>13. RefusalStopsTurn'
  BY <1>12 DEF RefusalStopsTurn, Uncontradicted
<1> QED
  BY <1>13, TurnsReachedStep

LEMMA RefusalStart == Init => Refusal
BY DEF Init, Refusal, TurnsAreReached, RefusalStopsTurn, Idle, New

\* A turn ends when the user refuses, and a planner's turn also when nobody answers
\* (execute_native_tool_call_body, execute_single_tool_call).
THEOREM RefusalEndsTheTurn == Spec => []RefusalStopsTurn
<1>1. Handler /\ Refusal /\ [Next]_vars => (Handler /\ Refusal)'
  BY HandlerStep, RefusalStep
<1>2. Init => Handler /\ Refusal
  BY HandlerStart, RefusalStart
<1>3. Refusal => RefusalStopsTurn
  BY DEF Refusal
<1> QED
  BY <1>1, <1>2, <1>3, PTL DEF Spec

=============================================================================
