------------------------------ MODULE Terminal ------------------------------
(***************************************************************************)
(* The terminal client (ui/tui): one loop that draws, reads the keys and   *)
(* starts, follows and aborts the turns of an agent it runs itself.        *)
(*                                                                         *)
(* Each pass of the loop takes the approval requests from the queue of the *)
(* approval handler, the events from the channel of the current task, sees *)
(* whether the task has finished, draws, and handles at most one key. The  *)
(* task of a turn or of a compaction holds the lock of the agent. A request *)
(* for an approval reaches the loop twice: by the queue of the handler, and *)
(* as an event. An abort takes effect where the task next waits.           *)
(*                                                                         *)
(* Editing the input line, the slash palette and the rows of the history   *)
(* other than answers do not change what is modelled here: Enter finds the *)
(* line in any of the forms the loop tells apart.                          *)
(***************************************************************************)
EXTENDS Naturals, Sequences, SequencesExt

CONSTANTS
  MaxTasks,     \* bound: turns and compactions started
  MaxRequests,  \* bound: approvals asked
  MaxText       \* bound: pieces of text of a turn

ASSUME TerminalAssumption == {MaxTasks, MaxRequests, MaxText} \subseteq Nat

Tasks == 1 .. MaxTasks
Requests == 1 .. MaxRequests
Ui == 0      \* the loop, among the tasks that want the agent

VARIABLES
  loop,     \* the loop: where it is, turn_task, core_event_rx
  app,      \* AppState: what is shown, and the answers committed to the history
  handler,  \* TuiApprovalHandler: the requests queued and those that wait for an answer
  lock,     \* who holds and who waits for the agent
  agent,    \* turns the agent has begun and approvals it has asked
  tasks     \* the tasks

vars == <<loop, app, handler, lock, agent, tasks>>

NoTask == [at |-> "none", kind |-> "turn", aborted |-> FALSE, turn |-> 0, round |-> <<>>,
           said |-> <<>>, due |-> <<>>, request |-> 0, told |-> FALSE, verdict |-> "none"]

Init ==
  /\ loop = [at |-> "approvals", task |-> 0, chan |-> <<>>]
  /\ app = [pending |-> 0, picker |-> FALSE, active |-> 0, stream |-> 0, text |-> <<>>,
            committed |-> 0, cells |-> <<>>, status |-> "none"]
  /\ handler = [queued |-> <<>>, waiting |-> {}]
  /\ lock = <<>>
  /\ agent = [turns |-> 0, requests |-> 0]
  /\ tasks = [k \in Tasks |-> NoTask]

-----------------------------------------------------------------------------
(* The reducer *)

Event(type, turn) == [type |-> type, turn |-> turn]
Delta(turn, piece) == [type |-> "delta", turn |-> turn, piece |-> piece]
Completed(turn, content) == [type |-> "completed", turn |-> turn, content |-> content]
Requested(r) == [type |-> "requested", request |-> r]
Resolved(r) == [type |-> "resolved", request |-> r]

\* The text of another turn is forgotten.
Following(a, turn) ==
  IF a.stream = turn THEN a ELSE [a EXCEPT !.stream = turn, !.text = <<>>]

Commits(a, turn) == a.stream = turn /\ a.text # <<>> /\ a.committed # turn

TurnOver(a, turn) ==
  LET b == IF Commits(a, turn)
             THEN [a EXCEPT !.cells = Append(@, [turn |-> turn, text |-> a.text]),
                            !.committed = turn]
             ELSE a
  IN  [b EXCEPT !.active = 0, !.text = <<>>, !.status = "none"]

ShowRequest(a, r) == [a EXCEPT !.pending = r]

\* A request that is not the one shown leaves that one standing.
RequestOver(a, r) == IF a.pending \notin {0, r} THEN a ELSE [a EXCEPT !.pending = 0]

\* apply_core_event
Apply(a, e) ==
  CASE e.type = "turn_started" ->
         [a EXCEPT !.active = e.turn, !.stream = 0, !.text = <<>>, !.status = "Working"]
    [] e.type = "response_started" ->
         [Following(a, e.turn) EXCEPT !.active = e.turn, !.status = "Working"]
    [] e.type = "delta" -> [Following(a, e.turn) EXCEPT !.text = Append(@, e.piece)]
    [] e.type = "completed" -> [a EXCEPT !.stream = e.turn, !.text = e.content]
    [] e.type = "requested" -> ShowRequest(a, e.request)
    [] e.type = "resolved" -> RequestOver(a, e.request)
    [] e.type = "response_error" -> [a EXCEPT !.status = "none"]
    [] e.type = "turn_completed" -> TurnOver(a, e.turn)

\* clear: the rows printed before stay on the terminal.
Cleared(a) ==
  [a EXCEPT !.pending = 0, !.active = 0, !.stream = 0, !.text = <<>>, !.committed = 0,
            !.status = "none"]

-----------------------------------------------------------------------------
(* The loop, before it reads a key *)

\* drain_approval_requests
DrainApprovals ==
  /\ loop.at = "approvals"
  /\ app' = FoldLeft(ShowRequest, app, handler.queued)
  /\ handler' = [handler EXCEPT !.queued = <<>>]
  /\ loop' = [loop EXCEPT !.at = "events"]
  /\ UNCHANGED <<lock, agent, tasks>>

\* drain_core_events
DrainEvents ==
  /\ loop.at = "events"
  /\ app' = FoldLeft(Apply, app, loop.chan)
  /\ loop' = [loop EXCEPT !.at = "finished", !.chan = <<>>]
  /\ UNCHANGED <<handler, lock, agent, tasks>>

IsFinished(k) == k # 0 /\ tasks[k].at = "done"

\* Variant: what a finished task has sent since the events were drained is dropped.
DropFinished ==
  /\ loop.at = "finished"
  /\ loop' = IF IsFinished(loop.task)
               THEN [at |-> "key", task |-> 0, chan |-> <<>>] ELSE [loop EXCEPT !.at = "key"]
  /\ UNCHANGED <<app, handler, lock, agent, tasks>>

\* drain_finished_turn_task: the task may have sent more since its events were drained.
DrainFinished ==
  /\ loop.at = "finished"
  /\ \/ /\ IsFinished(loop.task)
        /\ app' = FoldLeft(Apply, app, loop.chan)
        /\ loop' = [at |-> "key", task |-> 0, chan |-> <<>>]
     \/ /\ ~IsFinished(loop.task)
        /\ loop' = [loop EXCEPT !.at = "key"]
        /\ UNCHANGED app
  /\ UNCHANGED <<handler, lock, agent, tasks>>

-----------------------------------------------------------------------------
(* Keys *)

LoopsAgain == loop' = [loop EXCEPT !.at = "approvals"]

\* No key within 40 ms, or one that only edits or moves, or is answered with a message:
\* "Busy", "Invalid approval input", "Approval pending".
OtherKey ==
  /\ loop.at = "key"
  /\ LoopsAgain
  /\ UNCHANGED <<app, handler, lock, agent, tasks>>

\* Variant: a turn may be entered while one is running.
AcceptsAlways == loop.at = "key" /\ ~app.picker /\ app.pending = 0

\* An empty prompt: no picker, no approval to answer, and no task running.
AcceptsInput == loop.at = "key" /\ ~app.picker /\ app.pending = 0 /\ loop.task = 0

\* The task gets a channel of its own.
Starts(kind) ==
  \E k \in Tasks :
    /\ tasks[k].at = "none" /\ \A j \in 1 .. k - 1 : tasks[j].at # "none"
    /\ tasks' = [tasks EXCEPT ![k].at = "spawned", ![k].kind = kind]
    /\ loop' = [at |-> "approvals", task |-> k, chan |-> <<>>]

EnterTurn ==
  /\ AcceptsInput
  /\ Starts("turn")
  /\ app' = [app EXCEPT !.status = "Working"]
  /\ UNCHANGED <<handler, lock, agent>>

\* /compact, whose status line stays when it has ended, until a turn is over.
EnterCompact ==
  /\ AcceptsInput
  /\ Starts("compact")
  /\ app' = [app EXCEPT !.status = "Compacting"]
  /\ UNCHANGED <<handler, lock, agent>>

\* /policy
EnterPolicy ==
  /\ AcceptsInput
  /\ app' = [app EXCEPT !.picker = TRUE]
  /\ LoopsAgain
  /\ UNCHANGED <<handler, lock, agent, tasks>>

\* /clear
EnterClear ==
  /\ AcceptsInput
  /\ app' = Cleared(app)
  /\ LoopsAgain
  /\ UNCHANGED <<handler, lock, agent, tasks>>

\* Enter on the policy picker: the loop waits for the agent.
EnterPick ==
  /\ loop.at = "key" /\ app.picker
  /\ lock' = Append(lock, Ui)
  /\ loop' = [loop EXCEPT !.at = "picking"]
  /\ UNCHANGED <<app, handler, agent, tasks>>

PolicyPicked ==
  /\ loop.at = "picking" /\ Head(lock) = Ui
  /\ lock' = Tail(lock)
  /\ app' = [app EXCEPT !.picker = FALSE]
  /\ LoopsAgain
  /\ UNCHANGED <<handler, agent, tasks>>

\* TuiApprovalHandler::resolve. A request that nobody waits for any more can be resolved
\* too, once; the answer then reaches nobody.
Resolve(r, verdict) ==
  /\ r \in handler.waiting
  /\ handler' = [handler EXCEPT !.waiting = @ \ {r}]
  /\ tasks' = [k \in Tasks |->
       IF tasks[k].request = r /\ tasks[k].at = "waiting"
         THEN [tasks[k] EXCEPT !.verdict = verdict] ELSE tasks[k]]

\* Enter with an approval shown, on Approve or Deny. If the request cannot be resolved it
\* stays, with the message "Approval resolve failed".
EnterDecision(verdict) ==
  /\ loop.at = "key" /\ ~app.picker /\ app.pending # 0
  /\ \/ /\ Resolve(app.pending, verdict)
        /\ app' = [app EXCEPT !.pending = 0]
     \/ /\ app.pending \notin handler.waiting
        /\ UNCHANGED <<app, handler, tasks>>
  /\ LoopsAgain
  /\ UNCHANGED <<lock, agent>>

\* Esc closes the picker, keeps an approval for later, aborts the task or clears.
EscPicker ==
  /\ loop.at = "key" /\ app.picker
  /\ app' = [app EXCEPT !.picker = FALSE]
  /\ LoopsAgain
  /\ UNCHANGED <<handler, lock, agent, tasks>>

\* abort_turn: the turn is over for the loop, whatever it has sent meanwhile.
EscAbort ==
  /\ loop.at = "key" /\ ~app.picker /\ app.pending = 0 /\ loop.task # 0
  /\ tasks' = [tasks EXCEPT ![loop.task].aborted = TRUE]
  /\ app' = TurnOver(app, app.active)
  /\ loop' = [at |-> "approvals", task |-> 0, chan |-> <<>>]
  /\ UNCHANGED <<handler, lock, agent>>

EscClear ==
  /\ AcceptsInput
  /\ app' = Cleared(app)
  /\ LoopsAgain
  /\ UNCHANGED <<handler, lock, agent, tasks>>

\* Ctrl-C: the loop is left, nothing is drained or drawn any more, and the agent is awaited
\* to shut it down.
Quit ==
  /\ loop.at = "key"
  /\ lock' = Append(lock, Ui)
  /\ loop' = [at |-> "quitting", task |-> 0, chan |-> <<>>]
  /\ UNCHANGED <<app, handler, agent, tasks>>

Leave ==
  /\ loop.at = "quitting" /\ Head(lock) = Ui
  /\ loop' = [loop EXCEPT !.at = "closed"]
  /\ UNCHANGED <<app, handler, lock, agent, tasks>>

-----------------------------------------------------------------------------
(* The task of a turn or of a compaction *)

\* A task runs on while it is not aborted, and if it is, up to where it next waits.
At(k, place) == tasks[k].at = place /\ ~tasks[k].aborted /\ loop.at # "closed"

Send(k, events) == loop' = IF loop.task = k THEN [loop EXCEPT !.chan = @ \o events] ELSE loop

Goes(k, place) == tasks' = [tasks EXCEPT ![k].at = place]

Locks(k) ==
  /\ At(k, "spawned")
  /\ lock' = Append(lock, k)
  /\ Goes(k, "locking")
  /\ UNCHANGED <<loop, app, handler, agent>>

Begins(k) ==
  /\ At(k, "locking") /\ Head(lock) = k /\ tasks[k].kind = "turn"
  /\ agent' = [agent EXCEPT !.turns = @ + 1]
  /\ tasks' = [tasks EXCEPT ![k].at = "model", ![k].turn = agent.turns + 1]
  /\ Send(k, <<Event("turn_started", agent.turns + 1)>>)
  /\ UNCHANGED <<app, handler, lock>>

BeginsCompact(k) ==
  /\ At(k, "locking") /\ Head(lock) = k /\ tasks[k].kind = "compact"
  /\ Goes(k, "compacting")
  /\ UNCHANGED <<loop, app, handler, lock, agent>>

\* A piece of the model's answer; the first of a round starts a response.
Says(k) ==
  LET t == tasks[k]
      piece == Len(t.said) + 1 IN
  /\ At(k, "model") /\ Len(t.said) < MaxText
  /\ tasks' = [tasks EXCEPT ![k].said = Append(@, piece), ![k].round = Append(@, piece)]
  /\ Send(k, (IF t.round = <<>> THEN <<Event("response_started", t.turn)>> ELSE <<>>)
               \o <<Delta(t.turn, piece)>>)
  /\ UNCHANGED <<app, handler, lock, agent>>

\* The round ends with a tool that needs no approval.
NextRound(k) ==
  /\ At(k, "model") /\ tasks[k].round # <<>>
  /\ tasks' = [tasks EXCEPT ![k].round = <<>>]
  /\ UNCHANGED <<loop, app, handler, lock, agent>>

\* request_approval, with two short locks in a row at which the task does not wait.
Asks(k) ==
  LET r == agent.requests + 1 IN
  /\ At(k, "model") /\ r \in Requests
  /\ agent' = [agent EXCEPT !.requests = r]
  /\ handler' = [handler EXCEPT !.queued = Append(@, r)]
  /\ tasks' = [tasks EXCEPT ![k].at = "registering", ![k].request = r, ![k].told = FALSE,
                            ![k].verdict = "none"]
  /\ UNCHANGED <<loop, app, lock>>

Registers(k) ==
  /\ tasks[k].at = "registering" /\ loop.at # "closed"
  /\ handler' = [handler EXCEPT !.waiting = @ \cup {tasks[k].request}]
  /\ Goes(k, "waiting")
  /\ UNCHANGED <<loop, app, lock, agent>>

\* execute_tool_with_live_events forwards ApprovalRequested.
Tells(k) ==
  /\ At(k, "waiting") /\ ~tasks[k].told
  /\ tasks' = [tasks EXCEPT ![k].told = TRUE]
  /\ Send(k, <<Requested(tasks[k].request)>>)
  /\ UNCHANGED <<app, handler, lock, agent>>

\* The events of the tool call that are still to be forwarded when it returns.
Outcome(k) ==
  (IF tasks[k].told THEN <<>> ELSE <<Requested(tasks[k].request)>>)
    \o <<Resolved(tasks[k].request)>>

\* What is left of a task.
Over(t, place) ==
  [t EXCEPT !.at = place, !.round = <<>>, !.request = 0, !.told = FALSE, !.verdict = "none"]

\* The turn ends, with this text for the loop to commit.
Ends(k, events, text) ==
  /\ Send(k, events \o <<Event("turn_completed", tasks[k].turn)>>)
  /\ tasks' = [tasks EXCEPT ![k] = [Over(tasks[k], "done") EXCEPT !.due = text]]
  /\ lock' = Tail(lock)
  /\ UNCHANGED <<app, handler, agent>>

Failed(k) == Event("response_error", tasks[k].turn)

IsAllowed(k) ==
  /\ At(k, "waiting") /\ tasks[k].verdict = "approve"
  /\ tasks' = [tasks EXCEPT ![k] = Over(tasks[k], "model")]
  /\ Send(k, Outcome(k))
  /\ UNCHANGED <<app, handler, lock, agent>>

IsRefused(k) ==
  /\ At(k, "waiting") /\ tasks[k].verdict = "deny"
  /\ Ends(k, Append(Outcome(k), Failed(k)), tasks[k].said)

\* Variant: an approval is awaited again.
WaitsOn(k) == At(k, "waiting") /\ UNCHANGED vars

\* The orchestrator gives the handler up; its entry stays.
TimesOut(k) ==
  /\ At(k, "waiting") /\ tasks[k].verdict = "none"
  /\ Ends(k, Append(Outcome(k), Failed(k)), tasks[k].said)

\* The content of the final answer is the text of its round.
Answers(k) ==
  /\ At(k, "model") /\ tasks[k].round # <<>>
  /\ Ends(k, <<Completed(tasks[k].turn, tasks[k].round)>>, tasks[k].round)

\* A failed request, a limit, or a repeated call.
Fails(k) ==
  /\ At(k, "model")
  /\ Ends(k, <<Failed(k)>>, tasks[k].said)

\* The reducer does nothing at ContextCompacted.
CompactEnds(k) ==
  /\ At(k, "compacting")
  /\ Goes(k, "done")
  /\ lock' = Tail(lock)
  /\ UNCHANGED <<loop, app, handler, agent>>

\* Variant: the entry of an approval goes with the task that waits for it.
IsDroppedTidily(k) ==
  /\ tasks[k].aborted /\ loop.at # "closed"
  /\ tasks[k].at \in {"spawned", "locking", "model", "waiting", "compacting"}
  /\ tasks' = [tasks EXCEPT ![k] = Over(tasks[k], "dropped")]
  /\ lock' = SelectSeq(lock, LAMBDA h : h # k)
  /\ handler' = [handler EXCEPT !.waiting = @ \ {tasks[k].request}]
  /\ UNCHANGED <<loop, app, agent>>

\* The runtime drops the aborted task where it waits, and with it its guard of the agent.
IsDropped(k) ==
  /\ tasks[k].aborted /\ loop.at # "closed"
  /\ tasks[k].at \in {"spawned", "locking", "model", "waiting", "compacting"}
  /\ tasks' = [tasks EXCEPT ![k] = Over(tasks[k], "dropped")]
  /\ lock' = SelectSeq(lock, LAMBDA h : h # k)
  /\ UNCHANGED <<loop, app, handler, agent>>

-----------------------------------------------------------------------------
Closed == loop.at = "closed" /\ UNCHANGED vars

Key ==
  \/ OtherKey \/ EnterTurn \/ EnterCompact \/ EnterPolicy \/ EnterClear \/ EnterPick
  \/ \E verdict \in {"approve", "deny"} : EnterDecision(verdict)
  \/ EscPicker \/ EscAbort \/ EscClear \/ Quit

UiStep == DrainApprovals \/ DrainEvents \/ DrainFinished \/ PolicyPicked \/ Leave

TaskStep(k) ==
  \/ Locks(k) \/ Begins(k) \/ BeginsCompact(k) \/ Says(k) \/ NextRound(k) \/ Asks(k)
  \/ Registers(k) \/ Tells(k) \/ IsAllowed(k) \/ IsRefused(k) \/ TimesOut(k) \/ Answers(k)
  \/ Fails(k) \/ CompactEnds(k) \/ IsDropped(k)

Next == UiStep \/ Key \/ (\E k \in Tasks : TaskStep(k)) \/ Closed

Spec == Init /\ [][Next]_vars

\* The runtime goes on with every task, the model and the tools answer, and the time limit
\* of an approval passes. Nothing is asked of the user.
FairSpec == Spec /\ WF_vars(UiStep) /\ \A k \in Tasks : WF_vars(TaskStep(k))

-----------------------------------------------------------------------------
(* Properties *)

IsWaiting(k) == tasks[k].at = "waiting" /\ ~tasks[k].aborted /\ tasks[k].verdict = "none"

\* The tasks rest, and the loop has taken what they sent.
AtRest ==
  /\ loop.at = "key" /\ loop.chan = <<>> /\ handler.queued = <<>>
  /\ ~IsFinished(loop.task)
  /\ \A k \in Tasks :
       tasks[k].at \in {"none", "done", "dropped"} \/ (IsWaiting(k) /\ tasks[k].told)

\* When nothing moves but the keys, the approval a turn waits for is the one that is shown,
\* and one that is shown can be answered and so taken down, whatever became of its turn:
\* otherwise every Enter would be taken as an answer to it, for ever.  It reaches the loop
\* by two ways, may time out, and its turn may be aborted before it is shown.
ApprovalsSettle ==
  AtRest => /\ \A k \in Tasks : IsWaiting(k) => app.pending = tasks[k].request
            /\ app.pending # 0 => app.pending \in handler.waiting

IsRunning == loop.at \notin {"quitting", "closed"}

\* A turn's answer is committed to the history at most once, all of it when the turn came to
\* its end, a part of it when it was aborted; and when a task has been let go of, its answer
\* is there.
AnswersAreCommitted ==
  /\ \A i, j \in DOMAIN app.cells : app.cells[i].turn = app.cells[j].turn => i = j
  /\ \A i \in DOMAIN app.cells, k \in Tasks :
       tasks[k].turn = app.cells[i].turn =>
         IF tasks[k].aborted THEN IsPrefix(app.cells[i].text, tasks[k].said)
                                    \/ app.cells[i].text = tasks[k].due
                             ELSE app.cells[i].text = tasks[k].due
  /\ \A k \in Tasks :
       /\ tasks[k].at = "done" /\ ~tasks[k].aborted /\ tasks[k].due # <<>>
       /\ loop.task # k /\ IsRunning
       =>
         \E i \in DOMAIN app.cells : app.cells[i] = [turn |-> tasks[k].turn, text |-> tasks[k].due]

\* The loop follows every task that runs, so that it can be aborted and its approvals
\* answered, and it waits for the agent only when it has none: picking a policy never keeps
\* it from the turn that holds the agent. Nor does it show a turn at work when there is none.
LoopIsFree ==
  /\ \A k \in Tasks :
       IsRunning /\ tasks[k].at \notin {"none", "done", "dropped"} =>
         tasks[k].aborted \/ loop.task = k
  /\ loop.at = "picking" => loop.task = 0
  /\ AtRest /\ loop.task = 0 => app.status # "Working"

\* A program that was told to quit does: it waits for the turn that holds the agent, whose
\* approval nobody can answer any more.
QuitLeaves == loop.at = "quitting" ~> loop.at = "closed"
=============================================================================
