--------------------------- MODULE TurnLifecycle ---------------------------
(***************************************************************************)
(* One gateway session: the SessionRuntime behind its mutex, the turn      *)
(* workers (run_turn_task) with the core task each of them spawns, the     *)
(* core Agent behind its own mutex, and the session actions (abort,        *)
(* clear, compact, shutdown) and process restarts that interleave with     *)
(* them.                                                                   *)
(*                                                                         *)
(* Every action is one critical section of the session mutex, one poll     *)
(* segment of the core task, or one wait that ends.  Event payloads are    *)
(* abstracted to the event type; only the types that change a turn's       *)
(* status are kept.                                                        *)
(***************************************************************************)
EXTENDS Naturals, Sequences, FiniteSets, SequencesExt

CONSTANTS
  MaxWorkers,   \* number of accepted submits a behaviour may contain
  Budgets       \* bound: how many of each user action, fault and response_error of a
                \* turn that goes on may happen together

Actions == {"abort", "clear", "compact", "shutdown", "restart", "append", "message", "error",
            "panic"}

ASSUME MaxWorkersAssumption == MaxWorkers \in Nat \ {0}
ASSUME BudgetsAssumption    == /\ Budgets # {} /\ IsFiniteSet(Budgets)
                               /\ Budgets \subseteq [Actions -> Nat]

Workers     == 1..MaxWorkers
None        == 0                             \* no worker
Generations == 1..(1 + Max({b["clear"] + b["restart"] : b \in Budgets}))

\* Public turn ids: "turn_n" for core turn n, "turn_0" for the event a manual
\* compaction pushes into a sink, and the compaction's own action turn.
CompactTurn == MaxWorkers + 1
TurnIds     == 0..CompactTurn
NoTurn      == CompactTurn + 1

Statuses   == {"Absent", "Queued", "Running", "Completed", "Failed"}
EventTypes == {"turn_started", "response_error", "response_completed",
               "turn_completed", "turn_interrupted", "context_compacted"}
Event(type, turn) == [type |-> type, turn |-> turn]

VARIABLES
  session,      \* the SessionRuntime fields the handlers test and assign
  turns,        \* session.turns: public turn id -> status
  agents,       \* one core Agent per generation: its lock, sink and next turn id
  workers,      \* the run_turn_task instances and their core tasks
  compactor,    \* the compact action in progress
  closer,       \* the shutdown request in progress
  log,          \* transcript of the session: events with a turn id
  base,         \* length of log when session.turns was last emptied
  lost,         \* turns with a status change that never reached the transcript
  used          \* how many of each user action and fault have happened

vars == <<session, turns, agents, workers, compactor, closer, log, base, lost, used>>

-----------------------------------------------------------------------------
(* Helpers *)

More(a)  == [used EXCEPT ![a] = @ + 1]
May(a)   == \E b \in Budgets : \A x \in Actions : More(a)[x] <= b[x]
Spend(a) == used' = More(a)

Queued(st) == IF st = "Absent" THEN "Queued" ELSE st

\* Variant: turn_interrupted falls through to the default case.
ApplyWithoutInterrupted(st, type) ==
  CASE type = "turn_started"       -> "Running"
    [] type = "turn_completed"     -> IF st = "Failed" THEN "Failed" ELSE "Completed"
    [] type = "response_error"     -> "Failed"
    [] type = "response_completed" -> "Completed"
    [] OTHER                       -> Queued(st)

\* apply_turn_runtime_event: the status a turn has after one event.
ApplyTurnRuntimeEvent(st, type) ==
  CASE type = "turn_started"       -> "Running"
    [] type = "turn_completed"     -> IF st = "Failed" THEN "Failed" ELSE "Completed"
    [] type = "response_error"     -> "Failed"
    [] type = "turn_interrupted"   -> "Failed"
    [] type = "response_completed" -> "Completed"
    [] OTHER                       -> Queued(st)

\* build_session_runtime: the turn table rebuilt from persisted events.
ReplayTurns(events) ==
  [t \in TurnIds |->
     LET status[n \in 0..Len(events)] ==
           IF n = 0 THEN "Absent"
           ELSE IF events[n].turn = t THEN ApplyTurnRuntimeEvent(status[n - 1], events[n].type)
           ELSE status[n - 1]
     IN  status[Len(events)]]

IdleWorker == [pc |-> "unused", agent |-> 1, task |-> "none", aborting |-> FALSE,
               phase |-> "closed", turn |-> NoTurn, chan |-> <<>>,
               known |-> NoTurn, reply |-> "none"]

FreshAgent == [lock |-> "free", sink |-> None, next |-> 1]

FreshSession(gen) == [status |-> "Active", agent |-> gen, handle |-> None,
                      inFlight |-> FALSE, abortRequested |-> FALSE, stored |-> TRUE]

\* The Arc<Mutex<Agent>> of a generation lives while the session, a core task
\* that has not ended, or a handler that cloned it still refers to it.
AgentAlive(g) ==
  \/ session.agent = g
  \/ \E w \in Workers : workers[w].agent = g /\ workers[w].task \in {"waiting", "running"}
  \/ compactor.pc \in {"read", "locked"} /\ compactor.agent = g
  \/ closer.pc = "waiting" /\ closer.agent = g

\* event_sink_rx.recv() returns None: the queue is empty and no sender is left,
\* neither in the task that never ran nor in the agent that kept it.
ChannelClosed(w) ==
  /\ workers[w].chan = <<>>
  /\ workers[w].task # "waiting"
  /\ ~ \E g \in Generations : AgentAlive(g) /\ agents[g].sink = w

RunningTurns == {t \in TurnIds : turns[t] = "Running"}

-----------------------------------------------------------------------------
Init ==
  /\ session   = FreshSession(1)
  /\ turns     = [t \in TurnIds |-> "Absent"]
  /\ agents    = [g \in Generations |-> FreshAgent]
  /\ workers   = [w \in Workers |-> IdleWorker]
  /\ compactor = [pc |-> "idle", agent |-> 1]
  /\ closer    = [pc |-> "idle", agent |-> 1]
  /\ log       = <<>>
  /\ base      = 0
  /\ lost      = {}
  /\ used      = [a \in Actions |-> 0]

-----------------------------------------------------------------------------
(* submit_turn: the handler's critical section and its tokio::spawn *)

\* Variant: only the published handle and the running turns are looked at.
SubmitGuardWithoutFlag ==
  /\ session.stored
  /\ session.status = "Active"
  /\ session.handle = None
  /\ RunningTurns = {}

SubmitGuard ==
  /\ session.stored
  /\ session.status = "Active"
  /\ ~ session.inFlight
  /\ session.handle = None
  /\ RunningTurns = {}

Accepted == [session EXCEPT !.abortRequested = FALSE, !.inFlight = TRUE]

\* The next instance of run_turn_task; instances are numbered in spawn order.
SubmitTurn(w) ==
  /\ workers[w].pc = "unused"
  /\ \A v \in Workers : v < w => workers[v].pc # "unused"
  /\ SubmitGuard
  /\ session' = Accepted
  /\ workers' = [workers EXCEPT ![w].pc = "spawned"]
  /\ UNCHANGED <<turns, agents, compactor, closer, log, base, lost, used>>

\* append_message fails: the handler returns with the in-flight flag set.
SubmitTurnMessageFails ==
  /\ May("message")
  /\ SubmitGuard
  /\ session' = Accepted
  /\ Spend("message")
  /\ UNCHANGED <<turns, agents, workers, compactor, closer, log, base, lost>>

-----------------------------------------------------------------------------
(* run_turn_task *)

\* Reads the agent under the session lock and spawns the core task.
WorkerStart(w) ==
  /\ workers[w].pc = "spawned"
  /\ workers' = [workers EXCEPT ![w].pc = "started", ![w].task = "waiting",
                                ![w].agent = session.agent]
  /\ UNCHANGED <<session, turns, agents, compactor, closer, log, base, lost, used>>

\* Publishes the abort handle and honours an abort that was requested before.
WorkerAttach(w) ==
  /\ workers[w].pc = "started"
  /\ workers' = [workers EXCEPT ![w].pc = "receiving",
                                ![w].aborting = @ \/ session.abortRequested]
  /\ session' = [session EXCEPT !.handle = w, !.inFlight = FALSE]
  /\ UNCHANGED <<turns, agents, compactor, closer, log, base, lost, used>>

\* map_core_event when the transcript append succeeds: project and publish.
AppendThenPublish(e) ==
  /\ turns' = [turns EXCEPT ![e.turn] = ApplyTurnRuntimeEvent(@, e.type)]
  /\ log'   = Append(log, e)
  /\ UNCHANGED <<lost, used>>

\* What an append that returns an error leaves in the transcript: nothing or, when its
\* record was written and only its newline's flush or the manifest failed, the event.
StoredAnyway(e) == {<<>>, <<e>>}

ReportOf(e) == Event("response_error", e.turn)

\* Variant: the reported failure leaves the status of the turn alone.
AppendFailureUnmarked(e) ==
  /\ May("append")
  /\ Spend("append")
  /\ e.type # "response_error"
  /\ \E kept \in StoredAnyway(e) : log' = Append(log \o kept, ReportOf(e))
  /\ UNCHANGED <<turns, lost>>

\* The append fails and handle_key_event_append_failure records a response_error.
AppendFailureReported(e) ==
  /\ May("append")
  /\ Spend("append")
  /\ e.type # "response_error"
  /\ turns' = [turns EXCEPT ![e.turn] = "Failed"]
  /\ \E kept \in StoredAnyway(e) : log' = Append(log \o kept, ReportOf(e))
  /\ UNCHANGED lost

\* The append fails and so does that of the response_error, which is not reported again.
AppendFailureSwallowed(e) ==
  /\ May("append")
  /\ Spend("append")
  /\ turns' = [turns EXCEPT ![e.turn] = "Failed"]
  /\ lost'  = lost \cup {e.turn}
  /\ \E kept \in StoredAnyway(e), report \in StoredAnyway(ReportOf(e)) :
       /\ e.type = "response_error" => report = <<>>
       /\ log' = log \o kept \o report

\* One iteration of the receive loop.
WorkerMap(w) ==
  /\ workers[w].pc = "receiving"
  /\ workers[w].chan # <<>>
  /\ LET e == Head(workers[w].chan)
     IN  /\ AppendThenPublish(e) \/ AppendFailureReported(e) \/ AppendFailureSwallowed(e)
         /\ workers' = [workers EXCEPT ![w].chan  = Tail(@),
                                       ![w].known = e.turn,
                                       ![w].reply = IF @ = "none" THEN "turn" ELSE @]
  /\ UNCHANGED <<session, agents, compactor, closer, base>>

Forgotten == [session EXCEPT !.handle = None, !.inFlight = FALSE, !.abortRequested = FALSE]

\* A submit whose task failed before any event is told so.
JoinReply(w) == IF workers[w].task = "panicked" /\ workers[w].reply = "none"
                THEN "failed" ELSE workers[w].reply

\* The loop has ended and the join result is in: forget the turn in flight.  Only a
\* cancelled task is followed by turn_interrupted.
WorkerJoin(w) ==
  /\ workers[w].pc = "receiving"
  /\ ChannelClosed(w)
  /\ workers[w].task \in {"returned", "cancelled", "panicked"}
  /\ session' = Forgotten
  /\ workers' = [workers EXCEPT ![w].pc = IF workers[w].task = "cancelled"
                                          THEN "interrupting" ELSE "done",
                                ![w].reply = JoinReply(w)]
  /\ UNCHANGED <<turns, agents, compactor, closer, log, base, lost, used>>

\* The task was cancelled: the worker names the turn it knows of or, when it
\* knows none, any running turn.
InterruptedTurns(w) ==
  IF workers[w].known # NoTurn THEN {workers[w].known}
  ELSE IF RunningTurns # {} THEN RunningTurns ELSE {NoTurn}

\* Only an event that names a turn changes what a replay rebuilds.
InterruptEvents(t) == IF t = NoTurn THEN <<>> ELSE <<Event("turn_interrupted", t)>>

\* That turn failed, if it was still open.
Interrupted(t) ==
  [u \in TurnIds |-> IF u = t /\ turns[u] \in {"Queued", "Running"} THEN "Failed" ELSE turns[u]]

\* Variant: a submit that was aborted before its first event is never answered.
NoReply(reply) == reply

\* turn_id_tx.take(): only the first answer is sent.
AbortReply(reply) == IF reply = "none" THEN "aborted" ELSE reply

\* Marks the turn and publishes turn_interrupted, or fails to append it.
WorkerInterrupt(w) ==
  /\ workers[w].pc = "interrupting"
  /\ \E t \in InterruptedTurns(w) :
       /\ turns' = Interrupted(t)
       /\ \/ /\ log' = log \o InterruptEvents(t)
             /\ UNCHANGED <<lost, used>>
          \/ /\ May("append") /\ Spend("append")
             /\ lost' = lost \cup ({t} \cap TurnIds)
             /\ log' \in {log, log \o InterruptEvents(t)}
  /\ workers' = [workers EXCEPT ![w].pc = "done",
                                ![w].reply = AbortReply(@)]
  /\ UNCHANGED <<session, agents, compactor, closer, base>>

-----------------------------------------------------------------------------
(* The core task: lock the agent, submit_with_sink, push events, return.  It *)
(* can only be cancelled at an await, never between its last response event  *)
(* and turn_completed.                                                       *)

Push(w, type) == Append(workers[w].chan, Event(type, workers[w].turn))

Begun(g, w) == [lock |-> "task", sink |-> w, next |-> agents[g].next + 1]

\* Takes the agent lock, installs the sink, numbers the turn, pushes TurnStarted.
TaskBegin(w) ==
  LET g == workers[w].agent IN
  /\ workers[w].task = "waiting"
  /\ agents[g].lock = "free"
  /\ agents'  = [agents EXCEPT ![g] = Begun(g, w)]
  /\ workers' = [workers EXCEPT
                   ![w].task = "running", ![w].phase = "open", ![w].turn = agents[g].next,
                   ![w].chan = Append(@, Event("turn_started", agents[g].next))]
  /\ UNCHANGED <<session, turns, compactor, closer, log, base, lost, used>>

\* A tool call was skipped or the model call failed: ResponseError, turn open.
TaskError(w) ==
  /\ workers[w].task = "running"
  /\ workers[w].phase = "open"
  /\ May("error")
  /\ workers' = [workers EXCEPT ![w].chan = Push(w, "response_error")]
  /\ Spend("error")
  /\ UNCHANGED <<session, turns, agents, compactor, closer, log, base, lost>>

\* The final answer.
TaskRespond(w) ==
  /\ workers[w].task = "running"
  /\ workers[w].phase = "open"
  /\ workers' = [workers EXCEPT ![w].chan = Push(w, "response_completed"),
                                ![w].phase = "answered"]
  /\ UNCHANGED <<session, turns, agents, compactor, closer, log, base, lost, used>>

\* submit pushes TurnCompleted on every path.
TaskComplete(w) ==
  /\ workers[w].task = "running"
  /\ workers[w].phase \in {"open", "answered"}
  /\ workers' = [workers EXCEPT ![w].chan = Push(w, "turn_completed"),
                                ![w].phase = "closed"]
  /\ UNCHANGED <<session, turns, agents, compactor, closer, log, base, lost, used>>

\* submit_with_sink drops the sink and the task returns its lock.
TaskReturn(w) ==
  /\ workers[w].task = "running"
  /\ workers[w].phase = "closed"
  /\ workers' = [workers EXCEPT ![w].task = "returned"]
  /\ agents'  = [agents EXCEPT ![workers[w].agent].lock = "free",
                               ![workers[w].agent].sink = None]
  /\ UNCHANGED <<session, turns, compactor, closer, log, base, lost, used>>

\* The runtime drops the task at an await: the lock guard goes, the agent keeps
\* the sink that submit_with_sink had installed.
TaskCancel(w) ==
  /\ workers[w].aborting
  /\ \/ workers[w].task = "waiting" /\ UNCHANGED agents
     \/ /\ workers[w].task = "running"
        /\ workers[w].phase = "open"
        /\ agents' = [agents EXCEPT ![workers[w].agent].lock = "free"]
  /\ workers' = [workers EXCEPT ![w].task = "cancelled"]
  /\ UNCHANGED <<session, turns, compactor, closer, log, base, lost, used>>

\* The turn panics: its lock guard goes, and again the agent keeps the sink.
TaskPanic(w) ==
  /\ workers[w].task = "running"
  /\ workers[w].phase \in {"open", "answered"}
  /\ May("panic")
  /\ agents'  = [agents EXCEPT ![workers[w].agent].lock = "free"]
  /\ workers' = [workers EXCEPT ![w].task = "panicked"]
  /\ Spend("panic")
  /\ UNCHANGED <<session, turns, compactor, closer, log, base, lost>>

-----------------------------------------------------------------------------
(* Session actions *)

\* abort: takes the handle, if there is one; otherwise the reply is "aborted"
\* all the same and nothing changes.
AbortTurn ==
  /\ May("abort")
  /\ session.stored
  /\ session.handle # None
  /\ session' = [session EXCEPT !.handle = None, !.abortRequested = TRUE]
  /\ workers' = [workers EXCEPT ![session.handle].aborting = TRUE]
  /\ Spend("abort")
  /\ UNCHANGED <<turns, agents, compactor, closer, log, base, lost>>

\* Variant: the turn table outlives the clear.
KeptTurns == turns

EmptyTurns == [t \in TurnIds |-> "Absent"]

\* clear: a new agent and an empty turn table; running workers are not stopped.
ClearRuntime ==
  /\ May("clear")
  /\ session.stored
  /\ session' = FreshSession(session.agent + 1)
  /\ turns'   = EmptyTurns
  /\ base'    = Len(log)
  /\ lost'    = {}
  /\ Spend("clear")
  /\ UNCHANGED <<agents, workers, compactor, closer, log>>

\* compact, first critical section: clone the agent.
CompactRead ==
  /\ May("compact")
  /\ session.stored
  /\ compactor.pc = "idle"
  /\ compactor' = [pc |-> "read", agent |-> session.agent]
  /\ Spend("compact")
  /\ UNCHANGED <<session, turns, agents, workers, closer, log, base, lost>>

CompactLock ==
  /\ compactor.pc = "read"
  /\ agents[compactor.agent].lock = "free"
  /\ agents' = [agents EXCEPT ![compactor.agent].lock = "compact"]
  /\ compactor' = [compactor EXCEPT !.pc = "locked"]
  /\ UNCHANGED <<session, turns, workers, closer, log, base, lost, used>>

\* Agent::compact: ContextCompacted for turn 0 goes to whatever sink is installed.
CompactRun ==
  LET sink == agents[compactor.agent].sink IN
  /\ compactor.pc = "locked"
  /\ \/ UNCHANGED workers
     \/ /\ sink # None
        /\ workers' = [workers EXCEPT ![sink].chan = Append(@, Event("context_compacted", 0))]
  /\ agents' = [agents EXCEPT ![compactor.agent].lock = "free"]
  /\ compactor' = [compactor EXCEPT !.pc = "publishing"]
  /\ UNCHANGED <<session, turns, closer, log, base, lost, used>>

CompactEvents == <<Event("turn_started", CompactTurn), Event("response_completed", CompactTurn),
                   Event("turn_completed", CompactTurn)>>

\* Last critical section: the action turn and its events; when the append of one fails
\* the event is in the transcript or is not.
CompactPublish ==
  /\ compactor.pc = "publishing"
  /\ turns' = [turns EXCEPT ![CompactTurn] = "Completed"]
  /\ \/ /\ log' = log \o CompactEvents
        /\ UNCHANGED <<lost, used>>
     \/ /\ May("append") /\ Spend("append")
        /\ \/ log' = log \o CompactEvents
           \/ \E i \in DOMAIN CompactEvents : log' = log \o RemoveAt(CompactEvents, i)
        /\ lost' = lost \cup {CompactTurn}
  /\ compactor' = [compactor EXCEPT !.pc = "idle"]
  /\ UNCHANGED <<session, agents, workers, closer, base>>

\* shutdown: Closing under the session lock, then wait for the agent.
ShutdownBegin ==
  /\ May("shutdown")
  /\ session.stored
  /\ closer.pc = "idle"
  /\ session' = [session EXCEPT !.status = "Closing"]
  /\ closer'  = [pc |-> "waiting", agent |-> session.agent]
  /\ Spend("shutdown")
  /\ UNCHANGED <<turns, agents, workers, compactor, log, base, lost>>

\* The agent is free: Op::Shutdown changes nothing in it; the session is Closed.
ShutdownClose ==
  /\ closer.pc = "waiting"
  /\ agents[closer.agent].lock = "free"
  /\ session' = [session EXCEPT !.status = "Closed"]
  /\ closer'  = [closer EXCEPT !.pc = "deleting"]
  /\ UNCHANGED <<turns, agents, workers, compactor, log, base, lost, used>>

\* delete_session: out of the map and the index, its directory removed.
ShutdownDelete ==
  /\ closer.pc = "deleting"
  /\ session' = [session EXCEPT !.stored = FALSE]
  /\ closer'  = [closer EXCEPT !.pc = "idle"]
  /\ log'     = <<>>
  /\ base'    = 0
  /\ UNCHANGED <<turns, agents, workers, compactor, lost, used>>

\* The process dies and the session is loaded again from its transcript.
Restart ==
  /\ May("restart")
  /\ session.stored
  /\ session'   = FreshSession(session.agent + 1)
  /\ turns'     = ReplayTurns(log)
  /\ workers'   = [w \in Workers |-> IF workers[w].pc = "unused" THEN workers[w]
                                     ELSE [IdleWorker EXCEPT !.pc = "dead"]]
  /\ compactor' = [compactor EXCEPT !.pc = "idle"]
  /\ closer'    = [closer EXCEPT !.pc = "idle"]
  /\ base'      = 0
  /\ lost'      = {}
  /\ Spend("restart")
  /\ UNCHANGED <<agents, log>>

-----------------------------------------------------------------------------
WorkerStep(w) == WorkerStart(w) \/ WorkerAttach(w) \/ WorkerMap(w) \/ WorkerJoin(w)
                   \/ WorkerInterrupt(w)
TaskStep(w)   == TaskBegin(w) \/ TaskError(w) \/ TaskRespond(w) \/ TaskComplete(w)
                   \/ TaskReturn(w) \/ TaskCancel(w) \/ TaskPanic(w)
CompactStep   == CompactLock \/ CompactRun \/ CompactPublish
ShutdownStep  == ShutdownClose \/ ShutdownDelete

Next ==
  \/ \E w \in Workers : SubmitTurn(w) \/ WorkerStep(w) \/ TaskStep(w)
  \/ SubmitTurnMessageFails
  \/ AbortTurn \/ ClearRuntime \/ Restart
  \/ CompactRead \/ CompactStep
  \/ ShutdownBegin \/ ShutdownStep

\* The tokio runtime polls every ready task and its mutexes are FIFO; model and
\* tool calls and approvals end by their own timeouts.  Users owe nothing.
Fairness ==
  /\ \A w \in Workers : WF_vars(WorkerStep(w)) /\ WF_vars(TaskStep(w))
  /\ WF_vars(CompactStep)
  /\ WF_vars(ShutdownStep)

Spec     == Init /\ [][Next]_vars
FairSpec == Spec /\ Fairness

-----------------------------------------------------------------------------
(* Properties *)

Events == [type : EventTypes, turn : TurnIds]

Session == [status : {"Active", "Closing", "Closed"}, agent : Generations,
            handle : Workers \cup {None}, inFlight : BOOLEAN,
            abortRequested : BOOLEAN, stored : BOOLEAN]

Agent == [lock : {"free", "task", "compact"}, sink : Workers \cup {None},
          next : 1..(MaxWorkers + 1)]

Worker == [pc       : {"unused", "spawned", "started", "receiving", "interrupting",
                       "done", "dead"},
           agent    : Generations,
           task     : {"none", "waiting", "running", "returned", "cancelled", "panicked"},
           aborting : BOOLEAN,
           phase    : {"open", "answered", "closed"},
           turn     : (1..MaxWorkers) \cup {NoTurn},
           chan     : Seq(Events),
           known    : TurnIds \cup {NoTurn},
           reply    : {"none", "turn", "aborted", "failed"}]

TypeOK ==
  /\ session \in Session
  /\ turns \in [TurnIds -> Statuses]
  /\ agents \in [Generations -> Agent]
  /\ workers \in [Workers -> Worker]
  /\ compactor \in [pc : {"idle", "read", "locked", "publishing"}, agent : Generations]
  /\ closer \in [pc : {"idle", "waiting", "deleting"}, agent : Generations]
  /\ log \in Seq(Events)
  /\ base \in 0..Len(log)
  /\ lost \subseteq TurnIds
  /\ used \in [Actions -> Nat]

\* Not both an abort and a clear so far.
NoAbortWithClear == used["abort"] = 0 \/ used["clear"] = 0

\* The status the gateway shows for a turn is the one a restart would rebuild
\* from the events persisted since the table was last emptied: projection,
\* append failures, interruption and compaction all keep memory and transcript
\* in step (core_projection.rs, publish_pipeline.rs, turn_orchestrator.rs).  An abort and a
\* clear together are left out: the turns of the agent that a clear creates are numbered
\* from 1 again, and the turn_interrupted of a worker of the old agent then lands, in the
\* transcript only, on a turn of the new one that is over.
TurnsMatchTranscript ==
  session.stored /\ NoAbortWithClear =>
    LET replayed == ReplayTurns(SubSeq(log, base + 1, Len(log)))
    IN  \A t \in TurnIds \ lost : turns[t] # "Absent" => turns[t] = replayed[t]

\* No abort, clear or restart so far.
Undisturbed == used["abort"] = 0 /\ used["clear"] = 0 /\ used["restart"] = 0

\* submit_turn never lets a second turn reach the core while one is queued for
\* or running in it ("another turn is still running").
OneTurnAtATime ==
  Undisturbed => Cardinality({w \in Workers : workers[w].task \in {"waiting", "running"}}) <= 1

\* The session holds an abort handle exactly while a worker is receiving, and it
\* is the handle of that worker: a turn in progress can always be aborted, and no
\* abort reaches a turn that is over.
HandleTracksWorker ==
  Undisturbed => \A w \in Workers : session.handle = w <=> workers[w].pc = "receiving"

Closing(type) == type \in {"turn_completed", "turn_interrupted"}

\* In the transcript a turn is closed once, and the one event that can follow the closing
\* one is the response_error that reports that its append failed although its record was
\* stored (store.rs, append; publish_pipeline.rs, handle_key_event_append_failure), right
\* behind it.  Clients of /timeline that settle a turn at its first closing event miss that
\* report; nothing else of the turn ever comes late.
ClosedTurnsStayClosed ==
  Undisturbed => \A i, j \in DOMAIN log :
    i < j /\ log[i].turn = log[j].turn /\ log[i].turn \in 1..MaxWorkers /\ Closing(log[i].type)
      => j = i + 1 /\ log[j].type = "response_error"

\* A turn that was Completed or Failed is never shown Queued or Running again.
FinishedStaysFinished ==
  [][Undisturbed' => \A t \in TurnIds : turns[t] \in {"Completed", "Failed"}
                                          => turns'[t] \in {"Completed", "Failed"}]_turns

\* An abort request cancels the turn whose handle it took and no other: the flag it
\* leaves behind (turn_abort_requested) never reaches a later submit.  A clear, which stops
\* no worker and lets the next submit in beside it, is left out, and so is a second abort:
\* the first lets a submit in before its own worker is joined, the join forgets the handle
\* of that submit, and the flag of an abort of it then finds a third.
AbortHitsOneTurn ==
  used["clear"] = 0 /\ used["abort"] <= 1 => Cardinality({w \in Workers : workers[w].aborting}) <= used["abort"]

\* A turn that had ended before the process died has the same outcome after it is
\* loaded again, unless the append that recorded the outcome had failed.  A clear leaves the
\* transcript as it is, and the turns that it had forgotten are replayed again: it is left
\* out (base = 0), for one that failed before it may complete after it.
FinishedSurvivesRestart ==
  [][used'["restart"] > used["restart"] /\ base = 0 /\ NoAbortWithClear =>
       \A t \in TurnIds \ lost : turns[t] \in {"Completed", "Failed"} => turns'[t] = turns[t]]_vars

\* Whoever submits gets a turn id or an error from the worker, abort or not.
SubmitAnswered ==
  \A w \in Workers : workers[w].pc = "spawned"
                        ~> (workers[w].reply # "none" \/ workers[w].pc = "dead")

\* Without aborts, and unless append_message failed or a task panicked, the session always
\* becomes free for the next submit again.  After a panic the agent keeps the sender, the
\* receive loop does not end and the turn stays Running: only a clear gets out of that.
SessionReleased ==
  []<>(\/ ~ Undisturbed \/ used["message"] > 0 \/ used["panic"] > 0
       \/ ~ session.inFlight /\ session.handle = None /\ RunningTurns = {})

\* The session's own record of the turn in flight (SessionRuntime) is never wrong about the
\* workers: one turn reaches the core at a time, the abort handle is that of the worker
\* that is receiving, and an abort cancels no turn but the one whose handle it took.
SessionSound == TypeOK /\ OneTurnAtATime /\ HandleTracksWorker /\ AbortHitsOneTurn

\* A turn that is over stays over: nothing of it follows its closing event in the transcript
\* but the report of that event's own append, its outcome is never taken back, and a restart
\* rebuilds the same outcome.
TurnsStayOver == []ClosedTurnsStayClosed /\ FinishedStaysFinished /\ FinishedSurvivesRestart

\* Every submit is answered and the session is released, whatever fails in between: the
\* task returns, is cancelled or panics, and appends fail (run_turn_task on each of its ways
\* out; the release has the exceptions named there).
TurnsSettle == SubmitAnswered /\ SessionReleased
=============================================================================
