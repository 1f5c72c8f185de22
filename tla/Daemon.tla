------------------------------- MODULE Daemon -------------------------------
(***************************************************************************)
(* The stdio daemon and its Python client.                                 *)
(*                                                                         *)
(* The client writes requests to the daemon's stdin and reads responses    *)
(* and events from its stdout.  The daemon handles one request at a time;  *)
(* a submitted turn gets a worker, which forwards the turn's events and    *)
(* answers the request at the first of them, while the turn runs under the *)
(* lock of its session's agent.  Shutting a session down, and the end of   *)
(* stdin, wait for that lock inside the request loop.                      *)
(*                                                                         *)
(* Turn, approval and call are named by the number of the client's call:   *)
(* the daemon's own number of a turn starts at 1 in every session.         *)
(***************************************************************************)
EXTENDS Naturals, Sequences, FiniteSets, SequencesExt

CONSTANTS
  MaxCalls,     \* bound: calls of the client
  MaxSessions,  \* bound: sessions started
  MaxTurns,     \* bound: turns submitted
  Whole,        \* the calls whose turn gives its text only as a whole
  Failing,      \* the calls whose turn may fail
  PipeSize      \* lines that stdout takes before it is read

ASSUME DaemonAssumption ==
  MaxCalls \in Nat \ {0} /\ MaxSessions \in Nat \ {0} /\ PipeSize \in Nat \ {0}

Calls == 1 .. MaxCalls
Sessions == 1 .. MaxSessions

VARIABLES
  calls,     \* the client's calls: method, session, argument and outcome
  client,    \* its session, the approvals it was asked, its texts by turn and its read loop
  stdin,     \* requests written and not yet handled
  pipe,      \* lines written and not yet read
  loop,      \* the request loop, with the lines it has to write before the next request
  session,   \* each session: none, open or closed, and whether its events are streamed
  locks,     \* who holds and who waits for each agent, 0 for the request loop
  turnCount, \* turns run by each agent
  tasks,     \* each submitted turn: its task, its channel of events and its worker
  wrote      \* ghost: the lines written for each call

vars == <<calls, client, stdin, pipe, loop, session, locks, turnCount, tasks, wrote>>

NoCall == [method |-> "none", s |-> 0, arg |-> 0, at |-> "free"]
NoTask == [at |-> "none", chan |-> << >>, turn |-> 0, answered |-> FALSE, decision |-> "none"]

\* What the process holds when it starts, and nothing of which is left when it ends.
NoSessions == [s \in Sessions |-> [at |-> "none", streaming |-> FALSE]]
NoLocks == [s \in Sessions |-> << >>]
NoTurns == [s \in Sessions |-> 0]
NoTasks == [k \in Calls |-> NoTask]

Init ==
  /\ calls     = [k \in Calls |-> NoCall]
  /\ client    = [s |-> 0, asked |-> {}, at |-> "reading",
                  text |-> [t \in Calls |-> << >>], seen |-> {}]
  /\ stdin     = << >>
  /\ pipe      = << >>
  /\ loop      = [at |-> "reading", out |-> << >>]
  /\ session   = NoSessions
  /\ locks     = NoLocks
  /\ turnCount = NoTurns
  /\ tasks     = NoTasks
  /\ wrote     = [k \in Calls |-> << >>]

Response(k, ok, value) == [kind |-> "response", k |-> k, ok |-> ok, value |-> value]
Event(k, s, t, type) == [kind |-> "event", k |-> k, s |-> s, turn |-> t, type |-> type]

\* A write waits for room.
Write(line) ==
  /\ Len(pipe) < PipeSize
  /\ pipe' = Append(pipe, line)
  /\ wrote' = [wrote EXCEPT ![line.k] = Append(@, line)]

-----------------------------------------------------------------------------
(* The request loop *)

Reading(method) ==
  /\ loop.at = "reading" /\ loop.out = << >>
  /\ stdin # << >> /\ calls[Head(stdin)].method = method
  /\ stdin' = Tail(stdin)

WillWrite(line) == loop' = [at |-> "reading", out |-> <<line>>]

IsOpen(s) == session[s].at = "open"

NotFound(method) ==
  LET k == Head(stdin) IN
  /\ Reading(method)
  /\ ~IsOpen(calls[k].s)
  /\ WillWrite(Response(k, FALSE, 0))
  /\ UNCHANGED <<calls, client, pipe, session, locks, turnCount, tasks, wrote>>

StartSession ==
  LET k == Head(stdin) IN
  /\ Reading("start")
  /\ \E s \in Sessions :
       /\ session[s].at = "none" /\ \A r \in 1 .. s - 1 : session[r].at # "none"
       /\ session' = [session EXCEPT ![s].at = "open"]
       /\ WillWrite(Response(k, TRUE, s))
  /\ UNCHANGED <<calls, client, pipe, locks, turnCount, tasks, wrote>>

StreamEvents ==
  LET k == Head(stdin) IN
  /\ Reading("stream")
  /\ IsOpen(calls[k].s)
  /\ session' = [session EXCEPT ![calls[k].s].streaming = TRUE]
  /\ WillWrite(Response(k, TRUE, 0))
  /\ UNCHANGED <<calls, client, pipe, locks, turnCount, tasks, wrote>>

\* Nothing is answered yet: the worker does that.
SubmitTurn ==
  LET k == Head(stdin) IN
  /\ Reading("submit")
  /\ IsOpen(calls[k].s)
  /\ tasks' = [tasks EXCEPT ![k].at = "spawned"]
  /\ UNCHANGED <<calls, client, pipe, loop, session, locks, turnCount, wrote>>

Waiting(j, s) == calls[j].s = s /\ tasks[j].at = "waiting"

\* Variant: an approval that nobody waits for counts as resolved.
ResolveApprovalAlways ==
  LET k == Head(stdin)
      j == calls[k].arg IN
  /\ Reading("resolve")
  /\ IsOpen(calls[k].s)
  /\ tasks' = IF Waiting(j, calls[k].s)
                THEN [tasks EXCEPT ![j].at = "decided", ![j].decision = "approved"] ELSE tasks
  /\ WillWrite(Response(k, TRUE, 0))
  /\ UNCHANGED <<calls, client, pipe, session, locks, turnCount, wrote>>

\* An approval that is not registered yet, or no longer, is not found.
ResolveApproval ==
  LET k == Head(stdin)
      j == calls[k].arg IN
  /\ Reading("resolve")
  /\ IsOpen(calls[k].s)
  /\ tasks' = IF Waiting(j, calls[k].s)
                THEN [tasks EXCEPT ![j].at = "decided", ![j].decision = "approved"] ELSE tasks
  /\ WillWrite(Response(k, Waiting(j, calls[k].s), 0))
  /\ UNCHANGED <<calls, client, pipe, session, locks, turnCount, wrote>>

\* The session is gone for every later request; the loop queues for its agent.
ShutdownSession ==
  LET k == Head(stdin)
      s == calls[k].s IN
  /\ Reading("shutdown")
  /\ IsOpen(s)
  /\ session' = [session EXCEPT ![s].at = "closed"]
  /\ locks' = [locks EXCEPT ![s] = Append(@, 0)]
  /\ loop' = [at |-> "closing", out |-> << >>, k |-> k, s |-> s]
  /\ UNCHANGED <<calls, client, pipe, turnCount, tasks, wrote>>

\* The end of stdin: every session left is shut down, one after the other.
CleanUp(s) ==
  /\ loop.at = "reading" /\ loop.out = << >> /\ stdin = << >>
  /\ client.at # "reading"
  /\ IsOpen(s)
  /\ session' = [session EXCEPT ![s].at = "closed"]
  /\ locks' = [locks EXCEPT ![s] = Append(@, 0)]
  /\ loop' = [at |-> "closing", out |-> << >>, k |-> 0, s |-> s]
  /\ UNCHANGED <<calls, client, stdin, pipe, turnCount, tasks, wrote>>

\* The agent is free: the answer, and the event if the session is streamed.
Closed ==
  /\ loop.at = "closing" /\ Head(locks[loop.s]) = 0
  /\ locks' = [locks EXCEPT ![loop.s] = Tail(@)]
  /\ loop' = [at |-> "reading",
              out |-> IF loop.k = 0 THEN << >>
                      ELSE <<Response(loop.k, TRUE, 0)>> \o
                           (IF session[loop.s].streaming
                              THEN <<Event(loop.k, loop.s, 0, "shutdown")>> ELSE << >>)]
  /\ UNCHANGED <<calls, client, stdin, pipe, session, turnCount, tasks, wrote>>

LoopWrites ==
  /\ loop.out # << >>
  /\ Write(Head(loop.out))
  /\ loop' = [loop EXCEPT !.out = Tail(@)]
  /\ UNCHANGED <<calls, client, stdin, session, locks, turnCount, tasks>>

Alive == loop.at # "exited"

\* The process ends with its turns, workers and sessions: nothing more is written.
Ended ==
  /\ loop' = [at |-> "exited", out |-> << >>]
  /\ stdin' = << >> /\ session' = NoSessions /\ locks' = NoLocks
  /\ turnCount' = NoTurns /\ tasks' = NoTasks
  /\ UNCHANGED <<pipe, wrote>>

Exits ==
  /\ loop.at = "reading" /\ loop.out = << >> /\ stdin = << >> /\ client.at # "reading"
  /\ \A s \in Sessions : ~IsOpen(s)
  /\ Ended
  /\ UNCHANGED <<calls, client>>

Dies == Alive /\ Ended /\ UNCHANGED <<calls, client>>

-----------------------------------------------------------------------------
(* A turn: its task under the agent's lock *)

Emits(k, types) ==
  tasks[k].chan \o [i \in 1 .. Len(types) |-> Event(k, calls[k].s, tasks[k].turn, types[i])]

TaskStep(k, from, task) ==
  /\ Alive
  /\ tasks[k].at = from
  /\ tasks' = [tasks EXCEPT ![k] = task]
  /\ UNCHANGED <<calls, client, stdin, pipe, loop, session, wrote>>

Queues(k) ==
  /\ TaskStep(k, "spawned", [tasks[k] EXCEPT !.at = "queued"])
  /\ locks' = [locks EXCEPT ![calls[k].s] = Append(@, k)]
  /\ UNCHANGED turnCount

TurnStarts(k) ==
  LET s == calls[k].s IN
  /\ tasks[k].at = "queued" /\ Head(locks[s]) = k
  /\ TaskStep(k, "queued",
       [tasks[k] EXCEPT !.at = "running", !.turn = turnCount[s] + 1,
                        !.chan = <<Event(k, s, turnCount[s] + 1, "started")>>])
  /\ turnCount' = [turnCount EXCEPT ![s] = @ + 1]
  /\ UNCHANGED locks

\* The client is told of the approval before the handler waits for it.
AsksApproval(k) ==
  /\ tasks[k].decision = "none"
  /\ TaskStep(k, "running", [tasks[k] EXCEPT !.at = "asking", !.chan = Emits(k, <<"asked">>)])
  /\ UNCHANGED <<locks, turnCount>>

Registers(k) ==
  /\ TaskStep(k, "asking", [tasks[k] EXCEPT !.at = "waiting"])
  /\ UNCHANGED <<locks, turnCount>>

\* Variant: the handler waits for as long as it takes.
ApprovalNeverTimesOut(k) == FALSE /\ UNCHANGED vars

ApprovalTimesOut(k) ==
  /\ TaskStep(k, "waiting", [tasks[k] EXCEPT !.at = "decided", !.decision = "timeout"])
  /\ UNCHANGED <<locks, turnCount>>

\* The handler's timeout and the one around it run out together: only the outer one is told.
AfterApproval(k) ==
  /\ \E types \in {<<"resolved">>} \union (IF tasks[k].decision = "timeout" THEN {<< >>} ELSE {}) :
       TaskStep(k, "decided", [tasks[k] EXCEPT !.at = "running", !.chan = Emits(k, types)])
  /\ UNCHANGED <<locks, turnCount>>

\* The end of a task frees the agent.
TaskEnds(k, at, types) ==
  /\ TaskStep(k, "running", [tasks[k] EXCEPT !.at = at, !.chan = Emits(k, types)])
  /\ locks' = [locks EXCEPT ![calls[k].s] = Tail(@)]
  /\ UNCHANGED turnCount

\* What is left of the turn's events goes into the channel; an answer comes in parts or
\* whole.  assistant_message, which the worker drops, is left out.
TurnEnds(k) ==
  TaskEnds(k, "ended", IF k \in Whole THEN <<"whole", "completed">>
                       ELSE <<"delta", "whole", "completed">>)

TaskFails(k) == k \in Failing /\ TaskEnds(k, "failed", << >>)

-----------------------------------------------------------------------------
(* The worker of a turn *)

WorkerStep(k) == Alive /\ UNCHANGED <<calls, client, stdin, loop, session, locks, turnCount>>

\* The first event tells the number of the turn.
Answers(k) ==
  /\ WorkerStep(k)
  /\ ~tasks[k].answered /\ tasks[k].chan # << >>
  /\ tasks' = [tasks EXCEPT ![k].answered = TRUE]
  /\ Write(Response(k, TRUE, tasks[k].turn))

\* The events of a session that is not streamed are not written.
Forwarded(event) ==
  IF session[event.s].streaming THEN Write(event) ELSE UNCHANGED <<pipe, wrote>>

\* Variant: the worker stops at the event that ends the answer.
ForwardsUpToText(k) ==
  /\ WorkerStep(k)
  /\ tasks[k].answered /\ tasks[k].chan # << >>
  /\ tasks' = [tasks EXCEPT ![k].chan = IF Head(@).type = "whole" THEN << >> ELSE Tail(@)]
  /\ Forwarded(Head(tasks[k].chan))

Forwards(k) ==
  /\ WorkerStep(k)
  /\ tasks[k].answered /\ tasks[k].chan # << >>
  /\ tasks' = [tasks EXCEPT ![k].chan = Tail(@)]
  /\ Forwarded(Head(tasks[k].chan))

\* The end of a turn closes its channel.  A task that panics leaves it open in the agent, until
\* a later turn of the session puts another in its place.
ChannelClosed(k) ==
  \/ tasks[k].at = "ended"
  \/ tasks[k].at = "failed" /\ tasks[k].turn < turnCount[calls[k].s]

\* A task that failed is reported then, a second answer when there was one.
WorkerEnds(k) ==
  /\ WorkerStep(k)
  /\ ChannelClosed(k) /\ tasks[k].chan = << >>
  /\ IF tasks[k].at = "failed" THEN Write(Response(k, FALSE, 0)) ELSE UNCHANGED <<pipe, wrote>>
  /\ tasks' = [tasks EXCEPT ![k].at = "done"]

-----------------------------------------------------------------------------
(* The client *)

NextCall == CHOOSE k \in Calls : calls[k] = NoCall /\ \A j \in 1 .. k - 1 : calls[j] # NoCall

\* A call is written and waits for its answer; it can be made while others wait.
Call(method, s, arg) ==
  /\ client.at = "reading"
  /\ calls[MaxCalls] = NoCall
  /\ calls' = [calls EXCEPT ![NextCall] =
                 [method |-> method, s |-> s, arg |-> arg, at |-> "pending"]]
  /\ stdin' = Append(stdin, NextCall)
  /\ UNCHANGED <<client, pipe, loop, session, locks, turnCount, tasks, wrote>>

CallStart ==
  /\ \A k \in Calls : calls[k].method # "start" \/ calls[k].at # "pending"
  /\ \E s \in Sessions : session[s].at = "none"
  /\ Call("start", 0, 0)

Made(method, s) == {k \in Calls : calls[k].method = method /\ calls[k].s = s}

\* Nobody switches a stream on twice, or shuts a session down twice.
CallSession ==
  /\ client.s # 0
  /\ \/ /\ Cardinality({k \in Calls : calls[k].method = "submit"}) < MaxTurns
        /\ Call("submit", client.s, 0)
     \/ \E method \in {"stream", "shutdown"} :
          Made(method, client.s) = {} /\ Call(method, client.s, 0)

\* Of no session nothing can be asked.
CallResolve == client.s # 0 /\ \E j \in client.asked : Call("resolve", client.s, j)

Settle(k, at) == calls' = [calls EXCEPT ![k].at = IF @ = "pending" THEN at ELSE @]

\* The session of later calls is that of the last start, none after a shutdown.
SessionAfter(line) ==
  LET call == calls[line.k] IN
  IF ~line.ok \/ call.at # "pending" THEN client.s
  ELSE IF call.method = "start" THEN line.value
  ELSE IF call.method = "shutdown" THEN 0 ELSE client.s

\* A text is kept under the turn's number alone; the whole counts when no part was seen.
TextTaken(event) ==
  event.type = "delta" \/ (event.type = "whole" /\ event.turn \notin client.seen)

ReadsResponse ==
  LET line == Head(pipe) IN
  /\ client.at # "closed" /\ pipe # << >> /\ line.kind = "response"
  /\ Settle(line.k, IF line.ok THEN "answered" ELSE "refused")
  /\ client' = [client EXCEPT !.s = SessionAfter(line)]
  /\ pipe' = Tail(pipe)
  /\ UNCHANGED <<stdin, loop, session, locks, turnCount, tasks, wrote>>

ReadsEvent ==
  LET line == Head(pipe) IN
  /\ client.at # "closed" /\ pipe # << >> /\ line.kind = "event"
  /\ client' = [client EXCEPT
       !.asked = IF line.type = "asked" THEN @ \union {line.k} ELSE @,
       !.text = IF TextTaken(line) THEN [@ EXCEPT ![line.turn] = Append(@, line.k)] ELSE @,
       !.seen = IF line.type = "delta" THEN @ \union {line.turn} ELSE @]
  /\ pipe' = Tail(pipe)
  /\ UNCHANGED <<calls, stdin, loop, session, locks, turnCount, tasks, wrote>>

\* stdout has ended: the calls that still wait fail.
ReadsEnd ==
  /\ client.at # "closed" /\ pipe = << >> /\ ~Alive
  /\ calls' = [k \in Calls |-> IF calls[k].at = "pending" THEN [calls[k] EXCEPT !.at = "failed"]
                               ELSE calls[k]]
  /\ client' = [client EXCEPT !.at = "closed"]
  /\ UNCHANGED <<stdin, pipe, loop, session, locks, turnCount, tasks, wrote>>

Stops ==
  /\ client.at = "reading"
  /\ client' = [client EXCEPT !.at = "stopping"]
  /\ UNCHANGED <<calls, stdin, pipe, loop, session, locks, turnCount, tasks, wrote>>

\* stop() does not wait for long: reading is cancelled, the process is killed, and the calls
\* that wait are forgotten, neither answered nor failed.
GivesUp ==
  /\ client.at = "stopping" /\ Alive
  /\ calls' = [k \in Calls |-> IF calls[k].at = "pending" THEN [calls[k] EXCEPT !.at = "forgotten"]
                               ELSE calls[k]]
  /\ client' = [client EXCEPT !.at = "closed"]
  /\ Ended

-----------------------------------------------------------------------------

Handles ==
  \/ StartSession \/ StreamEvents \/ SubmitTurn \/ ResolveApproval \/ ShutdownSession
  \/ \E method \in {"stream", "submit", "resolve", "shutdown"} : NotFound(method)

LoopNext == Handles \/ Closed \/ LoopWrites \/ Exits \/ (\E s \in Sessions : CleanUp(s))

TaskNext(k) ==
  \/ Queues(k) \/ TurnStarts(k) \/ TurnEnds(k)
  \/ Registers(k) \/ ApprovalTimesOut(k) \/ AfterApproval(k)

WorkerNext(k) == Answers(k) \/ Forwards(k) \/ WorkerEnds(k)

ClientReads == ReadsResponse \/ ReadsEvent \/ ReadsEnd

\* What goes on by itself: the loop, the turns and their workers, and the client's reader.
Progress ==
  \/ LoopNext \/ ClientReads
  \/ \E k \in Calls : TaskNext(k) \/ WorkerNext(k)

\* What somebody does, or what goes wrong.
Moves ==
  \/ \E k \in Calls : AsksApproval(k) \/ TaskFails(k)
  \/ CallStart \/ CallSession \/ CallResolve \/ Stops \/ GivesUp \/ Dies

Next == Progress \/ Moves

Spec == Init /\ [][Next]_vars

-----------------------------------------------------------------------------
(* Properties *)

AnswersOf(k) == SelectSeq(wrote[k], LAMBDA line : line.kind = "response")

TypesWritten(k) ==
  LET events == SelectSeq(wrote[k], LAMBDA line : line.kind = "event") IN
  [i \in DOMAIN events |-> events[i].type]

\* A session's stream was switched on, and told so, before the turn was submitted.
StreamedFrom(k) ==
  \E j \in 1 .. k - 1 :
    /\ calls[j].method = "stream" /\ calls[j].s = calls[k].s
    /\ \E i \in DOMAIN AnswersOf(j) : AnswersOf(j)[i].ok

\* The answer to submit_turn comes before every event of the turn, so that its caller knows
\* the turn's number when it sees them (docs/protocol/v1/protocol-v1.md section 9).  Of a
\* turn whose session is streamed every event is written, once and in order, from its start
\* to its completion, though the session be shut down meanwhile.
StreamedWhole ==
  \A k \in Calls : calls[k].method = "submit" =>
    /\ wrote[k] # << >> => wrote[k][1].kind = "response"
    /\ (/\ tasks[k].at = "done" /\ StreamedFrom(k)
        /\ \A i \in DOMAIN AnswersOf(k) : AnswersOf(k)[i].ok)
         => LET types == TypesWritten(k) IN
            /\ types # << >> /\ types[1] = "started" /\ types[Len(types)] = "completed"
            /\ \A i, j \in DOMAIN types : types[i] = types[j] => i = j
            /\ tasks[k].decision = "approved" => \E i \in DOMAIN types : types[i] = "resolved"

\* A client that is told its approval was resolved has decided: the call was not refused by
\* the timeout, and nobody else is told so.
ResolvedIsObeyed ==
  \A j, k \in Calls :
    (calls[k].method = "resolve" /\ calls[k].arg = j /\ calls[k].at = "answered" /\ Alive) =>
      /\ tasks[j].decision = "approved"
      /\ \A l \in Calls \ {k} :
           ~(calls[l].method = "resolve" /\ calls[l].arg = j /\ calls[l].at = "answered")

\* assistant_text_for_turn gives the text of one answer, once, while the client has had one
\* session: the texts of two sessions' turns share a number and run together.
TextOfOneTurn ==
  session[1].at # "none" /\ (\A s \in Sessions \ {1} : session[s].at = "none") =>
    \A t \in Calls : Len(client.text[t]) <= 1

\* No call waits for something that will not happen.  When the daemon and the reader have
\* come to rest every call has returned, also the one made while turns waited for approvals
\* or a session was shut down, and the one made to a daemon that died; unless stop() gave up
\* reading.  Each step of Progress uses something up (a request, an event, a line, a stage of
\* a turn), so they do come to rest.
CallsReturn == ~(ENABLED Progress) => \A k \in Calls : calls[k].at # "pending"

\* What the client learns of a turn, as events and as a text (openjax_sdk/client.py), is the
\* whole turn and no other.
AnswersReachTheClient == StreamedWhole /\ TextOfOneTurn
=============================================================================
