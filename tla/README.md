# OpenJax: verification project

OpenJax is a local coding agent. A Rust core (`openjax-core`) runs the turns of an agent:
it asks a language model, executes the tools the model names, asks the user for approval
where the policy demands it, and keeps a history. A gateway (`openjax-gateway`) holds
sessions, gives each of them a core agent, writes every event of a session to a transcript
on disk and streams it to the clients. Clients are a web page, a terminal program and a
Python SDK that talks to the gateway's stdio daemon. This directory holds TLA+ modules for
the parts of it that have state and concurrency of their own, the TLC configurations that
check them, and proofs that TLAPS checks.

`PROJECT.json` lists the components, the runs, the variants of definitions that show that
each property can fail, the source lines behind each definition, the hazards and the
theorems. This file explains them. Paths are relative to `src/`; `C:` is
`openjax-core/src/`, `G:` is `openjax-gateway/src/`, `W:` is `ui/web/src/`.

## 1. Inventory

### 1.1 Parts of the system

| Part | State it keeps | Operations | What makes it correct |
|---|---|---|---|
| Session runtime and turn worker (`G:state/`, `G:handlers/session.rs`) | per session behind a mutex: status, table of turns, the in-flight flag, the abort handle, the core agent, the approval handler | submit, abort, clear, compact, shutdown, reload after a restart; one worker task per turn and one core task per worker | one turn at a time; memory and transcript agree; an abort hits the turn it was meant for; a finished turn stays finished; a submit is answered |
| Transcript store (`G:transcript/store.rs`) | `manifest.json` and numbered JSONL segments, nothing in memory | append with tail recovery and two kinds of rotation, replay, delete | event numbers grow strictly; what append returned can be replayed; old lines are never touched |
| Event stream (`G:handlers/stream.rs`, `W:hooks/useChatApp.ts`, `sequence.ts`) | broadcast channel, connections with a resume point, page with the last number seen | append then publish, subscribe, replay, live events, recovery from lag, reconnect, hydration from the timeline | nothing lost, nothing twice, in order, and everything arrives |
| Session index (`G:transcript/session_index_store.rs`, `G:state/events.rs`, `openjax-store`) | list in memory, snapshot, log, backup of the log, marker, `session.json` files, rows in SQLite | create, update, touch, title from the first message, delete with compensation, compaction, load, rebuild, audit | acknowledged changes survive; list, disk and rows agree |
| Tool approvals (`C:tools/orchestrator.rs`, `C:sandbox/`, `GatewayApprovalHandler`, `resolve_approval`) | parked requests, answered requests, turns with an approved edit | ask, answer, two timeouts, abort, retry, second approval outside of the sandbox | a tool runs only with permission; a request is decided once; a refusal ends the turn |
| Planner, tool guards, history (`C:agent/`) | budgets, recent calls, loop detector, history | rounds of a model request and a batch of tool calls, duplicate guard, loop halt, abort, commit of a turn, compaction | budgets kept, the model gets a result for each call, a loop is stopped, only old turns are forgotten |
| Model clients (`C:model/`, `C:streaming/parser/`) | buffers of one streamed answer, the conversation of a turn | build a request, read the frames of a stream, retry | only whole answers are used; a request tells the turn as it was |
| Event mapping (`G:event_mapper/`) | open segments of a turn | one core event at a time | text, thoughts and tools stay apart |
| Web page (`W:lib/session-events`, `streamRenderStore.ts`) | messages, thoughts, cards, approvals, text being painted | one event live, or a whole timeline | a followed page ends like a reloaded one |
| Authentication and sign-in (`G:auth/`, `W:hooks/chatApp/auth-flow.ts`) | sessions and tokens in SQLite; cookie; token in the page | login, refresh with rotation, logout, revocation, expiry; shared refresh, retry, sign-out | accepted tokens belong to active sessions; a page does not spend its own refresh token twice |
| Policy center (`openjax-policy`, `G:handlers/policy.rs`) | versioned snapshot of rules, drafts, overlay and level of a session | edit, publish, set and clear overlay, set level, decide | a decision uses one snapshot; precedence is total; destructive calls are escalated |
| Providers (`G:handlers/provider.rs`, `openjax-store`, `C:provider_store.rs`) | provider rows, the active one, agents built from them | create, change, delete, activate, route of a new agent | the active one exists; snapshot and agents follow the rows |
| Stdio daemon and Python SDK (`G:stdio/`, `openjaxd`, `python/openjax_sdk`) | sessions with an agent, workers, pending approvals; pending calls, texts by turn | requests, answers and events as JSON lines over two pipes | every call returns; a turn is reported whole and in order |
| File tools (`C:tools/handlers/`) | files of a directory | Read, Edit, write_file, list_dir, by agents that do not lock | an edit changes the one place that was read; pages add up to the tree |
| Terminal client (`ui/tui/`) | one loop: keys, core events, approvals; the task followed | submit, compact, pick a policy, answer, abort, quit | the loop stays free; approvals are shown and taken down; answers are kept; it quits |
| The rest | see section 7 | | |

### 1.2 How they interact

A client submits a turn over HTTP. `submit_turn` sets the in-flight flag under the session
lock and spawns a worker (`run_turn_task`); the worker publishes an abort handle, locks the
core agent in a task of its own and reads the core's events from a channel. For each event
it takes the session lock, appends to the transcript store, updates the table of turns and
broadcasts; each web connection replays the transcript and then follows the broadcast. The
core asks for approval through the handler the gateway installed in the agent; the HTTP
endpoint answers through the handler the session holds. A new agent gets its model from the
active provider and its policy runtime from the policy center or from the session's level.
The index is updated when sessions come and go, and after appends. Abort, clear, compact and
shutdown enter through the same HTTP server and meet the worker in any order. The daemon and
the terminal program drive the same core with handlers of their own.

### 1.3 What is hard in it

* The session lock is released between reading the agent, waiting for it, and writing the
  result; clear replaces the agent in between.
* A task can be aborted at every `await`, which leaves what it had stored elsewhere (event
  sender, parked approval) behind.
* Files are changed in several steps without a journal, and a process can stop between any
  two of them; errors are followed by compensations that can fail too.
* Subscription, replay and the broadcast channel overlap, and the channel overflows.
* Two timeouts of the same length are nested, and users answer while they fire.
* An answer of the model may end anywhere, and one page follows it while it is painted late
  and while another way, the timeline, leads to the same view.
* Several calls of a page find out at once that the access token has lapsed; the refresh
  token can be spent once; the cookie belongs to all pages.
* Policies are copied: into sessions, into running turns, into agents.
* Two programs joined by two pipes can wait for each other.
* Agents edit the same files with nothing between read and write.

The 40 hazards in `PROJECT.json` name the line of each case with the property that watches
over it. Section 6.2 has those that are real and that no property covers.

## 2. Modules

| Module | Models | Checked by |
|---|---|---|
| `TurnLifecycle`, `TurnLifecycleMC` | session runtime, workers, core tasks, session actions, restart; the MC module has the budgets | `TurnSafety` |
| `TurnLifecycleProofs` | theorems about `TurnLifecycle` | TLAPS |
| `EventLog` | abstract: one append-only log numbered from 1 | refinement in `Transcript` |
| `TranscriptStore` | manifest and segments, each write a step | `Transcript` |
| `TranscriptStoreProofs` | theorems about `TranscriptStore` | TLAPS |
| `EventStream` | publication, connections, pages | `Stream` |
| `EventStreamProofs` | theorems about `EventStream` | TLAPS |
| `SessionIndex` | index files, list, rows, recovery | `Index` |
| `SessionIndexProofs` | theorems about `SessionIndex` | TLAPS |
| `ToolApproval`, `ToolApprovalMC` | tool calls, handler, answers; symmetry of the clients | `Approval` |
| `ToolApprovalProofs` | theorems about `ToolApproval` | TLAPS |
| `LoopDetector`, `AgentHistory` | windows of tool calls; history with its quota and compaction, as operators | through `AgentTurn` |
| `AgentTurn` | rounds, batches, guards, aborts and ends of an agent's turns | `AgentTurn` |
| `AgentTurnProofs` | theorems about `AgentTurn`, the windows and the history | TLAPS |
| `ModelWire` | what a conversation becomes in a request of each protocol | through `AnswerView` |
| `AnswerPage` | events to messages, live and from a timeline, as operators | through `AnswerView` |
| `AnswerView` | service, stream reader, event mapper and page: one turn from the model to the screen | `AnswerView` |
| `SignIn` | gateway sessions and tokens, a browser with pages | `SignIn` |
| `SignInProofs` | theorems about `SignIn` | TLAPS |
| `PolicyCenter` | rules, drafts, publication, overlays, levels, decisions of turns | `TurnSettings` |
| `ModelProviders` | provider rows, snapshot, agents | `TurnSettings` |
| `TurnSettings`, `TurnSettingsMC` | the two above with the session that uses them; the instance | `TurnSettings` |
| `TurnSettingsProofs` | theorems about `PolicyCenter` and `ModelProviders` as `TurnSettings` uses them | TLAPS |
| `Daemon` | SDK, pipes, daemon, workers, agent | `Daemon` |
| `FileText` | line ends, matches and Edit on texts as sequences of characters | through `Workspace` |
| `ReadBlock`, `DirListing` | block mode of Read; entries and pages of list_dir | through `Workspace` |
| `Workspace`, `WorkspaceMC` | agents that use the file tools in one directory; the instance | `Workspace` |
| `Terminal` | the loop of the terminal client with agent, tasks and approval handler | `Terminal` |

The compositions: `TurnSettings` joins policies and providers with the sessions that use
both; `AnswerView` joins model, mapper and page; `Workspace` joins the tools with the agents;
`Daemon` and `Terminal` hold two programs each. `EventStream` builds on the promise that
`EventLog` states and `TranscriptStore` keeps: its transcript is the log 1, 2, 3, ...
`TurnLifecycle` uses the transcript as a sequence of events whose append may fail.
`AgentTurn` takes the outcome of a tool call, which `ToolApproval` decides, as a free choice.

### 2.1 TurnLifecycle

`session` holds the fields of `SessionRuntime` that the handlers test (`status`, the number
of the current agent, `handle`, `inFlight`, `abortRequested`). `agents` has one core agent
for each clear or restart, with its lock, its event sink and its next turn number.
`workers[w]` is the `run_turn_task` of the w-th accepted submit together with the core task
it spawned (`task`), the channel between the two (`chan`) and what it has answered.
`SubmitTurn`, `AbortTurn`, `ClearRuntime`, `CompactRead`, `ShutdownBegin` are the HTTP
handlers up to the point where they give up the session lock. `WorkerStart`, `WorkerAttach`,
`WorkerMap`, `WorkerJoin`, `WorkerInterrupt` are the critical sections of `run_turn_task`;
`WorkerMap` maps one core event with the append, its failure, and the failure of the error
event; an append that returns an error may have left its record in the file (`StoredAnyway`).
`TaskBegin` to `TaskCancel` and `TaskPanic` are the segments of the core task between two
waits. A task that panics leaves its event sender in the agent and reports nothing, so that
its worker stays in the receive loop until another turn of the agent replaces the sender or a
clear drops the agent; `WorkerJoin` then answers with the JoinError (`JoinReply`).
`Restart` loses all tasks and rebuilds the table of turns from the transcript. Event payloads
are reduced to the type and the turn.

### 2.2 TranscriptStore, EventLog

A file is a sequence of lines with the number of the record, its size, whether it parses and
whether it has its newline. `append` is `AppendBegin`, `RecoverTail`, `RotateBefore`,
`RollBySize`, `RotateAfter`, `WriteRecord`, `WriteNewline`, `WriteManifest`. As the store
keeps nothing in memory between calls, an error that makes append return early and the death
of the process leave the same files; both are the `Fail...` actions. `intact` turns false at
the stops that leave what neither the tail recovery nor a replay can read (a part of a record,
a record without its newline, a torn manifest) or that the recovery does not see (a record
in a segment the manifest does not name yet); it is read off the stop, never from the
properties. A first record larger than a segment rolls before there is a manifest (`Rolled`).
`Replayed` is what the code's replay returns: nothing before there is a manifest, nothing
but an error (here: no record) when the manifest or any line does not parse, otherwise all
lines of all segments in order (`Stored`). The refinement (`Abstract`) maps the durable log to
the numbers of `Replayed`. `EventLog` is the log a caller would like to have: `Write`, then
`Acknowledge` or not, or both at once for the first record, which is seen no sooner than the
manifest; `Forget` on deletion; and `Damage`, after which it promises nothing.

### 2.3 EventStream

An event is its number. `AppendEvent` and `PublishEvent` are two steps under the session lock
(`pending`); `AppendUnsent` is an append that wrote the record and returned an error. A
connection is `closed`, `subscribed`, `streaming` or `lagged`; `ReadReplay`, `SendReplayed`,
`ReceiveBroadcast`, `ReceiveLagged` and `Recover` are the branches of the stream's loop. The
page keeps the last number seen, its retries and its hydration. `Drop` cuts a connection,
`Restart` all of them.

### 2.4 SessionIndex

Every call into the index runs under its write lock, so there is one `op` with a program
counter; each file operation is a step that can fail, and `Crash` can come between any two.
A creation or deletion of a client is longer than that: `calls[c]` goes from reading the list
(a deletion keeps the entry it finds) to the index call, to the row in SQLite and, when the row
fails, back through an index call of the opposite kind (`BeginRollback`). `Lock`, `Refuse` and
`Release` are the ends of an index call, and between them, and around the row, the other client
does what it likes: another title, another deletion, another creation. `crossed` has the
sessions of which a deletion began while their creation or another deletion was under way.
`live.open` marks a log without a final newline, `live.garbled` one with a line that does not
parse, `live.stray` one with a record whose append was reported as failed. `Load`,
`RebuildSnapshot`, `AuditSession` and `Serve` are the start of the gateway. `StoreRow` and
`StoreRowFails` are the SQLite half of `create_session` and `delete_session`, without the
lock. `TitleFromEvent` is the title a first user message
gives. `allowed[s]` follows the replies the clients got and is what the list is compared
with. `Overlay` is the replay of the log over the snapshot: of a session's records the last
one counts. `LateAppend` is a worker of the session being deleted that writes one more event.

### 2.5 ToolApproval

`agents[g]` is the tool call in progress of generation g of the session's agent,
`pending[g]` the senders in its `GatewayApprovalHandler`, `reqs[r]` what became of a request
and what the event stream shows of it, `clients[c]` one call of `resolve_approval`. A turn is
of the planner or a tool call the user typed (`mode`); only the latter retries. A tool is a
shell command, an edit, or one that only reads. `RunTool` is `ToolOrchestrator::run` up to
the request or the execution; `Degrade` is what follows when the sandbox cannot run a
command: it leaves by itself, asks again, or fails, by the kind of the command. `Register`,
`TakeAnswer`, `Expire`, `InnerTimeout`, `OuterTimeout`, `Conclude` follow the request through
the handler's timeout inside the orchestrator's. What the policy decides and how a tool ends
are free choices.

### 2.6 AgentTurn, LoopDetector, AgentHistory

`agent` holds what survives a turn: next turn number, history, recent calls with their epoch,
loop detector. `turn` holds the locals of `execute_natural_language_turn` and its planner
loop: rounds, calls executed, skips, the batch with the status of each call, and whether the
loop warning is in the prompt. `AskModel` is a request, `ProposeTools` an answer with calls
cut to the budget, `SkipDuplicate`, `StartCall`, `ToolReturns` and `ToolFails` one call of
the batch, `CompactNow` a compaction within a turn. `DirectTurn` is a turn that is a tool
call typed by the user, `OtherOp` an operation that only takes a turn number. `world` is outside
of the
program: which earlier results still tell how things are, and how often a call has returned
in a row. What the model answers is free.

### 2.7 ModelWire, AnswerView, AnswerPage

`AnswerView` follows one turn: `AskModel` builds the request (`ModelWire`), the `...Frame`
actions are frames of the service as the parsers read them, `StreamEnds` is a stream that is
cut, `FinalAnswer`, `ToolAnswer` and `AnswerFails` are what the client makes of it. Arguments that
do not parse are read as an empty object (`Parsed`), in the batch and in the requests that tell
of it. `ToolAnswer` cuts the calls to what the budget has left: a dropped one is shown as failed
and gets no result, which matters when a skipped duplicate leaves the turn going (`BatchDone`).
`gateway` is the state of the mapper and the log of events. `Follow` gives the page the next
event (`LiveEvent`), `Paint` is an animation frame of `streamRenderStore`, `Reload` a page
built from the events so far (`Replayed`). `MaxBehind` bounds how far the page may be behind
when an event is published. Texts are sequences of numbered pieces, so that a
lost, doubled or misplaced piece is seen.

### 2.8 SignIn

`sessions` and `tokens` are the rows of the gateway, with one pair of tokens for each
minting; `cookie` and `stored` are shared by the pages of the browser. A refresh is four
steps (`RefreshOnMount` or a denied call, `ServeRefresh`, the way back, `HearRefreshed` or
`HearRefused`), between which the other page, a logout or an expiry can come; its answer can
be lost and a page loaded again (`faults`). A refusal by the rate limiter may come at any
time.

### 2.9 PolicyCenter, ModelProviders, TurnSettings

A rule is its priority, its specificity, its decision and the set of calls it matches; that
is what `Precedes` compares. `snapshot` is the shared runtime's, `history` all versions there
were. A turn takes the shared handle or, with a level, a runtime of its own; `writing` is an
overlay request between its two updates. A provider request is two statements with other
requests between them (`request`); `building` is an agent whose configuration has been read
in part. `blank` is a name the handler refuses. `ClearSession` replaces the agent and touches
both modules.

### 2.10 Daemon

`stdin` and `pipe` are the two pipes, the second with room for `PipeSize` lines; the request
loop and the workers write under one lock and wait when it is full. `tasks[k]` is a submitted
turn: its core task, the channel of events and the worker that forwards them; the channel of a
task that panicked stays open until a later turn of its session takes its place. The client's
calls are concurrent; its read loop completes them. `Stops` and `GivesUp` end the client's
side, `Dies` the daemon's.

### 2.11 FileText, ReadBlock, DirListing, Workspace

Texts are sequences of characters of which CR, LF and a letter matter. `Workspace` has the
tools' steps: read of the file, opening it for the write, then the write, with the other agent
between them; `written` and `opened` tell a write that had the file to itself from one that
overlapped another. The block
mode of Read is a question about a file of five lines of any indentation, answered by
`ReadBlock` and judged by `IsBlock`, which states the options as conditions on the answer;
`Listing` and `Page` are compared with the tree of files.

### 2.12 Terminal

One pass of the loop is `DrainApprovals`, `DrainEvents`, `DrainFinished` and then a key, with
the agent's task moving between any two. `Key` is every key by what it does
beyond the input line. `handler` is the queue of requests and the senders that wait.
`SIGWINCH`, drawing and the editing of the input line are left out.

## 3. Runs

| Run | Instance | Shows |
|---|---|---|
| `TurnSafety` | 2 submits, six budgets of interruptions and faults, fair | record of the turn in flight, transcript, finished turns, every submit answered; 604 thousand states |
| `Transcript` | record sizes 1, 2 and 4, segments of 3, 4 segments, 4 numbers, 3 faults | type, numbers, lines, refinement of `EventLog`; 2.1 million states |
| `Stream` | 1 page, 4 events, channel of 1, window of 3, 2 retries, 2 drops, 1 unsent, fair | order, completeness, resume, arrival; 240 thousand states |
| `Index` | 2 clients, 2 sessions, 1 title, 3 operations, 3 failing calls, 1 crash, compaction at 2 records | durability and agreement of list, disk and rows; 1.6 million states |
| `Approval` | 2 generations, 2 requests, 2 clients, 2 turns, 1 retry, set of approved turns limited to 1 | permission, one decision, no lost request, refusals; 3.9 million states |
| `AgentTurn` | 4 calls of different kinds (one of them `write_file`) and one without a name, 3 calls and 3 rounds a turn, batches of 2, 5 turns, history of 3 | every call answered, loops stopped, only the oldest forgotten, only redundant calls skipped; 4.1 million states |
| `AnswerView` | 2 protocols, 2 rounds, 3 pieces and 2 calls (4 parts together), budgets of 1 and 2 calls | whole answers, true requests, live page and replayed page; 2.5 million states |
| `SignIn` | 2 pages, 3 pairs of tokens, 1 fault, fair | tokens of active sessions, no reuse of one's own, a mounted page settles |
| `TurnSettings` | 1 session, 2 clients, 2 provider requests, 2 drafts, 4 versions, 2 providers, 5 edits | decisions, overlays, providers; 686 thousand states |
| `Daemon` | 5 calls, 1 session, pipe of 1 line, 2 turns, of which some give no deltas or fail | reports, approvals, every call returns; 2.6 million states |
| `Workspace` | 2 agents, 3 calls, lines of 2; five-line files for Read in block mode | edits, pages, blocks; 741 thousand states |
| `Terminal` | 2 tasks, 2 requests, answers of 2 pieces, fair | approvals, answers, free loop, quit |

### 3.1 Why the bounds are enough

* Two workers are the least at which a turn meets the rest of an earlier one. The budgets
  combine what interacts (a restart with an abort and failing appends, an error with an abort
  and a failing append, a clear with a compaction, a panic with an error before it and the
  clear that frees the session) and keep apart what does not.
* Segments of 3 bytes with records of 1 and 2 make append roll before a record that still
  fits and after one that does not; a record of 4 is larger than a segment and rolls even from
  an empty one. Four segments and three faults allow a roll behind a
  damage behind a roll.
* A channel of one event overflows at every second event; four events with a window of three
  put a resume point outside of the window; two drops make a page come back twice.
* Compaction at two records happens in every longer behaviour. Three failing calls are an
  operation, its compensation and the marker all failing. Two clients and three operations are
  a creation, a deletion and, before the deletion is answered or rolled back, a title, a second
  deletion or a creation by the other client.
* Two requests are the two of one shell command, or the requests of two agents, of two turns
  or of two attempts. `MaxApprovedTurns = 1` lets the second approved turn empty the set, as
  the 257th does in the code.
* In `AgentTurn` a history of three turns overflows at the fourth and a fifth shows what the
  overflow left; a window of three calls holds a call, its repetition and its warning; a batch
  of two is cut by a budget of three calls in the second round.
* Three pieces are text before a call, a thought and text after it; the second request is the
  first that has results to tell. Two calls have an order, and with a budget of one the second
  is dropped, in the first round or after a call of the first. The page is given each event
  before the next one (`MaxBehind` = 0): it depends on nothing but the events it was given and
  its own paints and reloads, which come at any moment, so that being behind adds no view.
* Three pairs of tokens are two sign-ins and a refresh, or a sign-in refreshed twice.
* Four versions are two publications with an overlay set and cleared between them; two
  providers compete for the name and for being active. The two clients, the requests, names
  and models are interchangeable, which the symmetry uses; no liveness is checked there.
* A pipe of one line is full with each line, the worst case for writers. Five calls are a
  start, two turns, an answer to an approval and a shutdown; `Whole` says which turns give
  their text only as a whole, `Failing` which may fail.
* Three calls of two agents are a read, an edit of another, and an edit of what was read.
  Five lines hold a block with a line on either side and a neighbour at the same depth.
* Two tasks in the terminal are a turn and the one submitted while an abort of it is under way.

`CHECK_DEADLOCK FALSE` is set where behaviours end when their bounds are used up. `Terminal`
does without it: its loop never stops but by closing.

### 3.2 Fairness

`TurnLifecycle` assumes weak fairness of each worker's next step, of each core task's next
step, of a compaction and of a shutdown that have begun: tokio polls every task that is ready
and its mutexes are queues, and whatever the core waits for (model, tool, approval) has a
timeout. Nothing is assumed of users: submit, abort, clear and the restart are not fair.
`EventStream` assumes that the gateway serves a connection that has something to send, that a
page that is still retrying reconnects (strong fairness: restarts may come in between), and
that the lock is held for one append. It does not assume that a connection lasts: a page
whose retries are used up is excepted by the property.
`SignIn` assumes that an effect of a mounted page runs, that the gateway serves a refresh it
received and that the page hears an answer that arrived.
`Terminal` assumes that the loop goes on and that the tasks do; nothing is assumed of keys.
`Daemon` states the absence of a stuck call as an invariant about the states in which nothing
of the program can move, since every such step uses something up.

## 4. Properties

A property of the runs is often the conjunction of a few named ones that watch over the same
state; the parts stand next to each other in the module with a comment each.

* `SessionSound`: one turn reaches the core at a time (`OneTurnAtATime`) and the abort handle
  is the one of the worker that receives (`HandleTracksWorker`), both without an abort, a
  clear and a restart; an abort cancels the turn whose handle it took and no other
  (`AbortHitsOneTurn`), without a clear and with at most one abort. Section 6.1 says what
  happens with them.
  `TurnsMatchTranscript`: the status of each turn in memory is the one a restart would
  rebuild, except for turns whose event and error event both failed to be stored (`lost`), and
  as long as a session is not both aborted and cleared.
  `TurnsStayOver`: a turn is closed once in the transcript, and nothing follows but, right
  behind, the error event of a closing event whose append failed with its record stored
  (`ClosedTurnsStayClosed`); its outcome is never taken back (`FinishedStaysFinished`), and a
  restart rebuilds the outcome of every turn that was over (`FinishedSurvivesRestart`, for
  sessions that were not cleared).
  `TurnsSettle`: every submit is answered, and without an abort, a clear, a restart, a panic or
  a failing first append the session is released.
* `AckedIncreasing`, `EndedLinesAreKept`: with all faults. `AckedReplayableWhenIntact`: while
  the files are intact a replay is no error, and a replay that is no error has every record
  that append has ever returned, also after stops that are not repaired.
  `ImplementsEventLog`: until a stop leaves files that are not intact.
* `SentIsTheStream`: in order, without a gap, from behind the named event. `PageMissesNothing`,
  `EventsArrive`. A page that received the synthetic error event of an ended stream is
  excepted (`Misled`): that event carries the number of an event to come.
* `AckedSurvives`, `RestartLoadsTheList`, `CopiesAgree`. In the first a title acknowledged
  while a creation or deletion of its session is under way counts as attempted only, since a
  rollback installs the entry it had read before, and so does the answer to a deletion that
  overlapped another one. The second excepts records whose append was reported as failed (they
  may come back), the third sessions whose directory was removed halfway; both except sessions
  with overlapping deletions (`crossed`). The rows are compared when every call is answered,
  up to one fault, and not after a failed compaction (the operation returns an error although
  it took effect) or a crash.
* `RunsOnlyWhenAllowed`, `RequestsSettle`, `RefusalStopsTurn`.
* `EveryCallAnswered`, `TurnIsBounded`, `OnlyTheKnownIsLeftOut`. The first excepts a batch
  beyond the budget of which a call was skipped. The second is about calls with one argument:
  the detector's key of several is the text of a HashMap, in no fixed order. The third says
  that the result a skipped call would have had is known, except for what a `write_file` or a
  call that failed halfway has changed since, and that what is forgotten is the oldest.
* `AnswersAreWhole`, `RequestsTellTheTurn`, `PageIsSound`. The first says that arguments which
  do not parse are read as an empty object, and no others. The second says that a request has
  every call of the turn, with the arguments that were read, and behind it its results in the
  order of the calls, for all calls but the ones dropped at the budget. The last compares a
  page that followed the events with one that reads them again, in messages, cards, approvals,
  phase and the text of every completed response; not in the texts of responses before tools,
  which the live page loses (6.1).
* `TokensAreSound`, `ReuseIsNotOwn`, `MountedPageSettles`.
* `DecisionsAreLawful`: a decision is the one of the version it reports, whatever the order of
  the rules, and destructive calls are escalated unless a rule is ranked above the built-in
  one. `OverlayIsOne` excepts sessions whose overlay requests overlapped or that were cleared
  (`mixed`). `ProvidersAgree` excepts providers changed while they were activated (`raced`).
* `AnswersReachTheClient`, `ResolvedIsObeyed`, `CallsReturn`.
* `EditsHitWhatWasRead`, `PagesAreTheTree`, `BlockIsWhatWasAsked`. An edit leaves the text it
  had read with the one place replaced and the line ends made of one kind, whatever another
  agent has written between the read and the opening: that change is lost. Excepted are writes
  that overlap and texts with a CR that is no line end.
* `ApprovalsSettle`, `AnswersAreCommitted`, `LoopIsFree`, `QuitLeaves`.

For each pair of a run and a property `PROJECT.json` names a definition and a variant of it
(`mutants`): a plausible slip in the code under which TLC finds the property violated. The
variants stand next to the definitions, marked "Variant".

## 5. Proofs

Eight modules state theorems and prove them for every value of the constants the components
allow. Each module has the same shape: lemmas that say what an operator or an action does,
the inductive invariant in named parts, one lemma per action and part, the theorem. TLC
checked each invariant on the instance of its run (with `1..m` for the `Nat` of
`HistoryUpTo`, which it cannot enumerate) before it was proved.

| Module | Theorem | Property |
|---|---|---|
| `TurnLifecycleProofs` | `SessionStaysSound` | `SessionSound` |
| | `TableStaysTheTranscript` | `TurnsMatchTranscript` |
| | `OutcomesSurvive` | `FinishedSurvivesRestart`, a part of `TurnsStayOver` |
| | `TurnsAreOver` | `TurnsStayOver` |
| `TranscriptStoreProofs` | `TypeCorrect` | `TypeOK` |
| | `NumbersGrow` | `AckedIncreasing` |
| | `LinesSurvive` | `EndedLinesAreKept` |
| | `AckedCanBeReplayed` | `AckedReplayableWhenIntact` |
| | `StoreIsALog` | `ImplementsEventLog` |
| `EventStreamProofs` | `SentStaysTheStream` | `SentIsTheStream` |
| | `PagesMissNothing` | `PageMissesNothing` |
| `ToolApprovalProofs` | `EveryRequestSettles` | `RequestsSettle` |
| | `OnlyTheAllowedRuns` | `RunsOnlyWhenAllowed` |
| | `RefusalEndsTheTurn` | `RefusalStopsTurn` |
| `AgentTurnProofs` | `EveryCallIsAnswered` | `EveryCallAnswered` |
| | `TurnsAreBounded` | `TurnIsBounded` |
| | `OnlyTheOldestIsForgotten` | `ForgetsOnlyTheOldest`, a part of `OnlyTheKnownIsLeftOut` |
| | `OnlyTheKnownIsMissing` | `OnlyTheKnownIsLeftOut` |
| `SignInProofs` | `TokensStaySound` | `TokensAreSound` |
| | `NoPageReuses` | `ReuseIsNotOwn` |
| `TurnSettingsProofs` | `DecisionsStayLawful` | `DecisionsAreLawful` |
| | `OverlayStaysOne` | `OverlayIsOne` |
| | `ProvidersStayOfOnePiece` | `ProvidersAgree` |
| `SessionIndexProofs` | `AckedStaysListed` | `AckedSurvives` |
| | `RestartFindsTheList` | `RestartLoadsTheList` |
| | `CopiesStayInAgreement` | `CopiesAgree` |

### 5.1 The invariants and why they are needed

* **TurnLifecycle.** `Typed` is `TypeOK` with `Counted` (a worker is in use exactly when its
  submit was accepted, so there is always a slot for the next turn number), `WorkersFit` (the
  counter and channel of a worker agree with where it and its task are) and `HandleReceives`.
  `Ordered` says who is about: before an abort, a clear and a restart one worker is in
  progress and it is the last submitted; after one abort the cancelled turn is the one whose
  handle was taken. `Replayed` relates table and transcript: a turn a worker has mapped is
  open in the log (`KnownIsOpen`) and the table is the fold of the log's part since the last
  clear (`TableIsReplay`); the property alone is not inductive, since mapping the end of a turn
  keeps it only when the turn is open in both. `TurnsInOrder` is for undisturbed sessions: turn
  numbers not given out yet are nowhere (`FreshNumbers`), a channel holds the events of one
  turn with the first first and the last last, and what closes a turn in the log is the last
  of it but for the report of its own append.
* **TranscriptStore.** `NumbersInv` is `AckedIncreasing` with `ManifestCovers` (a manifest that
  can be read is not behind what was acknowledged) and `CallCovers` (nor is the local copy of
  an append in progress): a step hands out a larger number only because of that copy. A stop
  between record and manifest breaks neither, as nothing was acknowledged; a torn manifest
  makes every later append fail. For the refinement, `Files`: nothing is left where
  there are no files, and while the files are intact nothing lies in a segment beyond the
  active one (`Beyond`), only the last line of the active one may be unfinished (`Lasts`) and
  the lines are numbered 1, 2, 3, ... up to what the manifest or the append in progress says
  (`Numbered`). `Readable`: while intact everything parses, and without a manifest there is at
  most one record and nothing is acknowledged (`Unsaved`). `Kept` needs no intact files: some
  line does not parse, and then none ever will (`Torn`), or each acknowledged number is a
  complete line, and so is the record the append in progress has just written (`OwnLine`).
* **EventStream.** `Stream`: the ring of the channel is in order and without a gap up to what
  was published (`RingInOrder`), and for each connection what was sent together with what is
  queued is in order (`QueueInOrder`) and complete from its resume point (`ServedIsComplete`)
  over what has fallen out of the ring (`PassedIsServed`); the page has seen what it applied
  (`SeenIsApplied`) and what was sent to it (`SeenCovers`).
* **ToolApproval.** `Handler` ties the three places that know of a request: the agent's call
  awaits it (`AwaitedByAgent`), its channel is open while it may be answered
  (`ChannelsOpen`), and its sender is in the map, with the one client that took it, or used up
  (`SendersAreTakenOnce`). `Permission` says of every call in progress what permits it, and
  that a turn in the set of approved edits had an approved edit. `Refusal` adds that turn
  numbers only grow, so that a refusal keeps being of the turn it ended.
* **AgentTurn.** `Tidy` (what is skipped, done and open in a batch, against budget and rounds),
  `Watched` (detector's state, window and streak of the same call, so that a call runs once
  after the warning), `Remembered` (the history is an ascending partition of a suffix of the
  turns so far, for any quota) and, for the last theorem, `UpToDate` (a recent success of the
  current epoch is still valid).
* **SignIn.** `Sound`: an accepted token belongs to an active session and a session has one
  token to spend; a page's refresh on its way carries a token that nobody else of the page
  sends (`SentIsNotOwn`), the answer a page has not heard holds a token it does not know
  (`UnheardIsUnknown`), and the cookie of a page that waits is not one it spent
  (`CookieIsNotOwn`).
* **TurnSettings.** `Governed`: every rule book in use, that of the store, of a published
  version, of a session's own copy, or held by a running turn, has the built-in rule and
  distinct names, the versions are numbered, and an overlay is the same in session and runtime
  while no request is between its two updates. Which rule decides is shown to be the greatest
  by precedence, a total order, and so the same for every order of writing. For the
  providers, `Settled` (rows newest first with distinct numbers and names, at most one active
  and that one listed, every number given out at most `created`, and for each provider whose
  requests did not overlap at most one under way, which knows the row's model, as the snapshot
  does but between the two writes of an update) and `AgentsKnow` (what an agent, or one being
  built, has read is what is there, for as long as nothing was changed since it read).
* **SessionIndex.** One invariant, `Sound`, for the three theorems, since each part needs the
  others. `Shape`: which steps an operation has, that a healthy index that is up has no repair
  marker, that the snapshot is the list while the log is rotated, and that an index call of a
  creation or deletion is the one a client waits for (`CallShape`). `Alone`: only for a
  `crossed` session do two clients have a creation or deletion under way. `Progress` and
  `CallsProgress`: what the steps so far have done to list, log and directory, so that a
  compensation and, for sessions not crossed, a row find what they expect. `Allowed` is
  `AckedSurvives` for everything recovery may read a session from: list, directory, snapshot
  with the log, and the backup, which counts again when a rotation is rolled back. The list
  alone is not inductive, because a crash throws it away; but a title in the log matters only
  for a session that has its directory (`Fits`), since the audit drops the others.
  `LogIsList`: unless an append failed, snapshot and log give the list, and the backup agrees
  with it wherever it has a record; the exception is a title that is logged and not yet
  written. `AllListed` is the directory's half of `CopiesAgree` outside of the steps that
  publish and remove. `CallsAllowed` keeps both outcomes allowed while a call is under way.
  `RowsKept`, with one fault at most (`FewFaults`), says what a rollback may find and what
  calls under way may leave: a row for a session that is being deleted, none for one that is
  being created, and a directory without `session.json` only after a fault.

### 5.2 How data is reasoned about

The library's induction theorems cannot be instantiated here. Where a fact about every
number, set or sequence is needed, its least counterexample is shown not to exist
(`LeastExists`, `LeastNumber`, from the well-founded order on the naturals that
`WellFoundedInduction` provides). This reaches the recursive functions the models use: the
fold over a log is one chain of states (`Progress`, `Steps`) that is shown to exist and to be
unique, after which one more event is one more step (`ReplayAppend`). `Joined` does the same
for the concatenation of segments, of which `LogEnds`, `LogOfMore` and `LogTerminated` say
what one more or one finished line changes.
`NextRank` and `RankExists` order the turns a history holds.

### 5.3 Assumptions

The theorems use the assumptions named in the modules: positive limits and sizes, natural
bounds, disjoint model values, at least one session id in `SessionIndex`. In `TurnLifecycle` the
set of budgets is finite; in `TurnSettings` the overlays requests ask for are sequences of
rules, and not empty. No theorem has a hypothesis besides these.

### 5.4 Only model-checked

Liveness (`TurnsSettle`, `EventsArrive`, `MountedPageSettles`, `QuitLeaves`) is out of the
prover's reach, and so is `CallsReturn`, which is about enabled actions. `AnswerView` with
`AnswerPage` and `ModelWire`, `Daemon`, `Workspace` and `Terminal` have no theorems. What
`AnswerView` and `Workspace` promise are equalities of folds and concatenations over events,
blocks and lines, which would need induction over data.

## 6. Observations

### 6.1 Where code and documents differ

Each was met while modelling, in a counterexample of TLC or by reading. The properties of
section 4 except the state concerned, so that they say what holds.

* An aborted turn leaves its event sender in the agent; the worker waits for the end of a
  channel that never ends, and `turn_interrupted` is published only when another turn
  replaces the sender (`C:agent/turn.rs:10`).
* A clear resets the flags of a turn that goes on running, so that the next submit runs beside
  it (`G:state/runtime.rs:308`), against
  `docs/superpowers/specs/2026-03-31-webui-busy-turn-send-gate-design.md:13`.
* After an abort and a clear the turn numbers of the new agent meet those of the worker that
  is still there: its `turn_interrupted` follows the completion of another turn of that number
  (`G:state/runtime.rs:308`). A turn that failed before a clear can complete behind it, and the
  replay of the whole log after a restart then takes the failure back. A second abort while
  the worker of the first is still ending is forgotten by the first one's end, or its flag
  cancels the turn submitted next (`G:handlers/session.rs:449`).
* An append can fail with its record in the file (`G:transcript/store.rs:94`); for a closing
  event the error event is then stored behind a turn that is closed
  (`G:state/publish_pipeline.rs:50`): the turn has failed, in memory and after a restart, and a
  client that settles it at the closing event shows it as completed.
* A task that panics leaves its sender in the agent (`C:agent/turn.rs:9`): the worker never gets
  to the JoinError, the turn stays Running and the session in flight until a clear drops the
  agent (`G:state/turn_orchestrator.rs:119`). In the daemon the second
  error answer of such a turn waits for a later turn of the session (`G:stdio/dispatch.rs:484`).
* Index and rows have no common lock (`G:state/events.rs:130`, `:184`). A deletion that is rolled
  back puts back the title it had read, over one acknowledged meanwhile; two overlapping
  deletions that are both rolled back leave a directory whose session is not listed; the row of
  a creation can be written after that of its deletion and stays.
* A stop after the first record of a new segment and before its manifest makes the next
  append use the number again (`G:transcript/store.rs:75`). A stop between record and newline
  glues the next record to it; that record was acknowledged, and from then on no replay of the
  session succeeds (`G:transcript/store.rs:94`, `:150`).
* Timeline and stream of a fresh page both contain event 1, which resets the gate, and events
  are applied twice (`W:lib/session-events/sequence.ts:5`).
* When the gateway handler's own timeout fires first, no `ApprovalResolved` is sent
  (`G:state/runtime.rs:512`), which `C:sandbox/README.md:97` promises.
* `write_file` does not advance the epoch of the duplicate guard (`C:agent/planner_utils.rs:43`):
  a call that comes again after it is skipped with a result of the state before, although
  `openjax-policy/README.md:107` calls it mutating. So is a call after a command that has
  changed something and then fails (`C:agent/tool_executor.rs:135`). `MutatingCalls` and
  `WritingCalls` are two constants for this, with `write_file` only in the second, and
  `world.unseen` holds the results that such a change has outdated.
* The live page loses the text of a response that is followed by tool calls when the turn
  completes: it is only in `streamRenderStore`, which is cleared (`W:hooks/useChatApp.ts:277`).
  The replayed page has it, as `W:lib/session-events/reducer.test.ts:216` expects.
* After a successful refresh the denied call is repeated by a closure over the old client, is
  denied again and signs the page out (`W:hooks/chatApp/auth-flow.ts:89`) with the text that
  the sign-in has lapsed, which it has not.
* A removal of a session's directory that stops halfway is compensated by listing the session
  again (`G:transcript/session_index_store.rs:384`), although its `session.json` may be gone.
* The key of the loop detector is the JSON text of a HashMap: a repeated call with several
  arguments may have another key each time, so that it counts as another call.
* `docs/protocol/v1/protocol-v1.md:249` has an `error(code=TIMEOUT)` event for an approval that
  times out; the daemon sends none.

### 6.2 Real, and covered by no property

* `append_message` fails after the in-flight flag was set: the session stays in flight
  (`G:handlers/session.rs:285`). An abort before the worker has published its handle finds
  none (`:449`). A shutdown deletes the transcript while a worker still maps events (`:509`).
* An empty replay makes `last_sent_event_seq` 0 (`G:handlers/stream.rs:195`); the error event
  that ends a
  stream borrows the next event's number (`:241`).
* A failing compaction of the index makes an operation an error although it took effect
  (`session_index_store.rs:159`); one unreadable `session.json` makes the start fail (`:796`).
* `ApprovalRequested` is sent before the handler knows the request
  (`C:tools/orchestrator.rs:153`): an answer in between is told that there is none.
* `stop()` of the SDK clears the pending calls without completing them (`client.py:89`), a call
  made after the read loop has ended never returns (`:270`).
* Text that Read cut at 500 characters, or that holds "CR CR LF", is not found by Edit; a lone CR
  becomes a line end (`C:tools/handlers/edit.rs:115`).
* Two tabs share the refresh cookie: one is refused and signs itself out
  (`W:hooks/chatApp/auth-flow.ts:52`); a refresh that ends after a logout signs the page in
  again (`:62`).
* A skipped duplicate shows the page as failed although the turn goes on; a loop halt or an
  abort leaves tool cards running (`C:agent/tool_executor.rs:85`, `:154`).

### 6.3 Other things the models show

* Approvals: a command that times out in the sandbox is run again outside of it after the
  second approval.
* Policy: overlay copies in session and runtime diverge under concurrent set and clear and
  after a clear of the session; a level ignores published rules; the built-in rule (priority
  1000) can be outranked, and turns lower denials of destructive calls into an escalation;
  policy is lost with the process; a turn without a level sees a publication at once, a turn
  with one does not.
* Providers: the snapshot of the active one is stale when an update overlaps an activation;
  an agent keeps a deleted provider until the session is cleared; the router never falls back.
* Daemon: `shutdown_session` waits for the agent in the request loop, and with it all other
  requests; the texts of two sessions share turn numbers.
* Terminal: an answer after the timeout is shown as accepted though refused; the text of rounds
  before tools is overwritten by the last; an Enter meant for the input line can answer an
  approval that has just appeared; quitting waits for the turn whose approval nobody can
  answer any more.
* Files: nothing is locked; concurrent edits lose updates, and a reader can meet a file that
  is half written. An edit turns every line end into CRLF when the file has one anywhere. The
  `indentation` options of Read never arrive (`C:agent/tool_projection.rs:57`).
* Requests: the chat protocol leaves thoughts and the error mark of results behind; text goes
  before calls whatever their order in the stream. Arguments that did not parse are told back as
  an empty object (`C:model/anthropic_messages.rs:586`, `C:model/chat_completions.rs:883`). A call
  dropped at the budget stays in the conversation without a result, and the turn goes on with it
  when a call of the same answer was skipped (`C:agent/planner.rs:319`).

## 7. Not modelled

Not yet, see section 8: the actions of the web page (send, new, delete, load more, the busy
gate), the paging of the session list and the cache of automatic titles, the Python demo
backend, revocation by device.

Left out for good: the response dispatcher, `agent/decision.rs`, `W:lib/streamRuntime.ts`,
`C:tools/list_dir.rs`, `C:tools/grep_files.rs`, `G:stdio/daemon.rs` and the paths marked
dead_code, which nothing reaches; search and system tools, sandbox runtime and the
classification of command texts (single calls without state, outcome a free choice); skills
and slash commands (text and tables); configuration, paths, logger, protocol types, command
line and updater (pure I/O); React components, layout, drawing.

Left out of the modelled parts: time stamps, previews, wording and logging; the garbage
collection of segments, which nothing calls; the stale staging directories of the index; the
polling mode of the web client; hooks; headers and the path without a stream of the model
clients; the token estimate that decides on compaction (a free choice).

## 8. Plan

Done: the modules of section 2. Next, by importance:

1. Theorems: `ResolvedIsObeyed` of `Daemon`, `ApprovalsSettle` of `Terminal`.
2. `SessionPage`: the page's actions and its busy gate, against the in-flight flag of
   `TurnLifecycle`.
3. `SessionList`: the cursor over a list that changes its order while it is paged, and the
   cache of titles.
4. `AgentTurn` shown to use tool calls as `ToolApproval` ends them, by refinement.
5. `BackendLog`: the bounded log of the demo backend and its slow readers.
