------------------------------ MODULE AgentTurn ------------------------------
(***************************************************************************)
(* The turns of one agent (openjax-core/src/agent: turn.rs, planner.rs,    *)
(* tool_guard.rs, tool_executor.rs, state.rs): rounds of asking the model  *)
(* and running the batch of tool calls it answers with, under a budget of  *)
(* calls and of rounds, a guard against duplicate calls and a detector of  *)
(* repeated ones, and the history the next turns start from.               *)
(*                                                                         *)
(* The model and the tools answer as they like. Their answers are awaited, *)
(* so a turn may be aborted there.                                         *)
(***************************************************************************)
EXTENDS LoopDetector, AgentHistory

CONSTANTS
  Calls,            \* tool calls: a tool with its arguments
  Nameless,         \* the tool call without a tool name
  RepeatableCalls,  \* should_skip_duplicate_detection: Read, list_dir, ...
  MutatingCalls,    \* is_mutating_tool: Edit, shell, exec_command
  WritingCalls,     \* calls that may change files or the machine: these and write_file
  UnorderedCalls,   \* calls with several arguments, see LoopKeys
  MaxToolCalls,     \* max_tool_calls_per_turn
  MaxRounds,        \* max_planner_rounds_per_turn
  MaxSkips,         \* MAX_CONSECUTIVE_DUPLICATE_SKIPS, 2
  MaxRecent,        \* recent_tool_calls, 16
  MaxTurns,         \* bound: turns of the session
  MaxBatch          \* bound: tool calls of one answer

ASSUME CallsAssumption ==
  /\ RepeatableCalls \subseteq Calls /\ MutatingCalls \subseteq Calls
  /\ WritingCalls \subseteq Calls /\ UnorderedCalls \subseteq Calls
  /\ Nameless \notin Calls
ASSUME BudgetAssumption ==
  {MaxToolCalls, MaxRounds, MaxSkips, MaxRecent, MaxTurns, MaxBatch} \subseteq Nat \ {0}

VARIABLES
  agent,   \* next_turn_id, history, recent_tool_calls, state_epoch, loop_detector
  turn,    \* the locals of execute_natural_language_turn
  world    \* outside the agent: the calls whose last good result still tells how things
           \* are, those whose result only a change that advanced no epoch has outdated,
           \* and how often the last call has returned in a row

vars == <<agent, turn, world>>

-----------------------------------------------------------------------------
NoTurn == [pc |-> "idle", executed |-> 0, rounds |-> 0, skips |-> 0, batch |-> <<>>, at |-> 1,
           recovery |-> FALSE]

FreshWorld == [valid |-> {}, unseen |-> {}, last |-> Nameless, streak |-> 0]

Init ==
  /\ agent = [next |-> 1, history |-> <<>>, recent |-> <<>>, epoch |-> 0,
              detector |-> FreshDetector]
  /\ turn = NoTurn
  /\ world = FreshWorld

\* submit: duplicates count within one turn only.
Forgetting(a) == [a EXCEPT !.recent = <<>>, !.epoch = 0]

NewTurn == [Forgetting(agent) EXCEPT !.next = @ + 1]

BeginTurn ==
  /\ turn.pc = "idle" /\ agent.next <= MaxTurns
  /\ agent' = [NewTurn EXCEPT !.detector = FreshDetector]
  /\ turn' = [NoTurn EXCEPT !.pc = "planning"]
  /\ world' = FreshWorld

\* A tool call typed by the user; ToolApproval models its retries.
DirectTurn(committed) ==
  /\ turn.pc = "idle" /\ agent.next <= MaxTurns
  /\ agent' = [NewTurn EXCEPT
       !.history = IF committed THEN CommitTurn(@, agent.next) ELSE @]
  /\ UNCHANGED <<turn, world>>

\* SpawnAgent, SendToAgent, InterruptAgent and ResumeAgent, which only use up a number.
OtherOp ==
  /\ turn.pc = "idle" /\ agent.next <= MaxTurns
  /\ agent' = [agent EXCEPT !.next = @ + 1]
  /\ UNCHANGED <<turn, world>>

ThisTurn == agent.next - 1

EndTurn == turn' = NoTurn

WithinLimits == turn.executed < MaxToolCalls /\ turn.rounds < MaxRounds

\* recovery_prompt
NeedsRecovery == agent.detector.state = "Warned"

\* A new request, after the pause of apply_rate_limit.
AskModel ==
  /\ turn.pc = "planning" /\ WithinLimits
  /\ turn' = [turn EXCEPT !.pc = "model", !.rounds = @ + 1, !.recovery = NeedsRecovery]
  /\ UNCHANGED <<agent, world>>

\* turn_limit_reached
GiveUp ==
  /\ turn.pc = "planning" /\ ~WithinLimits
  /\ EndTurn /\ UNCHANGED <<agent, world>>

\* model_request_failed
ModelFails ==
  /\ turn.pc = "model"
  /\ EndTurn /\ UNCHANGED <<agent, world>>

\* An answer without tool calls: check_and_auto_compact, then commit_turn.
FinalAnswer(history) ==
  /\ turn.pc = "model"
  /\ agent' = [agent EXCEPT !.history = CommitTurn(history, ThisTurn)]
  /\ EndTurn /\ UNCHANGED world

\* Variant: one call short.
RemainingLess == MaxToolCalls - turn.executed - 1

Remaining == MaxToolCalls - turn.executed

\* The calls beyond the budget are dropped: they are shown as failed, and the model gets
\* no result for them.
Proposal(calls) ==
  [i \in DOMAIN calls |-> [call |-> calls[i],
                           status |-> IF i <= Remaining THEN "proposed" ELSE "dropped"]]

ProposeTools(calls, history) ==
  /\ turn.pc = "model"
  /\ agent' = [agent EXCEPT !.history = history]
  /\ turn' = [turn EXCEPT !.pc = "batch", !.batch = Proposal(calls), !.at = 1]
  /\ UNCHANGED world

-----------------------------------------------------------------------------
(* One tool call of the batch *)

AtCall(call) ==
  /\ turn.pc = "batch" /\ turn.at \in DOMAIN turn.batch
  /\ turn.batch[turn.at] = [call |-> call, status |-> "proposed"]

\* The call is over with this status, and the turn goes on with the next one.
Over(status) == [turn EXCEPT !.pc = "batch", !.batch[turn.at].status = status, !.at = @ + 1]

\* ensure_native_tool_name
InvalidCall ==
  /\ AtCall(Nameless)
  /\ EndTurn /\ UNCHANGED <<agent, world>>

IsDuplicate(call) ==
  /\ call \notin RepeatableCalls
  /\ \E i \in DOMAIN agent.recent :
       agent.recent[i] = [call |-> call, ok |-> TRUE, epoch |-> agent.epoch]

\* guard_duplicate_native_tool_call
SkipDuplicate(call) ==
  /\ AtCall(call) /\ IsDuplicate(call)
  /\ \/ /\ turn.skips + 1 < MaxSkips
        /\ turn' = [Over("skipped") EXCEPT !.skips = @ + 1]
     \/ turn.skips + 1 >= MaxSkips /\ EndTurn
  /\ UNCHANGED <<agent, world>>

StartCall(call) ==
  /\ AtCall(call) /\ call # Nameless /\ ~IsDuplicate(call)
  /\ turn' = [turn EXCEPT !.pc = "tool"]
  /\ UNCHANGED <<agent, world>>

Running == turn.batch[turn.at].call

\* record_tool_call
Recorded(a, call, ok) ==
  LET r == Append(a.recent, [call |-> call, ok |-> ok, epoch |-> a.epoch])
  IN  [a EXCEPT !.recent = IF Len(r) > MaxRecent THEN Tail(r) ELSE r]

\* Variant: no call advances it.
EpochNever(call) == agent.epoch

\* state_epoch, advanced before the call is recorded.
EpochAfter(call) == agent.epoch + (IF call \in MutatingCalls THEN 1 ELSE 0)

\* The key of the loop detector is the JSON text of a HashMap, which has its own iteration
\* order in every map: the text of several arguments comes in more than one form.
LoopKeys(call) == {call} \X (IF call \in UnorderedCalls THEN {1, 2} ELSE {1})

Executed(t) == [t EXCEPT !.executed = @ + 1, !.skips = 0]

\* A call may have changed something whether it returns or fails; only the return of a
\* call that is_mutating_tool names advances the epoch.
Changed(changed, advances) ==
  [world EXCEPT !.valid  = IF changed THEN {} ELSE @,
                !.unseen = IF advances THEN {} ELSE IF changed THEN @ \cup world.valid ELSE @]

Succeeded(w, call) == [w EXCEPT !.valid = @ \cup {call}, !.unseen = @ \ {call}]

MayChange(call) == IF call \in WritingCalls THEN BOOLEAN ELSE {FALSE}

WorldAfter(call, ok, changed) ==
  LET w == Changed(changed, call \in MutatingCalls)
      c == [w EXCEPT !.last = call, !.streak = IF world.last = call THEN @ + 1 ELSE 1]
  IN  IF ok THEN Succeeded(c, call) ELSE c

\* The tool has returned, with success or not.
ToolReturns(ok, changed, key) ==
  /\ turn.pc = "tool"
  /\ LET call == Running
         check == CheckAndAdvance(agent.detector, key)
         seen == [agent EXCEPT !.epoch = EpochAfter(call), !.detector = check.after]
     IN  /\ world' = WorldAfter(call, ok, changed)
         /\ \/ /\ check.signal = "Halt"
               /\ EndTurn /\ agent' = seen
            \/ /\ check.signal # "Halt"
               /\ agent' = Recorded(seen, call, ok)
               /\ turn' = Executed(Over("ran"))

\* The tool has failed, perhaps halfway; a refused or late approval ends the turn.
ToolFails(blocked, changed) ==
  /\ turn.pc = "tool"
  /\ agent' = Recorded(agent, Running, FALSE)
  /\ IF blocked THEN EndTurn ELSE turn' = Executed(Over("ran"))
  /\ world' = Changed(changed, FALSE)

\* ToolBatchCompleted, and the results go to the model with the next request.
EndBatch ==
  /\ turn.pc = "batch"
  /\ \A i \in DOMAIN turn.batch : i >= turn.at => turn.batch[i].status = "dropped"
  /\ turn' = [turn EXCEPT !.pc = "planning"]
  /\ UNCHANGED <<agent, world>>

\* The task of the turn is aborted where it waits.
Abort ==
  /\ turn.pc \in {"model", "tool"}
  /\ EndTurn /\ UNCHANGED <<agent, world>>

\* compact, between two turns.
CompactNow(history) ==
  /\ turn.pc = "idle" /\ agent' = [agent EXCEPT !.history = history]
  /\ UNCHANGED <<turn, world>>

Batches == UNION {[1..n -> Calls \cup {Nameless}] : n \in 1..MaxBatch}

Next ==
  \/ BeginTurn \/ OtherOp \/ AskModel \/ GiveUp \/ ModelFails \/ InvalidCall \/ EndBatch \/ Abort
  \/ \E committed \in BOOLEAN : DirectTurn(committed)
  \/ \E history \in AfterCompact(agent.history) :
       \/ FinalAnswer(history)
       \/ CompactNow(history)
       \/ \E calls \in Batches : ProposeTools(calls, history)
  \/ \E call \in Calls : SkipDuplicate(call) \/ StartCall(call)
  \/ turn.pc = "tool" /\ \E changed \in MayChange(Running) :
       \/ \E ok \in BOOLEAN, key \in LoopKeys(Running) : ToolReturns(ok, changed, key)
       \/ \E blocked \in BOOLEAN : ToolFails(blocked, changed)

Spec == Init /\ [][Next]_vars

-----------------------------------------------------------------------------
(* Properties *)

Statuses == {"proposed", "dropped", "skipped", "ran"}
AllCalls == Calls \cup {Nameless}

\* Every variable has its type, and a turn stays within its two budgets (the loop of
\* execute_natural_language_turn and executable_count).
TypeOK ==
  /\ agent.next \in 1..(MaxTurns + 1)
  /\ agent.epoch \in 0..MaxToolCalls + 1
  /\ agent.recent \in Seq([call : Calls, ok : BOOLEAN, epoch : Nat])
  /\ Len(agent.recent) <= MaxRecent
  /\ agent.detector.state \in Signals
  /\ \A i \in DOMAIN agent.history : agent.history[i].of \subseteq 1..ThisTurn
  /\ turn.pc \in {"idle", "planning", "model", "batch", "tool"}
  /\ turn.executed \in 0..MaxToolCalls /\ turn.rounds \in 0..MaxRounds
  /\ turn.skips \in 0..(MaxSkips - 1)
  /\ turn.batch \in Seq([call : AllCalls, status : Statuses])
  /\ turn.at \in 1..(Len(turn.batch) + 1)
  /\ turn.recovery \in BOOLEAN
  /\ world.valid \cup world.unseen \subseteq Calls /\ world.last \in AllCalls /\ world.streak \in Nat

\* A call is skipped as a duplicate only when it has succeeded in this turn and its result
\* still tells how things are, or what has outdated it since was done by a write_file or by
\* a call that failed halfway, of which is_duplicate_tool_call cannot know: never when an
\* Edit or a command that returned, successful or not, came between, and never on the word
\* of a call of an earlier turn.
SkipIsRedundant ==
  [][turn'.skips > turn.skips =>
       turn.batch[turn.at].call \in world.valid \cup world.unseen]_vars

\* The model is asked again only with a result for every tool call of its last answer. The
\* one exception is an answer beyond the budget of which a call was skipped as a duplicate:
\* the skipped call uses no budget, so the turn goes on without results for the calls that
\* were dropped (planner.rs, executable_count).
EveryCallAnswered ==
  turn.pc = "model" =>
    \/ \A i \in DOMAIN turn.batch : turn.batch[i].status \in {"ran", "skipped"}
    \/ \E i, j \in DOMAIN turn.batch :
         turn.batch[i].status = "skipped" /\ turn.batch[j].status = "dropped"

\* A call with one argument that keeps returning is run at most once after the warning, and
\* the model is never asked while the warning is kept from it (loop_detector.rs).
RepeatsAreStopped ==
  /\ world.last \notin UnorderedCalls => world.streak <= WarnThreshold + 1
  /\ turn.pc \in {"planning", "model"} /\ world.last \notin UnorderedCalls =>
       world.streak <= WarnThreshold
  /\ turn.pc = "model" /\ world.last \notin UnorderedCalls /\ world.streak >= WarnThreshold =>
       turn.recovery

InOrder(h) ==
  /\ \A i, j \in DOMAIN h : i < j => \A m \in h[i].of, n \in h[j].of : m < n
  /\ \A i \in DOMAIN h : ~IsTurn(h[i]) => i = 1

\* The history stays in order, with at most one summary and that one first, and gains no
\* turn but the one that ends. The only turn it ever forgets is the oldest of a full number
\* of turns held one by one: never one of a summary, and never one of the turns a
\* compression keeps, even when it happens within a turn (commit_turn, try_compact).
ForgetsOnlyTheOldest ==
  [][LET h == agent.history
         forgotten == ToldBy(h) \ ToldBy(agent'.history)
     IN  /\ InOrder(agent'.history)
         /\ ToldBy(agent'.history) \ ToldBy(h) \subseteq {agent'.next - 1}
         /\ \A n \in forgotten : \E i \in TurnIndices(h) :
              h[i].of = {n} /\ Cardinality(TurnsAfter(h, i)) = MaxHistoryTurns - 1]_vars

\* Within its budgets of calls, rounds and skips (execute_natural_language_turn) a turn keeps
\* the tool calls from going round in circles.
TurnIsBounded == TypeOK /\ RepeatsAreStopped

\* What an agent leaves out, a call it has made before or a turn it has had before, it can
\* do without, as far as it can know (tool_guard.rs, state.rs).
OnlyTheKnownIsLeftOut == ForgetsOnlyTheOldest /\ SkipIsRedundant
=============================================================================
