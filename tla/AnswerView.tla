------------------------------ MODULE AnswerView ------------------------------
(***************************************************************************)
(* The way of an answer from the model service to the page: the client     *)
(* that reads its stream (openjax-core/src/model, streaming/parser), the   *)
(* planner that turns it into events round by round (planner_stream_flow,  *)
(* planner), the gateway that numbers the segments of a turn and writes    *)
(* the events down (state/runtime.rs, core_projection.rs), and a page that *)
(* follows the stream or is opened again at any time (AnswerPage).         *)
(*                                                                         *)
(* One turn. Its duplicate guards and budgets are in AgentTurn, the gate   *)
(* of event numbers and the connections of the page in EventStream.        *)
(***************************************************************************)
EXTENDS AnswerPage, ModelWire, FiniteSets

CONSTANTS
  Protocols,   \* a set of "anthropic", "chat": the protocols of the configured models
  MaxPieces,   \* bound: pieces of text and of thought in the turn
  MaxCalls,    \* bound: tool calls of the turn
  MaxParts,    \* bound: pieces and calls of the turn together
  MaxRounds,   \* bound: requests of the turn
  MaxBehind,   \* bound: events the page is behind when the next ones are published
  Budgets      \* values of max_tool_calls_per_turn

ASSUME ProtocolsAssumption == Protocols \subseteq {"anthropic", "chat"}
ASSUME BoundsAssumption == {MaxPieces, MaxCalls, MaxParts, MaxRounds, MaxBehind} \cup Budgets \subseteq Nat

VARIABLES
  turn,     \* pc, rounds, pieces and calls so far, the budget of calls that is left, calls
            \* left to run and the results so far, the conversation with the model, what the
            \* agent commits; the calls dropped for want of budget; and the story: what user,
            \* service and tools have told, in their own words
  service,  \* what the model service has sent of the answer
  client,   \* the locals of complete_stream and request_planner_model_output
  gateway,  \* TurnStreamNodeState and the transcript of the turn
  page, at  \* the page and the events it has applied

vars == <<turn, service, client, gateway, page, at>>

NoAnswer == [protocol |-> "none", asked |-> <<>>, text |-> <<>>, calls |-> <<>>,
             open |-> FALSE, stopped |-> FALSE]

NoClient == [text |-> <<>>, thought |-> <<>>, calls |-> <<>>, block |-> <<>>,
             done |-> FALSE, started |-> FALSE]

Prior == <<-1>>  \* the summary of the prior conversation
Input == <<0>>   \* what the user has written

\* build_turn_messages
TurnMessages == <<User(<<TextBlock(Prior)>>), User(<<TextBlock(Input)>>)>>

Init ==
  /\ \E budget \in Budgets :
       turn = [pc |-> "new", rounds |-> 0, pieces |-> 0, calls |-> 0, budget |-> budget,
               left |-> <<>>, results |-> <<>>, dropped |-> {}, messages |-> TurnMessages,
               story |-> Said("user", Prior) \o Said("user", Input), committed |-> <<>>]
  /\ service = NoAnswer /\ client = NoClient
  /\ gateway = [responses |-> 0, response |-> NoSegment, reasonings |-> 0, reasoning |-> NoSegment,
                log |-> <<>>]
  /\ page = EmptyPage /\ at = 0

-----------------------------------------------------------------------------
(* The gateway: map_core_event *)

\* Variant: a response that starts goes on with the open segment.
KeptResponse(g) ==
  IF g.response = NoSegment THEN [g EXCEPT !.responses = @ + 1, !.response = g.responses + 1] ELSE g

OpenResponse(g) == [g EXCEPT !.responses = @ + 1, !.response = g.responses + 1]

CurrentResponse(g) == IF g.response = NoSegment THEN OpenResponse(g) ELSE g

CurrentReasoning(g) ==
  IF g.reasoning = NoSegment
  THEN [g EXCEPT !.reasonings = @ + 1, !.reasoning = g.reasonings + 1] ELSE g

CloseSegments(g) == [g EXCEPT !.response = NoSegment, !.reasoning = NoSegment]

\* assign_stream_node_ids
Assigned(g, type) ==
  CASE type = "response_started" -> OpenResponse(g)
    [] type \in {"response_text_delta", "response_completed"} -> CurrentResponse(g)
    [] type = "reasoning_delta" -> CurrentReasoning(g)
    [] OTHER -> g

WithSegment(g, e) ==
  CASE e.type \in {"response_started", "response_text_delta", "response_completed"} ->
         [e EXCEPT !.seg = g.response]
    [] e.type = "reasoning_delta" -> [e EXCEPT !.seg = g.reasoning]
    [] OTHER -> e

ClosesSegments(type) == type \in {"response_completed", "response_error", "turn_completed"}

Projected(g, e) ==
  LET a == Assigned(g, e.type)
      b == [a EXCEPT !.log = Append(@, WithSegment(a, e))]
  IN  IF ClosesSegments(e.type) THEN CloseSegments(b) ELSE b

\* The page depends on the events it has had and on nothing else, so that nothing is lost when
\* the events wait until it is not too far behind.
Publish(events) ==
  /\ Len(gateway.log) - at <= MaxBehind
  /\ gateway' = FoldLeft(Projected, gateway, events)

\* The events of the core.
TurnEvent(type) == [type |-> type]
Text(piece) == [type |-> "response_text_delta", seg |-> NoSegment, piece |-> piece]
Thought(piece) == [type |-> "reasoning_delta", seg |-> NoSegment, piece |-> piece]
Started == [type |-> "response_started", seg |-> NoSegment]
Completed(content) == [type |-> "response_completed", seg |-> NoSegment, content |-> content]
Tool(type, id) == [type |-> type, id |-> id]
ToolCompleted(id, ok) == [type |-> "tool_call_completed", id |-> id, ok |-> ok]

\* ResponseStreamOrchestrator: the first piece of a request starts a response.
TextEvents(piece) == (IF client.started THEN <<>> ELSE <<Started>>) \o <<Text(piece)>>

PageStays == UNCHANGED <<page, at>>

-----------------------------------------------------------------------------
(* A round: the request and the stream of its answer *)

StartTurn ==
  /\ turn.pc = "new"
  /\ turn' = [turn EXCEPT !.pc = "planning"]
  /\ Publish(<<TurnEvent("turn_started")>>)
  /\ UNCHANGED <<service, client>> /\ PageStays

\* build_request
Request(protocol, messages) ==
  IF protocol = "anthropic" THEN AnthropicMessages(messages) ELSE ChatMessages(messages)

AskModel(protocol) ==
  /\ turn.pc = "planning" /\ turn.rounds < MaxRounds /\ turn.budget > 0
  /\ turn' = [turn EXCEPT !.pc = "stream", !.rounds = @ + 1]
  /\ service' = [NoAnswer EXCEPT !.protocol = protocol, !.asked = Request(protocol, turn.messages)]
  /\ client' = NoClient
  /\ UNCHANGED gateway /\ PageStays

Streaming == turn.pc = "stream" /\ ~service.stopped

PartComes == Streaming /\ ~service.open /\ turn.pieces + turn.calls < MaxParts

NewPiece == turn.pieces + 1

Anthropic == service.protocol = "anthropic"

\* The locals of the two clients after a piece of text or of thought.
WithText(c, piece) == [c EXCEPT !.text = Append(@, piece), !.started = TRUE]
AnthropicThought(c, piece) == [c EXCEPT !.thought = Append(@, piece)]
ChatThought(c, piece) == c

\* The service sends a piece of text.
TextFrame ==
  /\ PartComes /\ turn.pieces < MaxPieces
  /\ turn' = [turn EXCEPT !.pieces = NewPiece]
  /\ service' = [service EXCEPT !.text = Append(@, NewPiece)]
  /\ client' = WithText(client, NewPiece)
  /\ Publish(TextEvents(NewPiece)) /\ PageStays

ThinkingFrame ==
  /\ PartComes /\ turn.pieces < MaxPieces
  /\ turn' = [turn EXCEPT !.pieces = NewPiece]
  /\ client' = IF Anthropic THEN AnthropicThought(client, NewPiece)
                            ELSE ChatThought(client, NewPiece)
  /\ Publish(<<Thought(NewPiece)>>)
  /\ UNCHANGED service /\ PageStays

\* A call whose arguments are not yet whole.
NewCall(id) == [id |-> id, args |-> "partial"]

LastWhole(calls) == [calls EXCEPT ![Len(calls)].args = "whole"]

\* Arguments that do not parse are read as an empty object.
Parsed(calls) ==
  [i \in DOMAIN calls |-> [calls[i] EXCEPT !.args = IF @ = "whole" THEN @ ELSE "{}"]]

\* process_tool_use_frame keeps the call of the open block aside until the block stops.
AnthropicStart(c, call) == [c EXCEPT !.block = <<call>>]
AnthropicArgs(c) == [c EXCEPT !.block = LastWhole(@)]
AnthropicStop(c) == [c EXCEPT !.calls = @ \o Parsed(c.block), !.block = <<>>]

\* pending_tool_calls, by index; nothing comes at the end of a call.
ChatStart(c, call) == [c EXCEPT !.calls = Append(@, call)]
ChatArgs(c) == [c EXCEPT !.calls = LastWhole(@)]

\* The service starts a tool call: content_block_start, or the first delta of an index.
ToolStartFrame ==
  /\ PartComes /\ turn.calls < MaxCalls
  /\ LET call == NewCall(turn.calls + 1)
     IN  /\ turn' = [turn EXCEPT !.calls = call.id]
         /\ service' = [service EXCEPT !.open = TRUE, !.calls = Append(@, call)]
         /\ client' = IF Anthropic THEN AnthropicStart(client, call) ELSE ChatStart(client, call)
         /\ Publish(<<Tool("tool_call_started", call.id)>>)
  /\ PageStays

\* The rest of the arguments. The events of argument deltas change nothing on the page.
ToolArgsFrame ==
  /\ Streaming /\ service.open /\ Last(service.calls).args = "partial"
  /\ service' = [service EXCEPT !.calls = LastWhole(@)]
  /\ client' = IF Anthropic THEN AnthropicArgs(client) ELSE ChatArgs(client)
  /\ UNCHANGED <<turn, gateway>> /\ PageStays

\* The call ends. A service that has run out of tokens ends it before its arguments are whole.
ToolEndFrame ==
  /\ Streaming /\ service.open
  /\ service' = [service EXCEPT !.open = FALSE]
  /\ \/ /\ Anthropic
        /\ client' = AnthropicStop(client)
        /\ Publish(<<Tool("tool_call_ready", Last(service.calls).id)>>)
     \/ ~Anthropic /\ UNCHANGED <<client, gateway>>
  /\ UNCHANGED turn /\ PageStays

\* message_stop or [DONE]
StopFrame ==
  /\ Streaming /\ ~service.open
  /\ service' = [service EXCEPT !.stopped = TRUE]
  /\ client' = [client EXCEPT !.done = TRUE]
  /\ UNCHANGED <<turn, gateway>> /\ PageStays

-----------------------------------------------------------------------------
(* The end of the stream *)

\* The service closes the stream, after the end of the answer or before. What it has sent of
\* a last line counts as one more frame before.
StreamEnds ==
  /\ turn.pc = "stream"
  /\ turn' = [turn EXCEPT !.pc = "ended"]
  /\ UNCHANGED <<service, client, gateway>> /\ PageStays

\* Variant: the end of the stream is the end of the answer.
AnyEndIsDone == client.text # <<>> \/ client.calls # <<>>

\* The checks of complete_stream after its loop: the end was told, and there is content.
AnthropicUsable == client.done /\ (client.text # <<>> \/ client.calls # <<>>)
ChatUsable == client.done /\ (client.text # <<>> \/ client.calls # <<>>)
AnswerIsUsable == IF Anthropic THEN AnthropicUsable ELSE ChatUsable

TurnOver(t) == [t EXCEPT !.pc = "over"]

\* ResponseCompleted, commit_turn and TurnCompleted.
FinalAnswer ==
  /\ turn.pc = "ended" /\ AnswerIsUsable /\ client.calls = <<>>
  /\ turn' = [TurnOver(turn) EXCEPT !.committed = client.text]
  /\ Publish(<<Completed(client.text), TurnEvent("turn_completed")>>)
  /\ UNCHANGED <<service, client>> /\ PageStays

\* The chat client tells only now that its calls are complete.
ReadyEvents ==
  IF Anthropic THEN <<>>
  ELSE [i \in DOMAIN client.calls |-> Tool("tool_call_ready", client.calls[i].id)]

\* The content blocks of complete_stream.
AnswerCalls == IF Anthropic THEN client.calls ELSE Parsed(client.calls)

\* Only as many calls as the budget has left are executable. The others are told to the page
\* as failed, before the first one runs, and get no result.
Executable(calls) == SubSeq(calls, 1, IF Len(calls) <= turn.budget THEN Len(calls) ELSE turn.budget)
DroppedCalls(calls) == SubSeq(calls, Len(Executable(calls)) + 1, Len(calls))
DropEvents(calls) == [i \in DOMAIN calls |-> ToolCompleted(calls[i].id, FALSE)]

\* The response to the text of such an answer is never completed.
ToolAnswer ==
  /\ turn.pc = "ended" /\ AnswerIsUsable /\ client.calls # <<>>
  /\ LET dropped == DroppedCalls(AnswerCalls)
     IN  /\ turn' = [turn EXCEPT
              !.pc = "tools", !.left = Executable(AnswerCalls), !.results = <<>>,
              !.dropped = @ \cup {dropped[i].id : i \in DOMAIN dropped},
              !.messages = Append(@, AnswerMessage(client.thought, client.text, AnswerCalls)),
              !.story = @ \o Said("assistant", service.text) \o Called(Parsed(service.calls))]
         /\ Publish(ReadyEvents \o <<TurnEvent("tool_calls_proposed")>> \o DropEvents(dropped))
  /\ UNCHANGED <<service, client>> /\ PageStays

Failure == <<TurnEvent("response_error"), TurnEvent("turn_completed")>>

\* The connection breaks or stays silent for too long, or the answer is of no use.
AnswerFails ==
  /\ turn.pc = "stream" \/ (turn.pc = "ended" /\ ~AnswerIsUsable)
  /\ turn' = TurnOver(turn)
  /\ Publish(Failure)
  /\ UNCHANGED <<service, client>> /\ PageStays

-----------------------------------------------------------------------------
(* The tool calls of an answer, and the ends of a turn; AgentTurn has their rules *)

NextCall == Head(turn.left).id

\* The call has a result for the model. One that was skipped as a duplicate uses no budget.
Executed(t) == [t EXCEPT !.budget = @ - 1]

CallOver(t, ok) ==
  LET id == Head(t.left).id
  IN  [t EXCEPT !.pc = "tools", !.left = Tail(@), !.results = Append(@, ResultBlock(id, ok)),
                !.story = @ \o Answered(id)]

AskApproval ==
  /\ turn.pc = "tools" /\ turn.left # <<>>
  /\ turn' = [turn EXCEPT !.pc = "approval"]
  /\ Publish(<<Tool("approval_requested", NextCall)>>)
  /\ UNCHANGED <<service, client>> /\ PageStays

\* With or without approval, the call comes back.
ToolReturns(ok) ==
  /\ turn.pc \in {"tools", "approval"} /\ turn.left # <<>>
  /\ turn' = CallOver(Executed(turn), ok)
  /\ Publish((IF turn.pc = "approval" THEN <<Tool("approval_resolved", NextCall)>> ELSE <<>>)
             \o <<ToolCompleted(NextCall, ok)>>)
  /\ UNCHANGED <<service, client>> /\ PageStays

\* A refused approval ends the turn.
Refused ==
  /\ turn.pc = "approval"
  /\ turn' = TurnOver(turn)
  /\ Publish(<<Tool("approval_resolved", NextCall), ToolCompleted(NextCall, FALSE)>> \o Failure)
  /\ UNCHANGED <<service, client>> /\ PageStays

\* A duplicate call: the page is told of an error, but the turn goes on, or it is the last
\* of a number of duplicates and ends it.
SkipCall(isLast) ==
  /\ turn.pc = "tools" /\ turn.left # <<>>
  /\ turn' = IF isLast THEN TurnOver(turn) ELSE CallOver(turn, FALSE)
  /\ Publish(<<TurnEvent("response_error")>> \o (IF isLast THEN Failure ELSE <<>>))
  /\ UNCHANGED <<service, client>> /\ PageStays

BatchDone ==
  /\ turn.pc = "tools" /\ turn.left = <<>>
  /\ turn' = [turn EXCEPT !.pc = "planning", !.messages = Append(@, User(turn.results))]
  /\ UNCHANGED <<service, client, gateway>> /\ PageStays

\* A limit, a loop or an invalid call.
GiveUp ==
  /\ turn.pc \in {"planning", "tools"}
  /\ turn' = TurnOver(turn)
  /\ Publish(Failure)
  /\ UNCHANGED <<service, client>> /\ PageStays

\* The task is aborted where it waits. TurnLifecycle tells when the event comes, if it does.
Abort(reported) ==
  /\ turn.pc \in {"stream", "tools", "approval"}
  /\ turn' = TurnOver(turn)
  /\ Publish(IF reported THEN <<TurnEvent("turn_interrupted")>> ELSE <<>>)
  /\ UNCHANGED <<service, client>> /\ PageStays

-----------------------------------------------------------------------------
(* The page *)

RunStays == UNCHANGED <<turn, service, client, gateway>>

Follow ==
  /\ at < Len(gateway.log)
  /\ page' = LiveEvent(page, gateway.log[at + 1])
  /\ at' = at + 1
  /\ RunStays

Paint(seg) ==
  /\ seg \in DOMAIN page.store /\ page.store[seg].buffer # <<>>
  /\ page' = Painted(page, seg)
  /\ at' = at /\ RunStays

\* The page is loaded again; the stream goes on after the timeline.
Reload ==
  /\ gateway.log # <<>>
  /\ page' = Replayed(gateway.log) /\ at' = Len(gateway.log)
  /\ RunStays

Next ==
  \/ StartTurn \/ TextFrame \/ ThinkingFrame \/ ToolStartFrame \/ ToolArgsFrame \/ ToolEndFrame
  \/ StopFrame \/ StreamEnds \/ FinalAnswer \/ ToolAnswer \/ AnswerFails
  \/ AskApproval \/ Refused \/ BatchDone \/ GiveUp \/ Follow \/ Reload
  \/ \E protocol \in Protocols : AskModel(protocol)
  \/ \E ok \in BOOLEAN : ToolReturns(ok) \/ SkipCall(ok) \/ Abort(ok)
  \/ \E seg \in DOMAIN page.store : Paint(seg)

Spec == Init /\ [][Next]_vars

-----------------------------------------------------------------------------
(* Properties *)

Increasing(s) == \A i, j \in DOMAIN s : i < j => s[i] < s[j]
Phases == {"idle", "streaming", "completed", "failed"}
TurnPcs == {"new", "planning", "stream", "ended", "tools", "approval", "over"}

\* Every variable has its type; the page has one message of a segment and one card of a call
\* (findAssistantDraftIndex and findToolStepMessageIndex look for one).
TypeOK ==
  /\ turn.pc \in TurnPcs /\ turn.rounds \in 0..MaxRounds
  /\ turn.pieces \in 0..MaxPieces /\ turn.calls \in 0..MaxCalls /\ turn.budget \in Nat
  /\ service.protocol \in Protocols \cup {"none"}
  /\ {gateway.response, gateway.responses} \subseteq 0..MaxPieces
  /\ {gateway.reasoning, gateway.reasonings} \subseteq 0..MaxPieces
  /\ at \in 0..Len(gateway.log) /\ page.phase \in Phases
  /\ page.pending \subseteq 1..MaxCalls
  /\ \A i, j \in DOMAIN page.messages : page.messages[i].seg = page.messages[j].seg => i = j
  /\ \A i, j \in DOMAIN page.cards : page.cards[i].id = page.cards[j].id => i = j

\* An answer that is used, as the final one or for its tool calls, is the whole answer of the
\* service, piece for piece and call for call, whichever protocol it came in and wherever
\* the stream was cut (complete_stream). Only arguments that the service itself did not
\* complete, or that are no JSON, are read as an empty object.
AnswersAreWhole ==
  turn.pc \in {"tools", "approval"} \/ turn.committed # <<>> =>
    /\ service.stopped /\ client.text = service.text
    /\ AnswerCalls = Parsed(service.calls)

\* The calls told of that have no result behind them before the service is to speak again.
Unanswered(told) ==
  LET calls == {i \in DOMAIN told : "calls" \in DOMAIN told[i]}
      of(i) == {j \in DOMAIN told : j > i /\ told[j] = Answered(told[i].calls.id)[1]}
      next(i) == {j \in DOMAIN told : j > i /\ "said" \in DOMAIN told[j]}
  IN  {told[i].calls.id : i \in {k \in calls : \A j \in of(k) : \E n \in next(k) : n < j}}

\* A service that is asked again reads the turn as it was, in either protocol: the words of
\* the user, its own text and its own calls, each with the arguments the agent has read (an
\* empty object for those that did not parse, so it may be told of a call other than its
\* own), and right after them, in the order of the calls, a result for every one of these
\* calls and no other, but for the calls that were dropped for want of budget: when another
\* call of their answer was skipped as a duplicate, which uses no budget, the turn goes on
\* with calls that have no result (build_request, planner.rs).
RequestsTellTheTurn ==
  turn.pc = "stream" =>
    LET told == IF Anthropic THEN ToldByAnthropic(service.asked) ELSE ToldByChat(service.asked)
    IN  told = turn.story /\ Unanswered(told) = turn.dropped

RoundsOf(log) ==
  LET starts == {i \in DOMAIN log : log[i].type = "response_started"}
      round(i) == Cardinality({s \in starts : s <= i})
      texts == {i \in DOMAIN log : log[i].type = "response_text_delta"}
  IN  [i \in {log[j].piece : j \in texts} |->
         round(CHOOSE j \in texts : log[j].piece = i)]

\* A text on the page never mixes answers of two requests, and shows no piece twice or out
\* of order, while it streams, after a reload in the middle and at the end
\* (response_segment_id).
TextsStayApart ==
  LET roundOf == RoundsOf(gateway.log)
  IN  \A item \in Texts(page) :
        /\ Increasing(item.text)
        /\ ToSet(item.text) \subseteq DOMAIN roundOf
        /\ Cardinality({roundOf[p] : p \in ToSet(item.text)}) <= 1

CompletedSegments(log) ==
  {log[i].seg : i \in {j \in DOMAIN log : log[j].type = "response_completed"}}

Of(items, segs) == {item \in items : item.seg \in segs}

\* The page has followed the turn to its last event.
Followed ==
  /\ turn.pc = "over" /\ at = Len(gateway.log)
  /\ Last(gateway.log).type \in {"turn_completed", "turn_interrupted"}

SameBut(p, q, segs) ==
  /\ Of(Texts(p), segs) = Of(Texts(q), segs)
  /\ Thoughts(p) = Thoughts(q)
  /\ p.cards = q.cards /\ p.pending = q.pending /\ p.phase = q.phase

\* The turn is over and the page has followed it, with reloads at any moments: it shows the
\* answer the agent keeps, and shows what a page opened now shows, in thoughts, tool cards,
\* approvals, phase and the text of every completed response (useChatApp against reducer).
LiveIsReplay ==
  Followed =>
    /\ turn.committed # <<>> => turn.committed \in {item.text : item \in Texts(page)}
    /\ SameBut(page, Replayed(gateway.log), CompletedSegments(gateway.log))

\* At every moment the page is a page of this turn and at its end the right one, whether it
\* followed the events or was reloaded on the way (reducer.ts, streamRenderStore.ts).
PageIsSound == TypeOK /\ TextsStayApart /\ LiveIsReplay
=============================================================================
