------------------------------ MODULE AnswerPage ------------------------------
(***************************************************************************)
(* What the web page makes of the events of one turn (ui/web/src:          *)
(* lib/session-events, lib/streamRenderStore.ts, hooks/useChatApp.ts), in  *)
(* two ways: Replayed, from the events of a timeline, and Live, from the   *)
(* events of the stream, where the text of a running answer goes to a      *)
(* store of its own and is painted by animation frames.                    *)
(*                                                                         *)
(* A text is a sequence of pieces, each a number. A message of the page    *)
(* carries a response segment, or NoSegment, and blocks of thoughts.       *)
(***************************************************************************)
EXTENDS Integers, SequencesExt

NoSegment == 0

EmptyPage ==
  [messages |-> <<>>, cards |-> <<>>, pending |-> {}, phase |-> "idle", store |-> <<>>]

-----------------------------------------------------------------------------
(* Messages *)

NewMessage(seg) ==
  [seg |-> seg, text |-> <<>>, draft |-> TRUE, interrupted |-> FALSE, thoughts |-> <<>>]

\* findAssistantMessageIndex, findAssistantDraftIndex: 0 when there is none. The page keeps
\* at most one message of a segment.
MessageOf(page, seg) == SelectLastInSeq(page.messages, LAMBDA m : m.seg = seg)

\* The page with a message of the segment, which is added if need be.
WithMessage(page, seg) ==
  IF MessageOf(page, seg) # 0 THEN page
  ELSE [page EXCEPT !.messages = Append(@, NewMessage(seg))]

ClosedThoughts(m) == [m EXCEPT !.thoughts = [i \in DOMAIN @ |-> [@[i] EXCEPT !.open = FALSE]]]

\* closeOpenReasoningBlock
CloseThoughts(page) ==
  [page EXCEPT !.messages = [i \in DOMAIN @ |-> ClosedThoughts(@[i])]]

\* markTurnDraftFinal
DraftsFinal(page) ==
  [page EXCEPT !.messages = [i \in DOMAIN @ |-> [@[i] EXCEPT !.draft = FALSE]]]

Interrupt(page) ==
  [page EXCEPT !.messages =
     [i \in DOMAIN @ |-> [@[i] EXCEPT !.draft = FALSE, !.interrupted = TRUE]]]

\* The blocks of a message, with a piece of thought for a reasoning segment: a block that
\* was closed is opened again, a new one closes the others.
ThoughtAdded(m, seg, piece) ==
  LET i == SelectInSeq(m.thoughts, LAMBDA b : b.seg = seg)
  IN  IF i # 0
      THEN [m EXCEPT !.thoughts[i].text = Append(@, piece), !.thoughts[i].open = TRUE]
      ELSE [m EXCEPT !.thoughts =
              Append(ClosedThoughts(m).thoughts, [seg |-> seg, text |-> <<piece>>, open |-> TRUE])]

\* appendReasoningDelta: the message that has the segment, else the last one, else a new one.
AddThought(page, seg, piece) ==
  LET having == SelectLastInSeq(page.messages,
                  LAMBDA m : \E i \in DOMAIN m.thoughts : m.thoughts[i].seg = seg)
      target == IF having # 0 THEN having ELSE Len(page.messages)
  IN  [page EXCEPT !.messages =
         IF target = 0 THEN <<ThoughtAdded(NewMessage(NoSegment), seg, piece)>>
         ELSE [@ EXCEPT ![target] = ThoughtAdded(@, seg, piece)]]

\* mergeAssistantDraft
MergeText(page, seg, piece) ==
  LET with == WithMessage(page, seg)
  IN  [with EXCEPT !.messages[MessageOf(with, seg)].text = Append(@, piece)]

\* sealAssistantMessage
Seal(page, seg, content) ==
  LET with == WithMessage(page, seg)
      i    == MessageOf(with, seg)
  IN  [with EXCEPT !.messages[i].text = content, !.messages[i].draft = FALSE]

-----------------------------------------------------------------------------
(* Tool cards and approvals *)

\* createStepFromEvent: the status an event gives to a card. A ready event gives none.
CardStatus(e) ==
  CASE e.type = "tool_call_started" -> "running"
    [] e.type = "tool_call_completed" -> IF e.ok THEN "success" ELSE "failed"
    [] e.type = "approval_requested" -> "waiting"
    [] e.type = "approval_resolved" -> "success"
    [] OTHER -> "none"

\* upsertToolStepMessage and mergeToolStep
UpsertCard(page, e) ==
  LET i == SelectLastInSeq(page.cards, LAMBDA c : c.id = e.id)
      status == CardStatus(e)
  IN  [page EXCEPT !.cards =
         IF i = 0 THEN Append(@, [id |-> e.id, status |-> status])
         ELSE IF status = "none" THEN @ ELSE [@ EXCEPT ![i].status = status]]

\* pendingApprovals
Pending(page, e) ==
  CASE e.type = "approval_requested" -> page.pending \cup {e.id}
    [] e.type = "approval_resolved" -> page.pending \ {e.id}
    [] OTHER -> page.pending

ToolStepEvents == {"tool_call_started", "tool_call_ready", "tool_call_completed",
                   "approval_requested", "approval_resolved"}

-----------------------------------------------------------------------------
(* applySingleSessionEvent *)

\* shouldCloseReasoningOnEvent
ClosesThoughts(type) ==
  type \in ToolStepEvents \cup {"response_text_delta", "tool_calls_proposed", "response_completed",
                                "response_error", "turn_completed", "turn_interrupted"}

PhaseAfter(page, type) ==
  CASE type \in {"turn_started", "response_started"} -> "streaming"
    [] type \in {"response_completed", "turn_completed", "turn_interrupted"} -> "completed"
    [] type = "response_error" -> "failed"
    [] OTHER -> page.phase

Body(page, e) ==
  CASE e.type = "reasoning_delta" -> AddThought(page, e.seg, e.piece)
    [] e.type = "response_text_delta" -> MergeText(page, e.seg, e.piece)
    [] e.type = "response_completed" -> DraftsFinal(Seal(page, e.seg, e.content))
    [] e.type = "turn_completed" -> DraftsFinal(page)
    [] e.type = "turn_interrupted" -> Interrupt(page)
    [] e.type \in ToolStepEvents -> [UpsertCard(page, e) EXCEPT !.pending = Pending(page, e)]
    [] OTHER -> page

ApplyEvent(page, e) ==
  [Body(IF ClosesThoughts(e.type) THEN CloseThoughts(page) ELSE page, e)
     EXCEPT !.phase = PhaseAfter(page, e.type)]

\* A page that is opened, or opened again: the store is empty, the timeline is applied.
Replayed(events) == FoldLeft(ApplyEvent, EmptyPage, events)

-----------------------------------------------------------------------------
(* streamRenderStore: by segment, the text shown and the pieces not yet painted *)

Entry(store, seg) ==
  IF seg \in DOMAIN store THEN store[seg] ELSE [text |-> <<>>, buffer |-> <<>>, active |-> FALSE]

With(store, seg, entry) ==
  [s \in DOMAIN store \cup {seg} |-> IF s = seg THEN entry ELSE store[s]]

\* start
StoreStarted(store, seg, text) ==
  With(store, seg, [text |-> text, buffer |-> <<>>, active |-> TRUE])

\* append: the first piece of an entry that append itself creates is dropped, because
\* start has already taken its number.
Appended(store, seg, piece) ==
  LET old == Entry(store, seg)
  IN  With(store, seg,
        [old EXCEPT !.active = TRUE,
                    !.buffer = IF seg \in DOMAIN store THEN Append(@, piece) ELSE <<>>])

\* complete: an entry that complete itself creates stays active.
Finished(store, seg, content) ==
  With(store, seg, [text |-> content, buffer |-> <<>>, active |-> seg \notin DOMAIN store])

\* The animation frame of scheduleCommit.
Painted(page, seg) ==
  [page EXCEPT !.store[seg] = [@ EXCEPT !.text = @ \o page.store[seg].buffer, !.buffer = <<>>]]

-----------------------------------------------------------------------------
(* applyIncomingEvent *)

\* applyResponseStartedSession: the store takes over what the message has.
LiveStarted(page, e) ==
  LET with == WithMessage(page, e.seg)
      i    == MessageOf(with, e.seg)
  IN  [with EXCEPT !.messages[i].draft = TRUE, !.phase = "streaming",
                   !.store = StoreStarted(@, e.seg, with.messages[i].text)]

\* applyResponseCompletedSession and complete
LiveCompleted(page, e) ==
  [Seal(CloseThoughts(page), e.seg, e.content)
     EXCEPT !.phase = "completed", !.store = Finished(@, e.seg, e.content)]

\* fail looks for the entry of the turn, which there never is, and does nothing.
LiveEvent(page, e) ==
  CASE e.type = "response_text_delta" -> [page EXCEPT !.store = Appended(@, e.seg, e.piece)]
    [] e.type = "response_started" -> LiveStarted(page, e)
    [] e.type = "response_completed" -> LiveCompleted(page, e)
    [] e.type \in {"turn_completed", "turn_interrupted"} ->
         [ApplyEvent(page, e) EXCEPT !.store = <<>>]
    [] OTHER -> ApplyEvent(page, e)

-----------------------------------------------------------------------------
\* AssistantDraftMessage: the text a message shows.
Shown(page, m) ==
  IF m.draft /\ m.seg \in DOMAIN page.store THEN page.store[m.seg].text ELSE m.text

\* What a reader sees, item by item (buildTimeline).
Texts(page) ==
  {[seg |-> m.seg, text |-> Shown(page, m), interrupted |-> m.interrupted] :
     m \in ToSet(page.messages)}

Thoughts(page) == UNION {ToSet(m.thoughts) : m \in ToSet(page.messages)}
=============================================================================
