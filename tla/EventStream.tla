---------------------------- MODULE EventStream ----------------------------
(***************************************************************************)
(* How the events of one session reach its web clients: the gateway        *)
(* appends an event to the transcript and then broadcasts it under the     *)
(* session lock; each SSE connection subscribes, replays the transcript    *)
(* from its resume point and then follows the broadcast channel, going     *)
(* back to the transcript when it lags; each client keeps the last         *)
(* event_seq it saw, hydrates from the timeline once, and reconnects.      *)
(*                                                                         *)
(* An event is its event_seq.  The transcript is the log of EventLog:      *)
(* numbers 1, 2, 3, ... without gaps (see TranscriptStore).                *)
(***************************************************************************)
EXTENDS Naturals, Sequences, FiniteSets, SequencesExt

CONSTANTS
  Clients,      \* web clients with this session open
  MaxEvents,    \* bound: events appended
  Capacity,     \* capacity of the broadcast channel
  ReplayLimit,  \* event_replay_limit: how far back a replay may reach
  MaxRetry,     \* MAX_RECONNECT_RETRY of the web client
  MaxDrops,     \* bound: connections lost, gateway restarts included
  MaxUnsent     \* bound: events durable whose append is nevertheless an error

ASSUME CapacityAssumption == Capacity \in Nat \ {0} /\ ReplayLimit \in Nat \ {0}
ASSUME BoundAssumption    == {MaxEvents, MaxRetry, MaxDrops, MaxUnsent} \subseteq Nat

Events == 1..MaxEvents

VARIABLES
  durable,   \* number of events in the transcript
  pending,   \* the event appended and not yet broadcast, or 0; holds the session lock
  ring,      \* every event broadcast since the process started
  conns,     \* the gateway's side of each client's SSE connection
  pages,     \* the client's side
  budget     \* connections dropped and events left unsent so far

vars == <<durable, pending, ring, conns, pages, budget>>

-----------------------------------------------------------------------------
\* resume: after_event_seq (0: absent); pos: events of the ring received;
\* queue: events read from the transcript and not yet sent; last:
\* last_sent_event_seq; sent and base: what was sent, and the floor of the replay;
\* lagged: the connection has been overtaken by the channel.
NoConn == [pc |-> "closed", resume |-> 0, pos |-> 0, queue |-> <<>>, last |-> 0,
           sent |-> <<>>, base |-> 0, lagged |-> FALSE]

\* seen: lastEventSeqRef; got: what was applied, with a mark for real events;
\* hydration: the timeline request, and the events it was answered with.
NewPage == [seen |-> 0, got |-> <<>>, retry |-> 0, hydration |-> "needed", snapshot |-> 0]

Between(low, high) == [i \in 1..(IF high > low THEN high - low ELSE 0) |-> low + i]

\* replay_events_from_transcript: outside the window it is an error.
MinAllowed == IF durable > ReplayLimit THEN durable - ReplayLimit ELSE 0
OutsideWindow(resume) == durable > 0 /\ resume < MinAllowed

Init ==
  /\ durable = 0
  /\ pending = 0
  /\ ring    = <<>>
  /\ conns   = [c \in Clients |-> NoConn]
  /\ pages   = [c \in Clients |-> NewPage]
  /\ budget  = [drops |-> 0, unsent |-> 0]

-----------------------------------------------------------------------------
(* The gateway publishes *)

\* append_event inside append_then_publish, under the session lock.
AppendEvent ==
  /\ pending = 0
  /\ durable < MaxEvents
  /\ durable' = durable + 1
  /\ pending' = durable + 1
  /\ UNCHANGED <<ring, conns, pages, budget>>

\* publish_event: the broadcast, and the lock is released.
PublishEvent ==
  /\ pending # 0
  /\ ring'    = Append(ring, pending)
  /\ pending' = 0
  /\ UNCHANGED <<durable, conns, pages, budget>>

\* The record reached the file and append returned an error all the same: nothing
\* is broadcast.
AppendUnsent ==
  /\ pending = 0
  /\ durable < MaxEvents
  /\ budget.unsent < MaxUnsent
  /\ durable' = durable + 1
  /\ budget'  = [budget EXCEPT !.unsent = @ + 1]
  /\ UNCHANGED <<pending, ring, conns, pages>>

-----------------------------------------------------------------------------
(* One SSE connection of the gateway *)

SetConn(c, conn) == conns' = [conns EXCEPT ![c] = conn]

SubscribeAllowed == pending = 0

Subscription == Len(ring)

\* The client connects and stream_events subscribes under the session lock.
Connect(c) ==
  /\ conns[c].pc = "closed"
  /\ pages[c].retry <= MaxRetry
  /\ SubscribeAllowed
  /\ SetConn(c, [NoConn EXCEPT !.pc = "subscribed", !.resume = pages[c].seen,
                               !.pos = Subscription])
  /\ UNCHANGED <<durable, pending, ring, pages, budget>>

\* Variant: the event behind the one the client saw last is taken for seen.
FloorBehindNext(c) == conns[c].resume + 1

ReplayFloor(c) == IF conns[c].resume = 0 THEN MinAllowed ELSE conns[c].resume

\* replay_events_from_transcript, without the lock; outside the window the request
\* is refused.
ReadReplay(c) ==
  LET replay == Between(ReplayFloor(c), durable) IN
  /\ conns[c].pc = "subscribed"
  /\ IF conns[c].resume # 0 /\ OutsideWindow(conns[c].resume)
     THEN /\ SetConn(c, NoConn)
          /\ pages' = [pages EXCEPT ![c].retry = @ + 1]
     ELSE /\ SetConn(c, [conns[c] EXCEPT !.pc = "streaming", !.queue = replay,
                           !.base = ReplayFloor(c),
                           !.last = IF replay = <<>> THEN 0 ELSE Last(replay)])
          /\ UNCHANGED pages
  /\ UNCHANGED <<durable, pending, ring, budget>>

\* The web client's sequence gate: isSequenceResetEvent is the event numbered 1.
Applied(page, seq, real) ==
  IF seq # 1 /\ seq <= page.seen THEN page
  ELSE [page EXCEPT !.seen = IF seq = 1 THEN 1 ELSE seq,
                    !.got  = Append(@, [seq |-> seq, real |-> real])]

\* An event leaves the gateway and is applied by the page.
Send(c, seq, conn) ==
  /\ SetConn(c, [conn EXCEPT !.last = seq, !.sent = Append(@, seq)])
  /\ pages' = [pages EXCEPT ![c] = Applied(@, seq, TRUE)]

\* The next event read from the transcript.
SendReplayed(c) ==
  /\ conns[c].pc = "streaming"
  /\ conns[c].queue # <<>>
  /\ Send(c, Head(conns[c].queue), [conns[c] EXCEPT !.queue = Tail(@)])
  /\ UNCHANGED <<durable, pending, ring, budget>>

Lagging(c) == Len(ring) - conns[c].pos > Capacity

\* Variant: every event of the channel is sent.
EmitEverything(last, seq) == TRUE

\* Variant: the comparison is off by one.
EmitAfterNext(last, seq) == seq > last + 1

\* should_emit_broadcast_event
ShouldEmit(last, seq) == seq > last

\* The next event of the broadcast channel: sent, or skipped as already replayed.
ReceiveBroadcast(c) ==
  LET next == ring[conns[c].pos + 1] IN
  /\ conns[c].pc = "streaming"
  /\ conns[c].queue = <<>>
  /\ conns[c].pos < Len(ring)
  /\ ~ Lagging(c)
  /\ IF ShouldEmit(conns[c].last, next)
     THEN Send(c, next, [conns[c] EXCEPT !.pos = @ + 1])
     ELSE SetConn(c, [conns[c] EXCEPT !.pos = @ + 1]) /\ UNCHANGED pages
  /\ UNCHANGED <<durable, pending, ring, budget>>

\* RecvError::Lagged: the receiver is moved to the oldest event still in the channel.
ReceiveLagged(c) ==
  /\ conns[c].pc = "streaming"
  /\ conns[c].queue = <<>>
  /\ Lagging(c)
  /\ SetConn(c, [conns[c] EXCEPT !.pc = "lagged", !.pos = Len(ring) - Capacity,
                            !.lagged = TRUE])
  /\ UNCHANGED <<durable, pending, ring, pages, budget>>

\* What the transcript holds behind the last event sent.
Missed(c) == Between(conns[c].last, durable)

\* Recovery from a lag: the missed events are read and sent, or the stream ends with
\* an error event numbered after the last one sent.
Recover(c) ==
  /\ conns[c].pc = "lagged"
  /\ IF ~ OutsideWindow(conns[c].last) /\ Between(conns[c].last, durable) # <<>>
     THEN /\ SetConn(c, [conns[c] EXCEPT !.pc = "streaming", !.queue = Missed(c)])
          /\ UNCHANGED pages
     ELSE /\ SetConn(c, NoConn)
          /\ pages' = [pages EXCEPT ![c] =
                         [Applied(@, conns[c].last + 1, FALSE) EXCEPT !.retry = 0]]
  /\ UNCHANGED <<durable, pending, ring, budget>>

-----------------------------------------------------------------------------
(* The page *)

\* The timeline is requested once per page load and answered from the transcript.
RequestTimeline(c) ==
  /\ pages[c].hydration = "needed"
  /\ pages' = [pages EXCEPT ![c].hydration = "asked", ![c].snapshot = durable]
  /\ UNCHANGED <<durable, pending, ring, conns, budget>>

\* mergeHydratedSessionFromTimeline: only what is newer than the last event seen.
MergeTimeline(c) ==
  LET page == pages[c]
      new  == Between(page.seen, page.snapshot)
  IN
  /\ page.hydration = "asked"
  /\ pages' = [pages EXCEPT ![c] =
                 [page EXCEPT !.hydration = "done",
                              !.seen = IF new = <<>> THEN @ ELSE page.snapshot,
                              !.got  = @ \o [i \in DOMAIN new |->
                                               [seq |-> new[i], real |-> TRUE]]]]
  /\ UNCHANGED <<durable, pending, ring, conns, budget>>

\* The connection is lost; the page counts a retry, which only a stream that ends
\* normally resets.
Drop(c) ==
  /\ conns[c].pc # "closed"
  /\ budget.drops < MaxDrops
  /\ budget' = [budget EXCEPT !.drops = @ + 1]
  /\ SetConn(c, NoConn)
  /\ pages' = [pages EXCEPT ![c].retry = @ + 1]
  /\ UNCHANGED <<durable, pending, ring>>

\* The gateway dies: the channel is empty afterwards, an event appended and not yet
\* broadcast never is, and every open connection is lost.
Restart ==
  /\ budget.drops < MaxDrops
  /\ budget'  = [budget EXCEPT !.drops = @ + 1]
  /\ pending' = 0
  /\ ring'    = <<>>
  /\ conns'   = [c \in Clients |-> NoConn]
  /\ pages'   = [c \in Clients |->
                   IF conns[c].pc = "closed" THEN pages[c]
                   ELSE [pages[c] EXCEPT !.retry = @ + 1]]
  /\ UNCHANGED durable

-----------------------------------------------------------------------------
ConnStep(c) == ReadReplay(c) \/ SendReplayed(c) \/ ReceiveBroadcast(c) \/ ReceiveLagged(c)
                 \/ Recover(c)
PageStep(c) == RequestTimeline(c) \/ MergeTimeline(c)

Next ==
  \/ AppendEvent \/ PublishEvent \/ AppendUnsent \/ Restart
  \/ \E c \in Clients : Connect(c) \/ ConnStep(c) \/ PageStep(c) \/ Drop(c)

\* The gateway polls a connection that has something to send, a page that is still
\* retrying reconnects, and the lock is held for one append only.
Fairness ==
  /\ WF_vars(PublishEvent)
  /\ \A c \in Clients : SF_vars(Connect(c)) /\ WF_vars(ConnStep(c)) /\ WF_vars(PageStep(c))

Spec     == Init /\ [][Next]_vars
FairSpec == Spec /\ Fairness

-----------------------------------------------------------------------------
(* Properties *)

Conn == [pc : {"closed", "subscribed", "streaming", "lagged"},
         resume : 0..(MaxEvents + 1), pos : Nat, queue : Seq(Events), last : 0..(MaxEvents + 1),
         sent : Seq(Events), base : 0..(MaxEvents + 1), lagged : BOOLEAN]

Applications == [seq : 1..(MaxEvents + 1), real : BOOLEAN]

Page == [seen : 0..(MaxEvents + 1), got : Seq(Applications), retry : 0..(MaxRetry + 1),
         hydration : {"needed", "asked", "done"}, snapshot : 0..MaxEvents]

TypeOK ==
  /\ durable \in 0..MaxEvents
  /\ pending \in {0, durable}
  /\ ring \in Seq(Events)
  /\ conns \in [Clients -> Conn] /\ \A c \in Clients : conns[c].pos <= Len(ring)
  /\ pages \in [Clients -> Page] /\ \A c \in Clients : pages[c].snapshot <= durable
  /\ budget \in [drops : 0..MaxDrops, unsent : 0..MaxUnsent]

\* On one connection events are sent in order and once, whatever the replay, the
\* channel and the recoveries from lags have in common.
SentInOrder ==
  \A c \in Clients : \A i, j \in DOMAIN conns[c].sent :
    i < j => conns[c].sent[i] < conns[c].sent[j]

\* Between the point a connection resumed from and the last event it sent, no event
\* that was broadcast is missing: the subscription, the replay, the channel and the
\* recoveries from lags fit together without a gap.
SentComplete ==
  \A c \in Clients : \A e \in Range(ring) :
    conns[c].sent # <<>> /\ conns[c].base < e /\ e <= Last(conns[c].sent)
      => e \in Range(conns[c].sent)

\* The stream ended with an error event that borrowed the number of a later event.
Misled(c) == \E i \in DOMAIN pages[c].got : ~ pages[c].got[i].real

\* Of the events in the replay window a page never skips one that was broadcast, over
\* all its connections and the timeline, unless an error event misled it.
PageMissesNothing ==
  \A c \in Clients : ~ Misled(c) => \A e \in Range(ring) :
    MinAllowed < e /\ e <= pages[c].seen => [seq |-> e, real |-> TRUE] \in Range(pages[c].got)

\* A connection sends only what came after the event the client named, however the
\* subscription, the replay and the live events interleave: for every connection the
\* channel has not overtaken (openjax-core/src/streaming/README.md:64).
ResumedAfterLast ==
  \A c \in Clients : ~ conns[c].lagged /\ ~ Misled(c) =>
    \A i \in DOMAIN conns[c].sent : conns[c].sent[i] > conns[c].resume

\* What a connection has sent is a piece of the session's stream (handlers/stream.rs): in
\* order, without a gap, and from behind the event the client named.
SentIsTheStream == TypeOK /\ SentInOrder /\ SentComplete /\ ResumedAfterLast

\* As long as it has retries left, a page gets every event that was broadcast.
EventsArrive ==
  \A c \in Clients : \A e \in Events :
    e \in Range(ring) ~> (pages[c].seen >= e \/ pages[c].retry > MaxRetry)
=============================================================================
