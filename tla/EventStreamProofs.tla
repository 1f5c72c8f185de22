------------------------- MODULE EventStreamProofs --------------------------
(***************************************************************************)
(* Theorems about EventStream, for any number of clients, events, losses   *)
(* and restarts and any capacity of the channel: what a connection sends   *)
(* is a piece of the session's stream, and a page skips no event that was  *)
(* broadcast.                                                              *)
(***************************************************************************)
EXTENDS EventStream, TLAPS

-----------------------------------------------------------------------------
(* Sequences of events *)

USE CapacityAssumption, BoundAssumption DEF Events

LEMMA Bounds ==
  /\ MaxEvents \in Nat /\ MaxRetry \in Nat /\ MaxDrops \in Nat /\ MaxUnsent \in Nat
  /\ Capacity \in Nat \ {0} /\ ReplayLimit \in Nat \ {0}
OBVIOUS

LEMMA RangeIsSet ==
  ASSUME NEW S, NEW s \in Seq(S)
  PROVE  /\ Range(s) \subseteq S
         /\ \A e : e \in Range(s) <=> \E i \in 1..Len(s) : s[i] = e
         /\ s = <<>> <=> Range(s) = {}
         /\ s # <<>> => Last(s) = s[Len(s)] /\ Last(s) \in Range(s) /\ Len(s) \in 1..Len(s)
         /\ DOMAIN s = 1..Len(s) /\ Len(s) \in Nat
BY DEF Range, Last

LEMMA AppendedRange ==
  ASSUME NEW S, NEW s \in Seq(S), NEW x \in S
  PROVE  /\ Append(s, x) \in Seq(S) /\ Append(s, x) # <<>>
         /\ Range(Append(s, x)) = Range(s) \union {x}
         /\ Last(Append(s, x)) = x
         /\ Len(Append(s, x)) = Len(s) + 1
         /\ \A i \in 1..Len(s) : Append(s, x)[i] = s[i]
         /\ Append(s, x)[Len(s) + 1] = x
<1> DEFINE t == Append(s, x)
<1>1. /\ t \in Seq(S) /\ t # <<>> /\ Len(t) = Len(s) + 1 /\ t[Len(s) + 1] = x
      /\ \A i \in 1..Len(s) : t[i] = s[i]
  OBVIOUS
<1>2. Last(t) = x
  BY <1>1 DEF Last
<1> HIDE DEF t
<1>3. 1..Len(t) = 1..Len(s) \union {Len(s) + 1} /\ Len(s) \in Nat
  BY <1>1
<1>4. \A e : e \in Range(t) <=> e \in Range(s) \/ e = x
  <2> TAKE e
  <2>1. e \in Range(t) <=> \E i \in 1..Len(t) : t[i] = e
    BY <1>1, RangeIsSet
  <2>2. e \in Range(s) <=> \E i \in 1..Len(s) : s[i] = e
    BY RangeIsSet
  <2> QED
    BY <1>1, <1>3, <2>1, <2>2
<1> QED
  BY <1>1, <1>2, <1>4 DEF t

LEMMA BetweenIs ==
  ASSUME NEW low \in Nat, NEW high \in 0..MaxEvents
  PROVE  /\ Between(low, high) \in Seq(Events)
         /\ Range(Between(low, high)) = {e \in Nat : low < e /\ e <= high}
         /\ Between(low, high) = <<>> <=> high <= low
         /\ low < high => /\ Last(Between(low, high)) = high
                          /\ Between(low, high)[1] = low + 1
         /\ \A i \in DOMAIN Between(low, high) : /\ Between(low, high)[i] = low + i
                                                 /\ Between(low, high)[i] <= high
<1> DEFINE n == IF high > low THEN high - low ELSE 0
           b == [i \in 1..n |-> low + i]
<1>1. n \in Nat /\ (high > low => low + n = high) /\ (high <= low => n = 0)
  OBVIOUS
<1>2. \A i \in 1..n : low + i \in Events /\ low + i <= high
  BY <1>1, Bounds
<1>3. b \in Seq(Events) /\ Len(b) = n /\ DOMAIN b = 1..n /\ \A i \in 1..n : b[i] = low + i
  <2> HIDE DEF n
  <2>1. b \in [1..n -> Events]
    BY <1>2
  <2> QED
    BY <1>1, <2>1
<1>4. Between(low, high) = b
  BY DEF Between
<1> HIDE DEF n, b
<1>5. \A e : e \in Range(b) <=> e \in {k \in Nat : low < k /\ k <= high}
  <2>1. ASSUME NEW e \in Nat, low < e, e <= high PROVE e \in Range(b)
    <3>1. e - low \in 1..n /\ low + (e - low) = e
      BY <1>1, <2>1
    <3>2. b[e - low] = e
      BY <1>3, <3>1
    <3> QED
      BY <1>3, <3>1, <3>2, RangeIsSet
  <2>2. ASSUME NEW e \in Range(b) PROVE e \in Nat /\ low < e /\ e <= high
    <3>1. PICK i \in 1..n : b[i] = e
      BY <1>3, RangeIsSet
    <3> QED
      BY <1>2, <1>3, <3>1, Bounds
  <2> QED
    BY <2>1, <2>2
<1>6. b = <<>> <=> n = 0
  BY <1>1, <1>3
<1>7. high > low => Last(b) = high /\ b[1] = low + 1
  <2> SUFFICES ASSUME high > low PROVE Last(b) = high /\ b[1] = low + 1
    OBVIOUS
  <2>1. n \in 1..n /\ 1 \in 1..n /\ low + n = high
    BY <1>1 DEF n
  <2> QED
    BY <1>3, <2>1 DEF Last
<1> QED
  BY <1>1, <1>2, <1>3, <1>4, <1>5, <1>6, <1>7 DEF n

-----------------------------------------------------------------------------
(* The inductive invariant *)

\* What was broadcast since the process started, or is about to be.
Told == Range(ring) \union ({pending} \ {0})

\* The channel holds events in the order of their numbers, all of them durable, and
\* the one about to be broadcast comes after them.
RingInOrder ==
  /\ \A i, j \in DOMAIN ring : i < j => ring[i] < ring[j]
  /\ \A i \in DOMAIN ring : ring[i] <= durable /\ (pending # 0 => ring[i] < pending)

\* What a connection has sent or has read to send, and the last of it.
Served(conn) == Range(conn.sent) \union Range(conn.queue)
Edge(conn) == IF conn.queue # <<>> THEN Last(conn.queue)
              ELSE IF conn.sent # <<>> THEN Last(conn.sent) ELSE 0

\* A connection starts with nothing, and a page with an open one has retries left.
FreshIsEmpty(c) ==
  /\ conns[c].pc \in {"closed", "subscribed"} =>
       conns[c].sent = <<>> /\ conns[c].queue = <<>> /\ conns[c].base = 0 /\ conns[c].last = 0
  /\ conns[c].pc = "lagged" => conns[c].queue = <<>> /\ conns[c].lagged
  /\ conns[c].pc # "closed" => pages[c].retry <= MaxRetry

\* What is read to be sent is in order and comes after what was sent; last is the last
\* one sent, except before the first.
QueueInOrder(c) ==
  /\ \A i, j \in DOMAIN conns[c].queue : i < j => conns[c].queue[i] < conns[c].queue[j]
  /\ \A s \in Served(conns[c]) : s <= durable
  /\ conns[c].sent # <<>> => conns[c].last = Last(conns[c].sent)
  /\ conns[c].sent # <<>> => \A q \in Range(conns[c].queue) : Last(conns[c].sent) < q
  /\ Served(conns[c]) = {} => conns[c].last = 0

\* From the floor of the replay, or from the first one served, every event told up to
\* the last one served is served.
ServedIsComplete(c) ==
  \A e \in Told :
    /\ conns[c].pc \in {"streaming", "lagged"}
    /\ e <= Edge(conns[c])
    /\ conns[c].base < e \/ \E s \in Served(conns[c]) : s <= e
    => e \in Served(conns[c])

\* What a connection received from the channel it has served, from the floor of the
\* replay on.
PassedIsServed(c) ==
  \A i \in 1..conns[c].pos :
    /\ conns[c].pc = "streaming"
    /\ conns[c].base < ring[i] \/ Served(conns[c]) # {}
    => Served(conns[c]) # {} /\ ring[i] <= Edge(conns[c])

\* A page that is not misled names an event that exists, and everything the connection
\* finds in the channel comes after it.
ResumeIsKnown(c) ==
  ~ Misled(c) =>
    /\ pages[c].seen <= durable
    /\ conns[c].pc # "closed" =>
         /\ conns[c].resume <= durable
         /\ pending # 0 => conns[c].resume < pending
         /\ \A i \in DOMAIN ring : i > conns[c].pos => conns[c].resume < ring[i]
    /\ ~ conns[c].lagged => \A s \in Served(conns[c]) : conns[c].resume < s

\* The page has seen what its connection sent or, before the first event, resumed from.
SeenCovers(c) ==
  /\ conns[c].sent # <<>> => Last(conns[c].sent) <= pages[c].seen
  /\ conns[c].pc # "closed" /\ conns[c].sent = <<>> => conns[c].resume <= pages[c].seen
  /\ conns[c].base <= MinAllowed \/ conns[c].base = conns[c].resume

\* Of the window a page that is not misled has applied every event told up to the last
\* one it saw.
SeenIsApplied(c) ==
  ~ Misled(c) => \A e \in Told :
    MinAllowed < e /\ e <= pages[c].seen => [seq |-> e, real |-> TRUE] \in Range(pages[c].got)

InOrder(c) ==
  \A i, j \in DOMAIN conns[c].sent : i < j => conns[c].sent[i] < conns[c].sent[j]

Follows(c) ==
  /\ FreshIsEmpty(c)
  /\ QueueInOrder(c)
  /\ ServedIsComplete(c)
  /\ PassedIsServed(c)
  /\ ResumeIsKnown(c)
  /\ SeenCovers(c)
  /\ SeenIsApplied(c)
  /\ InOrder(c)

Stream == TypeOK /\ RingInOrder /\ \A c \in Clients : Follows(c)

-----------------------------------------------------------------------------
(* Connections and pages *)

LEMMA HeadAndTail ==
  ASSUME NEW S, NEW s \in Seq(S), s # <<>>
  PROVE  /\ Head(s) \in S /\ Tail(s) \in Seq(S) /\ Head(s) = s[1] /\ Len(s) \in Nat \ {0}
         /\ Range(s) = {Head(s)} \union Range(Tail(s))
         /\ Len(Tail(s)) = Len(s) - 1
         /\ \A i \in 1..Len(Tail(s)) : i + 1 \in 1..Len(s) /\ Tail(s)[i] = s[i + 1]
         /\ Tail(s) # <<>> => Last(Tail(s)) = Last(s)
         /\ Tail(s) = <<>> => Last(s) = Head(s)
<1>1. /\ Head(s) \in S /\ Tail(s) \in Seq(S) /\ Head(s) = s[1] /\ Len(s) \in Nat \ {0}
      /\ Len(Tail(s)) = Len(s) - 1
      /\ \A i \in 1..Len(Tail(s)) : i + 1 \in 1..Len(s) /\ Tail(s)[i] = s[i + 1]
  OBVIOUS
<1>2. \A e : e \in Range(s) <=> e = Head(s) \/ e \in Range(Tail(s))
  <2> TAKE e
  <2>1. e \in Range(s) <=> \E i \in 1..Len(s) : s[i] = e
    BY RangeIsSet
  <2>2. e \in Range(Tail(s)) <=> \E i \in 1..Len(Tail(s)) : Tail(s)[i] = e
    BY <1>1, RangeIsSet
  <2>3. ASSUME NEW i \in 1..Len(s), i # 1 PROVE i - 1 \in 1..Len(Tail(s)) /\ Tail(s)[i - 1] = s[i]
    BY <1>1, <2>3
  <2>4. 1 \in 1..Len(s)
    BY <1>1
  <2> QED
    BY <1>1, <2>1, <2>2, <2>3, <2>4
<1>3. Tail(s) # <<>> => Last(Tail(s)) = Last(s)
  <2> SUFFICES ASSUME Tail(s) # <<>> PROVE Last(Tail(s)) = Last(s)
    OBVIOUS
  <2>1. Len(Tail(s)) \in 1..Len(Tail(s)) /\ Last(Tail(s)) = Tail(s)[Len(Tail(s))]
    BY <1>1, RangeIsSet
  <2>2. Last(s) = s[Len(s)] /\ Len(Tail(s)) + 1 = Len(s)
    BY <1>1, RangeIsSet
  <2> QED
    BY <1>1, <2>1, <2>2
<1>4. Tail(s) = <<>> => Last(s) = Head(s)
  <2> SUFFICES ASSUME Tail(s) = <<>> PROVE Last(s) = Head(s)
    OBVIOUS
  <2>1. Len(s) = 1
    BY <1>1
  <2>2. Last(s) = s[Len(s)]
    BY RangeIsSet
  <2> QED
    BY <1>1, <2>1, <2>2
<1> QED
  BY <1>1, <1>2, <1>3, <1>4

Ascending(s) == \A i, j \in DOMAIN s : i < j => s[i] < s[j]

LEMMA LastIsGreatest ==
  ASSUME NEW s \in Seq(Events), Ascending(s)
  PROVE  /\ s # <<>> => Last(s) \in Range(s) /\ Last(s) \in Nat
         /\ \A x \in Range(s) : s # <<>> /\ x \in Nat /\ x <= Last(s)
<1>1. \A i, j \in 1..Len(s) : i < j => s[i] < s[j]
  BY DEF Ascending
<1>2. Range(s) \subseteq Events
  BY RangeIsSet
<1>3. s # <<>> => Last(s) \in Range(s) /\ Last(s) \in Nat
  <2>1. s # <<>> => Last(s) \in Range(s)
    BY RangeIsSet
  <2> QED
    BY <1>2, <2>1
<1>4. ASSUME NEW x \in Range(s) PROVE s # <<>> /\ x \in Nat /\ x <= Last(s)
  <2>1. PICK i \in 1..Len(s) : s[i] = x
    BY <1>4, RangeIsSet
  <2>2. s # <<>> /\ x \in Nat
    BY <1>2, <1>4, <2>1
  <2>3. Last(s) = s[Len(s)] /\ Len(s) \in 1..Len(s)
    BY <2>2, RangeIsSet
  <2> QED
    BY SMTT(20), <1>1, <1>3, <2>1, <2>2, <2>3
<1> QED
  BY <1>3, <1>4

LEMMA HeadIsLeast ==
  ASSUME NEW s \in Seq(Events), s # <<>>, Ascending(s)
  PROVE  Ascending(Tail(s)) /\ \A q \in Range(Tail(s)) : q \in Nat /\ Head(s) < q
<1>1. \A i, j \in 1..Len(s) : i < j => s[i] < s[j]
  BY DEF Ascending
<1> DEFINE t == Tail(s)
<1>2. /\ Head(s) = s[1] /\ t \in Seq(Events) /\ Len(s) \in Nat \ {0} /\ Len(t) = Len(s) - 1
      /\ \A i \in 1..Len(t) : i + 1 \in 1..Len(s) /\ t[i] = s[i + 1]
  BY HeadAndTail
<1> HIDE DEF t
<1>3. DOMAIN t = 1..Len(t) /\ Range(t) \subseteq Events /\ Len(t) \in Nat
  BY <1>2, RangeIsSet
<1>4. Ascending(t)
  <2> SUFFICES ASSUME NEW i \in 1..Len(t), NEW j \in 1..Len(t), i < j PROVE t[i] < t[j]
    BY <1>3 DEF Ascending
  <2>1. i + 1 \in 1..Len(s) /\ j + 1 \in 1..Len(s) /\ i + 1 < j + 1
    BY <1>2, <1>3
  <2>2. t[i] = s[i + 1] /\ t[j] = s[j + 1]
    BY <1>2
  <2> QED
    BY <1>1, <2>1, <2>2
<1>5. ASSUME NEW q \in Range(t) PROVE q \in Nat /\ Head(s) < q
  <2>1. PICK i \in 1..Len(t) : t[i] = q
    BY <1>2, <1>5, RangeIsSet
  <2>2. 1 \in 1..Len(s) /\ i + 1 \in 1..Len(s) /\ 1 < i + 1 /\ q = s[i + 1]
    BY SMTT(20), <1>2, <1>3, <2>1
  <2>3. q \in Nat
    BY <1>3, <1>5
  <2> QED
    BY <1>1, <1>2, <2>2, <2>3
<1> QED
  BY <1>4, <1>5 DEF t

\* The types of a connection, its page and the channel.
LEMMA TypesOf ==
  ASSUME TypeOK, NEW c \in Clients
  PROVE  /\ durable \in Nat /\ durable <= MaxEvents /\ pending \in Nat
         /\ ring \in Seq(Events) /\ Range(ring) \subseteq Events /\ Told \subseteq Events
         /\ conns[c] \in Conn /\ conns[c].pos \in 0..Len(ring)
         /\ conns[c].sent \in Seq(Events) /\ conns[c].queue \in Seq(Events)
         /\ Range(conns[c].sent) \subseteq Events /\ Range(conns[c].queue) \subseteq Events
         /\ conns[c].resume \in Nat /\ conns[c].last \in Nat /\ conns[c].base \in Nat
         /\ pages[c] \in Page /\ pages[c].seen \in Nat /\ pages[c].got \in Seq(Applications)
         /\ pages[c].snapshot \in 0..durable /\ MinAllowed \in 0..durable
<1>1. /\ durable \in Nat /\ durable <= MaxEvents /\ pending \in Nat
      /\ ring \in Seq(Events) /\ conns[c] \in Conn /\ pages[c] \in Page
      /\ conns[c].pos <= Len(ring) /\ pages[c].snapshot <= durable
      /\ pending # 0 => pending \in Events
  BY Bounds DEF TypeOK
<1>2. /\ conns[c].sent \in Seq(Events) /\ conns[c].queue \in Seq(Events)
      /\ conns[c].pos \in Nat
      /\ conns[c].resume \in Nat /\ conns[c].last \in Nat /\ conns[c].base \in Nat
  BY <1>1, Bounds DEF Conn
<1>3. pages[c].seen \in Nat /\ pages[c].got \in Seq(Applications) /\ pages[c].snapshot \in Nat
  BY <1>1, Bounds DEF Page
<1>4. Range(ring) \subseteq Events /\ Range(conns[c].sent) \subseteq Events
      /\ Range(conns[c].queue) \subseteq Events
  BY <1>1, <1>2, RangeIsSet
<1>5. Len(ring) \in Nat
  BY <1>1
<1>6. MinAllowed \in 0..durable
  BY <1>1, Bounds DEF MinAllowed
<1>7. Told \subseteq Events
  BY <1>1, <1>4 DEF Told
<1>8. conns[c].pos \in 0..Len(ring) /\ pages[c].snapshot \in 0..durable
  BY SMTT(20), <1>1, <1>2, <1>3, <1>5
<1> QED
  BY <1>1, <1>2, <1>3, <1>4, <1>6, <1>7, <1>8

\* Edge is the greatest of what is served.
LEMMA EdgeIsGreatest ==
  ASSUME TypeOK, NEW c \in Clients, QueueInOrder(c), InOrder(c)
  PROVE  /\ \A s \in Served(conns[c]) : s <= Edge(conns[c])
         /\ Served(conns[c]) # {} => Edge(conns[c]) \in Served(conns[c])
         /\ Served(conns[c]) = {} => Edge(conns[c]) = 0
         /\ Edge(conns[c]) \in 0..durable
         /\ Served(conns[c]) = {} <=> conns[c].sent = <<>> /\ conns[c].queue = <<>>
<1> DEFINE sent == conns[c].sent  queue == conns[c].queue
<1>1. /\ sent \in Seq(Events) /\ queue \in Seq(Events) /\ durable \in Nat
      /\ Range(sent) \subseteq Events /\ Range(queue) \subseteq Events
  BY TypesOf
<1> HIDE DEF sent, queue
<1>2. /\ sent # <<>> => Last(sent) \in Range(sent) /\ Last(sent) \in Nat
      /\ \A s \in Range(sent) : sent # <<>> /\ s \in Nat /\ s <= Last(sent)
  <2>1. Ascending(sent)
    BY DEF InOrder, sent, Ascending
  <2> QED
    BY <1>1, <2>1, LastIsGreatest
<1>3. /\ queue # <<>> => Last(queue) \in Range(queue) /\ Last(queue) \in Nat
      /\ \A s \in Range(queue) : queue # <<>> /\ s \in Nat /\ s <= Last(queue)
  <2>1. Ascending(queue)
    BY DEF QueueInOrder, queue, Ascending
  <2> QED
    BY <1>1, <2>1, LastIsGreatest
<1>4. /\ sent # <<>> => \A q \in Range(queue) : Last(sent) < q
      /\ \A s \in Range(sent) \union Range(queue) : s <= durable
  BY DEF QueueInOrder, Served, sent, queue
<1>5. /\ Edge(conns[c]) = IF queue # <<>> THEN Last(queue) ELSE IF sent # <<>> THEN Last(sent) ELSE 0
      /\ Served(conns[c]) = Range(sent) \union Range(queue)
  BY DEF Edge, Served, sent, queue
<1>6. \A s \in Range(sent) \union Range(queue) : s \in Nat
  BY <1>1
<1>7. \A s \in Served(conns[c]) : s <= Edge(conns[c])
  BY <1>2, <1>3, <1>4, <1>5, <1>6
<1> QED
  BY <1>1, <1>2, <1>3, <1>4, <1>5, <1>6, <1>7 DEF sent, queue

\* One client's connection and page change; the stream does not.
Moves(c) ==
  /\ UNCHANGED <<durable, pending, ring>>
  /\ \A d \in Clients \ {c} : conns'[d] = conns[d] /\ pages'[d] = pages[d]

LEMMA MoveTypes ==
  ASSUME TypeOK, NEW c \in Clients, UNCHANGED <<durable, pending, ring>>,
         NEW k \in Conn, k.pos <= Len(ring), conns' = [conns EXCEPT ![c] = k],
         NEW pg \in Page, pg.snapshot <= durable, pages' = [pages EXCEPT ![c] = pg],
         budget' \in [drops : 0..MaxDrops, unsent : 0..MaxUnsent]
  PROVE  TypeOK' /\ Moves(c) /\ conns'[c] = k /\ pages'[c] = pg
BY DEF TypeOK, Moves

LEMMA OthersFollow ==
  ASSUME NEW c \in Clients, Moves(c), NEW d \in Clients \ {c}, Follows(d)
  PROVE  Follows(d)'
<1>1. conns'[d] = conns[d] /\ pages'[d] = pages[d] /\ UNCHANGED <<durable, pending, ring>>
  BY DEF Moves
<1>2. Told' = Told /\ MinAllowed' = MinAllowed /\ (Misled(d)' <=> Misled(d))
  BY <1>1 DEF Told, MinAllowed, Misled
<1>3. FreshIsEmpty(d)' /\ QueueInOrder(d)' /\ InOrder(d)'
  BY <1>1 DEF Follows, FreshIsEmpty, QueueInOrder, InOrder, Served
<1>4. ServedIsComplete(d)' /\ PassedIsServed(d)'
  BY <1>1, <1>2 DEF Follows, ServedIsComplete, PassedIsServed, Served, Edge
<1>5. ResumeIsKnown(d)' /\ SeenCovers(d)' /\ SeenIsApplied(d)'
  BY <1>1, <1>2 DEF Follows, ResumeIsKnown, SeenCovers, SeenIsApplied, Served
<1> QED
  BY <1>3, <1>4, <1>5 DEF Follows

-----------------------------------------------------------------------------
(* The stream grows *)

\* An event is durable; whether it will be broadcast or not, nobody has seen it.
LEMMA DurableStep ==
  ASSUME Stream, AppendEvent \/ AppendUnsent
  PROVE  Stream'
<1>1. /\ TypeOK /\ RingInOrder /\ durable \in Nat /\ pending = 0 /\ durable + 1 <= MaxEvents
      /\ durable' = durable + 1 /\ pending' \in {0, durable + 1}
      /\ UNCHANGED <<ring, conns, pages>> /\ ring \in Seq(Events)
  BY Bounds DEF Stream, TypeOK, AppendEvent, AppendUnsent
<1>2. TypeOK'
  <2>1. budget' \in [drops : 0..MaxDrops, unsent : 0..MaxUnsent]
    BY <1>1, Bounds DEF TypeOK, AppendEvent, AppendUnsent
  <2>2. \A c \in Clients : pages[c].snapshot \in Nat
    BY <1>1, TypesOf
  <2>3. durable' \in 0..MaxEvents /\ pending' \in {0, durable'}
    BY <1>1, <2>1, Bounds DEF AppendUnsent
  <2> QED
    BY <1>1, <2>1, <2>2, <2>3 DEF TypeOK
<1>3. \A i \in DOMAIN ring : ring[i] \in Nat /\ ring[i] <= durable
  BY SMTT(20), <1>1, RangeIsSet DEF RingInOrder
<1>4. RingInOrder'
  BY <1>1, <1>3 DEF RingInOrder
<1>5. Told' \subseteq Told \union {durable + 1}
  BY <1>1 DEF Told
<1>6. MinAllowed \in Nat /\ MinAllowed' \in Nat /\ MinAllowed <= MinAllowed'
  BY <1>1, Bounds DEF MinAllowed
<1>7. ASSUME NEW c \in Clients PROVE Follows(c)'
  <2>1. Follows(c) /\ conns'[c] = conns[c] /\ pages'[c] = pages[c] /\ (Misled(c)' <=> Misled(c))
    BY <1>1 DEF Stream, Misled
  <2>2. /\ conns[c].resume \in Nat /\ conns[c].base \in Nat /\ pages[c].seen \in Nat
        /\ Served(conns[c]) \subseteq Events /\ Told \subseteq Events
        /\ conns[c].pos \in Nat
    BY <1>1, TypesOf DEF Served
  <2>3. Edge(conns[c]) \in Nat /\ Edge(conns[c]) <= durable
    BY <1>1, <2>1, EdgeIsGreatest DEF Follows
  <2>4. FreshIsEmpty(c)' /\ InOrder(c)'
    BY <2>1 DEF Follows, FreshIsEmpty, InOrder
  <2>5. QueueInOrder(c)'
    BY <1>1, <2>1, <2>2 DEF Follows, QueueInOrder, Served
  <2>6. Edge(conns[c])' = Edge(conns[c]) /\ Served(conns[c])' = Served(conns[c])
    BY <2>1 DEF Edge, Served
  <2>7. ServedIsComplete(c)'
    BY SMTT(20), <1>1, <1>5, <2>1, <2>3, <2>6 DEF Follows, ServedIsComplete
  <2>8. PassedIsServed(c)'
    BY <1>1, <2>1, <2>6 DEF Follows, PassedIsServed
  <2>9. ResumeIsKnown(c)'
    BY <1>1, <2>1, <2>2, <2>6 DEF Follows, ResumeIsKnown
  <2>10. SeenCovers(c)'
    BY <1>1, <1>6, <2>1, <2>2 DEF Follows, SeenCovers
  <2>11. SeenIsApplied(c)'
    BY SMTT(20), <1>1, <1>5, <1>6, <2>1, <2>2 DEF Follows, SeenIsApplied, ResumeIsKnown
  <2> QED
    BY <2>4, <2>5, <2>7, <2>8, <2>9, <2>10, <2>11 DEF Follows
<1> QED
  BY <1>2, <1>4, <1>7 DEF Stream

\* The event is broadcast: it was told already, and it is the last in the channel.
LEMMA PublishStep ==
  ASSUME Stream, PublishEvent
  PROVE  Stream'
<1> DEFINE n == Len(ring)
<1>1. /\ TypeOK /\ RingInOrder /\ durable \in Nat /\ pending # 0 /\ pending = durable
      /\ pending \in Events
      /\ durable' = durable /\ pending' = 0 /\ ring' = Append(ring, pending)
      /\ UNCHANGED <<conns, pages, budget>> /\ ring \in Seq(Events) /\ n \in Nat
  BY Bounds DEF Stream, TypeOK, PublishEvent
<1>2. /\ ring' \in Seq(Events) /\ Len(ring') = n + 1 /\ ring'[n + 1] = pending
      /\ Range(ring') = Range(ring) \union {pending}
      /\ \A i \in 1..n : ring'[i] = ring[i]
      /\ DOMAIN ring = 1..n /\ DOMAIN ring' = 1..(n + 1)
  BY SMTT(20), <1>1, AppendedRange, RangeIsSet
<1>3. TypeOK'
  <2>1. \A c \in Clients : conns[c].pos \in Nat
    BY <1>1, TypesOf
  <2> QED
    BY <1>1, <1>2, <2>1 DEF TypeOK
<1>4. 1..(n + 1) = 1..n \union {n + 1}
  BY <1>1
<1>5. \A i \in 1..n : ring[i] \in Nat /\ ring[i] < pending
  <2>1. \A i \in 1..n : ring[i] \in Nat
    BY <1>1
  <2> QED
    BY <1>1, <1>2, <2>1 DEF RingInOrder
<1>6. RingInOrder'
  BY <1>1, <1>2, <1>4, <1>5 DEF RingInOrder
<1>7. Told' = Told /\ MinAllowed' = MinAllowed
  BY <1>1, <1>2 DEF Told, MinAllowed
<1>8. ASSUME NEW c \in Clients PROVE Follows(c)'
  <2>1. Follows(c) /\ conns'[c] = conns[c] /\ pages'[c] = pages[c] /\ (Misled(c)' <=> Misled(c))
    BY <1>1 DEF Stream, Misled
  <2>2. conns[c].pos \in 0..n /\ conns[c].resume \in Nat
    BY <1>1, TypesOf
  <2>3. FreshIsEmpty(c)' /\ InOrder(c)'
    BY <2>1 DEF Follows, FreshIsEmpty, InOrder
  <2>4. QueueInOrder(c)'
    BY <1>1, <2>1 DEF Follows, QueueInOrder, Served
  <2>5. Edge(conns[c])' = Edge(conns[c]) /\ Served(conns[c])' = Served(conns[c])
    BY <2>1 DEF Edge, Served
  <2>6. ServedIsComplete(c)'
    BY <1>7, <2>1, <2>5 DEF Follows, ServedIsComplete
  <2>7. PassedIsServed(c)'
    <3>1. \A i \in 1..conns[c].pos : ring'[i] = ring[i]
      BY <1>2, <2>2
    <3> QED
      BY <2>1, <2>5, <3>1 DEF Follows, PassedIsServed
  <2>8. ResumeIsKnown(c)'
    BY <1>1, <1>2, <1>4, <2>1, <2>2, <2>5 DEF Follows, ResumeIsKnown
  <2>9. SeenCovers(c)' /\ SeenIsApplied(c)'
    BY <1>7, <2>1 DEF Follows, SeenCovers, SeenIsApplied
  <2> QED
    BY <2>3, <2>4, <2>6, <2>7, <2>8, <2>9 DEF Follows
<1> QED
  BY <1>3, <1>6, <1>8 DEF Stream

\* A page without a connection follows, when it has applied what it saw.
LEMMA ClosedFollows ==
  ASSUME NEW c \in Clients, conns[c] = NoConn, SeenIsApplied(c),
         ~ Misled(c) => pages[c].seen <= durable, MinAllowed \in Nat
  PROVE  Follows(c)
<1>1. /\ conns[c].pc = "closed" /\ conns[c].sent = <<>> /\ conns[c].queue = <<>>
      /\ conns[c].base = 0 /\ conns[c].last = 0 /\ conns[c].lagged = FALSE
      /\ conns[c].pos = 0
  BY DEF NoConn
<1>2. Served(conns[c]) = {}
  BY <1>1 DEF Served, Range
<1>3. FreshIsEmpty(c) /\ QueueInOrder(c) /\ InOrder(c)
  BY <1>1, <1>2, RangeIsSet DEF FreshIsEmpty, QueueInOrder, InOrder
<1>4. ServedIsComplete(c) /\ PassedIsServed(c) /\ ResumeIsKnown(c) /\ SeenCovers(c)
  BY <1>1, <1>2 DEF ServedIsComplete, PassedIsServed, ResumeIsKnown, SeenCovers
<1> QED
  BY <1>3, <1>4 DEF Follows

LEMMA ClosedFollowsNext ==
  (\A c \in Clients :
     /\ conns[c] = NoConn /\ SeenIsApplied(c) /\ MinAllowed \in Nat
     /\ ~ Misled(c) => pages[c].seen <= durable
     => Follows(c))'
<1>1. \A c \in Clients :
        /\ conns[c] = NoConn /\ SeenIsApplied(c) /\ MinAllowed \in Nat
        /\ ~ Misled(c) => pages[c].seen <= durable
        => Follows(c)
  BY ClosedFollows
<1> QED
  BY <1>1, PTL

LEMMA NoConnType == NoConn \in Conn
BY Bounds DEF NoConn, Conn

\* A page counts a retry; what it saw and applied stays.
LEMMA RetryCounted ==
  ASSUME TypeOK, NEW c \in Clients, FreshIsEmpty(c), conns[c].pc # "closed"
  PROVE  LET pg == [pages[c] EXCEPT !.retry = @ + 1] IN
         /\ pg \in Page /\ pg.seen = pages[c].seen /\ pg.got = pages[c].got
         /\ pg.snapshot = pages[c].snapshot
<1>1. pages[c] \in Page /\ pages[c].retry <= MaxRetry
  BY TypesOf DEF FreshIsEmpty
<1>2. pages[c].retry + 1 \in 0..(MaxRetry + 1)
  BY <1>1, Bounds DEF Page
<1> QED
  BY <1>1, <1>2 DEF Page

LEMMA DropCounted ==
  ASSUME TypeOK, budget.drops < MaxDrops, budget' = [budget EXCEPT !.drops = @ + 1]
  PROVE  budget' \in [drops : 0..MaxDrops, unsent : 0..MaxUnsent]
<1>1. budget.drops + 1 \in 0..MaxDrops /\ budget \in [drops : 0..MaxDrops, unsent : 0..MaxUnsent]
  BY Bounds DEF TypeOK
<1> QED
  BY <1>1

LEMMA RestartStep ==
  ASSUME Stream, Restart
  PROVE  Stream'
<1>1. /\ TypeOK /\ durable' = durable /\ pending' = 0 /\ ring' = <<>>
      /\ durable \in Nat /\ MinAllowed' \in Nat
      /\ conns' = [c \in Clients |-> NoConn]
  BY Bounds DEF Stream, TypeOK, Restart, MinAllowed
<1>2. \A c \in Clients : /\ pages'[c] \in Page /\ pages'[c].seen = pages[c].seen
                         /\ pages'[c].got = pages[c].got
                         /\ pages'[c].snapshot = pages[c].snapshot
  <2> TAKE c \in Clients
  <2>1. pages'[c] = IF conns[c].pc = "closed" THEN pages[c]
                    ELSE [pages[c] EXCEPT !.retry = @ + 1]
    BY DEF Restart
  <2>2. FreshIsEmpty(c) /\ pages[c] \in Page
    BY <1>1, TypesOf DEF Stream, Follows
  <2> QED
    BY <1>1, <2>1, <2>2, RetryCounted
<1>3. TypeOK'
  <2>1. budget' \in [drops : 0..MaxDrops, unsent : 0..MaxUnsent]
    BY <1>1, DropCounted DEF Restart
  <2>2. conns' \in [Clients -> Conn] /\ \A c \in Clients : conns'[c].pos <= Len(ring')
    BY <1>1, NoConnType DEF NoConn
  <2>3. pages' \in [Clients -> Page]
    BY <1>2 DEF Restart
  <2> QED
    BY SMTT(20), <1>1, <1>2, <2>1, <2>2, <2>3 DEF TypeOK
<1>4. RingInOrder'
  BY <1>1 DEF RingInOrder
<1>5. Told' = {}
  BY <1>1 DEF Told, Range
<1>6. ASSUME NEW c \in Clients PROVE Follows(c)'
  <2>1. Misled(c)' <=> Misled(c)
    BY <1>2 DEF Misled
  <2>2. ~ Misled(c)' => pages'[c].seen <= durable'
    BY <1>1, <1>2, <2>1 DEF Stream, Follows, ResumeIsKnown
  <2>3. SeenIsApplied(c)' /\ conns'[c] = NoConn
    BY <1>1, <1>5 DEF SeenIsApplied
  <2> QED
    BY <1>1, <2>2, <2>3, ClosedFollowsNext
<1> QED
  BY <1>3, <1>4, <1>6 DEF Stream

-----------------------------------------------------------------------------
(* Connections open, close and replay *)

LEMMA OneFollows ==
  ASSUME Stream, NEW c \in Clients, Moves(c), TypeOK', Follows(c)'
  PROVE  Stream'
<1>1. RingInOrder'
  BY DEF Stream, Moves, RingInOrder
<1>2. \A d \in Clients : Follows(d)'
  BY OthersFollow DEF Stream
<1> QED
  BY <1>1, <1>2 DEF Stream

\* A connection is over; the page counts it, or learns of a number that is not real.
LEMMA CloseStep ==
  ASSUME Stream, NEW c \in Clients, UNCHANGED <<durable, pending, ring>>,
         conns' = [conns EXCEPT ![c] = NoConn],
         NEW pg \in Page, pg.snapshot = pages[c].snapshot, pages' = [pages EXCEPT ![c] = pg],
         budget' \in [drops : 0..MaxDrops, unsent : 0..MaxUnsent],
         \/ pg.seen = pages[c].seen /\ pg.got = pages[c].got
         \/ \E i \in DOMAIN pg.got : ~ pg.got[i].real
  PROVE  Stream'
<1>1. TypeOK /\ Follows(c) /\ pages[c].snapshot <= durable /\ MinAllowed \in Nat
  BY TypesOf DEF Stream
<1>2. NoConn \in Conn /\ NoConn.pos <= Len(ring) /\ pg.snapshot <= durable
  <2>1. NoConn.pos = 0 /\ Len(ring) \in Nat
    BY <1>1, TypesOf DEF NoConn
  <2> QED
    BY <1>1, <2>1, NoConnType
<1>3. TypeOK' /\ Moves(c) /\ conns'[c] = NoConn /\ pages'[c] = pg
  BY <1>1, <1>2, MoveTypes
<1>4. MinAllowed' \in Nat /\ Told' = Told /\ MinAllowed' = MinAllowed
  BY <1>1 DEF MinAllowed, Told
<1>5. SeenIsApplied(c)' /\ (~ Misled(c)' => pages'[c].seen <= durable')
  <2>1. CASE pg.seen = pages[c].seen /\ pg.got = pages[c].got
    BY <1>1, <1>3, <1>4, <2>1 DEF Follows, SeenIsApplied, ResumeIsKnown, Misled
  <2>2. CASE \E i \in DOMAIN pg.got : ~ pg.got[i].real
    BY <1>3, <2>2 DEF SeenIsApplied, Misled
  <2> QED
    BY <2>1, <2>2
<1>6. Follows(c)'
  BY <1>3, <1>4, <1>5, ClosedFollowsNext
<1> QED
  BY <1>3, <1>6, OneFollows

LEMMA AppliedIs ==
  ASSUME NEW page \in Page, NEW seq \in 1..(MaxEvents + 1), NEW real \in BOOLEAN
  PROVE  LET pg == Applied(page, seq, real) IN
         /\ pg \in Page /\ pg.snapshot = page.snapshot /\ pg.retry = page.retry
         /\ pg.hydration = page.hydration
         /\ \/ seq # 1 /\ seq <= page.seen /\ pg = page
            \/ /\ seq = 1 \/ page.seen < seq
               /\ pg.seen = seq /\ pg.got = Append(page.got, [seq |-> seq, real |-> real])
<1>1. seq \in 0..(MaxEvents + 1) /\ page.seen \in Nat
  BY Bounds DEF Page
<1>2. Append(page.got, [seq |-> seq, real |-> real]) \in Seq(Applications)
  BY DEF Page, Applications
<1>3. CASE seq # 1 /\ seq <= page.seen
  BY <1>3 DEF Applied
<1>4. CASE ~ (seq # 1 /\ seq <= page.seen)
  <2>1. Applied(page, seq, real) =
          [page EXCEPT !.seen = seq, !.got = Append(@, [seq |-> seq, real |-> real])]
    BY <1>4 DEF Applied
  <2>2. seq = 1 \/ page.seen < seq
    BY <1>1, <1>4
  <2> QED
    BY <1>1, <1>2, <2>1, <2>2 DEF Page
<1> QED
  BY <1>3, <1>4

LEMMA DropStep ==
  ASSUME Stream, NEW c \in Clients, Drop(c)
  PROVE  Stream'
<1> DEFINE pg == [pages[c] EXCEPT !.retry = @ + 1]
<1>1. TypeOK /\ FreshIsEmpty(c)
  BY DEF Stream, Follows
<1>2. pg \in Page /\ pg.seen = pages[c].seen /\ pg.got = pages[c].got
      /\ pg.snapshot = pages[c].snapshot
  BY <1>1, RetryCounted DEF Drop
<1>3. budget' \in [drops : 0..MaxDrops, unsent : 0..MaxUnsent]
  BY <1>1, DropCounted DEF Drop
<1>4. /\ UNCHANGED <<durable, pending, ring>> /\ conns' = [conns EXCEPT ![c] = NoConn]
      /\ pages' = [pages EXCEPT ![c] = pg]
  BY <1>1 DEF Drop, SetConn, TypeOK
<1> HIDE DEF pg
<1> QED
  BY <1>2, <1>3, <1>4, CloseStep

LEMMA ConnectStep ==
  ASSUME Stream, NEW c \in Clients, Connect(c)
  PROVE  Stream'
<1> DEFINE k == [NoConn EXCEPT !.pc = "subscribed", !.resume = pages[c].seen, !.pos = Len(ring)]
<1>1. /\ TypeOK /\ Follows(c) /\ pending = 0 /\ pages[c].retry <= MaxRetry
      /\ UNCHANGED <<durable, pending, ring, pages, budget>>
      /\ conns' = [conns EXCEPT ![c] = k]
  BY DEF Stream, Connect, SetConn, SubscribeAllowed, Subscription
<1>2. /\ pages[c] \in Page /\ pages[c].snapshot <= durable /\ ring \in Seq(Events)
      /\ pages[c].seen \in Nat /\ MinAllowed \in Nat
  BY <1>1, TypesOf
<1>3. /\ k \in Conn /\ k.pc = "subscribed" /\ k.resume = pages[c].seen /\ k.pos = Len(ring)
      /\ k.sent = <<>> /\ k.queue = <<>> /\ k.base = 0 /\ k.last = 0 /\ k.lagged = FALSE
  <2>1. pages[c].seen \in 0..(MaxEvents + 1) /\ Len(ring) \in Nat
    BY <1>2 DEF Page
  <2>2. NoConn \in Conn
    BY NoConnType
  <2>3. k \in Conn
    BY <2>1, <2>2 DEF Conn
  <2> QED
    BY <2>2, <2>3 DEF Conn, NoConn
<1>4. pages' = [pages EXCEPT ![c] = pages[c]] /\ Len(ring) <= Len(ring)
      /\ budget' \in [drops : 0..MaxDrops, unsent : 0..MaxUnsent]
  BY <1>1, <1>2 DEF TypeOK
<1> HIDE DEF k
<1>5. TypeOK' /\ Moves(c) /\ conns'[c] = k /\ pages'[c] = pages[c]
  BY <1>1, <1>2, <1>3, <1>4, MoveTypes
<1>6. Served(k) = {} /\ MinAllowed' = MinAllowed /\ Told' = Told /\ (Misled(c)' <=> Misled(c))
  BY <1>1, <1>3, <1>5 DEF Served, Range, MinAllowed, Told, Misled
<1>7. FreshIsEmpty(c)' /\ QueueInOrder(c)' /\ InOrder(c)'
  BY <1>1, <1>3, <1>5, <1>6 DEF FreshIsEmpty, QueueInOrder, InOrder, Served, Range
<1>8. ServedIsComplete(c)' /\ PassedIsServed(c)'
  BY <1>3, <1>5 DEF ServedIsComplete, PassedIsServed
<1>9. ResumeIsKnown(c)'
  BY SMTT(20), <1>1, <1>2, <1>3, <1>5, <1>6, RangeIsSet DEF Follows, ResumeIsKnown, Served
<1>10. SeenCovers(c)' /\ SeenIsApplied(c)'
  BY <1>1, <1>2, <1>3, <1>5, <1>6 DEF Follows, SeenCovers, SeenIsApplied
<1>11. Follows(c)'
  BY <1>7, <1>8, <1>9, <1>10 DEF Follows
<1> QED
  BY <1>5, <1>11, OneFollows

\* What was told is in the channel or about to be; the channel is in order.
LEMMA ToldIs ==
  ASSUME Stream
  PROVE  /\ \A e \in Told : e \in Nat /\ e <= durable
         /\ \A i \in 1..Len(ring) : ring[i] \in Told /\ ring[i] \in Nat /\ ring[i] <= durable
         /\ \A i, j \in 1..Len(ring) : i < j => ring[i] < ring[j]
         /\ \A e \in Told : \/ \E i \in 1..Len(ring) : ring[i] = e
                            \/ e = pending /\ \A i \in 1..Len(ring) : ring[i] < e
         /\ Len(ring) \in Nat /\ DOMAIN ring = 1..Len(ring)
<1>1. /\ ring \in Seq(Events) /\ RingInOrder /\ pending \in {0, durable} /\ durable \in Nat
  BY Bounds DEF Stream, TypeOK
<1>2. /\ DOMAIN ring = 1..Len(ring) /\ Len(ring) \in Nat
      /\ \A e : e \in Range(ring) <=> \E i \in 1..Len(ring) : ring[i] = e
      /\ Range(ring) \subseteq Events
  BY <1>1, RangeIsSet
<1>3. \A i \in 1..Len(ring) : ring[i] \in Range(ring) /\ ring[i] \in Nat /\ ring[i] <= durable
                              /\ (pending # 0 => ring[i] < pending)
  <2> TAKE i \in 1..Len(ring)
  <2>1. ring[i] \in Range(ring)
    BY <1>2
  <2>2. ring[i] \in Nat
    BY <1>2, <2>1
  <2> QED
    BY <1>1, <1>2, <2>1, <2>2 DEF RingInOrder
<1>4. \A i, j \in 1..Len(ring) : i < j => ring[i] < ring[j]
  BY <1>1, <1>2 DEF RingInOrder
<1>5. \A e : e \in Told <=> e \in Range(ring) \/ (e = pending /\ pending # 0)
  BY DEF Told
<1> QED
  BY SMTT(20), <1>1, <1>2, <1>3, <1>4, <1>5

\* The transcript behind an event, read by a connection that has sent nothing.
LEMMA ReadReplayStep ==
  ASSUME Stream, NEW c \in Clients, ReadReplay(c)
  PROVE  Stream'
<1> DEFINE base == ReplayFloor(c)  replay == Between(base, durable)
           k == [conns[c] EXCEPT !.pc = "streaming", !.queue = replay, !.base = base,
                                 !.last = IF replay = <<>> THEN 0 ELSE Last(replay)]
<1>1. /\ TypeOK /\ Follows(c) /\ conns[c].pc = "subscribed"
      /\ UNCHANGED <<durable, pending, ring, budget>>
      /\ budget \in [drops : 0..MaxDrops, unsent : 0..MaxUnsent]
  BY DEF Stream, ReadReplay, TypeOK
<1>2. /\ conns[c] \in Conn /\ pages[c] \in Page /\ pages[c].snapshot <= durable
      /\ conns[c].resume \in Nat /\ MinAllowed \in 0..durable /\ durable \in 0..MaxEvents
      /\ Told \subseteq Events /\ ring \in Seq(Events) /\ conns[c].pos \in 0..Len(ring)
      /\ conns \in [Clients -> Conn] /\ pages \in [Clients -> Page]
  BY <1>1, TypesOf DEF TypeOK
<1>3. CASE conns[c].resume # 0 /\ OutsideWindow(conns[c].resume)
  <2> DEFINE pg == [pages[c] EXCEPT !.retry = @ + 1]
  <2>1. pg \in Page /\ pg.seen = pages[c].seen /\ pg.got = pages[c].got
        /\ pg.snapshot = pages[c].snapshot
    BY <1>1, RetryCounted DEF Follows
  <2>2. conns' = [conns EXCEPT ![c] = NoConn] /\ pages' = [pages EXCEPT ![c] = pg]
    BY <1>2, <1>3 DEF ReadReplay, SetConn
  <2> HIDE DEF pg
  <2> QED
    BY <1>1, <2>1, <2>2, CloseStep
<1>4. CASE ~ (conns[c].resume # 0 /\ OutsideWindow(conns[c].resume))
  <2>1. conns' = [conns EXCEPT ![c] = k] /\ UNCHANGED pages
    BY <1>4 DEF ReadReplay, SetConn
  <2>2. /\ base \in Nat /\ base \in 0..(MaxEvents + 1)
        /\ base = MinAllowed \/ base = conns[c].resume
        /\ conns[c].resume <= base
    BY <1>2, Bounds DEF ReplayFloor, Conn
  <2> HIDE DEF base
  <2>3. /\ replay \in Seq(Events)
        /\ Range(replay) = {e \in Nat : base < e /\ e <= durable}
        /\ replay = <<>> <=> durable <= base
        /\ base < durable => Last(replay) = durable
        /\ \A i \in DOMAIN replay : replay[i] = base + i
    BY <1>2, <2>2, BetweenIs
  <2>4. DOMAIN replay \subseteq Nat
    BY <2>3, RangeIsSet
  <2> HIDE DEF replay
  <2>5. (IF replay = <<>> THEN 0 ELSE Last(replay)) \in 0..(MaxEvents + 1)
    BY <1>2, <2>2, <2>3, Bounds
  <2>6. /\ k \in Conn /\ k.pc = "streaming" /\ k.queue = replay /\ k.base = base
        /\ k.last = (IF replay = <<>> THEN 0 ELSE Last(replay))
        /\ k.resume = conns[c].resume /\ k.pos = conns[c].pos /\ k.sent = conns[c].sent
        /\ k.lagged = conns[c].lagged
    BY <1>2, <2>2, <2>3, <2>5 DEF Conn
  <2>7. conns[c].sent = <<>>
    BY <1>1 DEF Follows, FreshIsEmpty
  <2> HIDE DEF k
  <2>8. pages' = [pages EXCEPT ![c] = pages[c]] /\ k.pos <= Len(ring)
    BY <1>2, <2>1, <2>6
  <2>9. TypeOK' /\ Moves(c) /\ conns'[c] = k /\ pages'[c] = pages[c]
    BY <1>1, <1>2, <2>1, <2>6, <2>8, MoveTypes
  <2>10. /\ Served(k) = {e \in Nat : base < e /\ e <= durable}
         /\ replay # <<>> => Edge(k) = durable
         /\ replay = <<>> => Edge(k) = 0 /\ Served(k) = {}
    <3>1. Range(<<>>) = {}
      BY DEF Range
    <3> QED
      BY <1>2, <2>2, <2>3, <2>6, <2>7, <3>1 DEF Served, Edge
  <2>11. MinAllowed' = MinAllowed /\ Told' = Told /\ (Misled(c)' <=> Misled(c))
    BY <1>1, <2>9 DEF MinAllowed, Told, Misled
  <2>12. \A e \in Told : e \in Nat /\ e <= durable
    BY ToldIs
  <2>13. \A i \in 1..conns[c].pos : ring[i] \in Nat /\ ring[i] <= durable
    <3>1. Len(ring) \in Nat
      BY <1>2
    <3>2. \A i \in 1..conns[c].pos : i \in 1..Len(ring)
      BY <1>2, <3>1
    <3> QED
      BY <3>2, ToldIs
  <2>14. FreshIsEmpty(c)'
    BY <1>1, <2>6, <2>9 DEF Follows, FreshIsEmpty
  <2>15. QueueInOrder(c)'
    <3>1. \A i, j \in DOMAIN replay : i < j => replay[i] < replay[j]
      BY <2>2, <2>3, <2>4
    <3>2. \A s \in Served(k) : s <= durable
      BY <2>10
    <3>3. Served(k) = {} => k.last = 0
      BY <1>2, <2>2, <2>3, <2>6, <2>10
    <3> QED
      BY <1>1, <2>6, <2>7, <2>9, <3>1, <3>2, <3>3 DEF QueueInOrder, Served
  <2>16. InOrder(c)'
    BY <1>1, <2>6, <2>9 DEF Follows, InOrder
  <2>17. ServedIsComplete(c)'
    <3> SUFFICES ASSUME NEW e \in Told, e <= Edge(k), base < e \/ \E s \in Served(k) : s <= e
                 PROVE  e \in Served(k)
      BY <2>6, <2>9, <2>11 DEF ServedIsComplete, Served, Edge
    <3> QED
      BY <2>2, <2>10, <2>12
  <2>18. PassedIsServed(c)'
    <3> SUFFICES ASSUME NEW i \in 1..k.pos, base < ring[i] \/ Served(k) # {}
                 PROVE  Served(k) # {} /\ ring[i] <= Edge(k)
      BY <1>1, <2>6, <2>9 DEF PassedIsServed, Served, Edge
    <3>1. ring[i] \in Nat /\ ring[i] <= durable
      BY <2>6, <2>13
    <3>2. base < durable
      BY SMTT(20), <1>2, <2>2, <2>10, <3>1
    <3>3. durable \in Served(k) /\ Edge(k) = durable
      BY <1>2, <2>2, <2>3, <2>10, <3>2
    <3> QED
      BY <3>1, <3>3
  <2>19. ResumeIsKnown(c)'
    <3>1. \A s \in Served(k) : k.resume < s
      BY <1>2, <2>2, <2>6, <2>10
    <3> QED
      BY <1>1, <2>6, <2>9, <2>11, <3>1 DEF Follows, ResumeIsKnown, Served
  <2>20. SeenCovers(c)' /\ SeenIsApplied(c)'
    BY <1>1, <1>2, <2>2, <2>6, <2>7, <2>9, <2>11 DEF Follows, SeenCovers, SeenIsApplied
  <2>21. Follows(c)'
    BY <2>14, <2>15, <2>16, <2>17, <2>18, <2>19, <2>20 DEF Follows
  <2> QED
    BY <2>9, <2>21, OneFollows
<1> QED
  BY <1>3, <1>4

-----------------------------------------------------------------------------
(* Connections send *)

\* Connection c becomes k, which has sent seq; nothing told is between seq and what was
\* sent before it.
Sends(c, seq, k) ==
  /\ conns[c].pc = "streaming" /\ UNCHANGED <<durable, pending, ring, budget>>
  /\ k.pc = "streaming" /\ k.resume = conns[c].resume /\ k.base = conns[c].base
  /\ k.lagged = conns[c].lagged /\ k.last = seq /\ k.sent = Append(conns[c].sent, seq)
  /\ conns[c].pos <= k.pos /\ k.pos <= Len(ring)
  /\ conns' = [conns EXCEPT ![c] = k]
  /\ pages' = [pages EXCEPT ![c] = Applied(pages[c], seq, TRUE)]
  /\ seq <= durable
  /\ conns[c].sent # <<>> => Last(conns[c].sent) < seq
  /\ \A q \in Range(k.queue) : seq < q /\ q <= durable
  /\ \A i, j \in DOMAIN k.queue : i < j => k.queue[i] < k.queue[j]
  /\ \A e \in Told : e < seq /\ (conns[c].base < e \/ conns[c].sent # <<>>) =>
       conns[c].sent # <<>> /\ e <= Last(conns[c].sent)
  /\ ~ Misled(c) /\ ~ conns[c].lagged => conns[c].resume < seq

LEMMA SendStep ==
  ASSUME Stream, NEW c \in Clients, NEW seq \in Events, NEW k \in Conn, Sends(c, seq, k)
  PROVE  /\ TypeOK' /\ Moves(c) /\ conns'[c] = k
         /\ FreshIsEmpty(c)' /\ QueueInOrder(c)' /\ ResumeIsKnown(c)' /\ SeenCovers(c)'
         /\ SeenIsApplied(c)' /\ InOrder(c)'
<1> DEFINE pg == Applied(pages[c], seq, TRUE)  sent == conns[c].sent
<1>1. /\ TypeOK /\ Follows(c) /\ conns[c] \in Conn /\ pages[c] \in Page
      /\ pages[c].snapshot <= durable /\ conns[c].pos \in Nat /\ durable \in Nat
      /\ sent \in Seq(Events) /\ Range(sent) \subseteq Events /\ MinAllowed \in Nat
      /\ pages[c].seen \in Nat /\ conns[c].resume \in Nat /\ conns[c].base \in Nat
      /\ pages[c].got \in Seq(Applications) /\ Told \subseteq Events /\ ring \in Seq(Events)
  BY SMTT(20), TypesOf DEF Stream
<1>2. seq \in 1..(MaxEvents + 1) /\ seq \in Nat
  BY Bounds
<1>3. /\ pg \in Page /\ pg.snapshot = pages[c].snapshot /\ pg.retry = pages[c].retry
      /\ \/ seq # 1 /\ seq <= pages[c].seen /\ pg = pages[c]
         \/ /\ seq = 1 \/ pages[c].seen < seq
            /\ pg.seen = seq /\ pg.got = Append(pages[c].got, [seq |-> seq, real |-> TRUE])
  BY <1>1, <1>2, AppliedIs
<1> HIDE DEF pg
<1>4. pages' = [pages EXCEPT ![c] = pg] /\ pg.snapshot <= durable
      /\ budget' \in [drops : 0..MaxDrops, unsent : 0..MaxUnsent]
  BY <1>1, <1>3 DEF Sends, pg, TypeOK
<1>5. TypeOK' /\ Moves(c) /\ conns'[c] = k /\ pages'[c] = pg
  <2>1. /\ UNCHANGED <<durable, pending, ring>> /\ k.pos <= Len(ring)
        /\ conns' = [conns EXCEPT ![c] = k]
    BY DEF Sends
  <2> QED
    BY <1>1, <1>3, <1>4, <2>1, MoveTypes
<1>6. /\ k.sent \in Seq(Events) /\ k.sent # <<>> /\ Range(k.sent) = Range(sent) \union {seq}
      /\ Last(k.sent) = seq /\ Len(k.sent) = Len(sent) + 1 /\ k.sent[Len(sent) + 1] = seq
      /\ \A i \in 1..Len(sent) : k.sent[i] = sent[i]
      /\ DOMAIN k.sent = 1..(Len(sent) + 1) /\ DOMAIN sent = 1..Len(sent) /\ Len(sent) \in Nat
  <2>1. k.sent = Append(sent, seq)
    BY DEF Sends
  <2> HIDE DEF sent
  <2>2. /\ k.sent \in Seq(Events) /\ k.sent # <<>> /\ Range(k.sent) = Range(sent) \union {seq}
        /\ Last(k.sent) = seq /\ Len(k.sent) = Len(sent) + 1 /\ k.sent[Len(sent) + 1] = seq
        /\ \A i \in 1..Len(sent) : k.sent[i] = sent[i]
    <3>1. sent \in Seq(Events) /\ seq \in Events
      BY <1>1
    <3>2. /\ Append(sent, seq) \in Seq(Events) /\ Append(sent, seq) # <<>>
          /\ Range(Append(sent, seq)) = Range(sent) \union {seq}
          /\ Last(Append(sent, seq)) = seq
          /\ Len(Append(sent, seq)) = Len(sent) + 1
          /\ \A i \in 1..Len(sent) : Append(sent, seq)[i] = sent[i]
          /\ Append(sent, seq)[Len(sent) + 1] = seq
      BY <3>1, AppendedRange
    <3> QED
      BY <2>1, <3>2
  <2>3. DOMAIN k.sent = 1..Len(k.sent) /\ DOMAIN sent = 1..Len(sent) /\ Len(sent) \in Nat
    BY <1>1, <2>2, RangeIsSet
  <2> QED
    BY <2>2, <2>3
<1>7. MinAllowed' = MinAllowed /\ Told' = Told /\ UNCHANGED <<durable, pending, ring>>
  BY DEF MinAllowed, Told, Sends
<1>8. pg.got = pages[c].got \/ pg.got = Append(pages[c].got, [seq |-> seq, real |-> TRUE])
  BY <1>3
<1>9. Range(pages[c].got) \subseteq Range(pg.got) /\ (Misled(c)' <=> Misled(c))
  <2> DEFINE got == pages[c].got  x == [seq |-> seq, real |-> TRUE]
  <2>1. x \in Applications /\ x.real
    BY <1>2 DEF Applications
  <2>2. DOMAIN got = 1..Len(got) /\ Len(got) \in Nat
    BY <1>1, RangeIsSet
  <2>3. CASE pg.got = got
    BY <1>5, <2>3 DEF Misled
  <2>4. CASE pg.got = Append(got, x)
    <3> HIDE DEF got, x
    <3>1. /\ Range(pg.got) = Range(got) \union {x}
          /\ \A i \in 1..Len(got) : pg.got[i] = got[i]
          /\ pg.got[Len(got) + 1] = x
          /\ DOMAIN pg.got = 1..(Len(got) + 1)
      BY SMTT(20), <1>1, <2>1, <2>4, AppendedRange, RangeIsSet DEF got
    <3>2. 1..(Len(got) + 1) = 1..Len(got) \union {Len(got) + 1}
      BY <2>2
    <3>3. (\E i \in DOMAIN pg.got : ~ pg.got[i].real) <=> (\E i \in DOMAIN got : ~ got[i].real)
      BY <2>1, <2>2, <3>1, <3>2
    <3> QED
      BY <1>5, <3>1, <3>3 DEF Misled, got
  <2> QED
    BY <1>8, <2>3, <2>4
<1>10. seq <= pg.seen /\ (pg.seen = pages[c].seen \/ pg.seen = seq)
       /\ (pages[c].seen <= pg.seen \/ seq = 1)
  BY <1>1, <1>2, <1>3
<1>11. FreshIsEmpty(c)'
  BY <1>1, <1>3, <1>5 DEF Follows, FreshIsEmpty, Sends
<1>12. Served(k) = Range(sent) \union {seq} \union Range(k.queue)
  BY <1>6 DEF Served
<1>13. QueueInOrder(c)'
  <2>1. \A s \in Served(k) : s <= durable
    <3>1. \A s \in Range(sent) : s <= durable
      BY <1>1 DEF Follows, QueueInOrder, Served
    <3> QED
      BY <1>12, <3>1 DEF Sends
  <2>2. Served(k) # {}
    BY <1>12
  <2> QED
    BY <1>5, <1>6, <1>7, <2>1, <2>2 DEF QueueInOrder, Sends, Served
<1>14. ResumeIsKnown(c)'
  <2> SUFFICES ASSUME ~ Misled(c) PROVE
        /\ pg.seen <= durable
        /\ k.resume <= durable
        /\ pending # 0 => k.resume < pending
        /\ \A i \in DOMAIN ring : i > k.pos => k.resume < ring[i]
        /\ ~ k.lagged => \A s \in Served(k) : k.resume < s
    BY <1>5, <1>7, <1>9 DEF ResumeIsKnown, Served
  <2>1. /\ pages[c].seen <= durable /\ conns[c].resume <= durable
        /\ pending # 0 => conns[c].resume < pending
        /\ \A i \in DOMAIN ring : i > conns[c].pos => conns[c].resume < ring[i]
        /\ ~ conns[c].lagged => \A s \in Range(sent) : conns[c].resume < s
    BY <1>1 DEF Follows, ResumeIsKnown, Sends, Served
  <2>2. pg.seen <= durable
    BY <1>3, <2>1 DEF Sends
  <2>3. \A i \in DOMAIN ring : i > k.pos => i > conns[c].pos
    <3>1. k.pos \in Nat /\ DOMAIN ring = 1..Len(ring) /\ Len(ring) \in Nat
      BY <1>1 DEF Conn
    <3>2. conns[c].pos <= k.pos
      BY DEF Sends
    <3> QED
      BY SMTT(20), <1>1, <3>1, <3>2
  <2>4. ~ k.lagged => \A s \in Served(k) : k.resume < s
    <3>1. Range(k.queue) \subseteq Nat
      <4>1. k.queue \in Seq(Events)
        BY DEF Conn
      <4> QED
        BY <4>1, RangeIsSet
    <3> QED
      BY <1>1, <1>2, <1>12, <2>1, <3>1 DEF Sends
  <2> QED
    BY <2>1, <2>2, <2>3, <2>4 DEF Sends
<1>15. SeenCovers(c)'
  BY <1>1, <1>5, <1>6, <1>7, <1>10 DEF Follows, SeenCovers, Sends
<1>16. InOrder(c)'
  <2>1. \A i, j \in 1..Len(sent) : i < j => sent[i] < sent[j]
    BY <1>1, <1>6 DEF Follows, InOrder
  <2>2. \A i \in 1..Len(sent) : sent[i] < seq
    <3> TAKE i \in 1..Len(sent)
    <3>1. sent # <<>> /\ sent[i] \in Nat
      <4> HIDE DEF sent
      <4>1. sent \in Seq(Events)
        BY <1>1
      <4> QED
        BY <4>1
    <3>2. Last(sent) = sent[Len(sent)] /\ Len(sent) \in 1..Len(sent)
      <4> HIDE DEF sent
      <4> QED BY <1>1, <3>1, RangeIsSet
    <3>3. sent[Len(sent)] \in Nat
      <4> HIDE DEF sent
      <4> QED BY <1>1, <3>2
    <3>4. Last(sent) < seq
      BY <3>1 DEF Sends
    <3>5. i < Len(sent) \/ i = Len(sent)
      BY <1>6
    <3>6. i < Len(sent) => sent[i] < sent[Len(sent)]
      BY <2>1, <3>2
    <3> HIDE DEF sent
    <3> QED
      BY <1>2, <3>1, <3>2, <3>3, <3>4, <3>5, <3>6
  <2>3. 1..(Len(sent) + 1) = 1..Len(sent) \union {Len(sent) + 1}
    BY SMTT(20), <1>6
  <2>4. \A i, j \in 1..(Len(sent) + 1) : i < j => k.sent[i] < k.sent[j]
    <3> TAKE i, j \in 1..(Len(sent) + 1)
    <3> HIDE DEF sent
    <3>1. CASE i \in 1..Len(sent) /\ j \in 1..Len(sent)
      BY <1>6, <2>1, <3>1
    <3>2. CASE i \in 1..Len(sent) /\ j = Len(sent) + 1
      BY <1>6, <2>2, <3>2
    <3>3. CASE i = Len(sent) + 1
      BY <1>6, <3>3
    <3> QED
      BY <2>3, <3>1, <3>2, <3>3
  <2> QED
    BY <1>5, <1>6, <2>4 DEF InOrder
<1>17. SeenIsApplied(c)'
  <2> SUFFICES ASSUME ~ Misled(c), NEW e \in Told, MinAllowed < e, e <= pg.seen
               PROVE  [seq |-> e, real |-> TRUE] \in Range(pg.got)
    BY <1>5, <1>7, <1>9 DEF SeenIsApplied
  <2>1. e <= pages[c].seen => [seq |-> e, real |-> TRUE] \in Range(pages[c].got)
    BY <1>1 DEF Follows, SeenIsApplied
  <2>2. CASE e <= pages[c].seen
    BY <1>9, <2>1, <2>2
  <2>3. CASE e = seq /\ pg.got = Append(pages[c].got, [seq |-> seq, real |-> TRUE])
    <3>1. [seq |-> seq, real |-> TRUE] \in Applications
      BY <1>2 DEF Applications
    <3> QED
      BY <1>1, <2>3, <3>1, AppendedRange
  <2>4. CASE pages[c].seen < e /\ e < seq
    <3>1. /\ sent # <<>> => Last(sent) <= pages[c].seen
          /\ sent = <<>> => conns[c].resume <= pages[c].seen
          /\ conns[c].base <= MinAllowed \/ conns[c].base = conns[c].resume
      BY <1>1 DEF Follows, SeenCovers, Sends
    <3>2. e \in Nat /\ (sent # <<>> => Last(sent) \in Nat)
      BY SMTT(20), <1>1, RangeIsSet
    <3>3. sent = <<>> => conns[c].base < e
      BY <1>1, <2>4, <3>1, <3>2
    <3>4. sent # <<>> /\ e <= Last(sent)
      BY <2>4, <3>3 DEF Sends
    <3> QED
      BY <1>1, <2>4, <3>1, <3>2, <3>4
  <2>5. e \in Nat
    BY <1>1
  <2> QED
    BY SMTT(20), <1>1, <1>2, <1>3, <2>2, <2>3, <2>4, <2>5
<1> QED
  BY <1>5, <1>11, <1>13, <1>14, <1>15, <1>16, <1>17

\* The next event read from the transcript.
LEMMA SendReplayedStep ==
  ASSUME Stream, NEW c \in Clients, SendReplayed(c)
  PROVE  Stream'
<1> DEFINE queue == conns[c].queue  sent == conns[c].sent  seq == Head(queue)
           k == [[conns[c] EXCEPT !.queue = Tail(queue)] EXCEPT
                   !.last = seq, !.sent = Append(sent, seq)]
<1>1. /\ TypeOK /\ Follows(c) /\ conns[c].pc = "streaming" /\ queue # <<>>
      /\ UNCHANGED <<durable, pending, ring, budget>>
      /\ conns' = [conns EXCEPT ![c] = k]
      /\ pages' = [pages EXCEPT ![c] = Applied(@, seq, TRUE)]
  BY DEF Stream, SendReplayed, Send, SetConn
<1>2. /\ conns[c] \in Conn /\ sent \in Seq(Events) /\ queue \in Seq(Events) /\ durable \in Nat
      /\ conns[c].pos \in 0..Len(ring) /\ ring \in Seq(Events) /\ Range(sent) \subseteq Events
      /\ Range(queue) \subseteq Events /\ conns[c].base \in Nat /\ conns[c].resume \in Nat
      /\ pages \in [Clients -> Page] /\ Told \subseteq Events
  BY <1>1, TypesOf DEF TypeOK
<1>3. /\ seq \in Events /\ Tail(queue) \in Seq(Events)
      /\ Range(queue) = {seq} \union Range(Tail(queue))
      /\ Tail(queue) # <<>> => Last(Tail(queue)) = Last(queue)
      /\ Tail(queue) = <<>> => Last(queue) = seq
      /\ seq = queue[1] /\ Len(queue) \in Nat \ {0} /\ Len(Tail(queue)) = Len(queue) - 1
      /\ \A i \in 1..Len(Tail(queue)) : i + 1 \in 1..Len(queue) /\ Tail(queue)[i] = queue[i + 1]
      /\ DOMAIN queue = 1..Len(queue)
  <2> HIDE DEF queue
  <2>1. queue \in Seq(Events) /\ queue # <<>>
    BY <1>1, <1>2
  <2> QED
    BY SMTT(20), <2>1, HeadAndTail, RangeIsSet
<1>4. DOMAIN Tail(queue) = 1..Len(Tail(queue)) /\ Len(Tail(queue)) \in Nat
  <2> HIDE DEF queue
  <2> QED BY <1>3, RangeIsSet
<1>5. Append(sent, seq) \in Seq(Events) /\ seq \in 0..(MaxEvents + 1) /\ seq \in Nat
  <2> HIDE DEF sent, seq
  <2> QED BY <1>2, <1>3, Bounds
<1>6. /\ k \in Conn /\ k.pc = "streaming" /\ k.resume = conns[c].resume /\ k.base = conns[c].base
      /\ k.lagged = conns[c].lagged /\ k.last = seq /\ k.sent = Append(sent, seq)
      /\ k.queue = Tail(queue) /\ k.pos = conns[c].pos
  <2> HIDE DEF sent, seq, queue
  <2> QED BY <1>1, <1>2, <1>3, <1>5 DEF Conn
<1> HIDE DEF k
<1>7. Ascending(queue) /\ Ascending(sent)
  BY <1>1 DEF Follows, QueueInOrder, InOrder, Ascending
<1>8. \A i, j \in DOMAIN Tail(queue) : i < j => Tail(queue)[i] < Tail(queue)[j]
  <2> HIDE DEF queue
  <2> QED BY <1>1, <1>2, <1>7, HeadIsLeast DEF Ascending
<1>9. \A q \in Range(Tail(queue)) : q \in Nat /\ seq < q
  <2> HIDE DEF queue
  <2> QED BY <1>1, <1>2, <1>7, HeadIsLeast
<1>10. \A s \in Range(sent) \union Range(queue) : s <= durable
  BY <1>1 DEF Follows, QueueInOrder, Served
<1>11. sent # <<>> => Last(sent) < seq
  BY <1>1, <1>3 DEF Follows, QueueInOrder
<1>12. ASSUME NEW e \in Told, e < seq, conns[c].base < e \/ sent # <<>>
       PROVE  sent # <<>> /\ e <= Last(sent)
  <2>1. /\ e \in Nat /\ seq \in Served(conns[c]) /\ Served(conns[c]) = Range(sent) \union Range(queue)
        /\ seq <= Edge(conns[c]) /\ Edge(conns[c]) \in Nat
    <3>1. e \in Nat
      BY <1>2
    <3>2. Served(conns[c]) = Range(sent) \union Range(queue) /\ seq \in Served(conns[c])
      BY <1>3 DEF Served
    <3> HIDE DEF seq, queue, sent
    <3>3. \A s \in Served(conns[c]) : s <= Edge(conns[c])
      BY <1>1, EdgeIsGreatest DEF Follows
    <3>4. Edge(conns[c]) \in 0..durable
      BY <1>1, EdgeIsGreatest DEF Follows
    <3> QED
      BY <1>2, <3>1, <3>2, <3>3, <3>4
  <2>2. e <= Edge(conns[c])
    BY <1>5, <1>12, <2>1
  <2>3. /\ sent # <<>> => Last(sent) \in Range(sent) /\ Last(sent) \in Nat
        /\ \A s \in Range(sent) : s \in Nat /\ s <= Last(sent)
    <3> HIDE DEF sent
    <3> QED BY <1>2, <1>7, LastIsGreatest
  <2>4. e \in Served(conns[c]) => sent # <<>> /\ e <= Last(sent)
    <3> SUFFICES ASSUME e \in Served(conns[c]) PROVE sent # <<>> /\ e <= Last(sent)
      OBVIOUS
    <3>1. \A q \in Range(queue) : q \in Nat /\ seq <= q
      <4> HIDE DEF seq, queue
      <4> QED BY <1>3, <1>5, <1>9
    <3>2. e \in Range(sent)
      BY <1>5, <1>12, <2>1, <3>1
    <3>3. sent # <<>>
      BY <3>2 DEF Range
    <3> QED
      BY <2>3, <3>2, <3>3
  <2>5. CASE conns[c].base < e
    BY <1>1, <2>2, <2>4, <2>5 DEF Follows, ServedIsComplete
  <2>6. CASE sent # <<>> /\ Last(sent) <= e
    BY <1>1, <2>1, <2>2, <2>3, <2>4, <2>6 DEF Follows, ServedIsComplete
  <2>7. CASE sent # <<>> /\ e < Last(sent)
    BY <2>1, <2>3, <2>7
  <2> QED
    BY <1>12, <2>1, <2>3, <2>5, <2>6, <2>7
<1>13. ~ Misled(c) /\ ~ conns[c].lagged => conns[c].resume < seq
  BY <1>1, <1>3 DEF Follows, ResumeIsKnown, Served
<1>14. Sends(c, seq, k)
  <2>1. pages' = [pages EXCEPT ![c] = Applied(pages[c], seq, TRUE)]
    BY <1>1, <1>2
  <2>2. conns[c].pos <= k.pos /\ k.pos <= Len(ring) /\ seq <= durable
    <3> HIDE DEF seq, queue
    <3>1. conns[c].pos \in Nat /\ conns[c].pos <= Len(ring)
      BY <1>2
    <3> QED
      BY SMTT(20), <1>3, <1>6, <1>10, <3>1
  <2>3. \A q \in Range(k.queue) : seq < q /\ q <= durable
    BY <1>3, <1>6, <1>9, <1>10
  <2> HIDE DEF seq, queue
  <2> QED
    BY <1>1, <1>6, <1>8, <1>11, <1>12, <1>13, <2>1, <2>2, <2>3 DEF Sends
<1>15. /\ TypeOK' /\ Moves(c) /\ conns'[c] = k
       /\ FreshIsEmpty(c)' /\ QueueInOrder(c)' /\ ResumeIsKnown(c)' /\ SeenCovers(c)'
       /\ SeenIsApplied(c)' /\ InOrder(c)'
  BY <1>3, <1>6, <1>14, SendStep
<1>16. Served(k) = Served(conns[c]) /\ Edge(k) = Edge(conns[c])
  <2>1. Range(k.sent) = Range(sent) \union {seq} /\ Last(k.sent) = seq /\ k.sent # <<>>
    <3> HIDE DEF sent, seq
    <3>1. /\ Append(sent, seq) # <<>>
          /\ Range(Append(sent, seq)) = Range(sent) \union {seq}
          /\ Last(Append(sent, seq)) = seq
      <4>1. sent \in Seq(Events) /\ seq \in Events
        BY <1>2, <1>3
      <4> QED
        BY SMTT(20), <4>1, AppendedRange
    <3> QED
      BY <1>6, <3>1
  <2>2. Served(k) = Served(conns[c])
    BY <1>3, <1>6, <2>1 DEF Served
  <2>3. Edge(k) = Edge(conns[c])
    BY <1>1, <1>3, <1>6, <2>1 DEF Edge
  <2> QED
    BY <2>2, <2>3
<1>17. ServedIsComplete(c)' /\ PassedIsServed(c)'
  <2>1. Told' = Told /\ ring' = ring
    BY <1>1 DEF Told
  <2>2. Served(conns[c])' = Served(conns[c]) /\ Edge(conns[c])' = Edge(conns[c])
        /\ conns'[c].pc = "streaming" /\ conns'[c].base = conns[c].base
        /\ conns'[c].pos = conns[c].pos
    BY <1>6, <1>15, <1>16 DEF Served, Edge
  <2>3. ServedIsComplete(c)'
    BY <1>1, <2>1, <2>2 DEF Follows, ServedIsComplete
  <2> QED
    BY <1>1, <2>1, <2>2, <2>3 DEF Follows, PassedIsServed
<1>18. Follows(c)'
  BY <1>15, <1>17 DEF Follows
<1> QED
  BY <1>15, <1>18, OneFollows

\* When nothing is left to send from the transcript, what is served was sent.
LEMMA NothingQueued ==
  ASSUME TypeOK, NEW c \in Clients, Follows(c), conns[c].queue = <<>>
  PROVE  /\ Served(conns[c]) = Range(conns[c].sent)
         /\ conns[c].sent = <<>> => Served(conns[c]) = {} /\ conns[c].last = 0
                                    /\ Edge(conns[c]) = 0
         /\ conns[c].sent # <<>> => /\ Served(conns[c]) # {}
                                    /\ conns[c].last = Last(conns[c].sent)
                                    /\ Edge(conns[c]) = Last(conns[c].sent)
         /\ Edge(conns[c]) = conns[c].last /\ Edge(conns[c]) \in 0..durable
         /\ \A s \in Range(conns[c].sent) : s \in Nat /\ s <= Edge(conns[c])
<1>1. Range(<<>>) = {} /\ QueueInOrder(c) /\ InOrder(c)
  BY DEF Range, Follows
<1>2. Served(conns[c]) = Range(conns[c].sent)
  BY <1>1 DEF Served
<1>3. Served(conns[c]) = {} <=> conns[c].sent = <<>>
  BY <1>1, EdgeIsGreatest
<1>4. conns[c].sent # <<>> => conns[c].last = Last(conns[c].sent)
  BY <1>1 DEF QueueInOrder
<1>5. Served(conns[c]) = {} => conns[c].last = 0
  BY <1>1 DEF QueueInOrder
<1>6. Edge(conns[c]) = IF conns[c].sent # <<>> THEN Last(conns[c].sent) ELSE 0
  BY DEF Edge
<1>7. Edge(conns[c]) \in 0..durable /\ \A s \in Served(conns[c]) : s <= Edge(conns[c])
  BY <1>1, EdgeIsGreatest
<1>8. Range(conns[c].sent) \subseteq Events
  BY TypesOf
<1> QED
  BY <1>2, <1>3, <1>4, <1>5, <1>6, <1>7, <1>8

LEMMA Positions ==
  ASSUME NEW pos \in Nat, NEW n \in Nat, pos < n
  PROVE  /\ pos + 1 \in 1..n /\ pos + 1 \in Nat /\ pos <= pos + 1 /\ pos + 1 <= n
         /\ pos < pos + 1
         /\ \A i \in 1..pos : i \in 1..n /\ i < pos + 1
         /\ 1..(pos + 1) = 1..pos \union {pos + 1}
         /\ \A i \in 1..n : i \in 1..pos \/ i = pos + 1 \/ pos + 1 < i
         /\ \A i \in 1..n : i > pos + 1 => i > pos
OBVIOUS

\* The next event of the channel is sent, or was served from the transcript.
LEMMA ReceiveBroadcastStep ==
  ASSUME Stream, NEW c \in Clients, ReceiveBroadcast(c)
  PROVE  Stream'
<1> DEFINE sent == conns[c].sent  seq == ring[conns[c].pos + 1]
<1>1. /\ TypeOK /\ Follows(c) /\ conns[c].pc = "streaming" /\ conns[c].queue = <<>>
      /\ conns[c].pos < Len(ring)
      /\ UNCHANGED <<durable, pending, ring, budget>>
      /\ budget \in [drops : 0..MaxDrops, unsent : 0..MaxUnsent]
  BY DEF Stream, ReceiveBroadcast, TypeOK
<1>2. /\ conns[c] \in Conn /\ sent \in Seq(Events) /\ durable \in Nat /\ pages[c] \in Page
      /\ conns[c].pos \in Nat /\ ring \in Seq(Events) /\ conns[c].base \in Nat
      /\ pages \in [Clients -> Page] /\ Told \subseteq Events /\ pages[c].snapshot <= durable
  BY SMTT(20), <1>1, TypesOf DEF TypeOK
<1>3. /\ conns[c].pos + 1 \in 1..Len(ring) /\ seq \in Events /\ seq \in Nat /\ 0 < seq
      /\ seq <= durable /\ seq \in 0..(MaxEvents + 1) /\ Len(ring) \in Nat
  <2>1. Len(ring) \in Nat
    BY <1>2
  <2>2. conns[c].pos + 1 \in 1..Len(ring)
    BY SMTT(20), <1>1, <1>2, <2>1
  <2>3. seq \in Events /\ seq <= durable
    BY <1>2, <2>2, ToldIs
  <2> QED
    BY <2>1, <2>2, <2>3, Bounds
<1> HIDE DEF seq
<1>4. /\ Served(conns[c]) = Range(sent)
      /\ sent = <<>> => Served(conns[c]) = {} /\ conns[c].last = 0 /\ Edge(conns[c]) = 0
      /\ sent # <<>> => Served(conns[c]) # {} /\ conns[c].last = Last(sent)
                        /\ Edge(conns[c]) = Last(sent)
      /\ Edge(conns[c]) \in Nat
      /\ \A s \in Range(sent) : s \in Nat /\ s <= Edge(conns[c])
  <2>1. durable \in Nat
    BY <1>2
  <2> QED
    BY SMTT(20), <1>1, <2>1, NothingQueued
<1>5. /\ conns[c].pos + 1 \in Nat /\ conns[c].pos <= conns[c].pos + 1
      /\ conns[c].pos < conns[c].pos + 1 /\ conns[c].pos + 1 <= Len(ring)
      /\ \A i \in 1..conns[c].pos : i \in 1..Len(ring) /\ i < conns[c].pos + 1
      /\ 1..(conns[c].pos + 1) = 1..conns[c].pos \union {conns[c].pos + 1}
      /\ \A i \in 1..Len(ring) : i \in 1..conns[c].pos \/ i = conns[c].pos + 1
                                                      \/ conns[c].pos + 1 < i
      /\ \A i \in 1..Len(ring) : i > conns[c].pos + 1 => i > conns[c].pos
  <2>1. conns[c].pos \in Nat /\ Len(ring) \in Nat /\ conns[c].pos < Len(ring)
    BY <1>1, <1>2
  <2> QED
    BY <2>1, Positions
<1>6. ASSUME NEW i \in 1..conns[c].pos
      PROVE  /\ ring[i] < seq /\ ring[i] \in Nat
             /\ conns[c].base < ring[i] \/ Served(conns[c]) # {} =>
                  Served(conns[c]) # {} /\ ring[i] <= Edge(conns[c])
  <2>1. i \in 1..Len(ring) /\ i < conns[c].pos + 1
    BY <1>5
  <2>2. ring[i] < seq /\ ring[i] \in Nat
    BY <1>3, <2>1, ToldIs DEF seq
  <2> QED
    BY <1>1, <2>2 DEF Follows, PassedIsServed
<1>7. CASE ShouldEmit(conns[c].last, seq)
  <2> DEFINE k == [[conns[c] EXCEPT !.pos = @ + 1] EXCEPT !.last = seq, !.sent = Append(sent, seq)]
  <2>1. /\ conns' = [conns EXCEPT ![c] = k]
        /\ pages' = [pages EXCEPT ![c] = Applied(pages[c], seq, TRUE)]
    BY <1>2, <1>7 DEF ReceiveBroadcast, Send, SetConn, seq
  <2>2. Append(sent, seq) \in Seq(Events) /\ conns[c].pos + 1 \in Nat
    <3> HIDE DEF sent
    <3> QED BY <1>2, <1>3
  <2>3. /\ k \in Conn /\ k.pc = "streaming" /\ k.resume = conns[c].resume /\ k.base = conns[c].base
        /\ k.lagged = conns[c].lagged /\ k.last = seq /\ k.sent = Append(sent, seq)
        /\ k.queue = <<>> /\ k.pos = conns[c].pos + 1
    <3> HIDE DEF sent
    <3> QED BY <1>1, <1>2, <1>3, <2>2 DEF Conn
  <2> HIDE DEF k
  <2>4. conns[c].last < seq
    BY <1>3, <1>7 DEF ShouldEmit
  <2>5. ASSUME NEW e \in Told, e < seq, conns[c].base < e \/ sent # <<>>
        PROVE  sent # <<>> /\ e <= Last(sent)
    <3>1. PICK i \in 1..Len(ring) : ring[i] = e
      <4>1. (\A i \in 1..Len(ring) : ring[i] < e) => seq < e
        BY <1>3 DEF seq
      <4>2. e \in Nat
        BY <1>2
      <4>3. ~ (seq < e)
        BY <1>3, <2>5, <4>2
      <4> QED
        BY <4>1, <4>3, ToldIs
    <3>2. i # conns[c].pos + 1
      BY <1>3, <2>5, <3>1 DEF seq
    <3>3. ~ (conns[c].pos + 1 < i)
      <4>1. conns[c].pos + 1 < i => seq < e
        BY <1>3, <3>1, ToldIs DEF seq
      <4> QED
        BY SMTT(20), <1>2, <1>3, <2>5, <4>1
    <3>4. i \in 1..conns[c].pos
      BY <1>5, <3>2, <3>3
    <3> QED
      BY <1>4, <1>6, <2>5, <3>1, <3>4
  <2>6. Sends(c, seq, k)
    <3>1. conns[c].pos <= k.pos /\ k.pos <= Len(ring)
      BY <1>5, <2>3
    <3>2. \A q \in Range(k.queue) : seq < q /\ q <= durable
      BY <2>3 DEF Range
    <3>3. \A i, j \in DOMAIN k.queue : i < j => k.queue[i] < k.queue[j]
      BY <2>3
    <3>4. ~ Misled(c) => conns[c].resume < seq
      <4>1. DOMAIN ring = 1..Len(ring) /\ conns[c].pos + 1 > conns[c].pos
        BY <1>2
      <4> QED
        BY <1>1, <1>3, <4>1 DEF Follows, ResumeIsKnown, seq
    <3> QED
      BY <1>1, <1>3, <1>4, <2>1, <2>3, <2>4, <2>5, <3>1, <3>2, <3>3, <3>4 DEF Sends
  <2>7. /\ TypeOK' /\ Moves(c) /\ conns'[c] = k
        /\ FreshIsEmpty(c)' /\ QueueInOrder(c)' /\ ResumeIsKnown(c)' /\ SeenCovers(c)'
        /\ SeenIsApplied(c)' /\ InOrder(c)'
    BY <1>3, <2>3, <2>6, SendStep
  <2>8. Served(k) = Range(sent) \union {seq} /\ Edge(k) = seq
    <3>1. /\ Append(sent, seq) # <<>>
          /\ Range(Append(sent, seq)) = Range(sent) \union {seq}
          /\ Last(Append(sent, seq)) = seq
      <4> HIDE DEF sent
      <4>1. sent \in Seq(Events) /\ seq \in Events
        BY <1>2, <1>3
      <4> QED
        BY SMTT(20), <4>1, AppendedRange
    <3>2. Range(<<>>) = {}
      BY DEF Range
    <3> QED
      BY <2>3, <3>1, <3>2 DEF Served, Edge
  <2>9. ServedIsComplete(c)'
    <3> SUFFICES ASSUME NEW e \in Told, e <= seq, k.base < e \/ \E s \in Served(k) : s <= e, e # seq
                 PROVE  e \in Range(sent)
      BY <1>1, <2>7, <2>8 DEF ServedIsComplete, Served, Edge, Told
    <3>1. e \in Nat /\ e < seq
      BY <1>2, <1>3
    <3>2. conns[c].base < e \/ \E s \in Range(sent) : s <= e
      BY <1>3, <2>3, <2>8, <3>1
    <3>3. \A s \in Range(sent) : sent # <<>>
      BY DEF Range
    <3>4. sent # <<>> /\ e <= Last(sent)
      BY <2>5, <3>1, <3>2, <3>3
    <3> QED
      BY <1>1, <1>4, <3>2, <3>4 DEF Follows, ServedIsComplete
  <2>10. PassedIsServed(c)'
    <3>1. 1..k.pos = 1..conns[c].pos \union {conns[c].pos + 1}
      BY <1>5, <2>3
    <3>2. \A i \in 1..k.pos : ring[i] <= seq
      BY <1>3, <1>6, <3>1 DEF seq
    <3> QED
      BY <1>1, <2>7, <2>8, <3>2 DEF PassedIsServed, Served, Edge
  <2>11. Follows(c)'
    BY <2>7, <2>9, <2>10 DEF Follows
  <2> QED
    BY <2>7, <2>11, OneFollows
<1>8. CASE ~ ShouldEmit(conns[c].last, seq)
  <2> DEFINE k == [conns[c] EXCEPT !.pos = @ + 1]
  <2>1. conns' = [conns EXCEPT ![c] = k] /\ pages' = [pages EXCEPT ![c] = pages[c]]
    BY <1>2, <1>8 DEF ReceiveBroadcast, SetConn, seq
  <2>2. /\ k \in Conn /\ k.pos = conns[c].pos + 1 /\ k.pos <= Len(ring)
        /\ k.pc = conns[c].pc /\ k.resume = conns[c].resume /\ k.base = conns[c].base
        /\ k.lagged = conns[c].lagged /\ k.last = conns[c].last /\ k.sent = conns[c].sent
        /\ k.queue = conns[c].queue
    BY <1>2, <1>5 DEF Conn
  <2> HIDE DEF k
  <2>3. TypeOK' /\ Moves(c) /\ conns'[c] = k /\ pages'[c] = pages[c]
    BY <1>1, <1>2, <2>1, <2>2, MoveTypes
  <2>4. sent # <<>> /\ seq <= Edge(conns[c])
    BY <1>3, <1>4, <1>8 DEF ShouldEmit
  <2>5. /\ Served(conns[c])' = Served(conns[c]) /\ Edge(conns[c])' = Edge(conns[c])
        /\ Told' = Told /\ MinAllowed' = MinAllowed /\ (Misled(c)' <=> Misled(c))
    BY <1>1, <2>2, <2>3 DEF Served, Edge, Told, MinAllowed, Misled
  <2>6. PassedIsServed(c)'
    <3>1. 1..k.pos = 1..conns[c].pos \union {conns[c].pos + 1}
      BY <1>5, <2>2
    <3>2. \A i \in 1..k.pos : ring[i] <= Edge(conns[c])
      BY <1>4, <1>6, <2>4, <3>1 DEF seq
    <3> QED
      BY <1>1, <1>4, <2>3, <2>4, <2>5, <3>2 DEF PassedIsServed
  <2>7. ResumeIsKnown(c)'
    <3>1. \A i \in DOMAIN ring : i > k.pos => i > conns[c].pos
      <4>1. DOMAIN ring = 1..Len(ring)
        BY <1>2
      <4> QED
        BY <1>5, <2>2, <4>1
    <3> QED
      BY <1>1, <2>2, <2>3, <2>5, <3>1 DEF Follows, ResumeIsKnown
  <2>8. FreshIsEmpty(c)' /\ QueueInOrder(c)' /\ InOrder(c)' /\ ServedIsComplete(c)'
    BY <1>1, <2>2, <2>3, <2>5
       DEF Follows, FreshIsEmpty, QueueInOrder, InOrder, ServedIsComplete
  <2>9. SeenCovers(c)' /\ SeenIsApplied(c)'
    BY <1>1, <2>2, <2>3, <2>5 DEF Follows, SeenCovers, SeenIsApplied
  <2>10. Follows(c)'
    BY <2>6, <2>7, <2>8, <2>9 DEF Follows
  <2> QED
    BY <2>3, <2>10, OneFollows
<1> QED
  BY <1>7, <1>8

LEMMA Overtaken ==
  ASSUME NEW pos \in Nat, NEW n \in Nat, n - pos > Capacity
  PROVE  n - Capacity \in Nat /\ pos < n - Capacity /\ n - Capacity <= n
BY Bounds

\* The channel has overtaken the connection.
LEMMA ReceiveLaggedStep ==
  ASSUME Stream, NEW c \in Clients, ReceiveLagged(c)
  PROVE  Stream'
<1> DEFINE k == [conns[c] EXCEPT !.pc = "lagged", !.pos = Len(ring) - Capacity, !.lagged = TRUE]
<1>1. /\ TypeOK /\ Follows(c) /\ conns[c].pc = "streaming" /\ conns[c].queue = <<>>
      /\ Len(ring) - conns[c].pos > Capacity
      /\ UNCHANGED <<durable, pending, ring, pages, budget>>
      /\ budget \in [drops : 0..MaxDrops, unsent : 0..MaxUnsent]
      /\ conns' = [conns EXCEPT ![c] = k]
  BY DEF Stream, ReceiveLagged, TypeOK, Lagging, SetConn
<1>2. /\ conns[c] \in Conn /\ pages[c] \in Page /\ pages[c].snapshot <= durable
      /\ conns[c].pos \in Nat /\ ring \in Seq(Events) /\ pages \in [Clients -> Page]
  BY <1>1, TypesOf DEF TypeOK
<1>3. Len(ring) - Capacity \in Nat /\ conns[c].pos < Len(ring) - Capacity
      /\ Len(ring) - Capacity <= Len(ring)
  <2>1. Len(ring) \in Nat
    BY <1>2
  <2> QED
    BY <1>1, <1>2, <2>1, Overtaken
<1>4. /\ k \in Conn /\ k.pos = Len(ring) - Capacity /\ k.pc = "lagged" /\ k.lagged = TRUE
      /\ k.resume = conns[c].resume /\ k.base = conns[c].base
      /\ k.last = conns[c].last /\ k.sent = conns[c].sent /\ k.queue = conns[c].queue
  BY <1>2, <1>3 DEF Conn
<1> HIDE DEF k
<1>5. pages' = [pages EXCEPT ![c] = pages[c]]
  BY <1>1, <1>2
<1>6. TypeOK' /\ Moves(c) /\ conns'[c] = k /\ pages'[c] = pages[c]
  BY <1>1, <1>2, <1>3, <1>4, <1>5, MoveTypes
<1>7. /\ Served(conns[c])' = Served(conns[c]) /\ Edge(conns[c])' = Edge(conns[c])
      /\ Told' = Told /\ MinAllowed' = MinAllowed /\ (Misled(c)' <=> Misled(c))
  BY <1>1, <1>4, <1>6 DEF Served, Edge, Told, MinAllowed, Misled
<1>8. FreshIsEmpty(c)' /\ QueueInOrder(c)' /\ InOrder(c)' /\ ServedIsComplete(c)'
  BY <1>1, <1>4, <1>6, <1>7
     DEF Follows, FreshIsEmpty, QueueInOrder, InOrder, ServedIsComplete
<1>9. PassedIsServed(c)'
  BY <1>4, <1>6 DEF PassedIsServed
<1>10. ResumeIsKnown(c)'
  <2>1. \A i \in DOMAIN ring : i > k.pos => i > conns[c].pos
    <3>1. \A i \in Nat : i > Len(ring) - Capacity => i > conns[c].pos
      BY <1>2, <1>3
    <3>2. DOMAIN ring \subseteq Nat
      BY <1>2
    <3> QED
      BY <1>4, <3>1, <3>2
  <2> QED
    BY <1>1, <1>4, <1>6, <1>7, <2>1 DEF Follows, ResumeIsKnown
<1>11. SeenCovers(c)' /\ SeenIsApplied(c)'
  BY <1>1, <1>4, <1>6, <1>7 DEF Follows, SeenCovers, SeenIsApplied
<1>12. Follows(c)'
  BY <1>8, <1>9, <1>10, <1>11 DEF Follows
<1> QED
  BY <1>6, <1>12, OneFollows

\* What was missed is read from the transcript, or the stream ends with an error event.
LEMMA RecoverStep ==
  ASSUME Stream, NEW c \in Clients, Recover(c)
  PROVE  Stream'
<1> DEFINE last == conns[c].last  sent == conns[c].sent  missed == Between(last, durable)
<1>1. /\ TypeOK /\ Follows(c) /\ conns[c].pc = "lagged" /\ conns[c].queue = <<>>
      /\ conns[c].lagged
      /\ UNCHANGED <<durable, pending, ring, budget>>
      /\ budget \in [drops : 0..MaxDrops, unsent : 0..MaxUnsent]
  BY DEF Stream, Recover, TypeOK, Follows, FreshIsEmpty
<1>2. /\ conns[c] \in Conn /\ pages[c] \in Page /\ pages[c].snapshot <= durable
      /\ conns[c].pos \in Nat /\ conns[c].pos <= Len(ring) /\ Told \subseteq Events
      /\ pages \in [Clients -> Page] /\ durable \in 0..MaxEvents /\ durable \in Nat
  BY <1>1, TypesOf DEF TypeOK
<1>3. /\ Served(conns[c]) = Range(sent)
      /\ sent = <<>> => Served(conns[c]) = {} /\ last = 0 /\ Edge(conns[c]) = 0
      /\ sent # <<>> => Served(conns[c]) # {} /\ last = Last(sent)
                        /\ Edge(conns[c]) = Last(sent)
      /\ Edge(conns[c]) = last /\ last \in Nat /\ last <= durable
      /\ \A s \in Range(sent) : s \in Nat /\ s <= last
  <2>1. Edge(conns[c]) = last /\ Edge(conns[c]) \in 0..durable
    BY <1>1, NothingQueued
  <2>2. last \in Nat /\ last <= durable
    BY <1>2, <2>1
  <2>3. /\ Served(conns[c]) = Range(sent)
        /\ sent = <<>> => Served(conns[c]) = {} /\ Edge(conns[c]) = 0
        /\ sent # <<>> => Served(conns[c]) # {} /\ Edge(conns[c]) = Last(sent)
        /\ \A s \in Range(sent) : s \in Nat /\ s <= Edge(conns[c])
    BY <1>1, NothingQueued
  <2> HIDE DEF last, sent
  <2> QED
    BY <2>1, <2>2, <2>3
<1>4. CASE ~ OutsideWindow(last) /\ missed # <<>>
  <2> DEFINE k == [conns[c] EXCEPT !.pc = "streaming", !.queue = missed]
  <2>1. conns' = [conns EXCEPT ![c] = k] /\ pages' = [pages EXCEPT ![c] = pages[c]]
    BY <1>2, <1>4 DEF Recover, SetConn, Missed
  <2>2. /\ missed \in Seq(Events) /\ last < durable
        /\ Range(missed) = {e \in Nat : last < e /\ e <= durable}
        /\ Last(missed) = durable
        /\ \A i \in DOMAIN missed : missed[i] = last + i
    <3> HIDE DEF last
    <3>1. missed = <<>> <=> durable <= last
      BY <1>2, <1>3, BetweenIs
    <3>2. last < durable
      BY <1>2, <1>3, <1>4, <3>1
    <3> QED
      BY <1>2, <1>3, <3>2, BetweenIs
  <2>3. DOMAIN missed \subseteq Nat /\ missed # <<>>
    BY <1>4, <2>2, RangeIsSet
  <2> HIDE DEF missed
  <2>4. /\ k \in Conn /\ k.pc = "streaming" /\ k.queue = missed
        /\ k.pos = conns[c].pos /\ k.resume = conns[c].resume /\ k.base = conns[c].base
        /\ k.last = last /\ k.sent = sent /\ k.lagged = conns[c].lagged
    BY <1>2, <2>2 DEF Conn
  <2> HIDE DEF k
  <2>5. TypeOK' /\ Moves(c) /\ conns'[c] = k /\ pages'[c] = pages[c]
    BY <1>1, <1>2, <2>1, <2>4, MoveTypes
  <2>6. /\ Told' = Told /\ MinAllowed' = MinAllowed /\ (Misled(c)' <=> Misled(c))
    BY <1>1, <2>5 DEF Told, MinAllowed, Misled
  <2>7. /\ Served(k) = Range(sent) \union {e \in Nat : last < e /\ e <= durable}
        /\ Edge(k) = durable
    BY <2>2, <2>3, <2>4 DEF Served, Edge
  <2> HIDE DEF last, sent
  <2>8. FreshIsEmpty(c)' /\ InOrder(c)' /\ SeenCovers(c)' /\ SeenIsApplied(c)'
    BY <1>1, <2>4, <2>5, <2>6
       DEF Follows, FreshIsEmpty, InOrder, SeenCovers, SeenIsApplied, sent
  <2>9. QueueInOrder(c)'
    <3>1. \A i, j \in DOMAIN missed : i < j => missed[i] < missed[j]
      BY <1>3, <2>2, <2>3
    <3>2. \A s \in Served(k) : s <= durable
      BY <1>2, <1>3, <2>7
    <3>3. Served(k) # {}
      BY <1>2, <2>2, <2>7
    <3>4. sent # <<>> => last = Last(sent) /\ \A q \in Range(missed) : Last(sent) < q
      BY <1>3, <2>2
    <3> QED
      BY <1>1, <2>4, <2>5, <3>1, <3>2, <3>3, <3>4 DEF QueueInOrder, Served
  <2>10. ServedIsComplete(c)'
    <3> SUFFICES ASSUME NEW e \in Told, k.base < e \/ \E s \in Served(k) : s <= e
                 PROVE  e \in Served(k)
      BY <2>4, <2>5, <2>6 DEF ServedIsComplete, Served, Edge
    <3>1. e \in Nat /\ 0 < e /\ e <= durable
      BY <1>2, ToldIs
    <3>2. CASE last < e
      BY <2>7, <3>1, <3>2
    <3>3. CASE e <= last
      <4>1. k.base < e \/ \E s \in Range(sent) : s <= e
        BY <1>3, <2>7, <3>1, <3>3
      <4> QED
        BY <1>1, <1>3, <2>4, <2>7, <3>3, <4>1 DEF Follows, ServedIsComplete
    <3> QED
      BY <1>3, <3>1, <3>2, <3>3
  <2>11. PassedIsServed(c)'
    <3>1. durable \in Served(k)
      BY <1>2, <2>2, <2>7
    <3>2. \A i \in 1..k.pos : ring[i] <= durable
      <4>1. \A i \in 1..k.pos : i \in 1..Len(ring)
        BY <1>2, <2>4, ToldIs
      <4> QED
        BY <4>1, ToldIs
    <3> QED
      BY <1>1, <2>5, <2>7, <3>1, <3>2 DEF PassedIsServed, Served, Edge
  <2>12. ResumeIsKnown(c)'
    BY <1>1, <2>4, <2>5, <2>6 DEF Follows, ResumeIsKnown
  <2>13. Follows(c)'
    BY <2>8, <2>9, <2>10, <2>11, <2>12 DEF Follows
  <2> QED
    BY <2>5, <2>13, OneFollows
<1>5. CASE ~ (~ OutsideWindow(last) /\ missed # <<>>)
  <2> DEFINE applied == Applied(pages[c], last + 1, FALSE)
             pg == [applied EXCEPT !.retry = 0]
  <2>1. conns' = [conns EXCEPT ![c] = NoConn] /\ pages' = [pages EXCEPT ![c] = pg]
    BY <1>5 DEF Recover, SetConn
  <2>2. last + 1 \in 1..(MaxEvents + 1)
    <3> HIDE DEF last
    <3> QED BY <1>2, <1>3, Bounds
  <2>3. /\ applied \in Page /\ applied.snapshot = pages[c].snapshot
        /\ \/ applied = pages[c]
           \/ applied.got = Append(pages[c].got, [seq |-> last + 1, real |-> FALSE])
    <3> HIDE DEF last
    <3> QED BY <1>2, <2>2, AppliedIs
  <2> HIDE DEF applied
  <2>4. /\ pg \in Page /\ pg.snapshot = pages[c].snapshot /\ pg.seen = applied.seen
        /\ pg.got = applied.got
    BY SMTT(20), <2>3, Bounds DEF Page
  <2> HIDE DEF pg
  <2>5. \/ pg.seen = pages[c].seen /\ pg.got = pages[c].got
        \/ \E i \in DOMAIN pg.got : ~ pg.got[i].real
    <3>1. CASE applied = pages[c]
      BY <2>4, <3>1
    <3>2. CASE applied.got = Append(pages[c].got, [seq |-> last + 1, real |-> FALSE])
      <4> DEFINE got == pages[c].got  x == [seq |-> last + 1, real |-> FALSE]
      <4>1. x \in Applications /\ got \in Seq(Applications)
        BY <1>2, <2>2 DEF Applications, Page
      <4>2. ~ x.real
        OBVIOUS
      <4> HIDE DEF x, got
      <4>3. /\ Append(got, x)[Len(got) + 1] = x /\ Append(got, x) \in Seq(Applications)
            /\ Len(Append(got, x)) = Len(got) + 1
        BY <4>1, AppendedRange
      <4>4. Len(got) + 1 \in DOMAIN Append(got, x)
        BY <4>1, <4>3, RangeIsSet
      <4> QED
        BY <2>4, <3>2, <4>2, <4>3, <4>4 DEF got, x
    <3> QED
      BY <2>3, <3>1, <3>2
  <2> QED
    BY <1>1, <2>1, <2>4, <2>5, CloseStep
<1> QED
  BY <1>4, <1>5

-----------------------------------------------------------------------------
(* The page hydrates *)

\* The page learns of events that exist without its connection.
LEMMA PageAlone ==
  ASSUME Stream, NEW c \in Clients, UNCHANGED <<durable, pending, ring, conns, budget>>,
         NEW pg \in Page, pg.snapshot <= durable, pages' = [pages EXCEPT ![c] = pg],
         pg.retry = pages[c].retry, pages[c].seen <= pg.seen,
         ~ Misled(c) => pg.seen <= durable,
         (\E i \in DOMAIN pages[c].got : ~ pages[c].got[i].real) =>
            (\E i \in DOMAIN pg.got : ~ pg.got[i].real),
         ~ Misled(c) => \A e \in Told : MinAllowed < e /\ e <= pg.seen =>
            [seq |-> e, real |-> TRUE] \in Range(pg.got)
  PROVE  Stream'
<1>1. /\ TypeOK /\ Follows(c) /\ conns[c] \in Conn /\ conns[c].pos <= Len(ring)
      /\ conns \in [Clients -> Conn] /\ pages[c].seen \in Nat
      /\ budget \in [drops : 0..MaxDrops, unsent : 0..MaxUnsent]
      /\ conns[c].resume \in Nat /\ conns[c].sent \in Seq(Events)
  BY TypesOf DEF Stream, TypeOK
<1>2. conns' = [conns EXCEPT ![c] = conns[c]]
  BY <1>1
<1>3. TypeOK' /\ Moves(c) /\ conns'[c] = conns[c] /\ pages'[c] = pg
  BY <1>1, <1>2, MoveTypes
<1>4. /\ Served(conns[c])' = Served(conns[c]) /\ Edge(conns[c])' = Edge(conns[c])
      /\ Told' = Told /\ MinAllowed' = MinAllowed /\ (Misled(c) => Misled(c)')
  BY <1>3 DEF Served, Edge, Told, MinAllowed, Misled
<1>5. FreshIsEmpty(c)' /\ QueueInOrder(c)' /\ InOrder(c)' /\ ServedIsComplete(c)'
      /\ PassedIsServed(c)'
  BY <1>1, <1>3, <1>4
     DEF Follows, FreshIsEmpty, QueueInOrder, InOrder, ServedIsComplete, PassedIsServed
<1>6. ResumeIsKnown(c)'
  BY <1>1, <1>3, <1>4 DEF Follows, ResumeIsKnown
<1>7. SeenCovers(c)'
  <2>1. conns[c].sent # <<>> => Last(conns[c].sent) \in Nat
    <3>1. Ascending(conns[c].sent)
      BY <1>1 DEF Follows, InOrder, Ascending
    <3> QED
      BY <1>1, <3>1, LastIsGreatest
  <2>2. pg.seen \in Nat
    BY Bounds DEF Page
  <2> QED
    BY <1>1, <1>3, <1>4, <2>1, <2>2 DEF Follows, SeenCovers
<1>8. SeenIsApplied(c)'
  BY <1>3, <1>4 DEF SeenIsApplied
<1>9. Follows(c)'
  BY <1>5, <1>6, <1>7, <1>8 DEF Follows
<1> QED
  BY <1>3, <1>9, OneFollows

LEMMA RequestTimelineStep ==
  ASSUME Stream, NEW c \in Clients, RequestTimeline(c)
  PROVE  Stream'
<1> DEFINE pg == [pages[c] EXCEPT !.hydration = "asked", !.snapshot = durable]
<1>1. /\ TypeOK /\ Follows(c) /\ pages[c] \in Page /\ durable \in 0..MaxEvents
      /\ pages \in [Clients -> Page] /\ pages[c].seen \in Nat
      /\ UNCHANGED <<durable, pending, ring, conns, budget>>
  BY TypesOf DEF Stream, TypeOK, RequestTimeline
<1>2. pages' = [pages EXCEPT ![c] = pg]
  BY <1>1 DEF RequestTimeline
<1>3. /\ pg \in Page /\ pg.seen = pages[c].seen /\ pg.got = pages[c].got /\ pg.snapshot = durable
      /\ pg.retry = pages[c].retry
  BY <1>1 DEF Page
<1> HIDE DEF pg
<1>4. /\ ~ Misled(c) => pg.seen <= durable
      /\ ~ Misled(c) => \A e \in Told : MinAllowed < e /\ e <= pg.seen =>
           [seq |-> e, real |-> TRUE] \in Range(pg.got)
  BY <1>1, <1>3 DEF Follows, ResumeIsKnown, SeenIsApplied
<1>5. durable <= durable /\ pages[c].seen <= pages[c].seen
  BY <1>1
<1> QED
  BY <1>1, <1>2, <1>3, <1>4, <1>5, PageAlone

\* The range of two sequences.
LEMMA JoinedRange ==
  ASSUME NEW S, NEW s \in Seq(S), NEW n \in Nat, NEW t \in Seq(S), Len(t) = n
  PROVE  /\ s \o t \in Seq(S)
         /\ \A i \in 1..Len(s) : (s \o t)[i] = s[i] /\ i \in DOMAIN (s \o t)
         /\ \A i \in 1..n : (s \o t)[Len(s) + i] = t[i] /\ Len(s) + i \in DOMAIN (s \o t)
<1>1. s \o t \in Seq(S) /\ Len(s \o t) = Len(s) + n /\ Len(s) \in Nat
  OBVIOUS
<1>2. DOMAIN (s \o t) = 1..(Len(s) + n)
  BY <1>1
<1>3. ASSUME NEW i \in 1..Len(s) PROVE (s \o t)[i] = s[i] /\ i \in 1..(Len(s) + n)
  BY <1>1
<1>4. ASSUME NEW i \in 1..n PROVE (s \o t)[Len(s) + i] = t[i] /\ Len(s) + i \in 1..(Len(s) + n)
  BY <1>1
<1> QED
  BY <1>1, <1>2, <1>3, <1>4

LEMMA MergeTimelineStep ==
  ASSUME Stream, NEW c \in Clients, MergeTimeline(c)
  PROVE  Stream'
<1> DEFINE page == pages[c]
           new == Between(page.seen, page.snapshot)
           more == [i \in DOMAIN new |-> [seq |-> new[i], real |-> TRUE]]
           pg == [page EXCEPT !.hydration = "done",
                              !.seen = IF new = <<>> THEN @ ELSE page.snapshot,
                              !.got  = @ \o more]
<1>1. /\ TypeOK /\ Follows(c) /\ page \in Page /\ durable \in 0..MaxEvents
      /\ pages \in [Clients -> Page] /\ page.seen \in Nat /\ page.snapshot \in 0..durable
      /\ UNCHANGED <<durable, pending, ring, conns, budget>>
      /\ page.got \in Seq(Applications) /\ Told \subseteq Events
  BY TypesOf DEF Stream, TypeOK, MergeTimeline
<1>2. pages' = [pages EXCEPT ![c] = pg]
  BY DEF MergeTimeline
<1>3. page.snapshot \in 0..MaxEvents
  <2> HIDE DEF page
  <2> QED BY <1>1, Bounds
<1>4. /\ new \in Seq(Events)
      /\ Range(new) = {e \in Nat : page.seen < e /\ e <= page.snapshot}
      /\ new = <<>> <=> page.snapshot <= page.seen
  <2> HIDE DEF page
  <2> QED BY <1>1, <1>3, BetweenIs
<1> HIDE DEF new
<1>5. /\ DOMAIN new = 1..Len(new) /\ Len(new) \in Nat
      /\ \A e \in Range(new) : \E i \in 1..Len(new) : new[i] = e
      /\ \A i \in 1..Len(new) : new[i] \in Events
  <2>1. new \in Seq(Events)
    BY <1>4
  <2>2. DOMAIN new = 1..Len(new) /\ Len(new) \in Nat
    BY <2>1
  <2>3. \A i \in 1..Len(new) : new[i] \in Events
    BY <2>1
  <2>4. \A e \in Range(new) : \E i \in 1..Len(new) : new[i] = e
    BY <2>2 DEF Range
  <2> QED
    BY <2>2, <2>3, <2>4
<1>6. more \in Seq(Applications) /\ Len(more) = Len(new)
      /\ \A i \in 1..Len(new) : more[i] = [seq |-> new[i], real |-> TRUE]
  <2>1. \A i \in 1..Len(new) : [seq |-> new[i], real |-> TRUE] \in Applications
    BY <1>5, Bounds DEF Applications
  <2>2. more \in [1..Len(new) -> Applications]
    BY <1>5, <2>1
  <2>3. \A i \in 1..Len(new) : more[i] = [seq |-> new[i], real |-> TRUE]
    BY <1>5
  <2> HIDE DEF more
  <2> QED
    BY <1>5, <2>2, <2>3
<1> HIDE DEF more
<1>7. /\ page.got \o more \in Seq(Applications)
      /\ \A i \in 1..Len(page.got) :
           (page.got \o more)[i] = page.got[i] /\ i \in DOMAIN (page.got \o more)
      /\ \A i \in 1..Len(new) : (page.got \o more)[Len(page.got) + i] = more[i]
                              /\ Len(page.got) + i \in DOMAIN (page.got \o more)
      /\ DOMAIN page.got = 1..Len(page.got)
  <2> DEFINE got == page.got
  <2>1. got \in Seq(Applications)
    BY <1>1
  <2> HIDE DEF got
  <2>2. DOMAIN got = 1..Len(got)
    BY <2>1, RangeIsSet
  <2>3. /\ got \o more \in Seq(Applications)
        /\ \A i \in 1..Len(got) : (got \o more)[i] = got[i] /\ i \in DOMAIN (got \o more)
        /\ \A i \in 1..Len(new) : (got \o more)[Len(got) + i] = more[i]
                                /\ Len(got) + i \in DOMAIN (got \o more)
    BY <1>5, <1>6, <2>1, JoinedRange
  <2> QED
    BY <2>2, <2>3 DEF got
<1>8. /\ pg \in Page /\ pg.snapshot = page.snapshot /\ pg.retry = page.retry
      /\ pg.seen = (IF new = <<>> THEN page.seen ELSE page.snapshot)
      /\ pg.got = page.got \o more
  <2>1. (IF new = <<>> THEN page.seen ELSE page.snapshot) \in 0..(MaxEvents + 1)
    BY <1>1, <1>3, Bounds DEF Page
  <2> QED
    BY <1>1, <1>7, <2>1 DEF Page
<1> HIDE DEF pg, page
<1>9. page.seen <= pg.seen
  BY <1>1, <1>4, <1>8
<1>10. \A e \in Range(page.got) : e \in Range(pg.got)
  BY <1>7, <1>8 DEF Range
<1>11. (\E i \in DOMAIN page.got : ~ page.got[i].real) => (\E i \in DOMAIN pg.got : ~ pg.got[i].real)
  BY <1>7, <1>8
<1>12. ~ Misled(c) => pg.seen <= durable
  BY <1>1, <1>8 DEF Follows, ResumeIsKnown, page
<1>13. ASSUME ~ Misled(c), NEW e \in Told, MinAllowed < e, e <= pg.seen
       PROVE  [seq |-> e, real |-> TRUE] \in Range(pg.got)
  <2>1. e \in Nat
    BY <1>1
  <2>2. CASE e <= page.seen
    BY <1>1, <1>10, <1>13, <2>2 DEF Follows, SeenIsApplied, page
  <2>3. CASE page.seen < e
    <3>1. e \in Range(new)
      BY <1>1, <1>4, <1>8, <1>13, <2>1, <2>3
    <3>2. PICK i \in 1..Len(new) : new[i] = e
      BY <1>5, <3>1
    <3> QED
      BY <1>6, <1>7, <1>8, <3>2 DEF Range
  <2> QED
    BY <1>1, <2>1, <2>2, <2>3
<1>14. pg.snapshot <= durable
  BY <1>1, <1>8
<1> QED
  BY <1>1, <1>2, <1>8, <1>9, <1>11, <1>12, <1>13, <1>14, PageAlone DEF page

-----------------------------------------------------------------------------
(* The theorems *)

LEMMA StreamStart == Init => Stream
<1> SUFFICES ASSUME Init PROVE Stream
  OBVIOUS
<1>1. NewPage \in Page
  BY Bounds DEF NewPage, Page
<1>2. TypeOK
  BY <1>1, NoConnType, Bounds DEF Init, TypeOK, NoConn, NewPage
<1>3. RingInOrder /\ Told = {} /\ MinAllowed = 0
  BY DEF Init, RingInOrder, Told, Range, MinAllowed
<1>4. ASSUME NEW c \in Clients PROVE Follows(c)
  <2>1. SeenIsApplied(c) /\ conns[c] = NoConn /\ pages[c].seen <= durable
    BY <1>3 DEF SeenIsApplied, Init, NewPage
  <2> QED
    BY <1>3, <2>1, ClosedFollows
<1> QED
  BY <1>2, <1>3, <1>4 DEF Stream

LEMMA StreamStep == Stream /\ [Next]_vars => Stream'
<1> SUFFICES ASSUME Stream, [Next]_vars PROVE Stream'
  OBVIOUS
<1>1. CASE AppendEvent \/ PublishEvent \/ AppendUnsent \/ Restart
  BY <1>1, DurableStep, PublishStep, RestartStep
<1>2. ASSUME NEW c \in Clients, Connect(c) \/ ConnStep(c) \/ PageStep(c) \/ Drop(c)
      PROVE  Stream'
  BY <1>2, ConnectStep, ReadReplayStep, SendReplayedStep, ReceiveBroadcastStep,
     ReceiveLaggedStep, RecoverStep, RequestTimelineStep, MergeTimelineStep, DropStep
     DEF ConnStep, PageStep
<1>3. CASE UNCHANGED vars
  <2>1. ASSUME NEW c \in Clients PROVE Follows(c)'
    BY <1>3, <2>1 DEF vars, Stream, Follows, FreshIsEmpty, QueueInOrder, InOrder,
       ServedIsComplete, PassedIsServed, ResumeIsKnown, SeenCovers, SeenIsApplied,
       Served, Edge, Told, MinAllowed, Misled
  <2> QED
    BY <1>3, <2>1 DEF vars, Stream, TypeOK, RingInOrder
<1> QED
  BY <1>1, <1>2, <1>3 DEF Next

LEMMA StreamAlways == Spec => []Stream
BY StreamStart, StreamStep, PTL DEF Spec

LEMMA StreamIsSent == Stream => SentIsTheStream
<1> SUFFICES ASSUME Stream PROVE SentIsTheStream
  OBVIOUS
<1>1. TypeOK /\ \A c \in Clients : Follows(c)
  BY DEF Stream
<1>2. SentInOrder
  BY <1>1 DEF SentInOrder, Follows, InOrder
<1>3. ASSUME NEW c \in Clients, NEW e \in Range(ring), conns[c].sent # <<>>,
             conns[c].base < e, e <= Last(conns[c].sent)
      PROVE  e \in Range(conns[c].sent)
  <2> DEFINE sent == conns[c].sent
  <2>1. /\ sent \in Seq(Events) /\ conns[c].queue \in Seq(Events) /\ e \in Nat
        /\ Range(conns[c].queue) \subseteq Events /\ Ascending(sent)
        /\ durable \in Nat
    BY <1>1, <1>3, TypesOf DEF Follows, InOrder, Ascending
  <2>2. Last(sent) \in Range(sent) /\ Last(sent) \in Nat
    <3> HIDE DEF sent
    <3>1. sent # <<>>
      BY <1>3 DEF sent
    <3> QED
      BY <2>1, <3>1, LastIsGreatest
  <2>3. Last(sent) <= Edge(conns[c]) /\ Edge(conns[c]) \in Nat
    <3>1. Last(sent) \in Served(conns[c])
      BY <2>2 DEF Served
    <3>2. Edge(conns[c]) \in 0..durable
      BY <1>1, EdgeIsGreatest DEF Follows
    <3>3. QueueInOrder(c) /\ InOrder(c)
      BY <1>1 DEF Follows
    <3>4. \A s \in Served(conns[c]) : s <= Edge(conns[c])
      BY <1>1, <3>3, EdgeIsGreatest
    <3>5. Edge(conns[c]) \in Nat
      BY <2>1, <3>2
    <3> QED
      BY <3>1, <3>4, <3>5
  <2>4. conns[c].pc \in {"streaming", "lagged"}
    BY <1>1, <1>3, TypesOf DEF Follows, FreshIsEmpty, Conn
  <2>5. e \in Told /\ e <= Edge(conns[c])
    <3>1. e \in Told
      BY DEF Told
    <3>2. e <= Edge(conns[c])
      BY <1>3, <2>1, <2>2, <2>3
    <3> QED
      BY <3>1, <3>2
  <2>6. e \in Served(conns[c])
    BY <1>1, <1>3, <2>4, <2>5 DEF Follows, ServedIsComplete
  <2>7. \A q \in Range(conns[c].queue) : q \in Nat /\ Last(sent) < q
    <3>1. \A q \in Range(conns[c].queue) : q \in Nat
      BY <2>1
    <3>2. QueueInOrder(c)
      BY <1>1 DEF Follows
    <3>3. \A q \in Range(conns[c].queue) : Last(conns[c].sent) < q
      BY <1>3, <3>2 DEF QueueInOrder
    <3> QED
      BY <3>1, <3>3
  <2> QED
    BY <1>3, <2>1, <2>2, <2>6, <2>7 DEF Served
<1>4. SentComplete
  BY <1>3 DEF SentComplete
<1>5. ResumedAfterLast
  <2> SUFFICES ASSUME NEW c \in Clients, ~ conns[c].lagged, ~ Misled(c),
                      NEW i \in DOMAIN conns[c].sent
               PROVE  conns[c].sent[i] > conns[c].resume
    BY DEF ResumedAfterLast
  <2>1. conns[c].sent[i] \in Served(conns[c]) /\ Served(conns[c]) \subseteq Events
        /\ conns[c].resume \in Nat
    BY <1>1, TypesOf DEF Served, Range
  <2>2. conns[c].resume < conns[c].sent[i]
    BY <1>1, <2>1 DEF Follows, ResumeIsKnown
  <2> QED
    BY <2>1, <2>2
<1> QED
  BY <1>1, <1>2, <1>4, <1>5 DEF SentIsTheStream

\* What a connection has sent is in order, without a gap, and from behind the event the
\* client named, whatever the subscription, the replay, the channel and the recoveries
\* from lags have in common (handlers/stream.rs).
THEOREM SentStaysTheStream == Spec => []SentIsTheStream
BY StreamAlways, StreamIsSent, PTL

\* A page that no error event misled skips no event of the window that was broadcast, over
\* its connections and the timeline (stream.ts, session-merge).
THEOREM PagesMissNothing == Spec => []PageMissesNothing
<1>1. Stream => PageMissesNothing
  BY DEF Stream, Follows, SeenIsApplied, PageMissesNothing, Told
<1> QED
  BY <1>1, StreamAlways, PTL

=============================================================================
