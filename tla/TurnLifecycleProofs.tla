------------------------ MODULE TurnLifecycleProofs ------------------------
(***************************************************************************)
(* Theorems about TurnLifecycle, for any number of turns and any budgets   *)
(* of interruptions and faults.                                            *)
(***************************************************************************)
EXTENDS TurnLifecycle, FiniteSetTheorems, WellFoundedInduction, TLAPS

-----------------------------------------------------------------------------
(* Replays *)

\* Of any natural numbers one is the least.
LEMMA LeastExists ==
  ASSUME NEW T \in SUBSET Nat, T # {}
  PROVE  \E m \in T : \A n \in T : m <= n
<1>1. PICK m \in T : \A n \in T : ~ (<<n, m>> \in OpToRel(<, Nat))
  BY NatLessThanWellFounded, WFMin
<1>2. \A n \in T : ~ (n < m)
  BY <1>1 DEF OpToRel
<1> QED
  BY <1>2

\* What is defined step by step is defined: a first number at which it is not cannot be.
LEMMA Iteration ==
  ASSUME NEW S, NEW a \in S, NEW N \in Nat, NEW step \in [1..N -> [S -> S]]
  PROVE  \E f \in [0..N -> S] : f[0] = a /\ \A n \in 1..N : f[n] = step[n][f[n - 1]]
<1> DEFINE Upto(m) == \E f \in [0..m -> S] : f[0] = a /\ \A n \in 1..m : f[n] = step[n][f[n - 1]]
           T == {m \in Nat : m <= N /\ ~ Upto(m)}
<1>1. SUFFICES ASSUME T # {} PROVE FALSE
  <2>1. N \in T => T # {}
    OBVIOUS
  <2> QED
    BY <2>1
<1>2. PICK m \in T : \A n \in T : m <= n
  <2>1. T \in SUBSET Nat
    OBVIOUS
  <2> HIDE DEF T
  <2> QED
    BY <1>1, <2>1, LeastExists
<1>3. m \in Nat /\ m <= N /\ ~ Upto(m)
  OBVIOUS
<1>4. m # 0
  <2> DEFINE f == [i \in 0..0 |-> a]
  <2>1. f \in [0..0 -> S] /\ f[0] = a /\ 1..0 = {}
    OBVIOUS
  <2> HIDE DEF f
  <2>2. Upto(0)
    BY <2>1
  <2> HIDE DEF Upto
  <2> QED
    BY <1>3, <2>2
<1>5. m - 1 \in Nat /\ m - 1 <= N /\ m \in 1..N
  BY <1>3, <1>4
<1>6. Upto(m - 1)
  <2> HIDE DEF Upto
  <2>1. m - 1 \notin T
    BY <1>2, <1>5
  <2> QED
    BY <1>5, <2>1
<1>7. PICK f \in [0..(m - 1) -> S] : f[0] = a /\ \A n \in 1..(m - 1) : f[n] = step[n][f[n - 1]]
  BY <1>6
<1> DEFINE g == [i \in 0..m |-> IF i = m THEN step[m][f[m - 1]] ELSE f[i]]
<1>8. step[m][f[m - 1]] \in S
  BY <1>5, <1>7
<1>9. g \in [0..m -> S]
  BY <1>5, <1>7, <1>8
<1>10. g[0] = a
  BY <1>4, <1>5, <1>7
<1>11. ASSUME NEW n \in 1..m PROVE g[n] = step[n][g[n - 1]]
  <2>1. n - 1 \in 0..m /\ n \in 0..m /\ n - 1 # m
    BY <1>5
  <2>2. CASE n = m
    BY <2>1, <2>2
  <2>3. CASE n # m
    <3>1. n \in 1..(m - 1)
      BY <1>5, <2>3
    <3> QED
      BY <1>7, <2>1, <2>3, <3>1
  <2> QED
    BY <2>2, <2>3
<1> QED
  <2> HIDE DEF g
  <2> QED
    BY <1>3, <1>9, <1>10, <1>11

\* The statuses of a turn over the first events.
Progress(events, t, st) ==
  /\ st \in [0..Len(events) -> Statuses]
  /\ st[0] = "Absent"
  /\ \A n \in 1..Len(events) :
       st[n] = IF events[n].turn = t THEN ApplyTurnRuntimeEvent(st[n - 1], events[n].type)
               ELSE st[n - 1]

Transcripts == Seq(Events)

LEMMA ApplyType ==
  ASSUME NEW st \in Statuses, NEW type
  PROVE  ApplyTurnRuntimeEvent(st, type) \in Statuses
BY DEF ApplyTurnRuntimeEvent, Queued, Statuses

LEMMA ProgressExists ==
  ASSUME NEW events \in Transcripts, NEW t
  PROVE  \E st : Progress(events, t, st)
<1> DEFINE N == Len(events)
           step == [n \in 1..N |-> [s \in Statuses |->
                      IF events[n].turn = t THEN ApplyTurnRuntimeEvent(s, events[n].type) ELSE s]]
<1>1. N \in Nat /\ "Absent" \in Statuses
  BY DEF Transcripts, Statuses
<1>2. step \in [1..N -> [Statuses -> Statuses]]
  BY ApplyType
<1>3. \A n \in 1..N, s \in Statuses :
        step[n][s] = IF events[n].turn = t THEN ApplyTurnRuntimeEvent(s, events[n].type) ELSE s
  OBVIOUS
<1> HIDE DEF N, step
<1>4. PICK f \in [0..N -> Statuses] : f[0] = "Absent" /\ \A n \in 1..N : f[n] = step[n][f[n - 1]]
  <2> DEFINE A == "Absent"
  <2>1. A \in Statuses /\ N \in Nat /\ step \in [1..N -> [Statuses -> Statuses]]
    BY <1>1, <1>2
  <2> HIDE DEF A
  <2>2. \E f \in [0..N -> Statuses] : f[0] = A /\ \A n \in 1..N : f[n] = step[n][f[n - 1]]
    BY <2>1, Iteration
  <2> QED
    BY <2>2 DEF A
<1>5. \A n \in 1..N : n - 1 \in 0..N /\ f[n - 1] \in Statuses
  BY <1>1, <1>4
<1>6. \A n \in 1..N :
        f[n] = IF events[n].turn = t THEN ApplyTurnRuntimeEvent(f[n - 1], events[n].type)
               ELSE f[n - 1]
  BY <1>3, <1>4, <1>5
<1> QED
  BY <1>4, <1>6 DEF Progress, N

\* Of two transcripts of which one begins like the other the statuses agree so far.
LEMMA ProgressIsOne ==
  ASSUME NEW events \in Transcripts, NEW more \in Transcripts, NEW t, NEW st, NEW su,
         Progress(events, t, st), Progress(more, t, su), Len(events) <= Len(more),
         \A n \in 1..Len(events) : more[n] = events[n]
  PROVE  \A n \in 0..Len(events) : su[n] = st[n]
<1> DEFINE N == Len(events)  T == {n \in Nat : n <= N /\ su[n] # st[n]}
<1>1. N \in Nat /\ Len(more) \in Nat
  BY DEF Transcripts
<1>2. SUFFICES ASSUME T # {} PROVE FALSE
  BY <1>1
<1>3. PICK m \in T : \A n \in T : m <= n
  <2>1. T \in SUBSET Nat
    OBVIOUS
  <2> HIDE DEF T
  <2> QED
    BY <1>2, <2>1, LeastExists
<1>4. m \in Nat /\ m <= N /\ su[m] # st[m]
  OBVIOUS
<1>5. m # 0
  BY <1>4 DEF Progress
<1>6. m - 1 \in Nat /\ m - 1 <= N /\ m \in 1..N /\ m \in 1..Len(more)
  BY <1>1, <1>4, <1>5
<1>7. su[m - 1] = st[m - 1]
  BY <1>3, <1>6
<1>8. more[m] = events[m]
  BY <1>6
<1>9. st[m] = IF events[m].turn = t THEN ApplyTurnRuntimeEvent(st[m - 1], events[m].type)
              ELSE st[m - 1]
  BY <1>6 DEF Progress
<1>10. su[m] = IF more[m].turn = t THEN ApplyTurnRuntimeEvent(su[m - 1], more[m].type)
              ELSE su[m - 1]
  BY <1>6 DEF Progress
<1> QED
  BY <1>4, <1>7, <1>8, <1>9, <1>10

LEMMA ReplayIs ==
  ASSUME NEW events \in Transcripts, NEW t \in TurnIds
  PROVE  \E st : Progress(events, t, st) /\ ReplayTurns(events)[t] = st[Len(events)]
<1> DEFINE N == Len(events)
           F(st) == [n \in 0..N |->
             IF n = 0 THEN "Absent"
             ELSE IF events[n].turn = t THEN ApplyTurnRuntimeEvent(st[n - 1], events[n].type)
             ELSE st[n - 1]]
           st == CHOOSE x : x = F(x)
<1>1. N \in Nat
  BY DEF Transcripts
<1>2. PICK f : Progress(events, t, f)
  BY ProgressExists
<1>3. f = F(f)
  <2>1. f \in [0..N -> Statuses] /\ f[0] = "Absent"
    BY <1>2 DEF Progress
  <2>2. \A n \in 0..N : f[n] = F(f)[n]
    BY <1>1, <1>2, <2>1 DEF Progress
  <2> QED
    BY <2>1, <2>2
<1>4. st = F(st)
  <2> HIDE DEF F
  <2> QED
    BY <1>3
<1>5. ReplayTurns(events)[t] = st[N]
  BY DEF ReplayTurns
<1> HIDE DEF st
<1>6. st[0] = "Absent" /\ \A n \in 1..N :
        st[n] = IF events[n].turn = t THEN ApplyTurnRuntimeEvent(st[n - 1], events[n].type)
                ELSE st[n - 1]
  BY <1>1, <1>4
<1>7. \A n \in 0..N : st[n] = f[n]
  <2> DEFINE T == {n \in Nat : n <= N /\ st[n] # f[n]}
  <2>1. SUFFICES ASSUME T # {} PROVE FALSE
    BY <1>1
  <2>2. PICK m \in T : \A n \in T : m <= n
    <3>1. T \in SUBSET Nat
      OBVIOUS
    <3> HIDE DEF T
    <3> QED
      BY <2>1, <3>1, LeastExists
  <2>3. m \in Nat /\ m <= N /\ st[m] # f[m]
    OBVIOUS
  <2>4. m # 0
    BY <1>2, <1>6, <2>3 DEF Progress
  <2>5. m - 1 \in Nat /\ m - 1 <= N /\ m \in 1..N
    BY <1>1, <2>3, <2>4
  <2>6. st[m - 1] = f[m - 1]
    BY <2>2, <2>5
  <2> QED
    BY <1>2, <1>6, <2>3, <2>5, <2>6 DEF Progress
<1>8. N \in 0..N
  BY <1>1
<1> QED
  BY <1>2, <1>5, <1>7, <1>8

\* Sequences of one length with the same elements are the same.
LEMMA SeqEqual ==
  ASSUME NEW S, NEW p \in Seq(S), NEW q \in Seq(S), Len(p) = Len(q),
         \A i \in 1..Len(p) : p[i] = q[i]
  PROVE  p = q
OBVIOUS

\* The table replayed from a transcript is a table.
LEMMA ReplayType ==
  ASSUME NEW events \in Transcripts
  PROVE  ReplayTurns(events) \in [TurnIds -> Statuses]
<1> DEFINE R == ReplayTurns(events)
<1>1. ASSUME NEW t \in TurnIds PROVE R[t] \in Statuses
  <2>1. PICK st : Progress(events, t, st) /\ R[t] = st[Len(events)]
    BY ReplayIs
  <2>2. Len(events) \in 0..Len(events)
    BY DEF Transcripts
  <2> QED
    BY <2>1, <2>2 DEF Progress
<1>2. R = [t \in TurnIds |-> R[t]]
  BY DEF ReplayTurns
<1> HIDE DEF R
<1>3. R \in [TurnIds -> Statuses]
  BY <1>1, <1>2
<1> QED
  BY <1>3 DEF R

LEMMA ReplayEmpty == \A t \in TurnIds : ReplayTurns(<<>>)[t] = "Absent"
<1> SUFFICES ASSUME NEW t \in TurnIds PROVE ReplayTurns(<<>>)[t] = "Absent"
  OBVIOUS
<1>1. <<>> \in Transcripts /\ Len(<<>>) = 0
  BY DEF Transcripts
<1>2. PICK st : Progress(<<>>, t, st) /\ ReplayTurns(<<>>)[t] = st[0]
  BY <1>1, ReplayIs
<1> QED
  BY <1>2 DEF Progress

\* One event more changes the status of its turn alone.
LEMMA ReplayAppend ==
  ASSUME NEW events \in Transcripts, NEW e \in Events, NEW t \in TurnIds
  PROVE  /\ Append(events, e) \in Transcripts
         /\ ReplayTurns(Append(events, e))[t] =
              IF e.turn = t THEN ApplyTurnRuntimeEvent(ReplayTurns(events)[t], e.type)
              ELSE ReplayTurns(events)[t]
<1> DEFINE more == Append(events, e)
<1>1. /\ more \in Transcripts /\ Len(events) \in Nat /\ Len(more) = Len(events) + 1
      /\ more[Len(events) + 1] = e /\ \A n \in 1..Len(events) : more[n] = events[n]
  BY DEF Transcripts
<1> HIDE DEF more
<1>2. PICK st : Progress(events, t, st) /\ ReplayTurns(events)[t] = st[Len(events)]
  BY ReplayIs
<1>3. PICK su : Progress(more, t, su) /\ ReplayTurns(more)[t] = su[Len(more)]
  BY <1>1, ReplayIs
<1>4. su[Len(events)] = st[Len(events)]
  <2>1. \A n \in 0..Len(events) : su[n] = st[n]
    BY <1>1, <1>2, <1>3, ProgressIsOne
  <2> QED
    BY <1>1, <2>1
<1>5. su[Len(events) + 1] = IF e.turn = t THEN ApplyTurnRuntimeEvent(su[Len(events)], e.type)
                            ELSE su[Len(events)]
  <2>1. Len(events) + 1 \in 1..Len(more) /\ Len(events) + 1 - 1 = Len(events)
    BY <1>1
  <2> QED
    BY <1>1, <1>3, <2>1 DEF Progress
<1> QED
  BY <1>1, <1>2, <1>3, <1>4, <1>5 DEF more

\* Statuses that no event of a turn takes it out of are not left.
LEMMA ReplayStays ==
  ASSUME NEW events \in Transcripts, NEW t \in TurnIds, NEW Good, "Absent" \in Good,
         \A i \in 1..Len(events), s \in Good :
            events[i].turn = t => ApplyTurnRuntimeEvent(s, events[i].type) \in Good
  PROVE  ReplayTurns(events)[t] \in Good
<1> DEFINE N == Len(events)
<1>1. N \in Nat
  BY DEF Transcripts
<1>2. PICK st : Progress(events, t, st) /\ ReplayTurns(events)[t] = st[N]
  BY ReplayIs
<1> DEFINE T == {n \in Nat : n <= N /\ st[n] \notin Good}
<1>3. SUFFICES ASSUME T # {} PROVE FALSE
  BY <1>1, <1>2
<1>4. PICK m \in T : \A n \in T : m <= n
  <2>1. T \in SUBSET Nat
    OBVIOUS
  <2> HIDE DEF T
  <2> QED
    BY <1>3, <2>1, LeastExists
<1>5. m \in Nat /\ m <= N /\ st[m] \notin Good
  OBVIOUS
<1>6. m # 0
  BY <1>2, <1>5 DEF Progress
<1>7. m - 1 \in Nat /\ m - 1 <= N /\ m \in 1..N
  BY <1>1, <1>5, <1>6
<1>8. st[m - 1] \in Good
  BY <1>4, <1>7
<1> QED
  BY <1>2, <1>5, <1>7, <1>8 DEF Progress

\* The events since the table was last emptied, when one more comes.
LEMMA SinceAppend ==
  ASSUME NEW events \in Transcripts, NEW e \in Events, NEW b \in 0..Len(events)
  PROVE  SubSeq(Append(events, e), b + 1, Len(Append(events, e)))
           = Append(SubSeq(events, b + 1, Len(events)), e)
<1> DEFINE N == Len(events)  more == Append(events, e)
           s == SubSeq(events, b + 1, N)  p == SubSeq(more, b + 1, N + 1)  q == Append(s, e)
<1>1. N \in Nat /\ more \in Seq(Events) /\ Len(more) = N + 1 /\ more[N + 1] = e
  BY DEF Transcripts
<1>2. \A n \in 1..N : more[n] = events[n]
  BY DEF Transcripts
<1>3. s \in Seq(Events) /\ Len(s) = N - b /\ \A i \in 1..(N - b) : s[i] = events[i + b]
  BY <1>1 DEF Transcripts
<1> HIDE DEF N, more, s
<1>4. p \in Seq(Events) /\ Len(p) = N + 1 - b /\ \A i \in 1..(N + 1 - b) : p[i] = more[i + b]
  BY <1>1 DEF N
<1>5. q \in Seq(Events) /\ Len(q) = N - b + 1 /\ q[N - b + 1] = e
       /\ \A i \in 1..(N - b) : q[i] = s[i]
  BY <1>1, <1>3 DEF N
<1>6. Len(p) = Len(q) /\ Len(p) \in Nat
  BY <1>1, <1>4, <1>5 DEF N
<1>7. ASSUME NEW i \in 1..Len(p) PROVE p[i] = q[i]
  <2>1. i \in 1..(N + 1 - b) /\ i + b \in 1..(N + 1)
    BY <1>1, <1>4 DEF N
  <2>2. CASE i = N - b + 1
    BY <1>1, <1>4, <1>5, <2>1, <2>2 DEF N
  <2>3. CASE i # N - b + 1
    <3>1. i \in 1..(N - b) /\ i + b \in 1..N
      BY <1>1, <2>1, <2>3 DEF N
    <3> QED
      BY <1>2, <1>3, <1>4, <1>5, <2>1, <3>1
  <2> QED
    BY <2>2, <2>3
<1>8. p = q
  <2> HIDE DEF p, q
  <2> QED
    BY <1>4, <1>5, <1>6, <1>7, SeqEqual
<1> QED
  BY <1>1, <1>8 DEF N, more, s

-----------------------------------------------------------------------------
(* The inductive invariant *)

\* At its turn_started a turn takes the next number of its agent: no agent has handed out
\* more numbers than there are workers past that point.
Past == {w \in Workers : workers[w].pc \notin {"unused", "spawned"} /\ workers[w].task # "waiting"}

\* What has happened fits one of the budgets, and every generation but the first begins
\* with a clear or a restart.
Counted ==
  /\ \E b \in Budgets : \A a \in Actions : used[a] <= b[a]
  /\ session.agent = 1 + used["clear"] + used["restart"]
  /\ \A g \in Generations : agents[g].next <= 1 + Cardinality(Past)

\* What a worker k has in its channel: what its core task has pushed so far, and what a
\* manual compaction pushed into the sink that the task left behind.
Pushed(k, e) ==
  \/ e.turn = 0 /\ e.type = "context_compacted"
  \/ /\ e.turn = k.turn
     /\ \/ e.type \in {"turn_started", "response_error"}
        \/ e.type = "response_completed" /\ k.phase # "open"
        \/ e.type = "turn_completed" /\ k.phase = "closed"

\* The fields of one worker fit together.
Fits(k) ==
  /\ k.pc \in {"unused", "spawned", "dead"} <=> k.task = "none"
  /\ k.task \in {"waiting", "running"} => k.pc \in {"started", "receiving"}
  /\ k.pc = "interrupting" => k.task = "cancelled"
  /\ k.aborting => k.pc \in {"receiving", "interrupting", "done"}
  /\ k.task = "cancelled" => k.aborting
  /\ k.task \in {"none", "waiting"} => k.turn = NoTurn
  /\ k.task \in {"running", "returned"} => k.turn # NoTurn
  /\ k.task = "cancelled" /\ k.turn # NoTurn => k.phase = "open"
  /\ k.known \in {0, NoTurn, k.turn}
  /\ k.task = "none" => k.known = NoTurn
  /\ \A i \in 1..Len(k.chan) : Pushed(k, k.chan[i])

WorkersFit == \A w \in Workers : Fits(workers[w])

\* A handle that can be taken is that of a worker which is receiving.
HandleReceives == session.handle # None => workers[session.handle].pc = "receiving"

Typed == TypeOK /\ Counted /\ WorkersFit /\ HandleReceives

\* The turns of one agent have different numbers, all of them handed out.
Numbered ==
  /\ \A w \in Workers : workers[w].turn # NoTurn => workers[w].turn < agents[workers[w].agent].next
  /\ \A v, w \in Workers : /\ v # w
                           /\ workers[v].turn # NoTurn
                           /\ workers[v].agent = workers[w].agent
                           => workers[v].turn # workers[w].turn

\* Without a clear all turns of this process are turns of the session's agent.
OneAgent ==
  used["clear"] = 0 =>
    \A w \in Workers : workers[w].task # "none" => workers[w].agent = session.agent

InProgress(w) == workers[w].pc \in {"spawned", "started", "receiving"}

NoAborts ==
  used["abort"] = 0 => ~ session.abortRequested /\ \A w \in Workers : ~ workers[w].aborting

\* Without aborts and clears the session knows of the one worker there is.
OneWorker ==
  used["abort"] = 0 /\ used["clear"] = 0 =>
    /\ \A v, w \in Workers : InProgress(v) /\ InProgress(w) => v = w
    /\ \A w \in Workers : workers[w].pc \in {"spawned", "started"}
                            => session.inFlight /\ session.handle = None
    /\ \A w \in Workers : workers[w].pc = "receiving" => session.handle = w

\* The flag of the first abort finds no worker that has yet to publish its handle.
OneAbort ==
  used["clear"] = 0 /\ used["abort"] <= 1 =>
    /\ \A v, w \in Workers : workers[v].aborting /\ workers[w].aborting => v = w
    /\ session.abortRequested => \A w \in Workers : workers[w].pc \notin {"spawned", "started"}

Ordered == Numbered /\ OneAgent /\ NoAborts /\ OneWorker /\ OneAbort

\* Turn 0 is the turn of compaction events alone, and nothing completes it.
TurnZero ==
  /\ \A i \in 1..Len(log) : log[i].turn = 0
       => log[i].type \in {"context_compacted", "response_error", "turn_interrupted"}
  /\ turns[0] \in {"Absent", "Queued", "Failed"}

\* Without a clear the turn that a worker would interrupt is open, or failed, in the table.
KnownIsOpen ==
  used["clear"] = 0 => \A w \in Workers :
    /\ workers[w].known = 0 => turns[0] # "Absent"
    /\ /\ workers[w].known = workers[w].turn
       /\ workers[w].turn # NoTurn
       /\ workers[w].phase = "open"
       => turns[workers[w].turn] \in {"Running", "Failed"}

\* The turn table is the replay of the events since it was last emptied.
TableIsReplay ==
  session.stored /\ NoAbortWithClear =>
    \A t \in TurnIds \ lost : turns[t] = ReplayTurns(SubSeq(log, base + 1, Len(log)))[t]

Replayed == TurnZero /\ KnownIsOpen /\ TableIsReplay

\* Numbers that are still to be handed out are nowhere in the table or the transcript.
FreshNumbers ==
  /\ \A t \in 1..MaxWorkers : t >= agents[session.agent].next => turns[t] = "Absent"
  /\ \A i \in 1..Len(log) : log[i].turn \in 1..MaxWorkers
                              => log[i].turn < agents[session.agent].next

\* A turn_started comes before the other events of its turn, a turn_completed after them.
StartsFirst(chan) ==
  \A i, j \in 1..Len(chan) : i < j /\ chan[j].type = "turn_started" => chan[i].turn # chan[j].turn
EndsLast(chan) ==
  \A i, j \in 1..Len(chan) : i < j /\ chan[i].type = "turn_completed" => chan[i].turn # chan[j].turn

ChannelsInOrder ==
  \A w \in Workers :
    /\ StartsFirst(workers[w].chan) /\ EndsLast(workers[w].chan)
    /\ \A i \in 1..Len(workers[w].chan) :
         workers[w].chan[i].type = "turn_started" => turns[workers[w].chan[i].turn] = "Absent"

\* Entry i of the transcript closes a turn of some worker.
Closes(i) == i \in 1..Len(log) /\ Closing(log[i].type) /\ log[i].turn \in 1..MaxWorkers

\* After the event that closes a turn nothing of that turn comes but the report of its own
\* append, right behind it, nor is anything on its way.
ClosedIsLast ==
  \A i \in 1..Len(log) : Closes(i) =>
    /\ \A j \in 1..Len(log) : i < j /\ log[j].turn = log[i].turn
                                => j = i + 1 /\ log[j].type = "response_error"
    /\ \A w \in Workers : workers[w].turn = log[i].turn =>
         /\ workers[w].phase = "closed"
         /\ \A j \in 1..Len(workers[w].chan) : workers[w].chan[j].turn # log[i].turn

\* Left to themselves the turns go through the table and the transcript in order.
TurnsInOrder == Undisturbed => FreshNumbers /\ ChannelsInOrder /\ ClosedIsLast

-----------------------------------------------------------------------------
(* Types *)

LEMMA Constants ==
  /\ MaxWorkers \in Nat /\ MaxWorkers >= 1 /\ Workers = 1..MaxWorkers /\ None = 0
  /\ TurnIds = 0..(MaxWorkers + 1) /\ CompactTurn = MaxWorkers + 1 /\ NoTurn = MaxWorkers + 2
BY MaxWorkersAssumption DEF Workers, None, TurnIds, CompactTurn, NoTurn

\* Some budget allows the most clears and restarts. A smallest set of budgets without such
\* a one cannot be.
LEMMA LargestBudget ==
  \E b \in Budgets : \A c \in Budgets : b["clear"] + b["restart"] >= c["clear"] + c["restart"]
<1> DEFINE V == Budgets
           v == [b \in V |-> b["clear"] + b["restart"]]
           Largest(i, U) == \A j \in U : v[i] >= v[j]
           Bad == {U \in FiniteSubsetsOf(V) : U # {} /\ ~ \E i \in U : Largest(i, U)}
<1>1. v \in [V -> Nat] /\ V # {} /\ IsFiniteSet(V)
  <2>1. \A b \in V : b \in [Actions -> Nat]
    BY BudgetsAssumption
  <2>2. \A b \in V : b["clear"] + b["restart"] \in Nat
    BY <2>1 DEF Actions
  <2> QED
    BY <2>2, BudgetsAssumption
<1> HIDE DEF v
<1>2. SUFFICES ASSUME Bad # {} PROVE FALSE
  <2>1. V \in FiniteSubsetsOf(V)
    BY <1>1 DEF FiniteSubsetsOf
  <2>2. \E i \in V : Largest(i, V)
    BY <1>1, <2>1
  <2> QED
    BY <2>2 DEF v
<1>3. PICK U \in Bad : \A T \in Bad : ~ (<<T, U>> \in StrictSubsetOrdering(V))
  <2>1. IsWellFoundedOn(StrictSubsetOrdering(V), FiniteSubsetsOf(V))
    BY FS_StrictSubsetOrderingWellFounded
  <2>2. Bad \subseteq FiniteSubsetsOf(V)
    OBVIOUS
  <2> HIDE DEF Bad, V
  <2> QED
    BY <1>2, <2>1, <2>2, WFMin
<1>4. U \subseteq V /\ IsFiniteSet(U) /\ U # {} /\ ~ \E i \in U : Largest(i, U)
  BY DEF FiniteSubsetsOf
<1>5. PICK x \in U : TRUE
  BY <1>4
<1> DEFINE T == U \ {x}
<1>6. T \subseteq V /\ IsFiniteSet(T) /\ T \subseteq U /\ T # U
  BY <1>4, <1>5, FS_RemoveElement
<1>7. T \notin Bad
  <2>1. <<T, U>> \in StrictSubsetOrdering(V)
    BY <1>4, <1>6 DEF StrictSubsetOrdering
  <2> HIDE DEF Bad, T
  <2> QED
    BY <1>3, <2>1
<1>8. CASE T = {}
  <2>1. U = {x}
    BY <1>5, <1>8
  <2>2. v[x] \in Nat
    BY <1>1, <1>4, <1>5
  <2> QED
    BY <1>4, <2>1, <2>2
<1>9. CASE T # {}
  <2>1. T \in FiniteSubsetsOf(V)
    BY <1>6 DEF FiniteSubsetsOf
  <2>2. PICK i \in T : Largest(i, T)
    BY <1>7, <1>9, <2>1
  <2>3. v[i] \in Nat /\ v[x] \in Nat /\ \A j \in U : v[j] \in Nat /\ (j = x \/ j \in T)
    BY <1>1, <1>4, <1>5, <2>2
  <2>4. Largest(i, U) \/ Largest(x, U)
    BY <2>2, <2>3
  <2> QED
    BY <1>4, <1>5, <2>2, <2>4
<1> QED
  BY <1>8, <1>9

\* There is a generation for every clear and restart of a budget.
LEMMA GenerationsAre ==
  /\ 1 \in Generations /\ Generations \subseteq Nat
  /\ \A u \in [Actions -> Nat] : (\E b \in Budgets : \A a \in Actions : u[a] <= b[a])
       => 1 + u["clear"] + u["restart"] \in Generations
<1> DEFINE S == {b["clear"] + b["restart"] : b \in Budgets}
<1>1. PICK c \in Budgets :
        \A b \in Budgets : c["clear"] + c["restart"] >= b["clear"] + b["restart"]
  BY LargestBudget
<1>2. \A b \in Budgets : b["clear"] \in Nat /\ b["restart"] \in Nat
  BY BudgetsAssumption DEF Actions
<1>3. S \subseteq Nat /\ \E m \in S : \A s \in S : m >= s
  <2>1. c["clear"] + c["restart"] \in S
    OBVIOUS
  <2>2. \A s \in S : s \in Nat /\ c["clear"] + c["restart"] >= s
    <3> TAKE s \in S
    <3>1. PICK b \in Budgets : s = b["clear"] + b["restart"]
      OBVIOUS
    <3> QED
      BY <1>1, <1>2, <3>1
  <2> HIDE DEF S
  <2> QED
    BY <2>1, <2>2
<1>4. Max(S) \in S /\ \A s \in S : Max(S) >= s
  <2> HIDE DEF S
  <2> QED
    BY <1>3 DEF Max
<1>5. Max(S) \in Nat /\ Generations = 1..(1 + Max(S))
  BY <1>3, <1>4 DEF Generations
<1>6. ASSUME NEW u \in [Actions -> Nat], NEW b \in Budgets, \A a \in Actions : u[a] <= b[a]
      PROVE  1 + u["clear"] + u["restart"] \in Generations
  <2>1. /\ u["clear"] \in Nat /\ u["restart"] \in Nat
        /\ u["clear"] <= b["clear"] /\ u["restart"] <= b["restart"]
    BY <1>6 DEF Actions
  <2>2. Max(S) >= b["clear"] + b["restart"]
    BY <1>4
  <2> HIDE DEF S
  <2> QED
    BY <1>2, <1>5, <2>1, <2>2
<1> QED
  BY <1>5, <1>6

\* What the invariant says of the state, one variable at a time.
LEMMA TypesOf ==
  ASSUME TypeOK
  PROVE  /\ session \in Session /\ turns \in [TurnIds -> Statuses]
         /\ agents \in [Generations -> Agent] /\ workers \in [Workers -> Worker]
         /\ log \in Seq(Events) /\ base \in 0..Len(log) /\ lost \subseteq TurnIds
         /\ used \in [Actions -> Nat]
         /\ compactor \in [pc : {"idle", "read", "locked", "publishing"}, agent : Generations]
         /\ closer \in [pc : {"idle", "waiting", "deleting"}, agent : Generations]
BY DEF TypeOK

\* A worker is its fields.
LEMMA WorkerIs ==
  ASSUME NEW k \in Worker
  PROVE  /\ k = [pc |-> k.pc, agent |-> k.agent, task |-> k.task, aborting |-> k.aborting,
                 phase |-> k.phase, turn |-> k.turn, chan |-> k.chan, known |-> k.known,
                 reply |-> k.reply]
         /\ k.pc \in {"unused", "spawned", "started", "receiving", "interrupting", "done", "dead"}
         /\ k.agent \in Generations
         /\ k.task \in {"none", "waiting", "running", "returned", "cancelled", "panicked"}
         /\ k.aborting \in BOOLEAN /\ k.phase \in {"open", "answered", "closed"}
         /\ k.turn \in (1..MaxWorkers) \cup {NoTurn} /\ k.chan \in Seq(Events)
         /\ k.known \in TurnIds \cup {NoTurn} /\ k.reply \in {"none", "turn", "aborted", "failed"}
BY DEF Worker

LEMMA SessionIs ==
  ASSUME NEW s \in Session
  PROVE  /\ s = [status |-> s.status, agent |-> s.agent, handle |-> s.handle,
                 inFlight |-> s.inFlight, abortRequested |-> s.abortRequested,
                 stored |-> s.stored]
         /\ s.status \in {"Active", "Closing", "Closed"} /\ s.agent \in Generations
         /\ s.handle \in Workers \cup {None} /\ s.inFlight \in BOOLEAN
         /\ s.abortRequested \in BOOLEAN /\ s.stored \in BOOLEAN
BY DEF Session

\* A step that changes one worker.
Becomes(w, k) == k \in Worker /\ workers' = [workers EXCEPT ![w] = k]

LEMMA BecomesView ==
  ASSUME TypeOK, NEW w \in Workers, NEW k, Becomes(w, k)
  PROVE  /\ workers' \in [Workers -> Worker] /\ workers'[w] = k
         /\ \A v \in Workers : v # w => workers'[v] = workers[v]
BY TypesOf DEF Becomes

\* What each step makes of the worker that takes it.
LEMMA SubmitView ==
  ASSUME TypeOK, NEW w \in Workers, SubmitTurn(w)
  PROVE  /\ workers[w].pc = "unused" /\ SubmitGuard /\ session' = Accepted
         /\ \E k : /\ Becomes(w, k)
                   /\ k.pc = "spawned" /\ k.agent = workers[w].agent /\ k.task = workers[w].task
                   /\ k.aborting = workers[w].aborting /\ k.phase = workers[w].phase
                   /\ k.turn = workers[w].turn /\ k.chan = workers[w].chan
                   /\ k.known = workers[w].known /\ k.reply = workers[w].reply
         /\ UNCHANGED <<turns, agents, compactor, closer, log, base, lost, used>>
<1>1. PICK x \in Worker : x = workers[w]
  BY TypesOf
<1> DEFINE k == [x EXCEPT !.pc = "spawned"]
<1>2. k \in Worker
  BY <1>1 DEF Worker
<1>3. /\ k.pc = "spawned" /\ k.agent = x.agent /\ k.task = x.task
      /\ k.aborting = x.aborting /\ k.phase = x.phase
      /\ k.turn = x.turn /\ k.chan = x.chan
      /\ k.known = x.known /\ k.reply = x.reply
  BY DEF Worker
<1>4. workers' = [workers EXCEPT ![w] = k]
  BY <1>1 DEF SubmitTurn
<1> HIDE DEF k
<1> QED
  BY <1>1, <1>2, <1>3, <1>4 DEF Becomes, SubmitTurn

LEMMA StartView ==
  ASSUME TypeOK, NEW w \in Workers, WorkerStart(w)
  PROVE  /\ workers[w].pc = "spawned"
         /\ \E k : /\ Becomes(w, k)
                   /\ k.pc = "started" /\ k.agent = session.agent /\ k.task = "waiting"
                   /\ k.aborting = workers[w].aborting /\ k.phase = workers[w].phase
                   /\ k.turn = workers[w].turn /\ k.chan = workers[w].chan
                   /\ k.known = workers[w].known /\ k.reply = workers[w].reply
         /\ UNCHANGED <<session, turns, agents, compactor, closer, log, base, lost, used>>
<1>1. PICK x \in Worker : x = workers[w]
  BY TypesOf
<1> DEFINE k == [x EXCEPT !.pc = "started", !.task = "waiting", !.agent = session.agent]
<1>2. session.agent \in Generations
  BY TypesOf, SessionIs
<1>3. k \in Worker
  BY ZenonT(20), <1>1, <1>2 DEF Worker
<1>4. /\ k.pc = "started" /\ k.agent = session.agent /\ k.task = "waiting"
      /\ k.aborting = x.aborting /\ k.phase = x.phase
      /\ k.turn = x.turn /\ k.chan = x.chan
      /\ k.known = x.known /\ k.reply = x.reply
  BY DEF Worker
<1>5. workers' = [workers EXCEPT ![w] = k]
  BY <1>1, <1>2 DEF WorkerStart
<1> HIDE DEF k
<1> QED
  BY <1>1, <1>3, <1>4, <1>5, <1>2 DEF Becomes, WorkerStart

LEMMA AttachView ==
  ASSUME TypeOK, NEW w \in Workers, WorkerAttach(w)
  PROVE  /\ workers[w].pc = "started"
         /\ session' = [session EXCEPT !.handle = w, !.inFlight = FALSE]
         /\ \E k : /\ Becomes(w, k)
                   /\ k.pc = "receiving" /\ k.agent = workers[w].agent
                   /\ k.task = workers[w].task
                   /\ k.aborting = (workers[w].aborting \/ session.abortRequested)
                   /\ k.phase = workers[w].phase /\ k.turn = workers[w].turn
                   /\ k.chan = workers[w].chan /\ k.known = workers[w].known
                   /\ k.reply = workers[w].reply
         /\ UNCHANGED <<turns, agents, compactor, closer, log, base, lost, used>>
<1>1. PICK x \in Worker : x = workers[w]
  BY TypesOf
<1>2. PICK f \in BOOLEAN : f = (x.aborting \/ session.abortRequested)
  BY TypesOf, SessionIs, WorkerIs
<1> DEFINE k == [x EXCEPT !.pc = "receiving", !.aborting = f]
<1>3. k \in Worker
  BY DEF Worker
<1>4. /\ k.pc = "receiving" /\ k.agent = x.agent
      /\ k.task = x.task
      /\ k.aborting = f
      /\ k.phase = x.phase /\ k.turn = x.turn
      /\ k.chan = x.chan /\ k.known = x.known
      /\ k.reply = x.reply
  BY DEF Worker
<1>5. workers' = [workers EXCEPT ![w] = k]
  BY <1>1, <1>2 DEF WorkerAttach
<1> HIDE DEF k
<1> QED
  BY <1>1, <1>3, <1>4, <1>5, <1>2 DEF Becomes, WorkerAttach

LEMMA JoinView ==
  ASSUME TypeOK, NEW w \in Workers, WorkerJoin(w)
  PROVE  /\ workers[w].pc = "receiving" /\ workers[w].task \in {"returned", "cancelled", "panicked"}
         /\ session' = Forgotten
         /\ \E k : /\ Becomes(w, k)
                   /\ k.pc = (IF workers[w].task = "cancelled" THEN "interrupting" ELSE "done")
                   /\ k.agent = workers[w].agent /\ k.task = workers[w].task
                   /\ k.aborting = workers[w].aborting /\ k.phase = workers[w].phase
                   /\ k.turn = workers[w].turn /\ k.chan = workers[w].chan
                   /\ k.known = workers[w].known
         /\ UNCHANGED <<turns, agents, compactor, closer, log, base, lost, used>>
<1>1. PICK x \in Worker : x = workers[w]
  BY TypesOf
<1>2. PICK r \in {"none", "turn", "aborted", "failed"} : r = JoinReply(w)
  BY <1>1, WorkerIs DEF JoinReply
<1>3. PICK p \in {"done", "interrupting"} : p = IF x.task = "cancelled" THEN "interrupting" ELSE "done"
  OBVIOUS
<1> DEFINE k == [x EXCEPT !.pc = p, !.reply = r]
<1>4. k \in Worker
  BY DEF Worker
<1>5. /\ k.pc = p
      /\ k.agent = x.agent /\ k.task = x.task
      /\ k.aborting = x.aborting /\ k.phase = x.phase
      /\ k.turn = x.turn /\ k.chan = x.chan /\ k.known = x.known
  BY DEF Worker
<1>6. workers' = [workers EXCEPT ![w] = k]
  BY <1>1, <1>2, <1>3 DEF WorkerJoin
<1> HIDE DEF k
<1>7. Becomes(w, k)
  BY <1>4, <1>6 DEF Becomes
<1>8. /\ workers[w].pc = "receiving" /\ workers[w].task \in {"returned", "cancelled", "panicked"}
      /\ session' = Forgotten
      /\ UNCHANGED <<turns, agents, compactor, closer, log, base, lost, used>>
  BY DEF WorkerJoin
<1> QED
  BY <1>1, <1>3, <1>5, <1>7, <1>8

LEMMA ReturnView ==
  ASSUME TypeOK, NEW w \in Workers, TaskReturn(w)
  PROVE  /\ workers[w].task = "running" /\ workers[w].phase = "closed"
         /\ agents' = [agents EXCEPT ![workers[w].agent].lock = "free",
                                ![workers[w].agent].sink = None]
         /\ \E k : /\ Becomes(w, k)
                   /\ k.pc = workers[w].pc /\ k.agent = workers[w].agent /\ k.task = "returned"
                   /\ k.aborting = workers[w].aborting /\ k.phase = workers[w].phase
                   /\ k.turn = workers[w].turn /\ k.chan = workers[w].chan
                   /\ k.known = workers[w].known /\ k.reply = workers[w].reply
         /\ UNCHANGED <<session, turns, compactor, closer, log, base, lost, used>>
<1>1. PICK x \in Worker : x = workers[w]
  BY TypesOf
<1> DEFINE k == [x EXCEPT !.task = "returned"]
<1>2. k \in Worker
  BY <1>1 DEF Worker
<1>3. /\ k.pc = x.pc /\ k.agent = x.agent /\ k.task = "returned"
      /\ k.aborting = x.aborting /\ k.phase = x.phase
      /\ k.turn = x.turn /\ k.chan = x.chan
      /\ k.known = x.known /\ k.reply = x.reply
  BY DEF Worker
<1>4. workers' = [workers EXCEPT ![w] = k]
  BY <1>1 DEF TaskReturn
<1> HIDE DEF k
<1> QED
  BY <1>1, <1>2, <1>3, <1>4 DEF Becomes, TaskReturn

LEMMA CancelView ==
  ASSUME TypeOK, NEW w \in Workers, TaskCancel(w)
  PROVE  /\ workers[w].aborting
         /\ \E k : /\ Becomes(w, k)
                   /\ k.pc = workers[w].pc /\ k.agent = workers[w].agent /\ k.task = "cancelled"
                   /\ k.aborting = workers[w].aborting /\ k.phase = workers[w].phase
                   /\ k.turn = workers[w].turn /\ k.chan = workers[w].chan
                   /\ k.known = workers[w].known /\ k.reply = workers[w].reply
         /\ UNCHANGED <<session, turns, compactor, closer, log, base, lost, used>>
<1>1. PICK x \in Worker : x = workers[w]
  BY TypesOf
<1> DEFINE k == [x EXCEPT !.task = "cancelled"]
<1>2. k \in Worker
  BY <1>1 DEF Worker
<1>3. /\ k.pc = x.pc /\ k.agent = x.agent /\ k.task = "cancelled"
      /\ k.aborting = x.aborting /\ k.phase = x.phase
      /\ k.turn = x.turn /\ k.chan = x.chan
      /\ k.known = x.known /\ k.reply = x.reply
  BY DEF Worker
<1>4. workers' = [workers EXCEPT ![w] = k]
  BY <1>1 DEF TaskCancel
<1> HIDE DEF k
<1> QED
  BY <1>1, <1>2, <1>3, <1>4 DEF Becomes, TaskCancel

LEMMA PanicView ==
  ASSUME TypeOK, NEW w \in Workers, TaskPanic(w)
  PROVE  /\ workers[w].task = "running" /\ workers[w].phase \in {"open", "answered"}
         /\ May("panic") /\ Spend("panic")
         /\ agents' = [agents EXCEPT ![workers[w].agent].lock = "free"]
         /\ \E k : /\ Becomes(w, k)
                   /\ k.pc = workers[w].pc /\ k.agent = workers[w].agent /\ k.task = "panicked"
                   /\ k.aborting = workers[w].aborting /\ k.phase = workers[w].phase
                   /\ k.turn = workers[w].turn /\ k.chan = workers[w].chan
                   /\ k.known = workers[w].known
         /\ UNCHANGED <<session, turns, compactor, closer, log, base, lost>>
<1>1. PICK x \in Worker : x = workers[w]
  BY TypesOf
<1> DEFINE k == [x EXCEPT !.task = "panicked"]
<1>2. k \in Worker
  BY <1>1 DEF Worker
<1>3. /\ k.pc = x.pc /\ k.agent = x.agent /\ k.task = "panicked"
      /\ k.aborting = x.aborting /\ k.phase = x.phase
      /\ k.turn = x.turn /\ k.chan = x.chan /\ k.known = x.known
  BY DEF Worker
<1>4. workers' = [workers EXCEPT ![w] = k]
  BY <1>1 DEF TaskPanic
<1> HIDE DEF k
<1>5. Becomes(w, k)
  BY <1>2, <1>4 DEF Becomes
<1>6. /\ workers[w].task = "running" /\ workers[w].phase \in {"open", "answered"}
      /\ May("panic") /\ Spend("panic")
      /\ agents' = [agents EXCEPT ![workers[w].agent].lock = "free"]
      /\ UNCHANGED <<session, turns, compactor, closer, log, base, lost>>
  BY DEF TaskPanic
<1> QED
  BY <1>1, <1>3, <1>5, <1>6

\* The event at the head of a channel.
LEMMA HeadIs ==
  ASSUME NEW chan \in Seq(Events), chan # <<>>
  PROVE  /\ Head(chan) \in Events /\ Tail(chan) \in Seq(Events)
         /\ 1 \in 1..Len(chan) /\ Head(chan) = chan[1]
         /\ Len(Tail(chan)) = Len(chan) - 1 /\ Len(chan) \in Nat
         /\ \A i \in 1..Len(Tail(chan)) : i + 1 \in 1..Len(chan) /\ Tail(chan)[i] = chan[i + 1]
OBVIOUS

LEMMA EventIs ==
  ASSUME NEW type \in EventTypes, NEW t \in TurnIds
  PROVE  /\ Event(type, t) \in Events
         /\ Event(type, t).type = type /\ Event(type, t).turn = t
BY DEF Event, Events

LEMMA AppendIs ==
  ASSUME NEW s \in Seq(Events), NEW e \in Events
  PROVE  /\ Append(s, e) \in Seq(Events) /\ Len(Append(s, e)) = Len(s) + 1 /\ Len(s) \in Nat
         /\ Append(s, e)[Len(s) + 1] = e /\ \A i \in 1..Len(s) : Append(s, e)[i] = s[i]
OBVIOUS


LEMMA ErrorView ==
  ASSUME TypeOK, NEW w \in Workers, Fits(workers[w]), TaskError(w)
  PROVE  /\ May("error")
         /\ workers[w].task = "running" /\ workers[w].phase = "open"
         /\ Spend("error")
         /\ \E k, e : /\ e \in Events /\ e.type = "response_error" /\ e.turn = workers[w].turn
                      /\ Becomes(w, k)
                      /\ k.pc = workers[w].pc /\ k.agent = workers[w].agent
                      /\ k.task = workers[w].task /\ k.aborting = workers[w].aborting
                      /\ k.phase = workers[w].phase /\ k.turn = workers[w].turn
                      /\ k.chan = Append(workers[w].chan, e) /\ k.known = workers[w].known
                      /\ k.reply = workers[w].reply
         /\ UNCHANGED <<session, turns, agents, compactor, closer, log, base, lost>>
<1>1. PICK x \in Worker : x = workers[w]
  BY TypesOf
<1>2. PICK e \in Events : e = Event("response_error", x.turn) /\ e.type = "response_error" /\ e.turn = x.turn
  <2>1. x.task = "running" /\ x.turn # NoTurn
    BY <1>1 DEF TaskError, Fits
  <2>2. "response_error" \in EventTypes /\ x.turn \in TurnIds
    BY <2>1, WorkerIs, Constants DEF EventTypes
  <2> QED
    BY <2>2, EventIs
<1> DEFINE k == [x EXCEPT !.chan = Append(x.chan, e)]
<1>3. k \in Worker
  BY SMTT(20), <1>1, <1>2 DEF Worker
<1>4. /\ k.pc = x.pc /\ k.agent = x.agent
      /\ k.task = x.task /\ k.aborting = x.aborting
      /\ k.phase = x.phase /\ k.turn = x.turn
      /\ k.chan = Append(x.chan, e) /\ k.known = x.known
      /\ k.reply = x.reply
  BY DEF Worker
<1>5. workers' = [workers EXCEPT ![w] = k]
  BY <1>1, <1>2 DEF TaskError, Push
<1> HIDE DEF k
<1> QED
  BY ZenonT(20), <1>1, <1>3, <1>4, <1>5, <1>2 DEF Becomes, TaskError, Push

LEMMA RespondView ==
  ASSUME TypeOK, NEW w \in Workers, Fits(workers[w]), TaskRespond(w)
  PROVE  /\ workers[w].task = "running" /\ workers[w].phase = "open"
         /\ \E k, e : /\ e \in Events /\ e.type = "response_completed" /\ e.turn = workers[w].turn
                      /\ Becomes(w, k)
                      /\ k.pc = workers[w].pc /\ k.agent = workers[w].agent
                      /\ k.task = workers[w].task /\ k.aborting = workers[w].aborting
                      /\ k.phase = "answered" /\ k.turn = workers[w].turn
                      /\ k.chan = Append(workers[w].chan, e) /\ k.known = workers[w].known
                      /\ k.reply = workers[w].reply
         /\ UNCHANGED <<session, turns, agents, compactor, closer, log, base, lost, used>>
<1>1. PICK x \in Worker : x = workers[w]
  BY TypesOf
<1>2. PICK e \in Events : e = Event("response_completed", x.turn) /\ e.type = "response_completed" /\ e.turn = x.turn
  <2>1. x.task = "running" /\ x.turn # NoTurn
    BY <1>1 DEF TaskRespond, Fits
  <2>2. "response_completed" \in EventTypes /\ x.turn \in TurnIds
    BY <2>1, WorkerIs, Constants DEF EventTypes
  <2> QED
    BY <2>2, EventIs
<1>3. PICK c \in Seq(Events) : c = Append(x.chan, e)
  BY <1>1, WorkerIs, AppendIs
<1> DEFINE k == [x EXCEPT !.phase = "answered", !.chan = c]
<1>4. k \in Worker
  BY DEF Worker
<1>5. /\ k.pc = x.pc /\ k.agent = x.agent
      /\ k.task = x.task /\ k.aborting = x.aborting
      /\ k.phase = "answered" /\ k.turn = x.turn
      /\ k.chan = c /\ k.known = x.known
      /\ k.reply = x.reply
  BY DEF Worker
<1>6. workers' = [workers EXCEPT ![w] = k]
  BY <1>1, <1>2, <1>3 DEF TaskRespond, Push
<1> HIDE DEF k
<1> QED
  BY ZenonT(20), <1>1, <1>4, <1>5, <1>6, <1>2, <1>3 DEF Becomes, TaskRespond, Push

LEMMA CompleteView ==
  ASSUME TypeOK, NEW w \in Workers, Fits(workers[w]), TaskComplete(w)
  PROVE  /\ workers[w].task = "running" /\ workers[w].phase \in {"open", "answered"}
         /\ \E k, e : /\ e \in Events /\ e.type = "turn_completed" /\ e.turn = workers[w].turn
                      /\ Becomes(w, k)
                      /\ k.pc = workers[w].pc /\ k.agent = workers[w].agent
                      /\ k.task = workers[w].task /\ k.aborting = workers[w].aborting
                      /\ k.phase = "closed" /\ k.turn = workers[w].turn
                      /\ k.chan = Append(workers[w].chan, e) /\ k.known = workers[w].known
                      /\ k.reply = workers[w].reply
         /\ UNCHANGED <<session, turns, agents, compactor, closer, log, base, lost, used>>
<1>1. PICK x \in Worker : x = workers[w]
  BY TypesOf
<1>2. PICK e \in Events : e = Event("turn_completed", x.turn) /\ e.type = "turn_completed" /\ e.turn = x.turn
  <2>1. x.task = "running" /\ x.turn # NoTurn
    BY <1>1 DEF TaskComplete, Fits
  <2>2. "turn_completed" \in EventTypes /\ x.turn \in TurnIds
    BY <2>1, WorkerIs, Constants DEF EventTypes
  <2> QED
    BY <2>2, EventIs
<1>3. PICK c \in Seq(Events) : c = Append(x.chan, e)
  BY <1>1, WorkerIs, AppendIs
<1> DEFINE k == [x EXCEPT !.phase = "closed", !.chan = c]
<1>4. k \in Worker
  BY DEF Worker
<1>5. /\ k.pc = x.pc /\ k.agent = x.agent
      /\ k.task = x.task /\ k.aborting = x.aborting
      /\ k.phase = "closed" /\ k.turn = x.turn
      /\ k.chan = c /\ k.known = x.known
      /\ k.reply = x.reply
  BY DEF Worker
<1>6. workers' = [workers EXCEPT ![w] = k]
  BY <1>1, <1>2, <1>3 DEF TaskComplete, Push
<1>7. Becomes(w, k)
  BY <1>4, <1>6 DEF Becomes
<1>8. /\ workers[w].task = "running" /\ workers[w].phase \in {"open", "answered"}
      /\ UNCHANGED <<session, turns, agents, compactor, closer, log, base, lost, used>>
  BY DEF TaskComplete
<1> HIDE DEF k
<1> QED
  BY <1>1, <1>2, <1>5, <1>3, <1>7, <1>8

LEMMA MapView ==
  ASSUME TypeOK, NEW w \in Workers, WorkerMap(w)
  PROVE  /\ workers[w].pc = "receiving" /\ workers[w].chan # <<>>
         /\ \E k, e : /\ e \in Events /\ e = Head(workers[w].chan)
                      /\ AppendThenPublish(e) \/ AppendFailureReported(e)
                           \/ AppendFailureSwallowed(e)
                      /\ Becomes(w, k)
                      /\ k.pc = "receiving" /\ k.agent = workers[w].agent
                      /\ k.task = workers[w].task /\ k.aborting = workers[w].aborting
                      /\ k.phase = workers[w].phase /\ k.turn = workers[w].turn
                      /\ k.chan = Tail(workers[w].chan) /\ k.known = e.turn
         /\ UNCHANGED <<session, agents, compactor, closer, base>>
<1>1. PICK x \in Worker : x = workers[w]
  BY TypesOf
<1>2. PICK e \in Events : e = Head(x.chan)
  <2>1. x.chan \in Seq(Events) /\ x.chan # <<>>
    BY <1>1 DEF WorkerMap, Worker
  <2> QED
    BY <2>1, HeadIs
<1>3. PICK r \in {"none", "turn", "aborted", "failed"} : r = IF x.reply = "none" THEN "turn" ELSE x.reply
  BY DEF Worker
<1>4. PICK c \in Seq(Events) : c = Tail(x.chan)
  <2>1. x.chan \in Seq(Events) /\ x.chan # <<>>
    BY <1>1 DEF WorkerMap, Worker
  <2> QED
    BY <2>1, HeadIs
<1> DEFINE k == [x EXCEPT !.chan = c, !.known = e.turn, !.reply = r]
<1>5. k \in Worker
  BY DEF Worker, Events
<1>6. /\ k.pc = x.pc /\ k.agent = x.agent /\ k.task = x.task /\ k.aborting = x.aborting
      /\ k.phase = x.phase /\ k.turn = x.turn /\ k.chan = c /\ k.known = e.turn
  BY DEF Worker
<1>7. workers' = [workers EXCEPT ![w] = k]
  BY <1>1, <1>2, <1>3, <1>4 DEF WorkerMap
<1>8. Becomes(w, k)
  BY <1>5, <1>7 DEF Becomes
<1> HIDE DEF k
<1>9. /\ workers[w].pc = "receiving" /\ workers[w].chan # <<>> /\ e = Head(workers[w].chan)
      /\ AppendThenPublish(e) \/ AppendFailureReported(e) \/ AppendFailureSwallowed(e)
      /\ UNCHANGED <<session, agents, compactor, closer, base>>
  BY <1>1, <1>2 DEF WorkerMap
<1> QED
  BY <1>1, <1>4, <1>6, <1>8, <1>9

LEMMA InterruptView ==
  ASSUME TypeOK, NEW w \in Workers, WorkerInterrupt(w)
  PROVE  /\ workers[w].pc = "interrupting"
         /\ \E t \in InterruptedTurns(w) :
              /\ turns' = Interrupted(t)
              /\ \/ log' = log \o InterruptEvents(t) /\ UNCHANGED <<lost, used>>
                 \/ /\ May("append") /\ Spend("append")
                    /\ lost' = lost \cup ({t} \cap TurnIds)
                    /\ log' \in {log, log \o InterruptEvents(t)}
         /\ \E k : /\ Becomes(w, k)
                   /\ k.pc = "done" /\ k.agent = workers[w].agent
                   /\ k.task = workers[w].task /\ k.aborting = workers[w].aborting
                   /\ k.phase = workers[w].phase /\ k.turn = workers[w].turn
                   /\ k.chan = workers[w].chan /\ k.known = workers[w].known
         /\ UNCHANGED <<session, agents, compactor, closer, base>>
<1>1. PICK x \in Worker : x = workers[w]
  BY TypesOf
<1>2. PICK r \in {"none", "turn", "aborted", "failed"} : r = AbortReply(x.reply)
  BY DEF Worker, AbortReply
<1> DEFINE k == [x EXCEPT !.pc = "done", !.reply = r]
<1>3. k \in Worker
  BY DEF Worker
<1>4. /\ k.pc = "done" /\ k.agent = x.agent /\ k.task = x.task /\ k.aborting = x.aborting
      /\ k.phase = x.phase /\ k.turn = x.turn /\ k.chan = x.chan /\ k.known = x.known
  BY DEF Worker
<1>5. workers' = [workers EXCEPT ![w] = k]
  BY <1>1, <1>2 DEF WorkerInterrupt
<1> HIDE DEF k
<1> QED
  BY <1>1, <1>3, <1>4, <1>5 DEF Becomes, WorkerInterrupt

LEMMA AbortView ==
  ASSUME TypeOK, AbortTurn
  PROVE  /\ May("abort") /\ Spend("abort") /\ session.handle \in Workers
         /\ session.stored
         /\ session' = [session EXCEPT !.handle = None, !.abortRequested = TRUE]
         /\ \E k : LET w == session.handle IN
                   /\ Becomes(w, k)
                   /\ k.pc = workers[w].pc /\ k.agent = workers[w].agent
                   /\ k.task = workers[w].task /\ k.aborting = TRUE
                   /\ k.phase = workers[w].phase /\ k.turn = workers[w].turn
                   /\ k.chan = workers[w].chan /\ k.known = workers[w].known
         /\ UNCHANGED <<turns, agents, compactor, closer, log, base, lost>>
<1>1. PICK w \in Workers : w = session.handle
  BY TypesOf, SessionIs DEF AbortTurn
<1>2. PICK x \in Worker : x = workers[w]
  BY TypesOf
<1> DEFINE k == [x EXCEPT !.aborting = TRUE]
<1>3. k \in Worker
  BY DEF Worker
<1>4. /\ k.pc = x.pc /\ k.agent = x.agent /\ k.task = x.task /\ k.aborting = TRUE
      /\ k.phase = x.phase /\ k.turn = x.turn /\ k.chan = x.chan /\ k.known = x.known
  BY DEF Worker
<1>5. workers' = [workers EXCEPT ![w] = k]
  BY <1>1, <1>2 DEF AbortTurn
<1> HIDE DEF k
<1> QED
  BY <1>1, <1>2, <1>3, <1>4, <1>5 DEF Becomes, AbortTurn

LEMMA CompactRunView ==
  ASSUME TypeOK, CompactRun
  PROVE  /\ agents' = [agents EXCEPT ![compactor.agent].lock = "free"]
         /\ compactor' = [compactor EXCEPT !.pc = "publishing"]
         /\ \/ UNCHANGED workers
            \/ \E w \in Workers : \E k, e :
                 /\ e \in Events /\ e.turn = 0 /\ e.type = "context_compacted"
                 /\ Becomes(w, k)
                 /\ k.pc = workers[w].pc /\ k.agent = workers[w].agent
                 /\ k.task = workers[w].task /\ k.aborting = workers[w].aborting
                 /\ k.phase = workers[w].phase /\ k.turn = workers[w].turn
                 /\ k.chan = Append(workers[w].chan, e) /\ k.known = workers[w].known
         /\ UNCHANGED <<session, turns, closer, log, base, lost, used>>
<1>1. CASE workers' = workers
  BY <1>1 DEF CompactRun
<1>2. CASE workers' # workers
  <2>1. PICK w \in Workers : w = agents[compactor.agent].sink
    BY <1>2, TypesOf DEF CompactRun, Agent
  <2>2. PICK x \in Worker : x = workers[w]
    BY TypesOf
  <2>3. PICK e \in Events : /\ e = Event("context_compacted", 0)
                            /\ e.turn = 0 /\ e.type = "context_compacted"
    <3>1. "context_compacted" \in EventTypes /\ 0 \in TurnIds
      BY Constants DEF EventTypes
    <3> QED
      BY <3>1, EventIs
  <2> DEFINE k == [x EXCEPT !.chan = Append(x.chan, e)]
  <2>4. k \in Worker
    BY DEF Worker
  <2>5. /\ k.pc = x.pc /\ k.agent = x.agent /\ k.task = x.task /\ k.aborting = x.aborting
        /\ k.phase = x.phase /\ k.turn = x.turn /\ k.chan = Append(x.chan, e)
        /\ k.known = x.known
    BY DEF Worker
  <2>6. workers' = [workers EXCEPT ![w] = k]
    BY <1>2, <2>1, <2>2, <2>3 DEF CompactRun
  <2> HIDE DEF k
  <2>7. \E u \in Workers : \E j, f :
                 /\ f \in Events /\ f.turn = 0 /\ f.type = "context_compacted"
                 /\ Becomes(u, j)
                 /\ j.pc = workers[u].pc /\ j.agent = workers[u].agent
                 /\ j.task = workers[u].task /\ j.aborting = workers[u].aborting
                 /\ j.phase = workers[u].phase /\ j.turn = workers[u].turn
                 /\ j.chan = Append(workers[u].chan, f) /\ j.known = workers[u].known
    BY <2>2, <2>3, <2>4, <2>5, <2>6 DEF Becomes
  <2> QED
    BY <2>7 DEF CompactRun
<1> QED
  BY <1>1, <1>2

-----------------------------------------------------------------------------
(* Every step keeps the types *)

LEMMA Subsets ==
  ASSUME NEW P \in SUBSET Workers, NEW Q \in SUBSET Workers, P \subseteq Q
  PROVE  /\ Cardinality(P) \in Nat /\ Cardinality(Q) \in Nat
         /\ Cardinality(P) <= Cardinality(Q) /\ Cardinality(Q) <= MaxWorkers
         /\ (\E w \in Q : w \notin P) => Cardinality(P) + 1 <= Cardinality(Q)
<1>1. IsFiniteSet(Workers) /\ Cardinality(Workers) = MaxWorkers
  BY Constants, FS_Interval
<1>2. IsFiniteSet(Q) /\ Cardinality(Q) <= MaxWorkers
  BY <1>1, FS_Subset
<1>3. IsFiniteSet(P) /\ Cardinality(P) <= Cardinality(Q)
      /\ (Cardinality(Q) = Cardinality(P) => Q = P)
  BY <1>2, FS_Subset
<1>4. Cardinality(P) \in Nat /\ Cardinality(Q) \in Nat
  BY <1>2, <1>3, FS_CardinalityType
<1> QED
  BY <1>2, <1>3, <1>4

\* What has happened grows by what a budget has left.
Within(u) == u \in [Actions -> Nat] /\ \E b \in Budgets : \A a \in Actions : u[a] <= b[a]

LEMMA SpendIs ==
  ASSUME used \in [Actions -> Nat], NEW a \in Actions, May(a), Spend(a)
  PROVE  /\ Within(used') /\ used'[a] = used[a] + 1
         /\ \A x \in Actions : x # a => used'[x] = used[x]
<1>1. used' = [used EXCEPT ![a] = used[a] + 1] /\ used[a] \in Nat
  BY DEF Spend, More
<1>2. \E b \in Budgets : \A x \in Actions : used'[x] <= b[x]
  BY DEF Spend, May
<1> QED
  BY <1>1, <1>2 DEF Within

\* A step of one worker.
LEMMA TypedWorker ==
  ASSUME Typed, NEW w \in Workers, NEW k, Becomes(w, k), Fits(k),
         w \in Past => k.pc \notin {"unused", "spawned"} /\ k.task # "waiting",
         session' \in Session, session'.agent = session.agent,
         session'.handle \in {None, w, session.handle},
         session'.handle = w => k.pc = "receiving",
         agents' \in [Generations -> Agent],
         \A g \in Generations : agents'[g].next = agents[g].next,
         turns' \in [TurnIds -> Statuses], log' \in Seq(Events), base' \in 0..Len(log'),
         lost' \subseteq TurnIds, Within(used'), used'["clear"] = used["clear"],
         used'["restart"] = used["restart"],
         compactor' \in [pc : {"idle", "read", "locked", "publishing"}, agent : Generations],
         UNCHANGED closer
  PROVE  Typed'
<1>1. TypeOK /\ Counted /\ WorkersFit /\ HandleReceives
  BY DEF Typed
<1>2. /\ workers' \in [Workers -> Worker] /\ workers'[w] = k
      /\ \A v \in Workers : v # w => workers'[v] = workers[v]
  BY <1>1, BecomesView
<1>3. TypeOK'
  BY <1>1, <1>2 DEF TypeOK, Within
<1>4. Counted'
  <2>1. Past \subseteq Past'
    BY <1>2 DEF Past
  <2>2. Cardinality(Past) <= Cardinality(Past') /\ Cardinality(Past) \in Nat /\ Cardinality(Past') \in Nat
    <3>1. Past \in SUBSET Workers /\ Past' \in SUBSET Workers
      BY DEF Past
    <3> QED
      BY <2>1, <3>1, Subsets
  <2>3. \A g \in Generations : agents[g].next \in Nat /\ agents[g].next <= 1 + Cardinality(Past)
    BY <1>1, TypesOf DEF Counted, Agent
  <2>4. \A g \in Generations : agents'[g].next <= 1 + Cardinality(Past')
    BY <2>2, <2>3
  <2>5. session'.agent = 1 + used'["clear"] + used'["restart"]
    BY <1>1 DEF Counted
  <2> QED
    BY <2>4, <2>5 DEF Counted, Within
<1>5. WorkersFit'
  BY <1>1, <1>2 DEF WorkersFit
<1>6. HandleReceives'
  BY <1>1, <1>2, SessionIs, TypesOf DEF HandleReceives
<1> QED
  BY <1>3, <1>4, <1>5, <1>6 DEF Typed

\* A step that leaves the workers alone.
LEMMA TypedAlone ==
  ASSUME Typed, UNCHANGED workers,
         session' \in Session, session'.handle \in {None, session.handle},
         session'.agent = 1 + used'["clear"] + used'["restart"],
         agents' \in [Generations -> Agent],
         \A g \in Generations : agents'[g].next = agents[g].next,
         turns' \in [TurnIds -> Statuses], log' \in Seq(Events), base' \in 0..Len(log'),
         lost' \subseteq TurnIds, Within(used'),
         compactor' \in [pc : {"idle", "read", "locked", "publishing"}, agent : Generations],
         closer' \in [pc : {"idle", "waiting", "deleting"}, agent : Generations]
  PROVE  Typed'
<1>1. TypeOK /\ Counted /\ WorkersFit /\ HandleReceives
  BY DEF Typed
<1>2. TypeOK'
  BY <1>1 DEF TypeOK, Within
<1>3. Counted'
  BY <1>1 DEF Counted, Past, Within
<1>4. WorkersFit'
  BY <1>1 DEF WorkersFit
<1>5. HandleReceives'
  BY <1>1 DEF HandleReceives
<1> QED
  BY <1>2, <1>3, <1>4, <1>5 DEF Typed

LEMMA BeginView ==
  ASSUME Typed, NEW w \in Workers, TaskBegin(w)
  PROVE  \E n \in 1..MaxWorkers, g \in Generations : \E k, e, c :
           /\ workers[w].task = "waiting" /\ g = workers[w].agent /\ n = agents[g].next
           /\ agents[g].lock = "free"
           /\ c \in Agent /\ agents' = [agents EXCEPT ![g] = c]
           /\ c.lock = "task" /\ c.sink = w /\ c.next = n + 1
           /\ e \in Events /\ e.type = "turn_started" /\ e.turn = n
           /\ Becomes(w, k)
           /\ k.pc = workers[w].pc /\ k.agent = g
           /\ k.task = "running" /\ k.aborting = workers[w].aborting
           /\ k.phase = "open" /\ k.turn = n
           /\ k.chan = Append(workers[w].chan, e) /\ k.known = workers[w].known
           /\ Cardinality(Past) + 1 <= Cardinality(Past')
           /\ UNCHANGED <<session, turns, compactor, closer, log, base, lost, used>>
<1>1. TypeOK /\ Counted /\ WorkersFit
  BY DEF Typed
<1>2. PICK x \in Worker : x = workers[w]
  BY <1>1, TypesOf
<1>3. PICK g \in Generations : g = workers[w].agent
  BY <1>2 DEF Worker
<1>4. Past \in SUBSET Workers /\ w \notin Past /\ workers[w].task = "waiting"
  BY DEF Past, TaskBegin
<1>5. PICK n \in 1..MaxWorkers : n = agents[g].next
  <2>1. agents[g].next \in 1..(MaxWorkers + 1) /\ agents[g].next <= 1 + Cardinality(Past)
    BY <1>1, TypesOf DEF Counted, Agent
  <2>2. Workers \in SUBSET Workers /\ \E v \in Workers : v \notin Past
    BY <1>4
  <2>3. Cardinality(Past) \in Nat /\ Cardinality(Past) + 1 <= Cardinality(Workers)
        /\ Cardinality(Workers) <= MaxWorkers /\ Cardinality(Workers) \in Nat
    BY <1>4, <2>2, Subsets
  <2>4. agents[g].next <= MaxWorkers
    BY <2>1, <2>3, Constants
  <2> QED
    BY <2>1, <2>4, Constants
<1>6. PICK e \in Events : e = Event("turn_started", n) /\ e.type = "turn_started" /\ e.turn = n
  <2>1. "turn_started" \in EventTypes /\ n \in TurnIds
    BY Constants DEF EventTypes
  <2> QED
    BY <2>1, EventIs
<1>7. PICK q \in Seq(Events) : q = Append(x.chan, e)
  BY WorkerIs, AppendIs
<1> DEFINE k == [x EXCEPT !.task = "running", !.phase = "open", !.turn = n, !.chan = q]
           c == [lock |-> "task", sink |-> w, next |-> n + 1]
<1>8. k \in Worker
  BY DEF Worker
<1>9. /\ k.pc = x.pc /\ k.agent = x.agent /\ k.task = "running" /\ k.aborting = x.aborting
      /\ k.phase = "open" /\ k.turn = n /\ k.chan = q /\ k.known = x.known
  BY DEF Worker
<1>10. workers' = [workers EXCEPT ![w] = k]
  BY <1>2, <1>3, <1>5, <1>6, <1>7 DEF TaskBegin
<1>11. /\ agents' = [agents EXCEPT ![g] = c] /\ agents[g].lock = "free"
       /\ UNCHANGED <<session, turns, compactor, closer, log, base, lost, used>>
  BY <1>3, <1>5 DEF TaskBegin, Begun
<1>12. c \in Agent /\ c.lock = "task" /\ c.sink = w /\ c.next = n + 1
  BY Constants DEF Agent
<1> HIDE DEF k, c
<1>13. Becomes(w, k)
  BY <1>8, <1>10 DEF Becomes
<1>14. Cardinality(Past) + 1 <= Cardinality(Past')
  <2>1. /\ workers'[w] = k /\ \A v \in Workers : v # w => workers'[v] = workers[v]
    BY <1>1, <1>13, BecomesView
  <2>2. x.pc \notin {"unused", "spawned"}
    BY <1>1, <1>2, <1>4 DEF WorkersFit, Fits
  <2>3. Past \subseteq Past' /\ w \in Past' /\ Past' \in SUBSET Workers
    BY <1>4, <1>9, <2>1, <2>2 DEF Past
  <2> QED
    BY <1>4, <2>3, Subsets
<1>15. /\ k.pc = workers[w].pc /\ k.agent = g /\ k.task = "running"
       /\ k.aborting = workers[w].aborting /\ k.phase = "open" /\ k.turn = n
       /\ k.chan = Append(workers[w].chan, e) /\ k.known = workers[w].known
  BY <1>2, <1>3, <1>7, <1>9
<1> WITNESS n \in 1..MaxWorkers, g \in Generations, k, e, c
<1> QED
  BY <1>3, <1>4, <1>5, <1>6, <1>11, <1>12, <1>13, <1>14, <1>15

\* Nothing but the session, or one field of an agent, changes.
LEMMA SameTypes ==
  ASSUME Typed
  PROVE  /\ TypeOK /\ Counted /\ WorkersFit /\ HandleReceives
         /\ session \in Session /\ turns \in [TurnIds -> Statuses]
         /\ agents \in [Generations -> Agent] /\ workers \in [Workers -> Worker]
         /\ log \in Seq(Events) /\ base \in 0..Len(log) /\ lost \subseteq TurnIds
         /\ Within(used) /\ session.agent = 1 + used["clear"] + used["restart"]
         /\ compactor \in [pc : {"idle", "read", "locked", "publishing"}, agent : Generations]
         /\ closer \in [pc : {"idle", "waiting", "deleting"}, agent : Generations]
<1>1. TypeOK /\ Counted /\ WorkersFit /\ HandleReceives
  BY DEF Typed
<1> QED
  BY <1>1, TypesOf DEF Counted, Within

LEMMA TypedSubmit ==
  ASSUME Typed, NEW w \in Workers, SubmitTurn(w)
  PROVE  Typed'
<1>1. PICK k : /\ Becomes(w, k)
               /\ k.pc = "spawned" /\ k.agent = workers[w].agent
               /\ k.task = workers[w].task /\ k.aborting = workers[w].aborting
               /\ k.phase = workers[w].phase /\ k.turn = workers[w].turn
               /\ k.chan = workers[w].chan /\ k.known = workers[w].known
  BY SameTypes, SubmitView
<1>2. /\ workers[w].pc = "unused" /\ SubmitGuard /\ session' = Accepted
      /\ UNCHANGED <<turns, agents, compactor, closer, log, base, lost, used>>
  BY SameTypes, SubmitView
<1>3. Fits(workers[w]) /\ Fits(k)
  <2>1. Fits(workers[w])
    BY SameTypes DEF WorkersFit
  <2> QED
    BY <1>1, <1>2, <2>1 DEF Fits, Pushed
<1>4. /\ session' \in Session /\ session'.agent = session.agent
      /\ session'.handle = None
  BY <1>2, SameTypes DEF Accepted, Session, SubmitGuard
<1>5. w \notin Past
  BY <1>2 DEF Past
<1>6. session'.handle # w
  BY <1>4, Constants
<1> QED
  BY <1>1, <1>2, <1>3, <1>4, <1>5, <1>6, SameTypes, TypedWorker

LEMMA TypedStart ==
  ASSUME Typed, NEW w \in Workers, WorkerStart(w)
  PROVE  Typed'
<1>1. PICK k : /\ Becomes(w, k)
               /\ k.pc = "started" /\ k.agent = session.agent
               /\ k.task = "waiting" /\ k.aborting = workers[w].aborting
               /\ k.phase = workers[w].phase /\ k.turn = workers[w].turn
               /\ k.chan = workers[w].chan /\ k.known = workers[w].known
  BY SameTypes, StartView
<1>2. /\ workers[w].pc = "spawned"
      /\ UNCHANGED <<session, turns, agents, compactor, closer, log, base, lost, used>>
  BY SameTypes, StartView
<1>3. Fits(k)
  <2>1. Fits(workers[w])
    BY SameTypes DEF WorkersFit
  <2> QED
    BY <1>1, <1>2, <2>1 DEF Fits, Pushed
<1>4. w \notin Past
  BY <1>2 DEF Past
<1>5. session.handle # w
  BY <1>2, SameTypes, Constants DEF HandleReceives
<1> QED
  BY <1>1, <1>2, <1>3, <1>4, <1>5, SameTypes, TypedWorker

LEMMA TypedAttach ==
  ASSUME Typed, NEW w \in Workers, WorkerAttach(w)
  PROVE  Typed'
<1>1. PICK k : /\ Becomes(w, k)
               /\ k.pc = "receiving" /\ k.agent = workers[w].agent
               /\ k.task = workers[w].task
               /\ k.aborting = (workers[w].aborting \/ session.abortRequested)
               /\ k.phase = workers[w].phase /\ k.turn = workers[w].turn
               /\ k.chan = workers[w].chan /\ k.known = workers[w].known
  BY ZenonT(20), SameTypes, AttachView
<1>2. /\ workers[w].pc = "started" /\ session' = [session EXCEPT !.handle = w, !.inFlight = FALSE]
      /\ UNCHANGED <<turns, agents, compactor, closer, log, base, lost, used>>
  BY SameTypes, AttachView
<1>3. Fits(k)
  <2>1. Fits(workers[w])
    BY SameTypes DEF WorkersFit
  <2>2. workers[w].task # "cancelled" /\ workers[w].task # "none"
    BY <1>2, <2>1 DEF Fits
  <2> QED
    BY <1>1, <1>2, <2>1, <2>2 DEF Fits, Pushed
<1>4. session' \in Session /\ session'.agent = session.agent /\ session'.handle = w
  BY <1>2, SameTypes DEF Session
<1>5. w \in Past => k.pc \notin {"unused", "spawned"} /\ k.task # "waiting"
  BY <1>1 DEF Past
<1> QED
  BY <1>1, <1>2, <1>3, <1>4, <1>5, SameTypes, TypedWorker

\* The three outcomes of an append.
\* What a failed append leaves in the transcript: the event itself or not, and behind it
\* the response_error that reports it or not.
LEMMA FailureLog ==
  ASSUME log \in Seq(Events), NEW e \in Events,
         AppendFailureReported(e) \/ AppendFailureSwallowed(e)
  PROVE  \E r \in Events :
           /\ r.type = "response_error" /\ r.turn = e.turn
           /\ AppendFailureReported(e) => log' \in {Append(log, r), Append(Append(log, e), r)}
           /\ AppendFailureSwallowed(e) =>
                log' \in {log, Append(log, e), Append(log, r), Append(Append(log, e), r)}
<1>1. PICK r \in Events : r = ReportOf(e) /\ r.type = "response_error" /\ r.turn = e.turn
  <2>1. "response_error" \in EventTypes /\ e.turn \in TurnIds
    BY DEF EventTypes, Events
  <2> QED
    BY <2>1, EventIs DEF ReportOf
<1>2. /\ log \o <<>> = log /\ log \o <<e>> = Append(log, e) /\ log \o <<r>> = Append(log, r)
      /\ Append(log, e) \o <<>> = Append(log, e)
      /\ Append(log, e) \o <<r>> = Append(Append(log, e), r)
  OBVIOUS
<1>3. StoredAnyway(e) = {<<>>, <<e>>} /\ StoredAnyway(r) = {<<>>, <<r>>}
  BY DEF StoredAnyway
<1>4. ASSUME AppendFailureReported(e)
      PROVE  log' \in {Append(log, r), Append(Append(log, e), r)}
  <2>1. PICK kept \in StoredAnyway(e) : log' = Append(log \o kept, r)
    BY <1>1, <1>4 DEF AppendFailureReported
  <2> QED
    BY <1>2, <1>3, <2>1
<1>5. ASSUME AppendFailureSwallowed(e)
      PROVE  log' \in {log, Append(log, e), Append(log, r), Append(Append(log, e), r)}
  <2>1. PICK kept \in StoredAnyway(e), report \in StoredAnyway(r) : log' = log \o kept \o report
    BY <1>1, <1>5 DEF AppendFailureSwallowed
  <2>2. kept = <<>> \/ kept = <<e>>
    BY <1>3
  <2>3. report = <<>> \/ report = <<r>>
    BY <1>3
  <2> QED
    BY <1>2, <2>1, <2>2, <2>3
<1> QED
  BY <1>1, <1>4, <1>5

\* The transcript then.
LEMMA LongerLog ==
  ASSUME log \in Seq(Events), NEW e \in Events, NEW r \in Events,
         log' \in {log, Append(log, e), Append(log, r), Append(Append(log, e), r)}
  PROVE  /\ log' \in Seq(Events) /\ Len(log) \in Nat /\ Len(log') \in Nat /\ Len(log') >= Len(log)
         /\ \A i \in 1..Len(log) : i \in 1..Len(log') /\ log'[i] = log[i]
         /\ \A i \in 1..Len(log') :
                \/ i \in 1..Len(log)
                \/ i = Len(log) + 1 /\ log'[i] \in {e, r}
                \/ i = Len(log) + 2 /\ log'[i] = r
         /\ Len(log') <= Len(log) + 2
<1>1. /\ Append(log, e) \in Seq(Events) /\ Len(Append(log, e)) = Len(log) + 1 /\ Len(log) \in Nat
      /\ Append(log, e)[Len(log) + 1] = e /\ \A i \in 1..Len(log) : Append(log, e)[i] = log[i]
  BY AppendIs
<1>2. /\ Append(log, r) \in Seq(Events) /\ Len(Append(log, r)) = Len(log) + 1
      /\ Append(log, r)[Len(log) + 1] = r /\ \A i \in 1..Len(log) : Append(log, r)[i] = log[i]
  BY AppendIs
<1>3. PICK p \in Seq(Events) : p = Append(log, e)
  BY <1>1
<1>4. /\ Append(p, r) \in Seq(Events) /\ Len(Append(p, r)) = Len(p) + 1 /\ Len(p) \in Nat
      /\ Append(p, r)[Len(p) + 1] = r /\ \A i \in 1..Len(p) : Append(p, r)[i] = p[i]
  BY AppendIs
<1>5. CASE log' = log
  BY <1>1, <1>5
<1>6. CASE log' = Append(log, e)
  BY <1>1, <1>6
<1>7. CASE log' = Append(log, r)
  BY <1>1, <1>2, <1>7
<1>8. CASE log' = Append(p, r)
  <2>1. \A i \in 1..Len(log) : i \in 1..Len(p) /\ log'[i] = log[i]
    BY <1>1, <1>3, <1>4, <1>8
  <2>2. log'[Len(log) + 1] = e
    <3>1. Len(log) + 1 \in 1..Len(p)
      BY <1>1, <1>3
    <3> QED
      BY <1>1, <1>3, <1>4, <1>8, <3>1
  <2>3. Len(log') = Len(log) + 2 /\ log'[Len(log) + 2] = r
    BY <1>1, <1>3, <1>4, <1>8
  <2>4. \A i \in 1..Len(log') : i \in 1..Len(log) \/ i = Len(log) + 1 \/ i = Len(log) + 2
    BY <1>1, <2>3
  <2> QED
    BY <1>1, <1>4, <1>8, <2>1, <2>2, <2>3, <2>4
<1> QED
  BY <1>3, <1>5, <1>6, <1>7, <1>8

LEMMA TypedOutcome ==
  ASSUME Typed, NEW e \in Events,
         AppendThenPublish(e) \/ AppendFailureReported(e) \/ AppendFailureSwallowed(e)
  PROVE  /\ turns' \in [TurnIds -> Statuses] /\ log' \in Seq(Events)
         /\ base \in 0..Len(log') /\ lost' \subseteq TurnIds /\ Within(used')
         /\ \A a \in Actions \ {"append"} : used'[a] = used[a]
<1>1. e.turn \in TurnIds /\ Len(log) \in Nat /\ base \in 0..Len(log)
  BY SameTypes DEF Events
<1>2. CASE AppendThenPublish(e)
  <2>1. turns' = [turns EXCEPT ![e.turn] = ApplyTurnRuntimeEvent(turns[e.turn], e.type)]
    BY <1>2 DEF AppendThenPublish
  <2>2. turns[e.turn] \in Statuses
    BY <1>1, SameTypes
  <2>3. ApplyTurnRuntimeEvent(turns[e.turn], e.type) \in Statuses
    BY <2>2, ApplyType
  <2>4. turns' \in [TurnIds -> Statuses]
    BY <2>1, <2>3, SameTypes
  <2>5. log' \in Seq(Events) /\ Len(log') = Len(log) + 1
    BY <1>2, SameTypes, AppendIs DEF AppendThenPublish
  <2> QED
    BY <1>1, <1>2, <2>4, <2>5, SameTypes DEF AppendThenPublish
<1>3. CASE AppendFailureReported(e)
  <2>1. "Failed" \in Statuses
    BY DEF Statuses
  <2>2. turns' \in [TurnIds -> Statuses]
    BY <1>3, <2>1, SameTypes DEF AppendFailureReported
  <2>3. PICK r \in Events : log' \in {log, Append(log, e), Append(log, r), Append(Append(log, e), r)}
    BY <1>3, SameTypes, FailureLog
  <2>4. log' \in Seq(Events) /\ Len(log') \in Nat /\ Len(log') >= Len(log)
    BY <2>3, SameTypes, LongerLog
  <2>5. Within(used') /\ \A a \in Actions \ {"append"} : used'[a] = used[a]
    <3>1. "append" \in Actions
      BY DEF Actions
    <3> QED
      BY <1>3, <3>1, SameTypes, SpendIs DEF AppendFailureReported, Within
  <2> QED
    BY <1>1, <1>3, <2>2, <2>4, <2>5, SameTypes DEF AppendFailureReported
<1>4. CASE AppendFailureSwallowed(e)
  <2>1. "Failed" \in Statuses
    BY DEF Statuses
  <2>2. turns' \in [TurnIds -> Statuses]
    BY <1>4, <2>1, SameTypes DEF AppendFailureSwallowed
  <2>3. Within(used') /\ \A a \in Actions \ {"append"} : used'[a] = used[a]
    <3>1. "append" \in Actions
      BY DEF Actions
    <3> QED
      BY <1>4, <3>1, SameTypes, SpendIs DEF AppendFailureSwallowed, Within
  <2>4. PICK r \in Events : log' \in {log, Append(log, e), Append(log, r), Append(Append(log, e), r)}
    BY <1>4, SameTypes, FailureLog
  <2>5. log' \in Seq(Events) /\ Len(log') \in Nat /\ Len(log') >= Len(log)
    BY <2>4, SameTypes, LongerLog
  <2> QED
    BY <1>1, <1>4, <2>2, <2>3, <2>5, SameTypes DEF AppendFailureSwallowed
<1> QED
  BY <1>2, <1>3, <1>4

LEMMA TypedMap ==
  ASSUME Typed, NEW w \in Workers, WorkerMap(w)
  PROVE  Typed'
<1>1. PICK k, e : /\ e \in Events /\ e = Head(workers[w].chan)
                  /\ AppendThenPublish(e) \/ AppendFailureReported(e)
                       \/ AppendFailureSwallowed(e)
                  /\ Becomes(w, k)
                  /\ k.pc = "receiving" /\ k.agent = workers[w].agent
                  /\ k.task = workers[w].task /\ k.aborting = workers[w].aborting
                  /\ k.phase = workers[w].phase /\ k.turn = workers[w].turn
                  /\ k.chan = Tail(workers[w].chan) /\ k.known = e.turn
  BY SameTypes, MapView
<1>2. /\ workers[w].pc = "receiving" /\ workers[w].chan # <<>>
      /\ UNCHANGED <<session, agents, compactor, closer, base>>
  BY SameTypes, MapView
<1>3. Fits(k)
  <2>1. Fits(workers[w]) /\ workers[w].chan \in Seq(Events)
    BY SameTypes, WorkerIs DEF WorkersFit
  <2>2. /\ e = workers[w].chan[1] /\ 1 \in 1..Len(workers[w].chan)
        /\ \A i \in 1..Len(k.chan) : /\ i + 1 \in 1..Len(workers[w].chan)
                                     /\ k.chan[i] = workers[w].chan[i + 1]
    <3>1. PICK chan \in Seq(Events) : chan = workers[w].chan
      BY <2>1
    <3>2. chan # <<>>
      BY <1>2, <3>1
    <3>3. e = Head(chan)
      BY <1>1, <3>1
    <3>4. k.chan = Tail(chan)
      BY <1>1, <3>1
    <3> QED
      BY <3>1, <3>2, <3>3, <3>4, HeadIs
  <2>3. \A i \in 1..Len(k.chan) : Pushed(k, k.chan[i])
    BY <1>1, <2>1, <2>2 DEF Fits, Pushed
  <2>4. e.turn \in {0, k.turn}
    BY <1>1, <2>1, <2>2 DEF Fits, Pushed
  <2> QED
    BY <1>1, <1>2, <2>1, <2>3, <2>4 DEF Fits
<1>4. /\ turns' \in [TurnIds -> Statuses] /\ log' \in Seq(Events)
      /\ base \in 0..Len(log') /\ lost' \subseteq TurnIds /\ Within(used')
      /\ used'["clear"] = used["clear"] /\ used'["restart"] = used["restart"]
  <2>1. "clear" \in Actions \ {"append"} /\ "restart" \in Actions \ {"append"}
    BY DEF Actions
  <2>2. AppendThenPublish(e) \/ AppendFailureReported(e) \/ AppendFailureSwallowed(e)
    BY <1>1
  <2>3. /\ turns' \in [TurnIds -> Statuses] /\ log' \in Seq(Events)
        /\ base \in 0..Len(log') /\ lost' \subseteq TurnIds /\ Within(used')
        /\ \A a \in Actions \ {"append"} : used'[a] = used[a]
    BY <1>1, <2>2, TypedOutcome
  <2> QED
    BY <1>2, <2>1, <2>3
<1>5. w \in Past => k.pc \notin {"unused", "spawned"} /\ k.task # "waiting"
  BY <1>1 DEF Past
<1> QED
  BY <1>1, <1>2, <1>3, <1>4, <1>5, SameTypes, TypedWorker

LEMMA TypedJoin ==
  ASSUME Typed, NEW w \in Workers, WorkerJoin(w)
  PROVE  Typed'
<1>1. PICK k : /\ Becomes(w, k)
               /\ k.pc = (IF workers[w].task = "cancelled" THEN "interrupting" ELSE "done")
               /\ k.agent = workers[w].agent
               /\ k.task = workers[w].task /\ k.aborting = workers[w].aborting
               /\ k.phase = workers[w].phase /\ k.turn = workers[w].turn
               /\ k.chan = workers[w].chan /\ k.known = workers[w].known
  BY SameTypes, JoinView
<1>2. /\ workers[w].pc = "receiving" /\ workers[w].task \in {"returned", "cancelled", "panicked"}
      /\ session' = Forgotten
      /\ UNCHANGED <<turns, agents, compactor, closer, log, base, lost, used>>
  BY SameTypes, JoinView
<1>3. Fits(k)
  <2>1. Fits(workers[w])
    BY SameTypes DEF WorkersFit
  <2> QED
    BY <1>1, <1>2, <2>1 DEF Fits, Pushed
<1>4. session' \in Session /\ session'.agent = session.agent /\ session'.handle = None
  BY <1>2, SameTypes DEF Forgotten, Session
<1>5. w \in Past => k.pc \notin {"unused", "spawned"} /\ k.task # "waiting"
  BY <1>1, <1>2 DEF Past
<1>6. session'.handle # w
  BY <1>4, Constants
<1> QED
  BY <1>1, <1>2, <1>3, <1>4, <1>5, <1>6, SameTypes, TypedWorker

\* What an interrupted worker leaves in the table and in the transcript.
LEMMA InterruptedIs ==
  ASSUME Typed, NEW w \in Workers, NEW t \in InterruptedTurns(w)
  PROVE  /\ Interrupted(t) \in [TurnIds -> Statuses]
         /\ \A u \in TurnIds : Interrupted(t)[u] =
              IF u = t /\ turns[u] \in {"Queued", "Running"} THEN "Failed" ELSE turns[u]
         /\ t \in TurnIds \/ t = NoTurn
         /\ log \o InterruptEvents(t) \in Seq(Events)
         /\ t = NoTurn => log \o InterruptEvents(t) = log
         /\ t # NoTurn => \E e \in Events : /\ e.type = "turn_interrupted" /\ e.turn = t
                                            /\ log \o InterruptEvents(t) = Append(log, e)
         /\ Len(log \o InterruptEvents(t)) >= Len(log)
<1>1. turns \in [TurnIds -> Statuses] /\ log \in Seq(Events) /\ workers[w] \in Worker
  BY SameTypes
<1>2. /\ Interrupted(t) \in [TurnIds -> Statuses]
      /\ \A u \in TurnIds : Interrupted(t)[u] =
              IF u = t /\ turns[u] \in {"Queued", "Running"} THEN "Failed" ELSE turns[u]
  BY <1>1 DEF Interrupted, Statuses
<1>3. t \in TurnIds \/ t = NoTurn
  BY <1>1, WorkerIs DEF InterruptedTurns, RunningTurns
<1>4. CASE t = NoTurn
  <2>1. InterruptEvents(t) = <<>>
    BY <1>4 DEF InterruptEvents
  <2>2. log \o <<>> = log
    BY <1>1
  <2> QED
    BY <1>1, <1>2, <1>3, <1>4, <2>1, <2>2
<1>5. CASE t # NoTurn
  <2> DEFINE e == Event("turn_interrupted", t)
  <2>1. e \in Events /\ e.type = "turn_interrupted" /\ e.turn = t
    BY <1>3, <1>5, EventIs DEF EventTypes
  <2>2. InterruptEvents(t) = <<e>>
    BY <1>5 DEF InterruptEvents
  <2> HIDE DEF e
  <2>3. log \o <<e>> = Append(log, e)
    BY <1>1, <2>1
  <2>4. Append(log, e) \in Seq(Events) /\ Len(Append(log, e)) >= Len(log)
    BY <1>1, <2>1, AppendIs
  <2> QED
    BY <1>2, <1>3, <1>5, <2>1, <2>2, <2>3, <2>4
<1> QED
  BY <1>4, <1>5

LEMMA TypedInterrupt ==
  ASSUME Typed, NEW w \in Workers, WorkerInterrupt(w)
  PROVE  Typed'
<1>1. PICK k : /\ Becomes(w, k)
               /\ k.pc = "done" /\ k.agent = workers[w].agent
               /\ k.task = workers[w].task /\ k.aborting = workers[w].aborting
               /\ k.phase = workers[w].phase /\ k.turn = workers[w].turn
               /\ k.chan = workers[w].chan /\ k.known = workers[w].known
  BY SameTypes, InterruptView
<1>2. workers[w].pc = "interrupting" /\ UNCHANGED <<session, agents, compactor, closer, base>>
  BY SameTypes, InterruptView
<1>3. PICK t \in InterruptedTurns(w) :
              /\ turns' = Interrupted(t)
              /\ \/ log' = log \o InterruptEvents(t) /\ UNCHANGED <<lost, used>>
                 \/ /\ May("append") /\ Spend("append")
                    /\ lost' = lost \cup ({t} \cap TurnIds)
                    /\ log' \in {log, log \o InterruptEvents(t)}
  BY SameTypes, InterruptView
<1>4. Fits(k)
  <2>1. Fits(workers[w])
    BY SameTypes DEF WorkersFit
  <2> QED
    BY <1>1, <1>2, <2>1 DEF Fits, Pushed
<1>5. turns' \in [TurnIds -> Statuses]
  BY <1>3, InterruptedIs
<1>6. /\ log' \in Seq(Events) /\ base' \in 0..Len(log') /\ lost' \subseteq TurnIds
      /\ Within(used') /\ used'["clear"] = used["clear"] /\ used'["restart"] = used["restart"]
  <2>1. log \in Seq(Events) /\ base' = base /\ base \in 0..Len(log) /\ lost \subseteq TurnIds
        /\ used \in [Actions -> Nat] /\ Within(used)
    BY <1>2, SameTypes DEF Within
  <2>2. CASE log' = log \o InterruptEvents(t) /\ UNCHANGED <<lost, used>>
    <3>1. log' \in Seq(Events) /\ Len(log') >= Len(log)
      BY <2>2, InterruptedIs
    <3>2. Len(log) \in Nat /\ Len(log') \in Nat
      BY <2>1, <3>1
    <3> QED
      BY <2>1, <2>2, <3>1, <3>2
  <2>3. CASE /\ May("append") /\ Spend("append")
             /\ lost' = lost \cup ({t} \cap TurnIds)
             /\ log' \in {log, log \o InterruptEvents(t)}
    <3>1. "append" \in Actions /\ "clear" \in Actions /\ "restart" \in Actions
      BY DEF Actions
    <3>2. /\ Within(used') /\ used'["clear"] = used["clear"]
          /\ used'["restart"] = used["restart"]
      BY <2>1, <2>3, <3>1, SpendIs
    <3>3. log' \in Seq(Events) /\ Len(log') >= Len(log)
      <4>1. CASE log' = log
        BY <2>1, <4>1
      <4>2. CASE log' = log \o InterruptEvents(t)
        BY <4>2, InterruptedIs
      <4> QED
        BY <2>3, <4>1, <4>2
    <3>4. Len(log) \in Nat /\ Len(log') \in Nat
      BY <2>1, <3>3
    <3>5. lost' \subseteq TurnIds /\ base' \in 0..Len(log')
      BY <2>1, <2>3, <3>3, <3>4
    <3> QED
      BY <3>2, <3>3, <3>5
  <2> QED
    BY <1>3, <2>2, <2>3
<1>7. w \in Past => k.pc \notin {"unused", "spawned"} /\ k.task # "waiting"
  BY <1>1 DEF Past
<1>8. session.handle # w
  BY <1>2, SameTypes, Constants DEF HandleReceives
<1> QED
  BY <1>1, <1>2, <1>4, <1>5, <1>6, <1>7, <1>8, SameTypes, TypedWorker

\* A longer channel still fits.
LEMMA FitsAppend ==
  ASSUME NEW x \in Worker, NEW e \in Events, NEW k,
         \A i \in 1..Len(x.chan) : Pushed(k, x.chan[i]), Pushed(k, e),
         k.chan = Append(x.chan, e)
  PROVE  \A i \in 1..Len(k.chan) : Pushed(k, k.chan[i])
<1>1. PICK chan \in Seq(Events) : chan = x.chan
  BY WorkerIs
<1>2. k.chan = Append(chan, e) /\ \A i \in 1..Len(chan) : Pushed(k, chan[i])
  BY <1>1
<1>3. /\ Len(Append(chan, e)) = Len(chan) + 1 /\ Len(chan) \in Nat
      /\ Append(chan, e)[Len(chan) + 1] = e /\ \A i \in 1..Len(chan) : Append(chan, e)[i] = chan[i]
  BY AppendIs
<1>4. ASSUME NEW i \in 1..Len(k.chan) PROVE Pushed(k, k.chan[i])
  <2>1. i = Len(chan) + 1 \/ i \in 1..Len(chan)
    BY <1>2, <1>3
  <2> QED
    BY <1>2, <1>3, <2>1
<1> QED
  BY <1>4

LEMMA TypedBegin ==
  ASSUME Typed, NEW w \in Workers, TaskBegin(w)
  PROVE  Typed'
<1>1. PICK n, g, k, e, c :
           /\ n \in 1..MaxWorkers /\ g \in Generations
           /\ workers[w].task = "waiting" /\ g = workers[w].agent /\ n = agents[g].next
           /\ c \in Agent /\ agents' = [agents EXCEPT ![g] = c]
           /\ c.lock = "task" /\ c.sink = w /\ c.next = n + 1
           /\ e \in Events /\ e.type = "turn_started" /\ e.turn = n
           /\ Becomes(w, k)
           /\ k.pc = workers[w].pc /\ k.agent = g
           /\ k.task = "running" /\ k.aborting = workers[w].aborting
           /\ k.phase = "open" /\ k.turn = n
           /\ k.chan = Append(workers[w].chan, e) /\ k.known = workers[w].known
           /\ Cardinality(Past) + 1 <= Cardinality(Past')
           /\ UNCHANGED <<session, turns, compactor, closer, log, base, lost, used>>
  BY BeginView
<1>2. TypeOK /\ Counted /\ WorkersFit /\ HandleReceives /\ workers[w] \in Worker
  BY SameTypes
<1>3. Fits(workers[w]) /\ workers[w].turn = NoTurn /\ n # NoTurn
  BY <1>1, <1>2, Constants DEF WorkersFit, Fits
<1>4. Fits(k)
  <2>1. \A i \in 1..Len(workers[w].chan) : Pushed(k, workers[w].chan[i])
    <3>1. workers[w].chan \in Seq(Events)
      BY <1>2, WorkerIs
    <3>2. \A i \in 1..Len(workers[w].chan) : workers[w].chan[i].turn \in TurnIds
      <4>1. PICK chan \in Seq(Events) : chan = workers[w].chan
        BY <3>1
      <4>2. \A i \in 1..Len(chan) : chan[i] \in Events
        OBVIOUS
      <4> QED
        BY <4>1, <4>2 DEF Events
    <3> QED
      BY <1>3, <3>2, Constants DEF Fits, Pushed
  <2>2. Pushed(k, e)
    BY <1>1 DEF Pushed
  <2>3. \A i \in 1..Len(k.chan) : Pushed(k, k.chan[i])
    BY <1>1, <1>2, <2>1, <2>2, FitsAppend
  <2> QED
    BY <1>1, <1>3, <2>3 DEF Fits
<1>5. /\ workers' \in [Workers -> Worker] /\ workers'[w] = k
      /\ \A v \in Workers : v # w => workers'[v] = workers[v]
  BY <1>1, <1>2, BecomesView
<1>6. agents \in [Generations -> Agent] /\ agents' \in [Generations -> Agent]
  BY <1>1, <1>2, TypesOf
<1>7. TypeOK'
  BY <1>1, <1>2, <1>5, <1>6 DEF TypeOK
<1>8. Counted'
  <2>1. Cardinality(Past) \in Nat /\ Cardinality(Past') \in Nat
    <3>1. Past \in SUBSET Workers /\ Past' \in SUBSET Workers
      BY DEF Past
    <3> QED
      BY <3>1, Subsets
  <2>2. \A h \in Generations : agents[h].next \in Nat /\ agents[h].next <= 1 + Cardinality(Past)
    BY <1>2, <1>6 DEF Counted, Agent
  <2>3. \A h \in Generations : agents'[h].next = IF h = g THEN n + 1 ELSE agents[h].next
    BY <1>1, <1>6
  <2>4. \A h \in Generations : agents'[h].next <= 1 + Cardinality(Past')
    BY <1>1, <2>1, <2>2, <2>3
  <2> QED
    BY <1>1, <1>2, <2>4 DEF Counted
<1>9. WorkersFit'
  BY <1>2, <1>4, <1>5 DEF WorkersFit
<1>10. HandleReceives'
  BY <1>1, <1>2, <1>5, TypesOf, SessionIs DEF HandleReceives
<1> QED
  BY <1>7, <1>8, <1>9, <1>10 DEF Typed

\* What a core task pushes fits its worker.
LEMMA TypedPush ==
  ASSUME Typed, NEW w \in Workers, NEW k, NEW e \in Events, Becomes(w, k), Pushed(k, e),
         workers[w].task = "running",
         k.pc = workers[w].pc, k.agent = workers[w].agent, k.task = "running",
         k.aborting = workers[w].aborting, k.turn = workers[w].turn,
         k.chan = Append(workers[w].chan, e), k.known = workers[w].known,
         \/ k.phase = workers[w].phase
         \/ workers[w].phase = "open" /\ k.phase = "answered"
         \/ k.phase = "closed",
         Within(used'), used'["clear"] = used["clear"], used'["restart"] = used["restart"],
         UNCHANGED <<session, turns, agents, compactor, closer, log, base, lost>>
  PROVE  Typed'
<1>1. Fits(workers[w]) /\ workers[w] \in Worker
  BY SameTypes DEF WorkersFit
<1>2. Fits(k)
  <2>1. \A i \in 1..Len(workers[w].chan) : Pushed(k, workers[w].chan[i])
    BY <1>1 DEF Fits, Pushed
  <2>2. \A i \in 1..Len(k.chan) : Pushed(k, k.chan[i])
    BY <1>1, <2>1, FitsAppend
  <2> QED
    BY <1>1, <2>2 DEF Fits
<1>3. w \in Past => k.pc \notin {"unused", "spawned"} /\ k.task # "waiting"
  BY DEF Past
<1>4. session.handle = w => k.pc = "receiving"
  BY SameTypes, Constants DEF HandleReceives
<1> QED
  BY <1>2, <1>3, <1>4, SameTypes, TypedWorker

LEMMA TypedError ==
  ASSUME Typed, NEW w \in Workers, TaskError(w)
  PROVE  Typed'
<1>1. PICK k, e : /\ e \in Events /\ e.type = "response_error" /\ e.turn = workers[w].turn
                  /\ Becomes(w, k)
                  /\ k.pc = workers[w].pc /\ k.agent = workers[w].agent
                  /\ k.task = workers[w].task /\ k.aborting = workers[w].aborting
                  /\ k.phase = workers[w].phase /\ k.turn = workers[w].turn
                  /\ k.chan = Append(workers[w].chan, e) /\ k.known = workers[w].known
  BY SameTypes, ErrorView DEF WorkersFit
<1>2. /\ workers[w].task = "running" /\ workers[w].phase = "open" /\ May("error") /\ Spend("error")
      /\ UNCHANGED <<session, turns, agents, compactor, closer, log, base, lost>>
  BY SameTypes, ErrorView DEF WorkersFit
<1>3. Within(used') /\ used'["clear"] = used["clear"] /\ used'["restart"] = used["restart"]
  <2>1. "error" \in Actions /\ "clear" \in Actions /\ "restart" \in Actions
    BY DEF Actions
  <2> QED
    BY <1>2, <2>1, SameTypes, SpendIs DEF Within
<1>4. Pushed(k, e)
  BY <1>1 DEF Pushed
<1> QED
  BY <1>1, <1>2, <1>3, <1>4, TypedPush

LEMMA TypedRespond ==
  ASSUME Typed, NEW w \in Workers, TaskRespond(w)
  PROVE  Typed'
<1>1. PICK k, e : /\ e \in Events /\ e.type = "response_completed" /\ e.turn = workers[w].turn
                  /\ Becomes(w, k)
                  /\ k.pc = workers[w].pc /\ k.agent = workers[w].agent
                  /\ k.task = workers[w].task /\ k.aborting = workers[w].aborting
                  /\ k.phase = "answered" /\ k.turn = workers[w].turn
                  /\ k.chan = Append(workers[w].chan, e) /\ k.known = workers[w].known
  BY SameTypes, RespondView DEF WorkersFit
<1>2. /\ workers[w].task = "running" /\ workers[w].phase = "open"
      /\ UNCHANGED <<session, turns, agents, compactor, closer, log, base, lost, used>>
  BY SameTypes, RespondView DEF WorkersFit
<1>3. Pushed(k, e)
  BY <1>1 DEF Pushed
<1> QED
  BY <1>1, <1>2, <1>3, SameTypes, TypedPush

LEMMA TypedComplete ==
  ASSUME Typed, NEW w \in Workers, TaskComplete(w)
  PROVE  Typed'
<1>1. PICK k, e : /\ e \in Events /\ e.type = "turn_completed" /\ e.turn = workers[w].turn
                  /\ Becomes(w, k)
                  /\ k.pc = workers[w].pc /\ k.agent = workers[w].agent
                  /\ k.task = workers[w].task /\ k.aborting = workers[w].aborting
                  /\ k.phase = "closed" /\ k.turn = workers[w].turn
                  /\ k.chan = Append(workers[w].chan, e) /\ k.known = workers[w].known
  BY SameTypes, CompleteView DEF WorkersFit
<1>2. /\ workers[w].task = "running"
      /\ UNCHANGED <<session, turns, agents, compactor, closer, log, base, lost, used>>
  BY SameTypes, CompleteView DEF WorkersFit
<1>3. Pushed(k, e)
  BY <1>1 DEF Pushed
<1> QED
  BY <1>1, <1>2, <1>3, SameTypes, TypedPush

\* Locks and sinks change, the numbers an agent has handed out do not.
LEMMA AgentTypes ==
  ASSUME agents \in [Generations -> Agent], NEW g \in Generations,
         NEW l \in {"free", "task", "compact"}
  PROVE  /\ [agents EXCEPT ![g].lock = l] \in [Generations -> Agent]
         /\ \A h \in Generations : [agents EXCEPT ![g].lock = l][h].next = agents[h].next
         /\ [agents EXCEPT ![g].lock = l, ![g].sink = None] \in [Generations -> Agent]
         /\ \A h \in Generations :
              [agents EXCEPT ![g].lock = l, ![g].sink = None][h].next = agents[h].next
<1>1. agents[g] \in Agent
  OBVIOUS
<1>2. PICK x \in Agent : x = agents[g]
  BY <1>1
<1> DEFINE p == [x EXCEPT !.lock = l]  q == [p EXCEPT !.sink = None]
<1>3. p \in Agent /\ p.next = x.next
  BY DEF Agent
<1>4. q \in Agent /\ q.next = x.next
  BY <1>3 DEF Agent
<1>5. [agents EXCEPT ![g].lock = l] = [agents EXCEPT ![g] = p]
  BY <1>2
<1>6. [agents EXCEPT ![g].lock = l, ![g].sink = None] = [agents EXCEPT ![g] = q]
  BY <1>2
<1> HIDE DEF p, q
<1> QED
  BY <1>2, <1>3, <1>4, <1>5, <1>6

LEMMA TypedReturn ==
  ASSUME Typed, NEW w \in Workers, TaskReturn(w)
  PROVE  Typed'
<1>1. PICK k : /\ Becomes(w, k)
               /\ k.pc = workers[w].pc /\ k.agent = workers[w].agent
               /\ k.task = "returned" /\ k.aborting = workers[w].aborting
               /\ k.phase = workers[w].phase /\ k.turn = workers[w].turn
               /\ k.chan = workers[w].chan /\ k.known = workers[w].known
  BY ZenonT(20), SameTypes, ReturnView
<1>2. /\ workers[w].task = "running" /\ workers[w].phase = "closed"
      /\ agents' = [agents EXCEPT ![workers[w].agent].lock = "free",
                                  ![workers[w].agent].sink = None]
      /\ UNCHANGED <<session, turns, compactor, closer, log, base, lost, used>>
  BY SameTypes, ReturnView
<1>3. Fits(workers[w]) /\ workers[w] \in Worker /\ workers[w].agent \in Generations
  BY SameTypes, WorkerIs DEF WorkersFit
<1>4. Fits(k)
  BY <1>1, <1>2, <1>3 DEF Fits, Pushed
<1>5. agents' \in [Generations -> Agent] /\ \A g \in Generations : agents'[g].next = agents[g].next
  BY <1>2, <1>3, SameTypes, AgentTypes
<1>6. w \in Past => k.pc \notin {"unused", "spawned"} /\ k.task # "waiting"
  BY <1>1 DEF Past
<1>7. session.handle = w => k.pc = "receiving"
  BY <1>1, SameTypes, Constants DEF HandleReceives
<1> QED
  BY <1>1, <1>2, <1>4, <1>5, <1>6, <1>7, SameTypes, TypedWorker

LEMMA TypedCancel ==
  ASSUME Typed, NEW w \in Workers, TaskCancel(w)
  PROVE  Typed'
<1>1. PICK k : /\ Becomes(w, k)
               /\ k.pc = workers[w].pc /\ k.agent = workers[w].agent
               /\ k.task = "cancelled" /\ k.aborting = workers[w].aborting
               /\ k.phase = workers[w].phase /\ k.turn = workers[w].turn
               /\ k.chan = workers[w].chan /\ k.known = workers[w].known
  BY SameTypes, CancelView
<1>2. /\ workers[w].aborting
      /\ \/ workers[w].task = "waiting" /\ agents' = agents
         \/ /\ workers[w].task = "running" /\ workers[w].phase = "open"
            /\ agents' = [agents EXCEPT ![workers[w].agent].lock = "free"]
      /\ UNCHANGED <<session, turns, compactor, closer, log, base, lost, used>>
  BY DEF TaskCancel
<1>3. Fits(workers[w]) /\ workers[w] \in Worker /\ workers[w].agent \in Generations
  BY SameTypes, WorkerIs DEF WorkersFit
<1>4. Fits(k)
  BY <1>1, <1>2, <1>3 DEF Fits, Pushed
<1>5. agents' \in [Generations -> Agent] /\ \A g \in Generations : agents'[g].next = agents[g].next
  <2>1. CASE agents' = agents
    BY <2>1, SameTypes
  <2>2. CASE agents' = [agents EXCEPT ![workers[w].agent].lock = "free"]
    BY <1>3, <2>2, SameTypes, AgentTypes
  <2> QED
    BY <1>2, <2>1, <2>2
<1>6. w \in Past => k.pc \notin {"unused", "spawned"} /\ k.task # "waiting"
  BY <1>1 DEF Past
<1>7. session.handle = w => k.pc = "receiving"
  BY <1>1, SameTypes, Constants DEF HandleReceives
<1> QED
  BY <1>1, <1>2, <1>4, <1>5, <1>6, <1>7, SameTypes, TypedWorker

\* A step counts what it is.
LEMMA PanicSpends ==
  ASSUME Within(used), May("panic"), Spend("panic")
  PROVE  /\ Within(used') /\ used'["abort"] = used["abort"]
         /\ used'["clear"] = used["clear"] /\ used'["restart"] = used["restart"]
<1>1. /\ "panic" \in Actions /\ "abort" \in Actions /\ "clear" \in Actions
      /\ "restart" \in Actions
  BY DEF Actions
<1> QED
  BY <1>1, SpendIs DEF Within

LEMMA TypedPanic ==
  ASSUME Typed, NEW w \in Workers, TaskPanic(w)
  PROVE  Typed'
<1>1. PICK k : /\ Becomes(w, k)
               /\ k.pc = workers[w].pc /\ k.agent = workers[w].agent
               /\ k.task = "panicked" /\ k.aborting = workers[w].aborting
               /\ k.phase = workers[w].phase /\ k.turn = workers[w].turn
               /\ k.chan = workers[w].chan /\ k.known = workers[w].known
  BY SameTypes, PanicView
<1>2. /\ workers[w].task = "running" /\ May("panic") /\ Spend("panic")
      /\ agents' = [agents EXCEPT ![workers[w].agent].lock = "free"]
      /\ UNCHANGED <<session, turns, compactor, closer, log, base, lost>>
  BY SameTypes, PanicView
<1>3. Fits(workers[w]) /\ workers[w] \in Worker /\ workers[w].agent \in Generations
  BY SameTypes, WorkerIs DEF WorkersFit
<1>4. Fits(k)
  BY <1>1, <1>2, <1>3 DEF Fits, Pushed
<1>5. agents' \in [Generations -> Agent] /\ \A g \in Generations : agents'[g].next = agents[g].next
  BY <1>2, <1>3, SameTypes, AgentTypes
<1>6. w \in Past => k.pc \notin {"unused", "spawned"} /\ k.task # "waiting"
  BY <1>1 DEF Past
<1>7. session.handle = w => k.pc = "receiving"
  BY <1>1, SameTypes, Constants DEF HandleReceives
<1>8. Within(used') /\ used'["clear"] = used["clear"] /\ used'["restart"] = used["restart"]
  BY <1>2, SameTypes, PanicSpends
<1> QED
  BY <1>1, <1>2, <1>4, <1>5, <1>6, <1>7, <1>8, SameTypes, TypedWorker

LEMMA TypedAbort ==
  ASSUME Typed, AbortTurn
  PROVE  Typed'
<1>1. PICK w \in Workers : w = session.handle
  BY SameTypes, AbortView
<1>2. PICK k : /\ Becomes(w, k)
               /\ k.pc = workers[w].pc /\ k.agent = workers[w].agent
               /\ k.task = workers[w].task /\ k.aborting = TRUE
               /\ k.phase = workers[w].phase /\ k.turn = workers[w].turn
               /\ k.chan = workers[w].chan /\ k.known = workers[w].known
  BY <1>1, SameTypes, AbortView
<1>3. /\ May("abort") /\ Spend("abort")
      /\ session' = [session EXCEPT !.handle = None, !.abortRequested = TRUE]
      /\ UNCHANGED <<turns, agents, compactor, closer, log, base, lost>>
  BY SameTypes, AbortView
<1>4. workers[w].pc = "receiving" /\ Fits(workers[w])
  BY <1>1, SameTypes, Constants DEF HandleReceives, WorkersFit
<1>5. Fits(k)
  BY <1>2, <1>4 DEF Fits, Pushed
<1>6. session' \in Session /\ session'.agent = session.agent /\ session'.handle = None
  BY <1>3, SameTypes DEF Session
<1>7. Within(used') /\ used'["clear"] = used["clear"] /\ used'["restart"] = used["restart"]
  <2>1. "abort" \in Actions /\ "clear" \in Actions /\ "restart" \in Actions
    BY DEF Actions
  <2> QED
    BY <1>3, <2>1, SameTypes, SpendIs DEF Within
<1>8. w \in Past => k.pc \notin {"unused", "spawned"} /\ k.task # "waiting"
  BY <1>2 DEF Past
<1> QED
  BY <1>2, <1>3, <1>4, <1>5, <1>6, <1>7, <1>8, SameTypes, TypedWorker

LEMMA TypedCompactRun ==
  ASSUME Typed, CompactRun
  PROVE  Typed'
<1>1. /\ agents' = [agents EXCEPT ![compactor.agent].lock = "free"]
      /\ compactor' = [compactor EXCEPT !.pc = "publishing"]
      /\ UNCHANGED <<session, turns, closer, log, base, lost, used>>
  BY SameTypes, CompactRunView
<1>2. /\ agents' \in [Generations -> Agent]
      /\ \A g \in Generations : agents'[g].next = agents[g].next
      /\ compactor' \in [pc : {"idle", "read", "locked", "publishing"}, agent : Generations]
  <2>1. compactor.agent \in Generations
    BY SameTypes
  <2> QED
    BY <1>1, <2>1, SameTypes, AgentTypes
<1>3. CASE UNCHANGED workers
  BY <1>1, <1>2, <1>3, SameTypes, TypedAlone
<1>4. CASE ~ UNCHANGED workers
  <2>1. PICK w, k, e :
                 /\ w \in Workers
                 /\ e \in Events /\ e.turn = 0 /\ e.type = "context_compacted"
                 /\ Becomes(w, k)
                 /\ k.pc = workers[w].pc /\ k.agent = workers[w].agent
                 /\ k.task = workers[w].task /\ k.aborting = workers[w].aborting
                 /\ k.phase = workers[w].phase /\ k.turn = workers[w].turn
                 /\ k.chan = Append(workers[w].chan, e) /\ k.known = workers[w].known
    BY <1>4, SameTypes, CompactRunView
  <2>2. Fits(workers[w]) /\ workers[w] \in Worker
    BY <2>1, SameTypes DEF WorkersFit
  <2>3. Fits(k)
    <3>1. \A i \in 1..Len(workers[w].chan) : Pushed(k, workers[w].chan[i])
      BY <2>1, <2>2 DEF Fits, Pushed
    <3>2. Pushed(k, e)
      BY <2>1 DEF Pushed
    <3>3. \A i \in 1..Len(k.chan) : Pushed(k, k.chan[i])
      BY <2>1, <2>2, <3>1, <3>2, FitsAppend
    <3> QED
      BY <2>1, <2>2, <3>3 DEF Fits
  <2>4. w \in Past => k.pc \notin {"unused", "spawned"} /\ k.task # "waiting"
    BY <2>1 DEF Past
  <2>5. session.handle = w => k.pc = "receiving"
    BY <2>1, SameTypes, Constants DEF HandleReceives
  <2> QED
    BY <1>1, <1>2, <2>1, <2>3, <2>4, <2>5, SameTypes, TypedWorker
<1> QED
  BY <1>3, <1>4

LEMMA TypedMessageFails ==
  ASSUME Typed, SubmitTurnMessageFails
  PROVE  Typed'
<1>1. Within(used') /\ used'["clear"] = used["clear"] /\ used'["restart"] = used["restart"]
  <2>1. "message" \in Actions /\ "clear" \in Actions /\ "restart" \in Actions
    BY DEF Actions
  <2> QED
    BY <2>1, SameTypes, SpendIs DEF Within, SubmitTurnMessageFails
<1>2. session' \in Session /\ session'.agent = session.agent /\ session'.handle = session.handle
  BY SameTypes DEF SubmitTurnMessageFails, Accepted, Session
<1> QED
  BY <1>1, <1>2, SameTypes, TypedAlone DEF SubmitTurnMessageFails

\* The session of a new generation.
LEMMA FreshIs ==
  ASSUME NEW g \in Generations
  PROVE  /\ FreshSession(g) \in Session /\ FreshSession(g).agent = g
         /\ FreshSession(g).handle = None /\ FreshSession(g).inFlight = FALSE
         /\ FreshSession(g).abortRequested = FALSE /\ FreshSession(g).stored = TRUE
BY DEF FreshSession, Session

LEMMA EmptyIs == EmptyTurns \in [TurnIds -> Statuses] /\ \A t \in TurnIds : EmptyTurns[t] = "Absent"
BY DEF EmptyTurns, Statuses

\* The generation after a clear or a restart.
LEMMA NextGeneration ==
  ASSUME Typed, NEW a \in {"clear", "restart"}, May(a), Spend(a)
  PROVE  /\ Within(used') /\ session.agent + 1 = 1 + used'["clear"] + used'["restart"]
         /\ session.agent + 1 \in Generations
<1>1. a \in Actions /\ "clear" \in Actions /\ "restart" \in Actions
  BY DEF Actions
<1>2. used \in [Actions -> Nat] /\ session.agent = 1 + used["clear"] + used["restart"]
  BY SameTypes DEF Within
<1>3. /\ Within(used') /\ used'[a] = used[a] + 1
      /\ \A x \in Actions : x # a => used'[x] = used[x]
  BY <1>1, <1>2, SpendIs
<1>4. used'["clear"] + used'["restart"] = used["clear"] + used["restart"] + 1
  <2>1. used["clear"] \in Nat /\ used["restart"] \in Nat
    BY <1>1, <1>2
  <2> QED
    BY <1>1, <1>3, <2>1
<1>5. used["clear"] \in Nat /\ used["restart"] \in Nat /\ used'["clear"] \in Nat /\ used'["restart"] \in Nat
  BY <1>1, <1>2, <1>3 DEF Within
<1>6. session.agent + 1 = 1 + used'["clear"] + used'["restart"]
  BY <1>2, <1>4, <1>5
<1>7. 1 + used'["clear"] + used'["restart"] \in Generations
  BY <1>3, GenerationsAre DEF Within
<1> QED
  BY <1>3, <1>6, <1>7

LEMMA TypedClear ==
  ASSUME Typed, ClearRuntime
  PROVE  Typed'
<1>1. /\ Within(used') /\ session.agent + 1 = 1 + used'["clear"] + used'["restart"]
      /\ session.agent + 1 \in Generations
  BY NextGeneration DEF ClearRuntime
<1>2. /\ session' \in Session /\ session'.agent = session.agent + 1 /\ session'.handle = None
  BY <1>1, FreshIs DEF ClearRuntime
<1>3. turns' \in [TurnIds -> Statuses]
  BY EmptyIs DEF ClearRuntime
<1>4. base' \in 0..Len(log') /\ log' \in Seq(Events) /\ lost' \subseteq TurnIds
  <2>1. log \in Seq(Events) /\ Len(log) \in Nat
    BY SameTypes
  <2> QED
    BY <2>1 DEF ClearRuntime
<1> QED
  BY <1>1, <1>2, <1>3, <1>4, SameTypes, TypedAlone DEF ClearRuntime

\* The worker that a process leaves behind when it dies.
LEMMA DeadIs ==
  \E d \in Worker :
    /\ d = [IdleWorker EXCEPT !.pc = "dead"]
    /\ d.pc = "dead" /\ d.task = "none" /\ d.aborting = FALSE /\ d.phase = "closed"
    /\ d.turn = NoTurn /\ d.chan = <<>> /\ d.known = NoTurn /\ d.agent = 1
<1> DEFINE d == [IdleWorker EXCEPT !.pc = "dead"]
<1>1. IdleWorker \in Worker
  BY GenerationsAre DEF IdleWorker, Worker
<1>2. d \in Worker
  BY <1>1 DEF Worker
<1>3. /\ d.pc = "dead" /\ d.task = "none" /\ d.aborting = FALSE /\ d.phase = "closed"
      /\ d.turn = NoTurn /\ d.chan = <<>> /\ d.known = NoTurn /\ d.agent = 1
  BY DEF IdleWorker
<1> QED
  BY <1>2, <1>3

LEMMA RestartView ==
  ASSUME Typed, Restart
  PROVE  \E d \in Worker :
           /\ d.pc = "dead" /\ d.task = "none" /\ d.aborting = FALSE /\ d.phase = "closed"
           /\ d.turn = NoTurn /\ d.chan = <<>> /\ d.known = NoTurn /\ d.agent = 1
           /\ workers' \in [Workers -> Worker]
           /\ \A w \in Workers : workers'[w] = IF workers[w].pc = "unused" THEN workers[w] ELSE d
           /\ session.stored /\ May("restart") /\ Spend("restart")
           /\ session' = FreshSession(session.agent + 1) /\ session.agent + 1 \in Generations
           /\ turns' = ReplayTurns(log) /\ base' = 0 /\ lost' = {} /\ UNCHANGED <<agents, log>>
<1>1. PICK d \in Worker :
        /\ d = [IdleWorker EXCEPT !.pc = "dead"]
        /\ d.pc = "dead" /\ d.task = "none" /\ d.aborting = FALSE /\ d.phase = "closed"
        /\ d.turn = NoTurn /\ d.chan = <<>> /\ d.known = NoTurn /\ d.agent = 1
  BY DeadIs
<1>2. workers' = [w \in Workers |-> IF workers[w].pc = "unused" THEN workers[w] ELSE d]
  BY <1>1 DEF Restart
<1>3. /\ workers' \in [Workers -> Worker]
      /\ \A w \in Workers : workers'[w] = IF workers[w].pc = "unused" THEN workers[w] ELSE d
  BY <1>2, SameTypes
<1>4. session.agent + 1 \in Generations
  BY NextGeneration DEF Restart
<1>5. /\ session.stored /\ May("restart") /\ Spend("restart")
      /\ session' = FreshSession(session.agent + 1)
      /\ turns' = ReplayTurns(log) /\ base' = 0 /\ lost' = {} /\ UNCHANGED <<agents, log>>
  BY DEF Restart
<1> QED
  BY <1>1, <1>3, <1>4, <1>5

LEMMA TypedRestart ==
  ASSUME Typed, Restart
  PROVE  Typed'
<1>1. PICK d \in Worker :
           /\ d.pc = "dead" /\ d.task = "none" /\ d.aborting = FALSE /\ d.phase = "closed"
           /\ d.turn = NoTurn /\ d.chan = <<>> /\ d.known = NoTurn /\ d.agent = 1
           /\ workers' \in [Workers -> Worker]
           /\ \A w \in Workers : workers'[w] = IF workers[w].pc = "unused" THEN workers[w] ELSE d
           /\ session.stored /\ May("restart") /\ Spend("restart")
           /\ session' = FreshSession(session.agent + 1) /\ session.agent + 1 \in Generations
           /\ turns' = ReplayTurns(log) /\ base' = 0 /\ lost' = {} /\ UNCHANGED <<agents, log>>
  BY RestartView
<1>2. /\ Within(used') /\ session.agent + 1 = 1 + used'["clear"] + used'["restart"]
  BY <1>1, NextGeneration
<1>3. session' \in Session /\ session'.agent = session.agent + 1 /\ session'.handle = None
  BY <1>1, FreshIs
<1>4. log \in Seq(Events) /\ turns' \in [TurnIds -> Statuses]
  BY <1>1, SameTypes, ReplayType DEF Transcripts
<1>5. /\ compactor' \in [pc : {"idle", "read", "locked", "publishing"}, agent : Generations]
      /\ closer' \in [pc : {"idle", "waiting", "deleting"}, agent : Generations]
  BY SameTypes DEF Restart
<1>6. TypeOK'
  <2>1. base' \in 0..Len(log')
    BY <1>1, <1>4
  <2> QED
    BY <1>1, <1>2, <1>3, <1>4, <1>5, <2>1, SameTypes DEF TypeOK, Within
<1>7. Counted'
  <2>1. Past \subseteq Past'
    BY <1>1 DEF Past
  <2>2. Cardinality(Past) <= Cardinality(Past') /\ Cardinality(Past) \in Nat /\ Cardinality(Past') \in Nat
    <3>1. Past \in SUBSET Workers /\ Past' \in SUBSET Workers
      BY DEF Past
    <3> QED
      BY <2>1, <3>1, Subsets
  <2>3. \A g \in Generations : agents[g].next \in Nat /\ agents[g].next <= 1 + Cardinality(Past)
    BY SameTypes DEF Counted, Agent
  <2>4. \A g \in Generations : agents'[g].next <= 1 + Cardinality(Past')
    BY <1>1, <2>2, <2>3
  <2> QED
    BY <1>2, <1>3, <2>4 DEF Counted, Within
<1>8. WorkersFit'
  <2>1. Fits(d)
    BY <1>1 DEF Fits
  <2> QED
    BY <1>1, <2>1, SameTypes DEF WorkersFit
<1>9. HandleReceives'
  BY <1>3 DEF HandleReceives
<1> QED
  BY <1>6, <1>7, <1>8, <1>9 DEF Typed

LEMMA ElementsAre ==
  ASSUME NEW s \in Seq(Events)
  PROVE  \A i \in 1..Len(s) : s[i] \in Events
OBVIOUS

\* Two sequences one after the other.
LEMMA JoinIs ==
  ASSUME NEW s \in Seq(Events), NEW r \in Seq(Events)
  PROVE  /\ s \o r \in Seq(Events) /\ Len(s \o r) = Len(s) + Len(r) /\ Len(s) \in Nat
         /\ \A i \in 1..Len(s) : (s \o r)[i] = s[i]
         /\ \A i \in 1..Len(r) : (s \o r)[Len(s) + i] = r[i]
OBVIOUS

\* A part of a sequence.
LEMMA SubSeqIs ==
  ASSUME NEW s \in Seq(Events), NEW m \in 1..(Len(s) + 1), NEW n \in (m - 1)..Len(s)
  PROVE  /\ SubSeq(s, m, n) \in Seq(Events) /\ Len(SubSeq(s, m, n)) = n - m + 1
         /\ \A j \in 1..(n - m + 1) : SubSeq(s, m, n)[j] = s[m + j - 1]
OBVIOUS

\* What is left of three events without one of them.
LEMMA RemoveIs ==
  ASSUME NEW s \in Seq(Events), Len(s) = 3, NEW i \in 1..3
  PROVE  /\ RemoveAt(s, i) \in Seq(Events) /\ Len(RemoveAt(s, i)) = 2
         /\ \A j \in 1..2 : \E m \in 1..3 : RemoveAt(s, i)[j] = s[m]
<1> DEFINE p == SubSeq(s, 1, i - 1)  q == SubSeq(s, i + 1, 3)
<1>1. p \in Seq(Events) /\ Len(p) = i - 1 /\ \A j \in 1..(i - 1) : p[j] = s[j]
  <2>1. 1 \in 1..(Len(s) + 1) /\ i - 1 \in 0..Len(s)
    OBVIOUS
  <2> QED
    BY <2>1, SubSeqIs
<1>2. q \in Seq(Events) /\ Len(q) = 3 - i /\ \A j \in 1..(3 - i) : q[j] = s[i + j]
  <2>1. PICK m \in 1..(Len(s) + 1) : m = i + 1
    OBVIOUS
  <2>2. 3 \in (m - 1)..Len(s) /\ q = SubSeq(s, m, 3)
    BY <2>1
  <2>3. /\ q \in Seq(Events) /\ Len(q) = 3 - m + 1
        /\ \A j \in 1..(3 - m + 1) : q[j] = s[m + j - 1]
    BY <2>2, SubSeqIs
  <2> HIDE DEF q
  <2>4. 3 - m + 1 = 3 - i /\ \A j \in 1..(3 - i) : m + j - 1 = i + j
    BY <2>1
  <2> QED
    BY <2>3, <2>4
<1>3. RemoveAt(s, i) = p \o q
  BY DEF RemoveAt
<1> HIDE DEF p, q
<1>4. p \o q \in Seq(Events) /\ Len(p \o q) = 2
  BY <1>1, <1>2
<1>5. ASSUME NEW j \in 1..2 PROVE \E m \in 1..3 : (p \o q)[j] = s[m]
  <2>1. CASE j <= i - 1
    <3>1. (p \o q)[j] = p[j] /\ j \in 1..(i - 1) /\ j \in 1..3
      BY <1>1, <1>2, <2>1
    <3> QED
      BY <1>1, <3>1
  <2>2. CASE ~ (j <= i - 1)
    <3> DEFINE m == j - (i - 1)
    <3>1. m \in 1..(3 - i) /\ i + m \in 1..3
      BY <2>2
    <3>2. (p \o q)[Len(p) + m] = q[m] /\ Len(p) + m = j
      BY <1>1, <1>2, <2>2, <3>1
    <3> QED
      BY <1>2, <3>1, <3>2
  <2> QED
    BY <2>1, <2>2
<1> QED
  BY <1>3, <1>4, <1>5

LEMMA AppendTwo ==
  ASSUME NEW s \in Seq(Events), NEW r \in Seq(Events), Len(r) = 2
  PROVE  s \o r = Append(Append(s, r[1]), r[2])
<1> DEFINE t == Append(Append(s, r[1]), r[2])
<1>1. r[1] \in Events /\ r[2] \in Events
  <2>1. \A i \in 1..Len(r) : r[i] \in Events
    BY ElementsAre
  <2> QED
    BY <2>1
<1>2. Append(s, r[1]) \in Seq(Events) /\ Len(Append(s, r[1])) = Len(s) + 1
      /\ Append(s, r[1])[Len(s) + 1] = r[1] /\ \A i \in 1..Len(s) : Append(s, r[1])[i] = s[i]
  BY <1>1, AppendIs
<1>3. t \in Seq(Events) /\ Len(t) = Len(s) + 2
      /\ t[Len(s) + 2] = r[2] /\ \A i \in 1..(Len(s) + 1) : t[i] = Append(s, r[1])[i]
  BY <1>1, <1>2, AppendIs
<1> HIDE DEF t
<1>4. s \o r \in Seq(Events) /\ Len(s \o r) = Len(s) + 2 /\ Len(s) \in Nat
  BY JoinIs
<1>5. (s \o r)[Len(s) + 1] = r[1] /\ (s \o r)[Len(s) + 2] = r[2]
      /\ \A i \in 1..Len(s) : (s \o r)[i] = s[i]
  BY JoinIs
<1>6. ASSUME NEW i \in 1..Len(t) PROVE t[i] = (s \o r)[i]
  <2>1. i \in 1..Len(s) \/ i = Len(s) + 1 \/ i = Len(s) + 2
    BY <1>3, <1>4
  <2>2. i \in 1..(Len(s) + 1) \/ i = Len(s) + 2
    BY <1>3, <1>4
  <2> QED
    BY <1>2, <1>3, <1>4, <1>5, <2>1, <2>2
<1>7. Len(t) = Len(s \o r)
  BY <1>3, <1>4
<1>8. t = s \o r
  BY <1>3, <1>4, <1>6, <1>7, SeqEqual
<1> QED
  BY <1>8 DEF t

\* What a manual compaction writes: all of its events or two of them.
CompactEvent(e) ==
  e \in Events /\ e.turn = CompactTurn
    /\ e.type \in {"turn_started", "response_completed", "turn_completed"}

LEMMA CompactLog ==
  ASSUME TypeOK, CompactPublish
  PROVE  /\ turns' = [turns EXCEPT ![CompactTurn] = "Completed"]
         /\ \E a, b : /\ CompactEvent(a) /\ CompactEvent(b)
                      /\ \/ /\ \E c : /\ CompactEvent(c)
                                      /\ c.type = "turn_completed" /\ b.type = "response_completed"
                                      /\ log' = Append(Append(Append(log, a), b), c)
                            /\ \/ UNCHANGED <<lost, used>>
                               \/ /\ lost' = lost \cup {CompactTurn}
                                  /\ May("append") /\ Spend("append")
                         \/ /\ log' = Append(Append(log, a), b)
                            /\ lost' = lost \cup {CompactTurn}
                            /\ May("append") /\ Spend("append")
<1> DEFINE a == Event("turn_started", CompactTurn)
           b == Event("response_completed", CompactTurn)
           c == Event("turn_completed", CompactTurn)
<1>1. CompactTurn \in TurnIds
  BY Constants
<1>2. a \in Events /\ a.type = "turn_started" /\ a.turn = CompactTurn
  BY <1>1, EventIs DEF EventTypes
<1>3. b \in Events /\ b.type = "response_completed" /\ b.turn = CompactTurn
  BY <1>1, EventIs DEF EventTypes
<1>4. c \in Events /\ c.type = "turn_completed" /\ c.turn = CompactTurn
  BY <1>1, EventIs DEF EventTypes
<1>5. CompactEvents = <<a, b, c>>
  BY DEF CompactEvents
<1> HIDE DEF a, b, c
<1>6. CompactEvent(a) /\ CompactEvent(b) /\ CompactEvent(c)
  BY <1>2, <1>3, <1>4 DEF CompactEvent
<1>7. log \in Seq(Events)
  BY TypesOf
<1>8. turns' = [turns EXCEPT ![CompactTurn] = "Completed"]
  BY DEF CompactPublish
<1>9. CASE /\ log' = log \o CompactEvents
           /\ \/ UNCHANGED <<lost, used>>
              \/ lost' = lost \cup {CompactTurn} /\ May("append") /\ Spend("append")
  <2>1. log \o <<a, b, c>> = Append(Append(Append(log, a), b), c)
    BY <1>2, <1>3, <1>4, <1>7
  <2> QED
    BY <1>3, <1>4, <1>5, <1>6, <1>8, <1>9, <2>1
<1>10. CASE /\ May("append") /\ Spend("append")
            /\ \E i \in DOMAIN CompactEvents : log' = log \o RemoveAt(CompactEvents, i)
            /\ lost' = lost \cup {CompactTurn}
  <2> DEFINE es == <<a, b, c>>
  <2>1. es \in Seq(Events) /\ Len(es) = 3 /\ DOMAIN es = 1..3
        /\ es[1] = a /\ es[2] = b /\ es[3] = c
    BY <1>2, <1>3, <1>4
  <2>2. CompactEvents = es
    BY <1>5
  <2> HIDE DEF es
  <2>3. PICK i \in 1..3 : log' = log \o RemoveAt(es, i)
    BY <1>10, <2>1, <2>2
  <2> DEFINE r == RemoveAt(es, i)
  <2>4. r \in Seq(Events) /\ Len(r) = 2 /\ \A j \in 1..2 : \E m \in 1..3 : r[j] = es[m]
    BY <2>1, RemoveIs
  <2> HIDE DEF r
  <2>5. \A m \in 1..3 : CompactEvent(es[m])
    <3> TAKE m \in 1..3
    <3>1. m = 1 \/ m = 2 \/ m = 3
      OBVIOUS
    <3> QED
      BY <1>6, <2>1, <3>1
  <2>6. CompactEvent(r[1]) /\ CompactEvent(r[2])
    BY <2>4, <2>5
  <2>7. log' = Append(Append(log, r[1]), r[2])
    BY <1>7, <2>3, <2>4, AppendTwo DEF r
  <2> QED
    BY <1>8, <1>10, <2>6, <2>7
<1> QED
  BY Zenon, <1>9, <1>10 DEF CompactPublish

LEMMA TypedPublish ==
  ASSUME Typed, CompactPublish
  PROVE  Typed'
<1>1. turns' \in [TurnIds -> Statuses]
  <2>1. "Completed" \in Statuses
    BY DEF Statuses
  <2> QED
    BY <2>1, SameTypes DEF CompactPublish
<1>2. PICK a, b : /\ CompactEvent(a) /\ CompactEvent(b)
                  /\ \/ /\ \E c : /\ CompactEvent(c)
                                  /\ c.type = "turn_completed" /\ b.type = "response_completed"
                                  /\ log' = Append(Append(Append(log, a), b), c)
                        /\ \/ UNCHANGED <<lost, used>>
                           \/ /\ lost' = lost \cup {CompactTurn}
                              /\ May("append") /\ Spend("append")
                     \/ /\ log' = Append(Append(log, a), b)
                        /\ lost' = lost \cup {CompactTurn}
                        /\ May("append") /\ Spend("append")
  BY SameTypes, CompactLog
<1>3. a \in Events /\ b \in Events
  BY <1>2 DEF CompactEvent
<1>4. \A c : CompactEvent(c) => c \in Events
  BY DEF CompactEvent
<1>5. log' \in Seq(Events) /\ Len(log') >= Len(log) /\ lost' \subseteq TurnIds
      /\ Within(used') /\ used'["clear"] = used["clear"] /\ used'["restart"] = used["restart"]
  <2>1. log \in Seq(Events) /\ lost \subseteq TurnIds /\ CompactTurn \in TurnIds /\ Within(used)
    BY SameTypes, Constants
  <2>2. log' \in Seq(Events) /\ Len(log') >= Len(log)
    <3>1. CASE \E c : CompactEvent(c) /\ log' = Append(Append(Append(log, a), b), c)
      BY <1>3, <1>4, <2>1, <3>1
    <3>2. CASE log' = Append(Append(log, a), b)
      BY <1>3, <2>1, <3>2
    <3> QED
      BY <1>2, <3>1, <3>2
  <2>3. CASE UNCHANGED <<lost, used>>
    BY <2>1, <2>2, <2>3
  <2>4. CASE lost' = lost \cup {CompactTurn} /\ May("append") /\ Spend("append")
    <3>1. "append" \in Actions /\ "clear" \in Actions /\ "restart" \in Actions
      BY DEF Actions
    <3>2. /\ Within(used') /\ used'["clear"] = used["clear"]
          /\ used'["restart"] = used["restart"]
      BY <2>1, <2>4, <3>1, SpendIs DEF Within
    <3> QED
      BY <2>1, <2>2, <2>4, <3>2
  <2> QED
    BY <1>2, <2>3, <2>4
<1>6. base' \in 0..Len(log')
  <2>1. Len(log) \in Nat /\ Len(log') \in Nat /\ base \in 0..Len(log) /\ base' = base
    BY <1>5, SameTypes DEF CompactPublish
  <2> QED
    BY <1>5, <2>1
<1>7. compactor' \in [pc : {"idle", "read", "locked", "publishing"}, agent : Generations]
  BY SameTypes DEF CompactPublish
<1> QED
  BY <1>1, <1>5, <1>6, <1>7, SameTypes, TypedAlone DEF CompactPublish

LEMMA TypedCompact ==
  ASSUME Typed, CompactRead \/ CompactLock
  PROVE  Typed'
<1>1. session.agent \in Generations /\ compactor.agent \in Generations
  BY SameTypes, SessionIs
<1>2. CASE CompactRead
  <2>1. Within(used') /\ used'["clear"] = used["clear"] /\ used'["restart"] = used["restart"]
    <3>1. "compact" \in Actions /\ "clear" \in Actions /\ "restart" \in Actions
      BY DEF Actions
    <3> QED
      BY <1>2, <3>1, SameTypes, SpendIs DEF Within, CompactRead
  <2>2. compactor' \in [pc : {"idle", "read", "locked", "publishing"}, agent : Generations]
    BY <1>1, <1>2 DEF CompactRead
  <2> QED
    BY <1>2, <2>1, <2>2, SameTypes, TypedAlone DEF CompactRead
<1>3. CASE CompactLock
  <2>1. /\ agents' \in [Generations -> Agent]
        /\ \A g \in Generations : agents'[g].next = agents[g].next
    BY <1>1, <1>3, SameTypes, AgentTypes DEF CompactLock
  <2>2. compactor' \in [pc : {"idle", "read", "locked", "publishing"}, agent : Generations]
    BY <1>3, SameTypes DEF CompactLock
  <2> QED
    BY <1>3, <2>1, <2>2, SameTypes, TypedAlone DEF CompactLock
<1> QED
  BY <1>2, <1>3

LEMMA TypedShutdown ==
  ASSUME Typed, ShutdownBegin \/ ShutdownStep
  PROVE  Typed'
<1>1. session.agent \in Generations
  BY SameTypes, SessionIs
<1>2. CASE ShutdownBegin
  <2>1. Within(used') /\ used'["clear"] = used["clear"] /\ used'["restart"] = used["restart"]
    <3>1. "shutdown" \in Actions /\ "clear" \in Actions /\ "restart" \in Actions
      BY DEF Actions
    <3> QED
      BY <1>2, <3>1, SameTypes, SpendIs DEF Within, ShutdownBegin
  <2>2. /\ session' \in Session /\ session'.agent = session.agent
        /\ session'.handle = session.handle
    BY <1>2, SameTypes DEF ShutdownBegin, Session
  <2>3. closer' \in [pc : {"idle", "waiting", "deleting"}, agent : Generations]
    BY <1>1, <1>2 DEF ShutdownBegin
  <2> QED
    BY <1>2, <2>1, <2>2, <2>3, SameTypes, TypedAlone DEF ShutdownBegin
<1>3. CASE ShutdownClose
  <2>1. /\ session' \in Session /\ session'.agent = session.agent
        /\ session'.handle = session.handle
    BY <1>3, SameTypes DEF ShutdownClose, Session
  <2>2. closer' \in [pc : {"idle", "waiting", "deleting"}, agent : Generations]
    BY <1>3, SameTypes DEF ShutdownClose
  <2> QED
    BY <1>3, <2>1, <2>2, SameTypes, TypedAlone DEF ShutdownClose
<1>4. CASE ShutdownDelete
  <2>1. /\ session' \in Session /\ session'.agent = session.agent
        /\ session'.handle = session.handle
    BY <1>4, SameTypes DEF ShutdownDelete, Session
  <2>2. closer' \in [pc : {"idle", "waiting", "deleting"}, agent : Generations]
    BY <1>4, SameTypes DEF ShutdownDelete
  <2>3. log' \in Seq(Events) /\ base' \in 0..Len(log')
    BY <1>4 DEF ShutdownDelete
  <2> QED
    BY <1>4, <2>1, <2>2, <2>3, SameTypes, TypedAlone DEF ShutdownDelete
<1> QED
  BY <1>2, <1>3, <1>4 DEF ShutdownStep

LEMMA TypedInit == Init => Typed
<1> SUFFICES ASSUME Init PROVE Typed
  OBVIOUS
<1>1. 1 \in Generations
  BY GenerationsAre
<1>2. session \in Session /\ session.agent = 1 /\ session.handle = None
  BY <1>1, FreshIs DEF Init
<1>3. IdleWorker \in Worker /\ Fits(IdleWorker) /\ IdleWorker.pc = "unused"
  BY <1>1 DEF IdleWorker, Worker, Fits
<1>4. FreshAgent \in Agent /\ FreshAgent.next = 1
  BY Constants DEF FreshAgent, Agent
<1>5. used \in [Actions -> Nat] /\ \A a \in Actions : used[a] = 0
  BY DEF Init
<1>6. \E b \in Budgets : \A a \in Actions : used[a] <= b[a]
  <2>1. PICK b \in Budgets : b \in [Actions -> Nat]
    BY BudgetsAssumption
  <2> QED
    BY <1>5, <2>1
<1>7. TypeOK
  <2>1. agents \in [Generations -> Agent] /\ workers \in [Workers -> Worker]
    BY <1>3, <1>4 DEF Init
  <2>2. turns \in [TurnIds -> Statuses] /\ log \in Seq(Events) /\ base \in 0..Len(log)
    BY DEF Init, Statuses
  <2> QED
    BY <1>1, <1>2, <1>5, <2>1, <2>2 DEF TypeOK, Init
<1>8. Counted
  <2>1. Past = {}
    BY <1>3 DEF Past, Init
  <2>2. Cardinality(Past) = 0
    BY <2>1, FS_EmptySet
  <2>3. \A g \in Generations : agents[g].next <= 1 + Cardinality(Past)
    BY <1>4, <2>2 DEF Init
  <2>4. session.agent = 1 + used["clear"] + used["restart"]
    BY <1>2, <1>5 DEF Actions
  <2> QED
    BY <1>6, <2>3, <2>4 DEF Counted
<1>9. WorkersFit
  BY <1>3 DEF WorkersFit, Init
<1>10. HandleReceives
  BY <1>2 DEF HandleReceives
<1> QED
  BY <1>7, <1>8, <1>9, <1>10 DEF Typed

LEMMA TypedStep == Typed /\ [Next]_vars => Typed'
<1> SUFFICES ASSUME Typed, [Next]_vars PROVE Typed'
  OBVIOUS
<1>1. ASSUME NEW w \in Workers, SubmitTurn(w) \/ WorkerStep(w) PROVE Typed'
  BY <1>1, TypedSubmit, TypedStart, TypedAttach, TypedMap, TypedJoin, TypedInterrupt DEF WorkerStep
<1>2. ASSUME NEW w \in Workers, TaskStep(w) PROVE Typed'
  BY <1>2, TypedBegin, TypedError, TypedRespond, TypedComplete, TypedReturn, TypedCancel, TypedPanic
     DEF TaskStep
<1>3. CASE SubmitTurnMessageFails \/ AbortTurn \/ ClearRuntime \/ Restart
  BY <1>3, TypedMessageFails, TypedAbort, TypedClear, TypedRestart
<1>4. CASE CompactRead \/ CompactStep
  BY <1>4, TypedCompact, TypedCompactRun, TypedPublish DEF CompactStep
<1>5. CASE ShutdownBegin \/ ShutdownStep
  BY <1>5, TypedShutdown
<1>6. CASE UNCHANGED vars
  BY <1>6, SameTypes, TypedAlone DEF vars
<1> QED
  BY <1>1, <1>2, <1>3, <1>4, <1>5, <1>6 DEF Next

LEMMA TypedAlways == Spec => []Typed
BY TypedInit, TypedStep, PTL DEF Spec

-----------------------------------------------------------------------------
(* Every step keeps the workers in order *)

\* A step that moves no worker from one place of run_turn_task to another.
LEMMA OrderedSame ==
  ASSUME Typed, Ordered,
         \A w \in Workers : /\ workers'[w].pc = workers[w].pc
                            /\ workers'[w].agent = workers[w].agent
                            /\ workers'[w].turn = workers[w].turn
                            /\ workers'[w].aborting = workers[w].aborting
                            /\ workers'[w].task = "none" => workers[w].task = "none"
                            /\ workers[w].task = "none" => workers'[w].task = "none",
         \A g \in Generations : agents'[g].next = agents[g].next,
         session'.agent = session.agent, session'.handle = session.handle,
         session'.inFlight = session.inFlight,
         session'.abortRequested = session.abortRequested,
         used'["abort"] = used["abort"], used'["clear"] = used["clear"]
  PROVE  Ordered'
<1>1. Numbered /\ OneAgent /\ NoAborts /\ OneWorker /\ OneAbort
  BY DEF Ordered
<1>2. \A w \in Workers : workers[w].agent \in Generations
  BY SameTypes, WorkerIs
<1>3. Numbered'
  BY <1>1, <1>2 DEF Numbered
<1>4. OneAgent'
  BY <1>1 DEF OneAgent
<1>5. NoAborts'
  BY <1>1 DEF NoAborts
<1>6. OneWorker'
  BY <1>1 DEF OneWorker, InProgress
<1>7. OneAbort'
  BY <1>1 DEF OneAbort
<1> QED
  BY <1>3, <1>4, <1>5, <1>6, <1>7 DEF Ordered

\* What a step of one worker has to keep.
LEMMA OrderedWorker ==
  ASSUME Typed, Ordered, NEW w \in Workers, NEW k, Becomes(w, k),
         k.turn = workers[w].turn, workers[w].turn = NoTurn \/ k.agent = workers[w].agent,
         used'["clear"] = 0 /\ k.task # "none" => k.agent = session.agent,
         \A g \in Generations : agents'[g].next = agents[g].next,
         session'.agent = session.agent,
         used'["abort"] = used["abort"], used'["clear"] = used["clear"],
         session'.abortRequested => session.abortRequested,
         k.aborting => workers[w].aborting \/ session.abortRequested
  PROVE  Numbered' /\ OneAgent' /\ NoAborts'
<1>1. Numbered /\ OneAgent /\ NoAborts
  BY DEF Ordered
<1>2. /\ workers'[w] = k
      /\ \A v \in Workers : v # w => workers'[v] = workers[v]
  BY SameTypes, BecomesView
<1>3. \A v \in Workers : workers[v].agent \in Generations
  BY SameTypes, WorkerIs
<1>4. \A v \in Workers : /\ workers'[v].turn = workers[v].turn
                         /\ workers[v].turn # NoTurn => workers'[v].agent = workers[v].agent
  BY <1>2
<1>5. Numbered'
  <2>1. ASSUME NEW v \in Workers, workers'[v].turn # NoTurn
        PROVE  workers'[v].turn < agents'[workers'[v].agent].next
    BY <1>1, <1>3, <1>4, <2>1 DEF Numbered
  <2>2. ASSUME NEW u \in Workers, NEW v \in Workers, u # v, workers'[u].turn # NoTurn,
               workers'[u].agent = workers'[v].agent
        PROVE  workers'[u].turn # workers'[v].turn
    <3>1. CASE workers[v].turn = NoTurn
      BY <1>4, <2>2, <3>1
    <3>2. CASE workers[v].turn # NoTurn
      <4>1. workers[u].agent = workers[v].agent /\ workers[u].turn # NoTurn
        BY <1>4, <2>2, <3>2
      <4> QED
        BY <1>1, <1>4, <2>2, <4>1 DEF Numbered
    <3> QED
      BY <3>1, <3>2
  <2> QED
    BY <2>1, <2>2 DEF Numbered
<1>6. OneAgent'
  BY <1>1, <1>2 DEF OneAgent
<1>7. NoAborts'
  BY <1>1, <1>2 DEF NoAborts
<1> QED
  BY <1>5, <1>6, <1>7

\* No worker is in progress when a submit is accepted, as long as there were no aborts.
LEMMA NoneInProgress ==
  ASSUME Typed, Ordered, SubmitGuard, used["abort"] = 0, used["clear"] = 0
  PROVE  \A w \in Workers : ~ InProgress(w)
BY Constants DEF Ordered, OneWorker, InProgress, SubmitGuard

LEMMA AcceptedIs ==
  ASSUME session \in Session, session' = Accepted
  PROVE  /\ session'.agent = session.agent /\ session'.handle = session.handle
         /\ session'.inFlight = TRUE /\ session'.abortRequested = FALSE
         /\ session'.stored = session.stored
BY DEF Accepted, Session

LEMMA OrderedSubmit ==
  ASSUME Typed, Ordered, NEW w \in Workers, SubmitTurn(w)
  PROVE  Ordered'
<1>1. PICK k : /\ Becomes(w, k)
               /\ k.pc = "spawned" /\ k.agent = workers[w].agent
               /\ k.task = workers[w].task /\ k.aborting = workers[w].aborting
               /\ k.phase = workers[w].phase /\ k.turn = workers[w].turn
               /\ k.chan = workers[w].chan /\ k.known = workers[w].known
  BY SameTypes, SubmitView
<1>2. /\ workers[w].pc = "unused" /\ SubmitGuard /\ session' = Accepted
      /\ UNCHANGED <<turns, agents, compactor, closer, log, base, lost, used>>
  BY SameTypes, SubmitView
<1>3. /\ session'.agent = session.agent /\ session'.handle = session.handle
      /\ session'.inFlight = TRUE /\ session'.abortRequested = FALSE /\ session.handle = None
  BY <1>2, SameTypes, AcceptedIs DEF SubmitGuard
<1>4. /\ workers'[w] = k
      /\ \A v \in Workers : v # w => workers'[v] = workers[v]
  BY <1>1, SameTypes, BecomesView
<1>5. workers[w].task = "none"
  BY <1>2, SameTypes DEF WorkersFit, Fits
<1>6. Numbered' /\ OneAgent' /\ NoAborts'
  BY <1>1, <1>2, <1>3, <1>5, OrderedWorker
<1>7. OneWorker'
  BY <1>1, <1>2, <1>3, <1>4, NoneInProgress DEF OneWorker, InProgress
<1>8. OneAbort'
  BY <1>1, <1>2, <1>3, <1>4 DEF OneAbort, Ordered
<1> QED
  BY <1>6, <1>7, <1>8 DEF Ordered

LEMMA OrderedMessageFails ==
  ASSUME Typed, Ordered, SubmitTurnMessageFails
  PROVE  Ordered'
<1>1. /\ session'.agent = session.agent /\ session'.handle = session.handle
      /\ session'.inFlight = TRUE /\ session'.abortRequested = FALSE /\ session.handle = None
  BY SameTypes, AcceptedIs DEF SubmitGuard, SubmitTurnMessageFails
<1>2. used'["abort"] = used["abort"] /\ used'["clear"] = used["clear"]
  <2>1. "message" \in Actions /\ "clear" \in Actions /\ "abort" \in Actions
    BY DEF Actions
  <2> QED
    BY <2>1, SameTypes, SpendIs DEF Within, SubmitTurnMessageFails
<1>3. workers' = workers /\ agents' = agents /\ SubmitGuard
  BY DEF SubmitTurnMessageFails
<1>4. Numbered' /\ OneAgent' /\ NoAborts'
  BY <1>1, <1>2, <1>3 DEF Ordered, Numbered, OneAgent, NoAborts
<1>5. OneWorker'
  BY <1>1, <1>2, <1>3, NoneInProgress DEF OneWorker, InProgress
<1>6. OneAbort'
  BY <1>1, <1>2, <1>3 DEF OneAbort, Ordered
<1> QED
  BY <1>4, <1>5, <1>6 DEF Ordered

LEMMA OrderedStart ==
  ASSUME Typed, Ordered, NEW w \in Workers, WorkerStart(w)
  PROVE  Ordered'
<1>1. PICK k : /\ Becomes(w, k)
               /\ k.pc = "started" /\ k.agent = session.agent
               /\ k.task = "waiting" /\ k.aborting = workers[w].aborting
               /\ k.phase = workers[w].phase /\ k.turn = workers[w].turn
               /\ k.chan = workers[w].chan /\ k.known = workers[w].known
  BY SameTypes, StartView
<1>2. /\ workers[w].pc = "spawned"
      /\ UNCHANGED <<session, turns, agents, compactor, closer, log, base, lost, used>>
  BY SameTypes, StartView
<1>3. /\ workers'[w] = k
      /\ \A v \in Workers : v # w => workers'[v] = workers[v]
  BY <1>1, SameTypes, BecomesView
<1>4. workers[w].turn = NoTurn
  BY <1>2, SameTypes DEF WorkersFit, Fits
<1>5. Numbered' /\ OneAgent' /\ NoAborts'
  BY <1>1, <1>2, <1>4, OrderedWorker
<1>6. OneWorker'
  BY <1>1, <1>2, <1>3 DEF OneWorker, InProgress, Ordered
<1>7. OneAbort'
  BY <1>1, <1>2, <1>3 DEF OneAbort, Ordered
<1> QED
  BY <1>5, <1>6, <1>7 DEF Ordered

LEMMA OrderedAttach ==
  ASSUME Typed, Ordered, NEW w \in Workers, WorkerAttach(w)
  PROVE  Ordered'
<1>1. PICK k : /\ Becomes(w, k)
               /\ k.pc = "receiving" /\ k.agent = workers[w].agent
               /\ k.task = workers[w].task
               /\ k.aborting = (workers[w].aborting \/ session.abortRequested)
               /\ k.phase = workers[w].phase /\ k.turn = workers[w].turn
               /\ k.chan = workers[w].chan /\ k.known = workers[w].known
  BY ZenonT(20), SameTypes, AttachView
<1>2. /\ workers[w].pc = "started" /\ session' = [session EXCEPT !.handle = w, !.inFlight = FALSE]
      /\ UNCHANGED <<turns, agents, compactor, closer, log, base, lost, used>>
  BY SameTypes, AttachView
<1>3. /\ workers'[w] = k
      /\ \A v \in Workers : v # w => workers'[v] = workers[v]
  BY <1>1, SameTypes, BecomesView
<1>4. /\ session'.agent = session.agent /\ session'.handle = w /\ session'.inFlight = FALSE
      /\ session'.abortRequested = session.abortRequested
  BY <1>2, SameTypes DEF Session
<1>5. workers[w].task # "none"
  BY <1>2, SameTypes DEF WorkersFit, Fits
<1>6. Numbered' /\ OneAgent' /\ NoAborts'
  BY <1>1, <1>2, <1>4, <1>5, OrderedWorker DEF Ordered, OneAgent
<1>7. OneWorker'
  BY <1>1, <1>2, <1>3, <1>4 DEF OneWorker, InProgress, Ordered
<1>8. OneAbort'
  <2>1. SUFFICES ASSUME used["clear"] = 0, used["abort"] <= 1 PROVE OneAbort'
    BY <1>2 DEF OneAbort
  <2>2. ~ session.abortRequested
    BY <1>2, <2>1 DEF OneAbort, Ordered
  <2> QED
    BY <1>1, <1>2, <1>3, <1>4, <2>1, <2>2 DEF OneAbort, Ordered
<1> QED
  BY <1>6, <1>7, <1>8 DEF Ordered

LEMMA OrderedJoin ==
  ASSUME Typed, Ordered, NEW w \in Workers, WorkerJoin(w)
  PROVE  Ordered'
<1>1. PICK k : /\ Becomes(w, k)
               /\ k.pc = (IF workers[w].task = "cancelled" THEN "interrupting" ELSE "done")
               /\ k.agent = workers[w].agent
               /\ k.task = workers[w].task /\ k.aborting = workers[w].aborting
               /\ k.phase = workers[w].phase /\ k.turn = workers[w].turn
               /\ k.chan = workers[w].chan /\ k.known = workers[w].known
  BY SameTypes, JoinView
<1>2. /\ workers[w].pc = "receiving" /\ workers[w].task \in {"returned", "cancelled", "panicked"}
      /\ session' = Forgotten
      /\ UNCHANGED <<turns, agents, compactor, closer, log, base, lost, used>>
  BY SameTypes, JoinView
<1>3. /\ workers'[w] = k
      /\ \A v \in Workers : v # w => workers'[v] = workers[v]
  BY <1>1, SameTypes, BecomesView
<1>4. /\ session'.agent = session.agent /\ session'.handle = None /\ session'.inFlight = FALSE
      /\ session'.abortRequested = FALSE
  BY <1>2, SameTypes DEF Session, Forgotten
<1>5. Numbered' /\ OneAgent' /\ NoAborts'
  BY <1>1, <1>2, <1>4, OrderedWorker DEF Ordered, OneAgent
<1>6. OneWorker'
  BY <1>1, <1>2, <1>3, <1>4 DEF OneWorker, InProgress, Ordered
<1>7. OneAbort'
  BY <1>1, <1>2, <1>3, <1>4 DEF OneAbort, Ordered
<1> QED
  BY <1>5, <1>6, <1>7 DEF Ordered

LEMMA OrderedInterrupt ==
  ASSUME Typed, Ordered, NEW w \in Workers, WorkerInterrupt(w)
  PROVE  Ordered'
<1>1. PICK k : /\ Becomes(w, k)
               /\ k.pc = "done" /\ k.agent = workers[w].agent
               /\ k.task = workers[w].task /\ k.aborting = workers[w].aborting
               /\ k.phase = workers[w].phase /\ k.turn = workers[w].turn
               /\ k.chan = workers[w].chan /\ k.known = workers[w].known
  BY SameTypes, InterruptView
<1>2. workers[w].pc = "interrupting" /\ UNCHANGED <<session, agents, compactor, closer, base>>
  BY SameTypes, InterruptView
<1>3. used'["abort"] = used["abort"] /\ used'["clear"] = used["clear"]
  <2>1. "append" \in Actions /\ "clear" \in Actions /\ "abort" \in Actions
    BY DEF Actions
  <2>2. used' = used \/ (May("append") /\ Spend("append"))
    BY DEF WorkerInterrupt
  <2> QED
    BY <2>1, <2>2, SameTypes, SpendIs DEF Within
<1>4. /\ workers'[w] = k
      /\ \A v \in Workers : v # w => workers'[v] = workers[v]
  BY <1>1, SameTypes, BecomesView
<1>5. Numbered' /\ OneAgent' /\ NoAborts'
  BY <1>1, <1>2, <1>3, OrderedWorker DEF Ordered, OneAgent
<1>6. OneWorker'
  BY <1>1, <1>2, <1>3, <1>4 DEF OneWorker, InProgress, Ordered
<1>7. OneAbort'
  BY <1>1, <1>2, <1>3, <1>4 DEF OneAbort, Ordered
<1> QED
  BY <1>5, <1>6, <1>7 DEF Ordered

LEMMA OrderedBegin ==
  ASSUME Typed, Ordered, NEW w \in Workers, TaskBegin(w)
  PROVE  Ordered'
<1>1. PICK n, g, k, e, c :
           /\ n \in 1..MaxWorkers /\ g \in Generations
           /\ workers[w].task = "waiting" /\ g = workers[w].agent /\ n = agents[g].next
           /\ c \in Agent /\ agents' = [agents EXCEPT ![g] = c]
           /\ c.lock = "task" /\ c.sink = w /\ c.next = n + 1
           /\ e \in Events /\ e.type = "turn_started" /\ e.turn = n
           /\ Becomes(w, k)
           /\ k.pc = workers[w].pc /\ k.agent = g
           /\ k.task = "running" /\ k.aborting = workers[w].aborting
           /\ k.phase = "open" /\ k.turn = n
           /\ k.chan = Append(workers[w].chan, e) /\ k.known = workers[w].known
           /\ Cardinality(Past) + 1 <= Cardinality(Past')
           /\ UNCHANGED <<session, turns, compactor, closer, log, base, lost, used>>
  BY BeginView
<1>2. /\ workers'[w] = k
      /\ \A v \in Workers : v # w => workers'[v] = workers[v]
  BY <1>1, SameTypes, BecomesView
<1>3. Numbered /\ OneAgent /\ NoAborts /\ OneWorker /\ OneAbort
  BY DEF Ordered
<1>4. \A h \in Generations : /\ agents[h].next \in Nat
                             /\ agents'[h].next = IF h = g THEN n + 1 ELSE agents[h].next
  BY <1>1, SameTypes DEF Agent
<1>5. \A v \in Workers : /\ workers[v].agent \in Generations
                         /\ workers[v].turn \in 1..MaxWorkers \/ workers[v].turn = NoTurn
  BY SameTypes, WorkerIs
<1>6. Numbered'
  <2>1. ASSUME NEW v \in Workers, workers'[v].turn # NoTurn
        PROVE  workers'[v].turn < agents'[workers'[v].agent].next
    <3>1. CASE v = w
      BY <1>1, <1>2, <1>4, <3>1
    <3>2. CASE v # w
      <4>1. workers[v].turn < agents[workers[v].agent].next /\ workers[v].turn \in 1..MaxWorkers
        BY <1>2, <1>3, <1>5, <2>1, <3>2 DEF Numbered
      <4>2. agents[workers[v].agent].next <= agents'[workers[v].agent].next
        BY <1>1, <1>4, <1>5
      <4> QED
        BY <1>1, <1>2, <1>4, <1>5, <3>2, <4>1, <4>2
    <3> QED
      BY <3>1, <3>2
  <2>2. ASSUME NEW v \in Workers, v # w, workers[v].turn # NoTurn, workers[v].agent = g
        PROVE  workers[v].turn # n
    <3>1. workers[v].turn < agents[workers[v].agent].next /\ workers[v].turn \in 1..MaxWorkers
      BY <1>3, <1>5, <2>2 DEF Numbered
    <3> QED
      BY <1>1, <2>2, <3>1
  <2>3. ASSUME NEW u \in Workers, NEW v \in Workers, u # v, workers'[u].turn # NoTurn,
               workers'[u].agent = workers'[v].agent
        PROVE  workers'[u].turn # workers'[v].turn
    <3>1. CASE u = w
      BY <1>1, <1>2, <2>2, <2>3, <3>1, Constants
    <3>2. CASE v = w
      BY <1>1, <1>2, <2>2, <2>3, <3>2
    <3>3. CASE u # w /\ v # w
      BY <1>2, <1>3, <2>3, <3>3 DEF Numbered
    <3> QED
      BY <3>1, <3>2, <3>3
  <2> QED
    BY <2>1, <2>3 DEF Numbered
<1>7. OneAgent'
  BY <1>1, <1>2, <1>3 DEF OneAgent
<1>8. NoAborts'
  BY <1>1, <1>2, <1>3 DEF NoAborts
<1>9. OneWorker'
  <2>1. /\ \A v \in Workers : workers'[v].pc = workers[v].pc
        /\ session' = session /\ used' = used
    BY <1>1, <1>2
  <2> QED
    BY <1>3, <2>1 DEF OneWorker, InProgress
<1>10. OneAbort'
  BY SMTT(20), <1>1, <1>2, <1>3, SameTypes DEF OneAbort
<1> QED
  BY <1>6, <1>7, <1>8, <1>9, <1>10 DEF Ordered

LEMMA OrderedAbort ==
  ASSUME Typed, Ordered, AbortTurn
  PROVE  Ordered'
<1>1. PICK w \in Workers : w = session.handle
  BY SameTypes, AbortView
<1>2. PICK k : /\ Becomes(w, k)
               /\ k.pc = workers[w].pc /\ k.agent = workers[w].agent
               /\ k.task = workers[w].task /\ k.aborting = TRUE
               /\ k.phase = workers[w].phase /\ k.turn = workers[w].turn
               /\ k.chan = workers[w].chan /\ k.known = workers[w].known
  BY <1>1, SameTypes, AbortView
<1>3. /\ May("abort") /\ Spend("abort")
      /\ session' = [session EXCEPT !.handle = None, !.abortRequested = TRUE]
      /\ UNCHANGED <<turns, agents, compactor, closer, log, base, lost>>
  BY SameTypes, AbortView
<1>4. /\ workers'[w] = k
      /\ \A v \in Workers : v # w => workers'[v] = workers[v]
  BY <1>2, SameTypes, BecomesView
<1>5. Numbered /\ OneAgent /\ NoAborts /\ OneWorker /\ OneAbort
  BY DEF Ordered
<1>6. used'["abort"] = used["abort"] + 1 /\ used["abort"] \in Nat /\ used'["clear"] = used["clear"]
  <2>1. "abort" \in Actions /\ "clear" \in Actions
    BY DEF Actions
  <2> QED
    BY <1>3, <2>1, SameTypes, SpendIs DEF Within
<1>7. session'.agent = session.agent
  BY <1>3, SameTypes DEF Session
<1>8. workers[w].pc = "receiving"
  BY <1>1, SameTypes, Constants DEF HandleReceives
<1>9. Numbered'
  BY <1>2, <1>3, <1>4, <1>5 DEF Numbered
<1>10. OneAgent'
  BY <1>2, <1>4, <1>5, <1>6, <1>7 DEF OneAgent
<1>11. NoAborts'
  BY <1>6 DEF NoAborts
<1>12. OneWorker'
  BY <1>6 DEF OneWorker
<1>13. OneAbort'
  <2>1. SUFFICES ASSUME used["clear"] = 0, used["abort"] = 0 PROVE OneAbort'
    BY <1>6 DEF OneAbort
  <2>2. \A v \in Workers : ~ workers[v].aborting
    BY <1>5, <2>1 DEF NoAborts
  <2>3. \A v \in Workers : workers[v].pc \notin {"spawned", "started"}
    BY <1>5, <1>8, <2>1 DEF OneWorker, InProgress
  <2> QED
    BY <1>2, <1>4, <1>8, <2>2, <2>3 DEF OneAbort
<1> QED
  BY <1>9, <1>10, <1>11, <1>12, <1>13 DEF Ordered

LEMMA OrderedClear ==
  ASSUME Typed, Ordered, ClearRuntime
  PROVE  Ordered'
<1>1. session.agent + 1 \in Generations
  BY NextGeneration DEF ClearRuntime
<1>2. session'.abortRequested = FALSE
  BY <1>1, FreshIs DEF ClearRuntime
<1>3. used'["clear"] = used["clear"] + 1 /\ used["clear"] \in Nat /\ used'["abort"] = used["abort"]
  <2>1. "abort" \in Actions /\ "clear" \in Actions
    BY DEF Actions
  <2> QED
    BY <2>1, SameTypes, SpendIs DEF Within, ClearRuntime
<1>4. workers' = workers /\ agents' = agents
  BY DEF ClearRuntime
<1>5. Numbered' /\ NoAborts'
  BY <1>2, <1>3, <1>4 DEF Ordered, Numbered, NoAborts
<1>6. OneAgent' /\ OneWorker' /\ OneAbort'
  BY <1>3 DEF OneAgent, OneWorker, OneAbort
<1> QED
  BY <1>5, <1>6 DEF Ordered

LEMMA OrderedRestart ==
  ASSUME Typed, Ordered, Restart
  PROVE  Ordered'
<1>1. PICK d \in Worker :
           /\ d.pc = "dead" /\ d.task = "none" /\ d.aborting = FALSE /\ d.phase = "closed"
           /\ d.turn = NoTurn /\ d.chan = <<>> /\ d.known = NoTurn /\ d.agent = 1
           /\ workers' \in [Workers -> Worker]
           /\ \A w \in Workers : workers'[w] = IF workers[w].pc = "unused" THEN workers[w] ELSE d
           /\ session.stored /\ May("restart") /\ Spend("restart")
           /\ session' = FreshSession(session.agent + 1) /\ session.agent + 1 \in Generations
           /\ turns' = ReplayTurns(log) /\ base' = 0 /\ lost' = {} /\ UNCHANGED <<agents, log>>
  BY RestartView
<1>2. session'.abortRequested = FALSE
  BY <1>1, FreshIs
<1>3. \A w \in Workers : /\ workers'[w].turn = NoTurn /\ workers'[w].task = "none"
                         /\ workers'[w].aborting = FALSE
                         /\ workers'[w].pc \in {"unused", "dead"}
  <2>1. \A w \in Workers : workers[w].pc = "unused" =>
          workers[w].task = "none" /\ workers[w].aborting = FALSE /\ workers[w].turn = NoTurn
    <3>1. \A w \in Workers : workers[w].aborting \in BOOLEAN
      BY SameTypes, WorkerIs
    <3> QED
      BY <3>1, SameTypes DEF WorkersFit, Fits
  <2> QED
    BY <1>1, <2>1
<1>4. Numbered' /\ OneAgent' /\ NoAborts'
  BY <1>2, <1>3 DEF Numbered, OneAgent, NoAborts
<1>5. OneWorker' /\ OneAbort'
  BY <1>3 DEF OneWorker, OneAbort, InProgress
<1> QED
  BY <1>4, <1>5 DEF Ordered

\* A step of one worker that moves it nowhere.
LEMMA OrderedStay ==
  ASSUME Typed, Ordered, NEW w \in Workers, NEW k, Becomes(w, k),
         k.pc = workers[w].pc, k.agent = workers[w].agent, k.turn = workers[w].turn,
         k.aborting = workers[w].aborting, workers[w].task = "none" <=> k.task = "none",
         \A g \in Generations : agents'[g].next = agents[g].next,
         UNCHANGED session,
         used'["abort"] = used["abort"], used'["clear"] = used["clear"]
  PROVE  Ordered'
<1>1. /\ workers'[w] = k
      /\ \A v \in Workers : v # w => workers'[v] = workers[v]
  BY SameTypes, BecomesView
<1>2. \A v \in Workers : /\ workers'[v].pc = workers[v].pc
                         /\ workers'[v].agent = workers[v].agent
                         /\ workers'[v].turn = workers[v].turn
                         /\ workers'[v].aborting = workers[v].aborting
                         /\ workers'[v].task = "none" => workers[v].task = "none"
                         /\ workers[v].task = "none" => workers'[v].task = "none"
  BY <1>1
<1> QED
  BY <1>2, OrderedSame

LEMMA OrderedMap ==
  ASSUME Typed, Ordered, NEW w \in Workers, WorkerMap(w)
  PROVE  Ordered'
<1>1. PICK k, e : /\ AppendThenPublish(e) \/ AppendFailureReported(e) \/ AppendFailureSwallowed(e)
                  /\ Becomes(w, k)
                  /\ k.pc = "receiving" /\ k.agent = workers[w].agent
                  /\ k.task = workers[w].task /\ k.aborting = workers[w].aborting
                  /\ k.phase = workers[w].phase /\ k.turn = workers[w].turn
  BY SameTypes, MapView
<1>2. workers[w].pc = "receiving" /\ UNCHANGED <<session, agents>>
  BY SameTypes, MapView
<1>3. used'["abort"] = used["abort"] /\ used'["clear"] = used["clear"]
  <2>1. "append" \in Actions /\ "clear" \in Actions /\ "abort" \in Actions
    BY DEF Actions
  <2>2. used' = used \/ (May("append") /\ Spend("append"))
    BY <1>1 DEF AppendThenPublish, AppendFailureReported, AppendFailureSwallowed
  <2> QED
    BY <2>1, <2>2, SameTypes, SpendIs DEF Within
<1> QED
  BY <1>1, <1>2, <1>3, OrderedStay

LEMMA OrderedError ==
  ASSUME Typed, Ordered, NEW w \in Workers, TaskError(w)
  PROVE  Ordered'
<1>1. PICK k : /\ Becomes(w, k)
               /\ k.pc = workers[w].pc /\ k.agent = workers[w].agent
               /\ k.task = workers[w].task /\ k.aborting = workers[w].aborting
               /\ k.turn = workers[w].turn
  BY SameTypes, ErrorView DEF WorkersFit
<1>2. used'["abort"] = used["abort"] /\ used'["clear"] = used["clear"]
  <2>1. "error" \in Actions /\ "clear" \in Actions /\ "abort" \in Actions
    BY DEF Actions
  <2> QED
    BY <2>1, SameTypes, SpendIs DEF Within, TaskError
<1>3. UNCHANGED <<session, agents>>
  BY DEF TaskError
<1> QED
  BY <1>1, <1>2, <1>3, OrderedStay

LEMMA OrderedRespond ==
  ASSUME Typed, Ordered, NEW w \in Workers, TaskRespond(w) \/ TaskComplete(w)
  PROVE  Ordered'
<1>1. PICK k : /\ Becomes(w, k)
               /\ k.pc = workers[w].pc /\ k.agent = workers[w].agent
               /\ k.task = workers[w].task /\ k.aborting = workers[w].aborting
               /\ k.turn = workers[w].turn
  <2>1. CASE TaskRespond(w)
    BY <2>1, SameTypes, RespondView DEF WorkersFit
  <2>2. CASE TaskComplete(w)
    BY <2>2, SameTypes, CompleteView DEF WorkersFit
  <2> QED
    BY <2>1, <2>2
<1>2. UNCHANGED <<session, agents, used>>
  BY DEF TaskRespond, TaskComplete
<1> QED
  BY <1>1, <1>2, OrderedStay

LEMMA OrderedReturn ==
  ASSUME Typed, Ordered, NEW w \in Workers, TaskReturn(w) \/ TaskCancel(w)
  PROVE  Ordered'
<1>1. PICK k : /\ Becomes(w, k)
               /\ k.pc = workers[w].pc /\ k.agent = workers[w].agent
               /\ k.task # "none" /\ k.aborting = workers[w].aborting
               /\ k.turn = workers[w].turn
  <2>1. CASE TaskReturn(w)
    BY ZenonT(20), <2>1, SameTypes, ReturnView
  <2>2. CASE TaskCancel(w)
    BY <2>2, SameTypes, CancelView
  <2> QED
    BY <2>1, <2>2
<1>2. workers[w].task # "none"
  BY DEF TaskReturn, TaskCancel
<1>3. UNCHANGED <<session, used>>
  BY DEF TaskReturn, TaskCancel
<1>4. \A g \in Generations : agents'[g].next = agents[g].next
  <2>1. PICK g \in Generations : g = workers[w].agent
    BY SameTypes, WorkerIs
  <2>2. /\ \A h \in Generations : [agents EXCEPT ![g].lock = "free"][h].next = agents[h].next
        /\ \A h \in Generations :
             [agents EXCEPT ![g].lock = "free", ![g].sink = None][h].next = agents[h].next
    BY SameTypes, AgentTypes
  <2> QED
    BY <2>1, <2>2 DEF TaskReturn, TaskCancel
<1> QED
  BY <1>1, <1>2, <1>3, <1>4, OrderedStay

LEMMA OrderedPanic ==
  ASSUME Typed, Ordered, NEW w \in Workers, TaskPanic(w)
  PROVE  Ordered'
<1>1. PICK k : /\ Becomes(w, k)
               /\ k.pc = workers[w].pc /\ k.agent = workers[w].agent
               /\ k.task = "panicked" /\ k.aborting = workers[w].aborting
               /\ k.turn = workers[w].turn
  BY SameTypes, PanicView
<1>2. /\ workers[w].task = "running" /\ May("panic") /\ Spend("panic")
      /\ agents' = [agents EXCEPT ![workers[w].agent].lock = "free"]
      /\ UNCHANGED session
  BY SameTypes, PanicView
<1>3. used'["abort"] = used["abort"] /\ used'["clear"] = used["clear"]
  BY <1>2, SameTypes, PanicSpends
<1>4. \A g \in Generations : agents'[g].next = agents[g].next
  <2>1. PICK g \in Generations : g = workers[w].agent
    BY SameTypes, WorkerIs
  <2>2. \A h \in Generations : [agents EXCEPT ![g].lock = "free"][h].next = agents[h].next
    BY SameTypes, AgentTypes
  <2> QED
    BY <1>2, <2>1, <2>2
<1> QED
  BY <1>1, <1>2, <1>3, <1>4, OrderedStay

LEMMA OrderedCompact ==
  ASSUME Typed, Ordered, CompactRead \/ CompactStep
  PROVE  Ordered'
<1>1. used'["abort"] = used["abort"] /\ used'["clear"] = used["clear"]
  <2>1. {"compact", "append", "clear", "abort"} \subseteq Actions
    BY DEF Actions
  <2>2. \/ used' = used
        \/ May("append") /\ Spend("append")
        \/ May("compact") /\ Spend("compact")
    BY DEF CompactRead, CompactStep, CompactLock, CompactRun, CompactPublish
  <2> QED
    BY <2>1, <2>2, SameTypes, SpendIs DEF Within
<1>2. session' = session
  BY DEF CompactRead, CompactStep, CompactLock, CompactRun, CompactPublish
<1>3. \A g \in Generations : agents'[g].next = agents[g].next
  <2>1. PICK g \in Generations : g = compactor.agent
    BY SameTypes
  <2>2. /\ \A h \in Generations : [agents EXCEPT ![g].lock = "free"][h].next = agents[h].next
        /\ \A h \in Generations : [agents EXCEPT ![g].lock = "compact"][h].next = agents[h].next
    BY SameTypes, AgentTypes
  <2> QED
    BY <2>1, <2>2 DEF CompactRead, CompactStep, CompactLock, CompactRun, CompactPublish
<1>4. \/ workers' = workers
      \/ \E w \in Workers : \E k : /\ Becomes(w, k)
                               /\ k.pc = workers[w].pc /\ k.agent = workers[w].agent
                               /\ k.task = workers[w].task /\ k.aborting = workers[w].aborting
                               /\ k.turn = workers[w].turn
  <2>1. CASE CompactRun
    BY <2>1, SameTypes, CompactRunView
  <2>2. CASE ~ CompactRun
    BY <2>2 DEF CompactRead, CompactStep, CompactLock, CompactPublish
  <2> QED
    BY <2>1, <2>2
<1>5. CASE workers' = workers
  BY <1>1, <1>2, <1>3, <1>5, OrderedSame
<1>6. CASE workers' # workers
  BY <1>1, <1>2, <1>3, <1>4, <1>6, OrderedStay
<1> QED
  BY <1>5, <1>6

LEMMA OrderedShutdown ==
  ASSUME Typed, Ordered, ShutdownBegin \/ ShutdownStep
  PROVE  Ordered'
<1>1. used'["abort"] = used["abort"] /\ used'["clear"] = used["clear"]
  <2>1. {"shutdown", "clear", "abort"} \subseteq Actions
    BY DEF Actions
  <2>2. used' = used \/ (May("shutdown") /\ Spend("shutdown"))
    BY DEF ShutdownBegin, ShutdownStep, ShutdownClose, ShutdownDelete
  <2> QED
    BY <2>1, <2>2, SameTypes, SpendIs DEF Within
<1>2. /\ session'.agent = session.agent /\ session'.handle = session.handle
      /\ session'.inFlight = session.inFlight
      /\ session'.abortRequested = session.abortRequested
  BY SameTypes DEF ShutdownBegin, ShutdownStep, ShutdownClose, ShutdownDelete, Session
<1>3. workers' = workers /\ agents' = agents
  BY DEF ShutdownBegin, ShutdownStep, ShutdownClose, ShutdownDelete
<1> QED
  BY <1>1, <1>2, <1>3, OrderedSame

LEMMA OrderedInit == Init => Ordered
<1> SUFFICES ASSUME Init PROVE Ordered
  OBVIOUS
<1>1. /\ session.abortRequested = FALSE /\ session.handle = None /\ session.agent = 1
  BY FreshIs, GenerationsAre DEF Init
<1>2. \A w \in Workers : /\ workers[w].turn = NoTurn /\ workers[w].task = "none"
                         /\ workers[w].aborting = FALSE /\ workers[w].pc = "unused"
  BY DEF Init, IdleWorker
<1> QED
  BY <1>1, <1>2 DEF Ordered, Numbered, OneAgent, NoAborts, OneWorker, OneAbort, InProgress

LEMMA OrderedStep == Typed /\ Ordered /\ [Next]_vars => Ordered'
<1> SUFFICES ASSUME Typed, Ordered, [Next]_vars PROVE Ordered'
  OBVIOUS
<1>1. ASSUME NEW w \in Workers, SubmitTurn(w) \/ WorkerStep(w) PROVE Ordered'
  BY <1>1, OrderedSubmit, OrderedStart, OrderedAttach, OrderedMap, OrderedJoin,
     OrderedInterrupt DEF WorkerStep
<1>2. ASSUME NEW w \in Workers, TaskStep(w) PROVE Ordered'
  BY <1>2, OrderedBegin, OrderedError, OrderedRespond, OrderedReturn, OrderedPanic DEF TaskStep
<1>3. CASE SubmitTurnMessageFails \/ AbortTurn \/ ClearRuntime \/ Restart
  BY <1>3, OrderedMessageFails, OrderedAbort, OrderedClear, OrderedRestart
<1>4. CASE CompactRead \/ CompactStep
  BY <1>4, OrderedCompact
<1>5. CASE ShutdownBegin \/ ShutdownStep
  BY <1>5, OrderedShutdown
<1>6. CASE UNCHANGED vars
  BY <1>6, OrderedSame DEF vars
<1> QED
  BY <1>1, <1>2, <1>3, <1>4, <1>5, <1>6 DEF Next

LEMMA OrderedAlways == Spec => [](Typed /\ Ordered)
BY TypedInit, TypedStep, OrderedInit, OrderedStep, PTL DEF Spec

-----------------------------------------------------------------------------
(* The session knows what its workers do *)

LEMMA AtMostOne ==
  ASSUME NEW S \in SUBSET Workers, \A v, w \in S : v = w
  PROVE  Cardinality(S) <= 1
<1>1. CASE S = {}
  BY <1>1, FS_EmptySet
<1>2. CASE S # {}
  <2>1. PICK w \in S : TRUE
    BY <1>2
  <2>2. S = {w}
    BY <2>1
  <2> QED
    BY <2>2, FS_Singleton
<1> QED
  BY <1>1, <1>2

LEMMA SoundWhenOrdered == Typed /\ Ordered => SessionSound
<1> SUFFICES ASSUME Typed, Ordered PROVE SessionSound
  OBVIOUS
<1>1. /\ TypeOK /\ WorkersFit /\ HandleReceives /\ OneWorker /\ NoAborts /\ OneAbort
      /\ session.handle \in Workers \cup {None}
  BY SameTypes, SessionIs DEF Ordered
<1>2. OneTurnAtATime
  <2> DEFINE S == {w \in Workers : workers[w].task \in {"waiting", "running"}}
  <2>1. SUFFICES ASSUME Undisturbed PROVE Cardinality(S) <= 1
    BY DEF OneTurnAtATime
  <2>2. \A w \in S : w \in Workers /\ InProgress(w)
    BY <1>1 DEF WorkersFit, Fits, InProgress
  <2>3. \A v, w \in S : v = w
    BY <1>1, <2>1, <2>2 DEF OneWorker, Undisturbed
  <2>4. S \in SUBSET Workers
    OBVIOUS
  <2> HIDE DEF S
  <2> QED
    BY <2>3, <2>4, AtMostOne
<1>3. HandleTracksWorker
  BY <1>1, Constants DEF HandleTracksWorker, HandleReceives, OneWorker, Undisturbed
<1>4. AbortHitsOneTurn
  <2> DEFINE S == {w \in Workers : workers[w].aborting}
  <2>1. SUFFICES ASSUME used["clear"] = 0, used["abort"] <= 1 PROVE Cardinality(S) <= used["abort"]
    BY DEF AbortHitsOneTurn
  <2>2. used["abort"] = 0 \/ used["abort"] = 1
    <3>1. used["abort"] \in Nat
      BY SameTypes DEF Within, Actions
    <3> QED
      BY <2>1, <3>1
  <2>3. CASE used["abort"] = 0
    <3>1. S = {}
      BY <1>1, <2>3 DEF NoAborts
    <3> QED
      BY <2>3, <3>1, FS_EmptySet
  <2>4. CASE used["abort"] = 1
    <3>1. \A v, w \in S : v = w
      BY <1>1, <2>1 DEF OneAbort
    <3>2. S \in SUBSET Workers
      OBVIOUS
    <3> HIDE DEF S
    <3> QED
      BY <2>4, <3>1, <3>2, AtMostOne
  <2> QED
    BY <2>2, <2>3, <2>4
<1> QED
  BY <1>1, <1>2, <1>3, <1>4 DEF SessionSound

\* However submits, aborts, clears, compactions, restarts and faults interleave with the
\* turns, the SessionRuntime is never wrong about its workers: left to itself it lets one
\* turn at a time reach the core and its abort handle is that of the worker that receives,
\* and an abort cancels the turn whose handle it took and no other.
THEOREM SessionStaysSound == Spec => []SessionSound
BY OrderedAlways, SoundWhenOrdered, PTL

-----------------------------------------------------------------------------
(* Every step keeps the turn table and the transcript in step *)

\* What a worker takes for its turn does not change under a step.
KeptKnown(w) ==
  /\ workers'[w].known = 0 => workers[w].known = 0
  /\ /\ workers'[w].known = workers'[w].turn
     /\ workers'[w].turn # NoTurn
     /\ workers'[w].phase = "open"
     => /\ workers'[w].turn = workers[w].turn
        /\ workers[w].known = workers[w].turn
        /\ workers[w].phase = "open"

\* A step that changes neither the table nor the transcript.
LEMMA ReplayedSame ==
  ASSUME Typed, Replayed, UNCHANGED <<turns, log, base, lost>>, \A w \in Workers : KeptKnown(w),
         session'.stored => session.stored,
         used'["clear"] = 0 => used["clear"] = 0, NoAbortWithClear' => NoAbortWithClear
  PROVE  Replayed'
<1>1. TurnZero /\ KnownIsOpen /\ TableIsReplay
  BY DEF Replayed
<1>2. TurnZero'
  BY <1>1 DEF TurnZero
<1>3. KnownIsOpen'
  BY <1>1 DEF KnownIsOpen, KeptKnown
<1>4. TableIsReplay'
  BY <1>1 DEF TableIsReplay
<1> QED
  BY <1>2, <1>3, <1>4 DEF Replayed

\* The replay of the events since the table was last emptied, when one more comes.
LEMMA ReplaySince ==
  ASSUME NEW events \in Transcripts, NEW e \in Events, NEW b \in 0..Len(events), NEW t \in TurnIds
  PROVE  LET more == Append(events, e)
             old  == ReplayTurns(SubSeq(events, b + 1, Len(events)))[t]
         IN  /\ more \in Transcripts /\ b \in 0..Len(more)
             /\ ReplayTurns(SubSeq(more, b + 1, Len(more)))[t] =
                  IF e.turn = t THEN ApplyTurnRuntimeEvent(old, e.type) ELSE old
<1> DEFINE since == SubSeq(events, b + 1, Len(events))  more == Append(events, e)
<1>1. more \in Transcripts /\ b \in 0..Len(more) /\ since \in Transcripts
  BY AppendIs DEF Transcripts
<1>2. SubSeq(more, b + 1, Len(more)) = Append(since, e)
  BY SinceAppend
<1> HIDE DEF since
<1>3. ReplayTurns(Append(since, e))[t] =
        IF e.turn = t THEN ApplyTurnRuntimeEvent(ReplayTurns(since)[t], e.type)
        ELSE ReplayTurns(since)[t]
  BY <1>1, ReplayAppend
<1> QED
  BY <1>1, <1>2, <1>3 DEF since

\* An event and the report of its failure: the turn has failed in both.
LEMMA TableTwo ==
  ASSUME Typed, TableIsReplay, NEW e \in Events, NEW r \in Events,
         r.type = "response_error", r.turn = e.turn,
         log' \in {Append(log, r), Append(Append(log, e), r)},
         \A t \in TurnIds \ lost' : turns'[t] = IF e.turn = t THEN "Failed" ELSE turns[t],
         lost \subseteq lost', UNCHANGED <<base, session>>, NoAbortWithClear' => NoAbortWithClear
  PROVE  TableIsReplay'
<1>1. SUFFICES ASSUME session.stored, NoAbortWithClear, NEW t \in TurnIds \ lost'
               PROVE  turns'[t] = ReplayTurns(SubSeq(log', base + 1, Len(log')))[t]
  BY DEF TableIsReplay
<1>2. log \in Transcripts /\ base \in 0..Len(log)
  BY SameTypes DEF Transcripts
<1>3. turns[t] = ReplayTurns(SubSeq(log, base + 1, Len(log)))[t]
  BY <1>1 DEF TableIsReplay
<1>4. \A st : ApplyTurnRuntimeEvent(st, "response_error") = "Failed"
  BY DEF ApplyTurnRuntimeEvent
<1>5. CASE log' = Append(log, r)
  <2>1. ReplayTurns(SubSeq(log', base + 1, Len(log')))[t] =
          IF r.turn = t THEN "Failed" ELSE ReplayTurns(SubSeq(log, base + 1, Len(log)))[t]
    BY <1>2, <1>4, <1>5, ReplaySince
  <2> QED
    BY <1>1, <1>3, <2>1
<1>6. CASE log' = Append(Append(log, e), r)
  <2>1. PICK p : p = Append(log, e)
    OBVIOUS
  <2>2. /\ p \in Transcripts /\ base \in 0..Len(p)
        /\ e.turn # t => ReplayTurns(SubSeq(p, base + 1, Len(p)))[t] =
                           ReplayTurns(SubSeq(log, base + 1, Len(log)))[t]
    BY <1>2, <2>1, ReplaySince
  <2>3. ReplayTurns(SubSeq(log', base + 1, Len(log')))[t] =
          IF r.turn = t THEN "Failed" ELSE ReplayTurns(SubSeq(p, base + 1, Len(p)))[t]
    <3>1. ReplayTurns(SubSeq(Append(p, r), base + 1, Len(Append(p, r))))[t] =
            IF r.turn = t THEN ApplyTurnRuntimeEvent(ReplayTurns(SubSeq(p, base + 1, Len(p)))[t], r.type)
            ELSE ReplayTurns(SubSeq(p, base + 1, Len(p)))[t]
      BY <2>2, ReplaySince
    <3> QED
      BY <1>4, <1>6, <2>1, <3>1
  <2> QED
    BY <1>1, <1>3, <2>2, <2>3
<1> QED
  BY <1>5, <1>6

\* Events of a lost turn are of no other.
LEMMA TableSkips ==
  ASSUME Typed, TableIsReplay, NEW e \in Events, NEW r \in Events, r.turn = e.turn,
         log' \in {log, Append(log, e), Append(log, r), Append(Append(log, e), r)},
         e.turn \in lost', lost \subseteq lost', \A t \in TurnIds \ lost' : turns'[t] = turns[t],
         UNCHANGED <<base, session>>, NoAbortWithClear' => NoAbortWithClear
  PROVE  TableIsReplay'
<1>1. SUFFICES ASSUME session.stored, NoAbortWithClear, NEW t \in TurnIds \ lost'
               PROVE  turns'[t] = ReplayTurns(SubSeq(log', base + 1, Len(log')))[t]
  BY DEF TableIsReplay
<1>2. log \in Transcripts /\ base \in 0..Len(log) /\ e.turn # t /\ r.turn # t
  BY SameTypes DEF Transcripts
<1>3. turns'[t] = ReplayTurns(SubSeq(log, base + 1, Len(log)))[t]
  BY <1>1 DEF TableIsReplay
<1>4. PICK p : p = Append(log, e)
  OBVIOUS
<1>5. /\ p \in Transcripts /\ base \in 0..Len(p)
      /\ ReplayTurns(SubSeq(p, base + 1, Len(p)))[t] = ReplayTurns(SubSeq(log, base + 1, Len(log)))[t]
  BY <1>2, <1>4, ReplaySince
<1>6. CASE log' = Append(log, r)
  BY <1>2, <1>3, <1>6, ReplaySince
<1>7. CASE log' = Append(p, r)
  <2>1. ReplayTurns(SubSeq(log', base + 1, Len(log')))[t] = ReplayTurns(SubSeq(p, base + 1, Len(p)))[t]
    BY <1>2, <1>5, <1>7, ReplaySince
  <2> QED
    BY <1>3, <1>5, <2>1
<1> QED
  BY <1>3, <1>4, <1>5, <1>6, <1>7

\* Table and transcript take one event together.
LEMMA TableOne ==
  ASSUME Typed, TableIsReplay, NEW e \in Events, log' = Append(log, e),
         turns' \in [TurnIds -> Statuses],
         \A t \in TurnIds \ lost' :
           turns'[t] = IF e.turn = t THEN ApplyTurnRuntimeEvent(turns[t], e.type) ELSE turns[t],
         lost \subseteq lost', UNCHANGED <<base, session>>, NoAbortWithClear' => NoAbortWithClear
  PROVE  TableIsReplay'
<1> DEFINE since == SubSeq(log, base + 1, Len(log))
<1>1. SUFFICES ASSUME session.stored, NoAbortWithClear, NEW t \in TurnIds \ lost'
               PROVE  turns'[t] = ReplayTurns(SubSeq(log', base + 1, Len(log')))[t]
  BY DEF TableIsReplay
<1>2. log \in Transcripts /\ base \in 0..Len(log)
  BY SameTypes DEF Transcripts
<1>3. SubSeq(log', base + 1, Len(log')) = Append(since, e)
  BY <1>2, SinceAppend
<1>4. turns[t] = ReplayTurns(since)[t]
  BY <1>1 DEF TableIsReplay
<1>5. since \in Transcripts
  BY <1>2 DEF Transcripts
<1> HIDE DEF since
<1>6. ReplayTurns(Append(since, e))[t] =
        IF e.turn = t THEN ApplyTurnRuntimeEvent(ReplayTurns(since)[t], e.type)
        ELSE ReplayTurns(since)[t]
  BY <1>5, ReplayAppend
<1> QED
  BY <1>1, <1>3, <1>4, <1>6

\* A change of the table that the transcript misses is a change of lost turns.
LEMMA TableLost ==
  ASSUME Typed, TableIsReplay, UNCHANGED <<log, base, session>>, lost \subseteq lost',
         \A t \in TurnIds \ lost' : turns'[t] = turns[t], NoAbortWithClear' => NoAbortWithClear
  PROVE  TableIsReplay'
BY DEF TableIsReplay

\* The event at the head of a channel is one that its worker was sent.
LEMMA HeadPushed ==
  ASSUME Typed, NEW w \in Workers, workers[w].chan # <<>>, NEW e, e = Head(workers[w].chan)
  PROVE  e \in Events /\ Pushed(workers[w], e)
<1>1. PICK chan \in Seq(Events) : chan = workers[w].chan
  BY SameTypes, WorkerIs
<1>2. e \in Events /\ e = chan[1] /\ 1 \in 1..Len(chan)
  BY <1>1, HeadIs
<1> QED
  BY <1>1, <1>2, SameTypes DEF WorkersFit, Fits

\* Workers with turns of their own have different ones, as long as nothing was cleared.
LEMMA OwnTurns ==
  ASSUME Typed, Ordered, used["clear"] = 0, NEW v \in Workers, NEW w \in Workers, v # w,
         workers[v].turn # NoTurn, workers[w].turn # NoTurn
  PROVE  workers[v].turn # workers[w].turn
<1>1. workers[v].task # "none" /\ workers[w].task # "none"
  BY SameTypes DEF WorkersFit, Fits
<1>2. workers[v].agent = workers[w].agent
  BY <1>1 DEF Ordered, OneAgent
<1> QED
  BY <1>2 DEF Ordered, Numbered

\* A worker hears of its turn, and the table with it.
LEMMA KnownMap ==
  ASSUME Typed, Ordered, Replayed, NEW w \in Workers, NEW k, Becomes(w, k),
         k.turn = workers[w].turn, k.phase = workers[w].phase,
         NEW e \in Events, Pushed(workers[w], e), k.known = e.turn,
         NEW s \in Statuses, turns' = [turns EXCEPT ![e.turn] = s],
         s \in {"Failed", ApplyTurnRuntimeEvent(turns[e.turn], e.type)},
         used'["clear"] = used["clear"]
  PROVE  KnownIsOpen' /\ turns'[0] \in {"Absent", "Queued", "Failed"}
<1>1. /\ workers'[w] = k
      /\ \A v \in Workers : v # w => workers'[v] = workers[v]
  BY SameTypes, BecomesView
<1>2. \A v \in Workers : workers[v].turn \in 1..MaxWorkers \/ workers[v].turn = NoTurn
  BY SameTypes, WorkerIs
<1>3. e.turn \in TurnIds /\ 0 \in TurnIds /\ 0 \notin 1..MaxWorkers /\ NoTurn \notin TurnIds /\ NoTurn # 0
  BY Constants DEF Events
<1>4. \A t \in TurnIds : turns'[t] = IF t = e.turn THEN s ELSE turns[t]
  BY SameTypes
<1>5. turns[0] \in {"Absent", "Queued", "Failed"}
  BY DEF Replayed, TurnZero
<1>6. e.turn = 0 => s \in {"Queued", "Failed"}
  <2>1. SUFFICES ASSUME e.turn = 0 PROVE s \in {"Queued", "Failed"}
    OBVIOUS
  <2>2. e.type = "context_compacted"
    BY <1>2, <1>3, <2>1 DEF Pushed
  <2> QED
    BY <1>5, <2>1, <2>2 DEF ApplyTurnRuntimeEvent, Queued
<1>7. e.turn = k.turn /\ k.phase = "open" => s \in {"Running", "Failed"}
  <2>1. SUFFICES ASSUME e.turn = k.turn, k.phase = "open" PROVE s \in {"Running", "Failed"}
    OBVIOUS
  <2>2. e.type \in {"turn_started", "response_error"}
    BY <1>2, <1>3, <2>1 DEF Pushed
  <2> QED
    BY <2>2 DEF ApplyTurnRuntimeEvent
<1>8. turns'[0] \in {"Absent", "Queued", "Failed"}
  BY <1>3, <1>4, <1>5, <1>6
<1>9. ASSUME used["clear"] = 0, NEW v \in Workers
      PROVE  /\ workers'[v].known = 0 => turns'[0] # "Absent"
             /\ /\ workers'[v].known = workers'[v].turn
                /\ workers'[v].turn # NoTurn
                /\ workers'[v].phase = "open"
                => turns'[workers'[v].turn] \in {"Running", "Failed"}
  <2>1. CASE v = w
    <3>1. workers'[v].known = 0 => turns'[0] # "Absent"
      BY <1>1, <1>3, <1>4, <1>6, <2>1
    <3>2. /\ workers'[v].known = workers'[v].turn
          /\ workers'[v].phase = "open"
          => turns'[workers'[v].turn] \in {"Running", "Failed"}
      BY <1>1, <1>3, <1>4, <1>7, <2>1
    <3> QED
      BY <3>1, <3>2
  <2>2. CASE v # w
    <3>1. workers'[v] = workers[v]
      BY <1>1, <2>2
    <3>2. /\ workers[v].known = 0 => turns[0] # "Absent"
          /\ /\ workers[v].known = workers[v].turn
             /\ workers[v].turn # NoTurn
             /\ workers[v].phase = "open"
             => turns[workers[v].turn] \in {"Running", "Failed"}
      BY <1>9 DEF Replayed, KnownIsOpen
    <3>3. workers[v].known = 0 => turns'[0] # "Absent"
      BY <1>3, <1>4, <1>6, <3>2
    <3>4. workers[v].turn # NoTurn => workers[v].turn # e.turn /\ workers[v].turn \in TurnIds
      <4>1. e.turn = 0 \/ (e.turn = workers[w].turn /\ workers[w].turn # NoTurn)
        BY <1>3 DEF Pushed
      <4> QED
        BY <1>2, <1>9, <2>2, <4>1, OwnTurns, Constants
    <3> QED
      BY <1>4, <3>1, <3>2, <3>3, <3>4
  <2> QED
    BY <2>1, <2>2
<1> QED
  BY <1>8, <1>9 DEF KnownIsOpen

LEMMA ReplayedMap ==
  ASSUME Typed, Ordered, Replayed, NEW w \in Workers, WorkerMap(w)
  PROVE  Replayed'
<1>1. PICK k, e : /\ e = Head(workers[w].chan)
                  /\ AppendThenPublish(e) \/ AppendFailureReported(e)
                       \/ AppendFailureSwallowed(e)
                  /\ Becomes(w, k)
                  /\ k.phase = workers[w].phase /\ k.turn = workers[w].turn
                  /\ k.known = e.turn
  BY SameTypes, MapView
<1>2. workers[w].chan # <<>> /\ UNCHANGED <<session, base>>
  BY SameTypes, MapView
<1>3. e \in Events /\ Pushed(workers[w], e) /\ e.turn \in TurnIds /\ e.type \in EventTypes
  BY <1>1, <1>2, HeadPushed DEF Events
<1>4. used'["abort"] = used["abort"] /\ used'["clear"] = used["clear"]
  <2>1. "append" \in Actions /\ "clear" \in Actions /\ "abort" \in Actions
    BY DEF Actions
  <2>2. used' = used \/ (May("append") /\ Spend("append"))
    BY <1>1 DEF AppendThenPublish, AppendFailureReported, AppendFailureSwallowed
  <2> QED
    BY <2>1, <2>2, SameTypes, SpendIs DEF Within
<1>5. NoAbortWithClear' => NoAbortWithClear
  BY <1>4 DEF NoAbortWithClear
<1>6. TurnZero /\ TableIsReplay
  BY DEF Replayed
<1>7. e.turn = 0 => e.type = "context_compacted"
  <2>1. workers[w].turn # 0
    BY SameTypes, WorkerIs, Constants
  <2> QED
    BY <1>3, <2>1 DEF Pushed
<1> DEFINE s == ApplyTurnRuntimeEvent(turns[e.turn], e.type)
<1>8. s \in Statuses /\ "Failed" \in Statuses
  BY <1>3, SameTypes, ApplyType DEF Statuses
<1>9. CASE AppendThenPublish(e)
  <2>1. turns' = [turns EXCEPT ![e.turn] = s] /\ log' = Append(log, e) /\ lost' = lost
    BY <1>9 DEF AppendThenPublish
  <2>2. KnownIsOpen' /\ turns'[0] \in {"Absent", "Queued", "Failed"}
    BY <1>1, <1>3, <1>4, <1>8, <2>1, KnownMap
  <2>3. TurnZero'
    BY <1>3, <1>6, <1>7, <2>1, <2>2, SameTypes, AppendIs DEF TurnZero
  <2>4. TableIsReplay'
    BY <1>2, <1>3, <1>5, <1>6, <1>8, <2>1, SameTypes, TableOne
  <2> QED
    BY <2>2, <2>3, <2>4 DEF Replayed
<1>10. CASE AppendFailureReported(e)
  <2>1. PICK f \in Events : /\ f.type = "response_error" /\ f.turn = e.turn
                            /\ log' \in {Append(log, f), Append(Append(log, e), f)}
    BY <1>3, <1>10, SameTypes, FailureLog
  <2>2. turns' = [turns EXCEPT ![e.turn] = "Failed"] /\ lost' = lost
    BY <1>10 DEF AppendFailureReported
  <2>3. KnownIsOpen' /\ turns'[0] \in {"Absent", "Queued", "Failed"}
    BY <1>1, <1>3, <1>4, <1>8, <2>2, KnownMap
  <2>4. TurnZero'
    <3>1. \A i \in 1..Len(log') : (i \in 1..Len(log) /\ log'[i] = log[i]) \/ log'[i] \in {e, f}
      BY <1>3, <2>1, SameTypes, LongerLog
    <3> QED
      BY <1>6, <1>7, <2>1, <2>3, <3>1 DEF TurnZero
  <2>5. \A t \in TurnIds \ lost' : turns'[t] = IF e.turn = t THEN "Failed" ELSE turns[t]
    BY <1>3, <2>2, SameTypes
  <2>6. TableIsReplay'
    BY <1>2, <1>3, <1>5, <1>6, <2>1, <2>2, <2>5, TableTwo
  <2> QED
    BY <2>3, <2>4, <2>6 DEF Replayed
<1>11. CASE AppendFailureSwallowed(e)
  <2>1. turns' = [turns EXCEPT ![e.turn] = "Failed"] /\ lost' = lost \cup {e.turn}
    BY <1>11 DEF AppendFailureSwallowed
  <2>2. KnownIsOpen' /\ turns'[0] \in {"Absent", "Queued", "Failed"}
    BY <1>1, <1>3, <1>4, <1>8, <2>1, KnownMap
  <2>5. PICK f \in Events :
          /\ f.type = "response_error" /\ f.turn = e.turn
          /\ log' \in {log, Append(log, e), Append(log, f), Append(Append(log, e), f)}
    BY <1>3, <1>11, SameTypes, FailureLog
  <2>3. TurnZero'
    <3>1. \A i \in 1..Len(log') : (i \in 1..Len(log) /\ log'[i] = log[i]) \/ log'[i] \in {e, f}
      BY <1>3, <2>5, SameTypes, LongerLog
    <3> QED
      BY <1>6, <1>7, <2>2, <2>5, <3>1 DEF TurnZero
  <2>4. TableIsReplay'
    <3>1. \A t \in TurnIds \ lost' : turns'[t] = turns[t]
      BY <2>1, SameTypes
    <3> QED
      BY <1>2, <1>3, <1>5, <1>6, <2>1, <2>5, <3>1, TableSkips
  <2> QED
    BY <2>2, <2>3, <2>4 DEF Replayed
<1> QED
  BY <1>1, <1>9, <1>10, <1>11

\* The turn that a worker interrupts is open in the table, or over there for a failure.
LEMMA InterruptedOpen ==
  ASSUME Typed, Replayed, used["clear"] = 0, NEW w \in Workers, workers[w].pc = "interrupting",
         NEW t \in InterruptedTurns(w), t # NoTurn
  PROVE  turns[t] \in {"Queued", "Running", "Failed"}
<1>1. workers[w].task = "cancelled" /\ workers[w].known \in {0, NoTurn, workers[w].turn}
      /\ (workers[w].turn # NoTurn => workers[w].phase = "open")
  BY SameTypes DEF WorkersFit, Fits
<1>2. CASE workers[w].known # NoTurn
  <2>1. t = workers[w].known
    BY <1>2 DEF InterruptedTurns
  <2>2. CASE t = 0
    BY <2>1, <2>2 DEF Replayed, KnownIsOpen, TurnZero
  <2>3. CASE t # 0
    <3>1. t = workers[w].turn /\ workers[w].phase = "open"
      BY <1>1, <1>2, <2>1, <2>3
    <3> QED
      BY <1>2, <2>1, <3>1 DEF Replayed, KnownIsOpen
  <2> QED
    BY <2>2, <2>3
<1>3. CASE workers[w].known = NoTurn
  BY <1>3 DEF InterruptedTurns, RunningTurns
<1> QED
  BY <1>2, <1>3

LEMMA ReplayedInterrupt ==
  ASSUME Typed, Ordered, Replayed, NEW w \in Workers, WorkerInterrupt(w)
  PROVE  Replayed'
<1>1. PICK t \in InterruptedTurns(w) :
        /\ turns' = Interrupted(t)
        /\ \/ log' = log \o InterruptEvents(t) /\ UNCHANGED <<lost, used>>
           \/ /\ May("append") /\ Spend("append")
              /\ lost' = lost \cup ({t} \cap TurnIds)
              /\ log' \in {log, log \o InterruptEvents(t)}
  BY SameTypes, InterruptView
<1>2. PICK k : /\ Becomes(w, k)
               /\ k.phase = workers[w].phase /\ k.turn = workers[w].turn
               /\ k.known = workers[w].known
  BY SameTypes, InterruptView
<1>3. workers[w].pc = "interrupting" /\ UNCHANGED <<session, base>>
  BY SameTypes, InterruptView
<1>4. TurnZero /\ KnownIsOpen /\ TableIsReplay
  BY DEF Replayed
<1>5. used'["abort"] = used["abort"] /\ used'["clear"] = used["clear"]
  <2>1. "append" \in Actions /\ "clear" \in Actions /\ "abort" \in Actions
    BY DEF Actions
  <2> QED
    BY <1>1, <2>1, SameTypes, SpendIs DEF Within
<1>6. NoAbortWithClear' => NoAbortWithClear
  BY <1>5 DEF NoAbortWithClear
<1>7. /\ turns' \in [TurnIds -> Statuses]
      /\ \A u \in TurnIds : turns'[u] =
              IF u = t /\ turns[u] \in {"Queued", "Running"} THEN "Failed" ELSE turns[u]
      /\ t \in TurnIds \/ t = NoTurn
  BY <1>1, InterruptedIs
<1>8. \A v \in Workers : /\ workers'[v].phase = workers[v].phase
                         /\ workers'[v].turn = workers[v].turn
                         /\ workers'[v].known = workers[v].known
  BY <1>2, SameTypes, BecomesView
<1>9. 0 \in TurnIds /\ \A v \in Workers : workers[v].turn # NoTurn => workers[v].turn \in TurnIds
  BY SameTypes, WorkerIs, Constants
<1>10. KnownIsOpen'
  BY <1>4, <1>5, <1>7, <1>8, <1>9 DEF KnownIsOpen
<1>11. turns'[0] \in {"Absent", "Queued", "Failed"}
  BY <1>4, <1>7, <1>9 DEF TurnZero
<1>12. NoAbortWithClear => used["clear"] = 0
  <2>1. workers[w].aborting
    BY <1>3, SameTypes DEF WorkersFit, Fits
  <2> QED
    BY <2>1 DEF NoAbortWithClear, Ordered, NoAborts
<1>13. NoTurn \notin TurnIds
  BY Constants
<1>14. CASE log' = log
  <2>1. TurnZero'
    BY <1>4, <1>11, <1>14 DEF TurnZero
  <2>2. lost \subseteq lost' /\ (t = NoTurn \/ t \in lost' \/ log' = log \o InterruptEvents(t))
    BY <1>1, <1>7
  <2>3. CASE t = NoTurn \/ t \in lost'
    <3>1. \A u \in TurnIds \ lost' : turns'[u] = turns[u]
      BY <1>7, <1>13, <2>3
    <3>2. TableIsReplay'
      BY <1>3, <1>4, <1>6, <1>14, <2>2, <3>1, TableLost
    <3> QED
      BY <1>10, <2>1, <3>2 DEF Replayed
  <2>4. CASE t # NoTurn /\ t \notin lost'
    <3>1. PICK e \in Events : log' = Append(log, e)
      BY <2>2, <2>4, InterruptedIs
    <3>2. Len(log') = Len(log) + 1 /\ Len(log) \in Nat
      BY <3>1, SameTypes, AppendIs
    <3> QED
      BY <1>14, <3>2
  <2> QED
    BY <2>3, <2>4
<1>15. CASE log' # log
  <2>1. log' = log \o InterruptEvents(t) /\ lost \subseteq lost' /\ t # NoTurn /\ t \in TurnIds
    BY <1>1, <1>7, <1>15, InterruptedIs
  <2>2. PICK e \in Events : e.type = "turn_interrupted" /\ e.turn = t /\ log' = Append(log, e)
    BY <2>1, InterruptedIs
  <2>3. TurnZero'
    BY <1>4, <1>11, <2>2, SameTypes, AppendIs DEF TurnZero
  <2>4. ApplyTurnRuntimeEvent(turns[t], "turn_interrupted") = "Failed"
    BY DEF ApplyTurnRuntimeEvent
  <2>5. CASE used["clear"] = 0
    <3>1. turns[t] \in {"Queued", "Running", "Failed"}
      BY <1>3, <2>1, <2>5, InterruptedOpen
    <3>2. \A u \in TurnIds : turns'[u] =
            IF e.turn = u THEN ApplyTurnRuntimeEvent(turns[u], e.type) ELSE turns[u]
      BY <1>7, <2>2, <2>4, <3>1
    <3>3. TableIsReplay'
      BY <1>3, <1>4, <1>6, <1>7, <2>1, <2>2, <3>2, TableOne
    <3> QED
      BY <1>10, <2>3, <3>3 DEF Replayed
  <2>6. CASE used["clear"] # 0
    <3>1. TableIsReplay'
      BY <1>6, <1>12, <2>6 DEF TableIsReplay
    <3> QED
      BY <1>10, <2>3, <3>1 DEF Replayed
  <2> QED
    BY <2>5, <2>6
<1> QED
  BY <1>14, <1>15

LEMMA ReplayedBegin ==
  ASSUME Typed, Replayed, NEW w \in Workers, TaskBegin(w)
  PROVE  Replayed'
<1>1. PICK n, g, k, e, c :
           /\ n \in 1..MaxWorkers /\ g \in Generations
           /\ workers[w].task = "waiting" /\ g = workers[w].agent /\ n = agents[g].next
           /\ c \in Agent /\ agents' = [agents EXCEPT ![g] = c]
           /\ c.lock = "task" /\ c.sink = w /\ c.next = n + 1
           /\ e \in Events /\ e.type = "turn_started" /\ e.turn = n
           /\ Becomes(w, k)
           /\ k.pc = workers[w].pc /\ k.agent = g
           /\ k.task = "running" /\ k.aborting = workers[w].aborting
           /\ k.phase = "open" /\ k.turn = n
           /\ k.chan = Append(workers[w].chan, e) /\ k.known = workers[w].known
           /\ UNCHANGED <<session, turns, compactor, closer, log, base, lost, used>>
  BY BeginView
<1>2. /\ workers'[w] = k
      /\ \A v \in Workers : v # w => workers'[v] = workers[v]
  BY <1>1, SameTypes, BecomesView
<1>3. workers[w].known \in {0, NoTurn}
  BY <1>1, SameTypes DEF WorkersFit, Fits
<1>4. workers[w].known # n
  BY <1>1, <1>3, Constants
<1>5. ASSUME NEW v \in Workers PROVE KeptKnown(v)
  BY <1>1, <1>2, <1>4 DEF KeptKnown
<1>6. NoAbortWithClear' => NoAbortWithClear
  BY <1>1 DEF NoAbortWithClear
<1> QED
  BY <1>1, <1>5, <1>6, ReplayedSame

\* A worker that goes on with the turn it has.
LEMMA ReplayedStay ==
  ASSUME Typed, Replayed, NEW w \in Workers, NEW k, Becomes(w, k),
         k.known = workers[w].known, k.turn = workers[w].turn,
         k.phase = "open" => workers[w].phase = "open",
         UNCHANGED <<turns, log, base, lost>>, session'.stored = session.stored,
         used'["clear"] = used["clear"], used'["abort"] >= used["abort"], Within(used')
  PROVE  Replayed'
<1>1. /\ workers'[w] = k
      /\ \A v \in Workers : v # w => workers'[v] = workers[v]
  BY SameTypes, BecomesView
<1>2. ASSUME NEW v \in Workers PROVE KeptKnown(v)
  BY <1>1 DEF KeptKnown
<1>3. used["abort"] \in Nat /\ used'["abort"] \in Nat
  BY SameTypes DEF Within, Actions
<1>4. NoAbortWithClear' => NoAbortWithClear
  BY <1>3 DEF NoAbortWithClear
<1> QED
  BY <1>2, <1>4, ReplayedSame

\* A step of the rest that leaves table and transcript alone.
LEMMA ReplayedAlone ==
  ASSUME Typed, Replayed, UNCHANGED <<workers, turns, log, base, lost>>,
         session'.stored = session.stored,
         used'["clear"] = used["clear"], used'["abort"] = used["abort"]
  PROVE  Replayed'
<1>1. \A v \in Workers : KeptKnown(v)
  BY DEF KeptKnown
<1>2. NoAbortWithClear' => NoAbortWithClear
  BY DEF NoAbortWithClear
<1> QED
  BY <1>1, <1>2, ReplayedSame

LEMMA ReplayedWorker ==
  ASSUME Typed, Replayed, NEW w \in Workers,
         SubmitTurn(w) \/ WorkerStart(w) \/ WorkerAttach(w) \/ WorkerJoin(w)
  PROVE  Replayed'
<1>1. PICK k : /\ Becomes(w, k) /\ k.known = workers[w].known /\ k.turn = workers[w].turn
               /\ k.phase = workers[w].phase
  <2>1. CASE SubmitTurn(w)
    BY <2>1, SameTypes, SubmitView
  <2>2. CASE WorkerStart(w)
    BY <2>2, SameTypes, StartView
  <2>3. CASE WorkerAttach(w)
    BY ZenonT(20), <2>3, SameTypes, AttachView
  <2>4. CASE WorkerJoin(w)
    BY <2>4, SameTypes, JoinView
  <2> QED
    BY <2>1, <2>2, <2>3, <2>4
<1>2. UNCHANGED <<turns, log, base, lost, used>>
  BY DEF SubmitTurn, WorkerStart, WorkerAttach, WorkerJoin
<1>3. session'.stored = session.stored
  BY SameTypes, AcceptedIs
     DEF SubmitTurn, WorkerStart, WorkerAttach, WorkerJoin, Forgotten, Session
<1>4. used'["abort"] >= used["abort"] /\ Within(used')
  BY <1>2, SameTypes DEF Within, Actions
<1> QED
  BY <1>1, <1>2, <1>3, <1>4, ReplayedStay

LEMMA ReplayedTask ==
  ASSUME Typed, Replayed, NEW w \in Workers,
         \/ TaskError(w) \/ TaskRespond(w) \/ TaskComplete(w) \/ TaskReturn(w) \/ TaskCancel(w)
         \/ TaskPanic(w)
  PROVE  Replayed'
<1>1. PICK k : /\ Becomes(w, k) /\ k.known = workers[w].known /\ k.turn = workers[w].turn
               /\ k.phase = "open" => workers[w].phase = "open"
  <2>1. CASE TaskError(w)
    BY <2>1, SameTypes, ErrorView DEF WorkersFit
  <2>2. CASE TaskRespond(w)
    BY <2>2, SameTypes, RespondView DEF WorkersFit
  <2>3. CASE TaskComplete(w)
    BY <2>3, SameTypes, CompleteView DEF WorkersFit
  <2>4. CASE TaskReturn(w)
    <3>1. \E k : /\ Becomes(w, k) /\ k.known = workers[w].known /\ k.turn = workers[w].turn
                 /\ k.phase = workers[w].phase
      BY ZenonT(20), <2>4, SameTypes, ReturnView
    <3> QED
      BY <3>1
  <2>5. CASE TaskCancel(w)
    BY <2>5, SameTypes, CancelView
  <2>6. CASE TaskPanic(w)
    BY <2>6, SameTypes, PanicView
  <2> QED
    BY <2>1, <2>2, <2>3, <2>4, <2>5, <2>6
<1>2. UNCHANGED <<session, turns, log, base, lost>>
  BY DEF TaskError, TaskRespond, TaskComplete, TaskReturn, TaskCancel, TaskPanic
<1>3. /\ Within(used') /\ used["abort"] \in Nat
      /\ used'["abort"] = used["abort"] /\ used'["clear"] = used["clear"]
  <2>1. "error" \in Actions /\ "clear" \in Actions /\ "abort" \in Actions
    BY DEF Actions
  <2>2. used' = used \/ (May("error") /\ Spend("error")) \/ (May("panic") /\ Spend("panic"))
    BY DEF TaskError, TaskRespond, TaskComplete, TaskReturn, TaskCancel, TaskPanic
  <2>3. used["abort"] \in Nat
    BY <2>1, SameTypes DEF Within
  <2>4. CASE used' = used
    BY <2>3, <2>4, SameTypes
  <2>5. CASE May("error") /\ Spend("error")
    BY <2>1, <2>3, <2>5, SameTypes, SpendIs DEF Within
  <2>6. CASE May("panic") /\ Spend("panic")
    BY <2>3, <2>6, SameTypes, PanicSpends
  <2> QED
    BY <2>2, <2>4, <2>5, <2>6
<1> QED
  BY <1>1, <1>2, <1>3, ReplayedStay

LEMMA ReplayedAbort ==
  ASSUME Typed, Replayed, AbortTurn
  PROVE  Replayed'
<1>1. PICK w \in Workers : w = session.handle
  BY SameTypes, AbortView
<1>2. PICK k : /\ Becomes(w, k)
               /\ k.pc = workers[w].pc /\ k.agent = workers[w].agent
               /\ k.task = workers[w].task /\ k.aborting = TRUE
               /\ k.phase = workers[w].phase /\ k.turn = workers[w].turn
               /\ k.chan = workers[w].chan /\ k.known = workers[w].known
  BY <1>1, SameTypes, AbortView
<1>3. session'.stored = session.stored /\ UNCHANGED <<turns, log, base, lost>>
  BY SameTypes DEF AbortTurn, Session
<1>4. /\ Within(used') /\ used["abort"] \in Nat
      /\ used'["abort"] = used["abort"] + 1 /\ used'["clear"] = used["clear"]
  <2>1. "clear" \in Actions /\ "abort" \in Actions
    BY DEF Actions
  <2> QED
    BY <2>1, SameTypes, SpendIs DEF Within, AbortTurn
<1>5. used'["abort"] >= used["abort"]
  BY <1>4
<1> QED
  BY <1>2, <1>3, <1>4, <1>5, ReplayedStay

\* A manual compaction records a turn of its own that no worker has.
LEMMA ReplayedPublish ==
  ASSUME Typed, Replayed, CompactPublish
  PROVE  Replayed'
<1> DEFINE since == SubSeq(log, base + 1, Len(log))
<1>1. PICK a, b : /\ CompactEvent(a) /\ CompactEvent(b)
                  /\ \/ /\ \E c : /\ CompactEvent(c)
                                  /\ c.type = "turn_completed" /\ b.type = "response_completed"
                                  /\ log' = Append(Append(Append(log, a), b), c)
                        /\ \/ UNCHANGED <<lost, used>>
                           \/ /\ lost' = lost \cup {CompactTurn}
                              /\ May("append") /\ Spend("append")
                     \/ /\ log' = Append(Append(log, a), b)
                        /\ lost' = lost \cup {CompactTurn}
                        /\ May("append") /\ Spend("append")
  BY SameTypes, CompactLog
<1>2. /\ turns' = [turns EXCEPT ![CompactTurn] = "Completed"]
      /\ UNCHANGED <<session, agents, workers, closer, base>>
  BY DEF CompactPublish
<1>3. used'["abort"] = used["abort"] /\ used'["clear"] = used["clear"]
  <2>1. "append" \in Actions /\ "clear" \in Actions /\ "abort" \in Actions
    BY DEF Actions
  <2> QED
    BY <1>1, <2>1, SameTypes, SpendIs DEF Within
<1>4. TurnZero /\ KnownIsOpen /\ TableIsReplay
  BY DEF Replayed
<1>5. /\ CompactTurn \in TurnIds /\ CompactTurn # 0 /\ 0 \in TurnIds
      /\ \A w \in Workers : workers[w].turn # NoTurn =>
            workers[w].turn \in TurnIds /\ workers[w].turn # CompactTurn
  BY SameTypes, WorkerIs, Constants
<1>6. \A t \in TurnIds : turns'[t] = IF t = CompactTurn THEN "Completed" ELSE turns[t]
  BY <1>2, SameTypes
<1>7. KnownIsOpen'
  BY <1>2, <1>3, <1>4, <1>5, <1>6 DEF KnownIsOpen
<1>8. turns'[0] \in {"Absent", "Queued", "Failed"}
  BY <1>4, <1>5, <1>6 DEF TurnZero
<1>9. \A c : CompactEvent(c) => c \in Events /\ c.turn = CompactTurn /\ c.turn # 0
  BY <1>5 DEF CompactEvent
<1>10. log \in Transcripts /\ base \in 0..Len(log) /\ since \in Transcripts
  BY SameTypes DEF Transcripts
<1> DEFINE p == Append(log, a)  q == Append(p, b)
<1>11. /\ p \in Transcripts /\ Len(p) = Len(log) + 1 /\ p[Len(p)].turn = CompactTurn
       /\ \A i \in 1..Len(log) : p[i] = log[i]
  BY <1>1, <1>9, <1>10, AppendIs DEF Transcripts
<1>12. /\ q \in Transcripts /\ Len(q) = Len(log) + 2 /\ q[Len(q)].turn = CompactTurn
       /\ \A i \in 1..Len(p) : q[i] = p[i]
  <2> HIDE DEF p
  <2>1. Len(log) \in Nat
    BY <1>10 DEF Transcripts
  <2> QED
    BY <1>1, <1>9, <1>11, <2>1, AppendIs DEF Transcripts
<1>13. base \in 0..Len(p) /\ base \in 0..Len(q) /\ Len(log) \in Nat
  BY <1>10, <1>11, <1>12 DEF Transcripts
<1>14. SubSeq(q, base + 1, Len(q)) = Append(Append(since, a), b)
  <2>1. SubSeq(p, base + 1, Len(p)) = Append(since, a)
    BY <1>1, <1>9, <1>10, SinceAppend
  <2> HIDE DEF p, since
  <2>2. SubSeq(q, base + 1, Len(q)) = Append(SubSeq(p, base + 1, Len(p)), b)
    BY <1>1, <1>9, <1>11, <1>13, SinceAppend
  <2> QED
    BY <2>1, <2>2
<1>15. \A i \in 1..Len(q) : q[i].turn = 0 => i \in 1..Len(log) /\ q[i] = log[i]
  <2> HIDE DEF p, q
  <2>1. SUFFICES ASSUME NEW i \in 1..Len(q), q[i].turn = 0 PROVE i \in 1..Len(log) /\ q[i] = log[i]
    OBVIOUS
  <2>2. i # Len(q) /\ i \in 1..Len(p) /\ q[i] = p[i]
    BY <1>5, <1>11, <1>12, <1>13, <2>1
  <2>3. i # Len(p)
    BY <1>5, <1>11, <2>1, <2>2
  <2> QED
    BY <1>11, <1>13, <2>2, <2>3
\* The replay of what is there now.
<1>16. /\ Append(Append(since, a), b) \in Transcripts
       /\ \A t \in TurnIds \ {CompactTurn} :
            ReplayTurns(Append(Append(since, a), b))[t] = ReplayTurns(since)[t]
  <2> HIDE DEF since
  <2>1. /\ Append(since, a) \in Transcripts
        /\ \A t \in TurnIds \ {CompactTurn} :
             ReplayTurns(Append(since, a))[t] = ReplayTurns(since)[t]
    BY <1>1, <1>5, <1>9, <1>10, ReplayAppend
  <2> DEFINE r == Append(since, a)
  <2> HIDE DEF r
  <2>2. /\ Append(r, b) \in Transcripts
        /\ \A t \in TurnIds \ {CompactTurn} : ReplayTurns(Append(r, b))[t] = ReplayTurns(r)[t]
    BY <1>1, <1>5, <1>9, <2>1, ReplayAppend DEF r
  <2> QED
    BY <2>1, <2>2 DEF r
<1>17. NoAbortWithClear' => NoAbortWithClear
  BY <1>3 DEF NoAbortWithClear
<1>18. CASE log' = Append(Append(log, a), b) /\ lost' = lost \cup {CompactTurn}
  <2> HIDE DEF p, q, since
  <2>1. log' = q
    BY <1>18 DEF p, q
  <2>2. TurnZero'
    BY <1>4, <1>8, <1>15, <2>1 DEF TurnZero
  <2>3. TableIsReplay'
    <3>1. SUFFICES ASSUME session.stored, NoAbortWithClear, NEW t \in TurnIds \ lost'
                   PROVE  turns'[t] = ReplayTurns(SubSeq(log', base + 1, Len(log')))[t]
      BY <1>2, <1>17 DEF TableIsReplay
    <3>2. t \in TurnIds \ {CompactTurn} /\ t \in TurnIds \ lost
      BY <1>18, <3>1
    <3>3. turns[t] = ReplayTurns(since)[t]
      BY <1>4, <3>1, <3>2 DEF TableIsReplay, since
    <3> QED
      BY <1>6, <1>14, <1>16, <2>1, <3>2, <3>3
  <2> QED
    BY <1>7, <2>2, <2>3 DEF Replayed
<1>19. CASE /\ \E c : /\ CompactEvent(c)
                      /\ c.type = "turn_completed" /\ b.type = "response_completed"
                      /\ log' = Append(Append(Append(log, a), b), c)
            /\ lost \subseteq lost'
  <2>1. PICK c : /\ CompactEvent(c) /\ c.type = "turn_completed" /\ b.type = "response_completed"
                 /\ log' = Append(q, c)
    BY <1>19
  <2> DEFINE r == Append(Append(since, a), b)
  <2> HIDE DEF p, q, since
  <2>2. /\ log' \in Seq(Events) /\ Len(log') = Len(q) + 1 /\ Len(q) \in Nat
        /\ log'[Len(q) + 1].turn = CompactTurn /\ \A i \in 1..Len(q) : log'[i] = q[i]
    BY <1>9, <1>12, <2>1, AppendIs DEF Transcripts
  <2>3. TurnZero'
    <3>1. ASSUME NEW i \in 1..Len(log'), log'[i].turn = 0
          PROVE  log'[i].type \in {"context_compacted", "response_error", "turn_interrupted"}
      <4>1. i \in 1..Len(q) /\ log'[i] = q[i]
        BY <1>5, <2>2, <3>1
      <4> QED
        BY <1>4, <1>15, <3>1, <4>1 DEF TurnZero
    <3> QED
      BY <1>8, <3>1 DEF TurnZero
  <2>4. SubSeq(log', base + 1, Len(log')) = Append(r, c)
    <3>1. SubSeq(log', base + 1, Len(log')) = Append(SubSeq(q, base + 1, Len(q)), c)
      BY <1>9, <1>12, <1>13, <2>1, SinceAppend
    <3> QED
      BY <1>14, <3>1
  <2>5. \A t \in TurnIds : ReplayTurns(Append(r, c))[t] =
          IF t = CompactTurn THEN ApplyTurnRuntimeEvent(ReplayTurns(r)[t], "turn_completed")
          ELSE ReplayTurns(r)[t]
    <3>1. r \in Transcripts /\ c \in Events /\ c.turn = CompactTurn
      BY <1>9, <1>16, <2>1
    <3> HIDE DEF r
    <3> QED
      BY <2>1, <3>1, ReplayAppend
  <2>6. ReplayTurns(r)[CompactTurn] = "Completed"
    <3> DEFINE m == Append(since, a)
    <3>1. m \in Transcripts
      BY <1>1, <1>5, <1>9, <1>10, ReplayAppend
    <3> HIDE DEF m
    <3>2. ReplayTurns(Append(m, b))[CompactTurn] =
            ApplyTurnRuntimeEvent(ReplayTurns(m)[CompactTurn], "response_completed")
      BY <1>1, <1>5, <1>9, <2>1, <3>1, ReplayAppend
    <3> QED
      BY <3>2 DEF m, ApplyTurnRuntimeEvent
  <2>7. TableIsReplay'
    <3>1. SUFFICES ASSUME session.stored, NoAbortWithClear, NEW t \in TurnIds \ lost'
                   PROVE  turns'[t] = ReplayTurns(SubSeq(log', base + 1, Len(log')))[t]
      BY <1>2, <1>17, <1>19 DEF TableIsReplay
    <3> HIDE DEF r
    <3>2. CASE t = CompactTurn
      BY <1>6, <2>4, <2>5, <2>6, <3>2 DEF ApplyTurnRuntimeEvent
    <3>3. CASE t # CompactTurn
      <4>1. turns[t] = ReplayTurns(since)[t]
        BY <1>4, <1>19, <3>1 DEF TableIsReplay, since
      <4>2. ReplayTurns(r)[t] = ReplayTurns(since)[t]
        BY <1>16, <3>3 DEF r
      <4> QED
        BY <1>6, <2>4, <2>5, <3>3, <4>1, <4>2
    <3> QED
      BY <3>2, <3>3
  <2> QED
    BY <1>7, <2>3, <2>7 DEF Replayed
<1> QED
  BY <1>1, <1>18, <1>19

LEMMA ReplayedCompact ==
  ASSUME Typed, Replayed, CompactRead \/ CompactLock \/ CompactRun
  PROVE  Replayed'
<1>1. /\ used'["abort"] = used["abort"] /\ used'["clear"] = used["clear"]
      /\ used'["abort"] >= used["abort"] /\ Within(used')
  <2>1. {"compact", "clear", "abort"} \subseteq Actions
    BY DEF Actions
  <2>2. used' = used \/ (May("compact") /\ Spend("compact"))
    BY DEF CompactRead, CompactLock, CompactRun
  <2>3. used["abort"] \in Nat
    BY <2>1, SameTypes DEF Within
  <2> QED
    BY <2>1, <2>2, <2>3, SameTypes, SpendIs DEF Within
<1>2. UNCHANGED <<session, turns, log, base, lost>>
  BY DEF CompactRead, CompactLock, CompactRun
<1>3. CASE workers' = workers
  BY <1>1, <1>2, <1>3, ReplayedAlone
<1>4. CASE workers' # workers
  <2>1. CompactRun
    BY <1>4 DEF CompactRead, CompactLock
  <2>2. PICK w, k : /\ w \in Workers /\ Becomes(w, k)
                    /\ k.phase = workers[w].phase /\ k.turn = workers[w].turn
                    /\ k.known = workers[w].known
    BY <1>4, <2>1, SameTypes, CompactRunView
  <2> QED
    BY <1>1, <1>2, <2>2, ReplayedStay
<1> QED
  BY <1>3, <1>4

LEMMA ReplayedShutdown ==
  ASSUME Typed, Replayed, ShutdownBegin \/ ShutdownStep
  PROVE  Replayed'
<1>1. used'["abort"] = used["abort"] /\ used'["clear"] = used["clear"]
  <2>1. {"shutdown", "clear", "abort"} \subseteq Actions
    BY DEF Actions
  <2>2. used' = used \/ (May("shutdown") /\ Spend("shutdown"))
    BY DEF ShutdownBegin, ShutdownStep, ShutdownClose, ShutdownDelete
  <2> QED
    BY <2>1, <2>2, SameTypes, SpendIs DEF Within
<1>2. CASE ShutdownBegin \/ ShutdownClose
  <2>1. session'.stored = session.stored
    BY <1>2, SameTypes DEF ShutdownBegin, ShutdownClose, Session
  <2>2. UNCHANGED <<workers, turns, log, base, lost>>
    BY <1>2 DEF ShutdownBegin, ShutdownClose
  <2> QED
    BY <1>1, <2>1, <2>2, ReplayedAlone
<1>3. CASE ShutdownDelete
  <2>1. session'.stored = FALSE
    BY <1>3, SameTypes DEF ShutdownDelete, Session
  <2>2. log' = <<>> /\ turns' = turns /\ workers' = workers
    BY <1>3 DEF ShutdownDelete
  <2>3. TurnZero'
    BY <2>2 DEF Replayed, TurnZero
  <2>4. KnownIsOpen'
    BY <1>1, <2>2 DEF Replayed, KnownIsOpen
  <2> QED
    BY <2>1, <2>3, <2>4 DEF Replayed, TableIsReplay
<1> QED
  BY <1>2, <1>3 DEF ShutdownStep

LEMMA ReplayedClear ==
  ASSUME Typed, Replayed, ClearRuntime
  PROVE  Replayed'
<1>1. turns' = EmptyTurns /\ base' = Len(log) /\ log' = log /\ 0 \in TurnIds
  BY Constants DEF ClearRuntime
<1>2. TurnZero'
  BY <1>1, EmptyIs DEF Replayed, TurnZero
<1>3. KnownIsOpen'
  <2>1. "clear" \in Actions
    BY DEF Actions
  <2>2. used'["clear"] = used["clear"] + 1 /\ used["clear"] \in Nat
    BY <2>1, SameTypes, SpendIs DEF Within, ClearRuntime
  <2> QED
    BY <2>2 DEF KnownIsOpen
<1>4. TableIsReplay'
  <2>1. SubSeq(log, Len(log) + 1, Len(log)) = <<>>
    <3>1. log \in Seq(Events) /\ Len(log) \in Nat
      BY SameTypes
    <3> QED
      BY <3>1
  <2> QED
    BY <1>1, <2>1, EmptyIs, ReplayEmpty DEF TableIsReplay
<1> QED
  BY <1>2, <1>3, <1>4 DEF Replayed

\* The events of a transcript since its beginning are the transcript.
LEMMA SinceStart ==
  ASSUME NEW events \in Transcripts
  PROVE  SubSeq(events, 1, Len(events)) = events
BY DEF Transcripts

LEMMA ReplayedRestart ==
  ASSUME Typed, Replayed, Restart
  PROVE  Replayed'
<1>1. PICK d \in Worker :
           /\ d.pc = "dead" /\ d.task = "none" /\ d.aborting = FALSE /\ d.phase = "closed"
           /\ d.turn = NoTurn /\ d.chan = <<>> /\ d.known = NoTurn /\ d.agent = 1
           /\ workers' \in [Workers -> Worker]
           /\ \A w \in Workers : workers'[w] = IF workers[w].pc = "unused" THEN workers[w] ELSE d
           /\ session.stored /\ May("restart") /\ Spend("restart")
           /\ session' = FreshSession(session.agent + 1) /\ session.agent + 1 \in Generations
           /\ turns' = ReplayTurns(log) /\ base' = 0 /\ lost' = {} /\ UNCHANGED <<agents, log>>
  BY RestartView
<1>2. log \in Transcripts /\ 0 \in TurnIds
  BY SameTypes, Constants DEF Transcripts
<1>3. TurnZero'
  <2> DEFINE Good == {"Absent", "Queued", "Failed"}
  <2>1. ASSUME NEW i \in 1..Len(log), NEW s \in Good, log[i].turn = 0
        PROVE  ApplyTurnRuntimeEvent(s, log[i].type) \in Good
    <3>1. log[i].type \in {"context_compacted", "response_error", "turn_interrupted"}
      BY <2>1 DEF Replayed, TurnZero
    <3> QED
      BY <3>1 DEF ApplyTurnRuntimeEvent, Queued
  <2>2. "Absent" \in Good
    OBVIOUS
  <2> HIDE DEF Good
  <2>3. ReplayTurns(log)[0] \in Good
    BY <1>2, <2>1, <2>2, ReplayStays
  <2> QED
    BY <1>1, <2>3 DEF Good, Replayed, TurnZero
<1>4. KnownIsOpen'
  <2>1. \A w \in Workers : workers'[w].known = NoTurn /\ NoTurn # 0
    <3>1. \A w \in Workers : workers[w].pc = "unused" => workers[w].known = NoTurn
      BY SameTypes DEF WorkersFit, Fits
    <3> QED
      BY <1>1, <3>1, Constants
  <2> QED
    BY <2>1 DEF KnownIsOpen
<1>5. TableIsReplay'
  <2>1. SubSeq(log', base' + 1, Len(log')) = log
    BY <1>1, <1>2, SinceStart
  <2> QED
    BY <1>1, <2>1 DEF TableIsReplay
<1> QED
  BY <1>3, <1>4, <1>5 DEF Replayed

LEMMA ReplayedInit == Init => Replayed
<1> SUFFICES ASSUME Init PROVE Replayed
  OBVIOUS
<1>1. /\ log = <<>> /\ base = 0 /\ \A t \in TurnIds : turns[t] = "Absent"
      /\ 0 \in TurnIds /\ NoTurn # 0
  BY Constants DEF Init
<1>2. \A w \in Workers : workers[w].known = NoTurn
  BY DEF Init, IdleWorker
<1>3. SubSeq(log, base + 1, Len(log)) = <<>>
  BY <1>1
<1>4. TableIsReplay
  BY <1>1, <1>3, ReplayEmpty DEF TableIsReplay
<1> QED
  BY <1>1, <1>2, <1>4 DEF Replayed, TurnZero, KnownIsOpen

LEMMA ReplayedStep == Typed /\ Ordered /\ Replayed /\ [Next]_vars => Replayed'
<1> SUFFICES ASSUME Typed, Ordered, Replayed, [Next]_vars PROVE Replayed'
  OBVIOUS
<1>1. ASSUME NEW w \in Workers, SubmitTurn(w) \/ WorkerStep(w) PROVE Replayed'
  BY <1>1, ReplayedWorker, ReplayedMap, ReplayedInterrupt DEF WorkerStep
<1>2. ASSUME NEW w \in Workers, TaskStep(w) PROVE Replayed'
  BY <1>2, ReplayedBegin, ReplayedTask DEF TaskStep
<1>3. CASE AbortTurn \/ ClearRuntime \/ Restart
  BY <1>3, ReplayedAbort, ReplayedClear, ReplayedRestart
<1>4. CASE SubmitTurnMessageFails
  <2>1. "message" \in Actions /\ "clear" \in Actions /\ "abort" \in Actions
    BY DEF Actions
  <2>2. used'["abort"] = used["abort"] /\ used'["clear"] = used["clear"]
    BY <1>4, <2>1, SameTypes, SpendIs DEF Within, SubmitTurnMessageFails
  <2>3. session'.stored = session.stored
    BY <1>4, SameTypes, AcceptedIs DEF SubmitTurnMessageFails
  <2> QED
    BY <1>4, <2>2, <2>3, ReplayedAlone DEF SubmitTurnMessageFails
<1>5. CASE CompactRead \/ CompactStep
  BY <1>5, ReplayedCompact, ReplayedPublish DEF CompactStep
<1>6. CASE ShutdownBegin \/ ShutdownStep
  BY <1>6, ReplayedShutdown
<1>7. CASE UNCHANGED vars
  BY <1>7, ReplayedAlone DEF vars
<1> QED
  BY <1>1, <1>2, <1>3, <1>4, <1>5, <1>6, <1>7 DEF Next

LEMMA ReplayedAlways == Spec => [](Typed /\ Ordered /\ Replayed)
BY TypedInit, TypedStep, OrderedInit, OrderedStep, ReplayedInit, ReplayedStep, PTL DEF Spec

\* The turn table is what a restart would rebuild from the transcript, after any mix of
\* turns, append failures, interruptions, compactions, clears and restarts.
THEOREM TableStaysTheTranscript == Spec => []TurnsMatchTranscript
<1>1. Replayed => TurnsMatchTranscript
  BY DEF Replayed, TableIsReplay, TurnsMatchTranscript
<1> QED
  BY <1>1, ReplayedAlways, PTL

\* A step counts one action or fault at most, and a restart alone counts as one.
LEMMA StepCounts ==
  ASSUME [Next]_vars
  PROVE  \/ used' = used
         \/ \E a \in Actions : May(a) /\ Spend(a) /\ (a = "restart" => Restart)
<1>1. Actions = {"abort", "clear", "compact", "shutdown", "restart", "append", "message", "error",
             "panic"}
  BY DEF Actions
<1>2. ASSUME NEW w \in Workers, SubmitTurn(w) \/ WorkerStep(w) \/ TaskStep(w)
      PROVE  \/ used' = used \/ (May("append") /\ Spend("append")) \/ (May("error") /\ Spend("error"))
             \/ (May("panic") /\ Spend("panic"))
  BY <1>2 DEF SubmitTurn, WorkerStep, WorkerStart, WorkerAttach, WorkerMap, AppendThenPublish,
     AppendFailureReported, AppendFailureSwallowed, WorkerJoin, WorkerInterrupt, TaskStep,
     TaskBegin, TaskError, TaskRespond, TaskComplete, TaskReturn, TaskCancel, TaskPanic
<1>3. CASE SubmitTurnMessageFails \/ AbortTurn \/ ClearRuntime \/ Restart
  BY <1>1, <1>3 DEF SubmitTurnMessageFails, AbortTurn, ClearRuntime, Restart
<1>4. CASE CompactRead \/ CompactStep
  BY <1>1, <1>4 DEF CompactRead, CompactStep, CompactLock, CompactRun, CompactPublish
<1>5. CASE ShutdownBegin \/ ShutdownStep
  BY <1>1, <1>5 DEF ShutdownBegin, ShutdownStep, ShutdownClose, ShutdownDelete
<1>6. CASE UNCHANGED vars
  BY <1>6 DEF vars
<1> QED
  BY <1>1, <1>2, <1>3, <1>4, <1>5, <1>6 DEF Next

LEMMA RestartCounts ==
  ASSUME Typed, [Next]_vars, ~ Restart
  PROVE  used'["restart"] = used["restart"]
<1>1. "restart" \in Actions
  BY DEF Actions
<1> QED
  BY <1>1, StepCounts, SameTypes, SpendIs DEF Within

\* What a turn came to is what it came to after the process died and the session was loaded.
LEMMA SurvivesStep ==
  ASSUME Typed, Replayed, [Next]_vars, used'["restart"] > used["restart"], base = 0,
         NoAbortWithClear, NEW t \in TurnIds \ lost
  PROVE  turns'[t] = turns[t]
<1>1. Restart
  <2>1. used["restart"] \in Nat
    BY SameTypes DEF Within, Actions
  <2> QED
    BY <2>1, RestartCounts
<1>2. session.stored /\ turns' = ReplayTurns(log)
  BY <1>1 DEF Restart
<1>3. SubSeq(log, base + 1, Len(log)) = log
  BY SameTypes, SinceStart DEF Transcripts
<1> QED
  BY <1>2, <1>3 DEF Replayed, TableIsReplay

THEOREM OutcomesSurvive == Spec => FinishedSurvivesRestart
<1>1. Typed /\ Replayed /\ [Next]_vars =>
        [used'["restart"] > used["restart"] /\ base = 0 /\ NoAbortWithClear =>
           \A t \in TurnIds \ lost : turns[t] \in {"Completed", "Failed"} => turns'[t] = turns[t]]_vars
  BY SurvivesStep
<1> QED
  BY <1>1, ReplayedAlways, PTL DEF Spec, FinishedSurvivesRestart

-----------------------------------------------------------------------------
(* Every step keeps the turns in order *)

\* As long as nothing disturbs the session, a turn is that of the session's agent, its
\* number is handed out, and no other worker has it.
LEMMA UndisturbedTurns ==
  ASSUME Typed, Ordered, Undisturbed
  PROVE  /\ \A w \in Workers : workers[w].turn # NoTurn =>
              /\ workers[w].turn \in 1..MaxWorkers
              /\ workers[w].agent = session.agent
              /\ workers[w].turn < agents[session.agent].next
         /\ \A v, w \in Workers : v # w /\ workers[w].turn # NoTurn => workers[v].turn # workers[w].turn
         /\ \A w \in Workers : ~ workers[w].aborting
         /\ session.agent \in Generations /\ agents[session.agent].next \in Nat
<1>1. session.agent \in Generations /\ agents[session.agent].next \in Nat
  BY SameTypes, SessionIs DEF Agent
<1>2. ASSUME NEW w \in Workers, workers[w].turn # NoTurn
      PROVE  /\ workers[w].turn \in 1..MaxWorkers
             /\ workers[w].agent = session.agent
             /\ workers[w].turn < agents[session.agent].next
  <2>1. workers[w].turn \in 1..MaxWorkers
    BY <1>2, SameTypes, WorkerIs
  <2>2. workers[w].task # "none"
    BY <1>2, SameTypes DEF WorkersFit, Fits
  <2>3. workers[w].agent = session.agent
    BY <2>2 DEF Ordered, OneAgent, Undisturbed
  <2> QED
    BY <1>2, <2>1, <2>3 DEF Ordered, Numbered
<1>3. ASSUME NEW v \in Workers, NEW w \in Workers, v # w, workers[w].turn # NoTurn
      PROVE  workers[v].turn # workers[w].turn
  BY <1>3, OwnTurns DEF Undisturbed
<1>4. \A w \in Workers : ~ workers[w].aborting
  BY DEF Ordered, NoAborts, Undisturbed
<1> QED
  BY <1>1, <1>2, <1>3, <1>4

\* An event in a channel is one of its worker's turn, or one of no worker's turn.
LEMMA ChannelEvents ==
  ASSUME Typed, NEW w \in Workers, NEW i \in 1..Len(workers[w].chan)
  PROVE  /\ workers[w].chan[i] \in Events /\ Pushed(workers[w], workers[w].chan[i])
         /\ workers[w].turn # NoTurn \/ workers[w].chan[i].turn = 0
<1>1. PICK chan \in Seq(Events) : chan = workers[w].chan
  BY SameTypes, WorkerIs
<1>2. chan[i] \in Events /\ chan[i].turn \in TurnIds
  BY <1>1, ElementsAre DEF Events
<1>3. Pushed(workers[w], chan[i])
  BY <1>1, SameTypes DEF WorkersFit, Fits
<1>4. NoTurn \notin TurnIds
  BY Constants
<1> QED
  BY <1>1, <1>2, <1>3, <1>4 DEF Pushed

LEMMA InOrderSame ==
  ASSUME Typed, TurnsInOrder, Undisturbed,
         UNCHANGED turns, log' = log \/ log' = <<>>,
         session'.agent = session.agent, session.agent \in Generations,
         \A g \in Generations : agents'[g].next = agents[g].next,
         \A w \in Workers : /\ workers'[w].chan = workers[w].chan
                            /\ workers'[w].turn = workers[w].turn
                            /\ workers'[w].phase = workers[w].phase
  PROVE  FreshNumbers' /\ ChannelsInOrder' /\ ClosedIsLast'
<1>1. FreshNumbers /\ ChannelsInOrder /\ ClosedIsLast
  BY DEF TurnsInOrder
<1>2. log' = <<>> => Len(log') = 0
  OBVIOUS
<1>3. FreshNumbers'
  BY <1>1, <1>2 DEF FreshNumbers
<1>4. ChannelsInOrder'
  BY <1>1 DEF ChannelsInOrder
<1>5. ClosedIsLast'
  BY <1>1, <1>2 DEF ClosedIsLast, Closes
<1> QED
  BY <1>3, <1>4, <1>5

\* One event more at the end of a channel.
LEMMA PushInOrder ==
  ASSUME NEW chan \in Seq(Events), NEW e \in Events, StartsFirst(chan), EndsLast(chan),
         e.type = "turn_started" => \A i \in 1..Len(chan) : chan[i].turn # e.turn,
         \A i \in 1..Len(chan) : chan[i].type = "turn_completed" => chan[i].turn # e.turn
  PROVE  StartsFirst(Append(chan, e)) /\ EndsLast(Append(chan, e))
<1> DEFINE c == Append(chan, e)  N == Len(chan)
<1>1. /\ N \in Nat /\ Len(c) = N + 1 /\ c[N + 1] = e /\ \A i \in 1..N : c[i] = chan[i]
  BY AppendIs
<1> HIDE DEF c
<1>2. ASSUME NEW i \in 1..(N + 1), NEW j \in 1..(N + 1), i < j
      PROVE  /\ c[j].type = "turn_started" => c[i].turn # c[j].turn
             /\ c[i].type = "turn_completed" => c[i].turn # c[j].turn
  <2>1. i \in 1..N /\ c[i] = chan[i]
    BY <1>1, <1>2
  <2>2. CASE j = N + 1
    BY <1>1, <2>1, <2>2
  <2>3. CASE j # N + 1
    <3>1. j \in 1..N /\ c[j] = chan[j]
      BY <1>1, <2>3
    <3> QED
      BY <1>2, <2>1, <3>1 DEF StartsFirst, EndsLast
  <2> QED
    BY <2>2, <2>3
<1> QED
  BY <1>1, <1>2 DEF c, StartsFirst, EndsLast

\* Without its first event a channel is in order, and the first one starts or ends a turn.
LEMMA TailInOrder ==
  ASSUME NEW chan \in Seq(Events), chan # <<>>, StartsFirst(chan), EndsLast(chan)
  PROVE  /\ StartsFirst(Tail(chan)) /\ EndsLast(Tail(chan))
         /\ \A i \in 1..Len(Tail(chan)) :
              /\ Tail(chan)[i].type = "turn_started" => Tail(chan)[i].turn # Head(chan).turn
              /\ Head(chan).type = "turn_completed" => Tail(chan)[i].turn # Head(chan).turn
<1> DEFINE c == Tail(chan)  N == Len(chan)
<1>1. /\ N \in Nat /\ Len(c) = N - 1 /\ Head(chan) = chan[1] /\ 1 \in 1..N
      /\ \A i \in 1..Len(c) : i + 1 \in 1..N /\ c[i] = chan[i + 1]
  BY HeadIs
<1> HIDE DEF c
<1>2. ASSUME NEW i \in 1..Len(c), NEW j \in 1..Len(c), i < j
      PROVE  /\ c[j].type = "turn_started" => c[i].turn # c[j].turn
             /\ c[i].type = "turn_completed" => c[i].turn # c[j].turn
  <2>1. i + 1 < j + 1 /\ i + 1 \in 1..N /\ j + 1 \in 1..N
    BY <1>1, <1>2
  <2> QED
    BY <1>1, <2>1 DEF StartsFirst, EndsLast
<1>3. ASSUME NEW i \in 1..Len(c)
      PROVE  /\ c[i].type = "turn_started" => c[i].turn # chan[1].turn
             /\ chan[1].type = "turn_completed" => c[i].turn # chan[1].turn
  <2>1. 1 < i + 1 /\ i + 1 \in 1..N
    BY <1>1
  <2> QED
    BY <1>1, <2>1 DEF StartsFirst, EndsLast
<1> QED
  BY <1>1, <1>2, <1>3 DEF c, StartsFirst, EndsLast

\* A worker is sent one event more.
LEMMA InOrderPush ==
  ASSUME Typed, TurnsInOrder, Undisturbed,
         NEW w \in Workers, NEW k, Becomes(w, k), NEW e \in Events,
         k.chan = Append(workers[w].chan, e),
         UNCHANGED <<turns, log>>, session'.agent = session.agent, session.agent \in Generations,
         \A g \in Generations : agents[g].next \in Nat /\ agents'[g].next \in Nat
                                  /\ agents'[g].next >= agents[g].next,
         e.type = "turn_started" =>
           /\ turns[e.turn] = "Absent"
           /\ \A i \in 1..Len(workers[w].chan) : workers[w].chan[i].turn # e.turn,
         \A i \in 1..Len(workers[w].chan) :
           workers[w].chan[i].type = "turn_completed" => workers[w].chan[i].turn # e.turn,
         \A i \in 1..Len(log) : Closes(i) /\ k.turn = log[i].turn =>
           /\ workers[w].turn = k.turn /\ workers[w].phase = k.phase
           /\ e.turn # k.turn
  PROVE  FreshNumbers' /\ ChannelsInOrder' /\ ClosedIsLast'
<1>1. FreshNumbers /\ ChannelsInOrder /\ ClosedIsLast
  BY DEF TurnsInOrder
<1>2. /\ workers'[w] = k
      /\ \A v \in Workers : v # w => workers'[v] = workers[v]
  BY SameTypes, BecomesView
<1>3. PICK chan \in Seq(Events) : chan = workers[w].chan
  BY SameTypes, WorkerIs
<1>4. PICK more : more = Append(chan, e)
  OBVIOUS
<1>5. /\ Len(more) = Len(chan) + 1 /\ Len(chan) \in Nat /\ more[Len(chan) + 1] = e
      /\ \A i \in 1..Len(chan) : more[i] = chan[i]
  BY <1>4, AppendIs
<1>6. k.chan = more
  BY <1>3, <1>4
<1>7. StartsFirst(more) /\ EndsLast(more)
  BY <1>1, <1>3, <1>4, PushInOrder DEF ChannelsInOrder
<1>8. \A i \in 1..Len(more) : i \in 1..Len(chan) \/ more[i] = e
  BY <1>5
<1>9. FreshNumbers'
  <2>1. ASSUME NEW t \in 1..MaxWorkers, t >= agents'[session.agent].next PROVE turns[t] = "Absent"
    <3>1. t >= agents[session.agent].next
      BY <2>1, Constants
    <3> QED
      BY <1>1, <3>1 DEF FreshNumbers
  <2>2. ASSUME NEW i \in 1..Len(log), log[i].turn \in 1..MaxWorkers
        PROVE  log[i].turn < agents'[session.agent].next
    <3>1. log[i].turn < agents[session.agent].next
      BY <1>1, <2>2 DEF FreshNumbers
    <3> QED
      BY SMTT(20), <2>2, <3>1, Constants
  <2> QED
    BY <2>1, <2>2 DEF FreshNumbers
<1>10. ASSUME NEW i \in 1..Len(more), more[i].type = "turn_started"
       PROVE  turns[more[i].turn] = "Absent"
  <2>1. CASE i \in 1..Len(chan)
    BY <1>1, <1>3, <1>5, <1>10, <2>1 DEF ChannelsInOrder
  <2>2. CASE more[i] = e
    BY <1>10, <2>2
  <2> QED
    BY <1>8, <2>1, <2>2
<1>11. ChannelsInOrder'
  BY <1>1, <1>2, <1>6, <1>7, <1>10 DEF ChannelsInOrder
<1>12. ASSUME NEW i \in 1..Len(log), Closes(i), k.turn = log[i].turn
       PROVE  k.phase = "closed" /\ \A j \in 1..Len(more) : more[j].turn # log[i].turn
  <2>1. workers[w].turn = log[i].turn /\ workers[w].phase = k.phase /\ e.turn # log[i].turn
    BY <1>12
  <2>2. /\ workers[w].phase = "closed"
        /\ \A j \in 1..Len(chan) : chan[j].turn # log[i].turn
    BY <1>1, <1>3, <1>12, <2>1 DEF ClosedIsLast
  <2> QED
    BY <1>5, <1>8, <2>1, <2>2
<1>13. ClosedIsLast'
  BY <1>1, <1>2, <1>6, <1>12 DEF ClosedIsLast, Closes
<1> QED
  BY <1>9, <1>11, <1>13

\* What has disturbed a session has done so for good.
LEMMA StaysUndisturbed ==
  ASSUME Typed, [Next]_vars, Undisturbed'
  PROVE  Undisturbed /\ ~ AbortTurn /\ ~ ClearRuntime /\ ~ Restart
<1>1. "abort" \in Actions /\ "clear" \in Actions /\ "restart" \in Actions
  BY DEF Actions
<1>2. \A a \in Actions : used[a] \in Nat
  BY SameTypes DEF Within
<1>3. \A a \in Actions : used'[a] = used[a] \/ used'[a] = used[a] + 1
  BY StepCounts, SameTypes, SpendIs DEF Within
<1>4. \A a \in Actions : May(a) /\ Spend(a) => used'[a] = used[a] + 1
  BY SameTypes, SpendIs DEF Within
<1>5. ~ AbortTurn /\ ~ ClearRuntime /\ ~ Restart
  BY <1>1, <1>2, <1>4 DEF Undisturbed, AbortTurn, ClearRuntime, Restart
<1> QED
  BY <1>1, <1>2, <1>3, <1>5 DEF Undisturbed

\* The event that a task pushes for its turn while the turn is open.
LEMMA InOrderTask ==
  ASSUME Typed, Ordered, TurnsInOrder, Undisturbed,
         NEW w \in Workers, TaskError(w) \/ TaskRespond(w) \/ TaskComplete(w)
  PROVE  FreshNumbers' /\ ChannelsInOrder' /\ ClosedIsLast'
<1>1. PICK k, e : /\ e \in Events /\ e.type # "turn_started" /\ e.turn = workers[w].turn
                  /\ Becomes(w, k) /\ k.turn = workers[w].turn
                  /\ k.chan = Append(workers[w].chan, e)
  <2>1. CASE TaskError(w)
    BY <2>1, SameTypes, ErrorView DEF WorkersFit
  <2>2. CASE TaskRespond(w)
    BY <2>2, SameTypes, RespondView DEF WorkersFit
  <2>3. CASE TaskComplete(w)
    BY <2>3, SameTypes, CompleteView DEF WorkersFit
  <2> QED
    BY <2>1, <2>2, <2>3
<1>2. workers[w].task = "running" /\ workers[w].phase # "closed"
      /\ UNCHANGED <<session, agents, turns, log>>
  BY DEF TaskError, TaskRespond, TaskComplete
<1>3. workers[w].turn # NoTurn
  BY <1>2, SameTypes DEF WorkersFit, Fits
<1>4. workers[w].turn \in 1..MaxWorkers /\ session.agent \in Generations
      /\ \A g \in Generations : agents[g].next \in Nat
  BY <1>3, SameTypes, UndisturbedTurns DEF Agent
<1>5. ASSUME NEW i \in 1..Len(workers[w].chan), workers[w].chan[i].type = "turn_completed"
      PROVE  workers[w].chan[i].turn # e.turn
  BY <1>2, <1>5, ChannelEvents DEF Pushed
<1>6. ASSUME NEW i \in 1..Len(log), Closes(i), k.turn = log[i].turn PROVE FALSE
  BY <1>1, <1>2, <1>6 DEF TurnsInOrder, ClosedIsLast
<1>7. \A g \in Generations : agents[g].next \in Nat /\ agents'[g].next \in Nat
                               /\ agents'[g].next >= agents[g].next
  BY <1>2, <1>4
<1> QED
  BY <1>1, <1>2, <1>4, <1>5, <1>6, <1>7, InOrderPush

LEMMA InOrderBegin ==
  ASSUME Typed, Ordered, TurnsInOrder, Undisturbed, NEW w \in Workers, TaskBegin(w)
  PROVE  FreshNumbers' /\ ChannelsInOrder' /\ ClosedIsLast'
<1>1. PICK n, g, k, e, c :
           /\ n \in 1..MaxWorkers /\ g \in Generations
           /\ workers[w].task = "waiting" /\ g = workers[w].agent /\ n = agents[g].next
           /\ c \in Agent /\ agents' = [agents EXCEPT ![g] = c]
           /\ c.lock = "task" /\ c.sink = w /\ c.next = n + 1
           /\ e \in Events /\ e.type = "turn_started" /\ e.turn = n
           /\ Becomes(w, k)
           /\ k.phase = "open" /\ k.turn = n
           /\ k.chan = Append(workers[w].chan, e) /\ k.known = workers[w].known
           /\ UNCHANGED <<session, turns, compactor, closer, log, base, lost, used>>
  BY BeginView
<1>2. g = session.agent
  BY <1>1 DEF Ordered, OneAgent, Undisturbed
<1>3. \A h \in Generations : agents[h].next \in Nat /\ agents'[h].next \in Nat
                               /\ agents'[h].next >= agents[h].next
  BY <1>1, SameTypes DEF Agent
<1>4. turns[n] = "Absent" /\ \A i \in 1..Len(log) : log[i].turn \in 1..MaxWorkers => log[i].turn < n
  BY <1>1, <1>2 DEF TurnsInOrder, FreshNumbers
<1>5. ASSUME NEW i \in 1..Len(workers[w].chan) PROVE workers[w].chan[i].turn = 0
  <2>1. workers[w].turn = NoTurn
    BY <1>1, SameTypes DEF WorkersFit, Fits
  <2> QED
    BY <2>1, ChannelEvents
<1>6. n # 0
  BY <1>1
<1>7. ASSUME NEW i \in 1..Len(log), Closes(i), k.turn = log[i].turn PROVE FALSE
  BY <1>1, <1>4, <1>7 DEF Closes
<1> QED
  BY SMTT(20), <1>1, <1>2, <1>3, <1>4, <1>5, <1>6, <1>7, InOrderPush

LEMMA InOrderCompactRun ==
  ASSUME Typed, Ordered, TurnsInOrder, Undisturbed, CompactRun
  PROVE  FreshNumbers' /\ ChannelsInOrder' /\ ClosedIsLast'
<1>1. UNCHANGED <<session, turns, log>>
  BY DEF CompactRun
<1>2. session.agent \in Generations /\ \A g \in Generations : agents'[g].next = agents[g].next
                                           /\ agents[g].next \in Nat
  <2>1. PICK g \in Generations : g = compactor.agent
    BY SameTypes
  <2>2. \A h \in Generations : [agents EXCEPT ![g].lock = "free"][h].next = agents[h].next
    BY SameTypes, AgentTypes
  <2> QED
    BY <2>1, <2>2, SameTypes, SessionIs DEF CompactRun, Agent
<1>3. CASE workers' = workers
  BY <1>1, <1>2, <1>3, InOrderSame
<1>4. CASE workers' # workers
  <2>1. PICK w, k, e :
               /\ w \in Workers
               /\ e \in Events /\ e.turn = 0 /\ e.type = "context_compacted"
               /\ Becomes(w, k)
               /\ k.phase = workers[w].phase /\ k.turn = workers[w].turn
               /\ k.chan = Append(workers[w].chan, e)
    BY <1>4, SameTypes, CompactRunView
  <2>2. ASSUME NEW i \in 1..Len(workers[w].chan), workers[w].chan[i].type = "turn_completed"
        PROVE  workers[w].chan[i].turn # 0
    <3>1. workers[w].turn \in (1..MaxWorkers) \cup {NoTurn}
      BY <2>1, SameTypes, WorkerIs
    <3>2. workers[w].turn # 0
      BY <3>1, Constants
    <3> QED
      BY <2>1, <2>2, <3>2, ChannelEvents DEF Pushed
  <2>3. ASSUME NEW i \in 1..Len(log), Closes(i) PROVE log[i].turn # 0
    BY <2>3 DEF Closes
  <2>4. \A g \in Generations : agents[g].next \in Nat /\ agents'[g].next \in Nat
                                 /\ agents'[g].next >= agents[g].next
    BY <1>2
  <2> QED
    BY <1>1, <1>2, <2>1, <2>2, <2>3, <2>4, InOrderPush
<1> QED
  BY <1>3, <1>4

\* The event at the head of a channel goes into the table, the transcript, or both.
LEMMA InOrderMap ==
  ASSUME Typed, Ordered, TurnsInOrder, Undisturbed, NEW w \in Workers, WorkerMap(w)
  PROVE  /\ FreshNumbers' /\ ChannelsInOrder' /\ ClosedIsLast'
         /\ \A t \in TurnIds : turns[t] \in {"Completed", "Failed"}
                                 => turns'[t] \in {"Completed", "Failed"}
<1>1. PICK k, e : /\ e = Head(workers[w].chan)
                  /\ AppendThenPublish(e) \/ AppendFailureReported(e)
                       \/ AppendFailureSwallowed(e)
                  /\ Becomes(w, k)
                  /\ k.phase = workers[w].phase /\ k.turn = workers[w].turn
                  /\ k.chan = Tail(workers[w].chan)
  BY SameTypes, MapView
<1>2. workers[w].chan # <<>> /\ UNCHANGED <<session, agents>>
  BY SameTypes, MapView
<1>3. PICK chan \in Seq(Events) : chan = workers[w].chan /\ chan # <<>>
  BY <1>2, SameTypes, WorkerIs
<1>4. e \in Events /\ Pushed(workers[w], e) /\ e.turn \in TurnIds /\ e = Head(chan)
  BY <1>1, <1>2, <1>3, HeadPushed DEF Events
<1>5. /\ workers'[w] = k
      /\ \A v \in Workers : v # w => workers'[v] = workers[v]
  BY <1>1, SameTypes, BecomesView
<1>6. FreshNumbers /\ ChannelsInOrder /\ ClosedIsLast
  BY DEF TurnsInOrder
\* What the step does to the table and to the transcript.
<1>7. PICK s, f : /\ turns' = [turns EXCEPT ![e.turn] = s]
                  /\ s = "Failed" \/ s = ApplyTurnRuntimeEvent(turns[e.turn], e.type)
                  /\ f \in Events /\ f.turn = e.turn /\ f.type = "response_error"
                  /\ log' \in {log, Append(log, e), Append(log, f), Append(Append(log, e), f)}
  <2>1. CASE AppendThenPublish(e)
    <3>1. "response_error" \in EventTypes
      BY DEF EventTypes
    <3>2. \E f \in Events : f.type = "response_error" /\ f.turn = e.turn
      BY <1>4, <3>1, EventIs
    <3> QED
      BY <2>1, <3>2 DEF AppendThenPublish
  <2>2. CASE AppendFailureReported(e)
    <3>1. turns' = [turns EXCEPT ![e.turn] = "Failed"]
      BY <2>2 DEF AppendFailureReported
    <3> QED
      BY <1>4, <2>2, <3>1, SameTypes, FailureLog
  <2>3. CASE AppendFailureSwallowed(e)
    <3>1. turns' = [turns EXCEPT ![e.turn] = "Failed"]
      BY <2>3 DEF AppendFailureSwallowed
    <3> QED
      BY <1>4, <2>3, <3>1, SameTypes, FailureLog
  <2> QED
    BY <1>1, <2>1, <2>2, <2>3
<1>8. \A t \in TurnIds : turns'[t] = IF t = e.turn THEN s ELSE turns[t]
  BY <1>4, <1>7, SameTypes
<1>9. 1..MaxWorkers \subseteq TurnIds /\ 0 \notin 1..MaxWorkers /\ NoTurn \notin TurnIds
  BY Constants
<1>10. e.turn = 0 \/ (e.turn = workers[w].turn /\ workers[w].turn # NoTurn)
  BY <1>4, <1>9 DEF Pushed
<1>11. /\ \A v \in Workers : workers[v].turn # NoTurn => workers[v].turn \in 1..MaxWorkers
       /\ \A v, u \in Workers : v # u /\ workers[u].turn # NoTurn => workers[v].turn # workers[u].turn
       /\ workers[w].turn # NoTurn => workers[w].turn < agents[session.agent].next
       /\ agents[session.agent].next \in Nat
  BY UndisturbedTurns
<1>12. e.turn \in 1..MaxWorkers => e.turn = workers[w].turn /\ e.turn < agents[session.agent].next
  BY <1>9, <1>10, <1>11
<1>13. Len(log) \in Nat /\ Len(log') \in Nat
  BY <1>4, <1>7, SameTypes, LongerLog
<1>14. ASSUME NEW i \in 1..Len(log')
       PROVE  \/ i \in 1..Len(log) /\ log'[i] = log[i]
              \/ i = Len(log) + 1 /\ log'[i] \in {e, f}
              \/ i = Len(log) + 2 /\ log'[i] = f
  <2>1. log \in Seq(Events) /\ e \in Events /\ f \in Events
        /\ log' \in {log, Append(log, e), Append(log, f), Append(Append(log, e), f)}
    BY <1>4, <1>7, SameTypes
  <2>2. /\ \A j \in 1..Len(log) : j \in 1..Len(log') /\ log'[j] = log[j]
        /\ \A j \in 1..Len(log') :
             \/ j \in 1..Len(log)
             \/ j = Len(log) + 1 /\ log'[j] \in {e, f}
             \/ j = Len(log) + 2 /\ log'[j] = f
    BY ONLY <2>1, LongerLog
  <2> QED
    BY ONLY <2>2
<1>15. FreshNumbers'
  <2>1. ASSUME NEW t \in 1..MaxWorkers, t >= agents[session.agent].next PROVE turns'[t] = "Absent"
    <3>1. t # e.turn
      BY <1>11, <1>12, <2>1, Constants
    <3> QED
      BY <1>6, <1>8, <1>9, <2>1, <3>1 DEF FreshNumbers
  <2>2. ASSUME NEW i \in 1..Len(log'), log'[i].turn \in 1..MaxWorkers
        PROVE  log'[i].turn < agents[session.agent].next
    BY <1>6, <1>7, <1>12, <1>14, <2>2 DEF FreshNumbers
  <2> QED
    BY <1>2, <2>1, <2>2 DEF FreshNumbers
<1>16. PICK rest \in Seq(Events) : rest = Tail(chan) /\ k.chan = rest
  BY <1>1, <1>3, HeadIs
<1>17. /\ StartsFirst(rest) /\ EndsLast(rest)
       /\ \A i \in 1..Len(rest) : /\ rest[i].type = "turn_started" => rest[i].turn # e.turn
                                  /\ e.type = "turn_completed" => rest[i].turn # e.turn
  BY <1>3, <1>4, <1>6, <1>16, TailInOrder DEF ChannelsInOrder
<1>18. \A i \in 1..Len(rest) : i + 1 \in 1..Len(chan) /\ rest[i] = chan[i + 1]
  BY <1>3, <1>16, HeadIs
<1>19. ChannelsInOrder'
  <2>1. ASSUME NEW i \in 1..Len(rest), rest[i].type = "turn_started"
        PROVE  turns'[rest[i].turn] = "Absent"
    <3>1. turns[rest[i].turn] = "Absent" /\ rest[i].turn # e.turn
      BY <1>3, <1>6, <1>17, <1>18, <2>1 DEF ChannelsInOrder
    <3>2. rest[i].turn \in TurnIds
      BY ElementsAre DEF Events
    <3> QED
      BY <1>8, <3>1, <3>2
  <2>2. ASSUME NEW v \in Workers, v # w, NEW i \in 1..Len(workers[v].chan),
               workers[v].chan[i].type = "turn_started"
        PROVE  turns'[workers[v].chan[i].turn] = "Absent"
    <3>1. workers[v].chan[i] \in Events /\ workers[v].chan[i].turn = workers[v].turn
      BY <2>2, ChannelEvents DEF Pushed
    <3>2. workers[v].chan[i].turn \in TurnIds
      BY <3>1 DEF Events
    <3>3. workers[v].turn # e.turn
      BY <1>9, <1>10, <1>11, <2>2, <3>1, <3>2
    <3> QED
      BY <1>6, <1>8, <2>2, <3>1, <3>2, <3>3 DEF ChannelsInOrder
  <2>3. ASSUME NEW v \in Workers
        PROVE  /\ StartsFirst(workers'[v].chan) /\ EndsLast(workers'[v].chan)
               /\ \A i \in 1..Len(workers'[v].chan) : workers'[v].chan[i].type = "turn_started"
                     => turns'[workers'[v].chan[i].turn] = "Absent"
    <3>1. CASE v = w
      BY <1>5, <1>16, <1>17, <2>1, <3>1
    <3>2. CASE v # w
      BY <1>5, <1>6, <2>2, <3>2 DEF ChannelsInOrder
    <3> QED
      BY <3>1, <3>2
  <2> QED
    BY <2>3 DEF ChannelsInOrder
<1>20. ClosedIsLast'
  <2>1. ASSUME NEW i \in 1..Len(log), Closes(i)
        PROVE  /\ e.turn # log[i].turn
               /\ \A v \in Workers : workers'[v].turn = log[i].turn =>
                    /\ workers'[v].phase = "closed"
                    /\ \A j \in 1..Len(workers'[v].chan) : workers'[v].chan[j].turn # log[i].turn
    <3>1. \A v \in Workers : workers[v].turn = log[i].turn =>
            /\ workers[v].phase = "closed"
            /\ \A j \in 1..Len(workers[v].chan) : workers[v].chan[j].turn # log[i].turn
      BY <1>6, <2>1 DEF ClosedIsLast
    <3>2. e.turn # log[i].turn
      <4>1. 1 \in 1..Len(chan) /\ e = chan[1] /\ log[i].turn \in 1..MaxWorkers
        BY <1>3, <1>4, <2>1, HeadIs DEF Closes
      <4> QED
        BY <1>3, <1>12, <3>1, <4>1
    <3>3. workers[w].turn = log[i].turn => \A j \in 1..Len(rest) : rest[j].turn # log[i].turn
      BY <1>3, <1>18, <3>1
    <3> QED
      BY <1>1, <1>5, <1>16, <3>1, <3>2, <3>3
  <2>2. ASSUME Closing(e.type), e.turn \in 1..MaxWorkers
        PROVE  \A v \in Workers : workers'[v].turn = e.turn =>
                 /\ workers'[v].phase = "closed"
                 /\ \A j \in 1..Len(workers'[v].chan) : workers'[v].chan[j].turn # e.turn
    <3>1. e.type = "turn_completed" /\ e.turn = workers[w].turn /\ workers[w].phase = "closed"
      BY <1>4, <1>9, <2>2 DEF Closing, Pushed
    <3>2. ASSUME NEW v \in Workers, workers'[v].turn = e.turn PROVE v = w
      BY <1>1, <1>5, <1>9, <1>10, <1>11, <2>2, <3>1, <3>2
    <3>3. workers'[w].phase = "closed" /\ workers'[w].chan = rest
      BY <1>1, <1>5, <1>16, <3>1
    <3> QED
      BY <1>17, <3>1, <3>2, <3>3
  <2>3. ASSUME NEW i \in 1..Len(log'), Closing(log'[i].type), log'[i].turn \in 1..MaxWorkers
        PROVE  /\ \A j \in 1..Len(log') : i < j /\ log'[j].turn = log'[i].turn
                                            => j = i + 1 /\ log'[j].type = "response_error"
               /\ \A v \in Workers : workers'[v].turn = log'[i].turn =>
                    /\ workers'[v].phase = "closed"
                    /\ \A j \in 1..Len(workers'[v].chan) : workers'[v].chan[j].turn # log'[i].turn
    <3>1. CASE i \in 1..Len(log) /\ log'[i] = log[i]
      <4>1. Closes(i)
        BY <2>3, <3>1 DEF Closes
      <4>2. ASSUME NEW j \in 1..Len(log'), i < j, log'[j].turn = log'[i].turn
            PROVE  j = i + 1 /\ log'[j].type = "response_error"
        <5>1. (j \in 1..Len(log) /\ log'[j] = log[j]) \/ log'[j] \in {e, f}
          BY <1>14
        <5>2. log'[j] \notin {e, f}
          BY <1>7, <2>1, <3>1, <4>1, <4>2
        <5> QED
          BY <1>6, <3>1, <4>1, <4>2, <5>1, <5>2 DEF ClosedIsLast
      <4> QED
        BY <2>1, <3>1, <4>1, <4>2
    <3>2. CASE i \notin 1..Len(log)
      <4>1. i = Len(log) + 1 /\ log'[i] = e
        BY <1>7, <1>14, <2>3, <3>2 DEF Closing
      <4>2. ASSUME NEW j \in 1..Len(log'), i < j PROVE j = i + 1 /\ log'[j] = f
        <5>1. j \notin 1..Len(log) /\ j # Len(log) + 1
          BY <1>13, <4>1, <4>2
        <5> QED
          BY <1>13, <1>14, <4>1, <5>1
      <4> QED
        BY <1>7, <2>2, <2>3, <4>1, <4>2
    <3> QED
      BY <1>14, <3>1, <3>2
  <2> QED
    BY <2>3 DEF ClosedIsLast, Closes
<1>21. ASSUME NEW t \in TurnIds, turns[t] \in {"Completed", "Failed"}
       PROVE  turns'[t] \in {"Completed", "Failed"}
  <2>1. CASE t # e.turn
    BY <1>8, <1>21, <2>1
  <2>2. CASE t = e.turn
    <3>1. e.type # "turn_started"
      <4>1. 1 \in 1..Len(chan) /\ e = chan[1]
        BY <1>3, <1>4, HeadIs
      <4> QED
        BY <1>3, <1>6, <1>21, <2>2, <4>1 DEF ChannelsInOrder
    <3>2. ApplyTurnRuntimeEvent(turns[t], e.type) \in {"Completed", "Failed"}
      BY <1>21, <3>1 DEF ApplyTurnRuntimeEvent, Queued
    <3> QED
      BY <1>7, <1>8, <2>2, <3>2
  <2> QED
    BY <2>1, <2>2
<1> QED
  BY <1>15, <1>19, <1>20, <1>21

\* The events of a manual compaction are of no worker's turn.
LEMMA InOrderPublish ==
  ASSUME Typed, Ordered, TurnsInOrder, Undisturbed, CompactPublish
  PROVE  /\ FreshNumbers' /\ ChannelsInOrder' /\ ClosedIsLast'
         /\ \A t \in TurnIds : turns[t] \in {"Completed", "Failed"}
                                 => turns'[t] \in {"Completed", "Failed"}
<1>1. PICK a, b : /\ CompactEvent(a) /\ CompactEvent(b)
                  /\ \/ /\ \E c : /\ CompactEvent(c)
                                  /\ c.type = "turn_completed" /\ b.type = "response_completed"
                                  /\ log' = Append(Append(Append(log, a), b), c)
                        /\ \/ UNCHANGED <<lost, used>>
                           \/ /\ lost' = lost \cup {CompactTurn}
                              /\ May("append") /\ Spend("append")
                     \/ /\ log' = Append(Append(log, a), b)
                        /\ lost' = lost \cup {CompactTurn}
                        /\ May("append") /\ Spend("append")
  BY SameTypes, CompactLog
<1>2. UNCHANGED <<session, agents, workers>> /\ turns' = [turns EXCEPT ![CompactTurn] = "Completed"]
  BY DEF CompactPublish
<1>3. \A t \in TurnIds : turns'[t] = IF t = CompactTurn THEN "Completed" ELSE turns[t]
  BY <1>2, SameTypes
<1>4. CompactTurn \notin 1..MaxWorkers /\ 1..MaxWorkers \subseteq TurnIds
  BY Constants
<1>5. FreshNumbers /\ ChannelsInOrder /\ ClosedIsLast
  BY DEF TurnsInOrder
<1>6. \A c : CompactEvent(c) => c \in Events /\ c.turn = CompactTurn
  BY DEF CompactEvent
<1>7. /\ Len(log) \in Nat /\ \A i \in 1..Len(log) : log'[i] = log[i]
      /\ \A i \in 1..Len(log') : i \in 1..Len(log) \/ log'[i].turn = CompactTurn
      /\ \A i \in 1..Len(log) : i \in 1..Len(log')
  <2>1. PICK p : p = Append(log, a)
    OBVIOUS
  <2>2. /\ p \in Seq(Events) /\ Len(p) = Len(log) + 1 /\ Len(log) \in Nat
        /\ p[Len(log) + 1] = a /\ \A i \in 1..Len(log) : p[i] = log[i]
    BY <1>1, <1>6, <2>1, SameTypes, AppendIs
  <2>3. PICK q : q = Append(p, b)
    OBVIOUS
  <2>4. /\ q \in Seq(Events) /\ Len(q) = Len(p) + 1
        /\ q[Len(p) + 1] = b /\ \A i \in 1..Len(p) : q[i] = p[i]
    BY <1>1, <1>6, <2>2, <2>3, AppendIs
  <2>5. /\ \A i \in 1..Len(log) : q[i] = log[i]
        /\ \A i \in 1..Len(q) : i \in 1..Len(log) \/ q[i].turn = CompactTurn
    BY <1>1, <1>6, <2>2, <2>4
  <2>6. CASE log' = q
    BY <2>2, <2>4, <2>5, <2>6
  <2>7. CASE \E c : CompactEvent(c) /\ log' = Append(q, c)
    <3>1. PICK c : CompactEvent(c) /\ log' = Append(q, c)
      BY <2>7
    <3>2. /\ Len(log') = Len(q) + 1 /\ log'[Len(q) + 1] = c /\ \A i \in 1..Len(q) : log'[i] = q[i]
      BY <1>6, <2>4, <3>1, AppendIs
    <3> QED
      BY <1>6, <2>2, <2>4, <2>5, <3>1, <3>2
  <2> QED
    BY <1>1, <2>1, <2>3, <2>6, <2>7
<1>8. FreshNumbers'
  BY <1>2, <1>3, <1>4, <1>5, <1>7 DEF FreshNumbers
<1>9. ChannelsInOrder'
  <2>1. ASSUME NEW v \in Workers, NEW i \in 1..Len(workers[v].chan),
               workers[v].chan[i].type = "turn_started"
        PROVE  turns'[workers[v].chan[i].turn] = "Absent"
    <3>1. workers[v].chan[i] \in Events /\ workers[v].chan[i].turn = workers[v].turn
      BY <2>1, ChannelEvents DEF Pushed
    <3>2. workers[v].chan[i].turn \in TurnIds /\ workers[v].turn # NoTurn
      BY <3>1, Constants DEF Events
    <3>3. workers[v].turn # CompactTurn
      BY <1>4, <3>2, UndisturbedTurns
    <3> QED
      BY <1>3, <1>5, <2>1, <3>1, <3>2, <3>3 DEF ChannelsInOrder
  <2> QED
    BY <1>2, <1>5, <2>1 DEF ChannelsInOrder
<1>10. ClosedIsLast'
  <2>1. ASSUME NEW i \in 1..Len(log'), Closing(log'[i].type), log'[i].turn \in 1..MaxWorkers
        PROVE  i \in 1..Len(log) /\ Closes(i) /\ log'[i] = log[i]
    BY <1>4, <1>7, <2>1 DEF Closes
  <2>2. ASSUME NEW i \in 1..Len(log), Closes(i), NEW j \in 1..Len(log'), i < j,
               log'[j].turn = log[i].turn
        PROVE  j = i + 1 /\ log'[j].type = "response_error"
    <3>1. CASE j \in 1..Len(log)
      BY <1>5, <1>7, <2>2, <3>1 DEF ClosedIsLast
    <3>2. CASE j \notin 1..Len(log)
      BY <1>4, <1>7, <2>2, <3>2 DEF Closes
    <3> QED
      BY <3>1, <3>2
  <2> QED
    BY <1>2, <1>5, <2>1, <2>2 DEF ClosedIsLast, Closes
<1>11. \A t \in TurnIds : turns[t] \in {"Completed", "Failed"} => turns'[t] \in {"Completed", "Failed"}
  BY <1>3
<1> QED
  BY <1>8, <1>9, <1>10, <1>11

\* The steps that push nothing, map nothing and publish nothing.
LEMMA InOrderQuiet ==
  ASSUME Typed, Ordered, TurnsInOrder, Undisturbed,
         \/ \E w \in Workers : \/ SubmitTurn(w) \/ WorkerStart(w) \/ WorkerAttach(w)
                               \/ WorkerJoin(w) \/ TaskReturn(w) \/ TaskPanic(w)
         \/ SubmitTurnMessageFails \/ CompactRead \/ CompactLock \/ ShutdownBegin \/ ShutdownStep
         \/ UNCHANGED vars
  PROVE  /\ FreshNumbers' /\ ChannelsInOrder' /\ ClosedIsLast'
         /\ turns' = turns
<1>1. session.agent \in Generations
  BY SameTypes, SessionIs
<1>2. turns' = turns /\ (log' = log \/ log' = <<>>)
  BY DEF SubmitTurn, WorkerStart, WorkerAttach, WorkerJoin, TaskReturn, TaskPanic,
     SubmitTurnMessageFails, CompactRead, CompactLock, ShutdownBegin, ShutdownStep, ShutdownClose, ShutdownDelete, vars
<1>3. session'.agent = session.agent
  BY SameTypes, AcceptedIs
     DEF SubmitTurn, WorkerStart, WorkerAttach, WorkerJoin, TaskReturn, TaskPanic,
         SubmitTurnMessageFails, CompactRead, CompactLock, ShutdownBegin, ShutdownStep, ShutdownClose, ShutdownDelete,
         Forgotten, Session, vars
<1>4. \A g \in Generations : agents'[g].next = agents[g].next
  <2>1. CASE CompactLock
    <3>1. PICK g \in Generations : g = compactor.agent
      BY SameTypes
    <3>2. \A h \in Generations : [agents EXCEPT ![g].lock = "compact"][h].next = agents[h].next
      BY SameTypes, AgentTypes
    <3> QED
      BY <2>1, <3>1, <3>2 DEF CompactLock
  <2>2. ASSUME NEW w \in Workers, TaskReturn(w)
        PROVE  \A g \in Generations : agents'[g].next = agents[g].next
    <3>1. PICK g \in Generations : g = workers[w].agent
      BY SameTypes, WorkerIs
    <3>2. \A h \in Generations :
            [agents EXCEPT ![g].lock = "free", ![g].sink = None][h].next = agents[h].next
      BY SameTypes, AgentTypes
    <3> QED
      BY <2>2, <3>1, <3>2 DEF TaskReturn
  <2>3. CASE agents' = agents
    BY <2>3
  <2>4. ASSUME NEW w \in Workers, TaskPanic(w)
        PROVE  \A g \in Generations : agents'[g].next = agents[g].next
    <3>1. PICK g \in Generations : g = workers[w].agent
      BY SameTypes, WorkerIs
    <3>2. \A h \in Generations : [agents EXCEPT ![g].lock = "free"][h].next = agents[h].next
      BY SameTypes, AgentTypes
    <3> QED
      BY <2>4, <3>1, <3>2 DEF TaskPanic
  <2> QED
    BY <2>1, <2>2, <2>3, <2>4
       DEF SubmitTurn, WorkerStart, WorkerAttach, WorkerJoin, SubmitTurnMessageFails,
           CompactRead, ShutdownBegin, ShutdownStep, ShutdownClose, ShutdownDelete, vars
<1>5. \A v \in Workers : /\ workers'[v].chan = workers[v].chan
                         /\ workers'[v].turn = workers[v].turn
                         /\ workers'[v].phase = workers[v].phase
  <2>1. ASSUME NEW w \in Workers, \/ SubmitTurn(w) \/ WorkerStart(w) \/ WorkerAttach(w)
                                  \/ WorkerJoin(w) \/ TaskReturn(w) \/ TaskPanic(w)
        PROVE  \E k : /\ Becomes(w, k) /\ k.chan = workers[w].chan /\ k.turn = workers[w].turn
                      /\ k.phase = workers[w].phase
    <3>1. CASE SubmitTurn(w)
      BY <3>1, SameTypes, SubmitView
    <3>2. CASE WorkerStart(w)
      BY <3>2, SameTypes, StartView
    <3>3. CASE WorkerAttach(w)
      BY ZenonT(20), <3>3, SameTypes, AttachView
    <3>4. CASE WorkerJoin(w)
      BY <3>4, SameTypes, JoinView
    <3>5. CASE TaskReturn(w)
      BY ZenonT(20), <3>5, SameTypes, ReturnView
    <3>6. CASE TaskPanic(w)
      BY <3>6, SameTypes, PanicView
    <3> QED
      BY <2>1, <3>1, <3>2, <3>3, <3>4, <3>5, <3>6
  <2>2. ASSUME NEW w \in Workers, NEW k, Becomes(w, k), k.chan = workers[w].chan,
               k.turn = workers[w].turn, k.phase = workers[w].phase
        PROVE  \A v \in Workers : /\ workers'[v].chan = workers[v].chan
                                  /\ workers'[v].turn = workers[v].turn
                                  /\ workers'[v].phase = workers[v].phase
    BY <2>2, SameTypes, BecomesView
  <2>3. CASE workers' = workers
    BY <2>3
  <2> QED
    BY <2>1, <2>2, <2>3
       DEF SubmitTurnMessageFails, CompactRead, CompactLock, ShutdownBegin, ShutdownStep,
           ShutdownClose, ShutdownDelete, vars
<1> QED
  BY <1>1, <1>2, <1>3, <1>4, <1>5, InOrderSame

\* A step that keeps the turns in order, and those that are over as they are.
KeepsOrder ==
  /\ FreshNumbers' /\ ChannelsInOrder' /\ ClosedIsLast'
  /\ \A t \in TurnIds : turns[t] \in {"Completed", "Failed"} => turns'[t] \in {"Completed", "Failed"}

\* One step of an undisturbed session.
LEMMA InOrderNext ==
  ASSUME Typed, Ordered, TurnsInOrder, [Next]_vars, Undisturbed'
  PROVE  KeepsOrder
<1>1. Undisturbed /\ ~ AbortTurn /\ ~ ClearRuntime /\ ~ Restart
  BY StaysUndisturbed
<1>2. \A w \in Workers : ~ workers[w].aborting
  BY <1>1, UndisturbedTurns
<1>3. ASSUME NEW w \in Workers, WorkerInterrupt(w) \/ TaskCancel(w) PROVE FALSE
  BY <1>2, <1>3, SameTypes DEF WorkerInterrupt, TaskCancel, WorkersFit, Fits
<1>4. ASSUME NEW w \in Workers, WorkerMap(w) PROVE KeepsOrder
  BY <1>1, <1>4, InOrderMap DEF KeepsOrder
<1>5. ASSUME NEW w \in Workers, TaskError(w) \/ TaskRespond(w) \/ TaskComplete(w) PROVE KeepsOrder
  <2>1. turns' = turns
    BY <1>5 DEF TaskError, TaskRespond, TaskComplete
  <2> QED
    BY <1>1, <1>5, <2>1, InOrderTask DEF KeepsOrder
<1>6. ASSUME NEW w \in Workers, TaskBegin(w) PROVE KeepsOrder
  <2>1. turns' = turns
    BY <1>6 DEF TaskBegin
  <2> QED
    BY <1>1, <1>6, <2>1, InOrderBegin DEF KeepsOrder
<1>7. CASE CompactRun
  <2>1. turns' = turns
    BY <1>7 DEF CompactRun
  <2> QED
    BY <1>1, <1>7, <2>1, InOrderCompactRun DEF KeepsOrder
<1>8. CASE CompactPublish
  BY <1>1, <1>8, InOrderPublish DEF KeepsOrder
<1>9. ASSUME NEW w \in Workers, \/ SubmitTurn(w) \/ WorkerStart(w) \/ WorkerAttach(w)
                                 \/ WorkerJoin(w) \/ TaskReturn(w) \/ TaskPanic(w)
      PROVE  KeepsOrder
  BY <1>1, <1>9, InOrderQuiet DEF KeepsOrder
<1>10. CASE SubmitTurnMessageFails \/ CompactRead \/ CompactLock
  BY <1>1, <1>10, InOrderQuiet DEF KeepsOrder
<1>11. CASE ShutdownBegin \/ ShutdownStep
  BY <1>1, <1>11, InOrderQuiet DEF KeepsOrder
<1>12. CASE UNCHANGED vars
  BY <1>1, <1>12, InOrderQuiet DEF KeepsOrder
<1>13. ASSUME NEW w \in Workers, SubmitTurn(w) \/ WorkerStep(w) PROVE KeepsOrder
  BY <1>3, <1>4, <1>9, <1>13 DEF WorkerStep
<1>14. ASSUME NEW w \in Workers, TaskStep(w) PROVE KeepsOrder
  BY <1>3, <1>5, <1>6, <1>9, <1>14 DEF TaskStep
<1>15. CASE CompactStep
  BY <1>7, <1>8, <1>10, <1>15 DEF CompactStep
<1> QED
  BY <1>1, <1>10, <1>11, <1>12, <1>13, <1>14, <1>15 DEF Next

LEMMA InOrderInit == Init => TurnsInOrder
<1> SUFFICES ASSUME Init PROVE TurnsInOrder
  OBVIOUS
<1>1. /\ log = <<>> /\ 1..Len(log) = {} /\ 1..MaxWorkers \subseteq TurnIds
      /\ \A t \in TurnIds : turns[t] = "Absent"
  BY Constants DEF Init
<1>2. \A w \in Workers : workers[w].chan = <<>> /\ Len(workers[w].chan) = 0
  BY DEF Init, IdleWorker
<1>3. FreshNumbers
  <2>1. \A t \in 1..MaxWorkers : turns[t] = "Absent"
    BY <1>1
  <2> QED
    BY <1>1, <2>1 DEF FreshNumbers
<1>4. ChannelsInOrder
  BY <1>2 DEF ChannelsInOrder, StartsFirst, EndsLast
<1>5. ClosedIsLast
  BY <1>1 DEF ClosedIsLast
<1> QED
  BY <1>3, <1>4, <1>5 DEF TurnsInOrder

LEMMA InOrderStep == Typed /\ Ordered /\ TurnsInOrder /\ [Next]_vars => TurnsInOrder'
BY InOrderNext DEF KeepsOrder, TurnsInOrder

LEMMA InOrderAlways == Spec => [](Typed /\ Ordered /\ TurnsInOrder)
BY TypedInit, TypedStep, OrderedInit, OrderedStep, InOrderInit, InOrderStep, PTL DEF Spec

\* In the transcript the event that closes a turn is followed by its own report at most.
LEMMA ClosedWhenInOrder == Typed /\ TurnsInOrder => ClosedTurnsStayClosed
<1> SUFFICES ASSUME Typed, TurnsInOrder, Undisturbed,
                    NEW i \in DOMAIN log, NEW j \in DOMAIN log, i < j, log[i].turn = log[j].turn,
                    log[i].turn \in 1..MaxWorkers, Closing(log[i].type)
             PROVE  j = i + 1 /\ log[j].type = "response_error"
  BY DEF ClosedTurnsStayClosed
<1>1. i \in 1..Len(log) /\ j \in 1..Len(log)
  BY SameTypes
<1> QED
  BY <1>1 DEF TurnsInOrder, ClosedIsLast, Closes

\* A turn that is over stays over: left to itself a turn has no event after the one that
\* closes it, but the report of that event's own append when its record was stored and the
\* append failed, and never goes back to Queued or Running, and a restart rebuilds its outcome.
THEOREM TurnsAreOver == Spec => TurnsStayOver
<1>1. Typed /\ Ordered /\ TurnsInOrder /\ [Next]_vars =>
        [Undisturbed' => \A t \in TurnIds : turns[t] \in {"Completed", "Failed"}
                                              => turns'[t] \in {"Completed", "Failed"}]_turns
  BY InOrderNext DEF KeepsOrder
<1>2. Spec => FinishedStaysFinished
  BY <1>1, InOrderAlways, PTL DEF Spec, FinishedStaysFinished
<1>3. Spec => []ClosedTurnsStayClosed
  BY ClosedWhenInOrder, InOrderAlways, PTL
<1> QED
  BY <1>2, <1>3, OutcomesSurvive DEF TurnsStayOver

=============================================================================
