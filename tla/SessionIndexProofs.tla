------------------------- MODULE SessionIndexProofs -------------------------
(***************************************************************************)
(* Theorems about SessionIndex, for any sessions, titles, compaction limit *)
(* and numbers of operations, faults and crashes: the list shows what the  *)
(* replies allow, a restart loads the list that is in memory, and list,    *)
(* directories and rows agree.                                             *)
(***************************************************************************)
EXTENDS SessionIndex, WellFoundedInduction, TLAPS

USE SessionsAssumption, CompactAssumption, TitlesAssumption

-----------------------------------------------------------------------------
(* The log *)

\* Of any natural numbers one is the least.
LEMMA LeastExists ==
  ASSUME NEW T \in SUBSET Nat, T # {}
  PROVE  \E m \in T : \A n \in T : m <= n
<1>1. PICK m \in T : \A n \in T : ~ (<<n, m>> \in OpToRel(<, Nat))
  BY NatLessThanWellFounded, WFMin
<1>2. \A n \in T : ~ (n < m)
  BY <1>1 DEF OpToRel
<1> QED
  BY <1>2

\* A session that has records has a last one.
LEMMA LatestIs ==
  ASSUME NEW recs \in Seq(Record), NEW s, RecordsOf(recs, s) # {}
  PROVE  Max(RecordsOf(recs, s)) \in RecordsOf(recs, s)
<1> DEFINE own == RecordsOf(recs, s)
           T == {n \in Nat : \E i \in own : n = Len(recs) - i}
<1>1. \A i \in own : i \in 1 .. Len(recs) /\ Len(recs) - i \in T
  BY DEF RecordsOf
<1>2. PICK m \in T : \A n \in T : m <= n
  <2>1. T # {} /\ T \in SUBSET Nat
    BY <1>1
  <2> HIDE DEF T
  <2> QED
    BY <2>1, LeastExists
<1>3. PICK i \in own : m = Len(recs) - i
  OBVIOUS
<1>4. ASSUME NEW j \in own PROVE i >= j
  <2>1. m <= Len(recs) - j /\ m = Len(recs) - i
    BY <1>1, <1>2, <1>3
  <2>2. i \in 1 .. Len(recs) /\ j \in 1 .. Len(recs) /\ Len(recs) \in Nat
    BY <1>1
  <2> HIDE DEF own, T
  <2> QED
    BY <2>1, <2>2
<1> QED
  BY <1>3, <1>4 DEF Max

\* What counts of a session is a title or the absence of one.
LEMMA LatestIsTitle ==
  ASSUME NEW recs \in Seq(Record), NEW s, RecordsOf(recs, s) # {}
  PROVE  Latest(recs, s) \in AllTitles \cup {None}
<1>1. Max(RecordsOf(recs, s)) \in DOMAIN recs
  BY LatestIs DEF RecordsOf
<1>2. recs[Max(RecordsOf(recs, s))] \in Record
  BY <1>1
<1> QED
  BY <1>2 DEF Latest, Record

\* Session by session, the last record counts, or what is in the snapshot.
LEMMA OverlayIs ==
  ASSUME NEW base, NEW recs, NEW s \in Sessions
  PROVE  /\ RecordsOf(recs, s) = {} => Overlay(base, recs)[s] = base[s]
         /\ RecordsOf(recs, s) # {} => Overlay(base, recs)[s] = Latest(recs, s)
BY DEF Overlay

\* Snapshot and log make a list.
LEMMA OverlayIsList ==
  ASSUME NEW base \in Entries, NEW recs \in Seq(Record)
  PROVE  Overlay(base, recs) \in Entries
BY LatestIsTitle DEF Overlay, Entries

\* Nothing is recorded in an empty log.
LEMMA OverlayNothing ==
  ASSUME NEW base \in Entries
  PROVE  /\ Overlay(base, <<>>) = base
         /\ \A s \in Sessions : RecordsOf(<<>>, s) = {}
BY DEF Overlay, RecordsOf, Entries

\* One more record is the last of its session and changes no other's.
LEMMA OneMoreRecord ==
  ASSUME NEW recs \in Seq(Record), NEW r \in Record, NEW s \in Sessions
  PROVE  /\ s = r.s => /\ RecordsOf(Append(recs, r), s) # {}
                       /\ Latest(Append(recs, r), s) = r.title
         /\ s # r.s => /\ RecordsOf(Append(recs, r), s) = RecordsOf(recs, s)
                       /\ RecordsOf(recs, s) # {} => Latest(Append(recs, r), s) = Latest(recs, s)
<1> DEFINE more == Append(recs, r)
           n == Len(recs) + 1
<1>1. /\ DOMAIN more = 1 .. n /\ more[n] = r /\ n \in Nat
      /\ \A i \in 1 .. Len(recs) : more[i] = recs[i]
      /\ DOMAIN recs = 1 .. Len(recs)
  OBVIOUS
<1>2. CASE s = r.s
  <2>1. n \in RecordsOf(more, s) /\ \A i \in RecordsOf(more, s) : i \in 1 .. n
    BY <1>1, <1>2 DEF RecordsOf
  <2>2. Max(RecordsOf(more, s)) = n
    BY <1>1, <2>1 DEF Max
  <2> QED
    BY <1>1, <1>2, <2>1, <2>2 DEF Latest
<1>3. CASE s # r.s
  <2>1. RecordsOf(more, s) = RecordsOf(recs, s)
    BY <1>1, <1>3 DEF RecordsOf
  <2>2. ASSUME RecordsOf(recs, s) # {} PROVE Latest(more, s) = Latest(recs, s)
    <3>1. Max(RecordsOf(recs, s)) \in 1 .. Len(recs)
      BY <1>1, <2>2, LatestIs DEF RecordsOf
    <3> QED
      BY <1>1, <2>1, <3>1 DEF Latest
  <2> QED
    BY <1>3, <2>1, <2>2
<1> QED
  BY <1>2, <1>3

\* What an append and a failing append do to a log.
LogShape(log) ==
  /\ ~log.exists => log.recs = <<>>
  /\ log.open \/ log.garbled => log.stray

\* The fields of a record.
LEMMA RecordIs ==
  ASSUME NEW s \in Sessions, NEW title \in AllTitles \cup {None}
  PROVE  /\ [s |-> s, title |-> title] \in Record
         /\ [s |-> s, title |-> title].s = s /\ [s |-> s, title |-> title].title = title
BY DEF Record

\* An append leaves a log with one more record.
LEMMA Appended ==
  ASSUME NEW log \in LogFile, LogShape(log), NEW s \in Sessions,
         NEW title \in AllTitles \cup {None}
  PROVE  /\ Extend(log, s, title) \in LogFile /\ LogShape(Extend(log, s, title))
         /\ Extend(log, s, title).exists
         /\ Extend(log, s, title).stray = log.stray
         /\ Extend(log, s, title).recs = Append(log.recs, [s |-> s, title |-> title])
<1> DEFINE more == Append(log.recs, [s |-> s, title |-> title])
           bad == log.garbled \/ log.open
           a == [log EXCEPT !.exists = TRUE]
           b == [a EXCEPT !.recs = more]
           c == [b EXCEPT !.open = FALSE]
           d == [c EXCEPT !.garbled = bad]
<1>1. more \in Seq(Record) /\ bad \in BOOLEAN
  BY RecordIs DEF LogFile
<1>2. Extend(log, s, title) = d
  BY DEF Extend
<1> HIDE DEF more, bad
<1>3. a \in LogFile /\ a.exists /\ a.recs = log.recs /\ a.stray = log.stray
  BY DEF LogFile
<1> HIDE DEF a
<1>4. b \in LogFile /\ b.exists /\ b.recs = more /\ b.stray = log.stray
  BY <1>1, <1>3 DEF LogFile
<1> HIDE DEF b
<1>5. c \in LogFile /\ c.exists /\ c.recs = more /\ c.stray = log.stray /\ ~c.open
  BY <1>4 DEF LogFile
<1> HIDE DEF c
<1>6. d \in LogFile /\ d.exists /\ d.recs = more /\ d.stray = log.stray /\ ~d.open
      /\ d.garbled = bad
  BY <1>1, <1>5 DEF LogFile
<1> HIDE DEF d
<1>7. bad => log.stray
  BY DEF bad, LogShape
<1> QED
  BY <1>2, <1>6, <1>7 DEF LogShape, more

\* A failing append leaves the log as it was or with the record, and then marks it.
LEMMA AppendFailed ==
  ASSUME NEW log \in LogFile, LogShape(log), NEW s \in Sessions,
         NEW title \in AllTitles \cup {None}, NEW new \in FailedExtend(log, s, title)
  PROVE  /\ new \in LogFile /\ LogShape(new)
         /\ log.exists => new.exists
         /\ \/ new = log
            \/ /\ new.exists /\ new.stray
               /\ new.recs = Append(log.recs, [s |-> s, title |-> title])
<1> DEFINE ext == Extend(log, s, title)
           full == [ext EXCEPT !.stray = TRUE]
<1>1. /\ ext \in LogFile /\ LogShape(ext) /\ ext.exists
      /\ ext.recs = Append(log.recs, [s |-> s, title |-> title])
  BY Appended
<1>2. /\ full \in LogFile /\ full.exists /\ full.stray /\ full.recs = ext.recs
  <2> HIDE DEF ext
  <2> QED
    BY <1>1 DEF LogFile
<1>3. new \in {log, full, [full EXCEPT !.open = TRUE],
               [full EXCEPT !.open = TRUE, !.garbled = TRUE]}
  BY DEF FailedExtend
<1> HIDE DEF full, ext
<1> QED
  BY <1>1, <1>2, <1>3 DEF LogFile, LogShape

-----------------------------------------------------------------------------
(* The invariant *)

\* What a restart would read of a session from snapshot and log.
Replayed(s) == Overlay(snapshot, live.recs)[s]

Rotation == {"rotate", "swap", "clean"}
Ending   == {"compact", "done"} \cup Rotation
Working  == {"create", "update", "touch", "delete"}

\* The steps each operation has.
OpShape ==
  /\ op.kind = "none" => op.pc = "idle"
  /\ op.kind = "create" => op.pc \in {"log", "publish", "undo"} \cup Ending
  /\ op.kind \in {"update", "touch"} => op.pc \in {"log", "metadata"} \cup Ending
  /\ op.kind = "delete" => op.pc \in {"log", "remove", "undo"} \cup Ending
  /\ op.kind = "recover" => op.pc \in {"down", "snapshot", "audit"} \cup Rotation
  /\ op.kind \in {"create", "update", "touch"} => op.title \in AllTitles
  /\ op.kind = "delete" /\ op.pc = "undo" => op.title # None
  /\ op.rollback => op.kind \in {"create", "delete"}

\* An index in need of repair has nothing under way; a healthy one that is up has no marker.
HealthShape ==
  /\ op.kind # "none" => health = "Healthy"
  /\ Up /\ health = "Healthy" => ~marker

\* While the log is rotated the snapshot is the list.
Rotating ==
  /\ op.pc \in Rotation => snapshot = entries
  /\ op.pc = "swap" => live = NoLog
  /\ op.pc = "clean" => live = EmptyLog
  /\ Up /\ op.pc \in Steps \ {"idle", "log", "swap", "clean"} => live.exists

\* The stages each creation and deletion has, and what a client in the index call has to do
\* with the operation there.
CallFits(c) ==
  /\ calls[c].kind = "none" <=> calls[c].at = "idle"
  /\ calls[c].kind = "create" => calls[c].at # "list" /\ calls[c].title # None
  /\ calls[c].at = "back" => calls[c].title # None
  /\ calls[c].at = "index" => /\ op.kind \in {"create", "delete"} /\ op.s = calls[c].s
                              /\ op.rollback <=> op.kind # calls[c].kind
  /\ ~Up => calls[c].at = "idle"

CallShape ==
  /\ \A c \in Clients : CallFits(c)
  /\ \A c, d \in Clients : calls[c].at = "index" /\ calls[d].at = "index" => c = d
  /\ op.kind \in {"create", "delete"} => \E c \in Clients : calls[c].at = "index"

Shape ==
  TypeOK /\ OpShape /\ HealthShape /\ LogShape(live) /\ LogShape(bak) /\ Rotating /\ CallShape

\* Unless a session is crossed, one client at most has a creation or deletion of it under way.
Alone ==
  \A c, d \in Clients :
    c # d /\ calls[c].kind # "none" /\ calls[d].kind # "none" /\ calls[c].s = calls[d].s
    => calls[c].s \in crossed

\* A session is listed if and only if it has its directory.
Listed(s) == dirs[s] # Husk => (entries[s] = None <=> dirs[s] = None)

Gone == {None, Husk}

\* What a creation or deletion under way finds, and leaves, between its index calls.
CallProgress(c) ==
  calls[c].s \notin crossed =>
    /\ calls[c].kind = "delete" => calls[c].title # None
    /\ calls[c].at = "list" => entries[calls[c].s] # None
    /\ calls[c].kind = "delete" /\ calls[c].at \in {"row", "back"} =>
         entries[calls[c].s] = None /\ dirs[calls[c].s] \in Gone
    /\ calls[c].kind = "create" /\ calls[c].at \in {"row", "back"} =>
         entries[calls[c].s] # None /\ dirs[calls[c].s] \in AllTitles

CallsProgress == \A c \in Clients : CallProgress(c)

\* What the operation under way has done so far.
Progress ==
  /\ op.pc = "log" => /\ op.kind = "create" /\ op.s \notin crossed => entries[op.s] = None
                      /\ op.kind = "update" => entries[op.s] # None
                      /\ op.kind \in {"touch", "delete"} => entries[op.s] = op.title
  /\ op.pc = "metadata" => /\ entries[op.s] # None
                           /\ op.kind = "touch" => entries[op.s] = op.title
                           /\ Replayed(op.s) = op.title
  /\ Up /\ op.pc \in {"publish", "remove", "undo"} \cup Ending =>
       entries[op.s] = Logged /\ Replayed(op.s) = Logged
  /\ op.s \notin crossed =>
       /\ op.kind = "delete" => op.title # None
       /\ op.pc = "publish" => dirs[op.s] \in Gone
       /\ op.pc = "remove" => dirs[op.s] # None
       /\ op.pc = "undo" => /\ op.kind = "create" => dirs[op.s] \in Gone
                            /\ op.kind = "delete" => dirs[op.s] # None
  /\ Up /\ op.pc \in Ending =>
       /\ op.kind \in {"create", "update"} => dirs[op.s] = op.title
       /\ op.kind = "touch" => dirs[op.s] \in AllTitles
       /\ op.kind = "delete" => dirs[op.s] \in Gone

\* Recovery takes a title from the list or the log only for a session with a directory.
Fits(s, title) == OnDisk(s) = None \/ title = None \/ title \in allowed[s]

\* Whatever a session is read from, its client may find it so.
AllowedFor(s) ==
  /\ OnDisk(s) \in allowed[s]
  /\ Up => entries[s] \in allowed[s]
  /\ Fits(s, entries[s])
  /\ Fits(s, Replayed(s))
  /\ (~live.exists \/ op.pc = "clean") /\ RecordsOf(bak.recs, s) # {} =>
       Fits(s, Latest(bak.recs, s))

Allowed ==
  /\ op.kind \in Working => op.title \in allowed[op.s]
  /\ op.kind \in {"create", "delete"} => None \in allowed[op.s]
  /\ \A s \in Sessions : AllowedFor(s)

\* A session with a creation or deletion under way may be found with it or without.
CallsAllowed ==
  \A c \in Clients :
    calls[c].kind # "none" => {None, calls[c].title} \subseteq allowed[calls[c].s]

\* Snapshot and log give the list, and so would the backup if it became the log again.
LogIsList ==
  /\ (Up \/ op.pc = "audit") /\ health = "Healthy" /\ ~live.stray =>
       \A s \in Sessions : ~(op.pc = "metadata" /\ s = op.s) => Replayed(s) = entries[s]
  /\ Up /\ op.pc \in {"swap", "clean"} /\ ~bak.stray =>
       \A s \in Sessions : RecordsOf(bak.recs, s) # {} => Latest(bak.recs, s) = entries[s]

AllListed ==
  Up /\ health = "Healthy" =>
    \A s \in Sessions \ crossed :
      ~(s = op.s /\ op.pc \in {"publish", "remove", "undo"}) => Listed(s)

\* One fault at most, none of them in a compaction, and no crash.
FewFaults ==
  /\ health = "Healthy" /\ count.faults <= 1 /\ count.compactFaults = 0 /\ count.crashes = 0

\* A session of which a creation, or a deletion, is under way.
InCreation(s) == \E c \in Clients : calls[c].kind = "create" /\ calls[c].s = s
InDeletion(s) == \E c \in Clients : calls[c].kind = "delete" /\ calls[c].s = s

\* The row of a session comes last in a creation and goes last in a deletion.
RowFits(s) ==
  /\ ~InCreation(s) /\ (entries[s] # None \/ InDeletion(s)) => s \in rows
  /\ count.faults = 0 /\ ~InDeletion(s) /\ s \in rows => entries[s] # None /\ ~InCreation(s)

RowsKept ==
  /\ \A s \in Sessions \ crossed : RowFits(s)
  /\ op.rollback => count.faults = 1
  /\ \A c \in Clients : calls[c].at = "back" => count.faults = 1
  /\ op.pc = "undo" /\ op.s \notin crossed /\ op.kind = "delete" => ~op.rollback

CrashFree == count.crashes = 0 => Up

Sound ==
  /\ Shape /\ Alone /\ CallsProgress /\ Progress /\ Allowed /\ CallsAllowed
  /\ LogIsList /\ AllListed /\ CrashFree /\ (FewFaults => RowsKept)

-----------------------------------------------------------------------------
(* The shape of the state *)

\* What the constants and the fixed values of the model are.
LEMMA Constants ==
  /\ None \notin AllTitles /\ Husk \notin AllTitles /\ None # Husk /\ Untitled \in AllTitles
  /\ Titles \subseteq AllTitles
  /\ Nobody \in Entries /\ NoLog \in LogFile /\ EmptyLog \in LogFile
  /\ NoLog.recs = <<>> /\ EmptyLog.recs = <<>> /\ ~NoLog.exists /\ EmptyLog.exists
  /\ LogShape(NoLog) /\ LogShape(EmptyLog) /\ ~NoLog.stray /\ ~EmptyLog.stray
<1>1. /\ None \notin AllTitles /\ Husk \notin AllTitles /\ None # Husk /\ Untitled \in AllTitles
      /\ Titles \subseteq AllTitles /\ Nobody \in Entries
  BY DEF None, Husk, AllTitles, Untitled, Nobody, Entries
<1>2. NoLog \in LogFile /\ NoLog.recs = <<>> /\ ~NoLog.exists /\ ~NoLog.stray
      /\ ~NoLog.open /\ ~NoLog.garbled
  BY DEF NoLog, LogFile
<1>3. EmptyLog \in LogFile /\ EmptyLog.recs = <<>> /\ EmptyLog.exists /\ ~EmptyLog.stray
      /\ ~EmptyLog.open /\ ~EmptyLog.garbled
  BY <1>2 DEF EmptyLog, LogFile
<1> QED
  BY <1>1, <1>2, <1>3 DEF LogShape

\* The records for a gateway that is idle and for one that starts.
LEMMA IdleIs ==
  /\ Idle \in Operation /\ Idle.kind = "none" /\ Idle.pc = "idle" /\ ~Idle.rollback
  /\ Down \in Operation /\ Down.kind = "recover" /\ Down.pc = "down" /\ ~Down.rollback
<1>1. (CHOOSE s \in Sessions : TRUE) \in Sessions
  OBVIOUS
<1>2. Idle \in Operation /\ Idle.kind = "none" /\ Idle.pc = "idle" /\ ~Idle.rollback
  BY <1>1 DEF Idle, Operation, Steps
<1>3. /\ [Idle EXCEPT !.kind = "recover"] \in Operation
      /\ [Idle EXCEPT !.kind = "recover"].kind = "recover"
      /\ ~[Idle EXCEPT !.kind = "recover"].rollback
  BY <1>2 DEF Operation
<1>4. Down \in Operation /\ Down.kind = "recover" /\ Down.pc = "down" /\ ~Down.rollback
  BY <1>3 DEF Down, Operation, Steps
<1> QED
  BY <1>2, <1>4

\* A client without a call.
LEMMA NoCallIs ==
  /\ NoCall \in Call /\ NoCall.kind = "none" /\ NoCall.at = "idle" /\ NoCall.s \in Sessions
<1>1. (CHOOSE s \in Sessions : TRUE) \in Sessions
  OBVIOUS
<1> QED
  BY <1>1 DEF NoCall, Call

\* An operation goes on: only its step changes.
LEMMA Goes ==
  ASSUME op \in Operation, NEW pc \in Steps, Goto(pc)
  PROVE  /\ op' \in Operation /\ op'.pc = pc
         /\ op'.kind = op.kind /\ op'.s = op.s /\ op'.title = op.title
         /\ op'.rollback = op.rollback
         /\ UNCHANGED <<calls, crossed>>
BY DEF Goto, Operation

\* An operation or a recovery that fails ends.
LEMMA Ends ==
  ASSUME Fail
  PROVE  /\ op' \in Operation /\ ~op'.rollback
         /\ Up => op'.kind = "none" /\ op'.pc = "idle"
         /\ ~Up => op'.kind = "recover" /\ op'.pc = "down"
         /\ crossed' = crossed /\ calls' = Answered
         /\ \A c \in Clients : calls'[c] = IF calls[c].at = "index" THEN NoCall ELSE calls[c]
BY IdleIs DEF Fail, Answered

\* The counters.
Counts == [ops : Nat, faults : Nat, compactFaults : Nat, crashes : Nat]

\* What failing calls count, in a compaction and elsewhere.
LEMMA FaultsAre ==
  ASSUME count \in Counts, NEW n \in Nat, Faults(n)
  PROVE  /\ count' \in Counts /\ count'.faults = count.faults + n /\ count'.crashes = count.crashes
         /\ count'.compactFaults = count.compactFaults
BY DEF Counts, Faults

LEMMA CompactionFailedIs ==
  ASSUME count \in Counts, NEW n \in Nat, CompactionFailed(n)
  PROVE  /\ count' \in Counts /\ count'.crashes = count.crashes
         /\ count'.compactFaults = count.compactFaults + 1
<1> DEFINE c == [count EXCEPT !.faults = @ + n]
<1>1. c \in Counts /\ c.crashes = count.crashes /\ c.compactFaults = count.compactFaults
  BY DEF Counts
<1>2. count' = [c EXCEPT !.compactFaults = @ + 1]
  BY DEF CompactionFailed
<1> HIDE DEF c
<1> QED
  BY <1>1, <1>2 DEF Counts

\* A call for a repair.
LEMMA RepairIs ==
  ASSUME count \in Counts, MarkRepair
  PROVE  /\ health' = "RepairRequired" /\ count' \in Counts
         /\ count'.crashes = count.crashes
         /\ marker' = TRUE \/ marker' = marker
BY FaultsAre DEF MarkRepair

LEMMA RollbackFailsIs ==
  ASSUME count \in Counts, RollbackFails
  PROVE  /\ count' \in Counts /\ count'.crashes = count.crashes
         /\ count'.compactFaults = count.compactFaults + 1
         /\ Up => health' = "RepairRequired" /\ (marker' = TRUE \/ marker' = marker)
         /\ ~Up => health' = health /\ marker' = marker
BY CompactionFailedIs DEF RollbackFails

\* What recovery loads is a list.
LEMMA LoadedIs ==
  ASSUME TypeOK
  PROVE  /\ Loaded \in Entries /\ Scanned \in Entries
         /\ \A s \in Sessions : OnDisk(s) \in AllTitles \cup {None}
         /\ Overlay(snapshot, live.recs) \in Entries
<1>1. snapshot \in Entries /\ live.recs \in Seq(Record)
  BY DEF TypeOK, LogFile
<1>2. \A s \in Sessions : OnDisk(s) \in AllTitles \cup {None}
  BY Constants DEF TypeOK, OnDisk
<1>3. Scanned \in Entries
  BY <1>2 DEF Scanned, Entries
<1> QED
  BY <1>1, <1>2, <1>3, OverlayIsList DEF Loaded

LEMMA AuditedIs ==
  ASSUME TypeOK, NEW s \in Sessions
  PROVE  Audited(entries, s) \in AllTitles \cup {None}
BY LoadedIs DEF Audited, TypeOK, Entries

\* What is recorded is a title or the absence of one.
LEMMA TitlesRecorded ==
  ASSUME TypeOK
  PROVE  /\ op.s \in Sessions /\ op.title \in AllTitles \cup {None}
         /\ Logged \in AllTitles \cup {None} /\ Restored \in AllTitles \cup {None}
         /\ live \in LogFile /\ bak \in LogFile /\ op \in Operation /\ count \in Counts
BY DEF TypeOK, Operation, Logged, Restored, Counts

\* What an append that fails leaves of the log, whatever the record.
LEMMA LiveFailed ==
  ASSUME Shape, NEW s \in Sessions, NEW title \in AllTitles \cup {None},
         live' \in FailedExtend(live, s, title)
  PROVE  /\ live' \in LogFile /\ LogShape(live')
         /\ live.exists => live'.exists
         /\ \/ live' = live
            \/ /\ live'.exists /\ live'.stray
               /\ live'.recs = Append(live.recs, [s |-> s, title |-> title])
<1>1. live \in LogFile /\ LogShape(live)
  BY DEF Shape, TypeOK
<1> QED
  BY <1>1, AppendFailed

\* What Begin sets and what it leaves.
LEMMA BeginIs ==
  ASSUME TypeOK, NEW kind \in {"create", "update", "touch"}, NEW s \in Sessions,
         NEW title \in AllTitles, Begin(kind, s, title)
  PROVE  /\ op.kind = "none" /\ health = "Healthy"
         /\ op' \in Operation /\ op'.kind = kind /\ op'.s = s /\ op'.title = title
         /\ op'.pc = "log" /\ ~op'.rollback
         /\ count' \in Counts /\ count'.faults = count.faults
         /\ count'.compactFaults = count.compactFaults /\ count'.crashes = count.crashes
         /\ UNCHANGED <<entries, health, marker, snapshot, live, bak, dirs, rows, crossed>>
<1>1. op' \in Operation /\ op'.kind = kind /\ op'.s = s /\ op'.title = title
      /\ op'.pc = "log" /\ ~op'.rollback
  BY DEF Begin, Operation, Steps
<1>2. count' \in Counts /\ count'.faults = count.faults
      /\ count'.compactFaults = count.compactFaults /\ count'.crashes = count.crashes
  BY DEF Begin, TypeOK, Counts
<1> QED
  BY <1>1, <1>2 DEF Begin, Ready, LockFree, Healthy, disk

\* A call of a client moves on.
LEMMA CallMoves ==
  ASSUME TypeOK, NEW c \in Clients, NEW at \in UnderWay,
         calls' = [calls EXCEPT ![c].at = at]
  PROVE  /\ calls' \in [Clients -> Call]
         /\ calls'[c].at = at /\ calls'[c].kind = calls[c].kind
         /\ calls'[c].s = calls[c].s /\ calls'[c].title = calls[c].title
         /\ \A d \in Clients \ {c} : calls'[d] = calls[d]
<1> DEFINE m == [calls[c] EXCEPT !.at = at]
<1>1. calls \in [Clients -> Call] /\ calls[c] \in Call
  BY DEF TypeOK
<1>2. m \in Call /\ m.at = at /\ m.kind = calls[c].kind /\ m.s = calls[c].s
      /\ m.title = calls[c].title
  BY <1>1 DEF Call
<1>3. calls' = [calls EXCEPT ![c] = m]
  OBVIOUS
<1> HIDE DEF m
<1> QED
  BY <1>1, <1>2, <1>3

\* What Lock sets and what it leaves.
LEMMA LockIs ==
  ASSUME TypeOK, NEW c \in Clients, NEW kind \in {"create", "delete"},
         NEW title \in AllTitles \cup {None}, Lock(c, kind, title)
  PROVE  /\ op.kind = "none" /\ health = "Healthy"
         /\ op' \in Operation /\ op'.kind = kind /\ op'.s = calls[c].s /\ op'.title = title
         /\ op'.pc = "log" /\ (op'.rollback <=> calls[c].at = "back")
         /\ calls' \in [Clients -> Call]
         /\ calls'[c].at = "index" /\ calls'[c].kind = calls[c].kind
         /\ calls'[c].s = calls[c].s /\ calls'[c].title = calls[c].title
         /\ \A d \in Clients \ {c} : calls'[d] = calls[d]
         /\ UNCHANGED <<entries, health, marker, snapshot, live, bak, dirs, rows, crossed,
                        allowed, count>>
<1>1. calls[c].s \in Sessions /\ "index" \in UnderWay
  BY DEF TypeOK, Call, UnderWay
<1>2. /\ op' = [kind |-> kind, s |-> calls[c].s, title |-> title, pc |-> "log",
                rollback |-> calls[c].at = "back"]
      /\ calls' = [calls EXCEPT ![c].at = "index"]
      /\ UNCHANGED <<entries, health, marker, snapshot, live, bak, dirs, rows, crossed,
                     allowed, count>>
      /\ op.kind = "none" /\ health = "Healthy"
  BY DEF Lock, LockFree, Healthy, disk
<1>3. op' \in Operation /\ op'.kind = kind /\ op'.s = calls[c].s /\ op'.title = title
      /\ op'.pc = "log" /\ (op'.rollback <=> calls[c].at = "back")
  BY <1>1, <1>2 DEF Operation, Steps
<1> QED
  BY <1>1, <1>2, <1>3, CallMoves

\* An index call takes the lock.
Locks ==
  \/ \E s \in Sessions : BeginTouch(s) \/ \E t \in Titles : BeginUpdate(s, t)
  \/ \E c \in Clients : \/ \E s \in Sessions : BeginCreate(c, s)
                        \/ BeginDelete(c) \/ BeginRollback(c)

\* The kinds of calls that take it.
LEMMA TouchIs ==
  ASSUME TypeOK, NEW s \in Sessions, BeginTouch(s) \/ \E t \in Titles : BeginUpdate(s, t)
  PROVE  /\ \E kind \in {"update", "touch"}, title \in AllTitles :
              /\ Begin(kind, s, title)
              /\ kind = "touch" => title = entries[s]
              /\ kind = "touch" => allowed' = allowed
              /\ kind = "update" => allowed' = [allowed EXCEPT ![s] = @ \cup {title}]
         /\ calls' = calls /\ entries[s] # None
<1>1. entries[s] # None => entries[s] \in AllTitles
  BY DEF TypeOK, Entries
<1>2. CASE BeginTouch(s)
  BY <1>1, <1>2 DEF BeginTouch
<1>3. CASE \E t \in Titles : BeginUpdate(s, t)
  BY <1>3, Constants DEF BeginUpdate
<1> QED
  BY <1>2, <1>3

LEMMA CreateIs ==
  ASSUME TypeOK, NEW c \in Clients, NEW s \in Sessions, BeginCreate(c, s)
  PROVE  /\ Begin("create", s, Untitled) /\ Untitled \in AllTitles
         /\ calls[c] = NoCall /\ allowed[s] = {None} /\ dirs[s] = None
         /\ s \notin rows /\ s \notin crossed
         /\ \A d \in Clients : ~(calls[d].s = s /\ calls[d].at \in UnderWay)
         /\ calls' \in [Clients -> Call]
         /\ calls'[c].kind = "create" /\ calls'[c].s = s /\ calls'[c].title = Untitled
         /\ calls'[c].at = "index"
         /\ \A d \in Clients \ {c} : calls'[d] = calls[d]
         /\ allowed' = [allowed EXCEPT ![s] = {None, Untitled}]
<1> DEFINE call == [kind |-> "create", s |-> s, title |-> Untitled, at |-> "index"]
<1>1. call \in Call /\ call.kind = "create" /\ call.s = s /\ call.title = Untitled
      /\ call.at = "index"
  BY Constants DEF Call, UnderWay
<1>2. calls' = [calls EXCEPT ![c] = call] /\ calls \in [Clients -> Call]
  BY DEF BeginCreate, TypeOK
<1>3. \A d \in Clients : ~(calls[d].s = s /\ calls[d].at \in UnderWay)
  BY DEF BeginCreate, CallsAt
<1> HIDE DEF call
<1>4. /\ calls' \in [Clients -> Call] /\ calls'[c] = call
      /\ \A d \in Clients \ {c} : calls'[d] = calls[d]
  BY <1>1, <1>2
<1> QED
  BY <1>1, <1>3, <1>4, Constants DEF BeginCreate

LEMMA DeleteIs ==
  ASSUME TypeOK, NEW c \in Clients, BeginDelete(c) \/ BeginRollback(c)
  PROVE  \E kind \in {"create", "delete"}, title \in AllTitles \cup {None} :
           /\ Lock(c, kind, title)
           /\ calls[c].at \in {"list", "back"}
           /\ calls[c].at = "list" => kind = "delete"
           /\ calls[c].at = "back" => kind # calls[c].kind \/ calls[c].kind = "none"
           /\ kind = "delete" => title = entries[calls[c].s]
           /\ kind = "create" => title = calls[c].title
<1>1. calls[c].s \in Sessions /\ entries[calls[c].s] \in AllTitles \cup {None}
      /\ calls[c].title \in AllTitles \cup {None}
  BY DEF TypeOK, Call, Entries
<1>2. CASE BeginDelete(c)
  BY <1>1, <1>2 DEF BeginDelete
<1>3. CASE BeginRollback(c)
  BY <1>1, <1>3 DEF BeginRollback
<1> QED
  BY <1>2, <1>3

\* What all of them have in common.
LEMMA LocksAre ==
  ASSUME TypeOK, \A c \in Clients : CallFits(c), Locks
  PROVE  /\ op.kind = "none" /\ health = "Healthy"
         /\ op' \in Operation /\ op'.kind \in Working
         /\ op'.kind # "delete" => op'.title \in AllTitles
         /\ op'.pc = "log" /\ (op'.rollback => op'.kind \in {"create", "delete"})
         /\ count' \in Counts /\ count'.faults = count.faults
         /\ count'.compactFaults = count.compactFaults /\ count'.crashes = count.crashes
         /\ calls' \in [Clients -> Call]
         /\ UNCHANGED <<entries, health, marker, snapshot, live, bak, dirs, rows, crossed>>
<1>0. calls \in [Clients -> Call] /\ count \in Counts
  BY DEF TypeOK, Counts
<1>1. ASSUME NEW s \in Sessions, BeginTouch(s) \/ \E t \in Titles : BeginUpdate(s, t)
      PROVE  /\ \E kind \in {"update", "touch"}, title \in AllTitles : Begin(kind, s, title)
             /\ calls' = calls
  <2>1. PICK kind \in {"update", "touch"}, title \in AllTitles : Begin(kind, s, title)
    BY <1>1, TouchIs
  <2>2. calls' = calls
    BY <1>1, TouchIs
  <2> QED
    BY <2>1, <2>2
<1>2. ASSUME NEW c \in Clients, NEW s \in Sessions, BeginCreate(c, s)
      PROVE  /\ \E title \in AllTitles : Begin("create", s, title)
             /\ calls' \in [Clients -> Call]
  BY <1>2, CreateIs
<1>3. ASSUME NEW c \in Clients, BeginDelete(c) \/ BeginRollback(c)
      PROVE  \E kind \in {"create", "delete"}, title \in AllTitles \cup {None} :
               /\ Lock(c, kind, title)
               /\ kind = "create" => title \in AllTitles
  <2>1. PICK kind \in {"create", "delete"}, title \in AllTitles \cup {None} :
          /\ Lock(c, kind, title)
          /\ calls[c].at \in {"list", "back"}
          /\ calls[c].at = "list" => kind = "delete"
          /\ kind = "create" => title = calls[c].title
    BY <1>3, DeleteIs
  <2>2. calls[c].at = "back" => calls[c].title # None
    BY DEF CallFits
  <2> QED
    BY <2>1, <2>2
<1>4. CASE \E s \in Sessions : BeginTouch(s) \/ \E t \in Titles : BeginUpdate(s, t)
  BY <1>0, <1>1, <1>4, BeginIs DEF Working
<1>5. CASE \E c \in Clients, s \in Sessions : BeginCreate(c, s)
  BY <1>2, <1>5, BeginIs DEF Working
<1>6. CASE \E c \in Clients : BeginDelete(c) \/ BeginRollback(c)
  BY <1>0, <1>3, <1>6, LockIs DEF Working
<1> QED
  BY <1>4, <1>5, <1>6 DEF Locks

\* A creation or deletion goes on, or ends, outside the index.
Elsewhere ==
  \E c \in Clients : \/ StoreRow(c) \/ StoreRowFails(c) \/ Refuse(c)
                     \/ \E s \in Sessions : ReadList(c, s)

\* What they leave.
LEMMA ElsewhereIs ==
  ASSUME TypeOK, Elsewhere
  PROVE  /\ UNCHANGED <<entries, health, marker, snapshot, live, bak, dirs, op>>
         /\ count' \in Counts /\ count'.crashes = count.crashes
         /\ count'.compactFaults = count.compactFaults
         /\ count'.faults \in {count.faults, count.faults + 1}
<1>1. ASSUME NEW c \in Clients, StoreRow(c) \/ Refuse(c)
      PROVE  UNCHANGED <<entries, health, marker, snapshot, live, bak, dirs, op, count>>
  BY <1>1 DEF StoreRow, Refuse, disk
<1>2. ASSUME NEW c \in Clients, StoreRowFails(c)
      PROVE  UNCHANGED <<entries, health, marker, snapshot, live, bak, dirs, op>> /\ Faults(1)
  BY <1>2 DEF StoreRowFails
<1>3. ASSUME NEW c \in Clients, NEW s \in Sessions, ReadList(c, s)
      PROVE  /\ UNCHANGED <<entries, health, marker, snapshot, live, bak, dirs, op>>
             /\ count' = [count EXCEPT !.ops = @ + 1]
  BY <1>3 DEF ReadList, disk
<1>4. count \in Counts
  BY DEF TypeOK, Counts
<1>5. count' = [count EXCEPT !.ops = @ + 1] =>
        /\ count' \in Counts /\ count'.crashes = count.crashes
        /\ count'.compactFaults = count.compactFaults /\ count'.faults = count.faults
  BY <1>4 DEF Counts
<1>6. Faults(1) => /\ count' \in Counts /\ count'.faults = count.faults + 1
                   /\ count'.crashes = count.crashes
                   /\ count'.compactFaults = count.compactFaults
  BY <1>4, FaultsAre
<1> QED
  BY <1>1, <1>2, <1>3, <1>4, <1>5, <1>6 DEF Elsewhere

\* The end of an index call.
LEMMA ReleaseIs ==
  ASSUME TypeOK, Release
  PROVE  /\ op.pc = "done" /\ op'.kind = "none" /\ op'.pc = "idle" /\ ~op'.rollback
         /\ op' \in Operation /\ calls' \in [Clients -> Call]
         /\ \A c \in Clients :
              /\ calls[c].at # "index" => calls'[c] = calls[c]
              /\ calls[c].at = "index" /\ op.rollback => calls'[c] = NoCall
              /\ calls[c].at = "index" /\ ~op.rollback =>
                   /\ calls'[c].at = "row" /\ calls'[c].kind = calls[c].kind
                   /\ calls'[c].s = calls[c].s /\ calls'[c].title = calls[c].title
         /\ UNCHANGED <<entries, health, marker, snapshot, live, bak, dirs, rows, crossed, count>>
<1>1. calls \in [Clients -> Call]
  BY DEF TypeOK
<1> DEFINE m(c) == [calls[c] EXCEPT !.at = "row"]
<1>2. ASSUME NEW c \in Clients
      PROVE  /\ m(c) \in Call /\ m(c).at = "row" /\ m(c).kind = calls[c].kind
             /\ m(c).s = calls[c].s /\ m(c).title = calls[c].title
  BY <1>1 DEF Call, UnderWay, Outside
<1>3. calls' = [c \in Clients |-> IF calls[c].at # "index" THEN calls[c]
                                  ELSE IF op.rollback THEN NoCall ELSE m(c)]
  BY DEF Release
<1> HIDE DEF m
<1>4. calls' \in [Clients -> Call]
  BY <1>1, <1>2, <1>3, NoCallIs
<1> QED
  BY <1>2, <1>3, <1>4, IdleIs DEF Release, At, disk

\* The answer to a client in the index call, and the end of it.
LEMMA FailTypes ==
  ASSUME TypeOK, Fail
  PROVE  op' \in Operation /\ calls' \in [Clients -> Call] /\ crossed' \subseteq Sessions
<1>1. Answered \in [Clients -> Call]
  BY NoCallIs DEF TypeOK, Answered
<1> QED
  BY <1>1, Ends DEF TypeOK

\* Every step keeps the types.
LEMMA TypeStep == Shape /\ [Next]_vars => TypeOK'
<1> SUFFICES ASSUME Shape, [Next]_vars PROVE TypeOK'
  OBVIOUS
<1>1. ASSUME Locks PROVE TypeOK'
  <2>1. allowed \in [Sessions -> SUBSET (AllTitles \cup {None})]
    BY DEF Shape, TypeOK
  <2>2. ASSUME NEW s \in Sessions, BeginTouch(s) \/ \E t \in Titles : BeginUpdate(s, t)
        PROVE  allowed' \in [Sessions -> SUBSET (AllTitles \cup {None})]
    <3>1. CASE BeginTouch(s)
      BY <2>1, <3>1 DEF BeginTouch
    <3>2. ASSUME NEW t \in Titles, BeginUpdate(s, t)
          PROVE  allowed' \in [Sessions -> SUBSET (AllTitles \cup {None})]
      <4>1. allowed[s] \cup {t} \in SUBSET (AllTitles \cup {None})
        BY <2>1, Constants
      <4> QED
        BY <2>1, <3>2, <4>1 DEF BeginUpdate
    <3> QED
      BY <2>2, <3>1, <3>2
  <2>3. ASSUME NEW c \in Clients, NEW s \in Sessions, BeginCreate(c, s)
        PROVE  allowed' \in [Sessions -> SUBSET (AllTitles \cup {None})]
    <3>1. {None, Untitled} \in SUBSET (AllTitles \cup {None})
      BY Constants
    <3> QED
      BY <2>1, <2>3, <3>1 DEF BeginCreate
  <2>4. ASSUME NEW c \in Clients, BeginDelete(c) \/ BeginRollback(c)
        PROVE  allowed' \in [Sessions -> SUBSET (AllTitles \cup {None})]
    BY <2>1, <2>4 DEF BeginDelete, BeginRollback, Lock
  <2>5. allowed' \in [Sessions -> SUBSET (AllTitles \cup {None})]
    BY <1>1, <2>2, <2>3, <2>4 DEF Locks
  <2> QED
    BY <1>1, <2>5, LocksAre DEF Shape, CallShape, TypeOK, Counts
<1>2. ASSUME NEW s \in Sessions, AuditSession(s) PROVE TypeOK'
  BY <1>2, AuditedIs, Appended DEF AuditSession, Shape, TypeOK, Entries
<1>3. ASSUME NEW s \in Sessions, AuditFails(s) PROVE TypeOK'
  <2>1. live' \in LogFile
    BY <1>3, AuditedIs, LiveFailed DEF AuditFails, Shape
  <2>2. op' \in Operation /\ calls' \in [Clients -> Call] /\ crossed' \subseteq Sessions
        /\ count' \in Counts
    BY <1>3, TitlesRecorded, FailTypes, FaultsAre DEF AuditFails, Shape
  <2> QED
    BY <1>3, <2>1, <2>2 DEF AuditFails, Shape, TypeOK, Counts
<1>4. ASSUME AppendLog PROVE TypeOK'
  BY <1>4, TitlesRecorded, Appended, Goes
     DEF AppendLog, AfterLog, Shape, TypeOK, Entries, Steps
<1>5. ASSUME AppendLogFails PROVE TypeOK'
  <2>1. live' \in LogFile
    BY <1>5, TitlesRecorded, LiveFailed DEF AppendLogFails, Shape
  <2>2. op' \in Operation /\ calls' \in [Clients -> Call] /\ crossed' \subseteq Sessions
        /\ count' \in Counts
    BY <1>5, TitlesRecorded, FailTypes, FaultsAre DEF AppendLogFails, Shape
  <2> QED
    BY <1>5, <2>1, <2>2 DEF AppendLogFails, Shape, TypeOK, Counts
<1>6. ASSUME Publish PROVE TypeOK'
  BY <1>6, TitlesRecorded, Goes DEF Publish, Shape, TypeOK, Steps
<1>7. ASSUME PublishFails PROVE TypeOK'
  BY <1>7, Goes, FaultsAre DEF PublishFails, Shape, TypeOK, Counts, Steps, disk
<1>8. ASSUME WriteMetadata PROVE TypeOK'
  BY <1>8, TitlesRecorded, Goes DEF WriteMetadata, Shape, TypeOK, Entries, Steps
<1>9. ASSUME MetadataFails PROVE TypeOK'
  <2>1. op' \in Operation /\ calls' \in [Clients -> Call] /\ crossed' \subseteq Sessions
        /\ count' \in Counts /\ health' = "RepairRequired"
        /\ (marker' = TRUE \/ marker' = marker)
    BY <1>9, TitlesRecorded, FailTypes, RepairIs DEF MetadataFails, Shape
  <2>2. dirs' \in [Sessions -> AllTitles \cup {None, Husk}]
    BY <1>9, TitlesRecorded DEF MetadataFails, Shape, TypeOK
  <2> QED
    BY <1>9, <2>1, <2>2 DEF MetadataFails, Shape, TypeOK, Counts
<1>10. ASSUME RemoveDirectory PROVE TypeOK'
  BY <1>10, Goes DEF RemoveDirectory, Shape, TypeOK, Steps
<1>11. ASSUME RemoveFails PROVE TypeOK'
  <2>1. op' \in Operation /\ calls' \in [Clients -> Call] /\ crossed' \subseteq Sessions
    <3>1. Fail => op' \in Operation /\ calls' \in [Clients -> Call] /\ crossed' \subseteq Sessions
      BY FailTypes DEF Shape
    <3>2. Goto("undo") => op' \in Operation /\ calls' = calls /\ crossed' = crossed
      BY TitlesRecorded, Goes DEF Shape, Steps
    <3> QED
      BY <1>11, <3>1, <3>2 DEF RemoveFails, Shape, TypeOK
  <2>2. count' \in Counts
    BY <1>11, TitlesRecorded, FaultsAre DEF RemoveFails, Shape
  <2>3. dirs' \in [Sessions -> AllTitles \cup {None, Husk}]
    BY <1>11, TitlesRecorded DEF RemoveFails, Shape, TypeOK
  <2> QED
    BY <1>11, <2>1, <2>2, <2>3 DEF RemoveFails, Shape, TypeOK, Counts
<1>12. ASSUME NEW s \in Sessions, LateAppend(s) PROVE TypeOK'
  BY <1>12 DEF LateAppend, Shape, TypeOK
<1>13. ASSUME Undo PROVE TypeOK'
  <2>1. op' \in Operation /\ calls' \in [Clients -> Call] /\ crossed' \subseteq Sessions
    BY <1>13, FailTypes DEF Undo, Shape
  <2>2. live' \in LogFile
    BY <1>13, TitlesRecorded, Appended DEF Undo, Undone, Shape
  <2>3. allowed' \in [Sessions -> SUBSET (AllTitles \cup {None})]
    <3>1. allowed \in [Sessions -> SUBSET (AllTitles \cup {None})] /\ op.s \in Sessions
      BY TitlesRecorded DEF Shape, TypeOK
    <3>2. {None} \subseteq AllTitles \cup {None}
          /\ allowed[op.s] \ {None} \subseteq AllTitles \cup {None}
      BY <3>1
    <3> QED
      BY <1>13, <3>1, <3>2 DEF Undo
  <2>4. entries' \in Entries
    BY <1>13, TitlesRecorded DEF Undo, Shape, TypeOK, Entries
  <2> QED
    BY <1>13, <2>1, <2>2, <2>3, <2>4 DEF Undo, Shape, TypeOK
<1>14. ASSUME UndoFails PROVE TypeOK'
  <2>1. op' \in Operation /\ calls' \in [Clients -> Call] /\ crossed' \subseteq Sessions
        /\ count' \in Counts /\ health' = "RepairRequired"
        /\ (marker' = TRUE \/ marker' = marker)
    BY <1>14, TitlesRecorded, FailTypes, RepairIs DEF UndoFails, Shape
  <2>2. live' \in LogFile
    BY <1>14, TitlesRecorded, LiveFailed DEF UndoFails, Shape
  <2> QED
    BY <1>14, <2>1, <2>2 DEF UndoFails, Shape, TypeOK, Counts
<1>15. ASSUME Compact PROVE TypeOK'
  BY <1>15, Goes DEF Compact, NewSnapshot, Shape, TypeOK, Steps
<1>16. ASSUME SnapshotFails PROVE TypeOK'
  <2>1. op' \in Operation /\ calls' \in [Clients -> Call] /\ crossed' \subseteq Sessions
        /\ count' \in Counts
    BY <1>16, TitlesRecorded, FailTypes, CompactionFailedIs DEF SnapshotFails, Shape
  <2> QED
    BY <1>16, <2>1 DEF SnapshotFails, Shape, TypeOK, NewSnapshot, Counts
<1>17. ASSUME RotateLog PROVE TypeOK'
  BY <1>17, Constants, Goes DEF RotateLog, Shape, TypeOK, Steps
<1>18. ASSUME RotateFails PROVE TypeOK'
  <2>1. op' \in Operation /\ calls' \in [Clients -> Call] /\ crossed' \subseteq Sessions
        /\ count' \in Counts
    BY <1>18, TitlesRecorded, FailTypes, CompactionFailedIs DEF RotateFails, Shape
  <2> QED
    BY <1>18, <2>1, Constants DEF RotateFails, Shape, TypeOK, Counts
<1>19. ASSUME SwapLog PROVE TypeOK'
  BY <1>19, Constants, Goes DEF SwapLog, Shape, TypeOK, Steps
<1>20. ASSUME SwapFails PROVE TypeOK'
  <2>1. op' \in Operation /\ calls' \in [Clients -> Call] /\ crossed' \subseteq Sessions
        /\ count' \in Counts
        /\ health' \in {"Healthy", "RepairRequired"} /\ marker' \in BOOLEAN
    BY <1>20, TitlesRecorded, FailTypes, CompactionFailedIs, RollbackFailsIs
       DEF SwapFails, Shape, TypeOK
  <2> QED
    BY <1>20, <2>1, Constants DEF SwapFails, Shape, TypeOK, Counts
<1>21. ASSUME RemoveBackup PROVE TypeOK'
  BY <1>21, Constants, Goes DEF RemoveBackup, AfterClean, Shape, TypeOK, Steps
<1>22. ASSUME RemoveBackupFails PROVE TypeOK'
  <2>1. op' \in Operation /\ calls' \in [Clients -> Call] /\ crossed' \subseteq Sessions
        /\ count' \in Counts
        /\ health' \in {"Healthy", "RepairRequired"} /\ marker' \in BOOLEAN
    BY <1>22, TitlesRecorded, FailTypes, CompactionFailedIs, RollbackFailsIs
       DEF RemoveBackupFails, Shape, TypeOK
  <2> QED
    BY <1>22, <2>1, Constants DEF RemoveBackupFails, Shape, TypeOK, Counts
<1>23. ASSUME Release PROVE TypeOK'
  <2>1. allowed' \in [Sessions -> SUBSET (AllTitles \cup {None})]
    <3>1. allowed \in [Sessions -> SUBSET (AllTitles \cup {None})] /\ op.s \in Sessions
      BY TitlesRecorded DEF Shape, TypeOK
    <3>2. Certain \subseteq AllTitles \cup {None}
      BY TitlesRecorded DEF Certain, Shape
    <3> QED
      BY <1>23, <3>1, <3>2 DEF Release
  <2> QED
    BY <1>23, <2>1, ReleaseIs DEF Shape, TypeOK
<1>24. ASSUME Elsewhere PROVE TypeOK'
  <2>1. /\ calls \in [Clients -> Call] /\ rows \subseteq Sessions /\ crossed \subseteq Sessions
        /\ allowed \in [Sessions -> SUBSET (AllTitles \cup {None})] /\ entries \in Entries
        /\ \A c \in Clients : calls[c] \in Call /\ calls[c].s \in Sessions
    BY DEF Shape, TypeOK, Call
  <2>2. ASSUME NEW c \in Clients, StoreRow(c)
        PROVE  /\ calls' \in [Clients -> Call] /\ rows' \subseteq Sessions
               /\ crossed' \subseteq Sessions
               /\ allowed' \in [Sessions -> SUBSET (AllTitles \cup {None})]
    <3>1. Promised(c) \subseteq AllTitles \cup {None}
      BY <2>1 DEF Promised
    <3> QED
      BY <2>1, <2>2, <3>1, NoCallIs DEF StoreRow
  <2>3. ASSUME NEW c \in Clients, StoreRowFails(c)
        PROVE  /\ calls' \in [Clients -> Call] /\ rows' \subseteq Sessions
               /\ crossed' \subseteq Sessions
               /\ allowed' \in [Sessions -> SUBSET (AllTitles \cup {None})]
    <3>1. Rollback(c) \in Call
      BY <2>1, NoCallIs DEF Rollback, Call, UnderWay, Outside
    <3> QED
      BY <2>1, <2>3, <3>1 DEF StoreRowFails
  <2>4. ASSUME NEW c \in Clients, Refuse(c)
        PROVE  /\ calls' \in [Clients -> Call] /\ rows' \subseteq Sessions
               /\ crossed' \subseteq Sessions
               /\ allowed' \in [Sessions -> SUBSET (AllTitles \cup {None})]
    BY <2>1, <2>4, NoCallIs DEF Refuse, disk
  <2>5. ASSUME NEW c \in Clients, NEW s \in Sessions, ReadList(c, s)
        PROVE  /\ calls' \in [Clients -> Call] /\ rows' \subseteq Sessions
               /\ crossed' \subseteq Sessions
               /\ allowed' \in [Sessions -> SUBSET (AllTitles \cup {None})]
    <3>1. [kind |-> "delete", s |-> s, title |-> entries[s], at |-> "list"] \in Call
      BY <2>1 DEF Call, UnderWay, Outside, Entries
    <3>2. allowed[s] \cup {None} \in SUBSET (AllTitles \cup {None})
      BY <2>1
    <3> QED
      BY <2>1, <2>5, <3>1, <3>2 DEF ReadList, disk
  <2>6. /\ calls' \in [Clients -> Call] /\ rows' \subseteq Sessions /\ crossed' \subseteq Sessions
        /\ allowed' \in [Sessions -> SUBSET (AllTitles \cup {None})]
    BY <1>24, <2>2, <2>3, <2>4, <2>5 DEF Elsewhere
  <2> QED
    BY <1>24, <2>6, ElsewhereIs DEF Shape, TypeOK, Counts
<1>25. ASSUME Crash PROVE TypeOK'
  <2>1. live' \in LogFile
    BY <1>25, TitlesRecorded, LiveFailed DEF Crash, Shape
  <2>2. op' \in Operation
    BY <1>25, IdleIs DEF Crash
  <2>3. count' \in Counts
    BY <1>25, TitlesRecorded DEF Crash, Counts, Shape
  <2>4. calls' \in [Clients -> Call]
    BY <1>25, NoCallIs DEF Crash
  <2> QED
    BY <1>25, <2>1, <2>2, <2>3, <2>4, Constants DEF Crash, Shape, TypeOK, Counts
<1>26. ASSUME Load PROVE TypeOK'
  BY <1>26, LoadedIs, Goes DEF Load, Shape, TypeOK, Steps, disk
<1>27. ASSUME RebuildSnapshot PROVE TypeOK'
  BY <1>27, Goes DEF RebuildSnapshot, NewSnapshot, Shape, TypeOK, Steps
<1>28. ASSUME Serve PROVE TypeOK'
  BY <1>28, IdleIs DEF Serve, Shape, TypeOK
<1>29. CASE UNCHANGED vars
  BY <1>29 DEF vars, disk, Shape, TypeOK
<1> QED
  BY <1>1, <1>2, <1>3, <1>4, <1>5, <1>6, <1>7, <1>8, <1>9, <1>10, <1>11, <1>12, <1>13,
     <1>14, <1>15, <1>16, <1>17, <1>18, <1>19, <1>20, <1>21, <1>22, <1>23, <1>24, <1>25,
     <1>26, <1>27, <1>28, <1>29
     DEF Next, TitleFromEvent, Locks, Elsewhere

\* Every step keeps operations to their steps, and the health to what is under way.
LEMMA ShapeOfOpStep == Shape /\ [Next]_vars => OpShape' /\ HealthShape'
<1> SUFFICES ASSUME Shape, [Next]_vars PROVE OpShape' /\ HealthShape'
  OBVIOUS
<1>1. ASSUME Locks PROVE OpShape' /\ HealthShape'
  BY <1>1, LocksAre DEF Shape, CallShape, OpShape, HealthShape, Up, Working
<1>2. ASSUME NEW s \in Sessions, AuditSession(s) PROVE OpShape' /\ HealthShape'
  BY <1>2 DEF AuditSession, Shape, OpShape, HealthShape, Up
<1>3. ASSUME NEW s \in Sessions, AuditFails(s) PROVE OpShape' /\ HealthShape'
  BY <1>3, Ends DEF AuditFails, Shape, OpShape, HealthShape, Up, Working
<1>4. ASSUME AppendLog PROVE OpShape' /\ HealthShape'
  BY <1>4, TitlesRecorded, Goes
     DEF AppendLog, At, AfterLog, Shape, OpShape, HealthShape, Up, Rotation, Steps
<1>5. ASSUME AppendLogFails PROVE OpShape' /\ HealthShape'
  BY <1>5, Ends DEF AppendLogFails, Shape, OpShape, HealthShape, Up, Working
<1>6. ASSUME Publish PROVE OpShape' /\ HealthShape'
  BY <1>6, TitlesRecorded, Goes
     DEF Publish, At, Shape, OpShape, HealthShape, Up, Ending, Rotation, Steps
<1>7. ASSUME PublishFails PROVE OpShape' /\ HealthShape'
  BY <1>7, TitlesRecorded, Goes
     DEF PublishFails, At, Shape, OpShape, HealthShape, Up, Ending, Rotation, Steps, disk
<1>8. ASSUME WriteMetadata PROVE OpShape' /\ HealthShape'
  BY <1>8, TitlesRecorded, Goes
     DEF WriteMetadata, At, Shape, OpShape, HealthShape, Up, Ending, Rotation, Steps
<1>9. ASSUME MetadataFails PROVE OpShape' /\ HealthShape'
  BY <1>9, TitlesRecorded, Ends, RepairIs
     DEF MetadataFails, At, Shape, OpShape, HealthShape, Up, Working, Rotation
<1>10. ASSUME RemoveDirectory PROVE OpShape' /\ HealthShape'
  BY <1>10, TitlesRecorded, Goes
     DEF RemoveDirectory, At, Shape, OpShape, HealthShape, Up, Ending, Rotation, Steps
<1>11. ASSUME RemoveFails PROVE OpShape' /\ HealthShape'
  <2>1. op.pc = "remove" /\ op.kind = "delete" /\ health' = health /\ marker' = marker /\ Up
    BY <1>11, TitlesRecorded
       DEF RemoveFails, At, Shape, OpShape, Up, Ending, Rotation, Operation
  <2>2. CASE op.title = None
    BY <1>11, <2>1, <2>2, Ends DEF RemoveFails, Shape, OpShape, HealthShape, Up, Working
  <2>3. CASE op.title # None
    BY <1>11, <2>1, <2>3, TitlesRecorded, Goes
       DEF RemoveFails, Shape, OpShape, HealthShape, Up, Ending, Rotation, Steps
  <2> QED
    BY <2>2, <2>3
<1>12. ASSUME NEW s \in Sessions, LateAppend(s) PROVE OpShape' /\ HealthShape'
  BY <1>12 DEF LateAppend, Shape, OpShape, HealthShape, Up
<1>13. ASSUME Undo PROVE OpShape' /\ HealthShape'
  BY <1>13, Ends DEF Undo, Shape, OpShape, HealthShape, Up, Working
<1>14. ASSUME UndoFails PROVE OpShape' /\ HealthShape'
  BY <1>14, TitlesRecorded, Ends, RepairIs
     DEF UndoFails, At, Shape, OpShape, HealthShape, Up, Working, Rotation
<1>15. ASSUME Compact PROVE OpShape' /\ HealthShape'
  BY <1>15, TitlesRecorded, Goes
     DEF Compact, At, Shape, OpShape, HealthShape, Up, Ending, Rotation, Steps
<1>16. ASSUME SnapshotFails PROVE OpShape' /\ HealthShape'
  BY <1>16, Ends DEF SnapshotFails, Shape, OpShape, HealthShape, Up, Working
<1>17. ASSUME RotateLog PROVE OpShape' /\ HealthShape'
  BY <1>17, TitlesRecorded, Goes
     DEF RotateLog, At, Shape, OpShape, HealthShape, Up, Ending, Rotation, Steps
<1>18. ASSUME RotateFails PROVE OpShape' /\ HealthShape'
  BY <1>18, Ends DEF RotateFails, Shape, OpShape, HealthShape, Up, Working
<1>19. ASSUME SwapLog PROVE OpShape' /\ HealthShape'
  BY <1>19, TitlesRecorded, Goes
     DEF SwapLog, At, Shape, OpShape, HealthShape, Up, Ending, Rotation, Steps
<1>20. ASSUME SwapFails PROVE OpShape' /\ HealthShape'
  <2>1. op' \in Operation /\ op'.kind = (IF Up THEN "none" ELSE "recover")
        /\ op'.pc = (IF Up THEN "idle" ELSE "down") /\ ~op'.rollback
    BY <1>20, Ends DEF SwapFails
  <2>2. (health' = health /\ marker' = marker)
        \/ (Up /\ health' = "RepairRequired")
    BY <1>20, TitlesRecorded, RollbackFailsIs DEF SwapFails, Shape
  <2> QED
    BY <2>1, <2>2 DEF Shape, OpShape, HealthShape, Up, Working
<1>21. ASSUME RemoveBackup PROVE OpShape' /\ HealthShape'
  BY <1>21, TitlesRecorded, Goes
     DEF RemoveBackup, At, AfterClean, Shape, OpShape, HealthShape, Up, Ending, Steps
<1>22. ASSUME RemoveBackupFails PROVE OpShape' /\ HealthShape'
  <2>1. op' \in Operation /\ op'.kind = (IF Up THEN "none" ELSE "recover")
        /\ op'.pc = (IF Up THEN "idle" ELSE "down") /\ ~op'.rollback
    BY <1>22, Ends DEF RemoveBackupFails
  <2>2. (health' = health /\ marker' = marker)
        \/ (Up /\ health' = "RepairRequired")
    BY <1>22, TitlesRecorded, RollbackFailsIs DEF RemoveBackupFails, Shape
  <2> QED
    BY <2>1, <2>2 DEF Shape, OpShape, HealthShape, Up, Working
<1>23. ASSUME Release PROVE OpShape' /\ HealthShape'
  BY <1>23, ReleaseIs DEF Shape, OpShape, HealthShape, Up, Working, Ending, Rotation
<1>24. ASSUME Elsewhere PROVE OpShape' /\ HealthShape'
  BY <1>24, ElsewhereIs DEF Shape, OpShape, HealthShape, Up
<1>25. ASSUME Crash PROVE OpShape' /\ HealthShape'
  BY <1>25, IdleIs DEF Crash, OpShape, HealthShape, Up, Working
<1>26. ASSUME Load PROVE OpShape' /\ HealthShape'
  BY <1>26, TitlesRecorded, Goes
     DEF Load, At, Shape, OpShape, HealthShape, Up, Ending, Rotation, Steps, disk
<1>27. ASSUME RebuildSnapshot PROVE OpShape' /\ HealthShape'
  BY <1>27, TitlesRecorded, Goes
     DEF RebuildSnapshot, At, Shape, OpShape, HealthShape, Up, Ending, Rotation, Steps
<1>28. ASSUME Serve PROVE OpShape' /\ HealthShape'
  BY <1>28, IdleIs DEF Serve, OpShape, HealthShape, Working
<1>29. CASE UNCHANGED vars
  BY <1>29 DEF vars, disk, Shape, OpShape, HealthShape, Up
<1> QED
  BY <1>1, <1>2, <1>3, <1>4, <1>5, <1>6, <1>7, <1>8, <1>9, <1>10, <1>11, <1>12, <1>13,
     <1>14, <1>15, <1>16, <1>17, <1>18, <1>19, <1>20, <1>21, <1>22, <1>23, <1>24, <1>25,
     <1>26, <1>27, <1>28, <1>29
     DEF Next, TitleFromEvent, Locks, Elsewhere

\* Every step keeps the logs well-formed.
LEMMA LogShapeStep == Shape /\ [Next]_vars => LogShape(live)' /\ LogShape(bak)'
<1> SUFFICES ASSUME Shape, [Next]_vars PROVE LogShape(live)' /\ LogShape(bak)'
  OBVIOUS
<1>1. ASSUME Locks PROVE LogShape(live)' /\ LogShape(bak)'
  BY <1>1, LocksAre DEF Shape, CallShape
<1>2. ASSUME NEW s \in Sessions, AuditSession(s) PROVE LogShape(live)' /\ LogShape(bak)'
  BY <1>2, TitlesRecorded, AuditedIs, Appended DEF AuditSession, Shape
<1>3. ASSUME NEW s \in Sessions, AuditFails(s) PROVE LogShape(live)' /\ LogShape(bak)'
  BY <1>3, AuditedIs, LiveFailed DEF AuditFails, Shape
<1>4. ASSUME AppendLog PROVE LogShape(live)' /\ LogShape(bak)'
  BY <1>4, TitlesRecorded, Appended DEF AppendLog, Shape
<1>5. ASSUME AppendLogFails PROVE LogShape(live)' /\ LogShape(bak)'
  BY <1>5, TitlesRecorded, LiveFailed DEF AppendLogFails, Shape
<1>6. ASSUME Publish PROVE LogShape(live)' /\ LogShape(bak)'
  BY <1>6 DEF Publish, Shape
<1>7. ASSUME PublishFails PROVE LogShape(live)' /\ LogShape(bak)'
  BY <1>7 DEF PublishFails, Shape, disk
<1>8. ASSUME WriteMetadata PROVE LogShape(live)' /\ LogShape(bak)'
  BY <1>8 DEF WriteMetadata, Shape
<1>9. ASSUME MetadataFails PROVE LogShape(live)' /\ LogShape(bak)'
  BY <1>9 DEF MetadataFails, Shape
<1>10. ASSUME RemoveDirectory PROVE LogShape(live)' /\ LogShape(bak)'
  BY <1>10 DEF RemoveDirectory, Shape
<1>11. ASSUME RemoveFails PROVE LogShape(live)' /\ LogShape(bak)'
  BY <1>11 DEF RemoveFails, Shape
<1>12. ASSUME NEW s \in Sessions, LateAppend(s) PROVE LogShape(live)' /\ LogShape(bak)'
  BY <1>12 DEF LateAppend, Shape
<1>13. ASSUME Undo PROVE LogShape(live)' /\ LogShape(bak)'
  BY <1>13, TitlesRecorded, Appended DEF Undo, Undone, Shape
<1>14. ASSUME UndoFails PROVE LogShape(live)' /\ LogShape(bak)'
  BY <1>14, TitlesRecorded, LiveFailed DEF UndoFails, Shape
<1>15. ASSUME Compact PROVE LogShape(live)' /\ LogShape(bak)'
  BY <1>15 DEF Compact, Shape
<1>16. ASSUME SnapshotFails PROVE LogShape(live)' /\ LogShape(bak)'
  BY <1>16 DEF SnapshotFails, Shape
<1>17. ASSUME RotateLog PROVE LogShape(live)' /\ LogShape(bak)'
  BY <1>17, Constants DEF RotateLog, Shape
<1>18. ASSUME RotateFails PROVE LogShape(live)' /\ LogShape(bak)'
  BY <1>18, Constants DEF RotateFails, Shape
<1>19. ASSUME SwapLog PROVE LogShape(live)' /\ LogShape(bak)'
  BY <1>19, Constants DEF SwapLog, Shape
<1>20. ASSUME SwapFails PROVE LogShape(live)' /\ LogShape(bak)'
  BY <1>20, Constants DEF SwapFails, Shape
<1>21. ASSUME RemoveBackup PROVE LogShape(live)' /\ LogShape(bak)'
  BY <1>21, Constants DEF RemoveBackup, Shape
<1>22. ASSUME RemoveBackupFails PROVE LogShape(live)' /\ LogShape(bak)'
  BY <1>22, Constants DEF RemoveBackupFails, Shape
<1>23. ASSUME Release PROVE LogShape(live)' /\ LogShape(bak)'
  BY <1>23, ReleaseIs DEF Shape
<1>24. ASSUME Elsewhere PROVE LogShape(live)' /\ LogShape(bak)'
  BY <1>24, ElsewhereIs DEF Shape
<1>25. ASSUME Crash PROVE LogShape(live)' /\ LogShape(bak)'
  BY <1>25, TitlesRecorded, LiveFailed DEF Crash, Shape
<1>26. ASSUME Load PROVE LogShape(live)' /\ LogShape(bak)'
  BY <1>26 DEF Load, Shape, disk
<1>27. ASSUME RebuildSnapshot PROVE LogShape(live)' /\ LogShape(bak)'
  BY <1>27 DEF RebuildSnapshot, Shape
<1>28. ASSUME Serve PROVE LogShape(live)' /\ LogShape(bak)'
  BY <1>28 DEF Serve, Shape
<1>29. CASE UNCHANGED vars
  BY <1>29 DEF vars, disk, Shape, LogShape
<1> QED
  BY <1>1, <1>2, <1>3, <1>4, <1>5, <1>6, <1>7, <1>8, <1>9, <1>10, <1>11, <1>12, <1>13,
     <1>14, <1>15, <1>16, <1>17, <1>18, <1>19, <1>20, <1>21, <1>22, <1>23, <1>24, <1>25,
     <1>26, <1>27, <1>28, <1>29
     DEF Next, TitleFromEvent, Locks, Elsewhere

\* Every step keeps what holds while the log is rotated.
LEMMA RotatingStep == Shape /\ [Next]_vars => Rotating'
<1> SUFFICES ASSUME Shape, [Next]_vars PROVE Rotating'
  OBVIOUS
<1>1. ASSUME Locks PROVE Rotating'
  BY <1>1, LocksAre DEF Shape, CallShape, Rotating, Rotation
<1>2. ASSUME NEW s \in Sessions, AuditSession(s) PROVE Rotating'
  BY <1>2, TitlesRecorded, AuditedIs, Appended DEF AuditSession, At, Shape, Rotating, Rotation
<1>3. ASSUME NEW s \in Sessions, AuditFails(s) PROVE Rotating'
  BY <1>3, Ends DEF AuditFails, Rotating, Up, Rotation
<1>4. ASSUME AppendLog PROVE Rotating'
  BY <1>4, TitlesRecorded, Appended, Goes
     DEF AppendLog, AfterLog, Shape, Rotating, Rotation, Steps
<1>5. ASSUME AppendLogFails PROVE Rotating'
  BY <1>5, Ends DEF AppendLogFails, Rotating, Up, Rotation
<1>6. ASSUME Publish PROVE Rotating'
  BY <1>6, TitlesRecorded, Goes DEF Publish, At, Shape, Rotating, Up, Rotation, Steps
<1>7. ASSUME PublishFails PROVE Rotating'
  BY <1>7, TitlesRecorded, Goes
     DEF PublishFails, At, Shape, Rotating, Up, Rotation, Steps, disk
<1>8. ASSUME WriteMetadata PROVE Rotating'
  BY <1>8, TitlesRecorded, Goes DEF WriteMetadata, At, Shape, Rotating, Up, Rotation, Steps
<1>9. ASSUME MetadataFails PROVE Rotating'
  BY <1>9, Ends DEF MetadataFails, Rotating, Up, Rotation
<1>10. ASSUME RemoveDirectory PROVE Rotating'
  BY <1>10, TitlesRecorded, Goes DEF RemoveDirectory, At, Shape, Rotating, Up, Rotation, Steps
<1>11. ASSUME RemoveFails PROVE Rotating'
  <2>1. CASE op.title = None
    BY <1>11, <2>1, Ends DEF RemoveFails, Rotating, Up, Rotation
  <2>2. CASE op.title # None
    BY <1>11, <2>2, TitlesRecorded, Goes
       DEF RemoveFails, At, Shape, Rotating, Up, Rotation, Steps
  <2> QED
    BY <2>1, <2>2
<1>12. ASSUME NEW s \in Sessions, LateAppend(s) PROVE Rotating'
  BY <1>12 DEF LateAppend, Shape, Rotating, Up
<1>13. ASSUME Undo PROVE Rotating'
  BY <1>13, Ends DEF Undo, Rotating, Up, Rotation
<1>14. ASSUME UndoFails PROVE Rotating'
  BY <1>14, Ends DEF UndoFails, Rotating, Up, Rotation
<1>15. ASSUME Compact PROVE Rotating'
  BY <1>15, TitlesRecorded, Goes
     DEF Compact, At, NewSnapshot, Shape, Rotating, Up, Rotation, Steps
<1>16. ASSUME SnapshotFails PROVE Rotating'
  BY <1>16, Ends DEF SnapshotFails, Rotating, Up, Rotation
<1>17. ASSUME RotateLog PROVE Rotating'
  BY <1>17, TitlesRecorded, Goes DEF RotateLog, At, Shape, Rotating, Rotation, Steps
<1>18. ASSUME RotateFails PROVE Rotating'
  BY <1>18, Ends DEF RotateFails, Rotating, Up, Rotation
<1>19. ASSUME SwapLog PROVE Rotating'
  BY <1>19, TitlesRecorded, Goes DEF SwapLog, At, Shape, Rotating, Rotation, Steps
<1>20. ASSUME SwapFails PROVE Rotating'
  BY <1>20, Ends DEF SwapFails, Rotating, Up, Rotation
<1>21. ASSUME RemoveBackup PROVE Rotating'
  BY <1>21, Constants, TitlesRecorded, Goes
     DEF RemoveBackup, At, AfterClean, Shape, Rotating, Rotation, Steps
<1>22. ASSUME RemoveBackupFails PROVE Rotating'
  BY <1>22, Ends DEF RemoveBackupFails, Rotating, Up, Rotation
<1>23. ASSUME Release PROVE Rotating'
  BY <1>23, ReleaseIs DEF Shape, Rotating, Up, Rotation
<1>24. ASSUME Elsewhere PROVE Rotating'
  BY <1>24, ElsewhereIs DEF Shape, Rotating, Up
<1>25. ASSUME Crash PROVE Rotating'
  BY <1>25, IdleIs DEF Crash, Rotating, Up, Rotation
<1>26. ASSUME Load PROVE Rotating'
  BY <1>26, TitlesRecorded, Goes DEF Load, At, Shape, Rotating, Up, Rotation, Steps, disk
<1>27. ASSUME RebuildSnapshot PROVE Rotating'
  BY <1>27, TitlesRecorded, Goes
     DEF RebuildSnapshot, At, NewSnapshot, Shape, Rotating, Up, Steps
<1>28. ASSUME Serve PROVE Rotating'
  BY <1>28, IdleIs DEF Serve, Rotating, Rotation
<1>29. CASE UNCHANGED vars
  BY <1>29 DEF vars, disk, Shape, Rotating, Up
<1> QED
  BY <1>1, <1>2, <1>3, <1>4, <1>5, <1>6, <1>7, <1>8, <1>9, <1>10, <1>11, <1>12, <1>13,
     <1>14, <1>15, <1>16, <1>17, <1>18, <1>19, <1>20, <1>21, <1>22, <1>23, <1>24, <1>25,
     <1>26, <1>27, <1>28, <1>29
     DEF Next, TitleFromEvent, Locks, Elsewhere

\* How a step moves the calls of the clients and the operation in the index.
LEMMA CallsMove ==
  ASSUME Shape, [Next]_vars
  PROVE  \/ Locks \/ Elsewhere \/ Release \/ Crash \/ Serve \/ Fail
         \/ /\ UNCHANGED <<calls, crossed>>
            /\ op'.kind = op.kind /\ op'.s = op.s /\ op'.rollback = op.rollback
<1> DEFINE Still == /\ UNCHANGED <<calls, crossed>>
                    /\ op'.kind = op.kind /\ op'.s = op.s /\ op'.rollback = op.rollback
<1>1. ASSUME NEW s \in Sessions, AuditSession(s) \/ LateAppend(s) PROVE Still
  BY <1>1 DEF AuditSession, LateAppend
<1>2. ASSUME NEW s \in Sessions, AuditFails(s) PROVE Fail
  BY <1>2 DEF AuditFails
<1>3. \A pc \in Steps : Goto(pc) => Still
  BY TitlesRecorded, Goes DEF Shape
<1>4. ASSUME AppendLog \/ Publish \/ PublishFails \/ WriteMetadata \/ RemoveDirectory
      PROVE  Still
  BY <1>3, <1>4
     DEF AppendLog, AfterLog, Publish, PublishFails, WriteMetadata, RemoveDirectory, Steps
<1>5. ASSUME Compact \/ RotateLog \/ SwapLog \/ RemoveBackup \/ Load \/ RebuildSnapshot
      PROVE  Still
  BY <1>3, <1>5
     DEF Compact, RotateLog, SwapLog, RemoveBackup, AfterClean, Load, RebuildSnapshot, Steps
<1>6. ASSUME AppendLogFails \/ MetadataFails \/ Undo \/ UndoFails \/ SnapshotFails
             \/ RotateFails \/ SwapFails \/ RemoveBackupFails
      PROVE  Fail
  BY <1>6 DEF AppendLogFails, MetadataFails, Undo, UndoFails, SnapshotFails, RotateFails,
              SwapFails, RemoveBackupFails
<1>7. ASSUME RemoveFails PROVE Still \/ Fail
  BY <1>3, <1>7 DEF RemoveFails, Steps
<1>8. CASE UNCHANGED vars
  BY <1>8 DEF vars
<1> DEFINE Moves == Locks \/ Elsewhere \/ Release \/ Crash \/ Serve \/ Fail \/ Still
<1>9. /\ \A s \in Sessions : AuditSession(s) \/ LateAppend(s) \/ AuditFails(s) => Moves
      /\ AppendLog \/ Publish \/ PublishFails \/ WriteMetadata \/ RemoveDirectory => Moves
      /\ Compact \/ RotateLog \/ SwapLog \/ RemoveBackup \/ Load \/ RebuildSnapshot => Moves
      /\ AppendLogFails \/ MetadataFails \/ Undo \/ UndoFails \/ SnapshotFails
           \/ RotateFails \/ SwapFails \/ RemoveBackupFails \/ RemoveFails => Moves
      /\ Locks \/ Elsewhere \/ Release \/ Crash \/ Serve \/ UNCHANGED vars => Moves
  BY <1>1, <1>2, <1>4, <1>5, <1>6, <1>7, <1>8
<1> HIDE DEF Still, Moves
<1>10. Moves
  BY <1>9 DEF Next, TitleFromEvent, Locks, Elsewhere
<1> QED
  BY <1>10 DEF Moves, Still

\* Once crossed, a session stays crossed.
LEMMA CrossedGrows ==
  ASSUME Elsewhere
  PROVE  crossed \subseteq crossed'
<1>1. ASSUME NEW c \in Clients, StoreRow(c) \/ StoreRowFails(c) \/ Refuse(c)
      PROVE  crossed' = crossed
  BY <1>1 DEF StoreRow, StoreRowFails, Refuse
<1>2. ASSUME NEW c \in Clients, NEW s \in Sessions, ReadList(c, s)
      PROVE  crossed \subseteq crossed'
  BY <1>2 DEF ReadList
<1> QED
  BY <1>1, <1>2 DEF Elsewhere

\* A creation or deletion that moves on outside the index, or ends there.
LEMMA ElsewhereCalls ==
  ASSUME Shape, NEW c \in Clients,
         StoreRow(c) \/ StoreRowFails(c) \/ Refuse(c) \/ \E s \in Sessions : ReadList(c, s)
  PROVE  /\ \A d \in Clients \ {c} : calls'[d] = calls[d]
         /\ \/ StoreRow(c) /\ calls'[c] = NoCall /\ calls[c].at = "row" /\ crossed' = crossed
            \/ /\ StoreRowFails(c) /\ calls[c].at = "row" /\ crossed' = crossed
               /\ \/ calls'[c] = NoCall /\ calls[c].title = None
                  \/ /\ calls'[c].at = "back" /\ calls'[c].kind = calls[c].kind
                     /\ calls'[c].s = calls[c].s /\ calls'[c].title = calls[c].title
                     /\ calls[c].title # None
            \/ /\ Refuse(c) /\ calls'[c] = NoCall /\ calls[c].at \in {"list", "back"}
               /\ health # "Healthy" /\ crossed' = crossed
            \/ /\ calls[c] = NoCall /\ calls'[c].kind = "delete" /\ calls'[c].at = "list"
               /\ calls'[c].s \in Sessions /\ ReadList(c, calls'[c].s)
               /\ calls'[c].title = entries[calls'[c].s] /\ Up
<1>1. calls \in [Clients -> Call] /\ calls[c] \in Call
  BY DEF Shape, TypeOK
<1>2. CASE StoreRow(c)
  BY <1>1, <1>2 DEF StoreRow
<1>3. CASE StoreRowFails(c)
  <2>1. /\ calls'[c] = Rollback(c) /\ \A d \in Clients \ {c} : calls'[d] = calls[d]
        /\ calls[c].at = "row" /\ crossed' = crossed
    BY <1>1, <1>3 DEF StoreRowFails
  <2>2. CASE calls[c].title = None
    BY <1>3, <2>1, <2>2 DEF Rollback
  <2>3. CASE calls[c].title # None
    <3>1. calls'[c] = [calls[c] EXCEPT !.at = "back"]
      BY <2>1, <2>3 DEF Rollback
    <3>2. /\ calls'[c].at = "back" /\ calls'[c].kind = calls[c].kind
          /\ calls'[c].s = calls[c].s /\ calls'[c].title = calls[c].title
      BY <1>1, <3>1 DEF Call
    <3> QED
      BY <1>3, <2>1, <2>3, <3>2
  <2> QED
    BY <2>2, <2>3
<1>4. CASE Refuse(c)
  BY <1>1, <1>4 DEF Refuse, Healthy
<1>5. ASSUME NEW s \in Sessions, ReadList(c, s)
      PROVE  /\ \A d \in Clients \ {c} : calls'[d] = calls[d]
             /\ calls[c] = NoCall /\ calls'[c].kind = "delete" /\ calls'[c].at = "list"
             /\ calls'[c].s = s /\ calls'[c].title = entries[s] /\ Up
  BY <1>1, <1>5 DEF ReadList
<1> QED
  BY <1>2, <1>3, <1>4, <1>5

\* Every step keeps the stages of the calls.
LEMMA CallShapeStep == Shape /\ [Next]_vars => CallShape'
<1> SUFFICES ASSUME Shape, [Next]_vars PROVE CallShape'
  OBVIOUS
<1>1. /\ \A c \in Clients : CallFits(c) /\ calls[c] \in Call
      /\ \A c, d \in Clients : calls[c].at = "index" /\ calls[d].at = "index" => c = d
  BY DEF Shape, CallShape, TypeOK
<1>2. op.kind = "none" => \A c \in Clients : calls[c].at # "index"
  BY <1>1 DEF CallFits
<1>3. NoCall.kind = "none" /\ NoCall.at = "idle"
  BY NoCallIs
<1>4. CASE Locks
  <2>1. op.kind = "none"
    BY <1>1, <1>4, LocksAre DEF Shape
  <2>2. ASSUME NEW s \in Sessions, BeginTouch(s) \/ \E t \in Titles : BeginUpdate(s, t)
        PROVE  CallShape'
    <3>1. calls' = calls /\ op'.kind \in {"update", "touch"}
      <4>1. calls' = calls
        BY <2>2, TouchIs DEF Shape
      <4>2. PICK kind \in {"update", "touch"}, title \in AllTitles : Begin(kind, s, title)
        BY <2>2, TouchIs DEF Shape
      <4> QED
        BY <4>1, <4>2, BeginIs DEF Shape
    <3> QED
      BY <1>1, <1>2, <2>1, <3>1 DEF CallShape, CallFits, Up
  <2>3. ASSUME NEW c \in Clients, NEW s \in Sessions, BeginCreate(c, s)
        PROVE  CallShape'
    <3>1. /\ calls'[c].kind = "create" /\ calls'[c].s = s /\ calls'[c].title = Untitled
          /\ calls'[c].at = "index" /\ Untitled # None
          /\ \A d \in Clients \ {c} : calls'[d] = calls[d]
          /\ op'.kind = "create" /\ op'.s = s /\ ~op'.rollback
      BY <2>3, CreateIs, BeginIs, Constants DEF Shape
    <3> QED
      BY <1>1, <1>2, <2>1, <3>1 DEF CallShape, CallFits, Up
  <2>4. ASSUME NEW c \in Clients, BeginDelete(c) \/ BeginRollback(c)
        PROVE  CallShape'
    <3>1. PICK kind \in {"create", "delete"}, title \in AllTitles \cup {None} :
            /\ Lock(c, kind, title)
            /\ calls[c].at \in {"list", "back"}
            /\ calls[c].at = "list" => kind = "delete"
            /\ calls[c].at = "back" => kind # calls[c].kind \/ calls[c].kind = "none"
      BY <2>4, DeleteIs DEF Shape
    <3>2. /\ calls'[c].kind = calls[c].kind /\ calls'[c].s = calls[c].s
          /\ calls'[c].title = calls[c].title /\ calls'[c].at = "index"
          /\ \A d \in Clients \ {c} : calls'[d] = calls[d]
          /\ op'.kind = kind /\ op'.s = calls[c].s /\ (op'.rollback <=> calls[c].at = "back")
      BY <3>1, LockIs DEF Shape
    <3>3. /\ calls[c].kind # "none" /\ calls[c].kind \in {"none", "create", "delete"}
          /\ calls[c].at = "list" => calls[c].kind = "delete"
          /\ calls[c].kind = "create" => calls[c].title # None
      BY <1>1, <3>1 DEF CallFits, Call
    <3> QED
      BY <1>1, <1>2, <2>1, <3>1, <3>2, <3>3 DEF CallShape, CallFits, Up
  <2> QED
    BY <1>4, <2>2, <2>3, <2>4 DEF Locks
<1>5. CASE Elsewhere
  <2>1. op' = op
    BY <1>5, ElsewhereIs DEF Shape
  <2>2. PICK c \in Clients :
          StoreRow(c) \/ StoreRowFails(c) \/ Refuse(c) \/ \E s \in Sessions : ReadList(c, s)
    BY <1>5 DEF Elsewhere
  <2>3. /\ \A d \in Clients \ {c} : calls'[d] = calls[d]
        /\ \/ calls'[c] = NoCall /\ calls[c].at # "index"
           \/ /\ calls[c].at = "row" /\ calls'[c].at = "back" /\ calls'[c].kind = calls[c].kind
              /\ calls'[c].title = calls[c].title /\ calls[c].title # None
           \/ /\ calls[c] = NoCall /\ calls'[c].kind = "delete" /\ calls'[c].at = "list" /\ Up
    BY <2>2, ElsewhereCalls
  <2>4. CallFits(c)' /\ calls'[c].at # "index" /\ calls[c].at # "index"
    <3>1. CallFits(c)
      BY <1>1
    <3>2. CASE calls'[c] = NoCall
      BY <1>3, <2>3, <3>2 DEF CallFits
    <3>3. CASE calls[c].at = "row"
      BY <1>3, <2>1, <2>3, <3>1, <3>3 DEF CallFits, Up
    <3>4. CASE calls[c] = NoCall
      BY <1>3, <2>1, <2>3, <3>4 DEF CallFits, Up
    <3> QED
      BY <2>3, <3>2, <3>3, <3>4
  <2>5. ASSUME NEW d \in Clients, d # c PROVE CallFits(d)' /\ calls'[d] = calls[d]
    BY <1>1, <2>1, <2>3, <2>5 DEF CallFits, Up
  <2>6. op.kind \in {"create", "delete"} => \E d \in Clients : calls[d].at = "index"
    BY DEF Shape, CallShape
  <2> QED
    BY <1>1, <2>1, <2>4, <2>5, <2>6 DEF CallShape
<1>6. CASE Release
  <2>1. /\ op'.kind = "none" /\ Up
        /\ \A c \in Clients :
             /\ calls[c].at # "index" => calls'[c] = calls[c]
             /\ calls[c].at = "index" /\ op.rollback => calls'[c] = NoCall
             /\ calls[c].at = "index" /\ ~op.rollback =>
                  /\ calls'[c].at = "row" /\ calls'[c].kind = calls[c].kind
                  /\ calls'[c].s = calls[c].s /\ calls'[c].title = calls[c].title
    BY <1>6, ReleaseIs DEF Shape, OpShape, Ending, Rotation, Up
  <2>2. ASSUME NEW c \in Clients PROVE CallFits(c)' /\ calls'[c].at # "index"
    BY <1>1, <1>3, <2>1 DEF CallFits, Up
  <2> QED
    BY <2>1, <2>2 DEF CallShape
<1>7. CASE Crash
  <2>1. op'.kind = "recover" /\ \A c \in Clients : calls'[c] = NoCall
    BY <1>7, IdleIs DEF Crash
  <2> QED
    BY <1>3, <2>1 DEF CallShape, CallFits
<1>8. CASE Serve
  <2>1. calls' = calls /\ op'.kind = "none" /\ ~Up
    BY <1>8, IdleIs, TitlesRecorded
       DEF Serve, At, Shape, OpShape, Operation, Ending, Rotation, Up
  <2> QED
    BY <1>1, <2>1 DEF CallShape, CallFits
<1>9. CASE Fail
  <2>1. /\ \A c \in Clients : calls'[c] = IF calls[c].at = "index" THEN NoCall ELSE calls[c]
        /\ op'.kind \in {"none", "recover"} /\ (Up' <=> Up)
    BY <1>9, Ends DEF Up
  <2>2. ASSUME NEW c \in Clients PROVE CallFits(c)' /\ calls'[c].at # "index"
    BY <1>1, <1>3, <2>1 DEF CallFits
  <2> QED
    BY <2>1, <2>2 DEF CallShape
<1>10. CASE /\ UNCHANGED <<calls, crossed>>
            /\ op'.kind = op.kind /\ op'.s = op.s /\ op'.rollback = op.rollback
  BY <1>10 DEF Shape, CallShape, CallFits, Up
<1> QED
  BY <1>4, <1>5, <1>6, <1>7, <1>8, <1>9, <1>10, CallsMove

\* So every step keeps the shape of the state.
LEMMA ShapeStep == Shape /\ [Next]_vars => Shape'
<1> SUFFICES ASSUME Shape, [Next]_vars PROVE Shape'
  OBVIOUS
<1>1. TypeOK' /\ OpShape' /\ HealthShape' /\ Rotating' /\ CallShape'
  BY TypeStep, ShapeOfOpStep, RotatingStep, CallShapeStep
<1>2. LogShape(live)' /\ LogShape(bak)'
  BY LogShapeStep
<1> QED
  BY <1>1, <1>2 DEF Shape

-----------------------------------------------------------------------------
(* What a restart would read, after a step *)

\* Neither log nor snapshot written, a restart reads the same.
LEMMA ReplayedKept ==
  ASSUME live' = live, snapshot' = snapshot
  PROVE  \A s \in Sessions : Replayed(s)' = Replayed(s)
BY DEF Replayed

\* A record more changes what is read of its session only.
LEMMA ReplayedGrows ==
  ASSUME TypeOK, NEW t \in Sessions, NEW title \in AllTitles \cup {None}, snapshot' = snapshot,
         live'.recs = Append(live.recs, [s |-> t, title |-> title])
  PROVE  \A s \in Sessions : Replayed(s)' = IF s = t THEN title ELSE Replayed(s)
<1> SUFFICES ASSUME NEW s \in Sessions
             PROVE  Replayed(s)' = IF s = t THEN title ELSE Replayed(s)
  OBVIOUS
<1>1. live.recs \in Seq(Record)
  BY DEF TypeOK, LogFile
<1> DEFINE r == [s |-> t, title |-> title]
<1>2. r \in Record /\ r.s = t /\ r.title = title
  BY RecordIs
<1>3. Replayed(s)' = Overlay(snapshot, Append(live.recs, r))[s]
  BY DEF Replayed
<1> HIDE DEF r
<1>4. Overlay(snapshot, Append(live.recs, r))[s] = IF s = t THEN title ELSE Replayed(s)
  BY <1>1, <1>2, OneMoreRecord, OverlayIs DEF Replayed
<1> QED
  BY <1>3, <1>4

\* Of an empty log the snapshot is read.
LEMMA ReplayedFresh ==
  ASSUME TypeOK', live'.recs = <<>>
  PROVE  \A s \in Sessions : Replayed(s)' = snapshot'[s]
BY OverlayNothing DEF Replayed, TypeOK

\* Replayed over the list instead of the snapshot, a log gives the same or the list.
LEMMA ReplayedOver ==
  ASSUME live' = live, snapshot' = entries
  PROVE  \A s \in Sessions :
           /\ Replayed(s)' \in {entries[s], Replayed(s)}
           /\ RecordsOf(live.recs, s) # {} => Replayed(s)' = Replayed(s)
BY OverlayIs DEF Replayed

\* The backup made the log again is read over the snapshot.
LEMMA ReplayedBackup ==
  ASSUME live' = bak, snapshot' = snapshot
  PROVE  \A s \in Sessions :
           /\ RecordsOf(bak.recs, s) = {} => Replayed(s)' = snapshot[s]
           /\ RecordsOf(bak.recs, s) # {} => Replayed(s)' = Latest(bak.recs, s)
BY OverlayIs DEF Replayed

-----------------------------------------------------------------------------
(* The calls of the clients *)

\* An operation that was taken up and runs on: its session, its title, and the log it writes to.
LEMMA OpIs ==
  ASSUME Shape,
         op.pc \in {"log", "publish", "metadata", "remove", "undo", "compact", "done"}
  PROVE  /\ op.kind \in Working /\ Up /\ health = "Healthy"
         /\ op.s \in Sessions /\ op.title \in AllTitles \cup {None}
         /\ op.kind # "delete" => op.title \in AllTitles /\ op.title # None
         /\ op.pc = "publish" => op.kind = "create"
         /\ op.pc = "metadata" => op.kind \in {"update", "touch"}
         /\ op.pc = "remove" => op.kind = "delete"
         /\ op.pc = "undo" => op.kind \in {"create", "delete"} /\ op.title # None
         /\ op.pc # "log" => live.exists
BY Constants, TitlesRecorded
   DEF Shape, OpShape, HealthShape, Rotating, Operation, Up, Working, Ending, Rotation

\* A call is under way, in one of its stages, or there is none.
LEMMA CallIs ==
  ASSUME Shape, NEW c \in Clients
  PROVE  /\ CallFits(c) /\ calls[c] \in Call /\ calls[c].s \in Sessions
         /\ calls[c].kind \in {"none", "create", "delete"}
         /\ calls[c].title \in AllTitles \cup {None}
         /\ calls[c].kind # "none" => calls[c].at \in UnderWay
         /\ calls[c].at \in UnderWay => calls[c].kind # "none"
         /\ calls[c].at \in {"idle", "index"} \cup Outside
BY DEF Shape, TypeOK, CallShape, CallFits, Call, UnderWay, Outside

\* No call begun, none is in the way of another that was not before.
LEMMA AloneKept ==
  ASSUME Alone, crossed \subseteq crossed',
         \A c \in Clients : calls'[c].kind # "none" =>
           calls[c].kind # "none" /\ calls'[c].s = calls[c].s
  PROVE  Alone'
BY DEF Alone

\* Every step keeps clients alone with their session, or the session crossed.
LEMMA AloneStep == Sound /\ [Next]_vars => Alone'
<1> SUFFICES ASSUME Sound, [Next]_vars PROVE Alone'
  OBVIOUS
<1>1. Shape /\ Alone
  BY DEF Sound
<1>2. NoCall.kind = "none"
  BY NoCallIs
<1>3. CASE Locks
  <2>1. crossed' = crossed
    BY <1>1, <1>3, LocksAre DEF Shape, CallShape
  <2>2. ASSUME NEW s \in Sessions, BeginTouch(s) \/ \E t \in Titles : BeginUpdate(s, t)
        PROVE  Alone'
    <3>1. calls' = calls
      BY <1>1, <2>2, TouchIs DEF Shape
    <3> QED
      BY <1>1, <2>1, <3>1, AloneKept
  <2>3. ASSUME NEW c \in Clients, NEW s \in Sessions, BeginCreate(c, s)
        PROVE  Alone'
    <3>1. /\ calls'[c].s = s /\ \A d \in Clients \ {c} : calls'[d] = calls[d]
          /\ \A d \in Clients : ~(calls[d].s = s /\ calls[d].at \in UnderWay)
      BY <1>1, <2>3, CreateIs DEF Shape
    <3>2. \A d \in Clients : calls[d].s = s => calls[d].kind = "none"
      BY <1>1, <3>1, CallIs
    <3> QED
      BY <1>1, <2>1, <3>1, <3>2 DEF Alone
  <2>4. ASSUME NEW c \in Clients, BeginDelete(c) \/ BeginRollback(c)
        PROVE  Alone'
    <3>1. PICK kind \in {"create", "delete"}, title \in AllTitles \cup {None} :
            Lock(c, kind, title)
      BY <1>1, <2>4, DeleteIs DEF Shape
    <3>2. /\ calls'[c].kind = calls[c].kind /\ calls'[c].s = calls[c].s
          /\ \A d \in Clients \ {c} : calls'[d] = calls[d]
      BY <1>1, <3>1, LockIs DEF Shape
    <3> QED
      BY <1>1, <2>1, <3>2, AloneKept
  <2> QED
    BY <1>3, <2>2, <2>3, <2>4 DEF Locks
<1>4. CASE Elsewhere
  <2>1. PICK c \in Clients :
          StoreRow(c) \/ StoreRowFails(c) \/ Refuse(c) \/ \E s \in Sessions : ReadList(c, s)
    BY <1>4 DEF Elsewhere
  <2>2. /\ \A d \in Clients \ {c} : calls'[d] = calls[d]
        /\ \/ crossed' = crossed /\ calls'[c] = NoCall
           \/ /\ crossed' = crossed /\ calls[c].at = "row"
              /\ calls'[c].kind = calls[c].kind /\ calls'[c].s = calls[c].s
           \/ calls'[c].s \in Sessions /\ ReadList(c, calls'[c].s)
    BY <1>1, <2>1, ElsewhereCalls
  <2>3. calls[c].at = "row" => calls[c].kind # "none"
    BY <1>1, CallIs DEF UnderWay, Outside
  <2>4. CASE crossed' = crossed /\ calls'[c] = NoCall
    BY <1>1, <1>2, <2>2, <2>4, AloneKept
  <2>5. CASE /\ crossed' = crossed /\ calls[c].at = "row"
             /\ calls'[c].kind = calls[c].kind /\ calls'[c].s = calls[c].s
    BY <1>1, <2>2, <2>3, <2>5, AloneKept
  <2>6. CASE calls'[c].s \in Sessions /\ ReadList(c, calls'[c].s)
    <3> DEFINE s == calls'[c].s
    <3>1. crossed' = IF CallsAt(s, UnderWay) = {} THEN crossed ELSE crossed \cup {s}
      BY <2>6 DEF ReadList
    <3>2. ASSUME NEW d \in Clients, calls[d].kind # "none", calls[d].s = s
          PROVE  s \in crossed'
      <4>1. d \in CallsAt(s, UnderWay)
        BY <1>1, <3>2, CallIs DEF CallsAt
      <4> QED
        BY <3>1, <4>1
    <3>3. crossed \subseteq crossed'
      BY <3>1
    <3> QED
      BY <1>1, <2>2, <3>2, <3>3 DEF Alone
  <2> QED
    BY <2>2, <2>4, <2>5, <2>6
<1>5. CASE Release
  <2>1. ASSUME NEW c \in Clients, calls'[c].kind # "none"
        PROVE  calls[c].kind # "none" /\ calls'[c].s = calls[c].s
    BY <1>1, <1>2, <1>5, <2>1, ReleaseIs DEF Shape
  <2>2. crossed' = crossed
    BY <1>1, <1>5, ReleaseIs DEF Shape
  <2> QED
    BY <1>1, <2>1, <2>2, AloneKept
<1>6. CASE Crash
  <2>1. crossed' = crossed /\ \A c \in Clients : calls'[c] = NoCall
    BY <1>6 DEF Crash
  <2> QED
    BY <1>1, <1>2, <2>1, AloneKept
<1>7. CASE Serve \/ UNCHANGED <<calls, crossed>>
  <2>1. calls' = calls /\ crossed' = crossed
    BY <1>7 DEF Serve
  <2> QED
    BY <1>1, <2>1, AloneKept
<1>8. CASE Fail
  <2>1. crossed' = crossed
        /\ \A c \in Clients : calls'[c] = IF calls[c].at = "index" THEN NoCall ELSE calls[c]
    BY <1>8, Ends
  <2> QED
    BY <1>1, <1>2, <2>1, AloneKept
<1> QED
  BY <1>1, <1>3, <1>4, <1>5, <1>6, <1>7, <1>8, CallsMove

\* The operation in the index works on another session than a call that waits outside,
\* unless it is a change of title or a touch, or the session is crossed.
LEMMA OpElsewhere ==
  ASSUME Shape, Alone, NEW c \in Clients, calls[c].at \in Outside, calls[c].s \notin crossed,
         op.kind \in {"create", "delete"}
  PROVE  op.s # calls[c].s
<1>1. PICK d \in Clients : calls[d].at = "index"
  BY DEF Shape, CallShape
<1>2. calls[d].s = op.s /\ calls[d].kind # "none" /\ calls[c].kind # "none" /\ c # d
  BY <1>1, CallIs DEF CallFits, Outside, UnderWay
<1> QED
  BY <1>2 DEF Alone

\* What a call finds depends on its session only.
LEMMA CallKept ==
  ASSUME Shape, NEW c \in Clients, CallProgress(c), crossed' = crossed,
         calls'[c] = calls[c] \/ calls'[c] = NoCall,
         calls[c].at \in Outside /\ calls[c].s \notin crossed =>
           /\ entries'[calls[c].s] = None <=> entries[calls[c].s] = None
           /\ dirs'[calls[c].s] \in Gone <=> dirs[calls[c].s] \in Gone
           /\ dirs'[calls[c].s] \in AllTitles <=> dirs[calls[c].s] \in AllTitles
  PROVE  CallProgress(c)'
<1>1. CASE calls'[c] = NoCall
  BY <1>1, NoCallIs DEF CallProgress
<1>2. CASE calls'[c] = calls[c]
  BY <1>2 DEF CallProgress, Outside
<1> QED
  BY <1>1, <1>2

\* Every step of a creation or deletion finds what the steps before it have done.
LEMMA CallsProgressStep == Sound /\ [Next]_vars => CallsProgress'
<1> SUFFICES ASSUME Sound, [Next]_vars, NEW c \in Clients PROVE CallProgress(c)'
  BY DEF CallsProgress
<1>1. Shape /\ Alone /\ CallProgress(c) /\ op \in Operation /\ op.s \in Sessions
  BY TitlesRecorded DEF Sound, CallsProgress, Shape
<1>2. CallFits(c) /\ calls[c].s \in Sessions /\ calls[c].at \in {"idle", "index"} \cup Outside
      /\ (calls[c].kind # "none" => calls[c].at \in UnderWay)
  BY <1>1, CallIs
<1>3. NoCall.kind = "none" /\ NoCall.at = "idle"
  BY NoCallIs
<1>4. entries \in Entries /\ dirs \in [Sessions -> AllTitles \cup {None, Husk}]
  BY <1>1 DEF Shape, TypeOK
<1> DEFINE Kept == /\ crossed' = crossed
                   /\ calls'[c] = calls[c] \/ calls'[c] = NoCall
<1>5. /\ Fail => Kept
      /\ \A pc : Goto(pc) => Kept
      /\ UNCHANGED <<calls, crossed>> => Kept
  BY Ends DEF Goto
<1> DEFINE s == calls[c].s
           Same == /\ entries'[s] = None <=> entries[s] = None
                   /\ dirs'[s] \in Gone <=> dirs[s] \in Gone
                   /\ dirs'[s] \in AllTitles <=> dirs[s] \in AllTitles
<1>6. Kept /\ Same => CallProgress(c)'
  BY <1>1, CallKept
<1>7. ASSUME Kept, entries' = entries, dirs' = dirs PROVE CallProgress(c)'
  BY <1>6, <1>7
<1>8. ASSUME Kept, op.kind \in {"create", "delete"},
             op.s # s => entries'[s] = entries[s] /\ dirs'[s] = dirs[s]
      PROVE  CallProgress(c)'
  <2>1. calls[c].at \in Outside /\ s \notin crossed => op.s # s
    BY <1>1, <1>8, OpElsewhere
  <2> QED
    BY <1>1, <1>8, <2>1, CallKept
<1>9. ASSUME Kept, ~Up PROVE CallProgress(c)'
  <2>1. calls[c].at = "idle"
    BY <1>2, <1>9 DEF CallFits
  <2> QED
    BY <1>1, <1>9, <2>1, CallKept DEF Outside
<1> HIDE DEF Kept, Same
<1>10. CASE Locks
  <2>1. UNCHANGED <<entries, dirs, crossed>>
    BY <1>1, <1>10, LocksAre DEF Shape, CallShape
  <2>2. ASSUME NEW t \in Sessions, BeginTouch(t) \/ \E u \in Titles : BeginUpdate(t, u)
        PROVE  CallProgress(c)'
    <3>1. calls' = calls
      BY <1>1, <2>2, TouchIs DEF Shape
    <3> QED
      BY <1>1, <2>1, <3>1 DEF CallProgress
  <2>3. ASSUME NEW d \in Clients, NEW t \in Sessions, BeginCreate(d, t)
        PROVE  CallProgress(c)'
    <3>1. calls'[d].kind = "create" /\ calls'[d].at = "index"
          /\ (d # c => calls'[c] = calls[c])
      BY <1>1, <2>3, CreateIs DEF Shape
    <3> QED
      BY <1>1, <2>1, <3>1 DEF CallProgress
  <2>4. ASSUME NEW d \in Clients, BeginDelete(d) \/ BeginRollback(d)
        PROVE  CallProgress(c)'
    <3>1. PICK kind \in {"create", "delete"}, title \in AllTitles \cup {None} :
            Lock(d, kind, title)
      BY <1>1, <2>4, DeleteIs DEF Shape
    <3>2. /\ calls'[d].kind = calls[d].kind /\ calls'[d].s = calls[d].s
          /\ calls'[d].title = calls[d].title /\ calls'[d].at = "index"
          /\ (d # c => calls'[c] = calls[c])
      BY <1>1, <3>1, LockIs DEF Shape
    <3> QED
      BY <1>1, <2>1, <3>2 DEF CallProgress
  <2> QED
    BY <1>10, <2>2, <2>3, <2>4 DEF Locks
<1>11. CASE Elsewhere
  <2>1. UNCHANGED <<entries, dirs>>
    BY <1>1, <1>11, ElsewhereIs DEF Shape
  <2>2. PICK d \in Clients :
          StoreRow(d) \/ StoreRowFails(d) \/ Refuse(d) \/ \E t \in Sessions : ReadList(d, t)
    BY <1>11 DEF Elsewhere
  <2>3. /\ c # d => calls'[c] = calls[c]
        /\ \/ crossed' = crossed /\ calls'[d] = NoCall
           \/ /\ crossed' = crossed /\ calls[d].at = "row" /\ calls'[d].at = "back"
              /\ calls'[d].kind = calls[d].kind /\ calls'[d].s = calls[d].s
              /\ calls'[d].title = calls[d].title
           \/ /\ calls'[d].kind = "delete" /\ calls'[d].at = "list"
              /\ calls'[d].s \in Sessions /\ ReadList(d, calls'[d].s)
              /\ calls'[d].title = entries[calls'[d].s]
    BY <1>1, <2>2, ElsewhereCalls
  <2>4. crossed \subseteq crossed'
    <3>1. ASSUME NEW t \in Sessions, ReadList(d, t) PROVE crossed \subseteq crossed'
      BY <3>1 DEF ReadList
    <3> QED
      BY <2>3, <3>1
  <2>5. CASE c # d
    BY <1>1, <2>1, <2>3, <2>4, <2>5 DEF CallProgress
  <2>6. CASE c = d /\ calls'[d] = NoCall
    BY <1>3, <2>6 DEF CallProgress
  <2>7. CASE c = d /\ calls[d].at = "row" /\ crossed' = crossed /\ calls'[d].at = "back"
             /\ calls'[d].kind = calls[d].kind /\ calls'[d].s = calls[d].s
             /\ calls'[d].title = calls[d].title
    BY <1>1, <2>1, <2>7 DEF CallProgress
  <2>8. CASE c = d /\ calls'[d].kind = "delete" /\ calls'[d].at = "list"
             /\ calls'[d].s \in Sessions /\ ReadList(d, calls'[d].s)
             /\ calls'[d].title = entries[calls'[d].s]
    <3> DEFINE t == calls'[d].s
    <3>1. /\ entries[t] # None \/ CallsAt(t, {"row", "back"}) # {}
          /\ crossed' = IF CallsAt(t, UnderWay) = {} THEN crossed ELSE crossed \cup {t}
      BY <2>8 DEF ReadList
    <3>2. CallsAt(t, {"row", "back"}) \subseteq CallsAt(t, UnderWay)
      BY DEF CallsAt, UnderWay, Outside
    <3>3. t \notin crossed' => entries[t] # None
      BY <3>1, <3>2
    <3> QED
      BY <2>1, <2>8, <3>3 DEF CallProgress
  <2> QED
    BY <2>3, <2>5, <2>6, <2>7, <2>8
<1>12. CASE Release
  <2>1. /\ UNCHANGED <<entries, dirs, crossed>> /\ op.pc = "done"
        /\ calls[c].at # "index" => calls'[c] = calls[c]
        /\ calls[c].at = "index" /\ op.rollback => calls'[c] = NoCall
        /\ calls[c].at = "index" /\ ~op.rollback =>
             /\ calls'[c].at = "row" /\ calls'[c].kind = calls[c].kind
             /\ calls'[c].s = calls[c].s /\ calls'[c].title = calls[c].title
    BY <1>1, <1>12, ReleaseIs DEF Shape
  <2>2. CASE calls[c].at # "index"
    BY <1>1, <2>1, <2>2 DEF CallProgress
  <2>3. CASE op.rollback /\ calls[c].at = "index"
    BY <1>3, <2>1, <2>3 DEF CallProgress
  <2>4. CASE ~op.rollback /\ calls[c].at = "index"
    <3>1. op.kind = calls[c].kind /\ op.s = calls[c].s
      BY <1>2, <2>4 DEF CallFits
    <3>2. Up /\ (op.kind # "delete" => op.title \in AllTitles /\ op.title # None)
      BY <1>1, <2>1, OpIs
    <3>3. /\ entries[op.s] = Logged
          /\ op.kind = "create" => dirs[op.s] = op.title
          /\ op.kind = "delete" => dirs[op.s] \in Gone
      BY <2>1, <3>2 DEF Sound, Progress, Ending
    <3>4. /\ op.kind = "delete" => entries[op.s] = None
          /\ op.kind = "create" => entries[op.s] # None /\ dirs[op.s] \in AllTitles
      BY <3>2, <3>3 DEF Logged
    <3> QED
      BY <1>1, <2>1, <2>4, <3>1, <3>3, <3>4 DEF CallProgress
  <2> QED
    BY <2>2, <2>3, <2>4
<1>13. CASE Crash
  <2>1. calls'[c] = NoCall
    BY <1>13 DEF Crash
  <2> QED
    BY <1>3, <2>1 DEF CallProgress
<1>14. ASSUME NEW t \in Sessions, AuditSession(t) PROVE CallProgress(c)'
  <2>1. ~Up /\ UNCHANGED <<calls, crossed>>
    BY <1>1, <1>14
       DEF AuditSession, At, Shape, OpShape, Operation, Ending, Rotation, Up
  <2> QED
    BY <1>5, <1>9, <2>1
<1>15. CASE Load
  <2>1. ~Up /\ Goto(IF MustRebuild THEN "snapshot" ELSE "audit")
    BY <1>1, <1>15 DEF Load, At, Shape, OpShape, Operation, Ending, Rotation, Up
  <2> QED
    BY <1>5, <1>9, <2>1
<1>16. ASSUME NEW t \in Sessions, AuditFails(t) PROVE CallProgress(c)'
  <2>1. Fail /\ entries' = entries /\ dirs' = dirs
    BY <1>16 DEF AuditFails
  <2> QED
    BY <1>5, <1>7, <2>1
<1>17. CASE AppendLogFails \/ UndoFails \/ SnapshotFails \/ RotateFails \/ SwapFails
            \/ RemoveBackupFails
  <2>1. Fail /\ entries' = entries /\ dirs' = dirs
    BY <1>17 DEF AppendLogFails, UndoFails, SnapshotFails, RotateFails, SwapFails,
                 RemoveBackupFails
  <2> QED
    BY <1>5, <1>7, <2>1
<1>18. CASE PublishFails \/ Compact \/ RotateLog \/ SwapLog \/ RemoveBackup \/ RebuildSnapshot
  <2>1. (\E pc : Goto(pc)) /\ entries' = entries /\ dirs' = dirs
    BY <1>18 DEF PublishFails, Compact, RotateLog, SwapLog, RemoveBackup, RebuildSnapshot, disk
  <2> QED
    BY <1>5, <1>7, <2>1
<1>19. CASE Serve \/ UNCHANGED vars
  <2>1. UNCHANGED <<calls, crossed, entries, dirs>>
    BY <1>19 DEF Serve, vars, disk
  <2> QED
    BY <1>5, <1>7, <2>1
<1>20. CASE AppendLog
  <2>1. Goto(AfterLog) /\ dirs' = dirs /\ op.s \in Sessions
    BY <1>1, <1>20 DEF AppendLog
  <2>2. CASE op.kind \in {"create", "delete"}
    <3>1. op.s # s => entries'[s] = entries[s]
      BY <1>20, <2>2 DEF AppendLog
    <3> QED
      BY <1>5, <1>8, <2>1, <2>2, <3>1
  <2>3. CASE op.kind \notin {"create", "delete"}
    <3>1. entries' = entries
      BY <1>20, <2>3 DEF AppendLog
    <3> QED
      BY <1>5, <1>7, <2>1, <3>1
  <2> QED
    BY <2>2, <2>3
<1>21. CASE Publish
  <2>1. Goto("compact") /\ entries' = entries /\ (op.s # s => dirs'[s] = dirs[s])
    BY <1>21 DEF Publish
  <2>2. op.kind = "create"
    BY <1>1, <1>21, OpIs DEF Publish, At
  <2> QED
    BY <1>5, <1>8, <2>1, <2>2
<1>22. CASE RemoveDirectory
  <2>1. Goto("compact") /\ entries' = entries /\ (op.s # s => dirs'[s] = dirs[s])
    BY <1>22 DEF RemoveDirectory
  <2>2. op.kind = "delete"
    BY <1>1, <1>22, OpIs DEF RemoveDirectory, At
  <2> QED
    BY <1>5, <1>8, <2>1, <2>2
<1>23. CASE RemoveFails
  <2>1. (Fail \/ Goto("undo")) /\ entries' = entries /\ (op.s # s => dirs'[s] = dirs[s])
    <3>1. /\ Fail \/ Goto("undo")
          /\ entries' = entries
          /\ \/ dirs' = dirs
             \/ dirs' = [dirs EXCEPT ![op.s] = IF dirs[op.s] = None THEN None ELSE Husk]
      BY <1>23 DEF RemoveFails
    <3>2. op.s # s => dirs'[s] = dirs[s]
      BY <1>1, <1>2, <1>4, <3>1
    <3> QED
      BY <3>1, <3>2
  <2>2. op.kind = "delete"
    BY <1>1, <1>23, OpIs DEF RemoveFails, At
  <2> QED
    BY <1>5, <1>8, <2>1, <2>2
<1>24. CASE Undo
  <2>1. Fail /\ dirs' = dirs /\ (op.s # s => entries'[s] = entries[s])
    BY <1>24 DEF Undo
  <2>2. op.kind \in {"create", "delete"}
    BY <1>1, <1>24, OpIs DEF Undo, At
  <2> QED
    BY <1>5, <1>8, <2>1, <2>2
<1>25. CASE WriteMetadata
  <2>1. /\ op.pc = "metadata" /\ op.kind \in {"update", "touch"} /\ op.title \in AllTitles
        /\ op.title # None /\ entries[op.s] # None
    BY <1>1, <1>25, OpIs DEF WriteMetadata, At, Sound, Progress
  <2>2. /\ dirs[op.s] \in AllTitles /\ Goto("compact")
        /\ dirs' = IF op.kind = "update" THEN [dirs EXCEPT ![op.s] = op.title] ELSE dirs
        /\ entries' = [entries EXCEPT ![op.s] = op.title]
    BY <1>25 DEF WriteMetadata
  <2>3. /\ s # op.s => entries'[s] = entries[s] /\ dirs'[s] = dirs[s]
        /\ s = op.s => entries'[s] # None /\ dirs'[s] \in AllTitles
    BY <1>2, <1>4, <2>1, <2>2 DEF Entries
  <2>4. Same
    BY <2>1, <2>2, <2>3, Constants DEF Same, Gone
  <2> QED
    BY <1>5, <1>6, <2>2, <2>4
<1>26. CASE MetadataFails
  <2>1. op.kind \in {"update", "touch"} /\ op.title \in AllTitles
    BY <1>1, <1>26, OpIs DEF MetadataFails, At
  <2>2. /\ Fail /\ entries' = entries
        /\ \/ dirs' = dirs
           \/ dirs[op.s] \in AllTitles /\ dirs' = [dirs EXCEPT ![op.s] = op.title]
    BY <1>26 DEF MetadataFails
  <2>3. dirs'[s] = dirs[s] \/ (dirs[s] \in AllTitles /\ dirs'[s] \in AllTitles)
    <3>1. CASE dirs' = dirs
      BY <3>1
    <3>2. CASE dirs[op.s] \in AllTitles /\ dirs' = [dirs EXCEPT ![op.s] = op.title]
      <4>1. CASE s = op.s
        BY <1>2, <1>4, <2>1, <3>2, <4>1
      <4>2. CASE s # op.s
        BY <1>2, <1>4, <3>2, <4>2
      <4> QED
        BY <4>1, <4>2
    <3> QED
      BY <2>2, <3>1, <3>2
  <2>4. Same
    BY <2>2, <2>3, Constants DEF Same, Gone
  <2> QED
    BY <1>5, <1>6, <2>2, <2>4
<1>27. ASSUME NEW t \in Sessions, LateAppend(t) PROVE CallProgress(c)'
  <2>1. /\ UNCHANGED <<calls, crossed, entries>> /\ dirs[t] = None
        /\ dirs' = [dirs EXCEPT ![t] = Husk]
    BY <1>27 DEF LateAppend
  <2>2. dirs'[s] = dirs[s] \/ (dirs[s] = None /\ dirs'[s] = Husk)
    <3>1. CASE s = t
      BY <1>2, <1>4, <2>1, <3>1
    <3>2. CASE s # t
      BY <1>2, <1>4, <2>1, <3>2
    <3> QED
      BY <3>1, <3>2
  <2>3. Same
    BY <2>1, <2>2, Constants DEF Same, Gone
  <2> QED
    BY <1>5, <1>6, <2>1, <2>3
<1> QED
  BY <1>10, <1>11, <1>12, <1>13, <1>14, <1>15, <1>16, <1>17, <1>18, <1>19, <1>20, <1>21,
     <1>22, <1>23, <1>24, <1>25, <1>26, <1>27
     DEF Next, TitleFromEvent, Locks, Elsewhere

-----------------------------------------------------------------------------
(* The progress of an operation *)

\* Every step of an operation finds what the steps before it have done.
LEMMA ProgressStep == Sound /\ [Next]_vars => Progress'
<1> SUFFICES ASSUME Sound, [Next]_vars PROVE Progress'
  OBVIOUS
<1>1. ASSUME Locks PROVE Progress'
  <2>0. Shape /\ TypeOK /\ \A c \in Clients : CallFits(c)
    BY DEF Sound, Shape, CallShape
  <2>1. UNCHANGED <<entries, dirs, crossed>> /\ op'.pc = "log" /\ op.kind = "none"
    BY <1>1, <2>0, LocksAre
  <2>2. ASSUME NEW s \in Sessions, BeginTouch(s) \/ \E t \in Titles : BeginUpdate(s, t)
        PROVE  Progress'
    <3>1. PICK kind \in {"update", "touch"}, title \in AllTitles :
            /\ Begin(kind, s, title)
            /\ kind = "touch" => title = entries[s]
      BY <2>0, <2>2, TouchIs
    <3>2. entries[s] # None
      BY <2>0, <2>2, TouchIs
    <3>3. op'.kind = kind /\ op'.s = s /\ op'.title = title
      BY <2>0, <3>1, BeginIs
    <3> QED
      BY <2>1, <3>1, <3>2, <3>3 DEF Progress, Ending, Rotation
  <2>3. ASSUME NEW c \in Clients, NEW s \in Sessions, BeginCreate(c, s)
        PROVE  Progress'
    <3>1. op'.kind = "create" /\ op'.s = s /\ allowed[s] = {None}
      BY <2>0, <2>3, CreateIs, BeginIs
    <3>2. entries[s] = None
      BY <2>1, <3>1 DEF Sound, Allowed, AllowedFor, Up
    <3> QED
      BY <2>1, <3>1, <3>2 DEF Progress, Ending, Rotation
  <2>4. ASSUME NEW c \in Clients, BeginDelete(c) \/ BeginRollback(c)
        PROVE  Progress'
    <3>1. PICK kind \in {"create", "delete"}, title \in AllTitles \cup {None} :
            /\ Lock(c, kind, title)
            /\ calls[c].at \in {"list", "back"}
            /\ calls[c].at = "list" => kind = "delete"
            /\ calls[c].at = "back" => kind # calls[c].kind \/ calls[c].kind = "none"
            /\ kind = "delete" => title = entries[calls[c].s]
      BY <2>0, <2>4, DeleteIs
    <3>2. op'.kind = kind /\ op'.s = calls[c].s /\ op'.title = title
      BY <2>0, <3>1, LockIs
    <3>3. /\ calls[c].kind \in {"create", "delete"}
          /\ calls[c].at = "list" => calls[c].kind = "delete"
      BY <2>0, <3>1, CallIs DEF CallFits, UnderWay, Outside
    <3>4. CallProgress(c)
      BY DEF Sound, CallsProgress
    <3>5. calls[c].s \notin crossed =>
            /\ kind = "create" => entries[calls[c].s] = None
            /\ kind = "delete" => entries[calls[c].s] # None
      BY <3>1, <3>3, <3>4 DEF CallProgress
    <3> QED
      BY <2>1, <3>1, <3>2, <3>5 DEF Progress, Ending, Rotation
  <2> QED
    BY <1>1, <2>2, <2>3, <2>4 DEF Locks
<1>2. ASSUME NEW s \in Sessions, AuditSession(s) PROVE Progress'
  BY <1>2, TitlesRecorded
     DEF AuditSession, At, Progress, Sound, Shape, OpShape, Operation, Ending, Rotation
<1>3. ASSUME NEW s \in Sessions, AuditFails(s) PROVE Progress'
  BY <1>3, Ends DEF AuditFails, Progress, Ending, Rotation
<1>4. ASSUME AppendLog PROVE Progress'
  <2>1. op'.pc = AfterLog /\ op'.kind = op.kind /\ op'.s = op.s /\ crossed' = crossed
        /\ op'.title = op.title /\ op.s \in Sessions /\ Logged' = Logged
    BY <1>4, TitlesRecorded, Goes DEF AppendLog, AfterLog, Sound, Shape, Steps, Logged
  <2>2. Replayed(op.s)' = Logged
    <3>1. live'.recs = Append(live.recs, [s |-> op.s, title |-> Logged]) /\ snapshot' = snapshot
      BY <1>4, TitlesRecorded, Appended DEF AppendLog, Sound, Shape
    <3>2. \A s \in Sessions : Replayed(s)' = IF s = op.s THEN Logged ELSE Replayed(s)
      BY <3>1, TitlesRecorded, ReplayedGrows DEF Sound, Shape
    <3> QED
      BY <2>1, <3>2
  <2>3. op.kind \in Working /\ (Up /\ Up') /\ dirs' = dirs
        /\ (op.s \notin crossed => Listed(op.s))
    <3>1. op.kind \in Working /\ Up /\ health = "Healthy" /\ op.pc = "log"
      BY <1>4, OpIs DEF AppendLog, At, Sound
    <3>2. op.s \notin crossed => Listed(op.s)
      BY <3>1, <2>1 DEF Sound, AllListed
    <3> QED
      BY <1>4, <2>1, <3>1, <3>2 DEF AppendLog, Up
  <2>4. /\ op.kind = "create" /\ op.s \notin crossed => entries[op.s] = None
        /\ op.kind = "update" => entries[op.s] # None
        /\ op.kind \in {"touch", "delete"} => entries[op.s] = op.title
        /\ op.kind # "delete" => op.title # None
        /\ op.kind = "delete" /\ op.s \notin crossed => op.title # None
    BY <1>4, OpIs DEF AppendLog, At, Sound, Progress
  <2>5. CASE op.kind = "create"
    <3>1. op'.pc = "publish" /\ entries'[op.s] = Logged
          /\ (op.s \notin crossed => dirs[op.s] \in Gone)
      BY <1>4, <2>1, <2>3, <2>4, <2>5
         DEF AppendLog, AfterLog, Listed, Gone, Sound, Shape, TypeOK, Entries
    <3> QED
      BY <2>1, <2>2, <2>3, <2>5, <3>1 DEF Progress, Ending, Rotation
  <2>6. CASE op.kind = "delete"
    <3>1. op'.pc = "remove" /\ entries'[op.s] = Logged
          /\ (op.s \notin crossed => dirs[op.s] # None /\ op.title # None)
      BY <1>4, <2>1, <2>3, <2>4, <2>6, Constants
         DEF AppendLog, AfterLog, Listed, Sound, Shape, TypeOK, Entries
    <3> QED
      BY <2>1, <2>2, <2>3, <2>6, <3>1 DEF Progress, Ending, Rotation
  <2>7. CASE op.kind \in {"update", "touch"}
    <3>1. op'.pc = "metadata" /\ entries' = entries /\ Logged = op.title
      BY <1>4, <2>1, <2>7 DEF AppendLog, AfterLog, Logged
    <3> QED
      BY <2>1, <2>2, <2>3, <2>4, <2>7, <3>1 DEF Progress, Ending, Rotation
  <2> QED
    BY <2>3, <2>5, <2>6, <2>7 DEF Working
<1>5. ASSUME AppendLogFails PROVE Progress'
  BY <1>5, Ends DEF AppendLogFails, Progress, Ending, Rotation
<1>6. ASSUME Publish PROVE Progress'
  <2>1. op'.pc = "compact" /\ op'.kind = op.kind /\ op'.s = op.s /\ crossed' = crossed
        /\ op'.title = op.title /\ op.s \in Sessions /\ Logged' = Logged
    BY <1>6, TitlesRecorded, Goes DEF Publish, Sound, Shape, Steps, Logged
  <2>2. Replayed(op.s)' = Logged /\ entries'[op.s] = Logged
    BY <1>6, <2>1, ReplayedKept DEF Publish, At, Sound, Shape, OpShape, Progress, Up, Rotation
  <2>3. op.kind = "create" /\ dirs'[op.s] = op.title
    BY <1>6 DEF Publish, At, Sound, Shape, TypeOK, OpShape, Ending, Rotation, Operation
  <2> QED
    BY <2>1, <2>2, <2>3 DEF Progress
<1>7. ASSUME PublishFails PROVE Progress'
  BY <1>7, TitlesRecorded, ReplayedKept, Goes
     DEF PublishFails, At, Sound, Shape, OpShape, Progress, Logged, Up, Ending, Rotation,
         Steps, disk
<1>8. ASSUME WriteMetadata PROVE Progress'
  <2>1. op'.pc = "compact" /\ op'.kind = op.kind /\ op'.s = op.s /\ crossed' = crossed
        /\ op'.title = op.title /\ op.s \in Sessions /\ Logged' = Logged
    BY <1>8, TitlesRecorded, Goes DEF WriteMetadata, Sound, Shape, Steps, Logged
  <2>2. op.kind \in {"update", "touch"} /\ Logged = op.title
    BY <1>8, TitlesRecorded
       DEF WriteMetadata, At, Sound, Shape, OpShape, Ending, Rotation, Operation, Logged
  <2>3. Replayed(op.s)' = Logged /\ entries'[op.s] = Logged
    BY <1>8, <2>1, <2>2, ReplayedKept
       DEF WriteMetadata, At, Sound, Shape, Progress, TypeOK, Entries
  <2>4. /\ op.kind = "update" => dirs'[op.s] = op.title
        /\ op.kind = "touch" => dirs'[op.s] \in AllTitles
    BY <1>8, TitlesRecorded DEF WriteMetadata, Sound, Shape, TypeOK
  <2> QED
    BY <2>1, <2>2, <2>3, <2>4 DEF Progress
<1>9. ASSUME MetadataFails PROVE Progress'
  BY <1>9, Ends DEF MetadataFails, Progress, Ending, Rotation
<1>10. ASSUME RemoveDirectory PROVE Progress'
  <2>1. op'.pc = "compact" /\ op'.kind = op.kind /\ op'.s = op.s /\ crossed' = crossed
        /\ op'.title = op.title /\ op.s \in Sessions /\ Logged' = Logged
    BY <1>10, TitlesRecorded, Goes DEF RemoveDirectory, Sound, Shape, Steps, Logged
  <2>2. Replayed(op.s)' = Logged /\ entries'[op.s] = Logged
    BY <1>10, <2>1, ReplayedKept
       DEF RemoveDirectory, At, Sound, Shape, OpShape, Progress, Up, Rotation
  <2>3. op.kind = "delete" /\ dirs'[op.s] \in Gone
    BY <1>10
       DEF RemoveDirectory, At, Sound, Shape, TypeOK, OpShape, Ending, Rotation,
           Operation, Gone
  <2>4. op.s \notin crossed /\ op.kind = "delete" => op.title # None
    BY DEF Sound, Progress
  <2> QED
    BY <2>1, <2>2, <2>3, <2>4 DEF Progress
<1>11. ASSUME RemoveFails PROVE Progress'
  <2>1. op.pc = "remove" /\ op.kind = "delete" /\ Up /\ op.s \in Sessions
    BY <1>11, OpIs DEF RemoveFails, At, Sound
  <2>2. CASE op.title = None
    BY <1>11, <2>2, Ends DEF RemoveFails, Progress, Ending, Rotation
  <2>3. CASE op.title # None
    <3>1. op'.pc = "undo" /\ op'.kind = op.kind /\ op'.s = op.s /\ crossed' = crossed
          /\ op'.title = op.title /\ Logged' = Logged
      BY <1>11, <2>3, TitlesRecorded, Goes DEF RemoveFails, Sound, Shape, Steps, Logged
    <3>2. Replayed(op.s)' = Logged /\ entries'[op.s] = Logged
      BY <1>11, <2>1, <3>1, ReplayedKept DEF RemoveFails, Sound, Progress
    <3>3. op.s \notin crossed => dirs'[op.s] # None
      <4>1. op.s \notin crossed => dirs[op.s] # None
        BY <2>1 DEF Sound, Progress
      <4> QED
        BY <1>11, <2>1, <4>1, Constants DEF RemoveFails, Sound, Shape, TypeOK
    <3> QED
      BY <2>1, <2>3, <3>1, <3>2, <3>3 DEF Progress, Ending, Rotation
  <2> QED
    BY <2>2, <2>3
<1>12. ASSUME NEW t \in Sessions, LateAppend(t) PROVE Progress'
  <2>1. /\ UNCHANGED <<entries, op, crossed, live, snapshot>> /\ dirs[t] = None
        /\ dirs' = [dirs EXCEPT ![t] = Husk]
    BY <1>12 DEF LateAppend
  <2>2. Replayed(op.s)' = Replayed(op.s) /\ Logged' = Logged /\ (Up' <=> Up)
    BY <2>1, TitlesRecorded, ReplayedKept DEF Logged, Up, Sound, Shape
  <2>3. dirs'[op.s] = dirs[op.s] \/ (dirs[op.s] = None /\ dirs'[op.s] = Husk)
    <3>1. dirs \in [Sessions -> AllTitles \cup {None, Husk}] /\ op.s \in Sessions
      BY TitlesRecorded DEF Sound, Shape, TypeOK
    <3>2. CASE op.s = t
      BY <2>1, <3>1, <3>2
    <3>3. CASE op.s # t
      BY <2>1, <3>1, <3>3
    <3> QED
      BY <3>2, <3>3
  <2>4. /\ op.kind \in {"create", "update"} => op.title \in AllTitles
        /\ None \notin AllTitles /\ Husk # None /\ Progress
    BY Constants DEF Sound, Shape, OpShape
  <2> QED
    BY <2>1, <2>2, <2>3, <2>4 DEF Progress, Gone
<1>13. ASSUME Undo PROVE Progress'
  BY <1>13, Ends DEF Undo, Progress, Ending, Rotation
<1>14. ASSUME UndoFails PROVE Progress'
  BY <1>14, Ends DEF UndoFails, Progress, Ending, Rotation
<1>15. ASSUME Compact PROVE Progress'
  <2>1. op'.pc \in {"done", "rotate"} /\ op'.kind = op.kind /\ op'.s = op.s
        /\ crossed' = crossed /\ (op.s \notin crossed /\ op.kind = "delete" => op.title # None)
        /\ op'.title = op.title /\ op.s \in Sessions /\ Logged' = Logged
    BY <1>15, TitlesRecorded, Goes DEF Compact, Sound, Shape, Steps, Logged, Progress
  <2>2. Up /\ entries[op.s] = Logged /\ Replayed(op.s) = Logged
        /\ (op.kind \in {"create", "update"} => dirs[op.s] = op.title)
        /\ (op.kind = "touch" => dirs[op.s] \in AllTitles)
        /\ (op.kind = "delete" => dirs[op.s] \in Gone)
    BY <1>15 DEF Compact, At, Sound, Shape, OpShape, Progress, Up, Ending, Rotation
  <2>3. Replayed(op.s)' = Logged
    BY <1>15, <2>1, <2>2, ReplayedKept, ReplayedOver DEF Compact, NewSnapshot
  <2> QED
    BY <1>15, <2>1, <2>2, <2>3 DEF Compact, Progress
<1>16. ASSUME SnapshotFails PROVE Progress'
  BY <1>16, Ends DEF SnapshotFails, Progress, Ending, Rotation
<1>17. ASSUME RotateLog PROVE Progress'
  <2>1. op'.pc = "swap" /\ op'.kind = op.kind /\ op'.s = op.s /\ crossed' = crossed
        /\ op'.title = op.title /\ op.s \in Sessions /\ Logged' = Logged
    BY <1>17, TitlesRecorded, Goes DEF RotateLog, Sound, Shape, Steps, Logged
  <2>2. Up => /\ entries[op.s] = Logged
              /\ op.kind \in {"create", "update"} => dirs[op.s] = op.title
              /\ op.kind = "touch" => dirs[op.s] \in AllTitles
              /\ op.kind = "delete" => dirs[op.s] \in Gone
    BY <1>17 DEF RotateLog, At, Sound, Progress, Ending, Rotation
  <2>3. \A s \in Sessions : Replayed(s)' = snapshot'[s]
    BY <1>17, Constants, ReplayedFresh, ShapeStep DEF RotateLog, Sound, Shape
  <2>4. snapshot' = entries /\ entries' = entries /\ dirs' = dirs
    BY <1>17 DEF RotateLog, At, Sound, Shape, Rotating, Rotation
  <2>5. op.s \notin crossed /\ op.kind = "delete" => op.title # None
    BY DEF Sound, Progress
  <2> QED
    BY <2>1, <2>2, <2>3, <2>4, <2>5 DEF Progress, Up
<1>18. ASSUME RotateFails PROVE Progress'
  BY <1>18, Ends DEF RotateFails, Progress, Ending, Rotation
<1>19. ASSUME SwapLog PROVE Progress'
  <2>1. op'.pc = "clean" /\ op'.kind = op.kind /\ op'.s = op.s /\ crossed' = crossed
        /\ op'.title = op.title /\ op.s \in Sessions /\ Logged' = Logged
    BY <1>19, TitlesRecorded, Goes DEF SwapLog, Sound, Shape, Steps, Logged
  <2>2. Up => /\ entries[op.s] = Logged
              /\ op.kind \in {"create", "update"} => dirs[op.s] = op.title
              /\ op.kind = "touch" => dirs[op.s] \in AllTitles
              /\ op.kind = "delete" => dirs[op.s] \in Gone
    BY <1>19 DEF SwapLog, At, Sound, Progress, Ending, Rotation
  <2>3. \A s \in Sessions : Replayed(s)' = snapshot'[s]
    BY <1>19, Constants, ReplayedFresh, ShapeStep DEF SwapLog, Sound, Shape
  <2>4. snapshot' = entries /\ entries' = entries /\ dirs' = dirs
    BY <1>19 DEF SwapLog, At, Sound, Shape, Rotating, Rotation
  <2>5. op.s \notin crossed /\ op.kind = "delete" => op.title # None
    BY DEF Sound, Progress
  <2> QED
    BY <2>1, <2>2, <2>3, <2>4, <2>5 DEF Progress, Up
<1>20. ASSUME SwapFails PROVE Progress'
  BY <1>20, Ends DEF SwapFails, Progress, Ending, Rotation
<1>21. ASSUME RemoveBackup PROVE Progress'
  BY <1>21, TitlesRecorded, ReplayedOver, Goes
     DEF RemoveBackup, At, AfterClean, Sound, Shape, Progress, Logged, Ending, Rotation,
         Steps, Rotating
<1>22. ASSUME RemoveBackupFails PROVE Progress'
  BY <1>22, Ends DEF RemoveBackupFails, Progress, Ending, Rotation
<1>23. ASSUME Release PROVE Progress'
  BY <1>23, ReleaseIs DEF Sound, Shape, Progress, Ending, Rotation
<1>24. ASSUME Elsewhere PROVE Progress'
  <2>1. UNCHANGED <<entries, op, live, snapshot, dirs>>
    BY <1>24, ElsewhereIs DEF Sound, Shape
  <2>2. crossed \subseteq crossed'
    BY <1>24, CrossedGrows
  <2>3. Replayed(op.s)' = Replayed(op.s) /\ Logged' = Logged /\ (Up' <=> Up)
    BY <2>1, TitlesRecorded, ReplayedKept DEF Logged, Up, Sound, Shape
  <2> QED
    BY <2>1, <2>2, <2>3 DEF Sound, Progress
<1>25. ASSUME Crash PROVE Progress'
  BY <1>25, IdleIs DEF Crash, Progress, Ending, Rotation
<1>26. ASSUME Load PROVE Progress'
  BY <1>26, TitlesRecorded, Goes DEF Load, Sound, Shape, Progress, Ending, Rotation, Steps
<1>27. ASSUME RebuildSnapshot PROVE Progress'
  <2>1. op'.pc = "rotate" /\ ~Up' /\ op'.kind = "recover"
    BY <1>27, TitlesRecorded, Goes
       DEF RebuildSnapshot, At, Sound, Shape, OpShape, Operation, Steps, Up, Ending,
           Rotation
  <2> QED
    BY <2>1 DEF Progress, Ending, Rotation
<1>28. ASSUME Serve PROVE Progress'
  BY <1>28, IdleIs DEF Serve, Progress, Ending, Rotation
<1>29. CASE UNCHANGED vars
  <2>1. UNCHANGED <<entries, snapshot, live, dirs, op, crossed>>
    BY <1>29 DEF vars, disk
  <2>2. Replayed(op.s)' = Replayed(op.s) /\ Logged' = Logged /\ Up' = Up
    BY <2>1 DEF Replayed, Logged, Up
  <2> QED
    BY <2>1, <2>2 DEF Sound, Progress
<1> QED
  BY <1>1, <1>2, <1>3, <1>4, <1>5, <1>6, <1>7, <1>8, <1>9, <1>10, <1>11, <1>12, <1>13,
     <1>14, <1>15, <1>16, <1>17, <1>18, <1>19, <1>20, <1>21, <1>22, <1>23, <1>24, <1>25,
     <1>26, <1>27, <1>28, <1>29
     DEF Next, TitleFromEvent, Locks, Elsewhere

\* Without a crash there is no recovery.
LEMMA CrashFreeStep == Sound /\ [Next]_vars => CrashFree'
<1> SUFFICES ASSUME Sound, [Next]_vars PROVE CrashFree'
  OBVIOUS
<1>1. ASSUME Locks PROVE CrashFree'
  BY <1>1, LocksAre DEF Working, Sound, Shape, CallShape, CrashFree, Up
<1>2. ASSUME NEW s \in Sessions, AuditSession(s) PROVE CrashFree'
  BY <1>2 DEF AuditSession, Sound, CrashFree, Up
<1>3. ASSUME NEW s \in Sessions, AuditFails(s) PROVE CrashFree'
  BY <1>3, TitlesRecorded, Ends, FaultsAre DEF AuditFails, Sound, Shape, CrashFree, Up
<1>4. ASSUME AppendLog PROVE CrashFree'
  BY <1>4, TitlesRecorded, Goes DEF AppendLog, AfterLog, Sound, Shape, CrashFree, Up, Steps
<1>5. ASSUME AppendLogFails PROVE CrashFree'
  BY <1>5, TitlesRecorded, Ends, FaultsAre DEF AppendLogFails, Sound, Shape, CrashFree, Up
<1>6. ASSUME Publish PROVE CrashFree'
  BY <1>6, TitlesRecorded, Goes DEF Publish, Sound, Shape, CrashFree, Up, Steps
<1>7. ASSUME PublishFails PROVE CrashFree'
  BY <1>7, TitlesRecorded, Goes, FaultsAre DEF PublishFails, Sound, Shape, CrashFree, Up, Steps
<1>8. ASSUME WriteMetadata PROVE CrashFree'
  BY <1>8, TitlesRecorded, Goes DEF WriteMetadata, Sound, Shape, CrashFree, Up, Steps
<1>9. ASSUME MetadataFails PROVE CrashFree'
  BY <1>9, TitlesRecorded, Ends, RepairIs DEF MetadataFails, Sound, Shape, CrashFree, Up
<1>10. ASSUME RemoveDirectory PROVE CrashFree'
  BY <1>10, TitlesRecorded, Goes DEF RemoveDirectory, Sound, Shape, CrashFree, Up, Steps
<1>11. ASSUME RemoveFails PROVE CrashFree'
  <2>1. Up /\ count'.crashes = count.crashes
    BY <1>11, TitlesRecorded, OpIs, FaultsAre DEF RemoveFails, At, Sound, Shape
  <2>2. Up'
    BY <1>11, <2>1, TitlesRecorded, Ends, Goes DEF RemoveFails, Sound, Shape, Up, Steps
  <2> QED
    BY <2>2 DEF CrashFree
<1>12. ASSUME NEW s \in Sessions, LateAppend(s) PROVE CrashFree'
  BY <1>12 DEF LateAppend, Sound, CrashFree, Up
<1>13. ASSUME Undo PROVE CrashFree'
  BY <1>13, Ends DEF Undo, Sound, CrashFree, Up
<1>14. ASSUME UndoFails PROVE CrashFree'
  BY <1>14, TitlesRecorded, Ends, RepairIs DEF UndoFails, Sound, Shape, CrashFree, Up
<1>15. ASSUME Compact PROVE CrashFree'
  BY <1>15, TitlesRecorded, Goes DEF Compact, Sound, Shape, CrashFree, Up, Steps
<1>16. ASSUME SnapshotFails PROVE CrashFree'
  BY <1>16, TitlesRecorded, Ends, CompactionFailedIs
     DEF SnapshotFails, Sound, Shape, CrashFree, Up
<1>17. ASSUME RotateLog PROVE CrashFree'
  BY <1>17, TitlesRecorded, Goes DEF RotateLog, Sound, Shape, CrashFree, Up, Steps
<1>18. ASSUME RotateFails PROVE CrashFree'
  BY <1>18, TitlesRecorded, Ends, CompactionFailedIs
     DEF RotateFails, Sound, Shape, CrashFree, Up
<1>19. ASSUME SwapLog PROVE CrashFree'
  BY <1>19, TitlesRecorded, Goes DEF SwapLog, Sound, Shape, CrashFree, Up, Steps
<1>20. ASSUME SwapFails PROVE CrashFree'
  BY <1>20, TitlesRecorded, Ends, CompactionFailedIs, RollbackFailsIs
     DEF SwapFails, Sound, Shape, CrashFree, Up
<1>21. ASSUME RemoveBackup PROVE CrashFree'
  BY <1>21, TitlesRecorded, Goes
     DEF RemoveBackup, AfterClean, Sound, Shape, CrashFree, Up, Steps
<1>22. ASSUME RemoveBackupFails PROVE CrashFree'
  BY <1>22, TitlesRecorded, Ends, CompactionFailedIs, RollbackFailsIs
     DEF RemoveBackupFails, Sound, Shape, CrashFree, Up
<1>23. ASSUME Release PROVE CrashFree'
  BY <1>23, ReleaseIs DEF Sound, Shape, CrashFree, Up
<1>24. ASSUME Elsewhere PROVE CrashFree'
  BY <1>24, ElsewhereIs DEF Sound, Shape, CrashFree, Up
<1>25. ASSUME Crash PROVE CrashFree'
  BY <1>25, TitlesRecorded DEF Crash, Sound, Shape, CrashFree, Counts
<1>26. ASSUME Load PROVE CrashFree'
  BY <1>26, TitlesRecorded, Goes DEF Load, Sound, Shape, CrashFree, Up, Steps
<1>27. ASSUME RebuildSnapshot PROVE CrashFree'
  BY <1>27, TitlesRecorded, Goes DEF RebuildSnapshot, Sound, Shape, CrashFree, Up, Steps
<1>28. ASSUME Serve PROVE CrashFree'
  BY <1>28, IdleIs DEF Serve, CrashFree, Up
<1>29. CASE UNCHANGED vars
  BY <1>29 DEF vars, Sound, CrashFree, Up
<1> QED
  BY <1>1, <1>2, <1>3, <1>4, <1>5, <1>6, <1>7, <1>8, <1>9, <1>10, <1>11, <1>12, <1>13,
     <1>14, <1>15, <1>16, <1>17, <1>18, <1>19, <1>20, <1>21, <1>22, <1>23, <1>24, <1>25,
     <1>26, <1>27, <1>28, <1>29
     DEF Next, TitleFromEvent, Locks, Elsewhere

\* Every step keeps sessions listed if and only if they have their directory.
LEMMA AllListedStep == Sound /\ [Next]_vars => AllListed'
<1> SUFFICES ASSUME Sound, [Next]_vars PROVE AllListed'
  OBVIOUS
<1>1. ASSUME Locks PROVE AllListed'
  BY <1>1, LocksAre DEF Sound, Shape, CallShape, OpShape, AllListed, Listed, Up
<1>2. ASSUME NEW s \in Sessions, AuditSession(s) PROVE AllListed'
  BY <1>2 DEF AuditSession, Sound, AllListed, Listed, OnDisk, Audited, Up
<1>3. ASSUME NEW s \in Sessions, AuditFails(s) PROVE AllListed'
  BY <1>3, Ends DEF AuditFails, At, Sound, AllListed, Listed, Up
<1>4. ASSUME AppendLog PROVE AllListed'
  BY <1>4, Goes DEF AppendLog, At, AfterLog, Sound, Shape, TypeOK, AllListed, Listed, Up, Steps
<1>5. ASSUME AppendLogFails PROVE AllListed'
  BY <1>5, Ends DEF AppendLogFails, At, Sound, AllListed, Listed, Up
<1>6. ASSUME Publish PROVE AllListed'
  BY <1>6
     DEF Publish, Goto, At, Sound, Shape, TypeOK, OpShape, Progress, AllListed, Listed, Logged,
         Up, Ending, Rotation
<1>7. ASSUME PublishFails PROVE AllListed'
  BY <1>7, Goes DEF PublishFails, Sound, Shape, TypeOK, AllListed, Listed, Up, Steps, disk
<1>8. ASSUME WriteMetadata PROVE AllListed'
  <2>1. op.kind \in Working /\ Up /\ health = "Healthy" /\ op.pc = "metadata" /\ op.title # None
    BY <1>8, OpIs DEF WriteMetadata, At, Sound
  <2>2. \A s \in Sessions \ crossed : Listed(s)
    BY <2>1 DEF Sound, AllListed
  <2>3. ASSUME NEW s \in Sessions \ crossed PROVE Listed(s)'
    <3>1. CASE s = op.s
      BY <1>8, <2>1, <3>1, Constants DEF WriteMetadata, Listed, Sound, Shape, TypeOK, Entries
    <3>2. CASE s # op.s
      BY <1>8, <2>2, <3>2 DEF WriteMetadata, Listed
    <3> QED
      BY <3>1, <3>2
  <2> QED
    BY <1>8, <2>3 DEF WriteMetadata, Goto, AllListed
<1>9. ASSUME MetadataFails PROVE AllListed'
  BY <1>9, TitlesRecorded, RepairIs DEF MetadataFails, Sound, Shape, AllListed
<1>10. ASSUME RemoveDirectory PROVE AllListed'
  <2>1. op.kind = "delete" /\ Up /\ health = "Healthy" /\ op.pc = "remove"
    BY <1>10, TitlesRecorded
       DEF RemoveDirectory, At, Sound, Shape, OpShape, HealthShape, Up, Ending, Rotation,
           Operation
  <2>2. \A s \in Sessions \ crossed : s # op.s => Listed(s)
    BY <2>1 DEF Sound, AllListed
  <2>3. entries[op.s] = None
    BY <2>1 DEF Sound, Progress, Logged
  <2>4. ASSUME NEW s \in Sessions \ crossed PROVE Listed(s)'
    BY <1>10, <2>2, <2>3 DEF RemoveDirectory, Listed, Sound, Shape, TypeOK
  <2> QED
    BY <1>10, <2>4 DEF RemoveDirectory, Goto, AllListed
<1>11. ASSUME RemoveFails PROVE AllListed'
  <2>1. op.pc = "remove" /\ op.kind = "delete" /\ Up /\ health = "Healthy"
    BY <1>11, OpIs DEF RemoveFails, At, Sound
  <2>2. /\ entries' = entries /\ crossed' = crossed
        /\ \A s \in Sessions : s # op.s => dirs'[s] = dirs[s]
    BY <1>11 DEF RemoveFails, Fail, Goto, Sound, Shape, TypeOK
  <2>3. CASE op.title = None
    BY <2>1, <2>2, <2>3 DEF Sound, Progress, AllListed, Listed
  <2>4. CASE op.title # None
    <3>1. op'.s = op.s /\ op'.pc = "undo"
      BY <1>11, <2>4, TitlesRecorded, Goes DEF RemoveFails, Sound, Shape, Steps
    <3> QED
      BY <2>1, <2>2, <3>1 DEF Sound, AllListed, Listed
  <2> QED
    BY <2>3, <2>4
<1>12. ASSUME NEW t \in Sessions, LateAppend(t) PROVE AllListed'
  <2>1. /\ UNCHANGED <<entries, health, op, crossed>> /\ dirs' = [dirs EXCEPT ![t] = Husk]
    BY <1>12 DEF LateAppend
  <2>2. \A s \in Sessions : dirs'[s] = dirs[s] \/ dirs'[s] = Husk
    BY <2>1 DEF Sound, Shape, TypeOK
  <2> QED
    BY <2>1, <2>2 DEF Sound, AllListed, Listed, Up
<1>13. ASSUME Undo PROVE AllListed'
  <2>1. op.kind \in {"create", "delete"} /\ Up /\ op.pc = "undo" /\ op.title # None
        /\ op.s \in Sessions
    BY <1>13, OpIs DEF Undo, At, Sound
  <2>2. health = "Healthy" => \A s \in Sessions \ crossed : s # op.s => Listed(s)
    BY <2>1 DEF Sound, AllListed
  <2>3. op.s \notin crossed /\ dirs[op.s] # Husk => (Restored = None <=> dirs[op.s] = None)
    BY <2>1 DEF Sound, Progress, Restored, Gone
  <2>4. ASSUME NEW s \in Sessions \ crossed, health = "Healthy" PROVE Listed(s)'
    BY <1>13, <2>1, <2>2, <2>3, <2>4 DEF Undo, Listed, Sound, Shape, TypeOK, Entries
  <2> QED
    BY <1>13, <2>4 DEF AllListed, Undo, Fail
<1>14. ASSUME UndoFails PROVE AllListed'
  BY <1>14, TitlesRecorded, RepairIs DEF UndoFails, Sound, Shape, AllListed
<1>15. ASSUME Compact PROVE AllListed'
  <2>1. UNCHANGED <<entries, health, dirs, crossed>> /\ op.pc = "compact"
    BY <1>15 DEF Compact, Goto, At
  <2> QED
    BY <2>1 DEF Sound, AllListed, Listed, Up, Shape, OpShape, Rotation
<1>16. ASSUME SnapshotFails PROVE AllListed'
  BY <1>16, Ends DEF SnapshotFails, At, Sound, AllListed, Listed, Up
<1>17. ASSUME RotateLog PROVE AllListed'
  BY <1>17, TitlesRecorded, Goes DEF RotateLog, At, Sound, Shape, AllListed, Listed, Up, Steps
<1>18. ASSUME RotateFails PROVE AllListed'
  BY <1>18, Ends DEF RotateFails, At, Sound, AllListed, Listed, Up
<1>19. ASSUME SwapLog PROVE AllListed'
  BY <1>19, TitlesRecorded, Goes DEF SwapLog, At, Sound, Shape, AllListed, Listed, Up, Steps
<1>20. ASSUME SwapFails PROVE AllListed'
  BY <1>20, Ends DEF SwapFails, At, Sound, Shape, OpShape, HealthShape, AllListed, Listed, Up
<1>21. ASSUME RemoveBackup PROVE AllListed'
  BY <1>21, Goes
     DEF RemoveBackup, At, AfterClean, Sound, Shape, TypeOK, AllListed, Listed, Up, Steps
<1>22. ASSUME RemoveBackupFails PROVE AllListed'
  BY <1>22, Ends
     DEF RemoveBackupFails, At, Sound, Shape, OpShape, HealthShape, AllListed, Listed, Up
<1>23. ASSUME Release PROVE AllListed'
  BY <1>23, ReleaseIs DEF Sound, Shape, OpShape, AllListed, Listed, Up, Ending, Rotation
<1>24. ASSUME Elsewhere PROVE AllListed'
  <2>1. UNCHANGED <<entries, op, health, dirs>>
    BY <1>24, ElsewhereIs DEF Sound, Shape
  <2> QED
    BY <1>24, <2>1, CrossedGrows DEF Sound, AllListed, Listed, Up
<1>25. ASSUME Crash PROVE AllListed'
  BY <1>25, IdleIs DEF Crash, AllListed, Up
<1>26. ASSUME Load PROVE AllListed'
  <2>1. ~Up'
    BY <1>26, TitlesRecorded, Goes
       DEF Load, At, Sound, Shape, OpShape, Up, Ending, Rotation, Operation, Steps
  <2> QED
    BY <2>1 DEF AllListed
<1>27. ASSUME RebuildSnapshot PROVE AllListed'
  BY <1>27, Goes DEF RebuildSnapshot, At, Sound, Shape, TypeOK, AllListed, Listed, Up, Steps
<1>28. ASSUME Serve PROVE AllListed'
  BY <1>28 DEF Serve, AllListed, Listed, OnDisk, Audited
<1>29. CASE UNCHANGED vars
  BY <1>29 DEF vars, disk, Sound, AllListed, Listed, Up
<1> QED
  BY <1>1, <1>2, <1>3, <1>4, <1>5, <1>6, <1>7, <1>8, <1>9, <1>10, <1>11, <1>12, <1>13,
     <1>14, <1>15, <1>16, <1>17, <1>18, <1>19, <1>20, <1>21, <1>22, <1>23, <1>24, <1>25,
     <1>26, <1>27, <1>28, <1>29
     DEF Next, TitleFromEvent, Locks, Elsewhere

-----------------------------------------------------------------------------
(* What clients may find *)

\* An empty log has no records.
LEMMA NothingRecorded == \A s : RecordsOf(<<>>, s) = {}
BY DEF RecordsOf

\* Where nothing is read differently a client may find what it might before, or more.
LEMMA AllowedMore ==
  ASSUME NEW s \in Sessions, AllowedFor(s), allowed[s] \subseteq allowed'[s],
         OnDisk(s)' = OnDisk(s) \/ (OnDisk(s)' = None /\ None \in allowed[s]),
         entries'[s] = entries[s], Up' => Up,
         Replayed(s)' = Replayed(s),
         bak'.recs = bak.recs,
         ~live'.exists \/ op'.pc = "clean" => ~live.exists \/ op.pc = "clean"
  PROVE  AllowedFor(s)'
BY DEF AllowedFor, Fits

\* A record of what a client may find is one more that recovery may read.
LEMMA AllowedAppended ==
  ASSUME TypeOK, NEW t \in Sessions, NEW title \in AllTitles \cup {None}, Fits(t, title),
         snapshot' = snapshot, dirs' = dirs, allowed' = allowed,
         live'.recs = Append(live.recs, [s |-> t, title |-> title])
  PROVE  \A s \in Sessions : Fits(s, Replayed(s)) => Fits(s, Replayed(s))'
BY ReplayedGrows DEF Fits, OnDisk

\* A failing append leaves a record of what a client may find, or nothing.
LEMMA AllowedLeft ==
  ASSUME Shape, NEW t \in Sessions, NEW title \in AllTitles \cup {None}, Fits(t, title),
         snapshot' = snapshot, dirs' = dirs, allowed' = allowed,
         live' \in FailedExtend(live, t, title)
  PROVE  /\ \A s \in Sessions : Fits(s, Replayed(s)) => Fits(s, Replayed(s))'
         /\ live.exists => live'.exists
<1>1. /\ live.exists => live'.exists
      /\ live' = live \/ live'.recs = Append(live.recs, [s |-> t, title |-> title])
  BY LiveFailed
<1>2. CASE live' = live
  BY <1>1, <1>2, ReplayedKept DEF Fits, OnDisk
<1>3. CASE live'.recs = Append(live.recs, [s |-> t, title |-> title])
  BY <1>1, <1>3, AllowedAppended DEF Shape
<1> QED
  BY <1>1, <1>2, <1>3

\* What an index call that takes the lock may leave of the session is allowed.
LockedFor ==
  /\ \A t \in Sessions : allowed[t] \subseteq allowed'[t]
  /\ op'.title \in allowed'[op'.s]
  /\ op'.kind \in {"create", "delete"} => None \in allowed'[op'.s]

LEMMA LocksAllow ==
  ASSUME Sound, Locks
  PROVE  LockedFor
<1>1. /\ TypeOK /\ Shape /\ allowed \in [Sessions -> SUBSET (AllTitles \cup {None})]
      /\ entries \in Entries
  BY DEF Sound, Shape, TypeOK
<1>2. Up
  BY <1>1, LocksAre DEF Shape, CallShape, Up
<1>3. \A t \in Sessions : entries[t] \in allowed[t]
  BY <1>2 DEF Sound, Allowed, AllowedFor
<1>4. ASSUME NEW s \in Sessions, BeginTouch(s) \/ \E t \in Titles : BeginUpdate(s, t)
      PROVE  LockedFor
  <2>1. PICK kind \in {"update", "touch"}, title \in AllTitles :
          /\ Begin(kind, s, title)
          /\ kind = "touch" => title = entries[s]
          /\ kind = "touch" => allowed' = allowed
          /\ kind = "update" => allowed' = [allowed EXCEPT ![s] = @ \cup {title}]
    BY <1>1, <1>4, TouchIs
  <2>2. op'.kind = kind /\ op'.s = s /\ op'.title = title
    BY <1>1, <2>1, BeginIs
  <2>3. CASE kind = "touch"
    BY <1>3, <2>1, <2>2, <2>3 DEF LockedFor
  <2>4. CASE kind = "update"
    BY <1>1, <2>1, <2>2, <2>4 DEF LockedFor
  <2> QED
    BY <2>3, <2>4
<1>5. ASSUME NEW c \in Clients, NEW s \in Sessions, BeginCreate(c, s)
      PROVE  LockedFor
  <2>1. /\ Begin("create", s, Untitled) /\ Untitled \in AllTitles /\ allowed[s] = {None}
        /\ allowed' = [allowed EXCEPT ![s] = {None, Untitled}]
    BY <1>1, <1>5, CreateIs
  <2>2. op'.s = s /\ op'.title = Untitled
    BY <1>1, <2>1, BeginIs
  <2> QED
    BY <1>1, <2>1, <2>2 DEF LockedFor
<1>6. ASSUME NEW c \in Clients, BeginDelete(c) \/ BeginRollback(c)
      PROVE  LockedFor
  <2>1. PICK kind \in {"create", "delete"}, title \in AllTitles \cup {None} :
          /\ Lock(c, kind, title)
          /\ calls[c].at \in {"list", "back"}
          /\ kind = "delete" => title = entries[calls[c].s]
          /\ kind = "create" => title = calls[c].title
    BY <1>1, <1>6, DeleteIs
  <2>2. op'.kind = kind /\ op'.s = calls[c].s /\ op'.title = title /\ allowed' = allowed
    BY <1>1, <2>1, LockIs
  <2>3. calls[c].kind # "none" /\ calls[c].s \in Sessions
    BY <1>1, <2>1, CallIs DEF UnderWay, Outside
  <2>4. {None, calls[c].title} \subseteq allowed[calls[c].s]
    BY <2>3 DEF Sound, CallsAllowed
  <2> QED
    BY <1>3, <2>1, <2>2, <2>3, <2>4 DEF LockedFor
<1> QED
  BY <1>4, <1>5, <1>6 DEF Locks

\* Every step leaves of a session only what its client may find.
LEMMA AllowedStep == Sound /\ [Next]_vars => Allowed'
<1> SUFFICES ASSUME Sound, [Next]_vars PROVE Allowed'
  OBVIOUS
<1>1. ASSUME Locks PROVE Allowed'
  <2>1. /\ op.kind = "none" /\ op.pc = "idle" /\ Up /\ Up' /\ op'.pc = "log"
        /\ UNCHANGED <<entries, snapshot, live, bak, dirs>>
    BY <1>1, LocksAre DEF Sound, Shape, CallShape, OpShape, Up, Working
  <2>2. \A t \in Sessions : Replayed(t)' = Replayed(t)
    BY <2>1, ReplayedKept
  <2>3. \A t \in Sessions : AllowedFor(t) /\ entries[t] \in allowed[t]
    BY <2>1 DEF Sound, Allowed, AllowedFor
  <2>4. ASSUME NEW t \in Sessions, allowed[t] \subseteq allowed'[t] PROVE AllowedFor(t)'
    BY <2>1, <2>2, <2>3, <2>4, AllowedMore DEF OnDisk
  <2>5. LockedFor
    BY <1>1, LocksAllow
  <2> QED
    BY <2>4, <2>5 DEF Allowed, LockedFor
<1>2. ASSUME NEW s \in Sessions, AuditSession(s) PROVE Allowed'
  <2> DEFINE x == Audited(entries, s)
  <2>1. /\ op.kind = "recover" /\ op.pc = "audit" /\ op' = op /\ live'.exists
        /\ live'.recs = Append(live.recs, [s |-> s, title |-> x])
        /\ x \in AllTitles \cup {None}
    BY <1>2, TitlesRecorded, AuditedIs, Appended
       DEF AuditSession, At, Sound, Shape, OpShape, Operation, Ending, Rotation
  <2>2. \A t \in Sessions : AllowedFor(t)
    BY DEF Sound, Allowed
  <2>3. Fits(s, x)
    BY <2>2 DEF AllowedFor, Fits, Audited
  <2> HIDE DEF x
  <2>4. ASSUME NEW t \in Sessions PROVE AllowedFor(t)'
    <3>1. Fits(t, Replayed(t))'
      BY <1>2, <2>1, <2>2, <2>3, AllowedAppended DEF AuditSession, Sound, Shape, AllowedFor
    <3>2. entries'[t] \in {entries[t], x} /\ (t # s => entries'[t] = entries[t])
      BY <1>2 DEF AuditSession, x
    <3> QED
      BY <1>2, <2>1, <2>2, <2>3, <3>1, <3>2 DEF AuditSession, AllowedFor, Fits, OnDisk, Up
  <2> QED
    BY <2>1, <2>4 DEF Allowed, Working
<1>3. ASSUME NEW s \in Sessions, AuditFails(s) PROVE Allowed'
  <2> DEFINE x == Audited(entries, s)
  <2>1. op.kind = "recover" /\ op'.kind = "recover" /\ op'.pc = "down" /\ op.pc = "audit"
    BY <1>3, TitlesRecorded, Ends
       DEF AuditFails, At, Sound, Shape, OpShape, Operation, Ending, Rotation, Up
  <2>2. \A t \in Sessions : AllowedFor(t)
    BY DEF Sound, Allowed
  <2>3. Fits(s, x) /\ x \in AllTitles \cup {None}
    BY <2>2, AuditedIs DEF AllowedFor, Fits, Audited, Sound, Shape
  <2> HIDE DEF x
  <2>4. /\ \A t \in Sessions : Fits(t, Replayed(t)) => Fits(t, Replayed(t))'
        /\ live.exists => live'.exists
    BY <1>3, <2>3, AllowedLeft DEF AuditFails, Sound, x
  <2>5. ASSUME NEW t \in Sessions PROVE AllowedFor(t)'
    BY <1>3, <2>1, <2>2, <2>4 DEF AuditFails, AllowedFor, Fits, OnDisk, Up
  <2> QED
    BY <2>1, <2>5 DEF Allowed, Working
<1>4. ASSUME AppendLog PROVE Allowed'
  <2>1. /\ op.pc = "log" /\ op.kind \in Working /\ Up /\ op.s \in Sessions
        /\ op.title \in allowed[op.s]
        /\ op.kind \in {"create", "delete"} => Logged \in allowed[op.s] /\ None \in allowed[op.s]
        /\ Fits(op.s, Logged) /\ Logged \in AllTitles \cup {None}
    BY <1>4, OpIs DEF AppendLog, At, Sound, Allowed, Fits, Logged
  <2>2. /\ op'.kind = op.kind /\ op'.s = op.s /\ op'.title = op.title /\ op'.pc # "clean"
    BY <1>4, <2>1, TitlesRecorded, Goes DEF AppendLog, AfterLog, Sound, Shape, Steps
  <2>3. live'.exists /\ live'.recs = Append(live.recs, [s |-> op.s, title |-> Logged])
    BY <1>4, TitlesRecorded, Appended DEF AppendLog, Sound, Shape
  <2>4. \A t \in Sessions : AllowedFor(t)
    BY DEF Sound, Allowed
  <2>5. ASSUME NEW t \in Sessions PROVE AllowedFor(t)'
    <3>1. Fits(t, Replayed(t))'
      BY <1>4, <2>1, <2>3, <2>4, AllowedAppended DEF AppendLog, Sound, Shape, AllowedFor
    <3>2. entries'[t] \in allowed[t]
      BY <1>4, <2>1, <2>4 DEF AppendLog, AllowedFor
    <3> QED
      BY <1>4, <2>2, <2>3, <2>4, <3>1, <3>2 DEF AppendLog, AllowedFor, Fits, OnDisk
  <2> QED
    BY <1>4, <2>1, <2>2, <2>5 DEF Allowed, AppendLog
<1>5. ASSUME AppendLogFails PROVE Allowed'
  <2>1. /\ op.pc = "log" /\ Up /\ op.s \in Sessions
        /\ Fits(op.s, Logged) /\ Logged \in AllTitles \cup {None}
    BY <1>5, OpIs DEF AppendLogFails, At, Sound, Allowed, Fits, Logged
  <2>2. op'.kind = "none" /\ op'.pc = "idle"
    BY <1>5, <2>1, Ends DEF AppendLogFails
  <2>3. /\ \A t \in Sessions : Fits(t, Replayed(t)) => Fits(t, Replayed(t))'
        /\ live.exists => live'.exists
    BY <1>5, <2>1, AllowedLeft DEF AppendLogFails, Sound
  <2>4. ASSUME NEW t \in Sessions PROVE AllowedFor(t)'
    BY <1>5, <2>1, <2>2, <2>3 DEF AppendLogFails, Sound, Allowed, AllowedFor, Fits, OnDisk
  <2> QED
    BY <2>2, <2>4 DEF Allowed, Working
<1>6. ASSUME Publish PROVE Allowed'
  <2>1. /\ op.pc = "publish" /\ op.kind = "create" /\ Up /\ op.s \in Sessions
        /\ live.exists /\ op.title \in allowed[op.s] /\ Replayed(op.s) = op.title
        /\ op.title \in AllTitles
    BY <1>6, OpIs DEF Publish, At, Sound, Allowed, Progress, Logged
  <2>2. op'.kind = op.kind /\ op'.s = op.s /\ op'.title = op.title /\ op'.pc = "compact"
    BY <1>6, TitlesRecorded, Goes DEF Publish, Sound, Shape, Steps
  <2>3. \A t \in Sessions : AllowedFor(t) /\ Replayed(t)' = Replayed(t)
    BY <1>6, ReplayedKept DEF Publish, Sound, Allowed
  <2>4. ASSUME NEW t \in Sessions PROVE AllowedFor(t)'
    <3>1. dirs'[t] = dirs[t] \/ (t = op.s /\ dirs'[t] = op.title)
      BY <1>6 DEF Publish, Sound, Shape, TypeOK
    <3> QED
      BY <1>6, <2>1, <2>2, <2>3, <3>1 DEF Publish, AllowedFor, Fits, OnDisk
  <2> QED
    BY <1>6, <2>1, <2>2, <2>4 DEF Allowed, Publish, Sound
<1>7. ASSUME PublishFails PROVE Allowed'
  BY <1>7, ReplayedKept, Goes
     DEF PublishFails, Sound, Shape, TypeOK, Allowed, AllowedFor, Fits, OnDisk, Up, Steps,
         disk
<1>8. ASSUME WriteMetadata PROVE Allowed'
  <2>1. /\ op.pc = "metadata" /\ op.kind \in {"update", "touch"} /\ Up /\ op.s \in Sessions
        /\ live.exists /\ op.title \in allowed[op.s] /\ Replayed(op.s) = op.title
        /\ op.title \in AllTitles
    BY <1>8, OpIs DEF WriteMetadata, At, Sound, Allowed, Progress
  <2>2. op'.kind = op.kind /\ op'.s = op.s /\ op'.title = op.title /\ op'.pc = "compact"
    BY <1>8, TitlesRecorded, Goes DEF WriteMetadata, Sound, Shape, Steps
  <2>3. \A t \in Sessions : AllowedFor(t) /\ Replayed(t)' = Replayed(t)
    BY <1>8, ReplayedKept DEF WriteMetadata, Sound, Allowed
  <2>4. ASSUME NEW t \in Sessions, t # op.s PROVE AllowedFor(t)'
    <3>1. dirs'[t] = dirs[t] /\ entries'[t] = entries[t]
      BY <1>8, <2>4 DEF WriteMetadata
    <3> QED
      BY <1>8, <2>1, <2>2, <2>3, <3>1 DEF WriteMetadata, AllowedFor, Fits, OnDisk
  <2>5. AllowedFor(op.s)'
    <3>1. dirs'[op.s] \in {dirs[op.s], op.title} /\ entries'[op.s] = op.title
      BY <1>8, <2>1 DEF WriteMetadata, Sound, Shape, TypeOK, Entries
    <3>2. AllowedFor(op.s) /\ Replayed(op.s)' = op.title
      BY <2>1, <2>2, <2>3
    <3> QED
      BY <1>8, <2>1, <2>2, <3>1, <3>2, Constants DEF WriteMetadata, AllowedFor, Fits, OnDisk
  <2> QED
    BY <1>8, <2>1, <2>2, <2>4, <2>5 DEF Allowed, WriteMetadata
<1>9. ASSUME MetadataFails PROVE Allowed'
  <2>1. /\ op.pc = "metadata" /\ Up /\ op.s \in Sessions
        /\ live.exists /\ op.title \in allowed[op.s] /\ Replayed(op.s) = op.title
        /\ op.title \in AllTitles
    BY <1>9, OpIs DEF MetadataFails, At, Sound, Allowed, Progress
  <2>2. op'.kind = "none" /\ op'.pc = "idle"
    BY <1>9, <2>1, Ends DEF MetadataFails
  <2>3. \A t \in Sessions : AllowedFor(t) /\ Replayed(t)' = Replayed(t)
    BY <1>9, ReplayedKept DEF MetadataFails, Sound, Allowed
  <2>4. ASSUME NEW t \in Sessions PROVE AllowedFor(t)'
    <3>1. dirs'[t] = dirs[t] \/ (t = op.s /\ dirs'[t] = op.title)
      BY <1>9 DEF MetadataFails, Sound, Shape, TypeOK
    <3> QED
      BY <1>9, <2>1, <2>2, <2>3, <3>1, Constants DEF MetadataFails, AllowedFor, Fits, OnDisk
  <2> QED
    BY <2>2, <2>4 DEF Allowed, Working
<1>10. ASSUME RemoveDirectory PROVE Allowed'
  <2>1. /\ op.pc = "remove" /\ op.kind = "delete" /\ Up /\ op.s \in Sessions
        /\ None \in allowed[op.s]
    BY <1>10, OpIs DEF RemoveDirectory, At, Sound, Allowed
  <2>2. op'.kind = op.kind /\ op'.s = op.s /\ op'.title = op.title /\ op'.pc = "compact"
    BY <1>10, TitlesRecorded, Goes DEF RemoveDirectory, Sound, Shape, Steps
  <2>3. \A t \in Sessions : AllowedFor(t) /\ Replayed(t)' = Replayed(t)
    BY <1>10, ReplayedKept DEF RemoveDirectory, Sound, Allowed
  <2>4. ASSUME NEW t \in Sessions PROVE AllowedFor(t)'
    <3>1. dirs'[t] = dirs[t] \/ (t = op.s /\ dirs'[t] \in Gone)
      BY <1>10 DEF RemoveDirectory, Gone
    <3>2. OnDisk(t)' = OnDisk(t) \/ (OnDisk(t)' = None /\ None \in allowed[t])
      BY <2>1, <3>1, Constants DEF OnDisk, Gone
    <3> QED
      BY <1>10, <2>1, <2>2, <2>3, <3>2, AllowedMore DEF RemoveDirectory, Up
  <2> QED
    BY <1>10, <2>1, <2>2, <2>4 DEF Allowed, RemoveDirectory, Sound
<1>11. ASSUME RemoveFails PROVE Allowed'
  <2>1. /\ op.pc = "remove" /\ op.kind = "delete" /\ Up /\ op.s \in Sessions
        /\ None \in allowed[op.s] /\ live.exists
    BY <1>11, OpIs DEF RemoveFails, At, Sound, Allowed
  <2>2. \/ op'.kind = op.kind /\ op'.s = op.s /\ op'.title = op.title /\ op'.pc = "undo"
        \/ op'.kind = "none" /\ op'.pc = "idle"
    BY <1>11, <2>1, TitlesRecorded, Goes, Ends DEF RemoveFails, Sound, Shape, Steps
  <2>3. \A t \in Sessions : AllowedFor(t) /\ Replayed(t)' = Replayed(t)
    BY <1>11, ReplayedKept DEF RemoveFails, Sound, Allowed
  <2>4. UNCHANGED <<entries, live, bak, allowed>>
    BY <1>11 DEF RemoveFails
  <2>5. ASSUME NEW t \in Sessions PROVE AllowedFor(t)'
    <3>1. dirs'[t] = dirs[t] \/ (t = op.s /\ dirs'[t] \in Gone)
      BY <1>11 DEF RemoveFails, Sound, Shape, TypeOK, Gone
    <3>2. OnDisk(t)' = OnDisk(t) \/ (OnDisk(t)' = None /\ None \in allowed[t])
      BY <2>1, <3>1, Constants DEF OnDisk, Gone
    <3> QED
      BY <2>1, <2>2, <2>3, <2>4, <3>2, AllowedMore DEF Up
  <2> QED
    BY <2>1, <2>2, <2>4, <2>5 DEF Allowed, Sound, Working
<1>12. ASSUME NEW s \in Sessions, LateAppend(s) PROVE Allowed'
  <2>1. /\ UNCHANGED <<entries, snapshot, live, bak, op, allowed>>
        /\ dirs[s] = None /\ dirs' = [dirs EXCEPT ![s] = Husk]
    BY <1>12 DEF LateAppend
  <2>2. \A t \in Sessions : OnDisk(t)' = OnDisk(t)
    BY <2>1, Constants DEF OnDisk, Sound, Shape, TypeOK
  <2>3. \A t \in Sessions : AllowedFor(t) /\ Replayed(t)' = Replayed(t)
    BY <2>1, ReplayedKept DEF Sound, Allowed
  <2>4. ASSUME NEW t \in Sessions PROVE AllowedFor(t)'
    BY <2>1, <2>2, <2>3, AllowedMore DEF Up
  <2> QED
    BY <2>1, <2>4 DEF Sound, Allowed
<1>13. ASSUME Undo PROVE Allowed'
  <2>1. /\ op.pc = "undo" /\ op.kind \in {"create", "delete"} /\ Up /\ op.s \in Sessions
        /\ op.title \in allowed[op.s] /\ op.title # None /\ Restored \in AllTitles \cup {None}
        /\ None \in allowed[op.s]
    <3>1. op.pc = "undo" /\ Shape
      BY <1>13 DEF Undo, At, Sound
    <3>2. /\ op.kind \in {"create", "delete"} /\ Up /\ op.s \in Sessions
          /\ op.title # None /\ op.kind \in Working
      BY <3>1, OpIs
    <3> QED
      BY <3>1, <3>2, TitlesRecorded DEF Sound, Shape, Allowed
  <2>2. op'.kind = "none" /\ op'.pc = "idle"
    BY <1>13, <2>1, Ends DEF Undo
  <2>3. live'.exists /\ live'.recs = Append(live.recs, [s |-> op.s, title |-> Restored])
    BY <1>13, TitlesRecorded, Appended DEF Undo, Undone, Sound, Shape
  <2>4. \A t \in Sessions : Replayed(t)' = IF t = op.s THEN Restored ELSE Replayed(t)
    BY <1>13, <2>1, <2>3, ReplayedGrows DEF Undo, Sound, Shape
  <2>5. ASSUME NEW t \in Sessions, t # op.s PROVE AllowedFor(t)'
    <3>1. allowed'[t] = allowed[t] /\ entries'[t] = entries[t]
      BY <1>13, <2>5 DEF Undo
    <3> QED
      BY <1>13, <2>1, <2>2, <2>3, <2>4, <2>5, <3>1
         DEF Undo, Sound, Allowed, AllowedFor, Fits, OnDisk
  <2>6. ASSUME NEW t \in Sessions, t = op.s PROVE AllowedFor(t)'
    <3>1. /\ OnDisk(t) \in allowed[t]
          /\ entries'[t] = Restored /\ Replayed(t)' = Restored /\ OnDisk(t)' = OnDisk(t)
          /\ allowed'[t] = IF Disturbed THEN allowed[t]
                           ELSE IF op.kind = "create" THEN {None} ELSE allowed[t] \ {None}
      BY <1>13, <2>1, <2>4, <2>6
         DEF Undo, Sound, Allowed, AllowedFor, Shape, TypeOK, Entries, OnDisk
    <3>2. Restored \in allowed'[t] /\ OnDisk(t) \in allowed'[t]
      <4>1. dirs[t] \in AllTitles \cup {None, Husk}
        BY DEF Sound, Shape, TypeOK
      <4>2. CASE Disturbed
        BY <2>1, <2>6, <3>1, <4>2 DEF Restored
      <4>3. CASE ~Disturbed /\ op.kind = "create"
        BY <2>6, <3>1, <4>1, <4>3 DEF Restored, Disturbed, OnDisk
      <4>4. CASE ~Disturbed /\ op.kind = "delete"
        BY <2>1, <2>6, <3>1, <4>4, Constants DEF Restored, Disturbed, OnDisk
      <4> QED
        BY <2>1, <4>2, <4>3, <4>4
    <3> QED
      BY <2>2, <2>3, <3>1, <3>2 DEF AllowedFor, Fits
  <2> QED
    BY <2>2, <2>5, <2>6 DEF Allowed, Working
<1>14. ASSUME UndoFails PROVE Allowed'
  <2>1. /\ op.pc = "undo" /\ Up /\ op.s \in Sessions
        /\ Fits(op.s, Restored) /\ Restored \in AllTitles \cup {None}
    BY <1>14, OpIs DEF UndoFails, At, Sound, Allowed, Fits, Restored
  <2>2. op'.kind = "none" /\ op'.pc = "idle"
    BY <1>14, <2>1, Ends DEF UndoFails
  <2>3. /\ \A t \in Sessions : Fits(t, Replayed(t)) => Fits(t, Replayed(t))'
        /\ live.exists => live'.exists
    BY <1>14, <2>1, AllowedLeft DEF UndoFails, Sound
  <2>4. ASSUME NEW t \in Sessions PROVE AllowedFor(t)'
    BY <1>14, <2>1, <2>2, <2>3 DEF UndoFails, Sound, Allowed, AllowedFor, Fits, OnDisk
  <2> QED
    BY <2>2, <2>4 DEF Allowed, Working
<1>15. ASSUME Compact PROVE Allowed'
  <2>1. /\ op.pc = "compact" /\ Up /\ live.exists /\ op'.pc \in {"done", "rotate"}
        /\ op'.kind = op.kind /\ op'.s = op.s /\ op'.title = op.title
    BY <1>15, OpIs, TitlesRecorded, Goes DEF Compact, At, Sound, Shape, Steps
  <2>2. \A t \in Sessions : AllowedFor(t) /\ Replayed(t)' \in {entries[t], Replayed(t)}
    BY <1>15, ReplayedKept, ReplayedOver DEF Compact, NewSnapshot, Sound, Allowed
  <2>3. ASSUME NEW t \in Sessions PROVE AllowedFor(t)'
    BY <1>15, <2>1, <2>2 DEF Compact, AllowedFor, Fits, OnDisk
  <2> QED
    BY <1>15, <2>1, <2>3 DEF Allowed, Compact, Sound
<1>16. ASSUME SnapshotFails PROVE Allowed'
  BY <1>16, ReplayedKept, ReplayedOver, Ends
     DEF SnapshotFails, NewSnapshot, Sound, Allowed, AllowedFor, Fits, OnDisk, Up, Working
<1>17. ASSUME RotateLog PROVE Allowed'
  <2>1. /\ op.pc = "rotate" /\ op'.pc = "swap"
        /\ op'.kind = op.kind /\ op'.s = op.s /\ op'.title = op.title
    BY <1>17, TitlesRecorded, Goes DEF RotateLog, At, Sound, Shape, Steps
  <2>2. \A t \in Sessions : AllowedFor(t) /\ Replayed(t)' = entries[t]
    BY <1>17, <2>1, ReplayedFresh, ShapeStep, Constants
       DEF RotateLog, Sound, Shape, Rotating, Rotation, Allowed
  <2>3. \A t \in Sessions : RecordsOf(live.recs, t) # {} => Replayed(t) = Latest(live.recs, t)
    BY OverlayIs DEF Replayed
  <2>4. ASSUME NEW t \in Sessions PROVE AllowedFor(t)'
    <3>1. RecordsOf(bak'.recs, t) # {} => Fits(t, Latest(bak'.recs, t))
      BY <1>17, <2>2, <2>3 DEF RotateLog, AllowedFor
    <3> QED
      BY <1>17, <2>1, <2>2, <3>1 DEF RotateLog, AllowedFor, Fits, OnDisk, Up
  <2> QED
    BY <1>17, <2>1, <2>4 DEF Allowed, RotateLog, Sound
<1>18. ASSUME RotateFails PROVE Allowed'
  BY <1>18, ReplayedOver, Ends
     DEF RotateFails, At, Sound, Shape, Allowed, AllowedFor, Fits, OnDisk, Up, Working,
         Rotation, Rotating
<1>19. ASSUME SwapLog PROVE Allowed'
  <2>1. /\ op.pc = "swap" /\ op'.pc = "clean" /\ live = NoLog
        /\ op'.kind = op.kind /\ op'.s = op.s /\ op'.title = op.title
    BY <1>19, TitlesRecorded, Goes DEF SwapLog, At, Sound, Shape, Rotating, Steps
  <2>2. \A t \in Sessions : AllowedFor(t) /\ Replayed(t)' = entries[t]
    BY <1>19, <2>1, ReplayedFresh, ShapeStep, Constants
       DEF SwapLog, Sound, Shape, Rotating, Rotation, Allowed
  <2>3. ASSUME NEW t \in Sessions PROVE AllowedFor(t)'
    BY <1>19, <2>1, <2>2, Constants DEF SwapLog, AllowedFor, Fits, OnDisk, Up
  <2> QED
    BY <1>19, <2>1, <2>3 DEF Allowed, SwapLog, Sound
<1>20. ASSUME SwapFails PROVE Allowed'
  <2>1. /\ op.pc = "swap" /\ snapshot = entries /\ (~live.exists \/ op.pc = "clean")
        /\ op'.kind \in {"none", "recover"} /\ op'.pc \in {"idle", "down"}
        /\ Up' => Up
    BY <1>20, Ends, Constants DEF SwapFails, At, Sound, Shape, Rotating, Rotation, Up
  <2>2. \A t \in Sessions : AllowedFor(t)
    BY DEF Sound, Allowed
  <2>3. ASSUME NEW t \in Sessions PROVE Fits(t, Replayed(t))
                  /\ (live' = bak \/ live'.recs = <<>> \/ live' = live => Fits(t, Replayed(t))')
    <3>1. CASE live' = bak
      <4>1. \/ Replayed(t)' = entries[t]
            \/ RecordsOf(bak.recs, t) # {} /\ Replayed(t)' = Latest(bak.recs, t)
        BY <1>20, <2>1, <3>1, ReplayedBackup DEF SwapFails
      <4> QED
        BY <1>20, <2>1, <2>2, <4>1 DEF SwapFails, AllowedFor, Fits, OnDisk
    <3>2. CASE live'.recs = <<>>
      <4>1. Replayed(t)' = entries[t]
        BY <1>20, <2>1, <3>2, ReplayedFresh, ShapeStep DEF SwapFails, Sound, Shape
      <4> QED
        BY <1>20, <2>2, <4>1 DEF SwapFails, AllowedFor, Fits, OnDisk
    <3>3. CASE live' = live
      <4>1. Replayed(t)' = Replayed(t)
        BY <1>20, <3>3, ReplayedKept DEF SwapFails
      <4> QED
        BY <1>20, <2>2, <4>1 DEF SwapFails, AllowedFor, Fits, OnDisk
    <3> QED
      BY <2>2, <3>1, <3>2, <3>3 DEF AllowedFor
  <2>4. /\ live' = bak \/ live'.recs = <<>> \/ live' = live
        /\ bak' = bak \/ bak'.recs = <<>>
    BY <1>20, Constants DEF SwapFails
  <2>5. ASSUME NEW t \in Sessions PROVE AllowedFor(t)'
    <3>1. RecordsOf(bak'.recs, t) # {} => Fits(t, Latest(bak'.recs, t))
      BY <2>1, <2>2, <2>4, NothingRecorded DEF AllowedFor
    <3> QED
      BY <1>20, <2>1, <2>2, <2>3, <2>4, <3>1 DEF SwapFails, AllowedFor, Fits, OnDisk
  <2> QED
    BY <2>1, <2>5 DEF Allowed, Working
<1>21. ASSUME RemoveBackup PROVE Allowed'
  BY <1>21, Constants, TitlesRecorded, ReplayedKept, Goes
     DEF RemoveBackup, At, AfterClean, Sound, Shape, Allowed, AllowedFor, Fits, OnDisk, Up,
         Steps, Rotating
<1>22. ASSUME RemoveBackupFails PROVE Allowed'
  <2>1. /\ op.pc = "clean" /\ snapshot = entries /\ (~live.exists \/ op.pc = "clean")
        /\ op'.kind \in {"none", "recover"} /\ op'.pc \in {"idle", "down"}
        /\ Up' => Up
    BY <1>22, Ends DEF RemoveBackupFails, At, Sound, Shape, Rotating, Rotation, Up
  <2>2. \A t \in Sessions : AllowedFor(t)
    BY DEF Sound, Allowed
  <2>3. ASSUME NEW t \in Sessions PROVE Fits(t, Replayed(t))
                  /\ (live' = bak \/ live'.recs = <<>> \/ live' = live => Fits(t, Replayed(t))')
    <3>1. CASE live' = bak
      <4>1. \/ Replayed(t)' = entries[t]
            \/ RecordsOf(bak.recs, t) # {} /\ Replayed(t)' = Latest(bak.recs, t)
        BY <1>22, <2>1, <3>1, ReplayedBackup DEF RemoveBackupFails
      <4> QED
        BY <1>22, <2>1, <2>2, <4>1 DEF RemoveBackupFails, AllowedFor, Fits, OnDisk
    <3>2. CASE live'.recs = <<>>
      <4>1. Replayed(t)' = entries[t]
        BY <1>22, <2>1, <3>2, ReplayedFresh, ShapeStep DEF RemoveBackupFails, Sound, Shape
      <4> QED
        BY <1>22, <2>2, <4>1 DEF RemoveBackupFails, AllowedFor, Fits, OnDisk
    <3>3. CASE live' = live
      <4>1. Replayed(t)' = Replayed(t)
        BY <1>22, <3>3, ReplayedKept DEF RemoveBackupFails
      <4> QED
        BY <1>22, <2>2, <4>1 DEF RemoveBackupFails, AllowedFor, Fits, OnDisk
    <3> QED
      BY <2>2, <3>1, <3>2, <3>3 DEF AllowedFor
  <2>4. /\ live' = bak \/ live'.recs = <<>> \/ live' = live
        /\ bak' = bak \/ bak'.recs = <<>>
    BY <1>22, Constants DEF RemoveBackupFails
  <2>5. ASSUME NEW t \in Sessions PROVE AllowedFor(t)'
    <3>1. RecordsOf(bak'.recs, t) # {} => Fits(t, Latest(bak'.recs, t))
      BY <2>1, <2>2, <2>4, NothingRecorded DEF AllowedFor
    <3> QED
      BY <1>22, <2>1, <2>2, <2>3, <2>4, <3>1 DEF RemoveBackupFails, AllowedFor, Fits, OnDisk
  <2> QED
    BY <2>1, <2>5 DEF Allowed, Working
<1>23. ASSUME Release PROVE Allowed'
  <2>1. /\ op.pc = "done" /\ op.kind \in Working /\ Up /\ live.exists /\ op.s \in Sessions
        /\ op'.kind = "none" /\ op'.pc = "idle"
        /\ UNCHANGED <<entries, snapshot, live, bak, dirs>>
    BY <1>23, OpIs, ReleaseIs DEF Sound, Shape
  <2>2. /\ entries[op.s] = Logged /\ Replayed(op.s) = Logged
        /\ op.kind \in {"create", "update"} => dirs[op.s] = op.title /\ op.title \in AllTitles
        /\ op.kind = "delete" => dirs[op.s] \in Gone
    BY <2>1, OpIs DEF Sound, Progress, Ending
  <2>3. \A t \in Sessions : AllowedFor(t) /\ Replayed(t)' = Replayed(t) /\ OnDisk(t)' = OnDisk(t)
    BY <2>1, ReplayedKept DEF Sound, Allowed, OnDisk
  <2> DEFINE narrowed == (op.kind = "update" \/ op.rollback) /\ CallsAt(op.s, Outside) = {}
  <2>4. allowed' = IF narrowed THEN [allowed EXCEPT ![op.s] = Certain] ELSE allowed
    BY <1>23 DEF Release
  <2>5. ASSUME NEW t \in Sessions, t # op.s \/ ~narrowed PROVE AllowedFor(t)'
    <3>1. allowed'[t] = allowed[t]
      BY <2>4, <2>5 DEF Sound, Shape, TypeOK
    <3> QED
      BY <2>1, <2>3, <3>1, AllowedMore
  <2>6. ASSUME NEW t \in Sessions, t = op.s, narrowed PROVE AllowedFor(t)'
    <3>1. op.kind \in {"update", "create", "delete"}
      BY <2>6 DEF Sound, Shape, OpShape
    <3>2. allowed'[t] = {Logged}
      BY <2>4, <2>6, <3>1 DEF Sound, Shape, TypeOK, Certain, Logged
    <3>3. OnDisk(t) = Logged
      BY <2>2, <2>6, <3>1, Constants DEF OnDisk, Logged, Gone
    <3> QED
      BY <2>1, <2>2, <2>3, <2>6, <3>2, <3>3 DEF AllowedFor, Fits
  <2> QED
    BY <2>1, <2>5, <2>6 DEF Allowed, Working
<1>24. ASSUME Elsewhere PROVE Allowed'
  <2>1. UNCHANGED <<entries, snapshot, live, bak, dirs, op>>
    BY <1>24, ElsewhereIs DEF Sound, Shape
  <2>2. \A t \in Sessions : AllowedFor(t) /\ Replayed(t)' = Replayed(t) /\ OnDisk(t)' = OnDisk(t)
    BY <2>1, ReplayedKept DEF Sound, Allowed, OnDisk
  <2>3. ASSUME NEW t \in Sessions, allowed[t] \subseteq allowed'[t] PROVE AllowedFor(t)'
    BY <2>1, <2>2, <2>3, AllowedMore DEF Up
  <2>4. op.kind \in Working => op.s \in Sessions
    BY TitlesRecorded DEF Sound, Shape
  <2>5. (\A t \in Sessions : allowed[t] \subseteq allowed'[t]) => Allowed'
    BY <2>1, <2>3, <2>4 DEF Sound, Allowed, Working
  <2>6. PICK c \in Clients :
          StoreRow(c) \/ StoreRowFails(c) \/ Refuse(c) \/ \E s \in Sessions : ReadList(c, s)
    BY <1>24 DEF Elsewhere
  <2>7. CASE StoreRowFails(c) \/ Refuse(c)
    <3>1. allowed' = allowed
      BY <2>7 DEF StoreRowFails, Refuse
    <3> QED
      BY <2>5, <3>1
  <2>8. ASSUME NEW s \in Sessions, ReadList(c, s) PROVE Allowed'
    <3>1. allowed' = [allowed EXCEPT ![s] = @ \cup {None}]
      BY <2>8 DEF ReadList
    <3>2. \A t \in Sessions : allowed[t] \subseteq allowed'[t]
      BY <3>1 DEF Sound, Shape, TypeOK
    <3> QED
      BY <2>5, <3>2
  <2>9. ASSUME StoreRow(c), calls[c].s \in crossed PROVE Allowed'
    <3>1. allowed' = allowed
      BY <2>9 DEF StoreRow
    <3> QED
      BY <2>5, <3>1
  <2>10. ASSUME StoreRow(c), calls[c].s \notin crossed PROVE Allowed'
    <3>0. PICK s \in Sessions : s = calls[c].s
      BY CallIs DEF Sound
    <3>1. /\ calls[c].at = "row" /\ calls[c].kind \in {"create", "delete"} /\ Up
          /\ calls[c].kind = "delete" => entries[s] = None /\ dirs[s] \in Gone
          /\ calls[c].kind = "create" => entries[s] # None /\ dirs[s] \in AllTitles
      <4>1. calls[c].at = "row"
        BY <2>10 DEF StoreRow
      <4> QED
        BY <2>10, <3>0, <4>1, CallIs
           DEF Sound, CallsProgress, CallProgress, CallFits, UnderWay, Outside
    <3>2. /\ allowed' = [allowed EXCEPT ![s] = Promised(c)]
          /\ calls[c].kind = "delete" => Promised(c) = {None}
          /\ calls[c].kind = "create" => Promised(c) = allowed[s] \ {None}
      BY <2>10, <3>0, <3>1 DEF StoreRow, Promised
    <3>3. allowed'[s] = Promised(c) /\ \A t \in Sessions \ {s} : allowed'[t] = allowed[t]
      BY <3>1, <3>2 DEF Sound, Shape, TypeOK
    <3>4. AllowedFor(s)'
      <4>1. CASE calls[c].kind = "delete"
        BY <2>1, <2>2, <3>1, <3>2, <3>3, <4>1, Constants DEF AllowedFor, Fits, OnDisk, Gone
      <4>2. CASE calls[c].kind = "create"
        BY <2>1, <2>2, <3>1, <3>2, <3>3, <4>2, Constants DEF AllowedFor, Fits, OnDisk
      <4> QED
        BY <3>1, <4>1, <4>2
    <3>5. \A t \in Sessions : AllowedFor(t)'
      BY <2>3, <3>3, <3>4
    <3>6. op.kind \in {"create", "delete"} => op.s # s
      BY <2>10, <3>0, <3>1, OpElsewhere DEF Sound, Outside
    <3>7. ASSUME op.kind \in {"update", "touch"}, op.s = s PROVE op.title \in allowed'[s]
      <4>1. op.title \in AllTitles /\ op.title \in allowed[s] /\ op.title # None
        BY <3>7, Constants DEF Sound, Shape, OpShape, Allowed, Working
      <4>2. op.pc \in {"log", "metadata"} \cup Ending
        BY <3>7 DEF Sound, Shape, OpShape
      <4>3. entries[s] # None
        BY <3>1, <3>7, <4>1, <4>2 DEF Sound, Progress, Logged
      <4> QED
        BY <3>1, <3>2, <3>3, <4>1, <4>3
    <3> QED
      BY <2>1, <2>4, <3>3, <3>5, <3>6, <3>7 DEF Sound, Allowed, Working
  <2> QED
    BY <2>6, <2>7, <2>8, <2>9, <2>10
<1>25. ASSUME Crash PROVE Allowed'
  <2>1. ~Up' /\ op'.pc = "down" /\ op'.kind = "recover"
    BY <1>25, IdleIs DEF Crash, Up
  <2>2. \A t \in Sessions : AllowedFor(t)
    BY DEF Sound, Allowed
  <2>3. /\ \A t \in Sessions : Fits(t, Replayed(t))'
        /\ live.exists => live'.exists
    <3>1. CASE At("log")
      <4>1. /\ op.s \in Sessions /\ Fits(op.s, Logged) /\ Logged \in AllTitles \cup {None}
        BY <3>1, OpIs DEF At, Sound, Allowed, Fits, Logged
      <4> QED
        BY <1>25, <2>2, <3>1, <4>1, AllowedLeft DEF Crash, Sound, AllowedFor
    <3>2. CASE ~At("log")
      BY <1>25, <2>2, <3>2, ReplayedKept DEF Crash, AllowedFor, Fits, OnDisk
    <3> QED
      BY <3>1, <3>2
  <2>4. \A t \in Sessions : entries'[t] = None
    BY <1>25 DEF Crash, Nobody
  <2>5. ASSUME NEW t \in Sessions PROVE AllowedFor(t)'
    BY <1>25, <2>1, <2>2, <2>3, <2>4 DEF Crash, AllowedFor, Fits, OnDisk
  <2> QED
    BY <2>1, <2>5 DEF Allowed, Working
<1>26. ASSUME Load PROVE Allowed'
  <2>1. op.kind = "recover" /\ op'.kind = "recover" /\ op'.pc \in {"snapshot", "audit"}
    BY <1>26, TitlesRecorded, Goes
       DEF Load, At, Sound, Shape, OpShape, Operation, Ending, Rotation, Steps
  <2>2. \A t \in Sessions : AllowedFor(t) /\ Replayed(t)' = Replayed(t)
    BY <1>26, ReplayedKept DEF Load, disk, Sound, Allowed
  <2>3. \A t \in Sessions : entries'[t] \in {OnDisk(t), Replayed(t)}
    BY <1>26 DEF Load, Loaded, Scanned, Replayed
  <2>4. ASSUME NEW t \in Sessions PROVE AllowedFor(t)'
    BY <1>26, <2>1, <2>2, <2>3 DEF Load, disk, AllowedFor, Fits, OnDisk, Up
  <2> QED
    BY <2>1, <2>4 DEF Allowed, Working
<1>27. ASSUME RebuildSnapshot PROVE Allowed'
  BY <1>27, ReplayedOver, Goes
     DEF RebuildSnapshot, NewSnapshot, Sound, Shape, TypeOK, Allowed, AllowedFor, Fits,
         OnDisk, Up, Steps
<1>28. ASSUME Serve PROVE Allowed'
  BY <1>28, ReplayedKept, IdleIs
     DEF Serve, Sound, Allowed, AllowedFor, Fits, OnDisk, Audited, Working
<1>29. CASE UNCHANGED vars
  <2>1. UNCHANGED <<entries, snapshot, live, bak, dirs, op, allowed>>
    BY <1>29 DEF vars, disk
  <2>2. \A t \in Sessions : Replayed(t)' = Replayed(t)
    BY <2>1, ReplayedKept
  <2>3. ASSUME NEW t \in Sessions PROVE AllowedFor(t)'
    <3>1. AllowedFor(t)
      BY <2>1 DEF Sound, Allowed
    <3> QED
      BY <2>1, <2>2, <3>1, AllowedMore DEF OnDisk, Up
  <2> QED
    BY <2>1, <2>3 DEF Sound, Allowed
<1> QED
  BY <1>1, <1>2, <1>3, <1>4, <1>5, <1>6, <1>7, <1>8, <1>9, <1>10, <1>11, <1>12, <1>13,
     <1>14, <1>15, <1>16, <1>17, <1>18, <1>19, <1>20, <1>21, <1>22, <1>23, <1>24, <1>25,
     <1>26, <1>27, <1>28, <1>29
     DEF Next, TitleFromEvent, Locks, Elsewhere

\* Only these steps change what a client may find.
LEMMA AllowedChanges ==
  ASSUME [Next]_vars
  PROVE  Locks \/ Elsewhere \/ Release \/ Undo \/ allowed' = allowed
<1>1. ASSUME NEW s \in Sessions, AuditSession(s) \/ AuditFails(s) \/ LateAppend(s)
      PROVE  allowed' = allowed
  BY <1>1 DEF AuditSession, AuditFails, LateAppend
<1>2. ASSUME \/ AppendLog \/ AppendLogFails \/ Publish \/ PublishFails \/ WriteMetadata
             \/ MetadataFails \/ RemoveDirectory \/ RemoveFails \/ UndoFails
      PROVE  allowed' = allowed
  BY <1>2 DEF AppendLog, AppendLogFails, Publish, PublishFails, WriteMetadata,
              MetadataFails, RemoveDirectory, RemoveFails, UndoFails
<1>3. ASSUME \/ Compact \/ SnapshotFails \/ RotateLog \/ RotateFails \/ SwapLog \/ SwapFails
             \/ RemoveBackup \/ RemoveBackupFails \/ Crash \/ Load \/ RebuildSnapshot \/ Serve
      PROVE  allowed' = allowed
  BY <1>3 DEF Compact, SnapshotFails, RotateLog, RotateFails, SwapLog, SwapFails,
              RemoveBackup, RemoveBackupFails, Crash, Load, RebuildSnapshot, Serve
<1>4. CASE UNCHANGED vars
  BY <1>4 DEF vars
<1> QED
  BY <1>1, <1>2, <1>3, <1>4 DEF Next, TitleFromEvent, Locks, Elsewhere

\* Every step leaves a client with a creation or deletion under way both outcomes.
LEMMA CallsAllowedStep == Sound /\ [Next]_vars => CallsAllowed'
<1> SUFFICES ASSUME Sound, [Next]_vars, NEW c \in Clients, calls'[c].kind # "none"
             PROVE  {None, calls'[c].title} \subseteq allowed'[calls'[c].s]
  BY DEF CallsAllowed
<1> DEFINE Goal == {None, calls'[c].title} \subseteq allowed'[calls'[c].s]
<1>1. Shape /\ Alone /\ NoCall.kind = "none"
  BY NoCallIs DEF Sound
<1>2. /\ CallFits(c) /\ calls[c].s \in Sessions
      /\ calls[c].kind # "none" => calls[c].at \in UnderWay
      /\ calls[c].kind # "none" => {None, calls[c].title} \subseteq allowed[calls[c].s]
  BY <1>1, CallIs DEF Sound, CallsAllowed
<1>3. ASSUME calls[c].kind # "none", calls'[c].title = calls[c].title, calls'[c].s = calls[c].s,
             allowed[calls[c].s] \subseteq allowed'[calls[c].s]
      PROVE  Goal
  BY <1>2, <1>3
<1>4. /\ allowed \in [Sessions -> SUBSET (AllTitles \cup {None})]
      /\ op.s \in Sessions
  BY <1>1, TitlesRecorded DEF Shape, TypeOK
<1>5. CASE Locks
  <2>1. LockedFor
    BY <1>5, LocksAllow
  <2>2. ASSUME NEW s \in Sessions, BeginTouch(s) \/ \E t \in Titles : BeginUpdate(s, t)
        PROVE  Goal
    <3>1. calls' = calls
      BY <1>1, <2>2, TouchIs DEF Shape
    <3> QED
      BY <1>2, <1>3, <2>1, <3>1 DEF LockedFor
  <2>3. ASSUME NEW d \in Clients, NEW s \in Sessions, BeginCreate(d, s)
        PROVE  Goal
    <3>1. /\ allowed' = [allowed EXCEPT ![s] = {None, Untitled}]
          /\ calls'[d].s = s /\ calls'[d].title = Untitled
          /\ (c # d => calls'[c] = calls[c])
      BY <1>1, <2>3, CreateIs DEF Shape
    <3>2. CASE c = d
      BY <1>4, <3>1, <3>2
    <3>3. CASE c # d
      BY <1>2, <1>3, <2>1, <3>1, <3>3 DEF LockedFor
    <3> QED
      BY <3>2, <3>3
  <2>4. ASSUME NEW d \in Clients, BeginDelete(d) \/ BeginRollback(d)
        PROVE  Goal
    <3>1. PICK kind \in {"create", "delete"}, title \in AllTitles \cup {None} :
            Lock(d, kind, title)
      BY <1>1, <2>4, DeleteIs DEF Shape
    <3>2. /\ calls'[c].kind = calls[c].kind /\ calls'[c].s = calls[c].s
          /\ calls'[c].title = calls[c].title
      BY <1>1, <3>1, LockIs DEF Shape
    <3> QED
      BY <1>2, <1>3, <2>1, <3>2 DEF LockedFor
  <2> QED
    BY <1>5, <2>2, <2>3, <2>4 DEF Locks
<1>6. CASE Elsewhere
  <2>1. PICK d \in Clients :
          StoreRow(d) \/ StoreRowFails(d) \/ Refuse(d) \/ \E s \in Sessions : ReadList(d, s)
    BY <1>6 DEF Elsewhere
  <2>2. /\ c # d => calls'[c] = calls[c]
        /\ \/ StoreRow(d) /\ calls'[d] = NoCall /\ calls[d].at = "row"
           \/ /\ StoreRowFails(d) /\ calls[d].at = "row"
              /\ \/ calls'[d] = NoCall
                 \/ calls'[d].kind = calls[d].kind /\ calls'[d].s = calls[d].s
                    /\ calls'[d].title = calls[d].title
           \/ Refuse(d) /\ calls'[d] = NoCall
           \/ /\ calls'[d].s \in Sessions /\ ReadList(d, calls'[d].s)
              /\ calls'[d].title = entries[calls'[d].s] /\ Up
    BY <1>1, <2>1, ElsewhereCalls
  <2>3. ASSUME StoreRow(d), calls'[d] = NoCall, calls[d].at = "row" PROVE Goal
    <3>1. c # d /\ calls'[c] = calls[c]
      BY <1>1, <2>2, <2>3
    <3>2. calls[d].kind # "none"
      BY <1>1, <2>3, CallIs DEF UnderWay, Outside
    <3>3. calls[d].s \notin crossed => calls[c].s # calls[d].s
      BY <1>1, <3>1, <3>2 DEF Alone
    <3>4. allowed'[calls[c].s] = allowed[calls[c].s]
      BY <1>2, <1>4, <2>3, <3>3 DEF StoreRow
    <3> QED
      BY <1>3, <3>1, <3>4
  <2>4. ASSUME StoreRowFails(d) \/ Refuse(d),
               \/ calls'[d] = NoCall
               \/ calls'[d].kind = calls[d].kind /\ calls'[d].s = calls[d].s
                  /\ calls'[d].title = calls[d].title
        PROVE  Goal
    <3>1. allowed' = allowed
      BY <2>4 DEF StoreRowFails, Refuse
    <3> QED
      BY <1>1, <1>2, <1>3, <2>2, <2>4, <3>1
  <2>5. ASSUME calls'[d].s \in Sessions, ReadList(d, calls'[d].s),
               calls'[d].title = entries[calls'[d].s], Up
        PROVE  Goal
    <3> DEFINE s == calls'[d].s
    <3>1. allowed' = [allowed EXCEPT ![s] = @ \cup {None}]
      BY <2>5 DEF ReadList
    <3>2. CASE c = d
      <4>1. entries[s] \in allowed[s]
        BY <2>5 DEF Sound, Allowed, AllowedFor
      <4> QED
        BY <1>4, <2>5, <3>1, <3>2, <4>1
    <3>3. CASE c # d
      <4>1. allowed[calls[c].s] \subseteq allowed'[calls[c].s]
        BY <1>2, <1>4, <3>1
      <4> QED
        BY <1>3, <2>2, <3>3, <4>1
    <3> QED
      BY <3>2, <3>3
  <2>6. Goal
    <3> HIDE DEF Goal
    <3> QED
      BY ONLY <2>2, <2>3, <2>4, <2>5
  <2> QED
    BY <2>6
<1>7. CASE Release
  <2>1. /\ calls[c].at # "index" => calls'[c] = calls[c]
        /\ calls[c].at = "index" /\ op.rollback => calls'[c] = NoCall
        /\ calls[c].at = "index" /\ ~op.rollback =>
             /\ calls'[c].kind = calls[c].kind
             /\ calls'[c].s = calls[c].s /\ calls'[c].title = calls[c].title
    BY <1>1, <1>7, ReleaseIs DEF Shape
  <2>2. calls[c].kind # "none" /\ calls'[c].s = calls[c].s /\ calls'[c].title = calls[c].title
        /\ (calls[c].at = "index" => ~op.rollback)
    BY <1>1, <2>1
  <2>3. calls[c].s = op.s => ~((op.kind = "update" \/ op.rollback) /\ CallsAt(op.s, Outside) = {})
    <3>1. CASE calls[c].at = "index"
      BY <1>2, <2>2, <3>1 DEF CallFits
    <3>2. CASE calls[c].at \in Outside
      BY <3>2 DEF CallsAt
    <3> QED
      BY <1>2, <2>2, <3>1, <3>2 DEF UnderWay
  <2>4. allowed'[calls[c].s] = allowed[calls[c].s]
    BY <1>2, <1>4, <1>7, <2>3 DEF Release
  <2> QED
    BY <1>3, <2>2, <2>4
<1>8. CASE Undo
  <2>1. calls'[c] = IF calls[c].at = "index" THEN NoCall ELSE calls[c]
    BY <1>8, Ends DEF Undo
  <2>2. calls'[c] = calls[c] /\ calls[c].kind # "none" /\ calls[c].at \in Outside
    BY <1>1, <1>2, <2>1 DEF UnderWay
  <2>3. calls[c].s = op.s => Disturbed
    BY <2>2 DEF Disturbed, CallsAt
  <2>4. allowed'[calls[c].s] = allowed[calls[c].s]
    BY <1>2, <1>4, <1>8, <2>3 DEF Undo
  <2> QED
    BY <1>3, <2>2, <2>4
<1>9. CASE allowed' = allowed /\ (calls'[c] = calls[c] \/ calls'[c] = NoCall)
  BY <1>1, <1>2, <1>9
<1>10. Fail \/ Crash \/ Serve \/ UNCHANGED calls => calls'[c] = calls[c] \/ calls'[c] = NoCall
  BY Ends DEF Crash, Serve
<1> QED
  BY <1>1, <1>5, <1>6, <1>7, <1>8, <1>9, <1>10, CallsMove, AllowedChanges
-----------------------------------------------------------------------------
(* Snapshot and log are the list *)

\* Where neither is written and nothing new is promised of them, they stay the list.
LEMMA LogStaysList ==
  ASSUME LogIsList, UNCHANGED <<entries, snapshot, live, health>>, op.pc # "metadata",
         Up' \/ op'.pc = "audit" => Up \/ op.pc = "audit",
         op'.pc \notin {"swap", "clean"}
  PROVE  LogIsList'
BY ReplayedKept DEF LogIsList

\* Every step keeps snapshot and log the list.
LEMMA LogIsListStep == Sound /\ [Next]_vars => LogIsList'
<1> SUFFICES ASSUME Sound, [Next]_vars PROVE LogIsList'
  OBVIOUS
<1>1. ASSUME Locks PROVE LogIsList'
  <2>1. Up /\ op.kind = "none" /\ op'.pc = "log" /\ UNCHANGED <<entries, snapshot, live, health>>
    BY <1>1, LocksAre DEF Sound, Shape, CallShape, Up
  <2> QED
    BY <2>1, LogStaysList DEF Sound, Shape, OpShape
<1>2. ASSUME NEW s \in Sessions, AuditSession(s) PROVE LogIsList'
  <2> DEFINE x == Audited(entries, s)
  <2>1. /\ ~Up /\ op.pc = "audit" /\ op' = op /\ live'.stray = live.stray
        /\ live'.recs = Append(live.recs, [s |-> s, title |-> x])
        /\ x \in AllTitles \cup {None} /\ health' = health
    BY <1>2, TitlesRecorded, AuditedIs, Appended
       DEF AuditSession, At, Sound, Shape, OpShape, Operation, Ending, Rotation, Up
  <2> HIDE DEF x
  <2>2. \A t \in Sessions : Replayed(t)' = IF t = s THEN x ELSE Replayed(t)
    BY <1>2, <2>1, ReplayedGrows DEF AuditSession, Sound, Shape
  <2>3. \A t \in Sessions : entries'[t] = IF t = s THEN x ELSE entries[t]
    BY <1>2 DEF AuditSession, Sound, Shape, TypeOK, Entries, x
  <2> QED
    BY <2>1, <2>2, <2>3 DEF Sound, LogIsList, Up
<1>3. ASSUME NEW s \in Sessions, AuditFails(s) PROVE LogIsList'
  <2>1. ~Up /\ ~Up' /\ op'.pc = "down"
    BY <1>3, TitlesRecorded, Ends
       DEF AuditFails, At, Sound, Shape, OpShape, Operation, Ending, Rotation, Up
  <2> QED
    BY <2>1 DEF LogIsList
<1>4. ASSUME AppendLog PROVE LogIsList'
  <2>1. /\ op.pc = "log" /\ Up /\ Up' /\ op.s \in Sessions /\ op'.s = op.s
        /\ op.kind \in Working /\ op'.pc \in {"publish", "remove", "metadata"}
        /\ op.kind \in {"update", "touch"} => op'.pc = "metadata"
    BY <1>4, OpIs, TitlesRecorded, Goes
       DEF AppendLog, At, AfterLog, Sound, Shape, Up, Steps
  <2>2. /\ live'.stray = live.stray
        /\ live'.recs = Append(live.recs, [s |-> op.s, title |-> Logged])
    BY <1>4, TitlesRecorded, Appended DEF AppendLog, Sound, Shape
  <2>3. \A t \in Sessions : Replayed(t)' = IF t = op.s THEN Logged ELSE Replayed(t)
    BY <1>4, <2>1, <2>2, TitlesRecorded, ReplayedGrows DEF AppendLog, Sound, Shape
  <2>4. \A t \in Sessions : entries'[t] = IF t = op.s /\ op.kind \in {"create", "delete"}
                                          THEN Logged ELSE entries[t]
    BY <1>4 DEF AppendLog, Sound, Shape, TypeOK, Entries
  <2> QED
    BY <1>4, <2>1, <2>2, <2>3, <2>4 DEF AppendLog, Sound, LogIsList, Working
<1>5. ASSUME AppendLogFails PROVE LogIsList'
  <2>1. op.pc = "log" /\ Up /\ op'.pc = "idle"
    BY <1>5, OpIs, Ends DEF AppendLogFails, At, Sound
  <2>2. live' = live \/ live'.stray
    BY <1>5, TitlesRecorded, LiveFailed DEF AppendLogFails, Sound, Shape
  <2>3. CASE live' = live
    BY <1>5, <2>1, <2>3, LogStaysList DEF AppendLogFails, Sound
  <2>4. CASE live'.stray
    BY <2>1, <2>4 DEF LogIsList
  <2> QED
    BY <2>2, <2>3, <2>4
<1>6. ASSUME Publish PROVE LogIsList'
  <2>1. /\ op.pc # "metadata" /\ op'.pc \notin {"swap", "clean"}
        /\ Up' \/ op'.pc = "audit" => Up \/ op.pc = "audit"
    BY <1>6, TitlesRecorded, Goes DEF Publish, At, Sound, Shape, Steps, Up
  <2>2. UNCHANGED <<entries, snapshot, live, health>>
    BY <1>6 DEF Publish, disk
  <2> QED
    BY <2>1, <2>2, LogStaysList DEF Sound
<1>7. ASSUME PublishFails PROVE LogIsList'
  <2>1. /\ op.pc # "metadata" /\ op'.pc \notin {"swap", "clean"}
        /\ Up' \/ op'.pc = "audit" => Up \/ op.pc = "audit"
    BY <1>7, TitlesRecorded, Goes DEF PublishFails, At, Sound, Shape, Steps, Up
  <2>2. UNCHANGED <<entries, snapshot, live, health>>
    BY <1>7 DEF PublishFails, disk
  <2> QED
    BY <2>1, <2>2, LogStaysList DEF Sound
<1>8. ASSUME WriteMetadata PROVE LogIsList'
  <2>1. /\ op.pc = "metadata" /\ op'.pc = "compact" /\ Up /\ op.s \in Sessions
        /\ Replayed(op.s) = op.title
    BY <1>8, OpIs, TitlesRecorded, Goes
       DEF WriteMetadata, At, Sound, Shape, Progress, Steps
  <2>2. \A t \in Sessions : entries'[t] = IF t = op.s THEN op.title ELSE entries[t]
    BY <1>8 DEF WriteMetadata, Sound, Shape, TypeOK, Entries
  <2>3. \A t \in Sessions : Replayed(t)' = Replayed(t)
    BY <1>8, ReplayedKept DEF WriteMetadata
  <2> QED
    BY <1>8, <2>1, <2>2, <2>3 DEF WriteMetadata, Sound, LogIsList
<1>9. ASSUME MetadataFails PROVE LogIsList'
  <2>1. op'.pc \in {"idle", "down"} /\ health' = "RepairRequired"
    BY <1>9, Ends DEF MetadataFails, MarkRepair
  <2> QED
    BY <2>1 DEF LogIsList
<1>10. ASSUME RemoveDirectory PROVE LogIsList'
  <2>1. /\ op.pc # "metadata" /\ op'.pc \notin {"swap", "clean"}
        /\ Up' \/ op'.pc = "audit" => Up \/ op.pc = "audit"
    BY <1>10, TitlesRecorded, Goes DEF RemoveDirectory, At, Sound, Shape, Steps, Up
  <2>2. UNCHANGED <<entries, snapshot, live, health>>
    BY <1>10 DEF RemoveDirectory, disk
  <2> QED
    BY <2>1, <2>2, LogStaysList DEF Sound
<1>11. ASSUME RemoveFails PROVE LogIsList'
  <2>1. /\ op.pc # "metadata" /\ op'.pc \notin {"swap", "clean"}
        /\ Up' \/ op'.pc = "audit" => Up \/ op.pc = "audit"
    BY <1>11, OpIs, TitlesRecorded, Goes, Ends DEF RemoveFails, At, Sound, Shape, Steps
  <2>2. UNCHANGED <<entries, snapshot, live, health>>
    BY <1>11 DEF RemoveFails, disk
  <2> QED
    BY <2>1, <2>2, LogStaysList DEF Sound
<1>12. ASSUME NEW s \in Sessions, LateAppend(s) PROVE LogIsList'
  <2>1. UNCHANGED <<entries, snapshot, live, health, bak, op>>
    BY <1>12 DEF LateAppend
  <2> QED
    BY <2>1, ReplayedKept DEF Sound, LogIsList, Up
<1>13. ASSUME Undo PROVE LogIsList'
  <2>1. op.pc = "undo" /\ Up /\ op'.pc = "idle"
    BY <1>13, OpIs, Ends DEF Undo, At, Sound
  <2>2. /\ live'.stray = live.stray
        /\ live'.recs = Append(live.recs, [s |-> op.s, title |-> Restored])
    BY <1>13, TitlesRecorded, Appended DEF Undo, Undone, Sound, Shape
  <2>3. \A t \in Sessions : Replayed(t)' = IF t = op.s THEN Restored ELSE Replayed(t)
    BY <1>13, <2>1, <2>2, TitlesRecorded, ReplayedGrows DEF Undo, Sound, Shape
  <2>4. \A t \in Sessions : entries'[t] = IF t = op.s THEN Restored ELSE entries[t]
    BY <1>13 DEF Undo, Sound, Shape, TypeOK, Entries
  <2> QED
    BY <1>13, <2>1, <2>2, <2>3, <2>4 DEF Undo, Sound, LogIsList
<1>14. ASSUME UndoFails PROVE LogIsList'
  <2>1. op'.pc \in {"idle", "down"} /\ health' = "RepairRequired"
    BY <1>14, Ends DEF UndoFails, MarkRepair
  <2> QED
    BY <2>1 DEF LogIsList
<1>15. ASSUME Compact PROVE LogIsList'
  <2>1. op.pc = "compact" /\ Up /\ op'.pc \in {"done", "rotate"}
    BY <1>15, OpIs, TitlesRecorded, Goes DEF Compact, At, Sound, Shape, Steps
  <2>2. \A t \in Sessions : Replayed(t)' \in {entries[t], Replayed(t)}
    BY <1>15, ReplayedKept, ReplayedOver DEF Compact, NewSnapshot
  <2> QED
    BY <1>15, <2>1, <2>2 DEF Compact, Sound, LogIsList
<1>16. ASSUME SnapshotFails PROVE LogIsList'
  <2>1. /\ op.pc # "metadata" /\ op'.pc \in {"idle", "down"} /\ (Up' => Up)
    BY <1>16, Ends DEF SnapshotFails, At, Up
  <2>2. \A t \in Sessions : Replayed(t)' \in {entries[t], Replayed(t)}
    BY <1>16, ReplayedKept, ReplayedOver DEF SnapshotFails, NewSnapshot
  <2> QED
    BY <1>16, <2>1, <2>2 DEF SnapshotFails, Sound, LogIsList
<1>17. ASSUME RotateLog PROVE LogIsList'
  <2>1. op.pc = "rotate" /\ op'.pc = "swap" /\ (Up' => Up) /\ snapshot = entries
    BY <1>17, TitlesRecorded, Goes
       DEF RotateLog, At, Sound, Shape, Rotating, Rotation, Steps, Up
  <2>2. \A t \in Sessions : Replayed(t)' = entries'[t]
    BY <1>17, <2>1, ReplayedFresh, ShapeStep, Constants DEF RotateLog, Sound, Shape
  <2>3. Up => bak' = live /\ health = "Healthy"
    BY <1>17, <2>1 DEF RotateLog, Sound, Shape, OpShape, HealthShape, Rotating, Steps
  <2>4. \A t \in Sessions : RecordsOf(live.recs, t) # {} => Replayed(t) = Latest(live.recs, t)
    BY OverlayIs DEF Replayed
  <2> QED
    BY <1>17, <2>1, <2>2, <2>3, <2>4 DEF RotateLog, Sound, LogIsList
<1>18. ASSUME RotateFails PROVE LogIsList'
  <2>1. /\ op.pc # "metadata" /\ op'.pc \notin {"swap", "clean"}
        /\ Up' \/ op'.pc = "audit" => Up \/ op.pc = "audit"
    BY <1>18, Ends DEF RotateFails, At, Up
  <2>2. UNCHANGED <<entries, snapshot, live, health>>
    BY <1>18 DEF RotateFails, disk
  <2> QED
    BY <2>1, <2>2, LogStaysList DEF Sound
<1>19. ASSUME SwapLog PROVE LogIsList'
  <2>1. op.pc = "swap" /\ op'.pc = "clean" /\ (Up' => Up) /\ snapshot = entries
    BY <1>19, TitlesRecorded, Goes DEF SwapLog, At, Sound, Shape, Rotating, Rotation, Steps, Up
  <2>2. \A t \in Sessions : Replayed(t)' = entries'[t]
    BY <1>19, <2>1, ReplayedFresh, ShapeStep, Constants DEF SwapLog, Sound, Shape
  <2> QED
    BY <1>19, <2>1, <2>2 DEF SwapLog, Sound, LogIsList
<1>20. ASSUME SwapFails PROVE LogIsList'
  <2>1. /\ op.pc = "swap" /\ snapshot = entries /\ op'.pc \in {"idle", "down"} /\ (Up' => Up)
    BY <1>20, Ends DEF SwapFails, At, Sound, Shape, Rotating, Rotation, Up
  <2>2. \/ live' = bak \/ live' = EmptyLog
        \/ Up => health' = "RepairRequired"
    BY <1>20, TitlesRecorded, RollbackFailsIs DEF SwapFails, Sound, Shape
  <2>3. UNCHANGED <<entries, snapshot>>
    BY <1>20 DEF SwapFails
  <2>4. CASE Up => health' = "RepairRequired"
    BY <2>1, <2>4 DEF LogIsList
  <2>5. CASE live' = EmptyLog
    <3>1. \A t \in Sessions : Replayed(t)' = entries'[t]
      BY <2>1, <2>3, <2>5, ReplayedFresh, ShapeStep, Constants DEF Sound, Shape
    <3> QED
      BY <2>1, <3>1 DEF LogIsList
  <2>6. CASE live' = bak
    <3>1. \A t \in Sessions :
            Replayed(t)' = IF RecordsOf(bak.recs, t) = {} THEN entries'[t] ELSE Latest(bak.recs, t)
      BY <2>1, <2>3, <2>6, ReplayedBackup
    <3> QED
      BY <2>1, <2>3, <2>6, <3>1 DEF Sound, LogIsList
  <2> QED
    BY <2>2, <2>4, <2>5, <2>6
<1>21. ASSUME RemoveBackup PROVE LogIsList'
  <2>1. op.pc = "clean" /\ op'.pc \in {"done", "audit"} /\ snapshot = entries /\ live = EmptyLog
    BY <1>21, TitlesRecorded, Goes
       DEF RemoveBackup, At, AfterClean, Sound, Shape, Rotating, Rotation, Steps
  <2>2. \A t \in Sessions : Replayed(t)' = entries'[t]
    BY <1>21, <2>1, ReplayedFresh, ShapeStep, Constants DEF RemoveBackup, Sound, Shape
  <2> QED
    BY <2>1, <2>2 DEF LogIsList
<1>22. ASSUME RemoveBackupFails PROVE LogIsList'
  <2>1. /\ op.pc = "clean" /\ snapshot = entries /\ op'.pc \in {"idle", "down"} /\ (Up' => Up)
    BY <1>22, Ends DEF RemoveBackupFails, At, Sound, Shape, Rotating, Rotation, Up
  <2>2. \/ live' = bak \/ live' = EmptyLog
        \/ Up => health' = "RepairRequired"
    BY <1>22, TitlesRecorded, RollbackFailsIs DEF RemoveBackupFails, Sound, Shape
  <2>3. UNCHANGED <<entries, snapshot>>
    BY <1>22 DEF RemoveBackupFails
  <2>4. CASE Up => health' = "RepairRequired"
    BY <2>1, <2>4 DEF LogIsList
  <2>5. CASE live' = EmptyLog
    <3>1. \A t \in Sessions : Replayed(t)' = entries'[t]
      BY <2>1, <2>3, <2>5, ReplayedFresh, ShapeStep, Constants DEF Sound, Shape
    <3> QED
      BY <2>1, <3>1 DEF LogIsList
  <2>6. CASE live' = bak
    <3>1. \A t \in Sessions :
            Replayed(t)' = IF RecordsOf(bak.recs, t) = {} THEN entries'[t] ELSE Latest(bak.recs, t)
      BY <2>1, <2>3, <2>6, ReplayedBackup
    <3> QED
      BY <2>1, <2>3, <2>6, <3>1 DEF Sound, LogIsList
  <2> QED
    BY <2>2, <2>4, <2>5, <2>6
<1>23. ASSUME Release PROVE LogIsList'
  <2>1. /\ op.pc # "metadata" /\ op'.pc \notin {"swap", "clean"}
        /\ Up' \/ op'.pc = "audit" => Up \/ op.pc = "audit"
        /\ UNCHANGED <<entries, snapshot, live, health>>
    BY <1>23, OpIs, ReleaseIs DEF Sound, Shape
  <2> QED
    BY <2>1, LogStaysList DEF Sound
<1>24. ASSUME Elsewhere PROVE LogIsList'
  <2>1. UNCHANGED <<entries, snapshot, live, bak, health, op>>
    BY <1>24, ElsewhereIs DEF Sound, Shape
  <2> QED
    BY <2>1, ReplayedKept DEF Sound, LogIsList, Up
<1>25. ASSUME Crash PROVE LogIsList'
  <2>1. ~Up' /\ op'.pc = "down"
    BY <1>25, IdleIs DEF Crash, Up
  <2> QED
    BY <2>1 DEF LogIsList
<1>26. ASSUME Load PROVE LogIsList'
  <2>1. ~Up' /\ op'.pc = (IF MustRebuild THEN "snapshot" ELSE "audit")
    BY <1>26, TitlesRecorded, Goes
       DEF Load, At, Sound, Shape, OpShape, Operation, Ending, Rotation, Steps, Up
  <2>2. ~MustRebuild => \A t \in Sessions : Replayed(t)' = entries'[t]
    BY <1>26 DEF Load, disk, Loaded, Replayed
  <2> QED
    BY <2>1, <2>2 DEF LogIsList
<1>27. ASSUME RebuildSnapshot PROVE LogIsList'
  <2>1. ~Up' /\ op'.pc = "rotate"
    BY <1>27, TitlesRecorded, Goes
       DEF RebuildSnapshot, At, Sound, Shape, OpShape, Operation, Ending, Rotation, Steps,
           Up
  <2> QED
    BY <2>1 DEF LogIsList
<1>28. ASSUME Serve PROVE LogIsList'
  <2>1. /\ op.pc # "metadata" /\ op'.pc \notin {"swap", "clean"}
        /\ Up' \/ op'.pc = "audit" => Up \/ op.pc = "audit"
    BY <1>28, IdleIs DEF Serve, At
  <2>2. UNCHANGED <<entries, snapshot, live, health>>
    BY <1>28 DEF Serve, disk
  <2> QED
    BY <2>1, <2>2, LogStaysList DEF Sound
<1>29. CASE UNCHANGED vars
  <2>1. UNCHANGED <<entries, snapshot, live, health, bak, op>>
    BY <1>29 DEF vars, disk
  <2> QED
    BY <2>1, ReplayedKept DEF Sound, LogIsList, Up
<1> QED
  BY <1>1, <1>2, <1>3, <1>4, <1>5, <1>6, <1>7, <1>8, <1>9, <1>10, <1>11, <1>12, <1>13,
     <1>14, <1>15, <1>16, <1>17, <1>18, <1>19, <1>20, <1>21, <1>22, <1>23, <1>24, <1>25,
     <1>26, <1>27, <1>28, <1>29
     DEF Next, TitleFromEvent, Locks, Elsewhere

-----------------------------------------------------------------------------
(* The rows of the store *)

\* As long as the process lives with one fault at most, it has been so before.
LEMMA FewBefore ==
  ASSUME Sound, FewFaults', health' = "Healthy" => health = "Healthy",
         count'.faults \in Nat, count'.faults >= count.faults,
         count'.compactFaults = count.compactFaults, count'.crashes = count.crashes
  PROVE  /\ RowsKept /\ Up
         /\ count'.faults = count.faults \/ (count.faults = 0 /\ count'.faults = 1)
         /\ count.faults \in {0, 1}
<1>1. count.faults \in Nat
  BY TitlesRecorded DEF Sound, Shape, Counts
<1>2. /\ count'.faults = count.faults \/ (count.faults = 0 /\ count'.faults = 1)
      /\ count.faults \in {0, 1}
  BY <1>1 DEF FewFaults
<1>3. FewFaults
  BY <1>1 DEF FewFaults
<1> QED
  BY <1>2, <1>3 DEF Sound, CrashFree, FewFaults

\* The client that is in the index has its creation or deletion alone, unless its session
\* is crossed.
LEMMA OpAlone ==
  ASSUME Shape, Alone, op.kind \in {"create", "delete"}
  PROVE  \E c \in Clients :
           /\ calls[c].at = "index" /\ calls[c].s = op.s /\ calls[c].kind \in {"create", "delete"}
           /\ op.rollback <=> op.kind # calls[c].kind
           /\ op.s \notin crossed =>
                \A d \in Clients \ {c} : calls[d].kind # "none" => calls[d].s # op.s
<1>1. PICK c \in Clients : calls[c].at = "index"
  BY DEF Shape, CallShape
<1>2. /\ calls[c].s = op.s /\ (op.rollback <=> op.kind # calls[c].kind)
      /\ calls[c].kind \in {"create", "delete"}
  BY <1>1, CallIs DEF CallFits
<1> QED
  BY <1>1, <1>2 DEF Alone

\* A step of an index call leaves the rows, and the list of any other session.
LEMMA RowsGoOn ==
  ASSUME Shape, Alone, RowsKept, UNCHANGED <<rows, calls, crossed>>, op'.rollback => op.rollback,
         op'.pc = "undo" /\ op'.s \notin crossed /\ op'.kind = "delete" => ~op'.rollback,
         count'.faults = count.faults \/ (count.faults = 0 /\ count'.faults = 1),
         \A t \in Sessions : \/ entries'[t] = None <=> entries[t] = None
                             \/ t = op.s /\ op.kind \in {"create", "delete"}
  PROVE  RowsKept'
<1>1. ASSUME NEW t \in Sessions \ crossed PROVE RowFits(t)'
  <2>1. /\ InCreation(t)' <=> InCreation(t)
        /\ InDeletion(t)' <=> InDeletion(t)
        /\ count'.faults = 0 => count.faults = 0
    BY DEF InCreation, InDeletion
  <2>2. RowFits(t)
    BY DEF RowsKept
  <2>3. CASE entries'[t] = None <=> entries[t] = None
    BY <2>1, <2>2, <2>3 DEF RowFits
  <2>4. CASE t = op.s /\ op.kind \in {"create", "delete"}
    <3>1. PICK c \in Clients :
            /\ calls[c].s = op.s /\ calls[c].kind \in {"create", "delete"}
            /\ op.rollback <=> op.kind # calls[c].kind
            /\ \A d \in Clients \ {c} : calls[d].kind # "none" => calls[d].s # op.s
      BY <2>4, OpAlone
    <3>2. CASE calls[c].kind = "create"
      <4>1. InCreation(t) /\ ~InDeletion(t)
        BY <2>4, <3>1, <3>2 DEF InCreation, InDeletion
      <4> QED
        BY <2>1, <2>2, <4>1 DEF RowFits
    <3>3. CASE calls[c].kind = "delete"
      <4>1. InDeletion(t) /\ ~InCreation(t)
        BY <2>4, <3>1, <3>3 DEF InCreation, InDeletion
      <4> QED
        BY <2>1, <2>2, <4>1 DEF RowFits
    <3> QED
      BY <3>1, <3>2, <3>3
  <2> QED
    BY <2>3, <2>4
<1> QED
  BY <1>1 DEF RowsKept

\* An index call that fails takes a creation off the list and leaves a deletion on it.
LEMMA RowsAnswered ==
  ASSUME Shape, Alone, RowsKept, Fail, Up, rows' = rows,
         count'.faults = count.faults \/ (count.faults = 0 /\ count'.faults = 1),
         \A t \in Sessions : t # op.s \/ op.kind \notin {"create", "delete"} =>
                               entries'[t] = entries[t],
         op.s \notin crossed /\ op.kind = "create" => entries'[op.s] = None,
         op.s \notin crossed /\ op.kind = "delete" => entries'[op.s] # None /\ ~op.rollback
  PROVE  RowsKept'
<1>1. /\ crossed' = crossed /\ ~op'.rollback /\ op'.pc = "idle"
      /\ \A c \in Clients : calls'[c] = IF calls[c].at = "index" THEN NoCall ELSE calls[c]
      /\ NoCall.kind = "none" /\ NoCall.at = "idle"
      /\ count'.faults = 0 => count.faults = 0
  BY Ends, NoCallIs
<1>2. ASSUME NEW t \in Sessions \ crossed PROVE RowFits(t)'
  <2>1. RowFits(t)
    BY DEF RowsKept
  <2>2. CASE t # op.s \/ op.kind \notin {"create", "delete"}
    <3>1. \A c \in Clients : calls[c].at = "index" => calls[c].s # t
      BY <2>2 DEF Shape, CallShape, CallFits
    <3>2. (InCreation(t)' <=> InCreation(t)) /\ (InDeletion(t)' <=> InDeletion(t))
      BY <1>1, <3>1 DEF InCreation, InDeletion
    <3> QED
      BY <1>1, <2>1, <2>2, <3>2 DEF RowFits
  <2>3. CASE t = op.s /\ op.kind \in {"create", "delete"}
    <3>1. PICK c \in Clients :
            /\ calls[c].at = "index" /\ calls[c].s = op.s
            /\ calls[c].kind \in {"create", "delete"}
            /\ op.rollback <=> op.kind # calls[c].kind
            /\ \A d \in Clients \ {c} : calls[d].kind # "none" => calls[d].s # op.s
      BY <2>3, OpAlone
    <3>2. ~InCreation(t)' /\ ~InDeletion(t)'
      BY <1>1, <2>3, <3>1 DEF InCreation, InDeletion
    <3>3. op.rollback => count'.faults # 0
      BY DEF RowsKept
    <3>4. /\ calls[c].kind = "create" => InCreation(t) /\ ~InDeletion(t)
          /\ calls[c].kind = "delete" => InDeletion(t) /\ ~InCreation(t)
      BY <2>3, <3>1 DEF InCreation, InDeletion
    <3>5. CASE op.kind = "create"
      <4>1. count'.faults = 0 => t \notin rows
        BY <1>1, <2>1, <3>1, <3>3, <3>4, <3>5 DEF RowFits
      <4> QED
        BY <2>3, <3>2, <3>5, <4>1 DEF RowFits
    <3>6. CASE op.kind = "delete"
      <4>1. t \in rows
        BY <2>1, <2>3, <3>1, <3>4, <3>6 DEF RowFits
      <4> QED
        BY <2>3, <3>2, <3>6, <4>1 DEF RowFits
    <3> QED
      BY <2>3, <3>5, <3>6
  <2> QED
    BY <2>2, <2>3
<1>3. ASSUME NEW c \in Clients, calls'[c].at = "back" PROVE count'.faults = 1
  BY <1>1, <1>3 DEF RowsKept
<1> QED
  BY <1>1, <1>2, <1>3 DEF RowsKept

\* A creation or deletion that moves on elsewhere leaves the sessions of all others.
LEMMA RowsOthers ==
  ASSUME NEW c \in Clients, NEW s \in Sessions,
         \A d \in Clients \ {c} : calls'[d] = calls[d],
         calls[c].kind # "none" => calls[c].s = s,
         calls'[c].kind # "none" => calls'[c].s = s
  PROVE  \A t \in Sessions \ {s} :
           (InCreation(t)' <=> InCreation(t)) /\ (InDeletion(t)' <=> InDeletion(t))
<1> SUFFICES ASSUME NEW t \in Sessions \ {s}
             PROVE  (InCreation(t)' <=> InCreation(t)) /\ (InDeletion(t)' <=> InDeletion(t))
  OBVIOUS
<1>1. \A d \in Clients : calls'[d].kind # "none" /\ calls'[d].s = t => calls'[d] = calls[d]
  OBVIOUS
<1>2. \A d \in Clients : calls[d].kind # "none" /\ calls[d].s = t => calls'[d] = calls[d]
  OBVIOUS
<1> QED
  BY <1>1, <1>2 DEF InCreation, InDeletion

\* Taking the lock leaves the rows as they fit.
LEMMA RowsLocked ==
  ASSUME Sound, RowsKept, Locks
  PROVE  RowsKept'
<1>1. /\ UNCHANGED <<entries, rows, crossed>> /\ count'.faults = count.faults
      /\ op'.pc = "log" /\ TypeOK /\ Shape
  BY LocksAre DEF Sound, Shape, CallShape
<1>2. ASSUME NEW s \in Sessions, BeginTouch(s) \/ \E t \in Titles : BeginUpdate(s, t)
      PROVE  RowsKept'
  <2>1. PICK kind \in {"update", "touch"}, title \in AllTitles : Begin(kind, s, title)
    BY <1>1, <1>2, TouchIs
  <2>2. calls' = calls /\ ~op'.rollback
    BY <1>1, <1>2, <2>1, TouchIs, BeginIs
  <2> QED
    BY <1>1, <2>2 DEF RowsKept, RowFits, InCreation, InDeletion
<1>3. ASSUME NEW c \in Clients, NEW s \in Sessions, BeginCreate(c, s)
      PROVE  RowsKept'
  <2>1. /\ Begin("create", s, Untitled) /\ Untitled \in AllTitles /\ s \notin rows
        /\ calls[c] = NoCall
        /\ calls'[c].kind = "create" /\ calls'[c].s = s /\ calls'[c].at = "index"
        /\ \A d \in Clients \ {c} : calls'[d] = calls[d]
    BY <1>1, <1>3, CreateIs
  <2>2. ~op'.rollback /\ NoCall.kind = "none"
    BY <1>1, <2>1, BeginIs, NoCallIs
  <2>3. \A t \in Sessions \ {s} :
          (InCreation(t)' <=> InCreation(t)) /\ (InDeletion(t)' <=> InDeletion(t))
    BY <2>1, <2>2, RowsOthers
  <2>4. InCreation(s)'
    BY <2>1 DEF InCreation
  <2>5. \A t \in Sessions \ crossed' : RowFits(t)'
    BY <1>1, <2>1, <2>3, <2>4 DEF RowsKept, RowFits
  <2>6. \A d \in Clients : calls'[d].at = "back" => count'.faults = 1
    BY <1>1, <2>1 DEF RowsKept
  <2> QED
    BY <1>1, <2>2, <2>5, <2>6 DEF RowsKept
<1>4. ASSUME NEW c \in Clients, BeginDelete(c) \/ BeginRollback(c)
      PROVE  RowsKept'
  <2>1. PICK kind \in {"create", "delete"}, title \in AllTitles \cup {None} :
          Lock(c, kind, title)
    BY <1>1, <1>4, DeleteIs
  <2>2. /\ op'.rollback <=> calls[c].at = "back"
        /\ calls'[c].at = "index" /\ calls'[c].kind = calls[c].kind /\ calls'[c].s = calls[c].s
        /\ \A d \in Clients \ {c} : calls'[d] = calls[d]
    BY <1>1, <2>1, LockIs
  <2>3. \A t : (InCreation(t)' <=> InCreation(t)) /\ (InDeletion(t)' <=> InDeletion(t))
    BY <2>2 DEF InCreation, InDeletion
  <2>4. \A t \in Sessions \ crossed' : RowFits(t)'
    BY <1>1, <2>3 DEF RowsKept, RowFits
  <2>5. \A d \in Clients : calls'[d].at = "back" => count'.faults = 1
    BY <1>1, <2>2 DEF RowsKept
  <2>6. op'.rollback => count'.faults = 1
    BY <1>1, <2>2 DEF RowsKept
  <2> QED
    BY <1>1, <2>4, <2>5, <2>6 DEF RowsKept
<1> QED
  BY <1>2, <1>3, <1>4 DEF Locks

\* The end of an index call, with the row still to do or the rollback done.
LEMMA RowsReleased ==
  ASSUME Sound, RowsKept, Release
  PROVE  RowsKept'
<1>1. /\ Shape /\ Alone /\ op.pc = "done" /\ ~op'.rollback /\ op'.pc = "idle"
      /\ UNCHANGED <<entries, rows, crossed, count>>
      /\ \A c \in Clients :
           /\ calls[c].at # "index" => calls'[c] = calls[c]
           /\ calls[c].at = "index" /\ op.rollback => calls'[c] = NoCall
           /\ calls[c].at = "index" /\ ~op.rollback =>
                /\ calls'[c].at = "row" /\ calls'[c].kind = calls[c].kind
                /\ calls'[c].s = calls[c].s
  BY ReleaseIs DEF Sound, Shape
<1>2. NoCall.kind = "none" /\ NoCall.at = "idle"
  BY NoCallIs
<1>3. \A c \in Clients : calls'[c].at = "back" => count'.faults = 1
  BY <1>1, <1>2 DEF RowsKept
<1>4. ASSUME NEW t \in Sessions \ crossed PROVE RowFits(t)'
  <2>1. RowFits(t)
    BY DEF RowsKept
  <2>2. CASE ~op.rollback \/ \A c \in Clients : calls[c].at = "index" => calls[c].s # t
    <3>1. (InCreation(t)' <=> InCreation(t)) /\ (InDeletion(t)' <=> InDeletion(t))
      BY <1>1, <1>2, <2>2 DEF InCreation, InDeletion
    <3> QED
      BY <1>1, <2>1, <3>1 DEF RowFits
  <2>3. ASSUME op.rollback, NEW e \in Clients, calls[e].at = "index", calls[e].s = t
        PROVE  RowFits(t)'
    <3>1. op.kind \in {"create", "delete"} /\ op.s = t
      BY <1>1, <2>3 DEF Shape, CallShape, CallFits
    <3>2. PICK c \in Clients :
            /\ calls[c].at = "index" /\ calls[c].s = t /\ calls[c].kind \in {"create", "delete"}
            /\ op.kind # calls[c].kind
            /\ \A d \in Clients \ {c} : calls[d].kind # "none" => calls[d].s # t
      BY <1>1, <2>3, <3>1, OpAlone
    <3>3. ~InCreation(t)' /\ ~InDeletion(t)'
      BY <1>1, <1>2, <2>3, <3>2 DEF InCreation, InDeletion
    <3>4. count'.faults = 1
      BY <1>1, <2>3 DEF RowsKept
    <3>5. CASE op.kind = "delete"
      <4>1. entries[t] = None
        BY <1>1, <3>1, <3>5, OpIs DEF Sound, Progress, Ending, Logged
      <4> QED
        BY <1>1, <3>3, <3>4, <4>1 DEF RowFits
    <3>6. CASE op.kind = "create"
      <4>1. InDeletion(t) /\ ~InCreation(t)
        BY <3>2, <3>6 DEF InCreation, InDeletion
      <4>2. t \in rows
        BY <2>1, <4>1 DEF RowFits
      <4> QED
        BY <1>1, <3>3, <3>4, <4>2 DEF RowFits
    <3> QED
      BY <3>1, <3>5, <3>6
  <2> QED
    BY <2>2, <2>3
<1> QED
  BY <1>1, <1>3, <1>4 DEF RowsKept

\* The row itself, or the failure of the store, or the begin of a deletion.
LEMMA RowsElsewhere ==
  ASSUME Sound, RowsKept, Elsewhere, health = "Healthy",
         count'.faults = count.faults \/ (count.faults = 0 /\ count'.faults = 1)
  PROVE  RowsKept'
<1>1. Shape /\ Alone /\ CallsProgress /\ UNCHANGED <<entries, op>>
  BY ElsewhereIs DEF Sound, Shape
<1>2. PICK c \in Clients :
        StoreRow(c) \/ StoreRowFails(c) \/ Refuse(c) \/ \E s \in Sessions : ReadList(c, s)
  BY DEF Elsewhere
<1>3. NoCall.kind = "none" /\ NoCall.at = "idle"
  BY NoCallIs
<1>4. /\ \A d \in Clients \ {c} : calls'[d] = calls[d]
      /\ \/ StoreRow(c) /\ calls'[c] = NoCall /\ calls[c].at = "row" /\ crossed' = crossed
         \/ /\ StoreRowFails(c) /\ calls[c].at = "row" /\ crossed' = crossed
            /\ \/ calls'[c] = NoCall /\ calls[c].title = None
               \/ /\ calls'[c].at = "back" /\ calls'[c].kind = calls[c].kind
                  /\ calls'[c].s = calls[c].s
         \/ health # "Healthy"
         \/ /\ calls[c] = NoCall /\ calls'[c].kind = "delete" /\ calls'[c].at = "list"
            /\ calls'[c].s \in Sessions /\ ReadList(c, calls'[c].s)
  BY <1>1, <1>2, ElsewhereCalls
<1>5. /\ op.rollback => count'.faults = 1
      /\ \A d \in Clients : calls[d].at = "back" => count'.faults = 1
      /\ op'.pc = "undo" /\ op'.s \notin crossed /\ op'.kind = "delete" => ~op'.rollback
      /\ \A t \in Sessions \ crossed : RowFits(t)
      /\ count'.faults = 0 => count.faults = 0
  BY <1>1 DEF RowsKept
<1>6. ASSUME StoreRow(c), calls'[c] = NoCall, calls[c].at = "row", crossed' = crossed
      PROVE  RowsKept'
  <2>1. /\ calls[c].s \in Sessions /\ calls[c].kind \in {"create", "delete"} /\ CallProgress(c)
        /\ rows' = IF calls[c].kind = "create" THEN rows \cup {calls[c].s}
                   ELSE rows \ {calls[c].s}
    BY <1>1, <1>6, CallIs DEF StoreRow, CallsProgress, CallFits
  <2>2. PICK s \in Sessions : s = calls[c].s
    BY <2>1
  <2>3. \A t \in Sessions \ {s} :
          /\ (InCreation(t)' <=> InCreation(t)) /\ (InDeletion(t)' <=> InDeletion(t))
          /\ t \in rows' <=> t \in rows
    BY <1>3, <1>4, <1>6, <2>1, <2>2, RowsOthers
  <2>4. ASSUME s \notin crossed PROVE RowFits(s)'
    <3>1. \A d \in Clients \ {c} : calls[d].kind # "none" => calls[d].s # s
      BY <1>1, <2>1, <2>2, <2>4 DEF Alone
    <3>2. ~InCreation(s)' /\ ~InDeletion(s)'
      BY <1>3, <1>4, <1>6, <3>1 DEF InCreation, InDeletion
    <3>3. /\ calls[c].kind = "create" => entries[s] # None /\ s \in rows'
          /\ calls[c].kind = "delete" => entries[s] = None /\ s \notin rows'
      BY <1>6, <2>1, <2>2, <2>4 DEF CallProgress
    <3> QED
      BY <1>1, <2>1, <3>2, <3>3 DEF RowFits
  <2>5. \A t \in Sessions \ crossed' : RowFits(t)'
    BY <1>1, <1>5, <1>6, <2>3, <2>4 DEF RowFits
  <2>6. \A d \in Clients : calls'[d].at = "back" => count'.faults = 1
    BY <1>3, <1>4, <1>5, <1>6
  <2> QED
    BY <1>1, <1>5, <1>6, <2>5, <2>6 DEF RowsKept
<1>7. ASSUME StoreRowFails(c), calls[c].at = "row", crossed' = crossed,
             \/ calls'[c] = NoCall /\ calls[c].title = None
             \/ /\ calls'[c].at = "back" /\ calls'[c].kind = calls[c].kind
                /\ calls'[c].s = calls[c].s
      PROVE  RowsKept'
  <2>1. /\ calls[c].s \in Sessions /\ calls[c].kind \in {"create", "delete"} /\ CallProgress(c)
        /\ calls[c].kind = "create" => calls[c].title # None
        /\ \/ rows' = rows
           \/ calls[c].kind = "create" /\ rows' = rows \cup {calls[c].s}
    BY <1>1, <1>7, CallIs DEF StoreRowFails, CallsProgress, CallFits
  <2>2. count'.faults = 1
    <3>1. count'.faults = count.faults + 1 /\ count.faults \in Nat
      BY <1>1, <1>7, TitlesRecorded, FaultsAre DEF StoreRowFails, Shape, Counts
    <3> QED
      BY <3>1
  <2>3. PICK s \in Sessions : s = calls[c].s
    BY <2>1
  <2>4. \A t \in Sessions \ {s} :
          /\ (InCreation(t)' <=> InCreation(t)) /\ (InDeletion(t)' <=> InDeletion(t))
          /\ t \in rows' <=> t \in rows
    BY <1>3, <1>4, <1>7, <2>1, <2>3, RowsOthers
  <2>5. ASSUME s \notin crossed PROVE RowFits(s)'
    <3>1. calls'[c].kind = calls[c].kind /\ calls'[c].s = calls[c].s
      BY <1>7, <2>1, <2>3, <2>5 DEF CallProgress
    <3>2. (InCreation(s)' <=> InCreation(s)) /\ (InDeletion(s)' <=> InDeletion(s))
      BY <1>4, <3>1 DEF InCreation, InDeletion
    <3>3. RowFits(s) /\ (s \in rows => s \in rows')
      BY <1>5, <2>1, <2>5
    <3> QED
      BY <1>1, <2>2, <3>2, <3>3 DEF RowFits
  <2>6. \A t \in Sessions \ crossed' : RowFits(t)'
    BY <1>1, <1>5, <1>7, <2>4, <2>5 DEF RowFits
  <2> QED
    BY <1>1, <1>5, <1>7, <2>2, <2>6 DEF RowsKept
<1>8. ASSUME calls[c] = NoCall, calls'[c].kind = "delete", calls'[c].at = "list",
             calls'[c].s \in Sessions, ReadList(c, calls'[c].s)
      PROVE  RowsKept'
  <2>1. PICK s \in Sessions : s = calls'[c].s
    BY <1>8
  <2>2. /\ rows' = rows
        /\ crossed' = IF CallsAt(s, UnderWay) = {} THEN crossed ELSE crossed \cup {s}
        /\ entries[s] # None \/ CallsAt(s, {"row", "back"}) # {}
    BY <1>8, <2>1 DEF ReadList, disk
  <2>3. \A t \in Sessions \ {s} :
          (InCreation(t)' <=> InCreation(t)) /\ (InDeletion(t)' <=> InDeletion(t))
    BY <1>3, <1>4, <1>8, <2>1, RowsOthers
  <2>4. ASSUME s \notin crossed' PROVE RowFits(s)'
    <3>1. CallsAt(s, UnderWay) = {} /\ s \notin crossed
      BY <2>2, <2>4
    <3>2. \A d \in Clients : calls[d].s = s => calls[d].kind = "none"
      BY <1>1, <3>1, CallIs DEF CallsAt
    <3>3. CallsAt(s, {"row", "back"}) \subseteq CallsAt(s, UnderWay)
      BY DEF CallsAt, UnderWay, Outside
    <3>4. entries[s] # None /\ ~InCreation(s)
      BY <2>2, <3>1, <3>2, <3>3 DEF InCreation
    <3>5. s \in rows /\ InDeletion(s)'
      BY <1>5, <1>8, <2>1, <3>1, <3>4 DEF RowFits, InDeletion
    <3> QED
      BY <2>2, <3>5 DEF RowFits
  <2>5. \A t \in Sessions \ crossed' : RowFits(t)'
    BY <1>1, <1>5, <2>2, <2>3, <2>4 DEF RowFits
  <2>6. \A d \in Clients : calls'[d].at = "back" => count'.faults = 1
    BY <1>4, <1>5, <1>8
  <2> QED
    BY <1>1, <1>5, <2>2, <2>5, <2>6 DEF RowsKept
<1> QED
  BY <1>4, <1>6, <1>7, <1>8

\* Every step keeps the rows, as long as there are few faults.
LEMMA RowsKeptStep == Sound /\ [Next]_vars => (FewFaults' => RowsKept')
<1> SUFFICES ASSUME Sound, [Next]_vars, FewFaults' PROVE RowsKept'
  OBVIOUS
<1>1. Shape /\ Alone /\ op \in Operation /\ op.s \in Sessions /\ count \in Counts
  BY TitlesRecorded DEF Sound, Shape
<1>2. /\ count.faults \in Nat /\ count.compactFaults \in Nat /\ count.crashes \in Nat
      /\ count'.compactFaults = 0 /\ count'.crashes = 0 /\ health' = "Healthy"
  BY <1>1 DEF Counts, FewFaults
<1> DEFINE Few == /\ RowsKept /\ Up
                  /\ count'.faults = count.faults \/ (count.faults = 0 /\ count'.faults = 1)
<1>3. ASSUME health' = health, count' = count \/ \E n \in {0, 1} : Faults(n)
      PROVE  Few /\ (Faults(1) => count.faults = 0)
  <2>1. /\ count'.faults \in Nat /\ count'.faults >= count.faults
        /\ count'.compactFaults = count.compactFaults /\ count'.crashes = count.crashes
        /\ Faults(1) => count'.faults = count.faults + 1
    BY <1>1, <1>2, <1>3, FaultsAre
  <2>2. /\ Few /\ count.faults \in {0, 1}
    BY <1>2, <1>3, <2>1, FewBefore
  <2> QED
    BY <1>2, <2>1, <2>2
<1>4. ~Up => RowsKept' \/ count'.crashes # count.crashes
  BY <1>2 DEF Sound, CrashFree
<1>5. \A n \in Nat : CompactionFailed(n) => RowsKept'
  BY <1>1, <1>2, CompactionFailedIs
<1>6. RollbackFails => RowsKept'
  BY <1>1, <1>2, RollbackFailsIs
<1>7. MarkRepair => RowsKept'
  BY <1>2 DEF MarkRepair
<1> DEFINE On(pc) == /\ op'.pc = pc /\ op'.kind = op.kind /\ op'.s = op.s
                     /\ op'.rollback = op.rollback /\ UNCHANGED <<calls, crossed>>
<1>8. \A pc \in Steps : Goto(pc) => On(pc)
  BY <1>1, Goes
<1> DEFINE Lists == \A t \in Sessions : \/ entries'[t] = None <=> entries[t] = None
                                        \/ t = op.s /\ op.kind \in {"create", "delete"}
<1>9. ASSUME Few, NEW pc \in Steps \ {"undo"}, On(pc), rows' = rows, Lists
      PROVE  RowsKept'
  BY <1>1, <1>9, RowsGoOn
<1> HIDE DEF Few, On, Lists
<1>10. CASE Locks
  <2>1. RowsKept
    <3>1. /\ health = "Healthy" /\ count'.faults = count.faults
          /\ count'.compactFaults = count.compactFaults /\ count'.crashes = count.crashes
      BY <1>1, <1>10, LocksAre DEF Shape, CallShape
    <3> QED
      BY <1>2, <3>1, FewBefore
  <2> QED
    BY <1>10, <2>1, RowsLocked
<1>11. CASE Elsewhere
  <2>1. /\ health' = health /\ count'.crashes = count.crashes
        /\ count'.compactFaults = count.compactFaults
        /\ count'.faults \in {count.faults, count.faults + 1}
    BY <1>1, <1>11, ElsewhereIs DEF Shape
  <2>2. /\ RowsKept /\ health = "Healthy"
        /\ count'.faults = count.faults \/ (count.faults = 0 /\ count'.faults = 1)
    BY <1>2, <2>1, FewBefore
  <2> QED
    BY <1>11, <2>2, RowsElsewhere
<1>12. CASE Release
  <2>1. RowsKept
    BY <1>1, <1>3, <1>12, ReleaseIs DEF Few, Shape
  <2> QED
    BY <1>12, <2>1, RowsReleased
<1>13. CASE \E s \in Sessions : AuditSession(s) \/ AuditFails(s)
  <2>1. op.pc = "audit" /\ count'.crashes = count.crashes
    BY <1>1, <1>13, FaultsAre DEF AuditSession, AuditFails, At
  <2> QED
    BY <1>1, <1>4, <2>1 DEF Shape, OpShape, Operation, Ending, Rotation, Up
<1>14. CASE Load \/ RebuildSnapshot \/ Serve
  <2>1. op.pc \in {"down", "snapshot", "audit"} /\ count' = count
    BY <1>14 DEF Load, RebuildSnapshot, Serve, At
  <2> QED
    BY <1>1, <1>4, <2>1 DEF Shape, OpShape, Operation, Ending, Rotation, Up
<1>15. CASE Crash
  BY <1>1, <1>2, <1>15 DEF Crash, Counts
<1>16. CASE MetadataFails \/ UndoFails
  BY <1>7, <1>16 DEF MetadataFails, UndoFails
<1>17. CASE SnapshotFails \/ RotateFails
  BY <1>5, <1>17 DEF SnapshotFails, RotateFails
<1>18. CASE SwapFails \/ RemoveBackupFails
  BY <1>5, <1>6, <1>18 DEF SwapFails, RemoveBackupFails
<1>19. CASE Publish \/ RemoveDirectory \/ Compact \/ RotateLog \/ SwapLog \/ RemoveBackup
  <2>1. UNCHANGED <<entries, rows, health, count>>
        /\ \E pc \in {"compact", "rotate", "swap", "clean", "done", "audit"} : Goto(pc)
    BY <1>19 DEF Publish, RemoveDirectory, Compact, RotateLog, SwapLog, RemoveBackup,
                 AfterClean
  <2>2. PICK pc \in Steps \ {"undo"} : On(pc)
    BY <1>8, <2>1 DEF Steps
  <2>3. Lists
    BY <2>1 DEF Lists
  <2> QED
    BY <1>3, <1>9, <2>1, <2>2, <2>3
<1>20. CASE AppendLog
  <2>1. /\ UNCHANGED <<rows, health, count>>
        /\ \E pc \in {"publish", "metadata", "remove"} : Goto(pc)
        /\ entries' = IF op.kind \in {"create", "delete"} THEN [entries EXCEPT ![op.s] = Logged]
                      ELSE entries
    BY <1>20 DEF AppendLog, AfterLog
  <2>2. PICK pc \in Steps \ {"undo"} : On(pc)
    BY <1>8, <2>1 DEF Steps
  <2>3. Lists
    BY <1>1, <2>1 DEF Lists, Shape, TypeOK, Entries
  <2> QED
    BY <1>3, <1>9, <2>1, <2>2, <2>3
<1>21. CASE WriteMetadata
  <2>1. /\ UNCHANGED <<rows, health, count>> /\ Goto("compact") /\ op.pc = "metadata"
        /\ entries' = [entries EXCEPT ![op.s] = op.title]
    BY <1>21 DEF WriteMetadata, At
  <2>2. On("compact")
    BY <1>8, <2>1 DEF Steps
  <2>3. op.title # None /\ entries[op.s] # None
    BY <1>1, <2>1, OpIs DEF Sound, Progress
  <2>4. Lists
    BY <1>1, <2>1, <2>3 DEF Lists, Shape, TypeOK, Entries
  <2> QED
    BY <1>3, <1>9, <2>1, <2>2, <2>4 DEF Steps
<1>22. CASE PublishFails
  <2>1. /\ UNCHANGED <<entries, rows, health>> /\ Goto("undo") /\ op.pc = "publish"
        /\ \E n \in {0, 1} : Faults(n)
    BY <1>22 DEF PublishFails, disk, At
  <2>2. On("undo") /\ op.kind = "create"
    BY <1>1, <1>8, <2>1, OpIs DEF Steps
  <2>3. Few
    BY <1>3, <2>1
  <2> QED
    BY <1>1, <2>1, <2>2, <2>3, RowsGoOn DEF On, Few
<1>23. CASE RemoveFails
  <2>1. /\ UNCHANGED <<entries, rows, health>> /\ op.pc = "remove"
        /\ (Fail /\ op.title = None) \/ Goto("undo")
        /\ Faults(IF dirs[op.s] = None THEN 0 ELSE 1)
    BY <1>23 DEF RemoveFails, At
  <2>2. Few /\ (Faults(1) => count.faults = 0)
    BY <1>3, <2>1
  <2>3. op.kind = "delete"
    BY <1>1, <2>1, OpIs
  <2>4. op.s \notin crossed => op.title # None /\ dirs[op.s] # None
    BY <2>1, <2>3 DEF Sound, Progress
  <2>5. CASE Fail /\ op.title = None
    BY <1>1, <2>1, <2>2, <2>3, <2>4, <2>5, RowsAnswered DEF Few
  <2>6. CASE Goto("undo")
    <3>1. On("undo")
      BY <1>8, <2>6 DEF Steps
    <3>2. op.s \notin crossed => ~op.rollback
      BY <2>1, <2>2, <2>4 DEF Few, RowsKept
    <3> QED
      BY <1>1, <2>1, <2>2, <3>1, <3>2, RowsGoOn DEF On, Few
  <2> QED
    BY <2>1, <2>5, <2>6
<1>24. CASE AppendLogFails
  <2>1. /\ UNCHANGED <<entries, rows, health>> /\ op.pc = "log" /\ Fail /\ Faults(1)
    BY <1>24 DEF AppendLogFails, At
  <2>2. Few /\ count.faults = 0
    BY <1>3, <2>1
  <2>3. op.s \notin crossed => /\ op.kind = "create" => entries[op.s] = None
                               /\ op.kind = "delete" => entries[op.s] # None
    BY <2>1 DEF Sound, Progress
  <2>4. ~op.rollback
    BY <2>2 DEF Few, RowsKept
  <2> QED
    BY <1>1, <2>1, <2>2, <2>3, <2>4, RowsAnswered DEF Few
<1>25. CASE Undo
  <2>1. /\ UNCHANGED <<rows, health, count>> /\ op.pc = "undo" /\ Fail
        /\ entries' = [entries EXCEPT ![op.s] = Restored]
    BY <1>25 DEF Undo, At
  <2>2. Few
    BY <1>3, <2>1
  <2>3. op.kind \in {"create", "delete"} /\ op.title # None
    BY <1>1, <2>1, OpIs
  <2>4. /\ entries'[op.s] = Restored
        /\ \A t \in Sessions : t # op.s => entries'[t] = entries[t]
    BY <1>1, <2>1 DEF Shape, TypeOK, Entries
  <2>5. /\ op.kind = "create" => Restored = None
        /\ op.kind = "delete" => Restored # None
    BY <2>3 DEF Restored
  <2>6. op.s \notin crossed /\ op.kind = "delete" => ~op.rollback
    BY <2>1, <2>2 DEF Few, RowsKept
  <2> QED
    BY <1>1, <2>1, <2>2, <2>3, <2>4, <2>5, <2>6, RowsAnswered DEF Few
<1>26. CASE \E s \in Sessions : LateAppend(s)
  <2>1. UNCHANGED <<entries, rows, health, op, calls, crossed, count>>
    BY <1>26 DEF LateAppend
  <2>2. RowsKept
    BY <1>3, <2>1 DEF Few
  <2> QED
    BY <2>1, <2>2 DEF RowsKept, RowFits, InCreation, InDeletion
<1>27. CASE UNCHANGED vars
  <2>1. UNCHANGED <<entries, rows, health, op, calls, crossed, count>>
    BY <1>27 DEF vars, disk
  <2>2. RowsKept
    BY <1>3, <2>1 DEF Few
  <2> QED
    BY <2>1, <2>2 DEF RowsKept, RowFits, InCreation, InDeletion
<1> QED
  BY <1>10, <1>11, <1>12, <1>13, <1>14, <1>15, <1>16, <1>17, <1>18, <1>19, <1>20, <1>21,
     <1>22, <1>23, <1>24, <1>25, <1>26, <1>27
     DEF Next, TitleFromEvent, Locks, Elsewhere

-----------------------------------------------------------------------------
(* The theorems *)

\* The invariant holds at the start, is kept by every step, and so always.
LEMMA SoundInit == Init => Sound
<1> SUFFICES ASSUME Init PROVE Sound
  OBVIOUS
<1>1. /\ op.kind = "none" /\ op.pc = "idle" /\ ~op.rollback /\ op \in Operation
      /\ live = NoLog /\ bak = NoLog /\ health = "Healthy" /\ marker = FALSE
      /\ entries = Nobody /\ snapshot = Nobody /\ dirs = Nobody /\ rows = {}
      /\ allowed = [s \in Sessions |-> {None}] /\ crossed = {}
  BY IdleIs DEF Init
<1>2. count \in Counts
  BY DEF Init, Counts
<1>3. \A s \in Sessions : Nobody[s] = None
  BY DEF Nobody
<1>4. \A s \in Sessions : Replayed(s) = None /\ RecordsOf(bak.recs, s) = {}
  BY <1>1, <1>3, Constants, OverlayNothing, OverlayIs DEF Replayed
<1>5. calls \in [Clients -> Call]
      /\ \A c \in Clients : calls[c].kind = "none" /\ calls[c].at = "idle"
  BY NoCallIs DEF Init
<1>6. TypeOK
  BY <1>1, <1>2, <1>3, <1>5, Constants DEF TypeOK, Entries, Counts
<1>7. CallShape
  BY <1>1, <1>5 DEF CallShape, CallFits
<1>8. Shape
  BY <1>1, <1>6, <1>7, Constants DEF Shape, OpShape, HealthShape, Rotating, Working
<1>9. Progress /\ LogIsList /\ CrashFree
  BY <1>1, <1>3, <1>4 DEF Progress, LogIsList, CrashFree, Up, Ending, Rotation
<1>10. Alone /\ CallsProgress /\ CallsAllowed
  BY <1>5 DEF Alone, CallsProgress, CallProgress, CallsAllowed
<1>11. AllListed
  BY <1>1, <1>3 DEF AllListed, Listed
<1>12. Allowed
  <2>1. \A s \in Sessions : OnDisk(s) = None
    BY <1>1, <1>3, Constants DEF OnDisk
  <2> QED
    BY <1>1, <1>3, <1>4, <2>1 DEF Allowed, AllowedFor, Fits, Working
<1>13. RowsKept
  BY <1>1, <1>3, <1>5, Constants DEF RowsKept, RowFits, InCreation, InDeletion
<1> QED
  BY <1>8, <1>9, <1>10, <1>11, <1>12, <1>13 DEF Sound

LEMMA SoundStep == Sound /\ [Next]_vars => Sound'
BY ShapeStep, AloneStep, CallsProgressStep, ProgressStep, AllowedStep, CallsAllowedStep,
   LogIsListStep, AllListedStep, CrashFreeStep, RowsKeptStep
   DEF Sound

LEMMA Invariant == Spec => []Sound
BY SoundInit, SoundStep, PTL DEF Spec

\* Healthy and idle, the index finds each session on disk as the list has it.
LEMMA SoundRestart == Sound => RestartLoadsTheList
<1> SUFFICES ASSUME Sound, Settled, ~live.stray, NEW s \in Sessions \ crossed,
                    dirs[s] # Husk
             PROVE  Audited(Loaded, s) = entries[s]
  BY DEF RestartLoadsTheList
<1>1. Up /\ health = "Healthy" /\ op.pc = "idle"
  BY DEF Settled, LockFree, Healthy, Up, Sound, Shape, OpShape
<1>2. ~MustRebuild
  BY <1>1 DEF MustRebuild, Sound, Shape, HealthShape, LogShape
<1>3. Loaded[s] = entries[s]
  BY <1>1, <1>2 DEF Loaded, Sound, LogIsList, Replayed
<1>4. entries[s] = None <=> OnDisk(s) = None
  BY <1>1 DEF Sound, AllListed, Listed, OnDisk
<1> QED
  BY <1>3, <1>4 DEF Audited

\* Between operations the copies agree.
LEMMA SoundCopies == Sound => CopiesAgree
<1> SUFFICES ASSUME Sound PROVE CopiesAgree
  OBVIOUS
<1>1. ASSUME Settled
      PROVE  Up /\ health = "Healthy" /\ op.kind = "none" /\ op.pc = "idle"
  BY <1>1 DEF Settled, LockFree, Healthy, Up, Sound, Shape, OpShape
<1>2. ListedArePublished
  BY <1>1 DEF ListedArePublished, Sound, AllListed, Listed
<1>3. RowsMatch
  <2> SUFFICES ASSUME Settled, \A c \in Clients : calls[c] = NoCall,
                      count.faults <= 1, count.compactFaults = 0, count.crashes = 0,
                      NEW s \in Sessions \ crossed
               PROVE  /\ entries[s] # None => s \in rows
                      /\ count.faults = 0 /\ s \in rows => entries[s] # None
    BY DEF RowsMatch
  <2>1. RowFits(s)
    BY <1>1 DEF Sound, FewFaults, RowsKept
  <2>2. ~InCreation(s) /\ ~InDeletion(s)
    BY NoCallIs DEF InCreation, InDeletion
  <2> QED
    BY <2>1, <2>2 DEF RowFits
<1> QED
  BY <1>2, <1>3 DEF CopiesAgree, Sound, Shape

\* What is acknowledged survives (session_index_store.rs: the log is written before the list
\* changes and load_with_recovery_or_fail reads it, or the directories, when the gateway
\* starts): for any clients, sessions, titles, operations, faults and crashes, whatever calls
\* of other clients come between the change, its row and its rollback (events.rs:119-213),
\* every session is listed as the replies allow whenever the gateway is up.  A title that is
\* acknowledged while a creation or deletion of the session is under way counts as attempted,
\* since a rollback may overwrite it.
THEOREM AckedStaysListed == Spec => []AckedSurvives
<1>1. Sound => AckedSurvives
  BY DEF Sound, Allowed, AllowedFor, AckedSurvives
<1> QED
  BY <1>1, Invariant, PTL

\* Between index calls snapshot and log are the list in memory (maybe_compact and
\* rotate_log_tmp_bak with their rollbacks, the compensation records, startup_audit): a
\* restart would load it as it is, however often the log was rotated, but for sessions of
\* which deletions overlapped.
THEOREM RestartFindsTheList == Spec => []RestartLoadsTheList
<1> QED
  BY SoundRestart, Invariant, PTL

\* The three copies of the list, index, directories and rows of the store, which create_session
\* and delete_session (state/events.rs) change one after the other without a common lock,
\* agree for any number of clients: listed sessions are published between index calls, and
\* rows match once every call is answered, but for sessions of which deletions overlapped each
\* other or the creation.
THEOREM CopiesStayInAgreement == Spec => []CopiesAgree
<1> QED
  BY SoundCopies, Invariant, PTL
=============================================================================
