---------------------------- MODULE SessionIndex ----------------------------
(***************************************************************************)
(* The index of sessions (openjax-gateway/src/transcript/                  *)
(* session_index_store.rs) with the two gateway operations built on it,    *)
(* AppState::create_session and delete_session: a list in memory, a        *)
(* snapshot and a log of changes on disk, one directory with session.json  *)
(* per session, a row per session in the SQLite store, and the recovery    *)
(* that reconciles them when the gateway starts.  A call of the index runs *)
(* under its write lock, one at a time.  A creation and a deletion are     *)
(* more than one such call: the row is changed without the lock, and the   *)
(* rollback of a row that fails takes the lock anew, so the calls of other *)
(* clients come in between.  Every I/O call may fail, and the process may  *)
(* die between any two.                                                    *)
(*                                                                         *)
(* An index entry is abstracted to its title, the field that session.json  *)
(* holds too.  JSON files are replaced atomically; the log is appended to. *)
(***************************************************************************)
EXTENDS Naturals, Sequences, FiniteSetsExt

CONSTANTS
  Clients,       \* clients that create and delete sessions
  Sessions,      \* session ids
  Titles,        \* titles a session may be given
  CompactLines,  \* COMPACT_MAX_LINES
  MaxOps,        \* bound: operations
  MaxFaults,     \* bound: failing I/O calls
  MaxCrashes     \* bound: process deaths

ASSUME SessionsAssumption == Sessions # {}
ASSUME CompactAssumption == CompactLines \in Nat \ {0}
ASSUME TitlesAssumption  == Titles \cap {"none", "husk"} = {}
ASSUME BoundsAssumption  == {MaxOps, MaxFaults, MaxCrashes} \subseteq Nat

None     == "none"      \* not in the index, or no directory
Husk     == "husk"      \* a directory without session.json
Untitled == "untitled"  \* the title a session is created with
AllTitles == Titles \cup {Untitled}

Record  == [s : Sessions, title : AllTitles \cup {None}]
LogFile == [exists : BOOLEAN, recs : Seq(Record), open : BOOLEAN, garbled : BOOLEAN,
            stray : BOOLEAN]

VARIABLES
  entries,   \* the list in memory
  health,    \* IndexHealth
  marker,    \* index.repair_required exists
  snapshot,  \* index.snapshot.json
  live,      \* index.log.ndjson
  bak,       \* index.log.ndjson.bak
  dirs,      \* per session: the title in its session.json, None or Husk
  rows,      \* sessions with a row in the SQLite store
  op,        \* the index call under the write lock, or the recovery at startup
  calls,     \* per client: its creation or deletion under way
  crossed,   \* sessions of which a deletion began while their creation or another
             \* deletion of them was under way
  allowed,   \* per session: what the replies so far allow a client to find
  count      \* operations, faults, failed compactions and crashes so far

disk == <<marker, snapshot, live, bak, dirs, rows>>
vars == <<entries, health, disk, op, calls, crossed, allowed, count>>

-----------------------------------------------------------------------------
Idle  == [kind |-> "none", s |-> CHOOSE s \in Sessions : TRUE, title |-> None, pc |-> "idle",
          rollback |-> FALSE]
Down  == [Idle EXCEPT !.kind = "recover", !.pc = "down"]
Nobody == [s \in Sessions |-> None]

\* AppState::create_session or delete_session of one client: it has read the list, is in
\* the index call, is at the row, or is about to take back what the index call did.
NoCall == [kind |-> "none", s |-> CHOOSE s \in Sessions : TRUE, title |-> None, at |-> "idle"]

NoLog    == [exists |-> FALSE, recs |-> <<>>, open |-> FALSE, garbled |-> FALSE,
             stray |-> FALSE]
EmptyLog == [NoLog EXCEPT !.exists = TRUE]

\* append_log_record_to_path: a line of its own, or the tail of one without newline.
Extend(log, s, title) ==
  [log EXCEPT !.exists = TRUE, !.recs = Append(@, [s |-> s, title |-> title]),
              !.open = FALSE, !.garbled = @ \/ log.open]

\* What a failing append may leave: nothing, part of the record, the record without
\* its newline, or all of it.
FailedExtend(log, s, title) ==
  LET full == [Extend(log, s, title) EXCEPT !.stray = TRUE]
  IN  {log, full, [full EXCEPT !.open = TRUE], [full EXCEPT !.open = TRUE, !.garbled = TRUE]}

\* replay_log over the snapshot: of a session's records the last one counts.
RecordsOf(recs, s) == {i \in DOMAIN recs : recs[i].s = s}
Latest(recs, s)    == recs[Max(RecordsOf(recs, s))].title
Overlay(base, recs) ==
  [s \in Sessions |-> IF RecordsOf(recs, s) = {} THEN base[s] ELSE Latest(recs, s)]

\* scan_sessions_metadata
OnDisk(s) == IF dirs[s] = Husk THEN None ELSE dirs[s]
Scanned   == [s \in Sessions |-> OnDisk(s)]

\* load_with_recovery_or_fail: an unreadable log or the marker calls for a rebuild.
MustRebuild == marker \/ live.garbled
Loaded      == IF MustRebuild THEN Scanned ELSE Overlay(snapshot, live.recs)

\* startup_audit: index and directories list the same sessions.
Audited(e, s) ==
  IF OnDisk(s) = None THEN None ELSE IF e[s] = None THEN OnDisk(s) ELSE e[s]

Up       == op.kind # "recover"
LockFree == op.kind = "none"
Healthy  == health = "Healthy"
Ready    == LockFree /\ Healthy /\ count.ops < MaxOps

\* Creations and deletions of a session under way, in a given stage or in any.
CallsAt(s, stages) == {c \in Clients : calls[c].s = s /\ calls[c].at \in stages}
Outside  == {"list", "row", "back"}
UnderWay == Outside \cup {"index"}

\* Up to n I/O calls fail in this step.
Faults(n) ==
  /\ count.faults + n <= MaxFaults
  /\ count' = [count EXCEPT !.faults = @ + n]

\* mark_repair_required, whose own write may fail.
MarkRepair ==
  /\ health' = "RepairRequired"
  /\ \/ marker' = TRUE /\ Faults(1)
     \/ UNCHANGED marker /\ Faults(2)

-----------------------------------------------------------------------------
Init ==
  /\ entries = Nobody
  /\ health = "Healthy"
  /\ marker = FALSE
  /\ snapshot = Nobody
  /\ live = NoLog
  /\ bak = NoLog
  /\ dirs = Nobody
  /\ rows = {}
  /\ op = Idle
  /\ calls = [c \in Clients |-> NoCall]
  /\ crossed = {}
  /\ allowed = [s \in Sessions |-> {None}]
  /\ count = [ops |-> 0, faults |-> 0, compactFaults |-> 0, crashes |-> 0]

-----------------------------------------------------------------------------
(* Operations begin *)

Begin(kind, s, title) ==
  /\ Ready
  /\ op' = [kind |-> kind, s |-> s, title |-> title, pc |-> "log", rollback |-> FALSE]
  /\ count' = [count EXCEPT !.ops = @ + 1]
  /\ UNCHANGED <<entries, health, disk, crossed>>

\* create_session: a new id, and its session.json in the staging directory.
BeginCreate(c, s) ==
  /\ calls[c] = NoCall /\ CallsAt(s, UnderWay) = {}
  /\ allowed[s] = {None} /\ dirs[s] = None /\ s \notin rows \cup crossed
  /\ Begin("create", s, Untitled)
  /\ calls' = [calls EXCEPT ![c] = [kind |-> "create", s |-> s, title |-> Untitled, at |-> "index"]]
  /\ allowed' = [allowed EXCEPT ![s] = {None, Untitled}]

\* update_session_title.
BeginUpdate(s, title) ==
  /\ entries[s] # None
  /\ Begin("update", s, title)
  /\ allowed' = [allowed EXCEPT ![s] = @ \cup {title}]
  /\ UNCHANGED calls

\* An event that carries a title gives it to a session that has none yet.
TitleFromEvent(s, title) == entries[s] = Untitled /\ BeginUpdate(s, title)

\* touch_session_index_entry and update_session_tags: the entry keeps its title.
BeginTouch(s) ==
  /\ entries[s] # None
  /\ Begin("touch", s, entries[s])
  /\ UNCHANGED <<calls, allowed>>

\* delete_session keeps the entry it finds in the list for a rollback, without the lock.
\* The handler found the session a moment ago; another deletion may have removed it since.
ReadList(c, s) ==
  /\ calls[c] = NoCall /\ Up /\ count.ops < MaxOps
  /\ entries[s] # None \/ CallsAt(s, {"row", "back"}) # {}
  /\ calls' = [calls EXCEPT ![c] = [kind |-> "delete", s |-> s, title |-> entries[s], at |-> "list"]]
  /\ crossed' = IF CallsAt(s, UnderWay) = {} THEN crossed ELSE crossed \cup {s}
  /\ count' = [count EXCEPT !.ops = @ + 1]
  /\ allowed' = [allowed EXCEPT ![s] = @ \cup {None}]
  /\ UNCHANGED <<entries, health, disk, op>>

\* The next index call of a creation or deletion takes the lock.
Lock(c, kind, title) ==
  /\ LockFree /\ Healthy
  /\ op' = [kind |-> kind, s |-> calls[c].s, title |-> title, pc |-> "log",
            rollback |-> calls[c].at = "back"]
  /\ calls' = [calls EXCEPT ![c].at = "index"]
  /\ UNCHANGED <<entries, health, disk, crossed, allowed, count>>

\* delete_session_index_entry keeps the entry it finds for its own compensation.
BeginDelete(c) == calls[c].at = "list" /\ Lock(c, "delete", entries[calls[c].s])

\* A call of an index in need of repair is refused, the rollback too.
Refuse(c) ==
  /\ calls[c].at \in {"list", "back"}
  /\ LockFree /\ ~ Healthy
  /\ calls' = [calls EXCEPT ![c] = NoCall]
  /\ UNCHANGED <<entries, health, disk, op, crossed, allowed, count>>

-----------------------------------------------------------------------------
(* The steps of an index call.  Fail ends it, and the client's call, with an error. *)

At(pc)   == op.pc = pc
Goto(pc) == op' = [op EXCEPT !.pc = pc] /\ UNCHANGED <<calls, crossed>>
Answered == [c \in Clients |-> IF calls[c].at = "index" THEN NoCall ELSE calls[c]]
Fail     == op' = (IF Up THEN Idle ELSE Down) /\ calls' = Answered /\ UNCHANGED crossed

\* Variant: a new title is logged as the entry was before.
LoggedBefore == CASE op.kind = "delete" -> None [] op.kind = "update" -> entries[op.s]
                  [] OTHER -> op.title

Logged    == IF op.kind = "delete" THEN None ELSE op.title
AfterLog  == CASE op.kind = "create" -> "publish" [] op.kind = "delete" -> "remove"
               [] OTHER -> "metadata"

\* The log record; create and delete then change the list, the others not yet.
AppendLog ==
  /\ At("log")
  /\ live' = Extend(live, op.s, Logged)
  /\ entries' = IF op.kind \in {"create", "delete"} THEN [entries EXCEPT ![op.s] = Logged]
                ELSE entries
  /\ Goto(AfterLog)
  /\ UNCHANGED <<health, marker, snapshot, bak, dirs, rows, allowed, count>>

AppendLogFails ==
  /\ At("log")
  /\ live' \in FailedExtend(live, op.s, Logged)
  /\ Faults(1)
  /\ Fail
  /\ UNCHANGED <<entries, health, marker, snapshot, bak, dirs, rows, allowed>>

\* create: the staged directory is renamed into place.
Publish ==
  /\ At("publish")
  /\ dirs[op.s] = None
  /\ dirs' = [dirs EXCEPT ![op.s] = op.title]
  /\ Goto("compact")
  /\ UNCHANGED <<entries, health, marker, snapshot, live, bak, rows, allowed, count>>

PublishFails ==
  /\ At("publish")
  /\ Faults(IF dirs[op.s] = None THEN 1 ELSE 0)
  /\ Goto("undo")
  /\ UNCHANGED <<entries, health, disk, allowed>>

\* A worker of the session being deleted appends its next event: TranscriptStore::append
\* creates the directory again.
LateAppend(s) ==
  /\ \E c \in CallsAt(s, UnderWay) : calls[c].kind = "delete"
  /\ dirs[s] = None
  /\ dirs' = [dirs EXCEPT ![s] = Husk]
  /\ UNCHANGED <<entries, health, marker, snapshot, live, bak, rows, op, calls, crossed, allowed,
                 count>>

\* update: session.json, then the list.
WriteMetadata ==
  /\ At("metadata")
  /\ dirs[op.s] \in AllTitles
  /\ dirs' = IF op.kind = "update" THEN [dirs EXCEPT ![op.s] = op.title] ELSE dirs
  /\ entries' = [entries EXCEPT ![op.s] = op.title]
  /\ Goto("compact")
  /\ UNCHANGED <<health, marker, snapshot, live, bak, rows, allowed, count>>

\* The write fails, before or after it replaced the file.
MetadataFails ==
  /\ At("metadata")
  /\ \/ UNCHANGED dirs
     \/ /\ dirs[op.s] \in AllTitles
        /\ op.kind = "update"
        /\ dirs' = [dirs EXCEPT ![op.s] = op.title]
  /\ MarkRepair
  /\ Fail
  /\ UNCHANGED <<entries, snapshot, live, bak, rows, allowed>>

\* delete: the directory and all in it.
RemoveDirectory ==
  /\ At("remove")
  /\ dirs[op.s] # None
  /\ dirs' = [dirs EXCEPT ![op.s] = None]
  /\ Goto("compact")
  /\ UNCHANGED <<entries, health, marker, snapshot, live, bak, rows, allowed, count>>

\* remove_dir_all stops before or behind session.json, or finds no directory; an entry that
\* was not in the list needs no compensation.
RemoveFails ==
  /\ At("remove")
  /\ Faults(IF dirs[op.s] = None THEN 0 ELSE 1)
  /\ dirs' \in {dirs, [dirs EXCEPT ![op.s] = IF @ = None THEN None ELSE Husk]}
  /\ IF op.title = None THEN Fail ELSE Goto("undo")
  /\ UNCHANGED <<entries, health, marker, snapshot, live, bak, rows, allowed>>

\* Variant: the list is restored, the log is not.
UndoneInMemory == live

\* The compensation record.
Restored == IF op.kind = "create" THEN None ELSE op.title
Undone   == Extend(live, op.s, Restored)

\* Whether the client can be sure of what the compensation left: no other call is under
\* way, and the directory is as it was.
Disturbed ==
  \/ CallsAt(op.s, Outside) # {}
  \/ op.kind = "create" /\ dirs[op.s] \in AllTitles
  \/ op.kind = "delete" /\ dirs[op.s] \notin AllTitles

Undo ==
  /\ At("undo")
  /\ live' = Undone
  /\ entries' = [entries EXCEPT ![op.s] = Restored]
  /\ allowed' = IF Disturbed THEN allowed
                ELSE [allowed EXCEPT ![op.s] = IF op.kind = "create" THEN {None} ELSE @ \ {None}]
  /\ Fail
  /\ UNCHANGED <<health, marker, snapshot, bak, dirs, rows, count>>

UndoFails ==
  /\ At("undo")
  /\ live' \in FailedExtend(live, op.s, Restored)
  /\ MarkRepair
  /\ Fail
  /\ UNCHANGED <<entries, snapshot, bak, dirs, rows, allowed>>

-----------------------------------------------------------------------------
(* maybe_compact, and the same rotation of the log in a rebuild              *)

NewSnapshot == entries

Compact ==
  /\ At("compact")
  /\ IF Len(live.recs) < CompactLines
     THEN Goto("done") /\ UNCHANGED snapshot
     ELSE Goto("rotate") /\ snapshot' = NewSnapshot
  /\ UNCHANGED <<entries, health, marker, live, bak, dirs, rows, allowed, count>>

\* n I/O calls of a compaction fail.
CompactionFailed(n) ==
  /\ count.faults + n <= MaxFaults
  /\ count' = [count EXCEPT !.faults = @ + n, !.compactFaults = @ + 1]

SnapshotFails ==
  /\ At("snapshot") \/ (At("compact") /\ Len(live.recs) >= CompactLines)
  /\ snapshot' \in {snapshot, NewSnapshot}
  /\ CompactionFailed(1)
  /\ Fail
  /\ UNCHANGED <<entries, health, marker, live, bak, dirs, rows, allowed>>

\* The live log becomes the backup; a backup left by an earlier stop goes first.
RotateLog ==
  /\ At("rotate")
  /\ bak' = IF live.exists THEN live ELSE bak
  /\ live' = NoLog
  /\ Goto("swap")
  /\ UNCHANGED <<entries, health, marker, snapshot, dirs, rows, allowed, count>>

RotateFails ==
  /\ At("rotate")
  /\ bak' \in {bak, IF live.exists THEN NoLog ELSE bak}
  /\ CompactionFailed(1)
  /\ Fail
  /\ UNCHANGED <<entries, health, marker, snapshot, live, dirs, rows, allowed>>

\* The empty log is renamed into place.
SwapLog ==
  /\ At("swap")
  /\ live' = EmptyLog
  /\ Goto("clean")
  /\ UNCHANGED <<entries, health, marker, snapshot, bak, dirs, rows, allowed, count>>

\* A rollback that fails: the running gateway asks for a repair, a rebuild just ends.
RollbackFails ==
  IF Up
  THEN /\ health' = "RepairRequired"
       /\ \/ marker' = TRUE /\ CompactionFailed(2)
          \/ UNCHANGED marker /\ CompactionFailed(3)
  ELSE UNCHANGED <<health, marker>> /\ CompactionFailed(2)

\* The backup becomes the live log again, or not even that works, or the empty log is in
\* place and only the directory could not be synced.
SwapFails ==
  /\ At("swap")
  /\ \/ /\ live' = bak
        /\ bak' = NoLog
        /\ CompactionFailed(1)
        /\ UNCHANGED <<health, marker>>
     \/ RollbackFails /\ UNCHANGED <<live, bak>>
     \/ /\ live' = EmptyLog
        /\ CompactionFailed(1)
        /\ UNCHANGED <<health, marker, bak>>
  /\ Fail
  /\ UNCHANGED <<entries, snapshot, dirs, rows, allowed>>

AfterClean == IF Up THEN "done" ELSE "audit"

RemoveBackup ==
  /\ At("clean")
  /\ bak' = NoLog
  /\ Goto(AfterClean)
  /\ UNCHANGED <<entries, health, marker, snapshot, live, dirs, rows, allowed, count>>

RemoveBackupFails ==
  /\ At("clean")
  /\ bak.exists
  /\ \/ /\ live' = bak
        /\ bak' = NoLog
        /\ CompactionFailed(1)
        /\ UNCHANGED <<health, marker>>
     \/ /\ RollbackFails
        /\ \/ live' \in {live, NoLog} /\ UNCHANGED bak
           \/ live' = bak /\ bak' = NoLog
  /\ Fail
  /\ UNCHANGED <<entries, snapshot, dirs, rows, allowed>>

-----------------------------------------------------------------------------
(* AppState: the end of an index call, and the SQLite row behind it          *)

\* What a title, and a rollback, leave for the client to find, if no other call interferes.
Certain == IF op.kind \in {"update", "create"} THEN {op.title} ELSE {None}

\* The lock is free again.  A title and a rollback are answered, a creation and a deletion
\* have the row left to do.
Release ==
  /\ At("done")
  /\ op' = Idle
  /\ calls' = [c \in Clients |-> IF calls[c].at # "index" THEN calls[c]
                                 ELSE IF op.rollback THEN NoCall
                                 ELSE [calls[c] EXCEPT !.at = "row"]]
  /\ allowed' = IF (op.kind = "update" \/ op.rollback) /\ CallsAt(op.s, Outside) = {}
                THEN [allowed EXCEPT ![op.s] = Certain]
                ELSE allowed
  /\ UNCHANGED <<entries, health, disk, crossed, count>>

\* The reply says that the session is there, or that it is gone.
Promised(c) == IF calls[c].kind = "delete" THEN {None} ELSE allowed[calls[c].s] \ {None}

StoreRow(c) ==
  /\ calls[c].at = "row"
  /\ rows' = IF calls[c].kind = "create" THEN rows \cup {calls[c].s} ELSE rows \ {calls[c].s}
  /\ calls' = [calls EXCEPT ![c] = NoCall]
  /\ allowed' = IF calls[c].s \in crossed THEN allowed
                ELSE [allowed EXCEPT ![calls[c].s] = Promised(c)]
  /\ UNCHANGED <<entries, health, marker, snapshot, live, bak, dirs, op, crossed, count>>

\* Variant: the failure of the store is answered without a rollback.
NoRollback(c) == NoCall

\* The index call is taken back, unless the deletion had found nothing in the list.
Rollback(c) ==
  IF calls[c].title = None THEN NoCall ELSE [calls[c] EXCEPT !.at = "back"]

\* The store fails; a new row may be in and only not be read back.
StoreRowFails(c) ==
  /\ calls[c].at = "row"
  /\ Faults(1)
  /\ \/ UNCHANGED rows
     \/ calls[c].kind = "create" /\ rows' = rows \cup {calls[c].s}
  /\ calls' = [calls EXCEPT ![c] = Rollback(c)]
  /\ UNCHANGED <<entries, health, marker, snapshot, live, bak, dirs, op, crossed, allowed>>

\* The rollback is the opposite index call, with the entry the deletion had read.
BeginRollback(c) ==
  /\ calls[c].at = "back"
  /\ IF calls[c].kind = "create" THEN Lock(c, "delete", entries[calls[c].s])
     ELSE Lock(c, "create", calls[c].title)

-----------------------------------------------------------------------------
(* Crash and startup *)

Crash ==
  /\ count.crashes < MaxCrashes
  /\ count' = [count EXCEPT !.crashes = @ + 1]
  /\ entries' = Nobody
  /\ health' = "Healthy"
  /\ op' = Down
  /\ calls' = [c \in Clients |-> NoCall]
  \* a record may have been on its way to the log
  /\ IF At("log") THEN live' \in FailedExtend(live, op.s, Logged) ELSE UNCHANGED live
  /\ UNCHANGED <<marker, snapshot, bak, dirs, rows, crossed, allowed>>

Load ==
  /\ At("down")
  /\ entries' = Loaded
  /\ Goto(IF MustRebuild THEN "snapshot" ELSE "audit")
  /\ UNCHANGED <<health, disk, allowed, count>>

\* rebuild_from_sessions_dir
RebuildSnapshot ==
  /\ At("snapshot")
  /\ snapshot' = NewSnapshot
  /\ Goto("rotate")
  /\ UNCHANGED <<entries, health, marker, live, bak, dirs, rows, allowed, count>>

AuditSession(s) ==
  /\ At("audit")
  /\ Audited(entries, s) # entries[s]
  /\ entries' = [entries EXCEPT ![s] = Audited(entries, s)]
  /\ live' = Extend(live, s, Audited(entries, s))
  /\ UNCHANGED <<health, marker, snapshot, bak, dirs, rows, op, calls, crossed, allowed,
                 count>>

AuditFails(s) ==
  /\ At("audit")
  /\ Audited(entries, s) # entries[s]
  /\ live' \in FailedExtend(live, s, Audited(entries, s))
  /\ Faults(1)
  /\ Fail
  /\ UNCHANGED <<entries, health, marker, snapshot, bak, dirs, rows, allowed>>

\* The audit is done and the marker goes: the gateway is up.
Serve ==
  /\ At("audit")
  /\ \A s \in Sessions : Audited(entries, s) = entries[s]
  /\ marker' = FALSE
  /\ op' = Idle
  /\ UNCHANGED <<entries, health, snapshot, live, bak, dirs, rows, calls, crossed, allowed, count>>

-----------------------------------------------------------------------------
Next ==
  \/ \E c \in Clients : \/ \E s \in Sessions : BeginCreate(c, s) \/ ReadList(c, s)
                        \/ BeginDelete(c) \/ Refuse(c)
                        \/ StoreRow(c) \/ StoreRowFails(c) \/ BeginRollback(c)
  \/ \E s \in Sessions : \/ BeginTouch(s) \/ LateAppend(s)
                         \/ \E t \in Titles : BeginUpdate(s, t) \/ TitleFromEvent(s, t)
                         \/ AuditSession(s) \/ AuditFails(s)
  \/ AppendLog \/ AppendLogFails \/ Publish \/ PublishFails \/ WriteMetadata \/ MetadataFails
  \/ RemoveDirectory \/ RemoveFails \/ Undo \/ UndoFails
  \/ Compact \/ SnapshotFails \/ RotateLog \/ RotateFails \/ SwapLog \/ SwapFails
  \/ RemoveBackup \/ RemoveBackupFails \/ Release
  \/ Crash \/ Load \/ RebuildSnapshot \/ Serve

Spec == Init /\ [][Next]_vars

-----------------------------------------------------------------------------
(* Properties *)

Entries   == [Sessions -> AllTitles \cup {None}]
Steps     == {"idle", "log", "publish", "metadata", "remove", "undo", "compact", "rotate",
              "swap", "clean", "done", "down", "snapshot", "audit"}
Operation == [kind : {"none", "create", "update", "touch", "delete", "recover"}, s : Sessions,
              title : AllTitles \cup {None}, rollback : BOOLEAN, pc : Steps]
Call      == [kind : {"none", "create", "delete"}, s : Sessions, title : AllTitles \cup {None},
              at : UnderWay \cup {"idle"}]

TypeOK ==
  /\ entries \in Entries /\ snapshot \in Entries
  /\ health \in {"Healthy", "RepairRequired"} /\ marker \in BOOLEAN
  /\ live \in LogFile /\ bak \in LogFile
  /\ dirs \in [Sessions -> AllTitles \cup {None, Husk}]
  /\ rows \subseteq Sessions
  /\ op \in Operation
  /\ calls \in [Clients -> Call] /\ crossed \subseteq Sessions
  /\ allowed \in [Sessions -> SUBSET (AllTitles \cup {None})]
  /\ count \in [ops : Nat, faults : Nat, compactFaults : Nat, crashes : Nat]

\* While the gateway is up, every session is listed as the replies to the clients allow:
\* with the title last acknowledged or one attempted since, deleted when the deletion
\* was acknowledged, through every failing call, compaction, crash and rebuild.  A title
\* acknowledged while a creation or deletion of the session is under way counts as
\* attempted only (the rollback of the deletion installs the title it had read before),
\* and so does the answer to a deletion that overlapped another one.
AckedSurvives == Up => \A s \in Sessions : entries[s] \in allowed[s]

Settled == LockFree /\ Healthy

\* Between index calls, a restart would load the list that is in memory, unless an
\* append to the log failed since its last rotation: snapshot, log, compensation
\* records, compaction and its rollbacks, rebuild and audit agree.  Not so for a session
\* with overlapping deletions: when both are rolled back the second rollback finds the
\* directory of the first in its way, and takes the session off the list.
RestartLoadsTheList ==
  Settled /\ ~ live.stray =>
    \A s \in Sessions \ crossed : dirs[s] # Husk => Audited(Loaded, s) = entries[s]

\* docs/superpowers/specs/2026-03-30-session-filesystem-index-design.md:125: no failure
\* leaves a session in the index whose directory is not published, nor (:138) a directory
\* without its session, for as long as no removal of a directory stopped halfway and no
\* two deletions of the session overlapped.
ListedArePublished ==
  Settled => \A s \in Sessions \ crossed :
               dirs[s] # Husk => (entries[s] = None <=> dirs[s] = None)

\* With every call answered, a session that is listed has its row in the store, which
\* submit needs for its messages, after one failing call too, which is rolled back; without
\* a failing call no row is left of a session that is gone.  Not so when a compaction
\* failed or the process died, nor for a session whose deletion began before its creation or
\* another deletion of it was answered: rows and index have no common lock, so the row of
\* the creation may come after that of the deletion.
RowsMatch ==
  /\ Settled /\ \A c \in Clients : calls[c] = NoCall
  /\ count.faults <= 1 /\ count.compactFaults = 0 /\ count.crashes = 0
  => \A s \in Sessions \ crossed :
       /\ entries[s] # None => s \in rows
       /\ count.faults = 0 /\ s \in rows => entries[s] # None

\* Index, directories and rows of the store, three copies of one list that are changed one
\* after the other (state/events.rs, session_index_store.rs), agree when nothing is under way.
CopiesAgree == TypeOK /\ ListedArePublished /\ RowsMatch
=============================================================================
