-------------------------- MODULE TranscriptStore --------------------------
(***************************************************************************)
(* The transcript of one session on disk (openjax-gateway/src/transcript/  *)
(* store.rs): a manifest and numbered JSONL segments.  TranscriptStore     *)
(* keeps nothing in memory between calls, so an I/O error that makes       *)
(* append return early and a crash of the process leave the same state:    *)
(* both are the Fail action.  A record is abstracted to its event_seq and  *)
(* its encoded size; a line is what a reader of the file sees.             *)
(***************************************************************************)
EXTENDS Naturals, Sequences, SequencesExt

CONSTANTS
  Sizes,            \* encoded sizes, newline included, a record may have
  SegmentMaxBytes,  \* segment_max_bytes
  MaxSegments,      \* bound: segments a behaviour may create
  MaxSeq,           \* bound: event_seq a behaviour may reach
  MaxFaults         \* bound: failed or unwritable operations

ASSUME SizesAssumption       == Sizes \subseteq Nat \ {0}
ASSUME SegmentMaxAssumption  == SegmentMaxBytes \in Nat \ {0}
ASSUME BoundsAssumption      == MaxSegments \in Nat \ {0} /\ MaxSeq \in Nat /\ MaxFaults \in Nat

Segments == 1..MaxSegments

\* seq: the record's event_seq; whole: the line parses; ended: it has its newline.
Line == [seq : Nat, size : Nat, whole : BOOLEAN, ended : BOOLEAN]

Manifest == [state : {"absent", "ok", "torn"}, last : Nat, active : Segments]
Call     == [pc : {"idle", "recover", "rotate", "roll", "recheck", "write", "newline",
                   "manifest"},
             last : Nat, active : Segments, size : Nat]

VARIABLES
  present,     \* the session directory exists
  manifest,    \* manifest.json: absent, ok or torn, with its two fields
  segments,    \* lines of each segment file
  unwritable,  \* segments that can no longer be opened for append
  call,        \* the append in progress and its local manifest
  acked,       \* event_seq of every record append has returned, in order
  faults,      \* faults so far
  intact       \* no fault has left files that append and replay cannot go on from

vars == <<present, manifest, segments, unwritable, call, acked, faults, intact>>

-----------------------------------------------------------------------------
\* Variant: the first segment is numbered 0.
NoManifestFromZero == [state |-> "absent", last |-> 0, active |-> 0]

NoManifest == [state |-> "absent", last |-> 0, active |-> 1]
NoCall     == [pc |-> "idle", last |-> 0, active |-> 1, size |-> 0]
NoLines    == [s \in Segments |-> <<>>]

\* Variant: the numbers start again with every segment.
SavedPerSegment(last, active) ==
  [state |-> "ok", last |-> IF active = manifest.active THEN last ELSE 0, active |-> active]

\* write_manifest: fs::write of the local copy.
Saved(last, active) == [state |-> "ok", last |-> last, active |-> active]

FileLength(lines) == FoldLeft(LAMBDA n, l : n + l.size, 0, lines)

\* Variant: the segment is opened with truncate instead of append.
WrittenTruncated(lines, seq, size, whole) ==
  <<[seq |-> seq, size |-> size, whole |-> whole, ended |-> FALSE]>>

\* What the file holds after one more write_all of a record: a line of its own,
\* or, behind a line that never got its newline, the tail of that line.
Written(lines, seq, size, whole) ==
  LET n == Len(lines) IN
  IF n > 0 /\ ~ lines[n].ended
  THEN [lines EXCEPT ![n] = [seq |-> lines[n].seq, size |-> lines[n].size + size,
                             whole |-> FALSE, ended |-> FALSE]]
  ELSE Append(lines, [seq |-> seq, size |-> size, whole |-> whole, ended |-> FALSE])

Terminated(lines) == [lines EXCEPT ![Len(lines)].ended = TRUE]

-----------------------------------------------------------------------------
Init ==
  /\ present = FALSE
  /\ manifest = NoManifest
  /\ segments = NoLines
  /\ unwritable = {}
  /\ call = NoCall
  /\ acked = <<>>
  /\ faults = 0
  /\ intact = TRUE

\* append: create the directory, read the manifest or start an empty one.  A
\* manifest that does not parse makes append return without effect.
AppendBegin(size) ==
  /\ call.pc = "idle"
  /\ manifest.state # "torn"
  /\ manifest.last < MaxSeq
  /\ present' = TRUE
  /\ call' = [pc |-> "recover", last |-> manifest.last, active |-> manifest.active,
              size |-> size]
  /\ UNCHANGED <<manifest, segments, unwritable, acked, faults, intact>>

\* recover_manifest_from_tail_if_needed: the tail line of the active segment
\* wins over the manifest.  A tail line that does not parse makes append fail.
TailLines == segments[call.active]

\* Variant: the tail is never looked at.
TailIgnored == FALSE

TailTorn  == TailLines # <<>> /\ ~ TailLines[Len(TailLines)].whole
TailAhead == TailLines # <<>> /\ ~ TailTorn /\ TailLines[Len(TailLines)].seq > call.last

RecoverTail ==
  /\ call.pc = "recover"
  /\ present
  /\ \/ TailTorn /\ call' = NoCall /\ UNCHANGED manifest
     \/ /\ TailAhead
        /\ call' = [call EXCEPT !.pc = "rotate", !.last = TailLines[Len(TailLines)].seq]
        /\ manifest' = Saved(TailLines[Len(TailLines)].seq, call.active)
     \/ /\ ~ TailTorn /\ ~ TailAhead
        /\ call' = [call EXCEPT !.pc = "rotate"]
        /\ UNCHANGED manifest
  /\ UNCHANGED <<present, segments, unwritable, acked, faults, intact>>

\* rotate_if_active_segment_unwritable: the next segment, manifest first; if
\* that one cannot be opened either, append fails.
RotateUnwritable(next) ==
  IF call.active \notin unwritable
  THEN call' = [call EXCEPT !.pc = next] /\ UNCHANGED manifest
  ELSE /\ call.active < MaxSegments
       /\ manifest' = Saved(call.last, call.active + 1)
       /\ call' = IF call.active + 1 \in unwritable THEN NoCall
                  ELSE [call EXCEPT !.pc = next, !.active = call.active + 1]

RotateBefore ==
  /\ call.pc = "rotate"
  /\ present
  /\ RotateUnwritable("roll")
  /\ UNCHANGED <<present, segments, unwritable, acked, faults, intact>>

\* should_rotate_by_size: the new segment is only in the local manifest.
RollBySize ==
  /\ call.pc = "roll"
  /\ present
  /\ IF FileLength(segments[call.active]) + call.size > SegmentMaxBytes
     THEN /\ call.active < MaxSegments
          /\ call' = [call EXCEPT !.pc = "recheck", !.active = @ + 1]
     ELSE call' = [call EXCEPT !.pc = "recheck"]
  /\ UNCHANGED <<present, manifest, segments, unwritable, acked, faults, intact>>

RotateAfter ==
  /\ call.pc = "recheck"
  /\ present
  /\ RotateUnwritable("write")
  /\ UNCHANGED <<present, segments, unwritable, acked, faults, intact>>

\* write_all(encoded), with event_seq = last_event_seq + 1.
WriteRecord ==
  /\ call.pc = "write"
  /\ present
  /\ call.active \notin unwritable
  /\ segments' = [segments EXCEPT ![call.active] =
                    Written(@, call.last + 1, call.size, TRUE)]
  /\ call' = [call EXCEPT !.pc = "newline"]
  /\ UNCHANGED <<present, manifest, unwritable, acked, faults, intact>>

\* write_all(b"\n")
WriteNewline ==
  /\ call.pc = "newline"
  /\ present
  /\ segments' = [segments EXCEPT ![call.active] = Terminated(@)]
  /\ call' = [call EXCEPT !.pc = "manifest"]
  /\ UNCHANGED <<present, manifest, unwritable, acked, faults, intact>>

\* write_manifest, and append returns the record with its event_seq.
WriteManifest ==
  /\ call.pc = "manifest"
  /\ present
  /\ manifest' = Saved(call.last + 1, call.active)
  /\ acked' = Append(acked, call.last + 1)
  /\ call' = NoCall
  /\ UNCHANGED <<present, segments, unwritable, faults, intact>>

-----------------------------------------------------------------------------
(* Faults.  Each stops the append in progress, leaving what was written.    *)

\* The roll to a new segment by size is only in the local manifest so far.
Rolled == manifest.active # call.active

\* harmful: the tail recovery of the next append does not see what was left, or neither
\* append nor replay can read it.
Fault(harmful) ==
  /\ present
  /\ faults < MaxFaults
  /\ faults' = faults + 1
  /\ intact' = (intact /\ ~ harmful)

\* Nothing of the record is in the file yet.
FailBefore ==
  /\ call.pc \in {"recover", "rotate", "roll", "recheck", "write"}
  /\ Fault(FALSE)
  /\ call' = NoCall
  /\ UNCHANGED <<present, manifest, segments, unwritable, acked>>

\* A prefix of the record is in the file, a line that does not parse.
FailPartial ==
  /\ call.pc = "write"
  /\ Fault(TRUE)
  /\ segments' = [segments EXCEPT ![call.active] =
                    Written(@, call.last + 1, call.size, FALSE)]
  /\ call' = NoCall
  /\ UNCHANGED <<present, manifest, unwritable, acked>>

\* The record is in the file, its newline is not: the next record goes on in this line.
FailNewline ==
  /\ call.pc = "newline"
  /\ Fault(TRUE)
  /\ call' = NoCall
  /\ UNCHANGED <<present, manifest, segments, unwritable, acked>>

\* The line is complete, the manifest on disk is still the one before it.
FailManifest ==
  /\ call.pc = "manifest"
  /\ Fault(Rolled)
  /\ call' = NoCall
  /\ UNCHANGED <<present, manifest, segments, unwritable, acked>>

\* The next step of append writes the manifest.
ManifestDue ==
  \/ call.pc = "manifest"
  \/ call.pc = "recover" /\ TailAhead
  \/ call.pc \in {"rotate", "recheck"} /\ call.active \in unwritable

\* fs::write truncates manifest.json and stops before the new text is complete.
FailTornManifest ==
  /\ ManifestDue
  /\ Fault(TRUE)
  /\ manifest' = [manifest EXCEPT !.state = "torn"]
  /\ call' = NoCall
  /\ UNCHANGED <<present, segments, unwritable, acked>>

\* A segment can no longer be opened for append; its lines stay readable.
BecomeUnwritable(s) ==
  /\ call.pc = "idle"
  /\ s \notin unwritable
  /\ Fault(FALSE)
  /\ unwritable' = unwritable \cup {s}
  /\ UNCHANGED <<present, manifest, segments, call, acked>>

\* delete_session: the directory goes, at any moment of an append.
DeleteSession ==
  /\ present
  /\ present' = FALSE
  /\ manifest' = NoManifest
  /\ segments' = NoLines
  /\ unwritable' = {}
  /\ acked' = <<>>
  /\ intact' = TRUE
  /\ UNCHANGED <<call, faults>>

\* The append that was in progress finds its directory gone.
AppendIntoDeleted ==
  /\ call.pc # "idle"
  /\ ~ present
  /\ call' = NoCall
  /\ UNCHANGED <<present, manifest, segments, unwritable, acked, faults, intact>>

Next ==
  \/ \E size \in Sizes : AppendBegin(size)
  \/ RecoverTail \/ RotateBefore \/ RollBySize \/ RotateAfter
  \/ WriteRecord \/ WriteNewline \/ WriteManifest
  \/ FailBefore \/ FailPartial \/ FailNewline \/ FailManifest \/ FailTornManifest
  \/ \E s \in Segments : BecomeUnwritable(s)
  \/ DeleteSession \/ AppendIntoDeleted

Spec == Init /\ [][Next]_vars

-----------------------------------------------------------------------------
(* Properties *)

TypeOK ==
  /\ present \in BOOLEAN
  /\ manifest \in Manifest
  /\ segments \in [Segments -> Seq(Line)]
  /\ unwritable \subseteq Segments
  /\ call \in Call
  /\ acked \in Seq(Nat)
  /\ faults \in Nat
  /\ intact \in BOOLEAN

\* The numbers append hands out grow strictly for as long as the session exists,
\* whatever fails: what SSE clients use as event ids (store.rs:68-102).
AckedIncreasing ==
  \A i, j \in DOMAIN acked : i < j => acked[i] < acked[j]

\* The lines of all segments, in segment order.
Stored == FlattenSeq([s \in Segments |-> segments[s]])

\* The manifest and each line of each segment can be read.
Parses ==
  /\ manifest.state # "torn"
  /\ \A s \in Segments : \A i \in DOMAIN segments[s] : segments[s][i].whole

\* replay: all records or an error, which is no record; none before there is a manifest.
Replayed == IF manifest.state = "ok" /\ Parses THEN Stored ELSE <<>>

\* Every record that append has returned is a complete line of the replay.
AckedReplayable ==
  \A i \in DOMAIN acked : \E j \in DOMAIN Replayed :
    Replayed[j].seq = acked[i] /\ Replayed[j].whole /\ Replayed[j].ended

\* openjax-gateway/README.md:185: /timeline and the resumed stream are read from the
\* transcript and keep the order of the events that were published. Only a fault that
\* leaves a torn manifest, a part of a record or a record without its newline makes the
\* replay an error; and a replay that is no error has each record that append has ever
\* returned, after any number of faults, double numbers and rolls that were forgotten.
AckedReplayableWhenIntact == (intact => Parses) /\ (Parses => AckedReplayable)

\* A line that has its newline is never altered or removed, except with the session.
EndedLinesAreKept ==
  [][present' => \A s \in Segments : \A i \in DOMAIN segments[s] :
       segments[s][i].ended => /\ i \in DOMAIN segments'[s]
                               /\ segments'[s][i] = segments[s][i]]_vars

Numbers(lines) == [i \in DOMAIN lines |-> lines[i].seq]

\* The promise of the store (see EventLog): what a replay returns is an append-only log
\* numbered from 1 without gaps, of which the acknowledged records are a subsequence.
Abstract == INSTANCE EventLog WITH durable <- Numbers(Replayed), acked <- acked, intact <- intact

ImplementsEventLog == Abstract!Spec
=============================================================================
