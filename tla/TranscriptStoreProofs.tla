----------------------- MODULE TranscriptStoreProofs -----------------------
(***************************************************************************)
(* Proofs about the transcript of a session for every segment size, bound  *)
(* and choice of fault points: its types, that the event numbers handed    *)
(* out grow, that complete lines are never altered, that what append has   *)
(* returned can be replayed, and that the store is an append-only log.     *)
(* The last two rest on what FlattenSeq does step by step, shown by a      *)
(* least counterexample.                                                   *)
(***************************************************************************)
EXTENDS TranscriptStore, WellFoundedInduction, TLAPS

-----------------------------------------------------------------------------
(* What the two writes do to the lines of a segment. *)

\* A write_all leaves a sequence of lines, and every line that has its newline.
LEMMA WrittenKeeps ==
  ASSUME NEW lines \in Seq(Line), NEW seq \in Nat, NEW size \in Nat, NEW whole \in BOOLEAN
  PROVE  /\ Written(lines, seq, size, whole) \in Seq(Line)
         /\ \A i \in DOMAIN lines : lines[i].ended =>
              /\ i \in DOMAIN Written(lines, seq, size, whole)
              /\ Written(lines, seq, size, whole)[i] = lines[i]
<1>1. CASE Len(lines) > 0 /\ ~ lines[Len(lines)].ended
  <2> DEFINE glued == [seq |-> lines[Len(lines)].seq, size |-> lines[Len(lines)].size + size,
                       whole |-> FALSE, ended |-> FALSE]
  <2>1. lines[Len(lines)] \in Line
    BY <1>1
  <2>2. glued \in Line
    BY <2>1 DEF Line
  <2>3. Written(lines, seq, size, whole) = [lines EXCEPT ![Len(lines)] = glued]
    BY <1>1 DEF Written
  <2> HIDE DEF glued
  <2>4. QED
    BY <1>1, <2>2, <2>3
<1>2. CASE ~ (Len(lines) > 0 /\ ~ lines[Len(lines)].ended)
  <2> DEFINE new == [seq |-> seq, size |-> size, whole |-> whole, ended |-> FALSE]
  <2>1. new \in Line
    BY DEF Line
  <2>2. Written(lines, seq, size, whole) = Append(lines, new)
    BY <1>2 DEF Written
  <2> HIDE DEF new
  <2>3. QED
    BY <2>1, <2>2
<1>3. QED
  BY <1>1, <1>2

\* The newline changes nothing but the last line, and that one only if it had none.
LEMMA TerminatedKeeps ==
  ASSUME NEW lines \in Seq(Line)
  PROVE  /\ Terminated(lines) \in Seq(Line)
         /\ \A i \in DOMAIN lines : lines[i].ended =>
              /\ i \in DOMAIN Terminated(lines)
              /\ Terminated(lines)[i] = lines[i]
<1> DEFINE Ended(i) == [lines[i] EXCEPT !.ended = TRUE]
           Result   == [i \in DOMAIN lines |-> IF i = Len(lines) THEN Ended(i) ELSE lines[i]]
<1>1. ASSUME NEW i \in DOMAIN lines
      PROVE  Ended(i) \in Line /\ (lines[i].ended => Ended(i) = lines[i])
  <2>1. lines[i] \in Line
    OBVIOUS
  <2>2. QED
    BY <2>1 DEF Line
<1>2. Terminated(lines) = Result
  BY DEF Terminated
<1> HIDE DEF Ended
<1>3. Result \in [1..Len(lines) -> Line]
  BY <1>1
<1>4. Result \in Seq(Line)
  BY <1>3
<1>5. \A i \in DOMAIN lines : lines[i].ended => i \in DOMAIN Result /\ Result[i] = lines[i]
  BY <1>1
<1>6. QED
  BY <1>2, <1>4, <1>5

\* A line that does not parse stays one whatever is written behind it.
LEMMA WrittenTorn ==
  ASSUME NEW lines \in Seq(Line), NEW seq \in Nat, NEW size \in Nat, NEW whole \in BOOLEAN
  PROVE  \A i \in DOMAIN lines : ~ lines[i].whole =>
           /\ i \in DOMAIN Written(lines, seq, size, whole)
           /\ ~ Written(lines, seq, size, whole)[i].whole
<1>1. CASE Len(lines) > 0 /\ ~ lines[Len(lines)].ended
  <2>1. PICK glued : glued = [seq |-> lines[Len(lines)].seq,
                              size |-> lines[Len(lines)].size + size,
                              whole |-> FALSE, ended |-> FALSE]
    OBVIOUS
  <2>2. ~ glued.whole
    BY <2>1
  <2>3. Written(lines, seq, size, whole) = [lines EXCEPT ![Len(lines)] = glued]
    BY <1>1, <2>1 DEF Written
  <2> QED
    BY <1>1, <2>2, <2>3
<1>2. CASE ~ (Len(lines) > 0 /\ ~ lines[Len(lines)].ended)
  <2>1. PICK new : new = [seq |-> seq, size |-> size, whole |-> whole, ended |-> FALSE]
    OBVIOUS
  <2>2. Written(lines, seq, size, whole) = Append(lines, new)
    BY <1>2, <2>1 DEF Written
  <2> QED
    BY <2>2
<1> QED
  BY <1>1, <1>2

\* What a write of a whole record leaves at the end, if it does not spoil a line.
LEMMA WrittenEnd ==
  ASSUME NEW lines \in Seq(Line), NEW seq \in Nat, NEW size \in Nat,
         NEW more, more = Written(lines, seq, size, TRUE)
  PROVE  \/ more # <<>> /\ Last(more).seq = seq /\ Last(more).whole
         \/ \E k \in DOMAIN more : ~ more[k].whole
<1>1. CASE Len(lines) > 0 /\ ~ lines[Len(lines)].ended
  <2>1. PICK glued : glued = [seq |-> lines[Len(lines)].seq,
                              size |-> lines[Len(lines)].size + size,
                              whole |-> FALSE, ended |-> FALSE]
    OBVIOUS
  <2>2. ~ glued.whole
    BY <2>1
  <2>3. more = [lines EXCEPT ![Len(lines)] = glued]
    BY <1>1, <2>1 DEF Written
  <2>4. Len(lines) \in DOMAIN lines
    BY <1>1
  <2>5. Len(lines) \in DOMAIN more /\ more[Len(lines)] = glued
    BY <2>3, <2>4
  <2> QED
    BY <2>2, <2>5
<1>2. CASE ~ (Len(lines) > 0 /\ ~ lines[Len(lines)].ended)
  <2>1. PICK new : new = [seq |-> seq, size |-> size, whole |-> TRUE, ended |-> FALSE]
    OBVIOUS
  <2>2. new.seq = seq /\ new.whole
    BY <2>1
  <2>3. more = Append(lines, new)
    BY <1>2, <2>1 DEF Written
  <2>4. more # <<>> /\ Last(more) = new
    <3>1. Append(lines, new) # <<>> /\ Last(Append(lines, new)) = new
      BY DEF Last
    <3> QED
      BY <2>3, <3>1
  <2> QED
    BY <2>2, <2>4
<1> QED
  BY <1>1, <1>2

\* The newline tells nothing else about a line.
LEMMA TerminatedWhole ==
  ASSUME NEW lines \in Seq(Line)
  PROVE  /\ DOMAIN Terminated(lines) = DOMAIN lines
         /\ \A i \in DOMAIN lines : Terminated(lines)[i].whole = lines[i].whole
         /\ lines # <<>> => /\ Terminated(lines) # <<>>
                            /\ Last(Terminated(lines)).seq = Last(lines).seq
                            /\ Last(Terminated(lines)).whole = Last(lines).whole
                            /\ Last(Terminated(lines)).ended
<1>1. CASE lines = <<>>
  <2>1. DOMAIN Terminated(lines) = {} /\ DOMAIN lines = {}
    BY <1>1 DEF Terminated
  <2> QED
    BY <1>1, <2>1
<1>2. CASE lines # <<>>
  <2>1. Len(lines) \in DOMAIN lines /\ lines[Len(lines)] \in Line
    BY <1>2
  <2>2. PICK last : last = [lines[Len(lines)] EXCEPT !.ended = TRUE]
    OBVIOUS
  <2>3. /\ last.whole = lines[Len(lines)].whole /\ last.seq = lines[Len(lines)].seq
        /\ last.ended
    BY <2>1, <2>2 DEF Line
  <2>4. Terminated(lines) = [lines EXCEPT ![Len(lines)] = last]
    BY <2>2 DEF Terminated
  <2>5. /\ DOMAIN Terminated(lines) = DOMAIN lines
        /\ \A i \in DOMAIN lines : i # Len(lines) => Terminated(lines)[i] = lines[i]
        /\ Terminated(lines)[Len(lines)] = last
    BY <2>1, <2>4
  <2>6. Terminated(lines) \in Seq(Line) /\ Len(Terminated(lines)) = Len(lines)
    <3>1. Terminated(lines) \in Seq(Line)
      BY TerminatedKeeps
    <3> QED
      BY <2>5, <3>1
  <2>7. Terminated(lines) # <<>>
    BY <1>2, <2>6
  <2>8. Last(Terminated(lines)) = last /\ Last(lines) = lines[Len(lines)]
    BY <2>5, <2>6 DEF Last
  <2>9. ASSUME NEW i \in DOMAIN lines PROVE Terminated(lines)[i].whole = lines[i].whole
    BY <2>3, <2>5
  <2> QED
    BY <2>3, <2>5, <2>7, <2>8, <2>9
<1> QED
  BY <1>1, <1>2

-----------------------------------------------------------------------------
(* Types *)

\* The records Init assigns and the local copies an append writes have their types.
LEMMA RecordTypes ==
  /\ NoManifest \in Manifest
  /\ NoCall \in Call
  /\ NoLines \in [Segments -> Seq(Line)]
  /\ \A last \in Nat, active \in Segments : Saved(last, active) \in Manifest
<1>1. 1 \in Segments
  BY BoundsAssumption DEF Segments
<1>2. NoManifest \in Manifest /\ NoCall \in Call
  BY <1>1 DEF NoManifest, Manifest, NoCall, Call
<1>3. NoLines \in [Segments -> Seq(Line)]
  BY DEF NoLines
<1>4. ASSUME NEW last \in Nat, NEW active \in Segments PROVE Saved(last, active) \in Manifest
  BY DEF Saved, Manifest
<1>5. QED
  BY <1>2, <1>3, <1>4

\* The state keeps its types: active segments stay within the segments there
\* are, sequence numbers stay natural, and every segment is a sequence of lines.
THEOREM TypeCorrect == Spec => []TypeOK
<1>1. Init => TypeOK
  <2> SUFFICES ASSUME Init PROVE TypeOK
    OBVIOUS
  <2>1. manifest \in Manifest /\ call \in Call /\ segments \in [Segments -> Seq(Line)]
    BY RecordTypes DEF Init
  <2>2. present \in BOOLEAN /\ unwritable \subseteq Segments /\ faults \in Nat /\ intact \in BOOLEAN
    BY DEF Init
  <2>3. acked \in Seq(Nat)
    BY DEF Init
  <2>4. QED
    BY <2>1, <2>2, <2>3 DEF TypeOK
<1>2. TypeOK /\ [Next]_vars => TypeOK'
  <2> SUFFICES ASSUME TypeOK, [Next]_vars PROVE TypeOK'
    OBVIOUS
  <2> USE DEF TypeOK
  <2>1. ASSUME NEW size \in Sizes, AppendBegin(size) PROVE TypeOK'
    BY <2>1, SizesAssumption DEF AppendBegin, Manifest, Call
  <2>2. CASE RecoverTail
    <3>1. CASE TailAhead
      <4>1. TailLines \in Seq(Line) /\ TailLines # <<>>
        BY <3>1 DEF TailLines, TailAhead, Call
      <4>2. TailLines[Len(TailLines)] \in Line
        BY <4>1
      <4>3. TailLines[Len(TailLines)].seq \in Nat
        BY <4>2 DEF Line
      <4>4. manifest' \in Manifest
        BY <2>2, <3>1, <4>3, RecordTypes DEF RecoverTail, TailAhead, Call
      <4>5. call' \in Call
        BY <2>2, <3>1, <4>3, RecordTypes DEF RecoverTail, TailAhead, Call
      <4>6. QED
        BY <2>2, <4>4, <4>5 DEF RecoverTail
    <3>2. CASE ~ TailAhead
      BY <2>2, <3>2, RecordTypes DEF RecoverTail, Call
    <3>3. QED
      BY <3>1, <3>2
  <2>3. ASSUME NEW next \in {"roll", "write"}, RotateUnwritable(next),
               UNCHANGED <<present, segments, unwritable, acked, faults, intact>>
        PROVE  TypeOK'
    <3>1. CASE call.active \notin unwritable
      BY <2>3, <3>1 DEF RotateUnwritable, Call
    <3>2. CASE call.active \in unwritable
      <4>1. call.active + 1 \in Segments
        BY <2>3, <3>2, BoundsAssumption DEF RotateUnwritable, Segments, Call
      <4>2. manifest' \in Manifest
        BY <2>3, <3>2, <4>1, RecordTypes DEF RotateUnwritable, Call
      <4>3. call' \in Call
        BY <2>3, <3>2, <4>1, RecordTypes DEF RotateUnwritable, Call
      <4>4. QED
        BY <2>3, <4>2, <4>3
    <3>3. QED
      BY <3>1, <3>2
  <2>4. CASE RotateBefore
    BY <2>3, <2>4 DEF RotateBefore
  <2>5. CASE RollBySize
    <3>1. call.active < MaxSegments => call.active + 1 \in Segments
      BY BoundsAssumption DEF Segments, Call
    <3>2. QED
      BY <2>5, <3>1 DEF RollBySize, Call
  <2>6. CASE RotateAfter
    BY <2>3, <2>6 DEF RotateAfter
  <2>7. segments[call.active] \in Seq(Line) /\ call.last + 1 \in Nat /\ call.size \in Nat
    BY DEF Call
  <2>8. CASE WriteRecord
    <3>1. Written(segments[call.active], call.last + 1, call.size, TRUE) \in Seq(Line)
      BY <2>7, WrittenKeeps
    <3>2. QED
      BY <2>8, <3>1 DEF WriteRecord, Call
  <2>9. CASE WriteNewline
    <3>1. Terminated(segments[call.active]) \in Seq(Line)
      BY <2>7, TerminatedKeeps
    <3>2. QED
      BY <2>9, <3>1 DEF WriteNewline, Call
  <2>10. CASE WriteManifest
    <3>1. manifest' \in Manifest /\ call' \in Call
      BY <2>10, RecordTypes DEF WriteManifest, Call
    <3>2. QED
      BY <2>7, <2>10, <3>1 DEF WriteManifest
  <2>0. ASSUME NEW harmful, Fault(harmful) PROVE faults' \in Nat /\ intact' \in BOOLEAN
    <3>1. (intact /\ ~ harmful) \in BOOLEAN
      BY Zenon
    <3>2. QED
      BY <2>0, <3>1 DEF Fault
  <2>11. CASE FailBefore \/ FailNewline \/ FailManifest
    <3>1. faults' \in Nat /\ intact' \in BOOLEAN
      BY <2>11, <2>0 DEF FailBefore, FailNewline, FailManifest
    <3>2. QED
      BY <2>11, <3>1, RecordTypes DEF FailBefore, FailNewline, FailManifest
  <2>12. CASE FailPartial
    <3>1. Written(segments[call.active], call.last + 1, call.size, FALSE) \in Seq(Line)
      BY <2>7, WrittenKeeps
    <3>2. segments' \in [Segments -> Seq(Line)]
      BY <2>12, <3>1 DEF FailPartial
    <3>3. call' \in Call /\ faults' \in Nat /\ intact' \in BOOLEAN
      BY <2>12, <2>0, RecordTypes DEF FailPartial
    <3>4. UNCHANGED <<present, manifest, unwritable, acked>>
      BY <2>12 DEF FailPartial, Fault
    <3>5. QED
      BY <3>2, <3>3, <3>4
  <2>13. CASE FailTornManifest
    <3>1. manifest' \in Manifest
      BY <2>13 DEF FailTornManifest, Manifest
    <3>2. call' \in Call /\ faults' \in Nat /\ intact' \in BOOLEAN
      BY <2>13, <2>0, RecordTypes DEF FailTornManifest
    <3>3. QED
      BY <2>13, <3>1, <3>2 DEF FailTornManifest
  <2>14. ASSUME NEW s \in Segments, BecomeUnwritable(s) PROVE TypeOK'
    BY <2>14, <2>0 DEF BecomeUnwritable
  <2>15. CASE DeleteSession
    <3>1. <<>> \in Seq(Nat)
      OBVIOUS
    <3>2. QED
      BY <2>15, <3>1, RecordTypes DEF DeleteSession
  <2>16. CASE AppendIntoDeleted
    BY <2>16, RecordTypes DEF AppendIntoDeleted
  <2>17. CASE UNCHANGED vars
    BY <2>17 DEF vars
  <2>18. QED
    BY <2>1, <2>2, <2>4, <2>5, <2>6, <2>8, <2>9, <2>10, <2>11, <2>12, <2>13, <2>14, <2>15,
       <2>16, <2>17 DEF Next
<1>3. QED
  BY <1>1, <1>2, PTL DEF Spec

-----------------------------------------------------------------------------
(* Numbers *)

\* What AckedIncreasing rests on: whenever an append is in progress, the number it
\* works from is at least every number handed out, and so is that of the manifest
\* the next append will read.
ManifestCovers == manifest.state # "torn" => \A i \in DOMAIN acked : acked[i] <= manifest.last
CallCovers     == call.pc # "idle" => \A i \in DOMAIN acked : acked[i] <= call.last

NumbersInv == AckedIncreasing /\ ManifestCovers /\ CallCovers

\* Only WriteManifest hands out a number; the others are free to move the manifest
\* and the call as long as they stay above the numbers handed out.
LEMMA NumbersKept ==
  ASSUME TypeOK, NumbersInv, UNCHANGED acked, ManifestCovers', CallCovers'
  PROVE  NumbersInv'
BY DEF NumbersInv, AckedIncreasing

\* No step lets a number handed out get ahead of the append or the manifest.
LEMMA NumbersSound ==
  /\ Init => NumbersInv
  /\ TypeOK /\ TypeOK' /\ NumbersInv /\ [Next]_vars => NumbersInv'
<1>1. Init => NumbersInv
  BY DEF Init, NumbersInv, AckedIncreasing, ManifestCovers, CallCovers, NoCall, NoManifest
<1>2. TypeOK /\ TypeOK' /\ NumbersInv /\ [Next]_vars => NumbersInv'
  <2> SUFFICES ASSUME TypeOK, TypeOK', NumbersInv, [Next]_vars PROVE NumbersInv'
    OBVIOUS
  <2>0. /\ AckedIncreasing /\ ManifestCovers /\ CallCovers
        /\ acked \in Seq(Nat) /\ call.last \in Nat /\ manifest.last \in Nat
        /\ manifest \in Manifest /\ call \in Call
    BY DEF NumbersInv, TypeOK, Manifest, Call
  <2>1. ASSUME NEW size \in Sizes, AppendBegin(size) PROVE NumbersInv'
    BY <2>0, <2>1, NumbersKept DEF AppendBegin, ManifestCovers, CallCovers
  <2>2. CASE RecoverTail
    <3>1. CASE TailAhead
      <4>1. TailLines \in Seq(Line) /\ TailLines # <<>>
        BY <3>1 DEF TailLines, TailAhead, TypeOK, Call
      <4>2. TailLines[Len(TailLines)] \in Line
        BY <4>1
      <4>3. TailLines[Len(TailLines)].seq \in Nat /\ TailLines[Len(TailLines)].seq > call.last
        BY <3>1, <4>2 DEF Line, TailAhead
      <4>4. /\ manifest' = Saved(TailLines[Len(TailLines)].seq, call.active)
            /\ call'.last = TailLines[Len(TailLines)].seq
            /\ UNCHANGED acked
            /\ call.pc # "idle"
        BY <2>0, <2>2, <3>1 DEF RecoverTail, TailAhead, Call
      <4>5. \A i \in DOMAIN acked : acked[i] <= TailLines[Len(TailLines)].seq
        BY <2>0, <4>3, <4>4 DEF CallCovers
      <4>6. QED
        BY <4>4, <4>5, NumbersKept DEF Saved, ManifestCovers, CallCovers
    <3>2. CASE ~ TailAhead
      BY <2>0, <2>2, <3>2, NumbersKept DEF RecoverTail, NoCall, ManifestCovers, CallCovers, Call
    <3>3. QED
      BY <3>1, <3>2
  <2>3. ASSUME NEW next \in {"roll", "write"}, RotateUnwritable(next), call.pc # "idle",
               UNCHANGED acked
        PROVE  NumbersInv'
    <3>1. CASE call.active \notin unwritable
      BY <2>0, <2>3, <3>1, NumbersKept DEF RotateUnwritable, ManifestCovers, CallCovers, Call
    <3>2. CASE call.active \in unwritable
      <4>1. manifest' = Saved(call.last, call.active + 1)
        BY <2>3, <3>2 DEF RotateUnwritable
      <4>2. call'.pc = "idle" \/ call'.last = call.last
        <5>1. CASE call.active + 1 \in unwritable
          BY <2>3, <3>2, <5>1 DEF RotateUnwritable, NoCall
        <5>2. CASE call.active + 1 \notin unwritable
          BY <2>0, <2>3, <3>2, <5>2 DEF RotateUnwritable, Call
        <5>3. QED
          BY <5>1, <5>2
      <4>3. QED
        BY <2>0, <2>3, <4>1, <4>2, NumbersKept DEF Saved, ManifestCovers, CallCovers
    <3>3. QED
      BY <3>1, <3>2
  <2>4. CASE RotateBefore
    BY <2>3, <2>4 DEF RotateBefore
  <2>5. CASE RollBySize
    BY <2>0, <2>5, NumbersKept DEF RollBySize, ManifestCovers, CallCovers, Call
  <2>6. CASE RotateAfter
    BY <2>3, <2>6 DEF RotateAfter
  <2>7. CASE WriteRecord \/ WriteNewline
    BY <2>0, <2>7, NumbersKept DEF WriteRecord, WriteNewline, ManifestCovers, CallCovers, Call
  <2>8. CASE WriteManifest
    <3> DEFINE n == call.last + 1
    <3>1. /\ acked' = Append(acked, n)
          /\ manifest' = Saved(n, call.active)
          /\ call' = NoCall
          /\ \A i \in DOMAIN acked : acked[i] < n
      BY <2>0, <2>8 DEF WriteManifest, CallCovers
    <3>2. AckedIncreasing'
      BY <2>0, <3>1 DEF AckedIncreasing
    <3>3. \A i \in DOMAIN acked' : acked'[i] <= n
      BY <2>0, <3>1
    <3>4. ManifestCovers' /\ CallCovers'
      BY <3>1, <3>3 DEF ManifestCovers, CallCovers, Saved, NoCall
    <3>5. QED
      BY <3>2, <3>4 DEF NumbersInv
  <2>9. CASE FailBefore \/ FailPartial \/ FailNewline \/ FailManifest \/ AppendIntoDeleted
    <3>1. UNCHANGED <<manifest, acked>> /\ call' = NoCall
      BY <2>9 DEF FailBefore, FailPartial, FailNewline, FailManifest, AppendIntoDeleted
    <3>2. QED
      BY <2>0, <3>1, NumbersKept DEF ManifestCovers, CallCovers, NoCall
  <2>10. CASE FailTornManifest
    BY <2>0, <2>10, NumbersKept DEF FailTornManifest, ManifestCovers, CallCovers, NoCall, Manifest
  <2>11. ASSUME NEW s \in Segments, BecomeUnwritable(s) PROVE NumbersInv'
    BY <2>0, <2>11, NumbersKept DEF BecomeUnwritable, ManifestCovers, CallCovers
  <2>12. CASE DeleteSession
    BY <2>12 DEF DeleteSession, NumbersInv, AckedIncreasing, ManifestCovers, CallCovers
  <2>13. CASE UNCHANGED vars
    BY <2>0, <2>13, NumbersKept DEF vars, ManifestCovers, CallCovers
  <2>14. QED
    BY <2>1, <2>2, <2>4, <2>5, <2>6, <2>7, <2>8, <2>9, <2>10, <2>11, <2>12, <2>13 DEF Next
<1>3. QED
  BY <1>1, <1>2

\* Numbers handed out by append grow strictly while the session exists, wherever
\* appends stop, whatever becomes unwritable and whatever the segment size.
THEOREM NumbersGrow == Spec => []AckedIncreasing
<1>1. NumbersInv => AckedIncreasing
  BY DEF NumbersInv
<1>2. QED
  BY <1>1, NumbersSound, TypeCorrect, PTL DEF Spec

-----------------------------------------------------------------------------
(* Lines *)

\* A step adds lines behind the ones there are and leaves those with a newline as
\* they are, unless it deletes the session.
LinesKept ==
  present' => \A s \in Segments : \A i \in DOMAIN segments[s] :
    segments[s][i].ended => /\ i \in DOMAIN segments'[s]
                            /\ segments'[s][i] = segments[s][i]

\* Every step is of this kind.
LEMMA StepKeepsLines ==
  ASSUME TypeOK, [Next]_vars
  PROVE  LinesKept
<1>1. segments \in [Segments -> Seq(Line)] /\ call.active \in Segments
      /\ call.last + 1 \in Nat /\ call.size \in Nat
  BY DEF TypeOK, Call
<1>2. segments[call.active] \in Seq(Line)
  BY <1>1
<1>3. ASSUME NEW whole \in BOOLEAN,
             segments' = [segments EXCEPT ![call.active] =
                            Written(@, call.last + 1, call.size, whole)]
      PROVE  LinesKept
  <2> DEFINE new == Written(segments[call.active], call.last + 1, call.size, whole)
  <2>1. \A i \in DOMAIN segments[call.active] : segments[call.active][i].ended =>
          i \in DOMAIN new /\ new[i] = segments[call.active][i]
    BY <1>1, <1>2, WrittenKeeps
  <2>2. segments' = [segments EXCEPT ![call.active] = new]
    BY <1>3
  <2> HIDE DEF new
  <2>3. QED
    BY <1>1, <2>1, <2>2 DEF LinesKept
<1>4. ASSUME segments' = [segments EXCEPT ![call.active] = Terminated(@)]
      PROVE  LinesKept
  <2> DEFINE new == Terminated(segments[call.active])
  <2>1. \A i \in DOMAIN segments[call.active] : segments[call.active][i].ended =>
          i \in DOMAIN new /\ new[i] = segments[call.active][i]
    BY <1>2, TerminatedKeeps
  <2>2. segments' = [segments EXCEPT ![call.active] = new]
    BY <1>4
  <2> HIDE DEF new
  <2>3. QED
    BY <1>1, <2>1, <2>2 DEF LinesKept
<1>5. CASE WriteRecord \/ FailPartial
  BY <1>3, <1>5 DEF WriteRecord, FailPartial
<1>6. CASE WriteNewline
  BY <1>4, <1>6 DEF WriteNewline
<1>7. CASE DeleteSession
  BY <1>7 DEF DeleteSession, LinesKept
<1>8. CASE UNCHANGED segments
  BY <1>8 DEF LinesKept
<1>9. QED
  BY <1>5, <1>6, <1>7, <1>8
     DEF Next, vars, AppendBegin, RecoverTail, RotateBefore, RollBySize, RotateAfter,
         WriteManifest, FailBefore, FailNewline, FailManifest, FailTornManifest,
         BecomeUnwritable, AppendIntoDeleted

\* Records that are complete on disk are never altered by later appends, failed
\* appends, rolls or recoveries, whatever the sizes and the fault points.
THEOREM LinesSurvive == Spec => EndedLinesAreKept
<1>1. TypeOK /\ [Next]_vars => [LinesKept]_vars
  BY StepKeepsLines
<1>2. QED
  BY <1>1, TypeCorrect, PTL DEF Spec, EndedLinesAreKept, LinesKept

-----------------------------------------------------------------------------
(* Sequences put together step by step *)

\* Of any natural numbers one is the least.
LEMMA LeastNumber ==
  ASSUME NEW T \in SUBSET Nat, T # {}
  PROVE  \E m \in T : \A n \in T : m <= n
<1>1. PICK m \in T : \A n \in T : ~ (<<n, m>> \in OpToRel(<, Nat))
  BY NatLessThanWellFounded, WFMin
<1>2. \A n \in T : ~ (n < m)
  BY <1>1 DEF OpToRel
<1> QED
  BY <1>2

\* A function that takes each of its values from the one before.
Stepwise(f, V, a, g, n) ==
  f \in [0..n -> V] /\ f[0] = a /\ \A i \in 1..n : f[i] = g[<<f[i - 1], i>>]

\* There is one, whatever the first value and the step.
LEMMA Steps ==
  ASSUME NEW V, NEW a \in V, NEW g \in [V \X Nat -> V], NEW n \in Nat
  PROVE  \E f : Stepwise(f, V, a, g, n)
<1> DEFINE Good(m) == \E f : Stepwise(f, V, a, g, m)
           Bad == {m \in Nat : ~ Good(m)}
<1>1. SUFFICES ASSUME ~ Good(n) PROVE FALSE
  OBVIOUS
<1>2. PICK m \in Bad : \A k \in Bad : m <= k
  <2>1. n \in Bad /\ Bad \in SUBSET Nat
    BY <1>1
  <2> HIDE DEF Bad
  <2> QED
    BY <2>1, LeastNumber
<1>3. m \in Nat /\ ~ Good(m)
  OBVIOUS
<1>4. CASE m = 0
  <2> DEFINE f == [i \in 0..0 |-> a]
  <2>1. f \in [0..0 -> V] /\ f[0] = a /\ \A i \in 1..0 : f[i] = g[<<f[i - 1], i>>]
    OBVIOUS
  <2> HIDE DEF f
  <2> QED
    BY <1>3, <1>4, <2>1 DEF Stepwise
<1>5. CASE m # 0
  <2>1. m - 1 \in Nat /\ ~ (m <= m - 1)
    BY <1>3, <1>5
  <2>2. Good(m - 1)
    <3>1. m - 1 \notin Bad
      BY <1>2, <2>1
    <3> QED
      BY <2>1, <3>1
  <2>3. PICK e \in [0..(m - 1) -> V] :
          e[0] = a /\ \A i \in 1..(m - 1) : e[i] = g[<<e[i - 1], i>>]
    BY <2>2 DEF Stepwise
  <2>4. PICK v \in V : v = g[<<e[m - 1], m>>]
    BY <1>3, <2>1
  <2> DEFINE f == [i \in 0..m |-> IF i = m THEN v ELSE e[i]]
  <2>5. f \in [0..m -> V] /\ f[0] = a
    BY <1>3, <1>5, <2>3
  <2>6. ASSUME NEW i \in 1..m PROVE f[i] = g[<<f[i - 1], i>>]
    <3>1. i - 1 \in 0..(m - 1) /\ f[i - 1] = e[i - 1]
      BY <1>3
    <3>2. CASE i = m
      <4>1. f[m] = v
        BY <1>3
      <4> HIDE DEF f
      <4> QED
        BY <2>4, <3>1, <3>2, <4>1
    <3>3. CASE i # m
      <4>1. i \in 1..(m - 1) /\ f[i] = e[i]
        BY <1>3, <3>3
      <4> QED
        BY <2>3, <3>1, <4>1
    <3> QED
      BY <3>2, <3>3
  <2> HIDE DEF f
  <2> QED
    BY <1>3, <2>5, <2>6 DEF Stepwise
<1> QED
  BY <1>4, <1>5

\* What holds at a, and at each number above it whenever it holds at the one before,
\* holds from a up to n.
LEMMA Climb ==
  ASSUME NEW a \in Nat, NEW n \in Nat, NEW T, a \in T,
         \A i \in (a + 1)..n : i - 1 \in T => i \in T
  PROVE  \A i \in a..n : i \in T
<1> DEFINE Bad == {i \in a..n : i \notin T}
<1>1. SUFFICES ASSUME Bad # {} PROVE FALSE
  OBVIOUS
<1>2. PICK m \in Bad : \A k \in Bad : m <= k
  <2>1. Bad \in SUBSET Nat
    OBVIOUS
  <2> HIDE DEF Bad
  <2> QED
    BY <1>1, <2>1, LeastNumber
<1>3. m \in (a + 1)..n /\ m - 1 \in a..n /\ ~ (m <= m - 1)
  OBVIOUS
<1>4. m - 1 \in T
  <2>1. m - 1 \notin Bad
    BY <1>2, <1>3
  <2> QED
    BY <1>3, <2>1
<1> QED
  BY <1>3, <1>4

\* The sequences q[1], ..., q[n] behind each other: f[i] is the first i of them.
Joined(f, S, q, n) ==
  /\ q \in [1..n -> Seq(S)] /\ f \in [0..n -> Seq(S)]
  /\ f[0] = <<>> /\ \A i \in 1..n : f[i] = f[i - 1] \o q[i]

\* FlattenSeq puts the sequences behind each other, one by one.
LEMMA FlattenSteps ==
  ASSUME NEW S, NEW n \in Nat \ {0}, NEW q \in [1..n -> Seq(S)]
  PROVE  \E f : Joined(f, S, q, n) /\ FlattenSeq(q) = f[n]
<1> DEFINE V == Seq(S)
           g == [p \in V \X Nat |-> IF p[2] \in 1..n THEN p[1] \o q[p[2]] ELSE p[1]]
<1>1. g \in [V \X Nat -> V]
  OBVIOUS
<1>2. PICK f \in [0..n -> V] : f[0] = <<>> /\ \A i \in 1..n : f[i] = g[<<f[i - 1], i>>]
  <2>1. <<>> \in Seq(S)
    OBVIOUS
  <2> HIDE DEF g, V
  <2>2. PICK a \in V : a = <<>>
    <3>1. <<>> \in V
      BY <2>1 DEF V
    <3> QED
      BY <3>1
  <2>3. n \in Nat
    OBVIOUS
  <2>4. \E f : Stepwise(f, V, a, g, n)
    BY <1>1, <2>2, <2>3, Steps
  <2> QED
    BY <2>2, <2>4 DEF Stepwise
<1>3. \A i \in 1..n : f[i] = f[i - 1] \o q[i]
  <2>1. ASSUME NEW i \in 1..n PROVE f[i - 1] \in V /\ i \in Nat
    OBVIOUS
  <2> QED
    BY <1>2, <2>1
<1>4. Len(q) = n /\ f[1] = q[1]
  <2>1. f[0] = <<>> /\ f[1] = f[0] \o q[1]
    <3>1. 1 \in 1..n /\ 1 - 1 = 0
      OBVIOUS
    <3>2. f[1] = f[1 - 1] \o q[1]
      BY <1>3, <3>1
    <3> QED
      BY <1>2, <3>1, <3>2
  <2>2. \A s \in Seq(S) : <<>> \o s = s
    OBVIOUS
  <2> QED
    BY <2>1, <2>2
<1> DEFINE flatten[i \in 1..Len(q)] == IF i = 1 THEN q[i] ELSE flatten[i - 1] \o q[i]
<1>5. FlattenSeq(q) = flatten[Len(q)]
  BY <1>4 DEF FlattenSeq
<1>6. flatten = [i \in 1..Len(q) |-> IF i = 1 THEN q[i] ELSE flatten[i - 1] \o q[i]]
  <2> DEFINE F(h) == [i \in 1..Len(q) |-> IF i = 1 THEN q[i] ELSE h[i - 1] \o q[i]]
             e == [i \in 1..n |-> f[i]]
  <2>1. e = F(e)
    <3>1. ASSUME NEW i \in 1..n PROVE f[i] = IF i = 1 THEN q[i] ELSE e[i - 1] \o q[i]
      <4>1. CASE i = 1
        BY <1>4, <4>1
      <4>2. CASE i # 1
        <5>1. i - 1 \in 1..n
          BY <4>2
        <5>2. e[i - 1] = f[i - 1]
          BY <5>1
        <5> HIDE DEF e
        <5> QED
          BY <1>3, <4>2, <5>2
      <4> QED
        BY <4>1, <4>2
    <3> QED
      BY <1>4, <3>1
  <2>2. \E h : h = F(h)
    BY <2>1
  <2>3. flatten = CHOOSE h : h = F(h)
    OBVIOUS
  <2> HIDE DEF F, flatten
  <2>4. flatten = F(flatten)
    BY <2>2, <2>3
  <2> QED
    BY <2>4 DEF F
<1> HIDE DEF flatten
<1>7. ASSUME NEW i \in 1..n PROVE flatten[i] = IF i = 1 THEN q[i] ELSE flatten[i - 1] \o q[i]
  BY <1>4, <1>6
<1>8. \A i \in 1..n : flatten[i] = f[i]
  <2> DEFINE T == {i \in 1..n : flatten[i] = f[i]}
  <2>1. 1 \in T
    BY <1>4, <1>7
  <2>2. ASSUME NEW i \in (1 + 1)..n, i - 1 \in T PROVE i \in T
    <3>1. i \in 1..n /\ i # 1 /\ flatten[i - 1] = f[i - 1]
      BY <2>2
    <3>2. flatten[i] = flatten[i - 1] \o q[i]
      BY <1>7, <3>1
    <3>3. f[i] = f[i - 1] \o q[i]
      BY <1>3, <3>1
    <3> QED
      BY <3>1, <3>2, <3>3
  <2> HIDE DEF T
  <2>3. \A i \in 1..n : i \in T
    BY <2>1, <2>2, Climb
  <2> QED
    BY <2>3 DEF T
<1>9. flatten[n] = f[n]
  <2>1. n \in 1..n
    OBVIOUS
  <2> QED
    BY <1>8, <2>1
<1> QED
  BY <1>2, <1>3, <1>4, <1>5, <1>9 DEF Joined

\* A sequence that is put behind the others, and the elements it brings along.
LEMMA JoinedHas ==
  ASSUME NEW S, NEW n \in Nat, NEW q, NEW f, Joined(f, S, q, n),
         NEW s \in 1..n, NEW k \in DOMAIN q[s]
  PROVE  \E j \in DOMAIN f[n] : f[n][j] = q[s][k]
<1> DEFINE T == {i \in s..n : \E j \in DOMAIN f[i] : f[i][j] = q[s][k]}
<1>1. ASSUME NEW i \in 1..n
      PROVE  f[i] = f[i - 1] \o q[i] /\ f[i - 1] \in Seq(S) /\ q[i] \in Seq(S)
  <2>1. i - 1 \in 0..n
    OBVIOUS
  <2> QED
    BY <2>1 DEF Joined
<1>2. s \in T
  <2>1. f[s] = f[s - 1] \o q[s] /\ f[s - 1] \in Seq(S) /\ q[s] \in Seq(S)
    BY <1>1
  <2>2. PICK u \in Seq(S), v \in Seq(S) : u = f[s - 1] /\ v = q[s]
    BY <2>1
  <2>3. \E j \in DOMAIN f[s] : f[s][j] = q[s][k]
    <3>1. k \in DOMAIN v /\ f[s] = u \o v
      BY <2>1, <2>2
    <3>2. Len(u) + k \in DOMAIN (u \o v) /\ (u \o v)[Len(u) + k] = v[k]
      BY <3>1
    <3> QED
      BY <2>2, <3>1, <3>2
  <2>4. s \in s..n
    OBVIOUS
  <2> QED
    BY <2>3, <2>4, Zenon
<1>3. ASSUME NEW i \in (s + 1)..n, i - 1 \in T PROVE i \in T
  <2>1. i \in 1..n /\ i \in s..n
    OBVIOUS
  <2>2. f[i] = f[i - 1] \o q[i] /\ f[i - 1] \in Seq(S) /\ q[i] \in Seq(S)
    BY <1>1, <2>1
  <2>3. PICK j \in DOMAIN f[i - 1] : f[i - 1][j] = q[s][k]
    BY <1>3
  <2>4. ASSUME NEW u \in Seq(S), NEW v \in Seq(S), NEW l \in DOMAIN u
        PROVE  l \in DOMAIN (u \o v) /\ (u \o v)[l] = u[l]
    OBVIOUS
  <2>5. j \in DOMAIN f[i] /\ f[i][j] = q[s][k]
    BY <2>2, <2>3, <2>4
  <2> QED
    BY <2>1, <2>5
<1>4. s \in Nat /\ n \in s..n
  OBVIOUS
<1> HIDE DEF T
<1>5. n \in T
  BY <1>2, <1>3, <1>4, Climb
<1> QED
  BY <1>5 DEF T

\* Nothing but empty sequences.
LEMMA JoinedNothing ==
  ASSUME NEW S, NEW n \in Nat, NEW q, NEW f, Joined(f, S, q, n),
         \A i \in 1..n : q[i] = <<>>
  PROVE  f[n] = <<>>
<1> DEFINE T == {i \in 0..n : f[i] = <<>>}
<1>1. 0 \in T
  BY DEF Joined
<1>2. ASSUME NEW i \in (0 + 1)..n, i - 1 \in T PROVE i \in T
  <2>1. i \in 1..n /\ f[i - 1] = <<>> /\ q[i] = <<>> /\ i \in 0..n
    BY <1>2
  <2>2. f[i] = <<>> \o <<>>
    BY <2>1 DEF Joined
  <2>3. <<>> \o <<>> = <<>>
    OBVIOUS
  <2> QED
    BY <2>1, <2>2, <2>3
<1>3. 0 \in Nat /\ n \in 0..n
  OBVIOUS
<1> HIDE DEF T
<1>4. n \in T
  BY <1>1, <1>2, <1>3, Climb
<1> QED
  BY <1>4 DEF T

\* A line more is a number more.
LEMMA NumbersOfMore ==
  ASSUME NEW lines \in Seq(Line), NEW line \in Line
  PROVE  /\ Numbers(lines) \in Seq(Nat) /\ Len(Numbers(lines)) = Len(lines)
         /\ Numbers(Append(lines, line)) = Append(Numbers(lines), line.seq)
<1> DEFINE more == Append(lines, line)
<1>1. /\ more \in Seq(Line) /\ Len(more) = Len(lines) + 1 /\ more[Len(lines) + 1] = line
      /\ \A i \in 1..Len(lines) : more[i] = lines[i]
  OBVIOUS
<1> HIDE DEF more
<1>2. ASSUME NEW u \in Seq(Line)
      PROVE  /\ Numbers(u) \in Seq(Nat) /\ Len(Numbers(u)) = Len(u)
             /\ \A i \in 1..Len(u) : Numbers(u)[i] = u[i].seq
  <2>1. ASSUME NEW i \in DOMAIN u PROVE u[i].seq \in Nat
    <3>1. u[i] \in Line
      OBVIOUS
    <3> QED
      BY <3>1 DEF Line
  <2>2. Numbers(u) = [i \in 1..Len(u) |-> u[i].seq]
    BY DEF Numbers
  <2>3. Numbers(u) \in [1..Len(u) -> Nat]
    BY <2>1, <2>2
  <2> QED
    BY <2>2, <2>3
<1>3. line.seq \in Nat
  BY DEF Line
<1>4. /\ Numbers(lines) \in Seq(Nat) /\ Len(Numbers(lines)) = Len(lines)
      /\ \A i \in 1..Len(lines) : Numbers(lines)[i] = lines[i].seq
  BY <1>2
<1>5. /\ Numbers(more) \in Seq(Nat) /\ Len(Numbers(more)) = Len(lines) + 1
      /\ \A i \in 1..Len(lines) : Numbers(more)[i] = lines[i].seq
      /\ Numbers(more)[Len(lines) + 1] = line.seq
  <2>1. /\ Numbers(more) \in Seq(Nat) /\ Len(Numbers(more)) = Len(more)
        /\ \A i \in 1..Len(more) : Numbers(more)[i] = more[i].seq
    BY <1>1, <1>2
  <2>2. Len(lines) + 1 \in 1..Len(more) /\ \A i \in 1..Len(lines) : i \in 1..Len(more)
    BY <1>1
  <2> HIDE DEF Numbers
  <2> QED
    BY <1>1, <2>1, <2>2
<1>6. Numbers(more) = Append(Numbers(lines), line.seq)
  <2> DEFINE n == Numbers(more)
             m == Append(Numbers(lines), line.seq)
  <2>1. m \in Seq(Nat) /\ Len(m) = Len(lines) + 1
    BY <1>3, <1>4
  <2>2. ASSUME NEW i \in 1..(Len(lines) + 1) PROVE n[i] = m[i]
    <3>1. CASE i \in 1..Len(lines)
      <4>1. m[i] = Numbers(lines)[i]
        BY <1>3, <1>4, <3>1
      <4> QED
        BY <1>4, <1>5, <3>1, <4>1
    <3>2. CASE i \notin 1..Len(lines)
      <4>1. i = Len(lines) + 1 /\ m[i] = line.seq
        BY <1>3, <1>4, <3>2
      <4> QED
        BY <1>5, <4>1
    <3> QED
      BY <3>1, <3>2
  <2>3. n \in Seq(Nat) /\ Len(n) = Len(lines) + 1
    BY <1>5
  <2> HIDE DEF n, m
  <2>4. n = m
    BY <2>1, <2>2, <2>3
  <2> QED
    BY <2>4 DEF n, m
<1> QED
  BY <1>4, <1>6 DEF more

\* Ending a line changes no number.
LEMMA NumbersOfSame ==
  ASSUME NEW lines \in Seq(Line), NEW more \in Seq(Line), Len(lines) = Len(more),
         \A i \in 1..Len(lines) : more[i].seq = lines[i].seq
  PROVE  Numbers(more) = Numbers(lines)
<1>1. DOMAIN more = 1..Len(lines) /\ DOMAIN lines = 1..Len(lines)
  OBVIOUS
<1> QED
  BY <1>1 DEF Numbers

\* No lines, no numbers.
LEMMA NumbersOfNone == Numbers(<<>>) = <<>>
BY DEF Numbers

-----------------------------------------------------------------------------
(* The replayed lines *)

\* What these segments hold.
Log(q) == FlattenSeq([s \in Segments |-> q[s]])

\* Every line of a segment is replayed.
LEMMA LogHasAll ==
  ASSUME NEW q \in [Segments -> Seq(Line)]
  PROVE  /\ Log(q) \in Seq(Line)
         /\ \A s \in Segments : \A k \in DOMAIN q[s] :
              \E j \in DOMAIN Log(q) : Log(q)[j] = q[s][k]
<1>1. q = [s \in Segments |-> q[s]] /\ MaxSegments \in Nat \ {0}
  BY BoundsAssumption
<1>2. PICK f : Joined(f, Line, q, MaxSegments) /\ FlattenSeq(q) = f[MaxSegments]
  BY <1>1, FlattenSteps DEF Segments
<1>3. Log(q) = f[MaxSegments]
  BY <1>1, <1>2 DEF Log
<1>4. f[MaxSegments] \in Seq(Line)
  BY <1>1, <1>2 DEF Joined
<1>5. ASSUME NEW s \in Segments, NEW k \in DOMAIN q[s]
      PROVE  \E j \in DOMAIN f[MaxSegments] : f[MaxSegments][j] = q[s][k]
  <2> DEFINE S == Line
             n == MaxSegments
  <2>1. q \in [1..n -> Seq(S)] /\ s \in 1..n /\ k \in DOMAIN q[s]
    BY DEF Segments
  <2>2. n \in Nat /\ Joined(f, S, q, n)
    BY <1>1, <1>2
  <2> HIDE DEF S, n
  <2>3. \E j \in DOMAIN f[n] : f[n][j] = q[s][k]
    BY <2>1, <2>2, JoinedHas
  <2> QED
    BY <2>3 DEF n
<1> QED
  BY <1>3, <1>4, <1>5

\* The numbers of the replay are numbers.
LEMMA LogNumbers ==
  ASSUME NEW q \in [Segments -> Seq(Line)]
  PROVE  Numbers(Log(q)) \in Seq(Nat)
<1>1. PICK lines \in Seq(Line) : lines = Log(q)
  BY LogHasAll
<1>2. ASSUME NEW i \in DOMAIN lines PROVE lines[i].seq \in Nat
  <2>1. lines[i] \in Line
    OBVIOUS
  <2> QED
    BY <2>1 DEF Line
<1>3. Numbers(lines) \in [1..Len(lines) -> Nat]
  BY <1>2 DEF Numbers
<1> QED
  BY <1>1, <1>3

\* The last segment with lines ends the replay, and only its own lines are at stake
\* when it alone changes.
LEMMA LogEnds ==
  ASSUME NEW q \in [Segments -> Seq(Line)], NEW r \in [Segments -> Seq(Line)],
         NEW a \in Segments, \A s \in Segments : s # a => r[s] = q[s],
         \A s \in Segments : s > a => q[s] = <<>>
  PROVE  \E before \in Seq(Line) : Log(q) = before \o q[a] /\ Log(r) = before \o r[a]
<1>1. q = [s \in Segments |-> q[s]] /\ r = [s \in Segments |-> r[s]] /\ MaxSegments \in Nat \ {0}
  BY BoundsAssumption
<1>2. PICK f : Joined(f, Line, q, MaxSegments) /\ FlattenSeq(q) = f[MaxSegments]
  BY <1>1, FlattenSteps DEF Segments
<1>3. PICK e : Joined(e, Line, r, MaxSegments) /\ FlattenSeq(r) = e[MaxSegments]
  BY <1>1, FlattenSteps DEF Segments
<1>4. /\ f[a - 1] \in Seq(Line)
      /\ f[MaxSegments] = f[a - 1] \o q[a]
      /\ e[MaxSegments] = f[a - 1] \o r[a]
  <2> DEFINE S == Line
             n == MaxSegments
  <2>0. /\ q \in [1..n -> Seq(S)] /\ r \in [1..n -> Seq(S)] /\ a \in 1..n /\ n \in Nat
        /\ \A i \in 1..n : (i # a => q[i] = r[i]) /\ (i > a => q[i] = <<>>)
        /\ Joined(f, S, q, n) /\ Joined(e, S, r, n)
    BY <1>1, <1>2, <1>3 DEF Segments
  <2> HIDE DEF S, n
  <2>1. ASSUME NEW i \in 1..n
        PROVE  /\ f[i] = f[i - 1] \o q[i] /\ f[i - 1] \in Seq(S) /\ f[i] \in Seq(S)
               /\ e[i] = e[i - 1] \o r[i] /\ e[i - 1] \in Seq(S) /\ e[i] \in Seq(S)
    <3>1. i - 1 \in 0..n /\ i \in 0..n
      BY <2>0
    <3> QED
      BY <2>0, <3>1 DEF Joined
  <2>2. f[a - 1] = e[a - 1]
    <3>0. PICK b \in Nat : b = a - 1
      BY <2>0
    <3> DEFINE T == {i \in 0..b : f[i] = e[i]}
    <3>1. 0 \in T
      BY <2>0 DEF Joined
    <3>2. ASSUME NEW i \in (0 + 1)..b, i - 1 \in T PROVE i \in T
      <4>1. i \in 1..n /\ i # a /\ f[i - 1] = e[i - 1] /\ i \in 0..b
        BY <2>0, <3>0, <3>2
      <4>2. f[i] = f[i - 1] \o q[i] /\ e[i] = e[i - 1] \o r[i] /\ q[i] = r[i]
        BY <2>1, <4>1, <2>0
      <4> QED
        BY <4>1, <4>2
    <3>3. 0 \in Nat /\ b \in 0..b
      BY <2>0
    <3> HIDE DEF T
    <3>4. b \in T
      BY <2>0, <3>1, <3>2, <3>3, Climb
    <3> QED
      BY <3>0, <3>4 DEF T
  <2>3. f[n] = f[a] /\ e[n] = e[a]
    <3> DEFINE T == {i \in a..n : f[i] = f[a] /\ e[i] = e[a]}
    <3>1. a \in T
      BY <2>0
    <3>2. ASSUME NEW i \in (a + 1)..n, i - 1 \in T PROVE i \in T
      <4>1. i \in 1..n /\ i # a /\ i > a /\ i \in a..n
        BY <2>0
      <4>2. q[i] = <<>> /\ r[i] = <<>> /\ f[i - 1] = f[a] /\ e[i - 1] = e[a]
        BY <3>2, <4>1, <2>0
      <4>3. \A s \in Seq(S) : s \o <<>> = s
        BY <2>0
      <4>4. f[i] = f[i - 1] /\ e[i] = e[i - 1]
        BY ZenonT(30), <2>1, <4>1, <4>2, <4>3
      <4> QED
        BY <4>1, <4>2, <4>4
    <3>3. a \in Nat /\ n \in a..n
      BY <2>0
    <3> HIDE DEF T
    <3>4. n \in T
      BY <2>0, <3>1, <3>2, <3>3, Climb
    <3> QED
      BY <3>4 DEF T
  <2>4. f[a] = f[a - 1] \o q[a] /\ f[a - 1] \in Seq(S) /\ e[a] = e[a - 1] \o r[a]
    BY <2>0, <2>1
  <2> QED
    BY <2>2, <2>3, <2>4 DEF S, n
<1>5. Log(q) = f[MaxSegments] /\ Log(r) = e[MaxSegments]
  BY <1>1, <1>2, <1>3 DEF Log
<1> QED
  BY <1>4, <1>5

\* Without lines there is nothing to replay.
LEMMA LogOfNone == Log(NoLines) = <<>>
<1>1. /\ NoLines \in [Segments -> Seq(Line)] /\ MaxSegments \in Nat \ {0}
      /\ NoLines = [s \in Segments |-> NoLines[s]]
      /\ \A s \in Segments : NoLines[s] = <<>>
  BY RecordTypes, BoundsAssumption DEF NoLines
<1>2. PICK f : Joined(f, Line, NoLines, MaxSegments) /\ FlattenSeq(NoLines) = f[MaxSegments]
  BY ZenonT(30), <1>1, FlattenSteps DEF Segments
<1>3. f[MaxSegments] = <<>>
  BY <1>1, <1>2, JoinedNothing DEF Segments
<1> QED
  BY <1>1, <1>2, <1>3 DEF Log

\* The segments with one more line in the segment a.
OneMore(q, a, line) == [q EXCEPT ![a] = Append(q[a], line)]

\* A line more in the last segment is the last of the replay.
LEMMA LogOfMore ==
  ASSUME NEW q \in [Segments -> Seq(Line)], NEW a \in Segments,
         \A s \in Segments : s > a => q[s] = <<>>,
         NEW line \in Line
  PROVE  Numbers(Log(OneMore(q, a, line))) = Append(Numbers(Log(q)), line.seq)
<1> DEFINE r == OneMore(q, a, line)
<1>1. q[a] \in Seq(Line)
  OBVIOUS
<1>2. /\ r \in [Segments -> Seq(Line)] /\ r[a] = Append(q[a], line)
      /\ \A s \in Segments : s # a => r[s] = q[s]
  BY <1>1 DEF OneMore
<1> HIDE DEF r
<1>3. PICK before \in Seq(Line) : Log(q) = before \o q[a] /\ Log(r) = before \o r[a]
  BY <1>2, LogEnds
<1>4. before \o Append(q[a], line) = Append(before \o q[a], line) /\ before \o q[a] \in Seq(Line)
  BY <1>1
<1>5. Log(r) = Append(Log(q), line) /\ Log(q) \in Seq(Line)
  BY <1>2, <1>3, <1>4
<1>6. Numbers(Append(Log(q), line)) = Append(Numbers(Log(q)), line.seq)
  BY <1>5, NumbersOfMore
<1> QED
  BY <1>5, <1>6 DEF r

\* The newline behind the last line changes no number.
LEMMA LogTerminated ==
  ASSUME NEW q \in [Segments -> Seq(Line)], NEW a \in Segments,
         \A s \in Segments : s > a => q[s] = <<>>, q[a] # <<>>,
         NEW r, r = [q EXCEPT ![a] = Terminated(q[a])]
  PROVE  /\ Numbers(Log(r)) = Numbers(Log(q))
         /\ Len(r[a]) = Len(q[a])
         /\ r[a][Len(r[a])] = [q[a][Len(q[a])] EXCEPT !.ended = TRUE]
<1> DEFINE l == q[a]
           last == [l[Len(l)] EXCEPT !.ended = TRUE]
<1>1. l \in Seq(Line) /\ l # <<>> /\ Len(l) \in Nat \ {0} /\ l[Len(l)] \in Line
  OBVIOUS
<1>2. last \in Line /\ last.whole = l[Len(l)].whole /\ last.seq = l[Len(l)].seq
  BY <1>1 DEF Line
<1>3. PICK m \in Line : m = last
  BY <1>2
<1>4. Terminated(l) = [l EXCEPT ![Len(l)] = m]
  BY <1>3 DEF Terminated
<1> HIDE DEF last
<1>5. PICK t \in Seq(Line) : t = Terminated(l)
  BY <1>1, TerminatedKeeps
<1>6. /\ Len(t) = Len(l) /\ t[Len(l)] = m
      /\ \A i \in 1..Len(l) : t[i].whole = l[i].whole /\ t[i].seq = l[i].seq
  BY <1>1, <1>2, <1>3, <1>4, <1>5
<1>7. /\ r \in [Segments -> Seq(Line)] /\ r[a] = t
      /\ \A s \in Segments : s # a => r[s] = q[s]
  BY <1>5
<1>8. PICK before \in Seq(Line) : Log(q) = before \o l /\ Log(r) = before \o t
  <2>1. \E before \in Seq(Line) : Log(q) = before \o q[a] /\ Log(r) = before \o r[a]
    BY <1>7, LogEnds
  <2> QED
    BY <1>7, <2>1
<1> HIDE DEF l
<1>9. /\ before \o l \in Seq(Line) /\ before \o t \in Seq(Line)
      /\ Len(before \o l) = Len(before \o t)
      /\ \A i \in 1..Len(before \o l) : /\ (before \o t)[i].whole = (before \o l)[i].whole
                                        /\ (before \o t)[i].seq = (before \o l)[i].seq
  <2>1. /\ before \o l \in Seq(Line) /\ before \o t \in Seq(Line)
        /\ Len(before \o l) = Len(before) + Len(l) /\ Len(before \o t) = Len(before) + Len(l)
    <3>1. ASSUME NEW u \in Seq(Line), NEW v \in Seq(Line)
          PROVE  u \o v \in Seq(Line) /\ Len(u \o v) = Len(u) + Len(v)
      OBVIOUS
    <3> QED
      BY <1>1, <1>6, <3>1
  <2>2. ASSUME NEW i \in 1..Len(before \o l)
        PROVE  /\ (before \o t)[i].whole = (before \o l)[i].whole
               /\ (before \o t)[i].seq = (before \o l)[i].seq
    <3>1. CASE i <= Len(before)
      <4>1. (before \o t)[i] = before[i] /\ (before \o l)[i] = before[i]
        BY <1>1, <1>5, <1>6, <2>1, <3>1
      <4> QED
        BY <4>1
    <3>2. CASE ~ (i <= Len(before))
      <4>1. PICK k \in 1..Len(l) : i = Len(before) + k
        <5>1. i - Len(before) \in 1..Len(l) /\ i = Len(before) + (i - Len(before))
          BY <1>1, <2>1, <3>2
        <5> QED
          BY <5>1
      <4>2. (before \o t)[i] = t[k] /\ (before \o l)[i] = l[k]
        BY <1>1, <1>5, <1>6, <4>1
      <4> QED
        BY <1>6, <4>2
    <3> QED
      BY <3>1, <3>2
  <2> QED
    BY <2>1, <2>2
<1>10. Numbers(before \o t) = Numbers(before \o l)
  BY <1>9, NumbersOfSame
<1>11. r[a][Len(r[a])] = last
  BY <1>3, <1>6, <1>7
<1> QED
  BY <1>6, <1>7, <1>8, <1>10, <1>11 DEF last, l

-----------------------------------------------------------------------------
(* What holds as long as the files are intact *)

\* The numbers of the records on disk.
Durable == Numbers(Stored)

\* An append is in progress in a directory that exists.
Working == present /\ call.pc # "idle"

\* Its record is not in the file yet and the tail has been looked at, or it is.
Looked  == Working /\ call.pc \in {"rotate", "roll", "recheck", "write"}
Wrote   == Working /\ call.pc \in {"newline", "manifest"}

\* Nothing lies behind the active segment of the manifest but the segment the append
\* in progress has rolled to, and that one is still empty before the record goes in.
Beyond ==
  /\ \A s \in Segments : s > manifest.active /\ (Working => s # call.active) => segments[s] = <<>>
  /\ Working => call.active \in {manifest.active, manifest.active + 1}
  /\ Working /\ call.pc \in {"recover", "rotate", "roll"} => call.active = manifest.active
  /\ Working /\ call.pc \in {"recheck", "write"} /\ Rolled => segments[call.active] = <<>>

\* A record without its newline is the one of the append in progress, so the next
\* record starts a line of its own.
Lasts ==
  /\ \A s \in Segments :
       segments[s] # <<>> /\ Last(segments[s]).whole /\ ~ Last(segments[s]).ended =>
         Wrote /\ call.pc = "newline" /\ s = call.active
  /\ Looked => \/ segments[call.active] = <<>>
               \/ Last(segments[call.active]).whole /\ Last(segments[call.active]).ended
  /\ Wrote => /\ segments[call.active] # <<>>
              /\ Last(segments[call.active]).whole
              /\ Last(segments[call.active]).seq = call.last + 1
              /\ call.pc = "manifest" => Last(segments[call.active]).ended

\* The records are numbered 1, 2, 3, ...; the append in progress works from the number
\* of the last one, and whoever reads the manifest and the tail finds it too.
Numbered ==
  /\ \A i \in DOMAIN Durable : Durable[i] = i
  /\ Working /\ call.pc = "recover" => call.last = manifest.last /\ manifest.state # "torn"
  /\ Looked => call.last = Len(Durable)
  /\ Wrote  => call.last + 1 = Len(Durable)
  /\ manifest.state # "torn" /\ ~ (Wrote /\ Rolled) =>
       /\ segments[manifest.active] = <<>> => manifest.last = Len(Durable)
       /\ segments[manifest.active] # <<>> /\ Last(segments[manifest.active]).whole =>
            Last(segments[manifest.active]).seq = Len(Durable) /\ manifest.last <= Len(Durable)

\* Every number append has handed out is that of a complete line.
AckedLines ==
  \A i \in DOMAIN acked : \E s \in Segments : \E k \in DOMAIN segments[s] :
    segments[s][k].seq = acked[i] /\ segments[s][k].whole /\ segments[s][k].ended

\* A session that does not exist has no files.
NoFiles == ~ present => manifest = NoManifest /\ segments = NoLines /\ acked = <<>>

Files == NoFiles /\ (intact => Beyond /\ Lasts /\ Numbered /\ AckedLines)

\* The types the steps need at hand.
LEMMA FileTypes ==
  ASSUME TypeOK
  PROVE  /\ segments \in [Segments -> Seq(Line)]
         /\ manifest.active \in Segments /\ manifest.last \in Nat
         /\ call.active \in Segments /\ call.last \in Nat /\ call.size \in Nat
         /\ manifest \in Manifest /\ call \in Call
         /\ \A s \in Segments : s \in Nat
         /\ \A s \in Segments : segments[s] \in Seq(Line)
         /\ \A s \in Segments : segments[s] # <<>> => Last(segments[s]) \in Line
         /\ Stored = Log(segments)
         /\ Durable \in Seq(Nat) /\ Len(Durable) \in Nat
<1>1. /\ segments \in [Segments -> Seq(Line)]
      /\ manifest.active \in Segments /\ manifest.last \in Nat
      /\ call.active \in Segments /\ call.last \in Nat /\ call.size \in Nat
      /\ manifest \in Manifest /\ call \in Call
  BY DEF TypeOK, Manifest, Call
<1>2. \A s \in Segments : s \in Nat
  BY DEF Segments
<1>3. \A s \in Segments : segments[s] \in Seq(Line)
  BY <1>1
<1>4. ASSUME NEW s \in Segments, segments[s] # <<>> PROVE Last(segments[s]) \in Line
  BY <1>3, <1>4 DEF Last
<1>5. Stored = Log(segments)
  BY DEF Stored, Log
<1>6. Durable \in Seq(Nat)
  BY <1>1, <1>5, LogNumbers DEF Durable
<1> QED
  BY <1>1, <1>2, <1>3, <1>4, <1>5, <1>6

\* What was acknowledged stays in the files for as long as the session exists.
LEMMA AckedLinesKept ==
  ASSUME TypeOK, [Next]_vars, AckedLines, UNCHANGED acked, present'
  PROVE  AckedLines'
<1>1. ASSUME NEW i \in DOMAIN acked
      PROVE  \E s \in Segments : \E k \in DOMAIN segments'[s] :
               segments'[s][k].seq = acked[i] /\ segments'[s][k].whole /\ segments'[s][k].ended
  <2>1. PICK s \in Segments : \E k \in DOMAIN segments[s] :
          segments[s][k].seq = acked[i] /\ segments[s][k].whole /\ segments[s][k].ended
    BY DEF AckedLines
  <2>2. PICK k \in DOMAIN segments[s] :
          segments[s][k].seq = acked[i] /\ segments[s][k].whole /\ segments[s][k].ended
    BY <2>1
  <2>3. k \in DOMAIN segments'[s] /\ segments'[s][k] = segments[s][k]
    BY <2>2, StepKeepsLines DEF LinesKept
  <2> QED
    BY <2>2, <2>3
<1> QED
  BY <1>1 DEF AckedLines

\* The files do not change.
LEMMA SameFiles ==
  ASSUME UNCHANGED segments
  PROVE  Durable' = Durable /\ Stored' = Stored
BY DEF Durable, Stored

\* The acknowledged records need no look where nothing is acknowledged.
LEMMA FilesKept ==
  ASSUME TypeOK, [Next]_vars, Files, UNCHANGED acked, NoFiles',
         intact' => intact /\ Beyond' /\ Lasts' /\ Numbered'
  PROVE  Files'
<1>1. CASE present'
  BY <1>1, AckedLinesKept DEF Files
<1>2. CASE ~ present'
  <2>1. acked' = <<>>
    BY <1>2 DEF NoFiles
  <2>2. AckedLines'
    BY <2>1 DEF AckedLines
  <2> QED
    BY <2>2 DEF Files
<1> QED
  BY <1>1, <1>2

\* The steps of an append before its record goes in.
LEMMA FilesBegin ==
  ASSUME TypeOK, Files, NEW size \in Sizes, AppendBegin(size), [Next]_vars
  PROVE  Files'
<1>1. /\ call.pc = "idle" /\ manifest.state # "torn" /\ present'
      /\ call' = [pc |-> "recover", last |-> manifest.last, active |-> manifest.active,
                  size |-> size]
      /\ UNCHANGED <<manifest, segments, acked, intact>>
  BY DEF AppendBegin
<1>2. Durable' = Durable
  BY <1>1, SameFiles
<1>3. ASSUME intact PROVE Beyond' /\ Lasts' /\ Numbered'
  <2>0. Beyond /\ Lasts /\ Numbered
    BY <1>3 DEF Files
  <2>1. Beyond'
    BY <1>1, <2>0 DEF Beyond, Working
  <2>2. Lasts'
    BY <1>1, <2>0 DEF Lasts, Looked, Wrote, Working
  <2>3. Numbered'
    BY <1>1, <1>2, <2>0 DEF Numbered, Looked, Wrote, Working
  <2> QED
    BY <2>1, <2>2, <2>3
<1>4. NoFiles'
  BY <1>1 DEF NoFiles
<1> QED
  BY <1>1, <1>3, <1>4, FilesKept

LEMMA FilesRecover ==
  ASSUME TypeOK, Files, RecoverTail, [Next]_vars
  PROVE  Files'
<1>1. /\ call.pc = "recover" /\ present /\ present'
      /\ UNCHANGED <<segments, acked, intact>>
  BY DEF RecoverTail
<1>2. Durable' = Durable /\ Durable \in Seq(Nat) /\ Len(Durable) \in Nat
  BY <1>1, SameFiles, FileTypes
<1>3. /\ call \in Call /\ manifest \in Manifest /\ call.active \in Segments /\ call.last \in Nat
      /\ call.active \in Nat /\ \A s \in Segments : s \in Nat
  BY FileTypes
<1>4. TailLines = segments[call.active] /\ TailLines[Len(TailLines)] = Last(segments[call.active])
  BY DEF TailLines, Last
<1>5. ASSUME intact PROVE Beyond' /\ Lasts' /\ Numbered'
  <2>0. /\ Beyond /\ Lasts /\ Numbered
        /\ Working /\ manifest.active = call.active
        /\ manifest.state # "torn" /\ call.last = manifest.last
    BY <1>1, <1>5 DEF Files, Beyond, Numbered, Working
  <2>1. CASE TailTorn
    <3>1. call' = NoCall /\ manifest' = manifest
      BY <2>1 DEF RecoverTail, TailAhead
    <3>2. Beyond'
      <4>1. ~ Working'
        BY <3>1 DEF Working, NoCall
      <4>2. \A s \in Segments : s > call.active => s # call.active
        BY <1>3
      <4>3. \A s \in Segments : s > manifest.active => segments[s] = <<>>
        BY <2>0, <4>2 DEF Beyond
      <4> QED
        BY <1>1, <3>1, <4>1, <4>3 DEF Beyond
    <3>3. Lasts'
      BY <1>1, <2>0, <3>1 DEF Lasts, Looked, Wrote, Working, NoCall
    <3>4. Numbered'
      BY <1>1, <1>2, <2>0, <3>1 DEF Numbered, Looked, Wrote, Working, NoCall
    <3> QED
      BY <3>2, <3>3, <3>4
  <2>2. CASE ~ TailTorn
    <3>1. /\ call'.pc = "rotate" /\ call'.active = call.active /\ manifest'.active = call.active
          /\ call'.last = manifest'.last
      <4>1. CASE TailAhead
        <5>1. /\ call' = [call EXCEPT !.pc = "rotate", !.last = TailLines[Len(TailLines)].seq]
              /\ manifest' = Saved(TailLines[Len(TailLines)].seq, call.active)
          BY <2>2, <4>1 DEF RecoverTail
        <5> QED
          BY <1>3, <5>1 DEF Saved, Call
      <4>2. CASE ~ TailAhead
        <5>1. call' = [call EXCEPT !.pc = "rotate"] /\ manifest' = manifest
          BY <2>2, <4>2 DEF RecoverTail
        <5> QED
          BY <1>3, <2>0, <5>1 DEF Call
      <4> QED
        BY <4>1, <4>2
    <3>2. segments[call.active] # <<>> =>
            Last(segments[call.active]).whole /\ Last(segments[call.active]).seq = Len(Durable)
      BY <1>1, <1>4, <2>0, <2>2 DEF TailTorn, Numbered, Wrote
    <3>3. call'.last = Len(Durable)
      <4>1. CASE segments[call.active] = <<>>
        <5>1. ~ TailAhead
          BY <1>4, <4>1 DEF TailAhead
        <5>2. call'.last = call.last
          BY <1>3, <2>2, <5>1 DEF RecoverTail, Call
        <5>3. manifest.last = Len(Durable)
          BY <1>1, <2>0, <4>1 DEF Numbered, Wrote
        <5> QED
          BY <2>0, <5>2, <5>3
      <4>2. CASE segments[call.active] # <<>> /\ Len(Durable) > call.last
        <5>1. TailAhead
          BY <1>4, <2>2, <3>2, <4>2 DEF TailAhead
        <5>2. call'.last = Last(segments[call.active]).seq
          BY <1>3, <1>4, <2>2, <5>1 DEF RecoverTail, Call
        <5> QED
          BY <3>2, <4>2, <5>2
      <4>3. CASE segments[call.active] # <<>> /\ ~ (Len(Durable) > call.last)
        <5>1. ~ TailAhead
          BY <1>4, <3>2, <4>3 DEF TailAhead
        <5>2. call'.last = call.last
          BY <1>3, <2>2, <5>1 DEF RecoverTail, Call
        <5>3. manifest.last <= Len(Durable)
          BY <1>1, <2>0, <3>2, <4>3 DEF Numbered, Wrote
        <5> QED
          BY <1>2, <1>3, <2>0, <4>3, <5>2, <5>3
      <4> QED
        BY <4>1, <4>2, <4>3
    <3>4. Beyond'
      BY <1>1, <2>0, <3>1 DEF Beyond, Working
    <3>5. Lasts'
      <4>1. \A s \in Segments :
              segments[s] # <<>> /\ Last(segments[s]).whole => Last(segments[s]).ended
        BY <1>1, <2>0 DEF Lasts, Wrote
      <4>2. \/ segments[call.active] = <<>>
            \/ Last(segments[call.active]).whole /\ Last(segments[call.active]).ended
        BY <1>3, <3>2, <4>1
      <4> QED
        BY <1>1, <3>1, <4>1, <4>2 DEF Lasts, Looked, Wrote, Working
    <3>6. Numbered'
      BY <1>1, <1>2, <2>0, <3>1, <3>2, <3>3 DEF Numbered, Looked, Wrote, Working
    <3> QED
      BY <3>4, <3>5, <3>6
  <2> QED
    BY <2>1, <2>2
<1>6. NoFiles'
  BY <1>1 DEF NoFiles
<1> QED
  BY <1>1, <1>5, <1>6, FilesKept

LEMMA FilesRotate ==
  ASSUME TypeOK, Files, NEW next \in {"roll", "write"}, RotateUnwritable(next), [Next]_vars,
         call.pc = IF next = "roll" THEN "rotate" ELSE "recheck",
         present, UNCHANGED <<present, segments, unwritable, acked, intact>>
  PROVE  Files'
<1>1. Durable' = Durable /\ Len(Durable) \in Nat
  BY SameFiles, FileTypes
<1>2. /\ call \in Call /\ call.active \in Segments /\ call.last \in Nat /\ manifest.active \in Segments
      /\ call.active \in Nat /\ manifest.active \in Nat
      /\ \A s \in Segments : s \in Nat
  BY FileTypes
<1>3. ASSUME intact PROVE Beyond' /\ Lasts' /\ Numbered'
  <2>0. Beyond /\ Lasts /\ Numbered /\ Working /\ Looked /\ ~ Wrote
    BY <1>3 DEF Files, Working, Looked, Wrote
  <2>1. CASE call.active \notin unwritable
    <3>1. call' = [call EXCEPT !.pc = next] /\ manifest' = manifest
      BY <2>1 DEF RotateUnwritable
    <3>2. call'.pc = next /\ call'.active = call.active /\ call'.last = call.last
      BY <1>2, <3>1 DEF Call
    <3>3. Beyond'
      BY <2>0, <3>1, <3>2 DEF Beyond, Working, Rolled
    <3>4. Lasts'
      BY <2>0, <3>1, <3>2 DEF Lasts, Looked, Wrote, Working
    <3>5. Numbered'
      BY <1>1, <2>0, <3>1, <3>2 DEF Numbered, Looked, Wrote, Working
    <3> QED
      BY <3>3, <3>4, <3>5
  <2>2. CASE call.active \in unwritable
    <3>1. /\ call.active + 1 \in Segments
          /\ manifest'.state = "ok" /\ manifest'.last = call.last
          /\ manifest'.active = call.active + 1
          /\ call' = IF call.active + 1 \in unwritable THEN NoCall
                     ELSE [call EXCEPT !.pc = next, !.active = call.active + 1]
      BY <1>2, <2>2, BoundsAssumption DEF RotateUnwritable, Segments, Saved
    <3>2. \/ call'.pc = "idle"
          \/ call'.pc = next /\ call'.active = call.active + 1 /\ call'.last = call.last
      BY <1>2, <3>1 DEF Call, NoCall
    <3>3. \A s \in Segments : s > call.active => segments[s] = <<>>
      BY <1>2, <2>0 DEF Beyond
    <3>4. segments[call.active + 1] = <<>>
      BY <1>2, <3>1, <3>3
    <3>5. Beyond'
      BY <1>2, <2>0, <3>1, <3>2, <3>3, <3>4 DEF Beyond, Working
    <3>6. Lasts'
      BY <2>0, <3>2, <3>4 DEF Lasts, Looked, Wrote, Working
    <3>7. Numbered'
      BY <1>1, <2>0, <3>1, <3>2, <3>4 DEF Numbered, Looked, Wrote, Working
    <3> QED
      BY <3>5, <3>6, <3>7
  <2> QED
    BY <2>1, <2>2
<1>4. NoFiles'
  BY DEF NoFiles
<1> QED
  BY <1>3, <1>4, FilesKept

LEMMA FilesRoll ==
  ASSUME TypeOK, Files, RollBySize, [Next]_vars
  PROVE  Files'
<1>1. call.pc = "roll" /\ present /\ UNCHANGED <<present, manifest, segments, acked, intact>>
  BY DEF RollBySize
<1>2. Durable' = Durable /\ Len(Durable) \in Nat
  BY <1>1, SameFiles, FileTypes
<1>3. /\ call \in Call /\ call.active \in Segments /\ call.last \in Nat
      /\ call.active \in Nat /\ \A s \in Segments : s \in Nat
  BY FileTypes
<1>4. /\ call'.pc = "recheck" /\ call'.last = call.last
      /\ call'.active \in Segments
      /\ call'.active \in {call.active, call.active + 1}
  <2>1. CASE FileLength(segments[call.active]) + call.size > SegmentMaxBytes
    <3>1. /\ call.active < MaxSegments
          /\ call' = [call EXCEPT !.pc = "recheck", !.active = call.active + 1]
      BY <2>1 DEF RollBySize
    <3>2. call.active + 1 \in Segments
      BY <1>3, <3>1, BoundsAssumption DEF Segments
    <3> QED
      BY <1>3, <3>1, <3>2 DEF Call
  <2>2. CASE ~ (FileLength(segments[call.active]) + call.size > SegmentMaxBytes)
    <3>1. call' = [call EXCEPT !.pc = "recheck"]
      BY <2>2 DEF RollBySize
    <3> QED
      BY <1>3, <3>1 DEF Call
  <2> QED
    BY <2>1, <2>2
<1>5. ASSUME intact PROVE Beyond' /\ Lasts' /\ Numbered'
  <2>0. Beyond /\ Lasts /\ Numbered /\ Working /\ Looked /\ ~ Wrote /\ call.active = manifest.active
    BY <1>1, <1>5 DEF Files, Beyond, Working, Looked, Wrote
  <2>1. \A s \in Segments : s > call.active => segments[s] = <<>>
    BY <1>3, <2>0 DEF Beyond
  <2>2. call'.active # call.active => segments[call'.active] = <<>>
    BY <1>3, <1>4, <2>1
  <2>3. Beyond'
    BY <1>1, <1>3, <1>4, <2>0, <2>1, <2>2 DEF Beyond, Working, Rolled
  <2>4. Lasts'
    BY <1>1, <1>4, <2>0, <2>2 DEF Lasts, Looked, Wrote, Working
  <2>5. Numbered'
    BY <1>1, <1>2, <1>4, <2>0 DEF Numbered, Looked, Wrote, Working
  <2> QED
    BY <2>3, <2>4, <2>5
<1>6. NoFiles'
  BY <1>1 DEF NoFiles
<1> QED
  BY <1>1, <1>5, <1>6, FilesKept

\* While the files are intact a write puts its record on a line of its own at the end of
\* all lines.
LEMMA RecordAtTheEnd ==
  ASSUME TypeOK, Files, intact, present, call.pc = "write",
         segments' = [segments EXCEPT ![call.active] =
                        Written(@, call.last + 1, call.size, TRUE)]
  PROVE  /\ Durable' = Append(Durable, call.last + 1)
         /\ segments'[call.active] = Append(segments[call.active],
              [seq |-> call.last + 1, size |-> call.size, whole |-> TRUE, ended |-> FALSE])
         /\ segments'[call.active] # <<>>
         /\ Last(segments'[call.active]) =
              [seq |-> call.last + 1, size |-> call.size, whole |-> TRUE, ended |-> FALSE]
         /\ \A s \in Segments : s # call.active => segments'[s] = segments[s]
<1>0. PICK line : line = [seq |-> call.last + 1, size |-> call.size, whole |-> TRUE,
                          ended |-> FALSE]
  OBVIOUS
<1>1. /\ call.active \in Segments /\ segments \in [Segments -> Seq(Line)]
      /\ call.active \in Nat /\ manifest.active \in Nat /\ \A s \in Segments : s \in Nat
      /\ segments[call.active] \in Seq(Line)
      /\ call.last + 1 \in Nat /\ call.size \in Nat
  BY FileTypes
<1>2. /\ \A s \in Segments : s > call.active => segments[s] = <<>>
      /\ segments[call.active] = <<>> \/ Last(segments[call.active]).ended
  <2>1. Beyond /\ Lasts /\ Looked /\ Working
    BY DEF Files, Looked, Working
  <2> QED
    BY <1>1, <2>1 DEF Beyond, Lasts
<1>3. line \in Line /\ line.seq = call.last + 1
  BY <1>0, <1>1 DEF Line
<1>4. segments' = OneMore(segments, call.active, line)
  <2>1. ~ (Len(segments[call.active]) > 0
             /\ ~ segments[call.active][Len(segments[call.active])].ended)
    BY <1>1, <1>2 DEF Last
  <2> QED
    BY <1>0, <2>1 DEF OneMore, Written
<1>5. /\ Numbers(Log(segments')) = Append(Numbers(Log(segments)), call.last + 1)
      /\ segments'[call.active] = Append(segments[call.active], line)
  <2>1. Numbers(Log(OneMore(segments, call.active, line))) =
          Append(Numbers(Log(segments)), line.seq)
    BY <1>1, <1>2, <1>3, LogOfMore
  <2> QED
    BY <1>1, <1>3, <1>4, <2>1 DEF OneMore
<1>6. Durable = Numbers(Log(segments)) /\ Durable' = Numbers(Log(segments'))
  BY DEF Durable, Stored, Log
<1>7. segments'[call.active] # <<>> /\ Last(segments'[call.active]) = line
  <2>1. /\ Append(segments[call.active], line) # <<>>
        /\ Last(Append(segments[call.active], line)) = line
    BY <1>1, <1>3 DEF Last
  <2> QED
    BY <1>5, <2>1
<1>8. \A s \in Segments : s # call.active => segments'[s] = segments[s]
  BY <1>1, <1>4 DEF OneMore
<1> QED
  BY <1>0, <1>5, <1>6, <1>7, <1>8

\* The record goes in.
LEMMA FilesWritten ==
  ASSUME TypeOK, Files, WriteRecord, [Next]_vars
  PROVE  Files'
<1>1. /\ call.pc = "write" /\ present
      /\ call' = [call EXCEPT !.pc = "newline"]
      /\ UNCHANGED <<present, manifest, acked, intact>>
      /\ segments' = [segments EXCEPT ![call.active] =
                        Written(@, call.last + 1, call.size, TRUE)]
  BY DEF WriteRecord
<1>2. /\ call \in Call /\ call.active \in Segments /\ call.last \in Nat
      /\ manifest.active \in Segments /\ manifest.last \in Nat
      /\ Durable \in Seq(Nat) /\ Len(Durable) \in Nat
  BY FileTypes
<1>3. call'.pc = "newline" /\ call'.last = call.last /\ call'.active = call.active
  BY <1>1, <1>2 DEF Call
<1>4. ASSUME intact PROVE Beyond' /\ Lasts' /\ Numbered'
  <2>0. Beyond /\ Lasts /\ Numbered /\ Working /\ Looked /\ ~ Wrote
    BY <1>1, <1>4 DEF Files, Working, Looked, Wrote
  <2>1. /\ Durable' = Append(Durable, call.last + 1)
        /\ segments'[call.active] # <<>>
        /\ Last(segments'[call.active]) =
              [seq |-> call.last + 1, size |-> call.size, whole |-> TRUE, ended |-> FALSE]
        /\ \A s \in Segments : s # call.active => segments'[s] = segments[s]
    BY <1>1, <1>4, RecordAtTheEnd
  <2>2. /\ Last(segments'[call.active]).seq = call.last + 1
        /\ Last(segments'[call.active]).whole
    BY <2>1
  <2>3. call.last = Len(Durable) /\ \A i \in DOMAIN Durable : Durable[i] = i
    BY <2>0 DEF Numbered
  <2>4. Len(Durable') = call.last + 1 /\ \A i \in DOMAIN Durable' : Durable'[i] = i
    BY <1>2, <2>1, <2>3
  <2>5. Beyond'
    BY <1>1, <1>3, <2>0, <2>1 DEF Beyond, Working
  <2>6. Lasts'
    BY <1>1, <1>3, <2>0, <2>1, <2>2 DEF Lasts, Looked, Wrote, Working
  <2>7. manifest.state # "torn" /\ ~ Rolled => manifest.last <= Len(Durable)
    <3>1. manifest.state # "torn" /\ segments[manifest.active] = <<>> =>
            manifest.last = Len(Durable)
      BY <2>0 DEF Numbered
    <3>2. ~ Rolled /\ segments[manifest.active] # <<>> => Last(segments[manifest.active]).whole
      BY <2>0 DEF Lasts, Rolled
    <3>3. manifest.state # "torn" /\ segments[manifest.active] # <<>>
              /\ Last(segments[manifest.active]).whole => manifest.last <= Len(Durable)
      BY <2>0 DEF Numbered
    <3> QED
      BY <1>2, <3>1, <3>2, <3>3
  <2>8. Numbered'
    <3>1. ~ Looked' /\ Wrote' /\ call'.pc # "recover"
      BY <1>1, <1>3 DEF Looked, Wrote, Working
    <3>2. call'.last + 1 = Len(Durable')
      BY <1>3, <2>4
    <3>3. ASSUME manifest'.state # "torn", ~ Rolled'
          PROVE  /\ segments'[manifest'.active] # <<>>
                 /\ Last(segments'[manifest'.active]).seq = Len(Durable')
                 /\ manifest'.last <= Len(Durable')
      <4>1. manifest' = manifest /\ manifest.active = call.active /\ ~ Rolled
        BY <1>1, <1>3, <3>3 DEF Rolled
      <4>2. manifest.last <= Len(Durable)
        BY <2>7, <3>3, <4>1
      <4> QED
        BY <1>2, <2>1, <2>2, <2>3, <2>4, <4>1, <4>2
    <3> QED
      BY <2>4, <3>1, <3>2, <3>3 DEF Numbered
  <2> QED
    BY <2>5, <2>6, <2>8
<1>5. NoFiles'
  BY <1>1 DEF NoFiles
<1> QED
  BY <1>1, <1>4, <1>5, FilesKept

\* A part of the record goes in.
LEMMA FilesPartial ==
  ASSUME TypeOK, Files, FailPartial, [Next]_vars
  PROVE  Files'
<1>1. present' /\ ~ intact' /\ UNCHANGED acked
  BY DEF FailPartial, Fault
<1>2. NoFiles'
  BY <1>1 DEF NoFiles
<1> QED
  BY <1>1, <1>2, FilesKept

\* The newline goes in.
LEMMA FilesEnded ==
  ASSUME TypeOK, Files, WriteNewline, [Next]_vars
  PROVE  Files' /\ (intact => Durable' = Durable)
<1>1. /\ call.pc = "newline" /\ present
      /\ call' = [call EXCEPT !.pc = "manifest"]
      /\ UNCHANGED <<present, manifest, acked, intact>>
      /\ segments' = [segments EXCEPT ![call.active] = Terminated(segments[call.active])]
  BY DEF WriteNewline
<1>2. /\ call \in Call /\ call.active \in Segments /\ call.last \in Nat
      /\ segments \in [Segments -> Seq(Line)] /\ segments[call.active] \in Seq(Line)
      /\ call.active \in Nat /\ manifest.active \in Nat /\ \A s \in Segments : s \in Nat
      /\ segments[call.active] # <<>> => Last(segments[call.active]) \in Line
  BY FileTypes
<1>3. call'.pc = "manifest" /\ call'.last = call.last /\ call'.active = call.active
  BY <1>1, <1>2 DEF Call
<1>4. ASSUME intact PROVE Beyond' /\ Lasts' /\ Numbered' /\ Durable' = Durable
  <2>0. Beyond /\ Lasts /\ Numbered /\ Working /\ ~ Looked /\ Wrote
    BY <1>1, <1>4 DEF Files, Working, Looked, Wrote
  <2>1. /\ \A s \in Segments : s > call.active => segments[s] = <<>>
        /\ segments[call.active] # <<>>
    BY <1>2, <2>0 DEF Beyond, Lasts
  <2>2. PICK r : r = [segments EXCEPT ![call.active] = Terminated(segments[call.active])]
    OBVIOUS
  <2>3. /\ Numbers(Log(r)) = Numbers(Log(segments))
        /\ Len(r[call.active]) = Len(segments[call.active])
        /\ r[call.active][Len(r[call.active])] =
             [segments[call.active][Len(segments[call.active])] EXCEPT !.ended = TRUE]
    BY ZenonT(30), <1>2, <2>1, <2>2, LogTerminated
  <2>4. segments' = r
    BY <1>1, <2>2
  <2>5. Durable' = Durable
    BY <2>3, <2>4 DEF Durable, Stored, Log
  <2>6. /\ segments'[call.active] # <<>>
        /\ Last(segments'[call.active]) = [Last(segments[call.active]) EXCEPT !.ended = TRUE]
        /\ \A s \in Segments : s # call.active => segments'[s] = segments[s]
    <3>1. Len(segments[call.active]) # 0
      BY <1>2, <2>1
    <3>2. Len(segments'[call.active]) # 0
      BY <2>3, <2>4, <3>1
    <3>3. segments'[call.active] # <<>>
      BY <3>2
    <3>4. Last(segments'[call.active]) = [Last(segments[call.active]) EXCEPT !.ended = TRUE]
      BY <2>3, <2>4 DEF Last
    <3> QED
      BY <1>1, <1>2, <3>3, <3>4
  <2>7. /\ Last(segments'[call.active]).ended
        /\ Last(segments'[call.active]).whole = Last(segments[call.active]).whole
        /\ Last(segments'[call.active]).seq = Last(segments[call.active]).seq
    BY <1>2, <2>1, <2>6 DEF Line
  <2>8. Beyond'
    BY <1>1, <1>3, <2>0, <2>6 DEF Beyond, Working
  <2>9. Lasts'
    BY <1>1, <1>3, <2>0, <2>6, <2>7 DEF Lasts, Looked, Wrote, Working
  <2>10. Numbered'
    BY <1>1, <1>3, <2>0, <2>1, <2>5, <2>6, <2>7 DEF Numbered, Looked, Wrote, Working, Rolled
  <2> QED
    BY <2>5, <2>8, <2>9, <2>10
<1>5. NoFiles'
  BY <1>1 DEF NoFiles
<1> QED
  BY <1>1, <1>4, <1>5, FilesKept

\* The manifest is written and the number handed out.
LEMMA FilesAcked ==
  ASSUME TypeOK, Files, WriteManifest
  PROVE  Files'
<1>1. /\ call.pc = "manifest" /\ present /\ present'
      /\ manifest' = Saved(call.last + 1, call.active)
      /\ acked' = Append(acked, call.last + 1)
      /\ call' = NoCall
      /\ UNCHANGED <<segments, intact>>
  BY DEF WriteManifest
<1>2. /\ call.active \in Segments /\ call.last \in Nat /\ acked \in Seq(Nat)
      /\ segments[call.active] \in Seq(Line)
      /\ call.active \in Nat /\ manifest.active \in Nat /\ \A s \in Segments : s \in Nat
      /\ Len(Durable) \in Nat
  BY FileTypes DEF TypeOK
<1>3. Durable' = Durable
  BY <1>1, SameFiles
<1>4. manifest'.state = "ok" /\ manifest'.last = call.last + 1 /\ manifest'.active = call.active
  BY <1>1 DEF Saved
<1>5. ~ Working' /\ ~ Looked' /\ ~ Wrote'
  BY <1>1 DEF Working, Looked, Wrote, NoCall
<1>6. ASSUME intact PROVE Beyond' /\ Lasts' /\ Numbered' /\ AckedLines'
  <2>0. Beyond /\ Lasts /\ Numbered /\ AckedLines /\ Working /\ Wrote
    BY <1>1, <1>6 DEF Files, Working, Wrote
  <2>1. /\ segments[call.active] # <<>> /\ Last(segments[call.active]).whole
        /\ Last(segments[call.active]).seq = call.last + 1
        /\ Last(segments[call.active]).ended
    BY <1>1, <2>0 DEF Lasts
  <2>2. call.last + 1 = Len(Durable)
    BY <2>0 DEF Numbered
  <2>3. \A s \in Segments : s > call.active => segments[s] = <<>>
    BY <1>2, <2>0 DEF Beyond
  <2>4. Beyond'
    BY <1>1, <1>4, <1>5, <2>3 DEF Beyond
  <2>5. Lasts'
    BY <1>1, <1>5, <2>0, <2>1 DEF Lasts
  <2>6. Numbered'
    BY <1>1, <1>2, <1>3, <1>4, <1>5, <2>0, <2>1, <2>2 DEF Numbered, Working
  <2>7. AckedLines'
    <3>1. ASSUME NEW i \in DOMAIN acked'
          PROVE  \E s \in Segments : \E k \in DOMAIN segments[s] :
                   segments[s][k].seq = acked'[i] /\ segments[s][k].whole /\ segments[s][k].ended
      <4>1. CASE i \in DOMAIN acked
        <5>1. acked'[i] = acked[i]
          BY <1>1, <1>2, <4>1
        <5> QED
          BY <2>0, <4>1, <5>1 DEF AckedLines
      <4>2. CASE i \notin DOMAIN acked
        <5>1. acked'[i] = call.last + 1
          BY <1>1, <1>2, <3>1, <4>2
        <5>2. Len(segments[call.active]) \in DOMAIN segments[call.active]
          BY <1>2, <2>1
        <5>3. /\ segments[call.active][Len(segments[call.active])].seq = call.last + 1
              /\ segments[call.active][Len(segments[call.active])].whole
              /\ segments[call.active][Len(segments[call.active])].ended
          BY <2>1 DEF Last
        <5> QED
          BY <1>2, <5>1, <5>2, <5>3
      <4> QED
        BY <4>1, <4>2
    <3> QED
      BY <1>1, <3>1 DEF AckedLines
  <2> QED
    BY <2>4, <2>5, <2>6, <2>7
<1>7. NoFiles'
  BY <1>1 DEF NoFiles
<1> QED
  BY <1>1, <1>6, <1>7 DEF Files

\* An append stops without having touched the segments.
LEMMA FilesStopped ==
  ASSUME TypeOK, Files, [Next]_vars, present, call.pc # "idle", call' = NoCall,
         UNCHANGED <<present, segments, acked>>,
         intact' => /\ intact /\ manifest' = manifest /\ call.pc # "newline"
                    /\ call.pc \notin {"recheck", "write"} => ~ Rolled
  PROVE  Files'
<1>1. Durable' = Durable
  BY SameFiles
<1>2. /\ manifest \in Manifest /\ manifest.active \in Nat
      /\ \A s \in Segments : s \in Nat
  BY FileTypes
<1>3. ~ Working' /\ ~ Looked' /\ ~ Wrote'
  BY DEF Working, Looked, Wrote, NoCall
<1>4. ASSUME intact, manifest' = manifest, call.pc # "newline",
             call.pc \notin {"recheck", "write"} => ~ Rolled
      PROVE  Beyond' /\ Lasts' /\ Numbered'
  <2>0. Beyond /\ Lasts /\ Numbered /\ Working
    BY <1>4 DEF Files, Working
  <2>1. ~ (Wrote /\ Rolled)
    BY <1>4 DEF Wrote
  <2>2. \A s \in Segments : s > manifest.active => segments[s] = <<>>
    <3>1. CASE Rolled
      <4>1. segments[call.active] = <<>>
        BY <1>4, <2>0, <3>1 DEF Beyond
      <4> QED
        BY <2>0, <4>1 DEF Beyond
    <3>2. CASE ~ Rolled
      <4>1. \A s \in Segments : s > manifest.active => s # call.active
        BY <1>2, <3>2 DEF Rolled
      <4> QED
        BY <2>0, <4>1 DEF Beyond
    <3> QED
      BY <3>1, <3>2
  <2>4. Beyond'
    BY <1>3, <1>4, <2>2 DEF Beyond
  <2>5. Lasts'
    BY <1>3, <1>4, <2>0 DEF Lasts
  <2>6. Numbered'
    BY <1>1, <1>3, <1>4, <2>0, <2>1 DEF Numbered
  <2> QED
    BY <2>4, <2>5, <2>6
<1>5. NoFiles'
  BY DEF NoFiles
<1> QED
  BY <1>4, <1>5, FilesKept

\* The harmful faults leave nothing to show, the others stop an append that can be
\* repeated.
LEMMA FilesFailed ==
  ASSUME TypeOK, Files, [Next]_vars,
         FailBefore \/ FailNewline \/ FailManifest \/ FailTornManifest
  PROVE  Files'
<1>1. CASE FailBefore
  <2>1. /\ call.pc \in {"recover", "rotate", "roll", "recheck", "write"} /\ present
        /\ call' = NoCall /\ UNCHANGED <<present, manifest, segments, acked>>
        /\ intact' => intact
    BY <1>1 DEF FailBefore, Fault
  <2>2. ASSUME intact, call.pc \notin {"recheck", "write"} PROVE ~ Rolled
    <3>1. Beyond /\ Working
      BY <2>1, <2>2 DEF Files, Working
    <3> QED
      BY <2>1, <2>2, <3>1 DEF Beyond, Rolled
  <2> QED
    BY <2>1, <2>2, FilesStopped
<1>2. CASE FailNewline
  BY <1>2, FilesStopped DEF FailNewline, Fault
<1>3. CASE FailManifest
  BY <1>3, FilesStopped DEF FailManifest, Fault
<1>4. CASE FailTornManifest
  BY <1>4, FilesStopped DEF FailTornManifest, ManifestDue, Fault
<1> QED
  BY <1>1, <1>2, <1>3, <1>4

\* The directory goes.
LEMMA FilesDeleted ==
  ASSUME DeleteSession
  PROVE  Files' /\ Durable' = <<>>
<1>1. /\ ~ present' /\ manifest' = NoManifest /\ segments' = NoLines /\ acked' = <<>>
  BY DEF DeleteSession
<1>2. Durable' = <<>>
  <2>1. Durable' = Numbers(Log(segments'))
    BY DEF Durable, Stored, Log
  <2> QED
    BY <1>1, <2>1, LogOfNone, NumbersOfNone
<1>3. \A s \in Segments : segments'[s] = <<>>
  BY <1>1 DEF NoLines
<1>4. manifest'.active \in Segments /\ manifest'.last = 0 /\ Len(<<>>) = 0
  BY <1>1, BoundsAssumption DEF NoManifest, Segments
<1>5. ~ Working' /\ ~ Looked' /\ ~ Wrote'
  BY <1>1 DEF Working, Looked, Wrote
<1>6. Beyond'
  BY <1>3, <1>5 DEF Beyond
<1>7. Lasts'
  BY <1>3, <1>5 DEF Lasts
<1>8. Numbered'
  BY <1>2, <1>3, <1>4, <1>5 DEF Numbered
<1>9. AckedLines' /\ NoFiles'
  BY <1>1 DEF AckedLines, NoFiles
<1> QED
  BY <1>2, <1>6, <1>7, <1>8, <1>9 DEF Files

\* Nothing of the session changes: a segment becomes unwritable, or an append finds
\* its directory gone.
LEMMA FilesElse ==
  ASSUME TypeOK, Files, [Next]_vars, UNCHANGED <<present, manifest, segments, acked, intact>>,
         UNCHANGED call \/ (~ present /\ call' = NoCall)
  PROVE  Files'
<1>1. Durable' = Durable
  BY SameFiles
<1>2. CASE UNCHANGED call
  <2>1. (Working' = Working) /\ (Looked' = Looked) /\ (Wrote' = Wrote) /\ (Rolled' = Rolled)
    BY <1>2 DEF Working, Looked, Wrote, Rolled
  <2>2. ASSUME intact PROVE Beyond' /\ Lasts' /\ Numbered'
    <3>0. Beyond /\ Lasts /\ Numbered
      BY <2>2 DEF Files
    <3>1. Beyond'
      BY <1>2, <3>0 DEF Beyond, Working, Rolled
    <3>2. Lasts'
      BY <1>2, <3>0 DEF Lasts, Looked, Wrote, Working
    <3>3. Numbered'
      BY <1>1, <1>2, <3>0 DEF Numbered, Looked, Wrote, Working, Rolled
    <3> QED
      BY <3>1, <3>2, <3>3
  <2>3. NoFiles'
    BY DEF Files, NoFiles
  <2> QED
    BY <2>2, <2>3, FilesKept
<1>3. CASE ~ present /\ call' = NoCall
  <2>1. ~ Working' /\ ~ Looked' /\ ~ Wrote' /\ ~ Working /\ ~ Looked /\ ~ Wrote
    BY <1>3 DEF Working, Looked, Wrote
  <2>2. ASSUME intact PROVE Beyond' /\ Lasts' /\ Numbered'
    <3>0. Beyond /\ Lasts /\ Numbered
      BY <2>2 DEF Files
    <3>1. Beyond'
      BY <2>1, <3>0 DEF Beyond
    <3>2. Lasts'
      BY <2>1, <3>0 DEF Lasts
    <3>3. Numbered'
      BY <1>1, <2>1, <3>0 DEF Numbered
    <3> QED
      BY <3>1, <3>2, <3>3
  <2>3. NoFiles'
    BY DEF Files, NoFiles
  <2> QED
    BY <2>2, <2>3, FilesKept
<1> QED
  BY <1>2, <1>3

\* The files start sound and stay so with every step.
LEMMA FilesSound ==
  /\ Init => Files
  /\ TypeOK /\ Files /\ [Next]_vars => Files'
<1>1. ASSUME Init PROVE Files
  <2>1. /\ ~ present /\ manifest = NoManifest /\ segments = NoLines /\ acked = <<>>
    BY <1>1 DEF Init
  <2>2. Durable = <<>>
    <3>1. Durable = Numbers(Log(segments))
      BY DEF Durable, Stored, Log
    <3> QED
      BY <2>1, <3>1, LogOfNone, NumbersOfNone
  <2>3. \A s \in Segments : segments[s] = <<>>
    BY <2>1 DEF NoLines
  <2>4. manifest.active \in Segments /\ manifest.last = 0 /\ Len(<<>>) = 0
    BY <2>1, BoundsAssumption DEF NoManifest, Segments
  <2>5. ~ Working /\ ~ Looked /\ ~ Wrote
    BY <2>1 DEF Working, Looked, Wrote
  <2>6. Beyond
    BY <2>3, <2>5 DEF Beyond
  <2>7. Lasts
    BY <2>3, <2>5 DEF Lasts
  <2>8. Numbered
    BY <2>2, <2>3, <2>4, <2>5 DEF Numbered
  <2>9. AckedLines /\ NoFiles
    BY <2>1 DEF AckedLines, NoFiles
  <2> QED
    BY <2>6, <2>7, <2>8, <2>9 DEF Files
<1>2. ASSUME TypeOK, Files, [Next]_vars PROVE Files'
  <2>1. ASSUME NEW size \in Sizes, AppendBegin(size) PROVE Files'
    BY <1>2, <2>1, FilesBegin
  <2>2. CASE RecoverTail
    BY <1>2, <2>2, FilesRecover
  <2>3. CASE RotateBefore
    BY <1>2, <2>3, FilesRotate DEF RotateBefore
  <2>4. CASE RollBySize
    BY <1>2, <2>4, FilesRoll
  <2>5. CASE RotateAfter
    BY <1>2, <2>5, FilesRotate DEF RotateAfter
  <2>6. CASE WriteRecord
    BY <1>2, <2>6, FilesWritten
  <2>7. CASE WriteNewline
    BY <1>2, <2>7, FilesEnded
  <2>8. CASE WriteManifest
    BY <1>2, <2>8, FilesAcked
  <2>9. CASE FailBefore \/ FailNewline \/ FailManifest \/ FailTornManifest
    BY <1>2, <2>9, FilesFailed
  <2>10. CASE FailPartial
    BY <1>2, <2>10, FilesPartial
  <2>11. ASSUME NEW s \in Segments, BecomeUnwritable(s) PROVE Files'
    <3>1. UNCHANGED <<present, manifest, segments, call, acked, intact>>
      BY <1>2, <2>11 DEF BecomeUnwritable, Fault, TypeOK
    <3> QED
      BY <1>2, <3>1, FilesElse
  <2>12. CASE DeleteSession
    BY <2>12, FilesDeleted
  <2>13. CASE AppendIntoDeleted
    BY <1>2, <2>13, FilesElse DEF AppendIntoDeleted
  <2>14. CASE UNCHANGED vars
    BY <1>2, <2>14, FilesElse DEF vars
  <2> QED
    BY <1>2, <2>1, <2>2, <2>3, <2>4, <2>5, <2>6, <2>7, <2>8, <2>9, <2>10, <2>11, <2>12,
       <2>13, <2>14 DEF Next
<1> QED
  BY <1>1, <1>2

-----------------------------------------------------------------------------
(* What a replay can read *)

\* Before the first manifest at most one record is stored, and none is acknowledged.
Unsaved ==
  manifest.state = "absent" =>
    /\ manifest.last = 0 /\ acked = <<>> /\ Len(Durable) <= 1
    /\ Looked \/ Wrote => call.last = 0

Readable == intact => Parses /\ Unsaved

\* Steps that write no record and no manifest, or a whole manifest.
LEMMA ReadableKept ==
  ASSUME TypeOK, Readable, UNCHANGED segments, intact' => intact,
         \/ manifest'.state = "ok"
         \/ UNCHANGED <<manifest, acked>> /\ (Looked' \/ Wrote' => call'.last = 0)
         \/ UNCHANGED <<manifest, acked>> /\ (Looked' \/ Wrote' => (Looked \/ Wrote) /\ call'.last = call.last)
  PROVE  Readable'
<1>1. Durable' = Durable
  BY SameFiles
<1> SUFFICES ASSUME intact' PROVE Parses' /\ Unsaved'
  BY DEF Readable
<1>2. Parses /\ Unsaved
  BY DEF Readable
<1>3. CASE manifest'.state = "ok"
  BY <1>2, <1>3 DEF Parses, Unsaved
<1>4. CASE UNCHANGED <<manifest, acked>> /\ (Looked' \/ Wrote' => call'.last = 0)
  BY <1>1, <1>2, <1>4 DEF Parses, Unsaved
<1>5. CASE /\ UNCHANGED <<manifest, acked>>
           /\ Looked' \/ Wrote' => (Looked \/ Wrote) /\ call'.last = call.last
  BY <1>1, <1>2, <1>5 DEF Parses, Unsaved
<1> QED
  BY <1>3, <1>4, <1>5

\* As long as the files are intact a replay is no error.
LEMMA ReadableStep ==
  ASSUME TypeOK, Files, Readable, [Next]_vars
  PROVE  Readable'
<1>0. /\ call \in Call /\ call.last \in Nat /\ manifest \in Manifest /\ call.active \in Segments
      /\ segments \in [Segments -> Seq(Line)] /\ segments[call.active] \in Seq(Line)
      /\ Durable \in Seq(Nat) /\ Len(Durable) \in Nat
  BY FileTypes
<1>1. ASSUME NEW size \in Sizes, AppendBegin(size) PROVE Readable'
  <2>1. UNCHANGED <<segments, manifest, acked, intact>> /\ call'.pc = "recover"
    BY <1>1 DEF AppendBegin
  <2> QED
    BY <2>1, ReadableKept DEF Looked, Wrote
<1>2. CASE RecoverTail
  <2>1. UNCHANGED <<segments, acked, intact>> /\ present /\ call.pc = "recover"
    BY <1>2 DEF RecoverTail
  <2>2. CASE TailAhead
    <3>1. manifest'.state = "ok"
      BY <1>2, <2>2 DEF RecoverTail, TailAhead, Saved
    <3> QED
      BY <2>1, <3>1, ReadableKept
  <2>3. CASE ~ TailAhead
    <3>1. manifest' = manifest /\ (call'.pc = "idle" \/ call'.last = call.last)
      BY <1>0, <1>2, <2>3 DEF RecoverTail, NoCall, Call
    <3>2. intact => call.last = manifest.last
      BY <2>1 DEF Files, Numbered, Working
    <3>3. intact => (Looked' \/ Wrote' => call'.last = manifest.last)
      BY <3>1, <3>2 DEF Looked, Wrote, Working
    <3>4. Durable' = Durable
      BY <2>1, SameFiles
    <3> QED
      BY <2>1, <3>1, <3>3, <3>4 DEF Readable, Parses, Unsaved
  <2> QED
    BY <2>2, <2>3
<1>3. ASSUME NEW next \in {"roll", "write"}, RotateUnwritable(next),
             call.pc \in {"rotate", "recheck"}, present,
             UNCHANGED <<present, segments, unwritable, acked, faults, intact>>
      PROVE  Readable'
  <2>1. CASE call.active \notin unwritable
    <3>1. manifest' = manifest /\ call'.last = call.last
      BY <1>0, <1>3, <2>1 DEF RotateUnwritable, Call
    <3>2. Looked
      BY <1>3 DEF Looked, Working
    <3> QED
      BY <1>3, <3>1, <3>2, ReadableKept
  <2>2. CASE call.active \in unwritable
    <3>1. manifest'.state = "ok"
      BY <1>3, <2>2 DEF RotateUnwritable, Saved
    <3> QED
      BY <1>3, <3>1, ReadableKept
  <2> QED
    BY <2>1, <2>2
<1>4. CASE RotateBefore \/ RotateAfter
  BY <1>3, <1>4 DEF RotateBefore, RotateAfter
<1>5. CASE RollBySize
  <2>1. /\ UNCHANGED <<segments, manifest, acked, intact>> /\ Looked
        /\ call'.last = call.last
    BY <1>0, <1>5 DEF RollBySize, Call, Looked, Working
  <2> QED
    BY <2>1, ReadableKept
<1>6. CASE WriteRecord
  <2>1. /\ call.pc = "write" /\ present /\ UNCHANGED <<manifest, acked, intact>>
        /\ call'.last = call.last /\ Looked
        /\ segments' = [segments EXCEPT ![call.active] =
                          Written(@, call.last + 1, call.size, TRUE)]
    BY <1>0, <1>6 DEF WriteRecord, Call, Looked, Working
  <2> SUFFICES ASSUME intact PROVE Parses' /\ Unsaved'
    BY <2>1 DEF Readable
  <2>2. Parses /\ Unsaved /\ call.last = Len(Durable)
    BY <2>1 DEF Readable, Files, Numbered
  <2> DEFINE line == [seq |-> call.last + 1, size |-> call.size, whole |-> TRUE, ended |-> FALSE]
  <2>3. /\ Durable' = Append(Durable, call.last + 1)
        /\ segments'[call.active] = Append(segments[call.active], line)
        /\ \A s \in Segments : s # call.active => segments'[s] = segments[s]
    BY <2>1, RecordAtTheEnd
  <2>4. line.whole
    OBVIOUS
  <2> HIDE DEF line
  <2>5. ASSUME NEW s \in Segments, NEW i \in DOMAIN segments'[s] PROVE segments'[s][i].whole
    <3>1. CASE s # call.active
      BY <2>2, <2>3, <3>1 DEF Parses
    <3>2. CASE s = call.active
      <4>1. /\ \A k \in DOMAIN segments[call.active] : segments[call.active][k].whole
            /\ i \in DOMAIN Append(segments[call.active], line)
        BY <1>0, <2>2, <2>3, <3>2 DEF Parses
      <4>2. \/ i \in DOMAIN segments[call.active]
               /\ Append(segments[call.active], line)[i] = segments[call.active][i]
            \/ Append(segments[call.active], line)[i] = line
        BY <1>0, <4>1
      <4> QED
        BY <2>3, <2>4, <3>2, <4>1, <4>2
    <3> QED
      BY <3>1, <3>2
  <2>6. Parses'
    BY <2>1, <2>2, <2>5 DEF Parses
  <2>7. Unsaved'
    BY <1>0, <2>1, <2>2, <2>3 DEF Unsaved
  <2> QED
    BY <2>6, <2>7
<1>7. CASE WriteNewline
  <2>1. /\ UNCHANGED <<manifest, acked, intact>> /\ Wrote /\ call'.last = call.last
        /\ segments' = [segments EXCEPT ![call.active] = Terminated(segments[call.active])]
    BY <1>0, <1>7 DEF WriteNewline, Call, Wrote, Working
  <2> SUFFICES ASSUME intact PROVE Parses' /\ Unsaved'
    BY <2>1 DEF Readable
  <2>2. Parses /\ Unsaved
    BY DEF Readable
  <2>3. Durable' = Durable
    BY <1>7, FilesEnded
  <2>4. Parses'
    <3>1. \A k \in DOMAIN segments[call.active] : segments[call.active][k].whole
      BY <1>0, <2>2 DEF Parses
    <3>2. \A k \in DOMAIN Terminated(segments[call.active]) :
            Terminated(segments[call.active])[k].whole
      BY <1>0, <3>1, TerminatedWhole
    <3>3. /\ segments'[call.active] = Terminated(segments[call.active])
          /\ \A s \in Segments : s # call.active => segments'[s] = segments[s]
      BY <1>0, <2>1
    <3> QED
      BY <2>1, <2>2, <3>2, <3>3 DEF Parses
  <2>5. Unsaved'
    BY <2>1, <2>2, <2>3 DEF Unsaved
  <2> QED
    BY <2>4, <2>5
<1>8. CASE WriteManifest
  <2>1. UNCHANGED <<segments, intact>> /\ manifest'.state = "ok"
    BY <1>8 DEF WriteManifest, Saved
  <2> QED
    BY <2>1, ReadableKept
<1>9. CASE FailPartial \/ FailNewline \/ FailTornManifest
  <2>1. ~ intact'
    BY <1>9 DEF FailPartial, FailNewline, FailTornManifest, Fault
  <2> QED
    BY <2>1 DEF Readable
<1>10. CASE FailBefore \/ FailManifest \/ AppendIntoDeleted
  <2>0. call' = NoCall /\ UNCHANGED <<segments, manifest, acked>> /\ (intact' => intact)
    <3>1. CASE FailBefore
      BY Zenon, <3>1 DEF FailBefore, Fault
    <3>2. CASE FailManifest
      BY Zenon, <3>2 DEF FailManifest, Fault
    <3>3. CASE AppendIntoDeleted
      BY Zenon, <3>3 DEF AppendIntoDeleted
    <3> QED
      BY <1>10, <3>1, <3>2, <3>3
  <2>1. /\ UNCHANGED <<segments, manifest, acked>> /\ (intact' => intact)
        /\ call'.pc = "idle"
    BY <2>0 DEF NoCall
  <2> QED
    BY <2>1, ReadableKept DEF Looked, Wrote
<1>11. ASSUME NEW s \in Segments, BecomeUnwritable(s) PROVE Readable'
  <2>1. UNCHANGED <<segments, manifest, acked, call>> /\ (intact' => intact) /\ call.pc = "idle"
    BY <1>11 DEF BecomeUnwritable, Fault
  <2> QED
    BY <2>1, ReadableKept DEF Looked, Wrote, Working
<1>12. CASE DeleteSession
  <2>1. /\ manifest' = NoManifest /\ segments' = NoLines /\ acked' = <<>> /\ ~ present'
    BY <1>12 DEF DeleteSession
  <2>2. Durable' = <<>> /\ Len(<<>>) = 0
    BY <1>12, FilesDeleted
  <2>3. Parses'
    BY <2>1 DEF Parses, NoManifest, NoLines
  <2>4. Unsaved'
    BY <2>1, <2>2 DEF Unsaved, NoManifest, Looked, Wrote, Working
  <2> QED
    BY <2>3, <2>4 DEF Readable
<1>13. CASE UNCHANGED vars
  <2>1. UNCHANGED <<segments, manifest, acked, intact, call, present>>
    BY <1>13 DEF vars
  <2> QED
    BY <2>1, ReadableKept DEF Looked, Wrote, Working
<1> QED
  BY <1>1, <1>2, <1>4, <1>5, <1>6, <1>7, <1>8, <1>9, <1>10, <1>11, <1>12, <1>13 DEF Next

-----------------------------------------------------------------------------
(* What was acknowledged, whatever the faults *)

\* Some line does not parse.
Torn == \E s \in Segments : \E k \in DOMAIN segments[s] : ~ segments[s][k].whole

\* The line of the append in progress, at the end of its segment.
OwnLine ==
  /\ segments[call.active] # <<>>
  /\ Last(segments[call.active]).seq = call.last + 1
  /\ Last(segments[call.active]).whole
  /\ call.pc = "manifest" => Last(segments[call.active]).ended

Kept ==
  /\ acked # <<>> => manifest.state # "absent"
  /\ Torn \/ AckedLines
  /\ Wrote => Torn \/ OwnLine

\* A line that does not parse stays one.
LEMMA TornKept ==
  ASSUME TypeOK, [Next]_vars, Torn, present'
  PROVE  Torn'
<1>0. PICK s \in Segments : \E k \in DOMAIN segments[s] : ~ segments[s][k].whole
  BY DEF Torn
<1>1. PICK k \in DOMAIN segments[s] : ~ segments[s][k].whole
  BY <1>0
<1>2. /\ segments \in [Segments -> Seq(Line)] /\ call.active \in Segments
      /\ segments[call.active] \in Seq(Line) /\ call.last + 1 \in Nat /\ call.size \in Nat
  BY DEF TypeOK, Call
<1>3. ASSUME NEW new, segments' = [segments EXCEPT ![call.active] = new],
             \A i \in DOMAIN segments[call.active] : ~ segments[call.active][i].whole =>
               i \in DOMAIN new /\ ~ new[i].whole
      PROVE  Torn'
  <2>1. k \in DOMAIN segments'[s] /\ ~ segments'[s][k].whole
    BY <1>1, <1>2, <1>3
  <2> QED
    BY <2>1 DEF Torn
<1>4. CASE WriteRecord
  <2>1. segments' = [segments EXCEPT ![call.active] =
                       Written(segments[call.active], call.last + 1, call.size, TRUE)]
    BY <1>4 DEF WriteRecord
  <2>2. PICK new : new = Written(segments[call.active], call.last + 1, call.size, TRUE)
    OBVIOUS
  <2>3. \A i \in DOMAIN segments[call.active] : ~ segments[call.active][i].whole =>
          i \in DOMAIN new /\ ~ new[i].whole
    BY <1>2, <2>2, WrittenTorn
  <2> QED
    BY <1>3, <2>1, <2>2, <2>3
<1>5. CASE FailPartial
  <2>1. segments' = [segments EXCEPT ![call.active] =
                       Written(segments[call.active], call.last + 1, call.size, FALSE)]
    BY <1>5 DEF FailPartial
  <2>2. PICK new : new = Written(segments[call.active], call.last + 1, call.size, FALSE)
    OBVIOUS
  <2>3. \A i \in DOMAIN segments[call.active] : ~ segments[call.active][i].whole =>
          i \in DOMAIN new /\ ~ new[i].whole
    BY <1>2, <2>2, WrittenTorn
  <2> QED
    BY <1>3, <2>1, <2>2, <2>3
<1>6. CASE WriteNewline
  <2>1. segments' = [segments EXCEPT ![call.active] = Terminated(segments[call.active])]
    BY <1>6 DEF WriteNewline
  <2>2. PICK new : new = Terminated(segments[call.active])
    OBVIOUS
  <2>3. \A i \in DOMAIN segments[call.active] : ~ segments[call.active][i].whole =>
          i \in DOMAIN new /\ ~ new[i].whole
    BY <1>2, <2>2, TerminatedWhole
  <2> QED
    BY <1>3, <2>1, <2>2, <2>3
<1>7. CASE DeleteSession
  BY <1>7 DEF DeleteSession
<1>8. CASE UNCHANGED segments
  BY <1>8 DEF Torn
<1> QED
  BY <1>4, <1>5, <1>6, <1>7, <1>8
     DEF Next, vars, AppendBegin, RecoverTail, RotateBefore, RollBySize, RotateAfter,
         WriteManifest, FailBefore, FailNewline, FailManifest, FailTornManifest,
         BecomeUnwritable, AppendIntoDeleted

\* Steps that neither write to the segments nor acknowledge.
LEMMA KeptQuiet ==
  ASSUME TypeOK, [Next]_vars, NoFiles, Kept, UNCHANGED <<segments, acked, present>>,
         acked # <<>> => (manifest'.state = "absent" => manifest.state = "absent"),
         Wrote' => Wrote /\ UNCHANGED call
  PROVE  Kept'
<1>1. Torn' = Torn /\ (AckedLines' = AckedLines)
  BY DEF Torn, AckedLines
<1>2. Wrote' => Torn' \/ OwnLine'
  BY <1>1 DEF Kept, OwnLine
<1> QED
  BY <1>1, <1>2 DEF Kept

\* A record that was acknowledged is a complete line, or some line does not parse.
LEMMA KeptStep ==
  ASSUME TypeOK, NoFiles, Kept, [Next]_vars
  PROVE  Kept'
<1>0. /\ call \in Call /\ call.last \in Nat /\ manifest \in Manifest /\ call.active \in Segments
      /\ segments \in [Segments -> Seq(Line)] /\ segments[call.active] \in Seq(Line)
      /\ acked \in Seq(Nat) /\ call.size \in Nat
  BY FileTypes DEF TypeOK
<1>1. CASE DeleteSession
  BY <1>1 DEF DeleteSession, Kept, AckedLines, Wrote, Working
<1>2. CASE WriteRecord
  <2>1. /\ call.pc = "write" /\ present /\ UNCHANGED <<present, manifest, acked>>
        /\ call' = [call EXCEPT !.pc = "newline"]
        /\ segments' = [segments EXCEPT ![call.active] =
                          Written(segments[call.active], call.last + 1, call.size, TRUE)]
    BY <1>2 DEF WriteRecord
  <2>2. /\ call'.pc = "newline" /\ call'.last = call.last /\ call'.active = call.active
        /\ segments'[call.active] =
             Written(segments[call.active], call.last + 1, call.size, TRUE)
    BY <1>0, <2>1 DEF Call
  <2>3. Torn' \/ AckedLines'
    BY <2>1, TornKept, AckedLinesKept DEF Kept
  <2>4. Torn' \/ OwnLine'
    <3>1. \/ /\ segments'[call.active] # <<>>
             /\ Last(segments'[call.active]).seq = call.last + 1
             /\ Last(segments'[call.active]).whole
          \/ \E k \in DOMAIN segments'[call.active] : ~ segments'[call.active][k].whole
      <4>1. PICK more : more = Written(segments[call.active], call.last + 1, call.size, TRUE)
        OBVIOUS
      <4>2. \/ more # <<>> /\ Last(more).seq = call.last + 1 /\ Last(more).whole
            \/ \E k \in DOMAIN more : ~ more[k].whole
        <5>1. /\ segments[call.active] \in Seq(Line) /\ call.last + 1 \in Nat
              /\ call.size \in Nat
          BY <1>0
        <5> QED
          BY Zenon, <4>1, <5>1, WrittenEnd
      <4> QED
        BY <2>2, <4>1, <4>2
    <3> QED
      BY <1>0, <2>2, <3>1 DEF Torn, OwnLine
  <2> QED
    BY <2>1, <2>3, <2>4 DEF Kept
<1>3. CASE WriteNewline
  <2>1. /\ call.pc = "newline" /\ present /\ UNCHANGED <<present, manifest, acked>>
        /\ call' = [call EXCEPT !.pc = "manifest"]
        /\ segments' = [segments EXCEPT ![call.active] = Terminated(segments[call.active])]
    BY <1>3 DEF WriteNewline
  <2>2. /\ call'.pc = "manifest" /\ call'.last = call.last /\ call'.active = call.active
        /\ segments'[call.active] = Terminated(segments[call.active])
    BY <1>0, <2>1 DEF Call
  <2>3. Torn' \/ AckedLines'
    BY <2>1, TornKept, AckedLinesKept DEF Kept
  <2>4. Torn' \/ OwnLine'
    <3>1. CASE Torn
      BY <2>1, <3>1, TornKept
    <3>2. CASE OwnLine
      <4>1. /\ Terminated(segments[call.active]) # <<>>
            /\ Last(Terminated(segments[call.active])).seq = Last(segments[call.active]).seq
            /\ Last(Terminated(segments[call.active])).whole = Last(segments[call.active]).whole
            /\ Last(Terminated(segments[call.active])).ended
        BY <1>0, <3>2, TerminatedWhole DEF OwnLine
      <4> QED
        BY <2>2, <3>2, <4>1 DEF OwnLine
    <3>3. Wrote
      BY <2>1 DEF Wrote, Working
    <3> QED
      BY <3>1, <3>2, <3>3 DEF Kept
  <2> QED
    BY <2>1, <2>3, <2>4 DEF Kept
<1>4. CASE WriteManifest
  <2>1. /\ call.pc = "manifest" /\ present /\ present' /\ manifest'.state = "ok"
        /\ acked' = Append(acked, call.last + 1) /\ UNCHANGED segments /\ call'.pc = "idle"
    BY <1>4 DEF WriteManifest, Saved, NoCall
  <2>2. Torn' = Torn
    BY <2>1 DEF Torn
  <2>3. ASSUME ~ Torn PROVE AckedLines'
    <3>1. AckedLines /\ OwnLine
      BY <2>1, <2>3 DEF Kept, Wrote, Working
    <3>2. ASSUME NEW i \in DOMAIN acked'
          PROVE  \E s \in Segments : \E k \in DOMAIN segments[s] :
                   segments[s][k].seq = acked'[i] /\ segments[s][k].whole /\ segments[s][k].ended
      <4>1. CASE i \in DOMAIN acked
        <5>1. acked'[i] = acked[i]
          BY <1>0, <2>1, <4>1
        <5> QED
          BY <3>1, <4>1, <5>1 DEF AckedLines
      <4>2. CASE i \notin DOMAIN acked
        <5>1. acked'[i] = call.last + 1
          BY <1>0, <2>1, <4>2
        <5>2. /\ Len(segments[call.active]) \in DOMAIN segments[call.active]
              /\ segments[call.active][Len(segments[call.active])].seq = call.last + 1
              /\ segments[call.active][Len(segments[call.active])].whole
              /\ segments[call.active][Len(segments[call.active])].ended
          BY <1>0, <2>1, <3>1 DEF OwnLine, Last
        <5> QED
          BY <1>0, <5>1, <5>2
      <4> QED
        BY <4>1, <4>2
    <3> QED
      BY <2>1, <3>2 DEF AckedLines
  <2> QED
    BY <2>1, <2>2, <2>3 DEF Kept, Wrote
<1>5. CASE FailPartial
  <2>1. present' /\ UNCHANGED <<manifest, acked>> /\ call'.pc = "idle"
    BY <1>5 DEF FailPartial, Fault, NoCall
  <2>2. Torn' \/ AckedLines'
    BY <2>1, TornKept, AckedLinesKept DEF Kept
  <2> QED
    BY <2>1, <2>2 DEF Kept, Wrote
<1>6. CASE \/ FailBefore \/ FailNewline \/ FailManifest \/ FailTornManifest \/ AppendIntoDeleted
           \/ \E s \in Segments : BecomeUnwritable(s)
  <2>1. /\ UNCHANGED <<segments, acked, present>>
        /\ manifest'.state = manifest.state \/ manifest'.state = "torn"
        /\ call'.pc = "idle"
    <3>1. CASE FailBefore
      BY <3>1 DEF FailBefore, NoCall
    <3>2. CASE FailNewline
      BY <3>2 DEF FailNewline, NoCall
    <3>3. CASE FailManifest
      BY <3>3 DEF FailManifest, NoCall
    <3>4. CASE FailTornManifest
      BY <1>0, <3>4 DEF FailTornManifest, NoCall, Manifest
    <3>5. CASE AppendIntoDeleted
      BY <3>5 DEF AppendIntoDeleted, NoCall
    <3>6. CASE \E s \in Segments : BecomeUnwritable(s)
      BY <3>6 DEF BecomeUnwritable
    <3> QED
      BY <1>6, <3>1, <3>2, <3>3, <3>4, <3>5, <3>6
  <2> QED
    BY <2>1, KeptQuiet DEF Wrote
<1>7. CASE \E size \in Sizes : AppendBegin(size)
  <2>1. /\ UNCHANGED <<segments, acked, manifest>> /\ call'.pc = "recover" /\ present'
    BY <1>7 DEF AppendBegin
  <2>2. Torn' = Torn /\ (AckedLines' = AckedLines)
    BY <2>1 DEF Torn, AckedLines
  <2> QED
    BY <2>1, <2>2 DEF Kept, Wrote
<1>8. CASE RecoverTail
  <2>1. /\ UNCHANGED <<segments, acked, present>> /\ call'.pc \in {"idle", "rotate"}
        /\ manifest' = manifest \/ manifest'.state = "ok"
    <3>1. /\ UNCHANGED <<segments, acked, present>>
          /\ \/ call' = NoCall
             \/ call' = [call EXCEPT !.pc = "rotate"]
             \/ \E n : call' = [call EXCEPT !.pc = "rotate", !.last = n]
          /\ UNCHANGED manifest \/ \E n : manifest' = Saved(n, call.active)
      BY Zenon, <1>8 DEF RecoverTail
    <3>2. call'.pc \in {"idle", "rotate"}
      <4>1. NoCall.pc = "idle" /\ [call EXCEPT !.pc = "rotate"].pc = "rotate"
        BY <1>0 DEF NoCall, Call
      <4>2. ASSUME NEW n PROVE [call EXCEPT !.pc = "rotate", !.last = n].pc = "rotate"
        BY <1>0 DEF Call
      <4> QED
        BY Zenon, <3>1, <4>1, <4>2
    <3>3. manifest' = manifest \/ manifest'.state = "ok"
      <4>1. \A n : Saved(n, call.active).state = "ok"
        BY DEF Saved
      <4> QED
        BY Zenon, <3>1, <4>1
    <3> QED
      BY <3>1, <3>2, <3>3
  <2> QED
    BY <2>1, KeptQuiet DEF Wrote
<1>9. ASSUME NEW next \in {"roll", "write"}, RotateUnwritable(next),
             UNCHANGED <<present, segments, unwritable, acked, faults, intact>>
      PROVE  Kept'
  <2>1. /\ call'.pc \in {"idle", "roll", "write"}
        /\ manifest' = manifest \/ manifest'.state = "ok"
    <3>1. \/ call' = [call EXCEPT !.pc = next] /\ UNCHANGED manifest
          \/ /\ manifest' = Saved(call.last, call.active + 1)
             /\ \/ call' = NoCall
                \/ call' = [call EXCEPT !.pc = next, !.active = call.active + 1]
      BY <1>9 DEF RotateUnwritable
    <3>2. call'.pc \in {"idle", "roll", "write"}
      <4>1. NoCall.pc = "idle" /\ [call EXCEPT !.pc = next].pc = next
        BY <1>0 DEF NoCall, Call
      <4>2. [call EXCEPT !.pc = next, !.active = call.active + 1].pc = next
        BY <1>0 DEF Call
      <4> QED
        BY Zenon, <3>1, <4>1, <4>2
    <3>3. manifest' = manifest \/ manifest'.state = "ok"
      BY <3>1 DEF Saved
    <3> QED
      BY <3>2, <3>3
  <2> QED
    BY <1>9, <2>1, KeptQuiet DEF Wrote
<1>10. CASE RotateBefore \/ RotateAfter
  BY <1>9, <1>10 DEF RotateBefore, RotateAfter
<1>11. CASE RollBySize
  <2>1. UNCHANGED <<segments, acked, present, manifest>> /\ call'.pc = "recheck"
    BY <1>0, <1>11 DEF RollBySize, Call
  <2> QED
    BY <2>1, KeptQuiet DEF Wrote
<1>12. CASE UNCHANGED vars
  <2>1. UNCHANGED <<segments, acked, present, manifest, call>>
    BY <1>12 DEF vars
  <2> QED
    BY <2>1, KeptQuiet DEF Wrote, Working
<1> QED
  BY <1>1, <1>2, <1>3, <1>4, <1>5, <1>6, <1>7, <1>8, <1>10, <1>11, <1>12 DEF Next

\* The invariants about the files, from the first state on.
LEMMA StoreSound ==
  /\ Init => Files /\ Readable /\ Kept
  /\ TypeOK /\ Files /\ Readable /\ Kept /\ [Next]_vars => Files' /\ Readable' /\ Kept'
<1>1. ASSUME Init PROVE Readable /\ Kept
  <2>1. /\ manifest = NoManifest /\ segments = NoLines /\ acked = <<>> /\ ~ present
    BY <1>1 DEF Init
  <2>2. Durable = <<>> /\ Len(<<>>) = 0
    <3>1. Durable = Numbers(Log(segments))
      BY DEF Durable, Stored, Log
    <3> QED
      BY <2>1, <3>1, LogOfNone, NumbersOfNone
  <2>3. Parses
    BY <2>1 DEF Parses, NoManifest, NoLines
  <2>4. Unsaved
    BY <2>1, <2>2 DEF Unsaved, NoManifest, Looked, Wrote, Working
  <2>5. Kept
    BY <2>1 DEF Kept, AckedLines, Wrote, Working
  <2> QED
    BY <2>3, <2>4, <2>5 DEF Readable
<1>2. TypeOK /\ Files /\ Readable /\ Kept /\ [Next]_vars => Files' /\ Readable' /\ Kept'
  BY FilesSound, ReadableStep, KeptStep DEF Files
<1> QED
  BY <1>1, <1>2, FilesSound

\* Whatever the sizes and wherever appends stop: without a fault that leaves a torn
\* manifest, a part of a record or a record without its newline the replay is no error, and
\* a replay that is none has each record append has ever returned.
THEOREM AckedCanBeReplayed == Spec => []AckedReplayableWhenIntact
<1>1. TypeOK /\ Readable /\ Kept => AckedReplayableWhenIntact
  <2> SUFFICES ASSUME TypeOK, Readable, Kept, Parses PROVE AckedReplayable
    BY DEF AckedReplayableWhenIntact, Readable
  <2>1. AckedLines
    BY DEF Kept, Torn, Parses
  <2>2. ASSUME NEW i \in DOMAIN acked
        PROVE  \E j \in DOMAIN Replayed :
                 Replayed[j].seq = acked[i] /\ Replayed[j].whole /\ Replayed[j].ended
    <3>1. manifest.state = "ok"
      <4>1. acked # <<>>
        OBVIOUS
      <4> QED
        BY <4>1 DEF Kept, Parses, TypeOK, Manifest
    <3>2. Replayed = Log(segments)
      BY <3>1, FileTypes DEF Replayed
    <3>3. PICK s \in Segments : \E k \in DOMAIN segments[s] :
            segments[s][k].seq = acked[i] /\ segments[s][k].whole /\ segments[s][k].ended
      BY <2>1 DEF AckedLines
    <3>4. PICK k \in DOMAIN segments[s] :
            segments[s][k].seq = acked[i] /\ segments[s][k].whole /\ segments[s][k].ended
      BY <3>3
    <3>5. PICK j \in DOMAIN Log(segments) : Log(segments)[j] = segments[s][k]
      BY FileTypes, LogHasAll
    <3> QED
      BY <3>2, <3>4, <3>5
  <2> QED
    BY <2>2 DEF AckedReplayable
<1> QED
  BY <1>1, StoreSound, TypeCorrect, PTL DEF Spec

-----------------------------------------------------------------------------
(* The append-only log *)

\* The numbers of the records a replay returns.
Seen == Numbers(Replayed)

\* Of intact files: those on disk, once there is a manifest.
LEMMA SeenIs ==
  ASSUME TypeOK, Readable, intact
  PROVE  /\ Seen = IF manifest.state = "ok" THEN Durable ELSE <<>>
         /\ manifest.state \in {"absent", "ok"}
<1>1. manifest.state \in {"absent", "ok", "torn"} /\ Parses
  BY DEF TypeOK, Manifest, Readable
<1>2. manifest.state \in {"absent", "ok"}
  BY <1>1 DEF Parses
<1>3. CASE manifest.state = "ok"
  BY <1>1, <1>3 DEF Seen, Replayed, Durable
<1>4. CASE manifest.state # "ok"
  BY <1>2, <1>4, NumbersOfNone DEF Seen, Replayed
<1> QED
  BY <1>2, <1>3, <1>4

\* A step of the store as a step of the log.
Logged == Abstract!Next \/ UNCHANGED <<Seen, acked, intact>>

\* A damage, and whatever comes after it.
LEMMA LoggedDamage ==
  ASSUME TypeOK, TypeOK', ~ intact \/ UNCHANGED acked, ~ intact'
  PROVE  Logged
<1>1. intact' = FALSE /\ intact \in BOOLEAN
  BY DEF TypeOK
<1>2. CASE intact
  BY <1>1, <1>2 DEF Logged, Abstract!Next, Abstract!Damage
<1>3. CASE ~ intact
  BY <1>3 DEF Logged, Abstract!Next, Abstract!Damaged
<1> QED
  BY <1>2, <1>3

\* Steps that leave the segments, the manifest and the acknowledged records alone.
LEMMA LoggedQuiet ==
  ASSUME TypeOK, TypeOK', UNCHANGED <<segments, acked>>, intact' => intact,
         manifest'.state = manifest.state \/ ~ intact'
  PROVE  Logged
<1>1. CASE ~ intact'
  BY <1>1, LoggedDamage
<1>2. CASE intact'
  <2>1. manifest'.state = manifest.state /\ intact' = intact
    BY <1>2 DEF TypeOK
  <2>2. Parses' = Parses /\ Stored' = Stored
    BY <2>1 DEF Parses, Stored
  <2>3. Seen' = Seen
    BY <2>1, <2>2 DEF Seen, Replayed
  <2> QED
    BY <2>1, <2>3 DEF Logged
<1> QED
  BY <1>1, <1>2

\* Every step of the store is a step of the log or changes nothing of it: the record
\* goes in as the next number, the manifest acknowledges the last one.
LEMMA StepIsLogged ==
  ASSUME TypeOK, TypeOK', NumbersInv, Files, Files', Readable, Readable', [Next]_vars
  PROVE  Logged
<1>0. /\ intact \in BOOLEAN /\ intact' \in BOOLEAN /\ acked \in Seq(Nat)
      /\ call.last \in Nat /\ Durable \in Seq(Nat) /\ Len(Durable) \in Nat
      /\ Durable' \in Seq(Nat) /\ call \in Call /\ manifest \in Manifest
  <2>1. Durable' \in Seq(Nat)
    <3>1. segments' \in [Segments -> Seq(Line)]
      BY DEF TypeOK
    <3>2. Durable' = Numbers(Log(segments'))
      BY DEF Durable, Stored, Log
    <3> QED
      BY <3>1, <3>2, LogNumbers
  <2> QED
    BY <2>1, FileTypes DEF TypeOK
<1>1. ASSUME intact, intact'
      PROVE  /\ Seen = IF manifest.state = "ok" THEN Durable ELSE <<>>
             /\ Seen' = IF manifest'.state = "ok" THEN Durable' ELSE <<>>
             /\ manifest.state \in {"absent", "ok"} /\ Parses /\ Unsaved
  <2>1. /\ Seen = IF manifest.state = "ok" THEN Durable ELSE <<>>
        /\ manifest.state \in {"absent", "ok"}
    BY <1>1, SeenIs
  <2>2. Seen' = IF manifest'.state = "ok" THEN Durable' ELSE <<>>
    <3>1. manifest'.state \in {"absent", "ok", "torn"} /\ Parses'
      BY <1>1 DEF TypeOK, Manifest, Readable
    <3>2. CASE manifest'.state = "ok"
      BY <3>1, <3>2 DEF Seen, Replayed, Durable
    <3>3. CASE manifest'.state # "ok"
      BY <3>3, NumbersOfNone DEF Seen, Replayed
    <3> QED
      BY <3>2, <3>3
  <2> QED
    BY <1>1, <2>1, <2>2 DEF Readable
<1>2. CASE WriteRecord
  <2>1. /\ call.pc = "write" /\ present /\ UNCHANGED <<acked, intact, manifest>>
        /\ segments' = [segments EXCEPT ![call.active] =
                          Written(@, call.last + 1, call.size, TRUE)]
    BY <1>2 DEF WriteRecord
  <2>2. CASE intact
    <3>1. Durable' = Append(Durable, call.last + 1)
      BY <2>1, <2>2, RecordAtTheEnd
    <3>2. call.last = Len(Durable)
      BY <2>1, <2>2 DEF Files, Numbered, Looked, Working
    <3>3. CASE manifest.state = "ok"
      <4>1. Seen = Durable /\ Seen' = Durable'
        BY <1>1, <2>1, <2>2, <3>3
      <4>2. Abstract!Write
        BY <2>1, <2>2, <3>1, <3>2, <4>1 DEF Abstract!Write, Seen
      <4> QED
        BY <4>2 DEF Logged, Abstract!Next
    <3>4. CASE manifest.state # "ok"
      BY <1>1, <2>1, <2>2, <3>4 DEF Logged
    <3> QED
      BY <3>3, <3>4
  <2>3. CASE ~ intact
    BY <2>1, <2>3, LoggedDamage
  <2> QED
    BY <2>2, <2>3
<1>3. CASE WriteManifest
  <2>1. /\ call.pc = "manifest" /\ present /\ UNCHANGED <<segments, intact>>
        /\ acked' = Append(acked, call.last + 1) /\ manifest'.state = "ok"
    BY <1>3 DEF WriteManifest, Saved
  <2>2. Durable' = Durable
    BY <2>1, SameFiles
  <2>3. CASE intact
    <3>1. call.last + 1 = Len(Durable) /\ \A i \in DOMAIN Durable : Durable[i] = i
      BY <2>1, <2>3 DEF Files, Numbered, Wrote, Working
    <3>2. Durable # <<>> /\ Durable[Len(Durable)] = call.last + 1
      BY <1>0, <3>1
    <3>3. Seen' = Durable
      BY <1>1, <2>1, <2>2, <2>3
    <3>4. CASE manifest.state = "ok"
      <4>1. Seen = Durable
        BY <1>1, <2>1, <2>3, <3>4
      <4>2. \A i \in DOMAIN acked : acked[i] <= call.last
        BY <2>1 DEF NumbersInv, CallCovers
      <4>3. acked # <<>> => acked[Len(acked)] # Durable[Len(Durable)]
        BY <1>0, <3>2, <4>2
      <4>4. acked' = Append(acked, Durable[Len(Durable)])
        BY <2>1, <3>2
      <4>5. Abstract!Acknowledge
        BY <2>1, <2>3, <3>2, <3>3, <4>1, <4>3, <4>4 DEF Abstract!Acknowledge, Seen
      <4> QED
        BY <4>5 DEF Logged, Abstract!Next
    <3>5. CASE manifest.state # "ok"
      <4>1. Seen = <<>> /\ call.last = 0
        BY <1>1, <2>1, <2>3, <3>5 DEF Unsaved, Wrote, Working
      <4>2. Seen' = Append(Seen, Len(Seen) + 1)
        <5>1. Len(Durable) = 1 /\ Durable[1] = 1
          BY <1>0, <3>1, <4>1
        <5>2. Durable = <<1>>
          BY <1>0, <5>1
        <5> QED
          BY <3>3, <4>1, <5>2
      <4>3. acked' = Append(acked, Len(Seen) + 1)
        BY <2>1, <4>1
      <4>4. Abstract!WriteAcknowledged
        BY <2>1, <2>3, <4>2, <4>3 DEF Abstract!WriteAcknowledged, Seen
      <4> QED
        BY <4>4 DEF Logged, Abstract!Next
    <3> QED
      BY <3>4, <3>5
  <2>4. CASE ~ intact
    BY <2>1, <2>4, LoggedDamage
  <2> QED
    BY <2>3, <2>4
<1>4. CASE WriteNewline
  <2>1. UNCHANGED <<acked, intact, manifest>>
    BY <1>4 DEF WriteNewline
  <2>2. CASE intact
    <3>1. Durable' = Durable
      BY <1>4, <2>2, FilesEnded
    <3> QED
      BY <1>1, <2>1, <2>2, <3>1 DEF Logged
  <2>3. CASE ~ intact
    BY <2>1, <2>3, LoggedDamage
  <2> QED
    BY <2>2, <2>3
<1>5. CASE DeleteSession
  <2>1. Durable' = <<>> /\ acked' = <<>> /\ intact' = TRUE /\ manifest'.state = "absent"
    BY <1>5, FilesDeleted DEF DeleteSession, NoManifest
  <2>2. Seen' = <<>>
    BY <2>1, NumbersOfNone DEF Seen, Replayed
  <2> QED
    BY <2>1, <2>2 DEF Logged, Seen, Abstract!Next, Abstract!Forget
<1>6. CASE RecoverTail
  <2>1. UNCHANGED <<segments, acked, intact>> /\ call.pc = "recover" /\ present
    BY <1>6 DEF RecoverTail
  <2>2. CASE manifest' = manifest
    BY <2>1, <2>2, LoggedQuiet
  <2>3. CASE manifest' # manifest /\ intact
    <3>1. TailAhead /\ manifest'.state = "ok"
      BY <1>6, <2>3 DEF RecoverTail, Saved
    <3>2. Durable' = Durable
      BY <2>1, SameFiles
    <3>3. CASE manifest.state = "ok"
      BY <1>1, <2>1, <2>3, <3>1, <3>2, <3>3 DEF Logged
    <3>4. CASE manifest.state # "ok"
      <4>1. /\ manifest.state = "absent" /\ Seen = <<>> /\ Seen' = Durable
            /\ Len(Durable) <= 1 /\ manifest.last = 0
        BY <1>1, <2>1, <2>3, <3>1, <3>2, <3>4 DEF Unsaved
      <4>2. Len(Durable) # 0
        <5>1. /\ manifest.active = call.active /\ call.last = manifest.last
              /\ Beyond /\ Numbered /\ ~ Wrote
          BY <2>1, <2>3 DEF Files, Beyond, Numbered, Working, Wrote
        <5>2. /\ segments[call.active] # <<>> /\ Last(segments[call.active]).whole
              /\ Last(segments[call.active]).seq > call.last
          BY <3>1 DEF TailAhead, TailTorn, TailLines, Last
        <5>3. Last(segments[call.active]).seq = Len(Durable)
          BY <4>1, <5>1, <5>2 DEF Numbered
        <5> QED
          BY <1>0, <5>2, <5>3
      <4>3. Durable = <<1>>
        <5>0. Len(Durable) = 1 /\ 1 \in DOMAIN Durable
          <6>1. Len(Durable) \in Nat /\ Len(Durable) <= 1 /\ Len(Durable) # 0
            BY Zenon, <1>0, <4>1, <4>2
          <6>2. Len(Durable) = 1
            <7>1. \A n \in Nat : n <= 1 /\ n # 0 => n = 1
              OBVIOUS
            <7> QED
              BY Zenon, <6>1, <7>1
          <6>3. DOMAIN Durable = 1..Len(Durable)
            BY <1>0
          <6> QED
            BY <6>2, <6>3
        <5>1. \A i \in DOMAIN Durable : Durable[i] = i
          BY <2>3 DEF Files, Numbered
        <5>2. Len(Durable) = 1 /\ Durable[1] = 1
          BY <5>0, <5>1
        <5> QED
          BY <1>0, <5>2
      <4>4. Seen' = Append(Seen, Len(Seen) + 1)
        BY <4>1, <4>3
      <4>5. Abstract!Write
        BY <2>1, <2>3, <4>4 DEF Abstract!Write, Seen
      <4> QED
        BY <4>5 DEF Logged, Abstract!Next
    <3> QED
      BY <3>3, <3>4
  <2>4. CASE ~ intact
    BY <2>1, <2>4, LoggedDamage
  <2> QED
    BY <2>2, <2>3, <2>4
<1>7. ASSUME NEW next \in {"roll", "write"}, RotateUnwritable(next),
             call.pc \in {"rotate", "recheck"}, present,
             UNCHANGED <<present, segments, unwritable, acked, faults, intact>>
      PROVE  Logged
  <2>1. CASE manifest' = manifest
    BY <1>7, <2>1, LoggedQuiet
  <2>2. CASE manifest' # manifest /\ intact
    <3>1. manifest'.state = "ok"
      BY <1>7, <2>2 DEF RotateUnwritable, Saved
    <3>2. Durable' = Durable
      BY <1>7, SameFiles
    <3>3. CASE manifest.state = "ok"
      BY <1>1, <1>7, <2>2, <3>1, <3>2, <3>3 DEF Logged
    <3>4. CASE manifest.state # "ok"
      <4>1. Seen = <<>> /\ Seen' = Durable /\ Looked /\ call.last = 0
        BY <1>1, <1>7, <2>2, <3>1, <3>2, <3>4 DEF Unsaved, Looked, Working
      <4>2. Durable = <<>>
        <5>1. Len(Durable) = 0
          BY <2>2, <4>1 DEF Files, Numbered
        <5> QED
          BY <1>0, <5>1
      <4> QED
        BY <1>7, <4>1, <4>2 DEF Logged
    <3> QED
      BY <3>3, <3>4
  <2>3. CASE ~ intact
    BY <1>7, <2>3, LoggedDamage
  <2> QED
    BY <2>1, <2>2, <2>3
<1>8. CASE RotateBefore \/ RotateAfter
  BY <1>7, <1>8 DEF RotateBefore, RotateAfter
<1>9. CASE UNCHANGED <<segments, manifest, acked, intact>>
  BY <1>9, LoggedQuiet
<1>10. CASE FailBefore \/ FailManifest
  <2>1. UNCHANGED <<segments, manifest, acked>> /\ (intact' => intact)
    BY <1>10 DEF FailBefore, FailManifest, Fault
  <2> QED
    BY <2>1, LoggedQuiet
<1>11. CASE FailPartial \/ FailNewline \/ FailTornManifest
  <2>1. UNCHANGED acked /\ ~ intact'
    BY <1>11 DEF FailPartial, FailNewline, FailTornManifest, Fault
  <2> QED
    BY <2>1, LoggedDamage
<1>12. ASSUME NEW s \in Segments, BecomeUnwritable(s) PROVE Logged
  <2>1. UNCHANGED <<segments, manifest, acked>> /\ (intact' => intact)
    BY <1>12 DEF BecomeUnwritable, Fault
  <2> QED
    BY <2>1, LoggedQuiet
<1> QED
  BY <1>2, <1>3, <1>4, <1>5, <1>6, <1>8, <1>9, <1>10, <1>11, <1>12
     DEF Next, vars, AppendBegin, RollBySize, AppendIntoDeleted

\* What a replay returns is an append-only log numbered from 1 without gaps, of which the
\* acknowledged records are a subsequence, until a fault leaves what the recovery of the
\* tail does not see or replay cannot read; appends, rolls, recoveries, failures and
\* deletion are its steps or do not show.
THEOREM StoreIsALog == Spec => ImplementsEventLog
<1>1. Init => Abstract!Init
  <2> SUFFICES ASSUME Init PROVE Abstract!Init
    OBVIOUS
  <2>1. Numbers(Replayed) = <<>>
    BY NumbersOfNone DEF Replayed, Init, NoManifest
  <2> QED
    BY <2>1 DEF Init, Abstract!Init
<1>2. /\ TypeOK /\ TypeOK' /\ NumbersInv /\ Files /\ Files' /\ Readable /\ Readable'
      /\ [Next]_vars
      => [Abstract!Next]_<<Numbers(Replayed), acked, intact>>
  BY StepIsLogged DEF Logged, Seen
<1> QED
  BY <1>1, <1>2, TypeCorrect, NumbersSound, StoreSound, PTL
     DEF Spec, ImplementsEventLog, Abstract!Spec

=============================================================================
