------------------------------ MODULE Workspace ------------------------------
(***************************************************************************)
(* The file tools of agents that work in one directory.                    *)
(*                                                                         *)
(* An agent makes one call at a time.  Edit reads the file, then opens it  *)
(* for writing, which empties it, then writes; write_file does the last    *)
(* two.  Nothing keeps the calls of two sessions apart.  Paths that lead   *)
(* out of the directory are refused before anything is read or written and *)
(* are left out.                                                           *)
(***************************************************************************)
EXTENDS FileText, ReadBlock, DirListing

CONSTANTS
  Agents,     \* the sessions' agents that share the directory
  FilePaths,  \* the paths of files that calls name
  FirstTexts, \* the texts of a file that may be there at the start
  WriteTexts, \* what write_file writes
  NewTexts,   \* what Edit puts in the place of a text
  OtherTexts, \* what Edit is asked for besides what Read has shown
  Asks,       \* the questions to Read in indentation mode
  AskedLines, \* the files these are about
  MaxCalls    \* bound: calls that write, and reads

VARIABLES
  files,   \* the text of every file there is
  calls,   \* each agent's call under way
  answers, \* each agent's last answer
  shown,   \* the lines each agent was shown last, and of which file
  changes, \* ghost: how often each file was changed
  made,    \* calls made
  block    \* a question to Read in indentation mode, and its answer

vars == <<files, calls, answers, shown, changes, made, block>>

NoCall == [at |-> "none"]
NoAnswer == [kind |-> "none"]
NothingShown == [lines |-> << >>]
NoBlock == [asked |-> FALSE]

Init ==
  /\ files \in {[p \in {first} |-> text] : first \in FilePaths, text \in FirstTexts} \union {<< >>}
  /\ calls = [a \in Agents |-> NoCall]
  /\ answers = [a \in Agents |-> NoAnswer]
  /\ shown = [a \in Agents |-> NothingShown]
  /\ changes = [p \in FilePaths |-> 0]
  /\ made = 0
  /\ block = NoBlock

Starts(a) == calls[a] = NoCall /\ made < MaxCalls /\ made' = made + 1

\* Read, in slices.
Read(a) ==
  /\ Starts(a)
  /\ \E p \in DOMAIN files, offset \in 1 .. 2, limit \in 1 .. 3 :
       /\ offset <= Len(Lines(files[p]))
       /\ shown' = [shown EXCEPT ![a] =
            [lines |-> ReadSlice(files[p], offset, limit), offset |-> offset, limit |-> limit,
             path |-> p, change |-> changes[p]]]
  /\ UNCHANGED <<files, calls, answers, changes, block>>

\* write_file makes the directories above the file.
WriteFile(a) ==
  /\ Starts(a)
  /\ \E p \in FilePaths, text \in WriteTexts :
       calls' = [calls EXCEPT ![a] =
         [at |-> "opening", tool |-> "write", path |-> p, text |-> text, opened |-> 0]]
  /\ UNCHANGED <<files, answers, shown, changes, block>>

Joined(lines) ==
  FlattenSeq([k \in DOMAIN lines |-> IF k = 1 THEN lines[k] ELSE <<LF>> \o lines[k]])

\* What an agent may have copied from the lines it was shown.
Copies(lines) == {Joined(SubSeq(lines, i, j)) : i, j \in DOMAIN lines} \ {<< >>}

\* Edit up to where it has found what to do; an Edit that fails changes nothing.
Edit(a) ==
  /\ Starts(a)
  /\ \E p \in FilePaths, old \in Copies(shown[a].lines) \union OtherTexts, new \in NewTexts :
       LET answer == IF p \in DOMAIN files THEN EditAnswer(files[p], old) ELSE "file_missing"
           told   == [kind |-> answer, path |-> p, old |-> old, new |-> new,
                      before |-> IF p \in DOMAIN files THEN files[p] ELSE << >>,
                      change |-> changes[p], written |-> 0] IN
       IF answer = "updated"
         THEN /\ calls' = [calls EXCEPT ![a] =
                   [at |-> "opening", tool |-> "edit", path |-> p,
                    text |-> Edited(files[p], old, new), opened |-> 0, told |-> told]]
              /\ UNCHANGED answers
         ELSE answers' = [answers EXCEPT ![a] = told] /\ UNCHANGED calls
  /\ UNCHANGED <<files, shown, changes, block>>

Changed(p) == changes' = [changes EXCEPT ![p] = @ + 1]

\* Opening for writing leaves the file empty.
Opens(a) ==
  LET c == calls[a] IN
  /\ c.at = "opening"
  /\ files' = [p \in DOMAIN files \union {c.path} |-> IF p = c.path THEN << >> ELSE files[p]]
  /\ calls' = [calls EXCEPT ![a].at = "writing", ![a].opened = changes[c.path] + 1]
  /\ Changed(c.path)
  /\ UNCHANGED <<answers, shown, made, block>>

\* The change a call has made, when no other call wrote or opened the file since it was
\* opened; 0 otherwise.
WrittenAlone(c) == IF changes[c.path] = c.opened THEN c.opened + 1 ELSE 0

\* Two that have opened a file both write it from its start.
Writes(a) ==
  LET c == calls[a]
      now == files[c.path] IN
  /\ c.at = "writing"
  /\ files' = [files EXCEPT ![c.path] = c.text \o SubSeq(now, Len(c.text) + 1, Len(now))]
  /\ Changed(c.path)
  /\ calls' = [calls EXCEPT ![a] = NoCall]
  /\ answers' = [answers EXCEPT ![a] =
       IF c.tool = "edit" THEN [c.told EXCEPT !.written = WrittenAlone(c)] ELSE [kind |-> "written", path |-> c.path]]
  /\ UNCHANGED <<shown, made, block>>

\* Read in indentation mode, of a file given by its lines' indentation.  It depends on
\* nothing else, so it is asked of an empty directory only.  The questions are those that the
\* handler takes; of a model's call only the default options (no levels, siblings or header)
\* arrive, as the router makes a text of the object that has the others.
ReadAround ==
  /\ files = << >> /\ made = 0 /\ block = NoBlock
  /\ \E lines \in AskedLines, ask \in Asks :
       /\ ask.anchor <= Len(lines)
       /\ block' = [asked |-> TRUE, lines |-> lines, ask |-> ask, answer |-> Block(lines, ask)]
  /\ UNCHANGED <<files, calls, answers, shown, changes, made>>

AgentNext(a) == Read(a) \/ WriteFile(a) \/ Edit(a) \/ Opens(a) \/ Writes(a)

Next == (block = NoBlock /\ \E a \in Agents : AgentNext(a)) \/ ReadAround

Spec == Init /\ [][Next]_vars

-----------------------------------------------------------------------------
(* Properties *)

HasLoneCr(text) == \E i \in DOMAIN text : text[i] = CR /\ ~IsCrlf(text, i)

\* The text as its line ends aside: every CR of it belongs to one.
Plain(text) == SelectSeq(text, LAMBDA c : c # CR)

\* What an Edit has written is the text it had read with one occurrence, the only one, of the
\* old text replaced and every other line the same, for as long as nobody changes the file
\* again; of whatever another agent has written between the read and the opening (edit.rs:64,
\* :121) nothing is left.  The line ends are made of one kind: all CR LF if the file had one
\* anywhere, else none.  Not so when another call writes between the opening and the write,
\* nor for texts with lone CRs, which become line ends.
EditReplacesOnePlace ==
  \A a \in Agents :
    LET e == answers[a] IN
    (/\ e.kind = "updated"
     /\ changes[e.path] = e.written
     /\ \A text \in {e.before, e.old, e.new} : ~HasLoneCr(text)) =>
      LET before == Plain(e.before)
          old    == Plain(e.old)
          after  == files[e.path]
          at     == {n \in 0 .. Len(before) - Len(old) :
                       \A k \in DOMAIN old : before[n + k] = old[k]} IN
      /\ Cardinality(at) = 1
      /\ \A n \in at :
           Plain(after) = SubSeq(before, 1, n) \o Plain(e.new)
                            \o SubSeq(before, n + Len(old) + 1, Len(before))
      /\ \A i \in DOMAIN after :
           /\ after[i] = CR => UsesCrlf(e.before) /\ IsCrlf(after, i)
           /\ after[i] = LF /\ UsesCrlf(e.before) => i > 1 /\ after[i - 1] = CR

IsBlockOf(lines, text) ==
  \E i, j \in DOMAIN lines :
    /\ text = Joined(SubSeq(lines, i, j))
    /\ \A k \in i .. j - 1 : Len(lines[k]) < MaxLine

\* What Read has shown of a file Edit finds in it, as long as nobody has changed it and no
\* line but the last was cut: whatever the file's line ends, lone CRs included, except those
\* right before a CR LF.
WhatWasReadIsFound ==
  \A a \in Agents :
    LET e == answers[a]
        s == shown[a] IN
    (/\ e.kind = "not_found" /\ s # NothingShown
     /\ s.path = e.path /\ s.change = e.change
     /\ ~ \E i \in 1 .. Len(e.before) - 1 : e.before[i] = CR /\ IsCrlf(e.before, i + 1))
      => ~IsBlockOf(s.lines, e.old)

Directories == UNION {{SubSeq(p, 1, n) : n \in 1 .. Len(p) - 1} : p \in DOMAIN files}

\* The pages that list_dir gives one after the other, each from where the one before ended and
\* as long as it says that there is more, are all the entries, each once, and none before the
\* directory it is in.
PagesAreTheTree ==
  \A depth \in 1 .. 2, limit \in 1 .. 3 :
    LET tree    == DOMAIN files \union Directories
        entries == Listing(tree, Directories, depth)
        pages   == {offset \in 1 .. Len(entries) : offset % limit = 1 % limit}
        page(o) == Page(entries, o, limit) IN
    /\ ToSet(entries) = {p \in tree : Len(p) <= depth} /\ IsInjective(entries)
    /\ \A i, j \in DOMAIN entries : IsStrictPrefix(entries[i], entries[j]) => i < j
    /\ entries = FlattenSeq([k \in 1 .. Cardinality(pages) |-> page((k - 1) * limit + 1).entries])
    /\ \A o \in pages : page(o).found /\ (page(o).more <=> o + limit \in pages)

\* The block of lines that Read shows around an anchor is what its options say.
BlockIsWhatWasAsked == block.asked => IsBlock(block.lines, block.ask, block.answer)

\* What an agent has read of a file it finds there as long as nobody changes the file, and
\* its edit leaves the text it was made for, with that place replaced, even when another
\* agent has written in between: that agent's change is the one that is lost
\* (handlers/edit.rs, read.rs).
EditsHitWhatWasRead == WhatWasReadIsFound /\ EditReplacesOnePlace
=============================================================================
