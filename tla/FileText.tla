------------------------------ MODULE FileText ------------------------------
(***************************************************************************)
(* What the Read and Edit tools make of a file's text.                     *)
(*                                                                         *)
(* A text is a sequence of characters, two of which end lines: LF, and CR  *)
(* in front of it.  Read shows lines without their ends, each cut after    *)
(* MaxLine characters; Edit looks for a text with every line end made LF,  *)
(* and writes CR LF throughout when the file had one anywhere.             *)
(***************************************************************************)
EXTENDS Integers, Sequences, FiniteSets, SequencesExt

CONSTANT MaxLine   \* characters of a line that Read shows

ASSUME FileTextAssumption == MaxLine \in Nat \ {0}

LF == "LF"
CR == "CR"

IsCrlf(text, i) == text[i] = CR /\ i < Len(text) /\ text[i + 1] = LF

UsesCrlf(text) == \E i \in DOMAIN text : IsCrlf(text, i)

\* A CR that belongs to no line end is a line end of its own.
Normalised(text) ==
  LET kept == SelectSeq([i \in DOMAIN text |-> i], LAMBDA i : ~IsCrlf(text, i)) IN
  [i \in DOMAIN kept |-> IF text[kept[i]] = CR THEN LF ELSE text[kept[i]]]

WithCrlf(text) ==
  FlattenSeq([i \in DOMAIN text |-> IF text[i] = LF THEN <<CR, LF>> ELSE <<text[i]>>])

\* Variant: the search goes on behind a match, not one character further.
MatchesApart(text, part) ==
  LET found == {i \in 1 .. Len(text) - Len(part) + 1 :
                  SubSeq(text, i, i + Len(part) - 1) = part} IN
  {i \in found : \A j \in found : j < i => j + Len(part) <= i}

\* Where the part begins; two places may overlap.
Matches(text, part) ==
  {i \in 1 .. Len(text) - Len(part) + 1 : SubSeq(text, i, i + Len(part) - 1) = part}

\* What Edit writes, when the part is found in one place.
Edited(text, old, new) ==
  LET source == Normalised(text)
      part   == Normalised(old)
      at     == CHOOSE i \in Matches(source, part) : TRUE
      plain  == SubSeq(source, 1, at - 1) \o Normalised(new)
                  \o SubSeq(source, at + Len(part), Len(source)) IN
  IF UsesCrlf(text) THEN WithCrlf(plain) ELSE plain

EditAnswer(text, old) ==
  LET places == Cardinality(Matches(Normalised(text), Normalised(old))) IN
  IF places = 0 THEN "not_found" ELSE IF places > 1 THEN "not_unique" ELSE "updated"

-----------------------------------------------------------------------------

\* The lines of a file: what stands before each LF, without one CR at its end, and what
\* stands behind the last LF, if anything does.
Lines(text) ==
  LET open == IF text # << >> /\ Last(text) # LF THEN {Len(text) + 1} ELSE {}
      ends == SetToSortSeq({i \in DOMAIN text : text[i] = LF} \union open, <)
      start(k) == IF k = 1 THEN 1 ELSE ends[k - 1] + 1
      stop(k)  == IF ends[k] > start(k) /\ ends[k] <= Len(text) /\ text[ends[k] - 1] = CR
                    THEN ends[k] - 2 ELSE ends[k] - 1 IN
  [k \in DOMAIN ends |-> SubSeq(text, start(k), stop(k))]

IsCut(line) == Len(line) > MaxLine

Displayed(line) == IF IsCut(line) THEN SubSeq(line, 1, MaxLine) ELSE line

\* Lines from offset on, at most limit of them; none is refused, as is an empty file.
ReadSlice(text, offset, limit) ==
  LET lines == Lines(text)
      last  == IF offset + limit - 1 > Len(lines) THEN Len(lines) ELSE offset + limit - 1 IN
  [k \in 1 .. last - offset + 1 |-> Displayed(lines[offset + k - 1])]
=============================================================================
