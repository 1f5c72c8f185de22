----------------------------- MODULE DirListing -----------------------------
(***************************************************************************)
(* The list_dir tool: the entries below a directory, page by page.         *)
(*                                                                         *)
(* A path is a sequence of names, a name a sequence of characters, and a   *)
(* character its code, of which Slash is one.  A directory tree is the set *)
(* of its paths and, among them, of its directories.                       *)
(***************************************************************************)
EXTENDS Integers, Sequences, FiniteSets, SequencesExt

CONSTANT Slash   \* the code of the character between two names of a path

ASSUME DirListingAssumption == Slash \in Nat

\* Paths are ordered as texts: a character below the slash comes between a directory and
\* what is in it.
SortKey(path) ==
  FlattenSeq([i \in DOMAIN path |-> IF i = 1 THEN path[i] ELSE <<Slash>> \o path[i]])

Precedes(a, b) ==
  \/ IsStrictPrefix(a, b)
  \/ \E i \in DOMAIN a \intersect DOMAIN b :
       a[i] < b[i] /\ \A j \in 1 .. i - 1 : a[j] = b[j]

\* The directories are read breadth first, each while levels remain below it.
Collected(paths, dirs, depth) ==
  {p \in paths : Len(p) <= depth /\ \A n \in 1 .. Len(p) - 1 : SubSeq(p, 1, n) \in dirs}

\* Variant: the entries of a directory come in the order of their names alone.
ByName(paths, dirs, depth) ==
  SetToSortSeq(Collected(paths, dirs, depth), LAMBDA p, q :
    \/ Precedes(Last(p), Last(q))
    \/ Last(p) = Last(q) /\ Precedes(SortKey(p), SortKey(q)))

Listing(paths, dirs, depth) ==
  SetToSortSeq(Collected(paths, dirs, depth), LAMBDA p, q : Precedes(SortKey(p), SortKey(q)))

\* A page says whether there is more; an empty directory says so, whatever was asked for.
Page(entries, offset, limit) ==
  LET rest == Len(entries) - offset + 1
      size == IF limit < rest THEN limit ELSE rest IN
  IF entries = << >> THEN [found |-> TRUE, entries |-> << >>, more |-> FALSE]
  ELSE IF offset > Len(entries) THEN [found |-> FALSE, entries |-> << >>, more |-> FALSE]
  ELSE [found |-> TRUE, entries |-> SubSeq(entries, offset, offset + size - 1),
        more |-> offset + size - 1 < Len(entries)]
=============================================================================
