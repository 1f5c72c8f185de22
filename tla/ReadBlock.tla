------------------------------ MODULE ReadBlock ------------------------------
(***************************************************************************)
(* The Read tool in indentation mode: the block of lines around an anchor. *)
(*                                                                         *)
(* A line is its indentation and whether it is blank or a comment.  The    *)
(* block grows by a line above and a line below in turn, down to an        *)
(* indentation that max_levels gives; at that indentation it takes one     *)
(* line on either side, and above also comments.                           *)
(***************************************************************************)
EXTENDS Integers, Sequences

CONSTANT TabWidth

ASSUME ReadBlockAssumption == TabWidth \in Nat \ {0}

Least(a, b) == IF a <= b THEN a ELSE b

\* A blank line is indented as the line above it.
Indents(lines) ==
  LET indent[k \in 0 .. Len(lines)] ==
        IF k = 0 THEN 0 ELSE IF lines[k].blank THEN indent[k - 1] ELSE lines[k].indent IN
  [k \in 1 .. Len(lines) |-> indent[k]]

MinIndent(lines, ask) ==
  LET lower == Indents(lines)[ask.anchor] - ask.levels * TabWidth IN
  IF ask.levels = 0 \/ lower < 0 THEN 0 ELSE lower

\* Whether the block so far takes the line k, of which side it has taken count such lines.
Takes(lines, ask, k, above, count) ==
  LET indent == Indents(lines)[k]
      least  == MinIndent(lines, ask) IN
  /\ indent >= least
  /\ \/ indent > least \/ ask.siblings
     \/ count = 0
     \/ above /\ ask.header /\ lines[k].comment

AtMin(lines, ask, k) == ~ask.siblings /\ Indents(lines)[k] = MinIndent(lines, ask)

\* One side grows by a line, or is over.
GrowUp(lines, ask, b) ==
  LET k == ask.anchor - b.up - 1 IN
  IF ~b.upOpen THEN b
  ELSE IF k >= 1 /\ Takes(lines, ask, k, TRUE, b.upMin)
    THEN [b EXCEPT !.up = @ + 1, !.upMin = @ + (IF AtMin(lines, ask, k) THEN 1 ELSE 0)]
    ELSE [b EXCEPT !.upOpen = FALSE]

GrowDown(lines, ask, b) ==
  LET k == ask.anchor + b.down + 1 IN
  IF ~b.downOpen THEN b
  ELSE IF k <= Len(lines) /\ Takes(lines, ask, k, FALSE, b.downMin)
    THEN [b EXCEPT !.down = @ + 1, !.downMin = @ + (IF AtMin(lines, ask, k) THEN 1 ELSE 0)]
    ELSE [b EXCEPT !.downOpen = FALSE]

Full(b, limit) == b.up + 1 + b.down >= limit

\* Variant: the line above may be the one too many.
GrowUnchecked(lines, ask, b, limit) == GrowDown(lines, ask, GrowUp(lines, ask, b))

Grow(lines, ask, b, limit) ==
  LET above == GrowUp(lines, ask, b) IN
  IF Full(above, limit) THEN above ELSE GrowDown(lines, ask, above)

\* The block, as its first and last line, before blank lines at its ends are taken off.
Grown(lines, ask) ==
  LET limit == Least(ask.limit, Len(lines))
      block[n \in 0 .. limit] ==
        IF n = 0 THEN [up |-> 0, down |-> 0, upOpen |-> TRUE, downOpen |-> TRUE,
                       upMin |-> 0, downMin |-> 0]
        ELSE IF Full(block[n - 1], limit) THEN block[n - 1]
        ELSE Grow(lines, ask, block[n - 1], limit) IN
  <<ask.anchor - block[limit].up, ask.anchor + block[limit].down>>

\* One line is shown even when it is blank; a block of blank lines is empty.
Block(lines, ask) ==
  LET grown == Grown(lines, ask)
      kept  == {k \in grown[1] .. grown[2] :
                  /\ \E i \in grown[1] .. k : ~lines[i].blank
                  /\ \E i \in k .. grown[2] : ~lines[i].blank} IN
  IF Least(ask.limit, Len(lines)) = 1 THEN {ask.anchor} ELSE kept

-----------------------------------------------------------------------------
(* The same block by what it is, not by how it is found. *)

\* A side of the block may reach up to n lines when all of them are indented enough, and all
\* but the nearest at the least indentation are comments above.
MayReachUp(lines, ask, n) ==
  LET side == ask.anchor - n .. ask.anchor - 1
      edge == {k \in side : Indents(lines)[k] = MinIndent(lines, ask)} IN
  /\ \A k \in side : Indents(lines)[k] >= MinIndent(lines, ask)
  /\ \/ ask.siblings
     \/ \A k \in edge : (\E j \in edge : j > k) => ask.header /\ lines[k].comment

MayReachDown(lines, ask, n) ==
  LET side == ask.anchor + 1 .. ask.anchor + n
      edge == {k \in side : Indents(lines)[k] = MinIndent(lines, ask)} IN
  /\ \A k \in side : Indents(lines)[k] >= MinIndent(lines, ask)
  /\ ask.siblings \/ \A j, k \in edge : j = k

\* The lines shown are consecutive, not more than asked for, and as many on both sides as may
\* be reached: a side is left short only for the limit, and then the other has no more to it.
IsBlock(lines, ask, shown) ==
  LET limit == Least(ask.limit, Len(lines)) IN
  \E u \in 0 .. ask.anchor - 1, d \in 0 .. Len(lines) - ask.anchor :
    LET range == ask.anchor - u .. ask.anchor + d
        moreUp   == ask.anchor - u > 1 /\ MayReachUp(lines, ask, u + 1)
        moreDown == ask.anchor + d < Len(lines) /\ MayReachDown(lines, ask, d + 1) IN
    /\ MayReachUp(lines, ask, u) /\ MayReachDown(lines, ask, d)
    /\ u + 1 + d <= limit
    /\ moreUp   => u + 1 + d = limit /\ u >= d
    /\ moreDown => u + 1 + d = limit /\ u <= d + 1
    /\ shown \subseteq range
    /\ limit = 1 \/ \A k \in range \ shown : lines[k].blank
    /\ limit > 1 /\ shown # {} =>
         \E first, last \in shown :
           shown = first .. last /\ ~lines[first].blank /\ ~lines[last].blank
=============================================================================
