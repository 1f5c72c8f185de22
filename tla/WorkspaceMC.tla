---------------------------- MODULE WorkspaceMC ----------------------------
(* Texts, paths and questions for the run of Workspace.                     *)
EXTENDS Workspace, TLC

x == "x"
y == "y"

\* The directory b with a file a, and a file b.a whose name comes between them.
PathsMC == {<< <<4>>, <<3>> >>, << <<4, 1, 3>> >>}

FirstTextsMC ==
  {<<x, x, x, LF, y>>, <<x, LF, y, CR, LF, x, LF>>, <<x, CR, LF, x, CR, LF>>,
   <<x, CR, y, LF, x, LF>>, <<x, y, y, LF, x>>, <<y, LF, y, LF, LF>>}

WriteTextsMC == {<<y>>, <<x, LF, x>>}
NewTextsMC   == {<< >>, <<x>>, <<y, CR, LF, y>>}
OtherTextsMC == {<<x, x>>, <<LF>>, <<x, CR, LF>>}

Symmetry == Permutations(Agents)

\* Lines at two indentations, blank ones and comments.
LineKinds ==
  {[indent |-> 0, blank |-> FALSE, comment |-> FALSE],
   [indent |-> 1, blank |-> FALSE, comment |-> FALSE],
   [indent |-> 1, blank |-> FALSE, comment |-> TRUE],
   [indent |-> 0, blank |-> TRUE,  comment |-> FALSE]}

AskedLinesMC == [1 .. 5 -> LineKinds]

AsksMC ==
  [anchor : 1 .. 5, limit : {1, 3, 4}, levels : {0, 1}, siblings : BOOLEAN, header : BOOLEAN]
=============================================================================
