--------------------------- MODULE TurnSettingsMC ---------------------------
(***************************************************************************)
(* Small instances of TurnSettings: rules that differ in one key of the    *)
(* precedence each, two kinds of call, one of them destructive.            *)
(***************************************************************************)
EXTENDS TurnSettings

CONSTANTS s1, c1, c2, r1, r2, n1, n2, m1, m2, blank, read, remove

MCSessions    == {s1}
MCClients     == {c1, c2}
MCRequests    == {r1, r2}
MCNames       == {n1, n2, blank}
MCModels      == {m1, m2}
MCInputs      == {read, remove}
MCDestructive == {remove}

\* Two rules alike in all but their names, and one that outranks the built-in rule.
AllowAll == [id |-> 1, decision |-> "allow", priority |-> 10, specificity |-> 1,
             matches |-> MCInputs]
AllowToo == [AllowAll EXCEPT !.id = 9]
DenyTop  == [id |-> 2, decision |-> "deny", priority |-> 1001, specificity |-> 0,
             matches |-> {read}]

MCRuleBook == {AllowAll, AllowToo, DenyTop}
MCOverlays == {<<DenyTop>>}

\* Nothing tells requests, names of providers or names of models apart.
MCSymmetry ==
  Permutations(MCClients) \union Permutations(MCRequests)
    \union Permutations({n1, n2}) \union Permutations(MCModels)
=============================================================================
