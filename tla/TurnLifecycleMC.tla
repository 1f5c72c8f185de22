-------------------------- MODULE TurnLifecycleMC --------------------------
(* Budgets for the runs of TurnLifecycle: which interruptions and faults a   *)
(* behaviour may combine, and how many of each.                              *)
EXTENDS TurnLifecycle

Nothing == [a \in Actions |-> 0]

\* Turns, a manual compaction, a shutdown, one failing append and one error in a turn.
QuietBudget    == [Nothing EXCEPT !["compact"] = 1, !["shutdown"] = 1, !["append"] = 1,
                                  !["error"] = 1]
\* An abort at any point, with a compaction or an error.
AbortBudget    == [Nothing EXCEPT !["abort"] = 1, !["compact"] = 1]
ErrorBudget    == [Nothing EXCEPT !["abort"] = 1, !["append"] = 1, !["error"] = 1]
\* A process restart during or between turns, with an abort and failing appends.
RestartBudget  == [Nothing EXCEPT !["abort"] = 1, !["restart"] = 1, !["append"] = 1,
                                  !["message"] = 1]
\* A clear while turns and a compaction are in progress.
ClearBudget    == [Nothing EXCEPT !["clear"] = 1, !["compact"] = 1]

\* A turn that panics, alone or with an error before it, and the clear that frees the session.
PanicBudget    == [Nothing EXCEPT !["panic"] = 1, !["clear"] = 1, !["error"] = 1]

TurnBudgets == {QuietBudget, AbortBudget, ErrorBudget, RestartBudget,
                ClearBudget, PanicBudget}
=============================================================================
