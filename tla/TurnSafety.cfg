\* Two turns with the interruptions and faults of each budget.
CONSTANTS
  MaxWorkers = 2
  Budgets <- TurnBudgets
SPECIFICATION FairSpec
INVARIANT SessionSound
INVARIANT TurnsMatchTranscript
PROPERTY TurnsStayOver
PROPERTY TurnsSettle
CHECK_DEADLOCK FALSE
