CONSTANTS
  Generations = {1, 2}
  Requests = {1, 2}
  Clients = {c1, c2}
  MaxTurns = 2
  MaxRetries = 1
  MaxApprovedTurns = 1
SPECIFICATION Spec
INVARIANT RunsOnlyWhenAllowed
INVARIANT RequestsSettle
INVARIANT RefusalStopsTurn
SYMMETRY ClientSymmetry
CHECK_DEADLOCK FALSE
