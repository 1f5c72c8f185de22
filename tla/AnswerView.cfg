CONSTANTS
  Protocols = {"anthropic", "chat"}
  MaxPieces = 3
  MaxCalls = 2
  MaxParts = 4
  MaxRounds = 2
  MaxBehind = 0
  Budgets = {1, 2}
SPECIFICATION Spec
INVARIANT AnswersAreWhole
INVARIANT RequestsTellTheTurn
INVARIANT PageIsSound
CHECK_DEADLOCK FALSE
