\* A client of the daemon makes calls, several at a time, and stops; turns ask, fail and end.
SPECIFICATION Spec
CONSTANTS
  MaxCalls = 5
  MaxSessions = 1
  PipeSize = 1
  MaxTurns = 2
  Whole = {3, 5}
  Failing = {3}
INVARIANTS
  AnswersReachTheClient
  ResolvedIsObeyed
  CallsReturn
CHECK_DEADLOCK FALSE
