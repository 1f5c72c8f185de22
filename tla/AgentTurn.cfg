CONSTANTS
  WindowCapacity = 3
  WarnThreshold = 2
  MaxHistoryTurns = 3
  CompactAbove = 2
  KeptTurns = 1
  Calls = {read, glob, edit, write}
  Nameless = nameless
  RepeatableCalls = {read}
  MutatingCalls = {edit}
  WritingCalls = {edit, write}
  UnorderedCalls = {edit}
  MaxToolCalls = 3
  MaxRounds = 3
  MaxSkips = 2
  MaxRecent = 3
  MaxTurns = 5
  MaxBatch = 2
SPECIFICATION Spec
INVARIANT EveryCallAnswered
INVARIANT TurnIsBounded
PROPERTY OnlyTheKnownIsLeftOut
CHECK_DEADLOCK FALSE
