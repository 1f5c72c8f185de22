CONSTANTS
  Clients = {c1, c2}
  Sessions = {s1, s2}
  Titles = {"named"}
  CompactLines = 2
  MaxOps = 3
  MaxFaults = 3
  MaxCrashes = 1
SPECIFICATION Spec
INVARIANT AckedSurvives
INVARIANT RestartLoadsTheList
INVARIANT CopiesAgree
CHECK_DEADLOCK FALSE
