CONSTANTS
  Sizes = {1, 2, 4}
  SegmentMaxBytes = 3
  MaxSegments = 4
  MaxSeq = 4
  MaxFaults = 3
SPECIFICATION Spec
INVARIANT TypeOK
INVARIANT AckedIncreasing
INVARIANT AckedReplayableWhenIntact
PROPERTY EndedLinesAreKept
PROPERTY ImplementsEventLog
CHECK_DEADLOCK FALSE
