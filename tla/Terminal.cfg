CONSTANTS
  MaxTasks = 2
  MaxRequests = 2
  MaxText = 2
SPECIFICATION FairSpec
INVARIANT ApprovalsSettle
INVARIANT AnswersAreCommitted
INVARIANT LoopIsFree
PROPERTY QuitLeaves
