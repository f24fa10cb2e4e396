SPECIFICATION FairSpec
CONSTANTS
  j1 = j1
  j2 = j2
  Jobs = {j1, j2}
  Workloads <- EveryProgram
  None = None
  Capacity = 2
  FeedCapacity = 1
  MaxEvents = 1
  MaxPublished <- Publications
CHECK_DEADLOCK FALSE
INVARIANTS JobsAreOwned TaskIsSequential InPublishedOrder CloseSparesOthers
PROPERTIES JobsEnd StopCompletes
