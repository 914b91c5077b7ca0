SPECIFICATION FairSpec
CONSTANTS
  Capacity = 6
  SharedBlocks = 1
  PrefixCaching = TRUE
  Trace <- GrowTrace
  BlockSize = 2
  MaxSeqs = 3
  MaxBatched = 3
  ClosedLoop = TRUE
  Concurrency = 2
INVARIANTS
  ClosedLoopLoad
PROPERTIES
  EveryTurnServed
  ImplementsService
