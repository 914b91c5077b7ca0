SPECIFICATION Spec
CONSTANTS
  Capacity = 5
  SharedBlocks = 2
  PrefixCaching = TRUE
  Trace <- OneTokenTrace
  BlockSize = 4
  MaxSeqs = 4
  MaxBatched = 5
  ClosedLoop = TRUE
  Concurrency = 3
INVARIANTS
  EachTurnOnce
