SPECIFICATION Spec
CONSTANTS
  Capacity = 9
  SharedBlocks = 1
  PrefixCaching = TRUE
  Trace <- OpenTrace
  BlockSize = 2
  MaxSeqs = 4
  MaxBatched = 3
  ClosedLoop = FALSE
  Concurrency = 1
INVARIANTS
  TypeOK
  RefsMatchHolders
  CapacityRespected
  EvictionCannotFail
  BlocksCoverContext
  CachedMeansComputed
  StallOnlyWhenTooBig
  TurnsInOrder
  NothingToPreempt
  DecodesWithinBudget
  PreemptedGoFirst
