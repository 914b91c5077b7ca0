SPECIFICATION Spec
CONSTANTS
  Generated <- OnlyWhole
  Limit = 10
  Concurrency = 2
  BlockSize = 2
  SharedBlocks = 1
  Faults = 0
  Requeries = 0
  SimPreempts = 0
INVARIANTS
  ContentMirrored
