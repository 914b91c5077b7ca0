SPECIFICATION FairSpec
CONSTANTS
  Generated <- Mixed
  Limit = 10
  Concurrency = 2
  BlockSize = 2
  SharedBlocks = 1
  Faults = 1
  Requeries = 1
  SimPreempts = 1
INVARIANTS
  TypeOK
  RecordsComplete
  InflationExact
  SameTurns
  OnlyCutSessionsLinger
  TraceFitsEngine
PROPERTIES
  ReplayEnds
