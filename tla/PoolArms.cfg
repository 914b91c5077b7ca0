SPECIFICATION Spec
CONSTANTS
  Capacity = 5
  SharedBlocks = 1
  PrefixCaching = TRUE
  Work <- ArmWork
  MaxTime = 2
  ConstTtl = 1
  OracleScale = 1
  ViewLists <- AllArms
INVARIANTS
  QueuesMatchRefs
  NeverRaises
  HeapFindsEvictable
  SameCache
PROPERTIES
  ProtectionRespected
  LowestRankFirst
  ImplementsCache
