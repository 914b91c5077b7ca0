SPECIFICATION FairSpec
CONSTANTS
  Steps = 3
  MaxPolls = 2
  Pools = {1, 2}
  Expected = 1
  Signals = 1
INVARIANTS
  TypeOK
  OwnServer
  NothingLeftRunning
PROPERTIES
  RoundEnds
