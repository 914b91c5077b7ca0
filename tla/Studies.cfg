SPECIFICATION Spec
CONSTANTS
  Exps <- MCExps
  Grid <- MCGrid
  Tokens <- MCTokens
  Outcomes <- MCOutcomes
  SeedSets <- MCSeedSets
  Lives <- MCLives
  Target = 16
  Tolerance = 1
  MaxRefinements = 3
  Workers = 2
  MaxRuns = 2
  MaxKills = 1
  MaxLost = 1
  ConstTtls <- MCTtls
  Pressures <- MCPressures
  PauseGrid <- MCPauses
  Signals <- MCSignals
  Thresholds <- MCThresholds
  MinHeadroom <- MCMinHeadroom
INVARIANTS
  TypeOK
  HeadroomIsPoint
  FilesInOrder
  WholeRowsReported
  CalibrationKeepsClosest
CHECK_DEADLOCK FALSE
