SPECIFICATION Spec
CONSTANTS
  Rounds = 2
  Nodes <- SomeNodes
  Expect = 75
  Reruns = 2
  Experiments <- TwoExperiments
  BasePins <- AllPinned
INVARIANTS
  TypeOK
  LabelTrue
  RerunFresh
CHECK_DEADLOCK FALSE
