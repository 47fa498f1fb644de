SPECIFICATION FairSpec
CONSTANTS
  StableCount = 3
  ExactCount = 2
  Tolerance = 20
  Weights <- ThreeWeights
  MaxOpenAttempts = 2
  MaxFaults = 2
INVARIANTS WholeFramesAreHandedOn StableWasShown NoSilentEnd
PROPERTIES OutagesEnd
CHECK_DEADLOCK FALSE
