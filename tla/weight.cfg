SPECIFICATION Spec
CONSTANTS
  StableCount = 2
  ExactCount = 2
  Tolerance = 20
  Threshold = 100
  Band = 20
  HistoryWindow = 3
  FilterFrames = 3
  MinReadings = 2
  Weights <- FiveWeights
  OverloadReading = 9999
  DepartureKg = 500
  Dwell = 1
  TrendFrames = 2
  DirectionalSteps = 1
  MaxSamples = 2
  MaxFrames = 4
INVARIANTS AssignedWasShown HoldsAgree
PROPERTIES PlateauIsKept
CHECK_DEADLOCK FALSE
