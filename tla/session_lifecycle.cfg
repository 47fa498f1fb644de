SPECIFICATION FairSpec
CONSTANTS
  Weights <- FourWeights
  Unset = Unset
  Threshold = 1
  FilterFrames = 3
  DropMin = 15
  DropRatio = 10
  DropReadings = 2
  DropDwell = 1
  RiseMin = 5
  RiseRatio = 5
  RiseDwell = 1
  EmptyDwell = 2
  AbsentDwell = 1
  PlateTimeout = 2
INVARIANTS LoadIsNotLost FramesWhileLoaded
PROPERTIES OneSessionPerCycle EmptyScaleSettles
