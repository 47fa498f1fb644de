SPECIFICATION FairSpec
CONSTANTS
  cam1 = cam1
  cam3 = cam3
  Cameras <- TwoCameras
  Loop = Loop
  ConfirmHits = 2
  StaleTicks = 1
  OcrInterval = 1
  Followed = {cam1}
INVARIANTS PresenceIsCurrent StaleIsInFlight
PROPERTIES PlateLossIsReported
