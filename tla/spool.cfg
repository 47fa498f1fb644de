SPECIFICATION FairSpec
CONSTANTS
  s1 = s1
  s2 = s2
  w1 = w1
  None = None
  Sessions <- TwoSessions
  Workers <- OneWorker
  QueueSize = 1
  MaxFaults = 3
INVARIANTS FramesOutliveWork NothingForgotten ClaimedIsHeld
PROPERTIES PendingIsClaimed CleanupEnds
CHECK_DEADLOCK FALSE
