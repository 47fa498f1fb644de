SPECIFICATION RecoverySpec
CONSTANTS
  missed = missed
  live = live
  None = None
  NoReading = NoReading
  Events <- TwoEvents
  FaultKinds = {"crash", "ackLost", "ledgerWrite"}
  MaxFaults = 1
  MaxUnconfirmed = 2
  Ticks <- NineTicks
  Threshold = 100
  EmptyDwell = 2
  Before = 5
  After = 1
  Cases <- OneCase
  Case <- Audited
  Imageless = {}
  Span <- Spans
  Logs <- ProvingLogs
  Attended = TRUE
  MaxRuns = 2
INVARIANTS NothingIsLost SentWithItsImage LoadsDiffer
PROPERTIES RetryLeavesCompleted
CHECK_DEADLOCK FALSE
