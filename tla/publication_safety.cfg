SPECIFICATION Spec
CONSTANTS
  s1 = s1
  s2 = s2
  w1 = w1
  w2 = w2
  None = None
  Events <- TwoSessions
  NoWeight <- NoSession
  Workers <- OneWorker
  Readings = {"plate"}
  MaxRetries = 2
  FaultKinds <- AllFaultKinds
  MaxFaults = 2
  MaxUnconfirmed = 2
INVARIANTS NothingSentBeforeFinalized CopiesAreAccountedFor AcknowledgedIsDurable
SYMMETRY SessionsAlike
CHECK_DEADLOCK FALSE
