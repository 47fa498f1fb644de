SPECIFICATION FairSpec
CONSTANTS
  s1 = s1
  s2 = s2
  w1 = w1
  w2 = w2
  None = None
  Events <- TwoSessions
  NoWeight <- LastSession
  Workers <- TwoWorkers
  Readings = {"plate"}
  MaxRetries = 2
  FaultKinds <- ReadableLedger
  MaxFaults = 2
  MaxUnconfirmed = 2
INVARIANTS OneOwner
PROPERTIES JobsAreSettled AcknowledgedIsSettled DeliverySpec
CHECK_DEADLOCK FALSE
