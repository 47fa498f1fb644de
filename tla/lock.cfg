SPECIFICATION FairSpec
CONSTANTS
  Live = {detect, ocr, other}
  Deferred = {worker1, worker2}
  BurstCap = 2
INVARIANTS MutualExclusion DeferredOvertakenOnce LiveOvertakenOnce
PROPERTIES DeferredAdmitted
