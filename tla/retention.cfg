SPECIFICATION FairSpec
CONSTANTS
  monday = monday
  NoDay = NoDay
  s1 = s1
  s2 = s2
  Days <- OneDay
  Items <- TwoSessions
  DayOf <- BothMonday
  MaxFaults = 2
INVARIANTS EarlyEvidenceKept LogSurvives
PROPERTIES DaysAreCleared
CHECK_DEADLOCK FALSE
