CONSTANTS
  Version = {1, 2}
  w1 = w1
  w2 = w2
  Worker = {w1, w2}
  Does <- TwoAdmins
  MaxFaults = 1
  MaxCrashes = 2
  Torn = Torn
SPECIFICATION FairSpec
INVARIANTS
  RunningKept
PROPERTIES
  RollbackRuns
  ComesBack
CHECK_DEADLOCK FALSE
