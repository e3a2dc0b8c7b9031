CONSTANTS
  Version = {1, 2}
  w1 = w1
  w2 = w2
  Worker = {w1, w2}
  Does <- OneAdmin
  MaxFaults = 1
  MaxCrashes = 2
  Torn = Torn
SPECIFICATION Spec
PROPERTY
  RollbackAnnounced
CHECK_DEADLOCK FALSE
