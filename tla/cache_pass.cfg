SPECIFICATION FairSpec
CONSTANTS
  v1 = v1
  a1 = a1
  a2 = a2
  None = None
  Worker = {v1, a1, a2}
  Does <- Site
  MaxEdits = 2
  PageTTL = 2
INVARIANTS
  ChangesShow
PROPERTIES
  PagesTurnOver
