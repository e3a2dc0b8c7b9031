CONSTANTS
  Ext = {e1}
  t1 = t1
  t2 = t2
  Thread = {t1, t2}
  Pid = {p1, p2}
  None = None
  Does <- AnyOperation
SYMMETRY Symmetry
SPECIFICATION Spec
INVARIANTS
  TypeOK
  NothingLeaks
  ExclusiveOwner
  OneServing
  SetupBeforeService
PROPERTIES
  NeverReplaced
  StopSticks
  Supervises
