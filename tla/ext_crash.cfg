CONSTANTS
  Ext = {e1}
  t1 = t1
  t2 = t2
  Thread = {t1, t2}
  Pid = {p1, p2}
  None = None
  Does <- OnlyRequests
SPECIFICATION Spec
PROPERTY RequestsRestartCrashed
