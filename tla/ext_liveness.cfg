CONSTANTS
  Ext = {e1}
  t1 = t1
  t2 = t2
  Thread = {t1, t2}
  Pid = {p1, p2}
  None = None
  Does <- AdminAndRequests
SPECIFICATION FairSpec
PROPERTIES
  EveryCallReturns
  SupervisesFairly
