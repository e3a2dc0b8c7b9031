SPECIFICATION Spec
CONSTANTS
  ann = ann
  bob = bob
  cat = cat
  am = am
  bm = bm
  cm = cm
  pa = pa
  pb = pb
  pc = pc
  sa = sa
  sb = sb
  ka = ka
  kb = kb
  pic = pic
  a1 = a1
  a2 = a2
  None = None
  Worker = {a1, a2}
  Start <- Databases
  Does <- Work
  MaxChanges = 2
  MaxFaults = 1
PROPERTIES
  SecondFactor
  SpentFirst
  OneAccount
CHECK_DEADLOCK FALSE
