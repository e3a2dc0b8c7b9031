SPECIFICATION Spec
CONSTANTS
  r1 = r1
  r2 = r2
  None = None
  Torn = Torn
  Worker = {r1, r2}
  Store = {s1, s2, s3}
  Does <- AnyRequest
  MaxAge = 1
  MaxUpsets = 1
SYMMETRY Symmetry
INVARIANTS
  ReadBack
  LogoutSticks
