SPECIFICATION Spec
CONSTANTS
  ta = ta
  tb = tb
  tc = tc
  public = public
  members = members
  user = user
  a1 = a1
  a2 = a2
  Item = {1, 2, 3, 4, 5}
  Visitor = {None, user}
  Public = public
  PageSizes = {1, 2}
  DefaultPageSize = 2
  MaxLeading = 3
  Created <- Moments
  Whim <- Whims
  Category = {21, 22, 23, 24}
  Field = {31, 32}
  Text = {ta, tb, tc}
  Copy <- Copies
  MaxRevisions = 2
  AutoApprove = FALSE
  None = None
  Worker = {a1, a2}
  Start <- Sites
  Does <- Work
  MaxChanges = 2
  MaxFaults = 1
INVARIANTS
  NoLeftovers
  LinksOpen
  PagesPartition
PROPERTIES
  EditsKept
  RollbackRestores
  SearchFinds
CHECK_DEADLOCK FALSE
