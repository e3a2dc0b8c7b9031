SPECIFICATION Spec
CONSTANTS
  main = main
  top = top
  side = side
  public = public
  members = members
  a1 = a1
  a2 = a2
  Route = {1, 2, 3, 4, 5}
  Item = {11, 12, 13, 14}
  Block = {21, 22}
  Menu = {main}
  Space = {top, side}
  Group = {public, members}
  BuiltInRoute = {1, 5}
  Segment = {"content", "edit", "a", "b", "auth", "login"}
  Pattern <- Patterns
  Path <- Paths
  Widget <- Widgets
  Public = public
  GuestOnly = {5}
  MembersOnly = {1}
  AllowUnverified = {5}
  LoginRoute = {5}
  Target <- Redirects
  MaxSort = 4
  None = None
  Worker = {a1, a2}
  Start <- Sites
  Does <- Work
  MaxChanges = 2
  MaxFaults = 1
INVARIANTS
  CachesShow
  MenuShowsAll
  Answered
CHECK_DEADLOCK FALSE
