SPECIFICATION Spec
CONSTANTS
  u1 = u1
  u2 = u2
  administrator = administrator
  manager = manager
  custom = custom
  installer = installer
  admins = admins
  public = public
  registered = registered
  team = team
  a1 = a1
  a2 = a2
  User = {u1, u2}
  Role = {administrator, manager, custom, installer}
  Group = {admins, public, registered, team}
  Perm <- Permission
  System = {administrator, manager}
  BuiltIn <- BuiltInRoles
  Defaults <- DefaultGroups
  Administrator = administrator
  Public = public
  Registered = registered
  Installer = installer
  All = "*"
  Users = "users.write"
  Profiles = "profiles.write"
  Members = "members.write"
  Security = "security.write"
  Extension = "shop"
  None = None
  Worker = {a1, a2}
  Start <- Sites
  Does <- Work
  MaxChanges = 2
  MaxFaults = 1
INVARIANTS
  PermissionsShow
  InheritanceAcyclic
  ResolutionIsReachability
  AdministratorWhole
CHECK_DEADLOCK FALSE
