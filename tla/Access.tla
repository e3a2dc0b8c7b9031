-------------------------------- MODULE Access --------------------------------
(***************************************************************************)
(* Who may do what (src/internal/security, roles, groups, and the admin    *)
(* handlers for users, roles and groups): roles give permissions, inherit  *)
(* from other roles, and are held by users directly or through groups.     *)
(* What a user may do, and the groups of a viewer, are cached per user.    *)
(***************************************************************************)
EXTENDS Naturals, FiniteSets, Steps

CONSTANTS User, Role, Group, Perm,
          System,          \* the built-in roles
          BuiltIn,         \* BuiltIn[r]: their permissions and parents (RegisterRole)
          Defaults,        \* Defaults[g]: the role of a default group
          Administrator, Public, Registered,
          Installer,       \* the role made for whoever installs an extension
          All, Users, Profiles, Members, Security, Extension,
            \* permissions: "*", to write users, or only who they are, what they are members
            \* of and whether they may sign in, and that of an extension
          None, Worker, Start, Does, MaxChanges, MaxFaults

ASSUME AccessFiniteAssumption ==
  IsFiniteSet(User) /\ IsFiniteSet(Role) /\ IsFiniteSet(Group) /\ IsFiniteSet(Perm)
ASSUME AccessRolesAssumption ==
  /\ Administrator \in System /\ System \subseteq Role /\ Installer \in Role \ System
  /\ Extension \in Perm
  /\ BuiltIn \in [System -> [allows : SUBSET Perm, parents : SUBSET System]]
  /\ All \in BuiltIn[Administrator].allows
ASSUME AccessGroupsAssumption ==
  /\ {Public, Registered} \cap DOMAIN Defaults = {} /\ DOMAIN Defaults \subseteq Group
  /\ Defaults \in [DOMAIN Defaults -> System]

VARIABLES db, cached, worker, changes, faults, doubtful

vars == <<db, cached, worker, changes, faults, doubtful>>

Status == {"active", "inactive"}
Row == ({"user"} \X User \X Status) \cup ({"role"} \X Role \X Status)
       \cup ({"group"} \X Group \X Status)
       \cup ({"holds"} \X User \X Role) \cup ({"member"} \X User \X Group)
       \cup ({"gives"} \X Group \X Role) \cup ({"inherits"} \X Role \X Role)
       \cup ({"allow", "deny"} \X Role \X Perm) \cup ({"revision"} \X {1, 2} \X {"done"})
\* What the program starts with.
ASSUME AccessStartAssumption == \A rows \in Start : rows \subseteq Row

Is(x, what, rows) == <<what, x, "active">> \in rows
Exists(x, what, rows) == \E s \in Status : <<what, x, s>> \in rows
AnyStatus(what, x) == {<<what, x, s>> : s \in Status}
Links(what, X, Y) == {<<what, x, y>> : x \in X, y \in Y}
Grants(r) == Links("allow", {r}, Perm) \cup Links("deny", {r}, Perm)

Permissions == {"permissions"} \X User
Viewer == {"groups"} \X User
Key == Permissions \cup Viewer
Of(U) == {"permissions", "groups"} \X U

\* What may be asked for: forms, buttons, and what an installer, a login or a start comes to.
Request ==
  ({"roleForm"} \X Role \X Status \X (SUBSET Perm) \X (SUBSET Perm) \X (SUBSET Role))
  \cup ({"userForm"} \X User \X User \X Status \X (SUBSET Group) \X (SUBSET Role))
  \cup ({"groupForm"} \X Group \X Status \X (SUBSET Role))
  \cup ({"roleDelete", "roleToggle"} \X Role) \cup ({"groupDelete", "groupToggle"} \X Group)
  \cup ({"userToggle", "userDelete"} \X User \X User)
  \cup ({"assignAdmin", "login", "install"} \X User) \cup {<<"boot">>}
ASSUME AccessDoesAssumption == \A w \in Worker : Does[w] \subseteq Request \cup Key

----------------------------------------------------------------------------
\* What is derived

\* collectRoleIDs: the active roles of an active user, held directly or given by an
\* active group.
RolesOf(u, rows) ==
  {r \in Role : /\ Is(u, "user", rows) /\ Is(r, "role", rows)
                /\ \/ <<"holds", u, r>> \in rows
                   \/ \E g \in Group : /\ Is(g, "group", rows)
                                       /\ <<"member", u, g>> \in rows
                                       /\ <<"gives", g, r>> \in rows}

Linked(what, x, Y, rows) == {y \in Y : <<what, x, y>> \in rows}
Parents(r, rows) == Linked("inherits", r, Role, rows)

\* Mutant: what a role denies, it still has from its parents.
AllowedByParents(role, rows) ==
  LET allows[seen \in SUBSET Role] ==
        [r \in Role \ seen |->
           LET more == seen \cup {r}
           IN Linked("allow", r, Perm, rows) \cup UNION {allows[more][p] : p \in Parents(r, rows) \ more}]
  IN allows[{}][role]

\* resolveRoleEffective: what a role allows, and what its parents allow and it does
\* not deny.  A role that is met again on the way up gives nothing.
AllowedBy(role, rows) ==
  LET allows[seen \in SUBSET Role] ==
        [r \in Role \ seen |->
           LET more == seen \cup {r}
           IN Linked("allow", r, Perm, rows)
              \cup ((UNION {allows[more][p] : p \in Parents(r, rows) \ more}) \ Linked("deny", r, Perm, rows))]
  IN allows[{}][role]

\* resolveFromDB; of what roles may do it reads the tables of grants and inheritance only.
RoleTables(rows) == {row \in rows : row[1] \in {"allow", "deny", "inherits"}}
Effective(u, rows) ==
  LET R == RolesOf(u, rows)  tables == RoleTables(rows) IN
  [allow |-> UNION {AllowedBy(r, tables) : r \in R},
   deny |-> UNION {Linked("deny", r, Perm, tables) : r \in R}]

\* The groups a user is in for the site: the active ones, and the public one.
GroupsOf(u, rows) ==
  {g \in Group : \/ g = Public
                 \/ /\ Is(u, "user", rows) /\ Is(g, "group", rows)
                    /\ <<"member", u, g>> \in rows}

Derive(k, rows) ==
  IF k \in Permissions THEN Effective(k[2], rows) ELSE GroupsOf(k[2], rows)

\* CheckPermission; a pattern with a prefix or a suffix matches as All does.
Has(granted, p) == p \in granted \/ All \in granted
Can(effective, p) == ~Has(effective.deny, p) /\ Has(effective.allow, p)

\* The permissions a request is checked with.
Seen(u, rows, c) == IF c[<<"permissions", u>>] # None THEN c[<<"permissions", u>>]
                    ELSE Effective(u, rows)
FullWrite(a, rows, c) == Can(Seen(a, rows, c), Users)
\* CanManageUserProfile, CanManageUserMembership and CanManageUserSecurity.
May(p, a, rows, c) == FullWrite(a, rows, c) \/ Can(Seen(a, rows, c), p)

\* Rows of tables that decide nothing here: descriptions, notifications, identities.
Other == Statement

\* Tables that are joined; both of their columns are foreign keys.
Joins == [member |-> <<"user", "group">>, holds |-> <<"user", "role">>, gives |-> <<"group", "role">>]

\* What is linked to is inserted as it was read, unless it is there.
Tied(what, x, read, rows) ==
  {<<what, x, row[2]>> : row \in read} \cup {row \in read : ~Exists(row[2], Joins[what][2], rows)}

\* Association(...).Append.
Association(what, x, read) == Where(<<"tie", what, x, read>>)
Tie(what, x, read, rows) ==
  Needing({AnyStatus(Joins[what][1], x)}, Link(Tied(what, x, read, rows)))

\* Association(...).Replace: the new links, then the others go.
Replace(what, x, Y, new, rows) ==
  When(new # {}, <<Association(what, x, rows \cap UNION {AnyStatus(Joins[what][2], y) : y \in new})>>)
  \o <<Delete(Links(what, {x}, Y \ new))>>

\* Save of a row that was read with the groups and roles it is linked to: the links, and
\* what they lead to, are inserted again where they have gone.
JoinsOf(what) == {j \in DOMAIN Joins : Joins[j][1] = what}
Preload(what, x, rows) ==
  {row \in rows : \E j \in JoinsOf(what) : /\ row \in AnyStatus(Joins[j][2], row[2])
                                          /\ <<j, x, row[2]>> \in rows}
SaveLoaded(what, x, s, rows) == Where(<<"save", what, x, s, Preload(what, x, rows)>>)
SaveLinked(what, x, s, read, rows) ==
  Write(AnyStatus(what, x),
        {<<what, x, s>>}
        \cup UNION {Tied(j, x, {row \in read : row[1] = Joins[j][2]}, rows) : j \in JoinsOf(what)})

\* A row that joins refer to is not deleted.
Expunge(what, x, joins) == Unless(joins, Delete(AnyStatus(what, x)))

\* postToggleModel: the row as read, with the other status.
Toggle(what, x, rows) ==
  LET s == IF Is(x, what, rows) THEN "inactive" ELSE "active"
  IN <<Save(AnyStatus(what, x), <<what, x, s>>)>>

----------------------------------------------------------------------------
\* Roles

\* Mutant: a cycle of three roles goes unseen.
SaveRoleInheritanceNear(c, P, rows) ==
  IF \E p \in P : p = c \/ c \in Parents(p, rows) THEN <<Return>>
  ELSE <<Delete(Links("inherits", {c}, Role))>>
       \o Each(P, LAMBDA p : Insert(<<"inherits", c, p>>, {<<"inherits", c, p>>}))

\* wouldCycle: the roles above r, r included, is what a queue of roles and their parents meets:
\* what is in every set that has r, and with a role its parents.
Above(r, rows) ==
  {q \in Role : \A S \in SUBSET Role :
     r \in S /\ (\A x \in S : Parents(x, rows) \subseteq S) => q \in S}

SaveRoleInheritance(c, P, rows) ==
  IF \E p \in P : c \in Above(p, rows) THEN <<Return>>
  ELSE <<Delete(Links("inherits", {c}, Role))>>
       \o Each(P, LAMBDA p : Insert(<<"inherits", c, p>>, {<<"inherits", c, p>>}))

\* All rows of the role go first; a permission that is both allowed and denied is
\* an error once the others have been written.
SaveRolePermissions(r, A, D) ==
  LET one(kind, p) == Insert(<<kind, r, p>>, {<<"allow", r, p>>, <<"deny", r, p>>}) IN
  <<Delete(Grants(r))>>
  \o Each(A, LAMBDA p : one("allow", p))
  \o Each(D, LAMBDA p : IF p \in A THEN Return ELSE one("deny", p))

\* Mutant: the built-in administrator is saved as any role.
GrantsFormAny(r, A, D, rows) ==
  LET listed == {p \in Perm : p # All \/ Grants(r) \cap rows \cap Links("allow", {r}, {p}) # {}}
  IN SaveRolePermissions(r, A \cap listed, D \cap listed)

\* What the form offers does not have All, unless the role has it already; the
\* built-in administrator gets it whatever the form says.
GrantsForm(r, A, D, rows) ==
  LET listed == {p \in Perm : p # All \/ {<<"allow", r, p>>, <<"deny", r, p>>} \cap rows # {}}
      wildcard == IF r = Administrator THEN {All} ELSE {}
  IN SaveRolePermissions(r, (A \cap listed) \cup wildcard, D \cap listed)

\* Mutant: the cached permissions stay.
RoleFormQuiet(r, s, A, D, P, rows) ==
  LET status == IF r \notin System THEN s ELSE IF Is(r, "role", rows) THEN "active" ELSE "inactive"
  IN When(r \in System => Exists(r, "role", rows),
          <<Save(AnyStatus("role", r), <<"role", r, status>>), Call(<<"grants", r, A, D>>),
            Call(<<"inherit", r, P>>), Other>>)

\* roleForm; a built-in role is none that a form makes, and keeps its status.
RoleForm(r, s, A, D, P, rows) ==
  LET status == IF r \notin System THEN s ELSE IF Is(r, "role", rows) THEN "active" ELSE "inactive"
  IN When(r \in System => Exists(r, "role", rows),
          <<Save(AnyStatus("role", r), <<"role", r, status>>), Call(<<"grants", r, A, D>>),
            Call(<<"inherit", r, P>>), Other, Forget(Key)>>)

RoleDelete(r, rows) ==
  IF r \in System \/ ~Exists(r, "role", rows) THEN <<>>
  ELSE <<Delete(Links("gives", Group, {r})), Delete(Links("holds", User, {r})),
         Delete(Grants(r)), Delete(Links("inherits", {r}, Role) \cup Links("inherits", Role, {r})),
         Ignored(Other), Expunge("role", r, Links("gives", Group, {r}) \cup Links("holds", User, {r})),
         Forget(Key)>>

RoleToggle(r, rows) ==
  IF r \in System \/ ~Exists(r, "role", rows) THEN <<>>
  ELSE <<Call(<<"toggle", "role", r>>), Forget(Key)>>

----------------------------------------------------------------------------
\* Groups

\* groupForm: the group is read with its roles, and saved with them.
GroupForm(g, s, R, rows) ==
  <<SaveLoaded("group", g, s, rows), Call(<<"gives", g, R>>), Forget(Key)>>

GroupDelete(g, rows) ==
  IF g \in DOMAIN Defaults \cup {Public, Registered} \/ ~Exists(g, "group", rows) THEN <<>>
  ELSE <<Delete(Links("gives", {g}, Role)), Delete(Links("member", User, {g})),
         Expunge("group", g, Links("gives", {g}, Role) \cup Links("member", User, {g})), Forget(Key)>>

\* invalidateGroupsDataCache: the permissions of the members stay cached.
GroupToggle(g, rows) ==
  IF ~Exists(g, "group", rows) THEN <<>>
  ELSE Toggle("group", g, rows) \o <<Forget(Viewer), Overlook(Permissions)>>

----------------------------------------------------------------------------
\* Users

\* CreateLocalUser.
NewUser(u, rows) ==
  <<Insert(<<"user", u, "active">>, AnyStatus("user", u))>>
  \o Each({g \in {Public, Registered} : Exists(g, "group", rows)},
          LAMBDA g : Where(<<"tieAnyway", "member", u, rows \cap AnyStatus("group", g)>>))

\* validateMembershipAssignment: only what the assigning user has, unless that is all.
MayAssign(a, G, R, rows, c) ==
  IF \/ Can(Seen(a, rows, c), All)
     \/ /\ R \subseteq RolesOf(a, rows)
        /\ \A g \in G : <<"member", a, g>> \in rows /\ Is(g, "group", rows) /\ Is(a, "user", rows)
  THEN <<>> ELSE <<Return>>

\* userForm, as a saves it for u: the account, with the groups and roles it was read with,
\* then groups and roles.  Who may not assign any leaves them as they are by then, and a new
\* account without.
UserForm(u, a, s, G, R, rows, c) ==
  LET may(p) == May(p, a, rows, c)
      there == Exists(u, "user", rows)
      status == IF may(Security) THEN s ELSE IF Is(u, "user", rows) THEN "active" ELSE "inactive"
      account == IF ~there THEN NewUser(u, rows)
                 ELSE When(may(Profiles) \/ may(Security), <<SaveLoaded("user", u, status, rows)>>)
      links == IF may(Members) THEN <<Call(<<"assigns", a, G, R>>), Call(<<"links", u, G, R>>)>>
               ELSE IF there THEN <<Call(<<"keep", u>>)>> ELSE <<Call(<<"links", u, {}, {}>>)>>
  IN When(may(Profiles) \/ (there /\ (may(Members) \/ may(Security))),
          account \o links \o <<Forget(Of({u})), Other>>)

\* The groups, then the roles; as they are: loadUserGroupIDs and loadUserRoleIDs.
SetLinks(u, G, R) == <<Call(<<"member", u, G>>), Call(<<"holds", u, R>>)>>
KeepLinks(u, rows) == SetLinks(u, Linked("member", u, Group, rows), Linked("holds", u, Role, rows))

UserToggle(u, a, rows, c) ==
  When(May(Security, a, rows, c) /\ Exists(u, "user", rows),
       Toggle("user", u, rows) \o <<Forget(Of({u}))>>)

\* userDelete drops nothing from the caches.
UserDelete(u, a, rows, c) ==
  When(FullWrite(a, rows, c),
       <<Delete(Links("member", {u}, Group)), Delete(Links("holds", {u}, Role)), Other,
         Expunge("user", u, Links("member", {u}, Group) \cup Links("holds", {u}, Role)),
         Overlook(Of({u}))>>)

\* AssignAdmin, when a site is installed.
AssignAdmin(u, rows) ==
  When(Exists(u, "user", rows),
       Each({g \in DOMAIN Defaults : Defaults[g] = Administrator /\ Exists(g, "group", rows)},
            LAMBDA g : Call(<<"assign", u, g>>)))
Assign(u, g, rows) == <<Association("member", u, rows \cap AnyStatus("group", g)), Forget(Of({u}))>>

\* EnsureRegisteredGroup at every login, without an invalidation.
Login(u, rows) ==
  When(/\ Exists(u, "user", rows) /\ Exists(Registered, "group", rows)
       /\ <<"member", u, Registered>> \notin rows,
       <<Association("member", u, rows \cap AnyStatus("group", Registered)), Overlook(Of({u}))>>)

----------------------------------------------------------------------------
\* The role of an installer

\* GrantExtensionToInstaller: other holders of the role keep what is cached.
Grant(u, rows, c) ==
  When(~Can(Seen(u, rows, c), Extension),
       <<Call(<<"role", Installer>>), Call(<<"append", Installer, {Extension}>>),
         Call(<<"hold", u>>), Forget(Of({u})), Overlook(Permissions)>>)

AssignUserRole(u, r, rows) ==
  When(<<"holds", u, r>> \notin rows,
       <<Needing({AnyStatus("user", u), AnyStatus("role", r)}, Insert(<<"holds", u, r>>, {<<"holds", u, r>>}))>>)

\* AppendRoleAllowPermissions.
AppendAllows(r, P, rows) ==
  SaveRolePermissions(r, Linked("allow", r, Perm, rows) \cup P, Linked("deny", r, Perm, rows) \ P)

----------------------------------------------------------------------------
\* What every start and reload sees to: EnsureDefaults

EnsureRole(r, rows) ==
  IF Exists(r, "role", rows) THEN <<Other>>
  ELSE <<Insert(<<"role", r, "active">>, AnyStatus("role", r))>>

\* SeedDefaults: a built-in role gets its parents back, and its permissions if it has
\* none; then a default group its role (flattenEditorialGroups).
SeedDefaults ==
  Each(System, LAMBDA r : Call(<<"role", r>>)) \o Each(System, LAMBDA r : Call(<<"seed", r>>))
  \o Each(DOMAIN Defaults, LAMBDA g : Call(<<"flatten", g>>))

Seed(r) == <<Call(<<"inherit", r, BuiltIn[r].parents>>), Call(<<"seedGrants", r>>)>>
SeedPermissions(r, rows) ==
  When(Grants(r) \cap rows = {}, SaveRolePermissions(r, BuiltIn[r].allows, {}))

\* migrateSystemRoleDirectPermissions: once in the life of a site, built-in roles are
\* reset.
Migrate(rows) ==
  When(~\E n \in {1, 2} : <<"revision", n, "done">> \in rows,
       Each({r \in System : Exists(r, "role", rows)}, LAMBDA r : Call(<<"reset", r>>))
       \o <<Insert(<<"revision", 1, "done">>, {})>>)
  \o When(<<"revision", 2, "done">> \notin rows,
          <<Call(<<"wildcard">>), Insert(<<"revision", 2, "done">>, {})>>)

Reset(r, rows) ==
  SaveRolePermissions(r, BuiltIn[r].allows, {})
  \o <<Call(<<"inherit", r, {p \in BuiltIn[r].parents : Exists(p, "role", rows)}>>)>>

\* ensureAdministratorWildcardGrant.
Wildcard(rows) ==
  When(Exists(Administrator, "role", rows) /\ <<"allow", Administrator, All>> \notin rows,
       AppendAllows(Administrator, {All}, rows))

\* ensureGroup; flattening leaves a group that is not there alone.
EnsureGroup(g, rows) ==
  IF Exists(g, "group", rows) THEN <<Other>>
  ELSE <<Insert(<<"group", g, "active">>, AnyStatus("group", g))>>
Flatten(g, rows) ==
  When(Exists(g, "group", rows), Replace("gives", g, Role, {Defaults[g]}, rows))

\* EnsureForSite goes on with the migration when seeding fails, and ends with that
\* error; Activate drops all permissions before, and none after.
Boot ==
  LET migrate == <<Call(<<"migrate">>), Call(<<"wildcard">>)>> IN
  <<Forget(Key)>> \o SeedDefaults \o <<Catch(migrate \o <<Return>>)>> \o migrate
  \o Each(DOMAIN Defaults, LAMBDA g : Call(<<"default", g>>))
  \o <<Call(<<"group", Public>>), Call(<<"group", Registered>>), Call(<<"everybody">>)>>

\* ensureDefaultGroups, for one of them.
Default(g) == <<Call(<<"group", g>>), Call(<<"flatten", g>>)>>

\* ensureUserPublicMembership.
Everybody(rows) ==
  Each({u \in User : Exists(u, "user", rows) /\ <<"member", u, Public>> \notin rows},
       LAMBDA u : Association("member", u, rows \cap AnyStatus("group", Public)))

----------------------------------------------------------------------------

Plan(op, rows, c) ==
  CASE op[1] = "roleForm" -> RoleForm(op[2], op[3], op[4], op[5], op[6], rows)
    [] op[1] = "grants" -> GrantsForm(op[2], op[3], op[4], rows)
    [] op[1] = "inherit" -> SaveRoleInheritance(op[2], op[3], rows)
    [] op[1] = "roleDelete" -> RoleDelete(op[2], rows)
    [] op[1] = "roleToggle" -> RoleToggle(op[2], rows)
    [] op[1] = "toggle" -> When(Exists(op[3], op[2], rows), Toggle(op[2], op[3], rows))
    [] op[1] = "groupForm" -> GroupForm(op[2], op[3], op[4], rows)
    [] op[1] = "groupDelete" -> GroupDelete(op[2], rows)
    [] op[1] = "groupToggle" -> GroupToggle(op[2], rows)
    [] op[1] = "gives" -> Replace("gives", op[2], Role, {r \in op[3] : Exists(r, "role", rows)}, rows)
    [] op[1] = "userForm" -> UserForm(op[2], op[3], op[4], op[5], op[6], rows, c)
    [] op[1] = "links" -> SetLinks(op[2], op[3], op[4])
    [] op[1] = "keep" -> KeepLinks(op[2], rows)
    [] op[1] = "save" -> <<SaveLinked(op[2], op[3], op[4], op[5], rows)>>
    [] op[1] = "tie" -> <<Tie(op[2], op[3], op[4], rows)>>
    [] op[1] = "tieAnyway" -> <<Ignored(Tie(op[2], op[3], op[4], rows))>>
    [] op[1] = "hold" -> AssignUserRole(op[2], Installer, rows)
    [] op[1] = "assigns" -> MayAssign(op[2], op[3], op[4], rows, c)
    [] op[1] = "member" -> Replace("member", op[2], Group, {g \in op[3] : Exists(g, "group", rows)}, rows)
    [] op[1] = "holds" -> Replace("holds", op[2], Role, {r \in op[3] : Exists(r, "role", rows)}, rows)
    [] op[1] = "userToggle" -> UserToggle(op[2], op[3], rows, c)
    [] op[1] = "userDelete" -> UserDelete(op[2], op[3], rows, c)
    [] op[1] = "assignAdmin" -> AssignAdmin(op[2], rows)
    [] op[1] = "login" -> Login(op[2], rows)
    [] op[1] = "install" -> <<Resolve(<<"permissions", op[2]>>), Call(<<"grant", op[2]>>)>>
    [] op[1] = "grant" -> Grant(op[2], rows, c)
    [] op[1] = "append" -> AppendAllows(op[2], op[3], rows)
    [] op[1] = "boot" -> Boot
    [] op[1] = "role" -> EnsureRole(op[2], rows)
    [] op[1] = "seed" -> Seed(op[2])
    [] op[1] = "seedGrants" -> SeedPermissions(op[2], rows)
    [] op[1] = "reset" -> Reset(op[2], rows)
    [] op[1] = "assign" -> Assign(op[2], op[3], rows)
    [] op[1] = "default" -> Default(op[2])
    [] op[1] = "flatten" -> Flatten(op[2], rows)
    [] op[1] = "migrate" -> Migrate(rows)
    [] op[1] = "wildcard" -> Wildcard(rows)
    [] op[1] = "group" -> EnsureGroup(op[2], rows)
    [] op[1] = "everybody" -> Everybody(rows)

Asked(k, rows) == TRUE
Site == INSTANCE Requests
Spec == Site!Spec

----------------------------------------------------------------------------
\* Properties

\* A change of users, roles or groups that has ended shows: what is cached of
\* anybody's permissions and groups is what the database says.  (Where a view
\* overlaps the change, a handler ends with an error, or the code drops nothing,
\* the cache may be out of date.)
PermissionsShow == Site!UpToDate

\* No sequence of role forms and restarts, failed ones among them, lets a role
\* inherit from itself.
InheritanceAcyclic ==
  \A r \in Role : \A p \in Parents(r, db) : r \notin Above(p, db)

\* Between changes, what the recursive resolution allows a role is what some role on a way up that
\* nobody on the way denies allows: however the ways meet or part.
Reaches(r, p, rows) ==
  LET up[n \in Nat] ==
        IF n = 0 THEN {r}
        ELSE LET near == up[n - 1] IN
             near \cup UNION {Parents(q, rows) : q \in {x \in near : <<"deny", x, p>> \notin rows}}
  IN up[Cardinality(Role)]
ResolutionIsReachability ==
  Site!Quiet => \A r \in Role :
    AllowedBy(r, db) = {p \in Perm : \E q \in Reaches(r, p, db) : <<"allow", q, p>> \in db}

\* Without a failed statement, the built-in administrator ends up active and allowed
\* everything by a grant of its own, whatever role forms, restarts and migrations have done.
AdministratorWhole ==
  Site!Quiet /\ faults = 0 /\ Exists(Administrator, "role", db) =>
    /\ Is(Administrator, "role", db)
    /\ <<"allow", Administrator, All>> \in db /\ <<"deny", Administrator, All>> \notin db

=============================================================================
