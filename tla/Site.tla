---------------------------------- MODULE Site ----------------------------------
(***************************************************************************)
(* What the pages of a site are put together from: routes, menus with      *)
(* their items, and blocks in spaces (src/internal/router, blocks, and the *)
(* admin handlers of routes, menus, menu items and blocks).  The active    *)
(* routes, the items of a menu and the blocks of a space are cached.       *)
(***************************************************************************)
EXTENDS Integers, FiniteSets, Steps

CONSTANTS Route, Item, Block,   \* ids
          Menu, Space, Group,
          BuiltInRoute,         \* the routes that are seeded (BuiltinRouteModels)
          Segment,              \* what stands between the slashes of a path
          Pattern,              \* Pattern[r]: a path, and whether "/*" follows it
          Path,                 \* the paths that are asked for
          Widget,               \* Widget[b]: the space of a built-in dashboard block
          Public,               \* the group everybody is in
          GuestOnly, MembersOnly, AllowUnverified,   \* what the action of a route asks for
          LoginRoute,           \* the routes of the login
          Target,               \* Target[r]: where a route that redirects leads
          MaxSort,              \* sorts are at most that (bound)
          None, Worker, Start, Does, MaxChanges, MaxFaults

ASSUME SiteIdsAssumption ==
  /\ Route \cup Item \cup Block \subseteq Nat
  /\ Route \cap Item = {} /\ Route \cap Block = {} /\ Item \cap Block = {}
  /\ IsFiniteSet(Route) /\ IsFiniteSet(Item) /\ IsFiniteSet(Block) /\ IsFiniteSet(Space)
  /\ None \notin Item
ASSUME SiteSeedsAssumption ==
  /\ BuiltInRoute \subseteq Route /\ Public \in Group
  /\ LoginRoute \cap BuiltInRoute # {} /\ LoginRoute \subseteq Route \cap GuestOnly \cap AllowUnverified
  /\ Pattern \in [Route -> [path : Seq(Segment), wild : BOOLEAN]] /\ Path \subseteq Seq(Segment)
  /\ Widget \in [DOMAIN Widget -> Space] /\ DOMAIN Widget \subseteq Block

VARIABLES db, cached, worker, changes, faults, doubtful

vars == <<db, cached, worker, changes, faults, doubtful>>

\* The columns of a route, an item or a block are rows of their own: some statements
\* write one column, others (gorm Save) all of them.
Status == {"active", "inactive"}
Sorts == 0..MaxSort
StatusOf(what, x) == {<<what, x, s>> : s \in Status}
Links(what, x, Y) == {<<what, x, y>> : y \in Y}
Default(R) == {<<"default", r, TRUE>> : r \in R}
Placed(b, s) == {<<"in", b, s, n>> : n \in Sorts}
RouteColumns(r) == StatusOf("route", r) \cup Default({r}) \cup Links("sort", r, Sorts)
ItemColumns(i) ==
  StatusOf("item", i) \cup Links("of", i, Menu) \cup Links("parent", i, Item)
  \cup Links("goes", i, Route) \cup Links("sort", i, Sorts)
Sees(x) == Links("sees", x, Group)
Row ==
  (UNION {RouteColumns(r) \cup Sees(r) : r \in Route}) \cup (UNION {ItemColumns(i) \cup Sees(i) : i \in Item})
  \cup (UNION {StatusOf("menu", m) : m \in Menu}) \cup (UNION {StatusOf("group", g) : g \in Group})
  \cup (UNION {StatusOf("block", b) \cup Sees(b) \cup (UNION {Placed(b, s) : s \in Space}) : b \in Block})
\* What the program starts with.
ASSUME SiteStartAssumption == \A rows \in Start : rows \subseteq Row

Is(x, what, rows) == <<what, x, "active">> \in rows
Exists(x, what, rows) == StatusOf(what, x) \cap rows # {}

Routes == <<"routes", None>>
Menus == {"menu"} \X Menu
Spaces == {"space"} \X Space
Key == {Routes} \cup Menus \cup Spaces

\* What may be asked for: forms with what is posted, toggles, moves by one place, deletions,
\* the routes of an extension, the dashboard, a form that seeds the routes, and a reload.
Request ==
  ({"routeForm"} \X Route \X Status \X BOOLEAN \X (SUBSET Group) \X (Menu \cup {None}) \X (Item \cup {None}))
  \cup ({"routeDelete", "routeToggle"} \X Route) \cup ({"routeMove"} \X Route \X {-1, 1})
  \cup ({"routeApply"} \X (SUBSET Route))
  \cup ({"menuForm"} \X Menu \X Status) \cup ({"menuDelete", "menuToggle"} \X Menu)
  \cup ({"itemForm"} \X Item \X Menu \X (Item \cup {None}) \X (Route \cup {None}) \X Status \X (SUBSET Group))
  \cup ({"itemDelete", "itemToggle"} \X Item) \cup ({"itemMove"} \X Item \X {-1, 1})
  \cup ({"blockForm"} \X Block \X Status \X (SUBSET Space) \X (SUBSET Group))
  \cup ({"blockDelete", "blockToggle"} \X Block) \cup ({"blockMove"} \X Block \X Space \X {-1, 1})
  \cup ({"groupToggle"} \X Group) \cup {<<"ensureDefaultRoute">>, <<"dashboard">>, <<"activate">>}
ASSUME SiteDoesAssumption == \A w \in Worker : Does[w] \subseteq Request \cup Key

Max0(S) == IF S = {} THEN 0 ELSE 1 + CHOOSE n \in S : \A o \in S : o <= n
Sort(x, rows) == CHOOSE n \in Sorts : <<"sort", x, n>> \in rows
SortOr0(x, rows) == IF Links("sort", x, Sorts) \cap rows = {} THEN 0 ELSE Sort(x, rows)

----------------------------------------------------------------------------
\* What is derived

ItemsOf(m, rows) == {i \in Item : <<"of", i, m>> \in rows /\ Exists(i, "item", rows)}
ParentOf(i, rows) ==
  IF \E p \in Item : <<"parent", i, p>> \in rows
  THEN CHOOSE p \in Item : <<"parent", i, p>> \in rows ELSE None

\* The active groups that may see x: Preload("Groups"), activeGroups.
Viewers(x, rows) == {g \in Group : <<"sees", x, g>> \in rows /\ Is(g, "group", rows)}

ActiveRoutes(rows) ==
  {<<r, Viewers(r, rows), Default({r}) \cap rows>> : r \in {q \in Route : Is(q, "route", rows)}}
ActiveMenuItems(m, rows) ==
  IF ~Is(m, "menu", rows) THEN {}
  ELSE {<<i, ItemColumns(i) \cap rows, Viewers(i, rows),
          {r \in Route : <<"goes", i, r>> \in rows /\ Is(r, "route", rows)}>> : i \in ItemsOf(m, rows)}
BlocksForSpace(s, rows) ==
  {<<b, Placed(b, s) \cap rows, Viewers(b, rows)>> :
     b \in {c \in Block : Is(c, "block", rows) /\ Placed(c, s) \cap rows # {}}}

Derive(k, rows) ==
  IF k = Routes THEN ActiveRoutes(rows)
  ELSE IF k \in Menus THEN ActiveMenuItems(k[2], rows) ELSE BlocksForSpace(k[2], rows)

\* matchRoutePath: an exact match comes before any wildcard, a longer prefix before a
\* shorter one; 0 is no match.
Score(r, path) ==
  LET p == Pattern[r] IN
  IF p.wild THEN (IF IsPrefix(p.path, path) THEN 500 + Len(p.path) ELSE 0)
  ELSE IF p.path = path THEN 1000 + Len(path) ELSE 0

\* match: the routes a viewer in G is not worse off with than with another.
Match(path, G, rows) ==
  LET R == {r \in Route : Is(r, "route", rows) /\ Viewers(r, rows) \cap G # {} /\ Score(r, path) > 0}
  IN {r \in R : \A q \in R : Score(q, path) <= Score(r, path)}

\* DefaultRoutePath, and Controller for the login; that of a wildcard is its prefix
\* (no slugs: bound).
First(R) == CHOOSE r \in R : \A q \in R : r <= q
DefaultRoutePath(rows) ==
  LET R == {r \in Route : <<"default", r, TRUE>> \in rows /\ Is(r, "route", rows)}
  IN IF R = {} THEN <<>> ELSE Pattern[First(R)].path
LoginPath(rows) ==
  LET R == {r \in LoginRoute : Is(r, "route", rows)}
  IN Pattern[First(IF R = {} THEN LoginRoute \cap BuiltInRoute ELSE R)].path

\* canBypassSiteOffline.  A visitor is in groups, signed in or not, validated or not, and may
\* enter the administration or not.
BypassesOffline(path, v) ==
  \/ path \in {<<"auth", "login">>, <<"auth", "logout">>} \/ IsPrefix(<<"auth", "oauth">>, path)
  \/ v.signedIn /\ v.staff

\* Dispatch of controllers: to the action, to the login or home.
Dispatch(r, v, allowLogin, rows) ==
  LET home == <<"redirect", DefaultRoutePath(rows)>>
      login == IF allowLogin THEN <<"redirect", LoginPath(rows)>> ELSE home
  IN CASE r \in GuestOnly /\ v.signedIn -> home
       [] r \in MembersOnly /\ ~v.signedIn -> login
       [] v.signedIn /\ ~v.validated /\ r \notin AllowUnverified -> login
       [] OTHER -> <<"page", r>>

\* ServeHTTP of the dispatcher: what a visitor may get (hooks let everything pass, and no
\* path is that of an extension's data: bounds).
Serve(path, v, site, rows) ==
  LET R == Match(path, v.groups, rows)
      none == \A r \in Route : ~(Is(r, "route", rows) /\ Viewers(r, rows) \cap v.groups # {})
  IN IF site.offline /\ ~BypassesOffline(path, v) THEN {<<"offline">>}
     ELSE IF R = {} THEN {IF none THEN <<"no routes">> ELSE <<"not found">>}
     ELSE {IF r \in DOMAIN Target THEN <<"redirect", Target[r]>> ELSE Dispatch(r, v, site.login, rows) : r \in R}

\* Mutant: only a route that goes on beyond a built-in prefix is seen to overlap.
OverlapEqual(a, b) == a = b

\* pathsOverlap: a catch-all overlaps with nothing but itself.
Overlap(a, b) ==
  \/ a = b
  \/ b.wild /\ b.path # <<>> /\ IsPrefix(b.path, a.path)
  \/ ~b.wild /\ a.wild /\ a.path # <<>> /\ IsPrefix(a.path, b.path)
ConflictsWithReservedPath(r) ==
  r \notin BuiltInRoute /\ \E b \in BuiltInRoute : Overlap(Pattern[r], Pattern[b])

\* The items of I on the way up from i: what is in every set that has the parent of i and,
\* with an item, its parent.  The walk ends where the parent is not among I.
Ancestors(i, I, rows) ==
  {a \in I : \A S \in SUBSET I :
     (\A j \in S \cup {i} : {ParentOf(j, rows)} \cap I \subseteq S) => a \in S}

\* filterPublicMenuItems, for a viewer in the groups G.
Viewable(m, G, rows) ==
  LET I == ItemsOf(m, rows) IN
  {i \in I : /\ Is(i, "item", rows) /\ Viewers(i, rows) \cap G # {}
             /\ \A p \in Ancestors(i, I, rows) : Is(p, "item", rows)}

\* buildMenuTree: an item whose parent is not there starts a tree of its own; what is below
\* the ones that do is what every set has that has them and the children of its members.
Tree(I, rows) ==
  {i \in I : \A S \in SUBSET I :
     (\A j \in I : ParentOf(j, rows) \in S \/ ParentOf(j, rows) \notin I => j \in S) => i \in S}

----------------------------------------------------------------------------
\* Statements several handlers use

\* Both columns of the tables that say who sees what are foreign keys.
Show(x, G) ==
  Needing({StatusOf("route", x) \cup StatusOf("item", x) \cup StatusOf("block", x)},
          Link(Links("sees", x, G)))
Expunge(x, columns) == Unless(Sees(x), Delete(columns))

\* A failing statement or an empty selection ends the form with an error.
ReplaceFormGroups(x, G) ==
  IF G = {} THEN <<Return>> ELSE <<Show(x, G), Delete(Links("sees", x, Group \ G))>>

Flip(what, x, rows) == <<what, x, IF Is(x, what, rows) THEN "inactive" ELSE "active">>

\* toggleModelStatus: all columns as they were read, with the other status.
Toggle(what, x, columns, rows) ==
  When(Exists(x, what, rows),
       <<Write(columns, ((columns \cap rows) \ StatusOf(what, x)) \cup {Flip(what, x, rows)})>>)

\* What gorm's Save does beside saving a row: the links that were read with it are made
\* again, and the rows it refers to, or that refer to it, are inserted with the columns
\* they had where they are gone by now.  (In the transaction of the row.)
SeenBy(x, rows) == Sees(x) \cap rows
Gone(x, rows) == ~Exists(x, "item", rows) /\ ~Exists(x, "route", rows)
Again(old, rows) == {row \in old : Gone(row[2], rows)}
Loaded(I, R, rows) == ((UNION {ItemColumns(i) : i \in I}) \cup (UNION {RouteColumns(r) : r \in R})) \cap rows

SortColumn(x, n) == <<"sort", x, n>>
Number(x, n) == Update(Links("sort", x, Sorts), SortColumn(x, n))
SortsNow(rows) == [x \in Route \cup Item |-> SortOr0(x, rows)]

----------------------------------------------------------------------------
\* Routes

\* Mutant: menus, which show whether a route is active, stay cached.
InvalidateRoutesOnly == <<Forget({Routes})>>

InvalidateRoutes == <<Forget({Routes}), Forget(Menus)>>

\* routeForm: a transaction saves the route and takes the default from the others.  A
\* route that is edited without groups becomes inactive and keeps those it had.
RouteForm(r, s, d, G, m, p, rows) ==
  IF ConflictsWithReservedPath(r) THEN <<Return>> ELSE
  LET known == Exists(r, "route", rows)
      status == IF known /\ G = {} THEN "inactive" ELSE s
      sort == IF known THEN SortOr0(r, rows) ELSE Max0({n \in Sorts : \E q \in Route : <<"sort", q, n>> \in rows})
      row == {<<"route", r, status>>, <<"sort", r, sort>>} \cup (IF d THEN Default({r}) ELSE {}) \cup SeenBy(r, rows)
  IN <<Write(RouteColumns(r) \cup (IF d THEN Default(Route) ELSE {}), row)>>
     \o When(~(known /\ G = {}), ReplaceFormGroups(r, G))
     \o When(m # None, <<Call(<<"addRouteToMenu", r, m, p>>)>>)
     \o InvalidateRoutes

RouteDelete(r, rows) ==
  When(r \notin BuiltInRoute /\ Exists(r, "route", rows),
       <<Delete(Sees(r)), Expunge(r, RouteColumns(r))>>
       \o When(<<"default", r, TRUE>> \in rows, <<Call(<<"ensureRouteDefault">>)>>)
       \o InvalidateRoutes)

CustomRoutes(rows) ==
  Ordered({r \in Route \ BuiltInRoute : Exists(r, "route", rows)}, SortsNow(rows))

RouteReorder(r, d, rows) ==
  When(r \notin BuiltInRoute,
       Renumber(CustomRoutes(rows), r, d, SortsNow(rows), Number))
RouteMoveSort(r, d, rows) ==
  When(Exists(r, "route", rows), <<Call(<<"routeReorder", r, d>>)>> \o InvalidateRoutes)

\* routeApplyExtensionRoutes: a transaction makes the routes an extension declares;
\* one that is there gets the public group if it has none.
RouteApply(R, rows) ==
  LET new == {r \in R : ~Exists(r, "route", rows)}
      next == Max0({n \in Sorts : \E q \in Route : <<"sort", q, n>> \in rows})
      bare == {r \in R : Sees(r) \cap rows = {}}
  IN IF \E r \in new : ConflictsWithReservedPath(r) THEN <<Return>> ELSE
     <<Write({}, {<<"route", r, "active">> : r \in new}
                \cup {<<"sort", r, next + Cardinality({q \in new : q < r})>> : r \in new}
                \cup {<<"sees", r, Public>> : r \in bare})>> \o InvalidateRoutes

\* EnsureDefaultRoute seeds the built-in routes, then EnsureRouteDefault leaves the
\* default to one route.  The dashboard's block form calls it too; nothing is dropped.
EnsureDefaultRoute ==
  Each(BuiltInRoute, LAMBDA r : Call(<<"ensureRoute", r>>))
  \o <<Call(<<"ensureRouteDefault">>), Overlook({Routes} \cup Menus)>>
EnsureRoute(r, rows) ==
  When(~Exists(r, "route", rows),
       <<[Write({}, {<<"route", r, "active">>, <<"sort", r, 0>>}) EXCEPT !.clash = StatusOf("route", r)],
         Show(r, {Public})>>)
EnsureRouteDefault(rows) ==
  LET D == {r \in Route : <<"default", r, TRUE>> \in rows} IN
  Each({r \in D : \E q \in D : q < r}, LAMBDA r : Delete(Default({r})))

----------------------------------------------------------------------------
\* Menus and their items

InvalidateMenus == Forget(Menus)

\* menuForm saves a menu with the items that were read, and they the routes they lead to;
\* what is cached of these is not dropped.
MenuForm(m, s, rows) ==
  LET I == IF Exists(m, "menu", rows) THEN ItemsOf(m, rows) ELSE {}
      R == {r \in Route : \E i \in I : <<"goes", i, r>> \in rows}
  IN <<Where(<<"saveMenu", m, s, I, Loaded(I, R, rows)>>), InvalidateMenus, Overlook({Routes})>>
SaveMenu(m, s, I, old, rows) ==
  <<Write(StatusOf("menu", m) \cup UNION {Links("of", i, Menu) : i \in I},
          {<<"menu", m, s>>} \cup {<<"of", i, m>> : i \in I} \cup Again(old, rows))>>
MenuDelete(m) == <<Where(<<"deleteItemsOf", m>>), Delete(StatusOf("menu", m)), InvalidateMenus>>
\* Items somebody may see stay behind: their groups refer to them.
DeleteItemsOf(m, rows) ==
  LET I == ItemsOf(m, rows)
  IN <<Ignored(Unless(UNION {Sees(i) : i \in I}, Delete(UNION {ItemColumns(i) : i \in I})))>>

\* Mutant: an item may go below its own children.
ValidateMenuItemParentSelf(i, m, p, rows) ==
  p = None \/ (p \in ItemsOf(m, rows) /\ p # i)

\* ValidateMenuItemParent: p is in the menu and not below i.
ValidateMenuItemParent(i, m, p, rows) ==
  LET I == ItemsOf(m, rows) IN p = None \/ (p \in I /\ p # i /\ i \notin Ancestors(p, I, rows))

WriteItem(i, m, p, r, s, n) ==
  Write(ItemColumns(i), {<<"item", i, s>>, <<"of", i, m>>, <<"sort", i, n>>}
        \cup (IF p = None THEN {} ELSE {<<"parent", i, p>>})
        \cup (IF r = None THEN {} ELSE {<<"goes", i, r>>}))

\* menuItemForm.  An item stays in its menu, and, Save taking the ids of the rows that were
\* read with it, below the parent and with the route it has.
MenuItemForm(i, m, p, r, s, G, rows) ==
  LET menu == IF Exists(i, "item", rows) THEN CHOOSE n \in Menu : <<"of", i, n>> \in rows ELSE m
      parent == {q \in Item : <<"parent", i, q>> \in rows /\ Exists(q, "item", rows)}
      route == {q \in Route : <<"goes", i, q>> \in rows /\ Exists(q, "route", rows)}
      Kept(S, x) == IF S = {} THEN x ELSE CHOOSE q \in S : TRUE
  IN IF ~ValidateMenuItemParent(i, menu, p, rows) THEN <<Return>>
     ELSE <<Where(<<"saveItem", i, menu, Kept(parent, p), Kept(route, r), s, SortOr0(i, rows),
                    SeenBy(i, rows), Loaded(parent, route, rows)>>)>>
          \o ReplaceFormGroups(i, G) \o <<InvalidateMenus, Overlook({Routes})>>
SaveItem(i, m, p, r, s, n, links, old, rows) ==
  LET written == WriteItem(i, m, p, r, s, n) IN <<[written EXCEPT !.add = @ \cup links \cup Again(old, rows)]>>

\* addRouteToMenu: a new item below p, unless the menu has one for the route.
AddRouteToMenu(r, m, p, rows) ==
  LET free == {i \in Item : ~Exists(i, "item", rows)}
      siblings == {j \in ItemsOf(m, rows) : ParentOf(j, rows) = p}
      i == CHOOSE i \in free : \A j \in free : i <= j
  IN IF free = {} \/ \E j \in ItemsOf(m, rows) : <<"goes", j, r>> \in rows THEN <<>>
     ELSE IF ~ValidateMenuItemParent(i, m, p, rows) THEN <<Return>>
     ELSE <<WriteItem(i, m, p, r, "active", Max0({SortOr0(j, rows) : j \in siblings})),
            Call(<<"copyGroups", r, i>>)>>
CopyGroups(r, i, rows) ==
  LET G == {g \in Group : <<"sees", r, g>> \in rows} IN When(G # {}, ReplaceFormGroups(i, G))

\* menuItemDelete: the children go to the parent the item had when it was read.
MenuItemDelete(i, rows) ==
  When(Exists(i, "item", rows),
       <<Where(<<"reparent", i, ParentOf(i, rows)>>), Delete(Sees(i)), Expunge(i, ItemColumns(i)),
         InvalidateMenus>>)
Reparent(i, p, rows) ==
  LET children == {c \in Item : <<"parent", c, i>> \in rows} IN
  <<Write({<<"parent", c, i>> : c \in children},
          IF p = None THEN {} ELSE {<<"parent", c, p>> : c \in children})>>

Siblings(i, rows) ==
  LET m == CHOOSE n \in Menu : <<"of", i, n>> \in rows IN
  Ordered({j \in ItemsOf(m, rows) : ParentOf(j, rows) = ParentOf(i, rows)}, SortsNow(rows))
MenuItemReorder(i, d, rows) ==
  When(Exists(i, "item", rows),
       Renumber(Siblings(i, rows), i, d, SortsNow(rows), Number) \o <<InvalidateMenus>>)

----------------------------------------------------------------------------
\* Blocks

InvalidateBlocks == Forget(Spaces)
Member(b, rows) == {s \in Space : Placed(b, s) \cap rows # {}}
SortIn(b, s, rows) == CHOOSE n \in Sorts : <<"in", b, s, n>> \in rows

\* blockForm.
BlockForm(b, s, S, G, rows) ==
  IF S = {} THEN <<Return>>
  ELSE <<Write(StatusOf("block", b), {<<"block", b, s>>} \cup SeenBy(b, rows)), Call(<<"replaceSpaces", b, S>>)>>
       \o ReplaceFormGroups(b, G) \o <<InvalidateBlocks>>

\* ReplaceBlockSpaces: a block joins its new spaces, at the end, before it leaves others.
ReplaceBlockSpaces(b, S, rows) ==
  Each(S \ Member(b, rows), LAMBDA s : Call(<<"place", b, s>>))
  \o Each(Member(b, rows) \ S, LAMBDA s : Delete(Placed(b, s)))
Place(b, s, rows) ==
  <<Insert(<<"in", b, s, Max0({n \in Sorts : \E c \in Block : <<"in", c, s, n>> \in rows})>>, Placed(b, s))>>

BlockDelete(b) ==
  <<Delete(UNION {Placed(b, s) : s \in Space}), Delete(Sees(b)), Expunge(b, StatusOf("block", b)),
    InvalidateBlocks>>

SpaceSorts(s, rows) == [b \in {c \in Block : s \in Member(c, rows)} |-> SortIn(b, s, rows)]
InSpace(s, rows) == Ordered(DOMAIN SpaceSorts(s, rows), SpaceSorts(s, rows))
BlockReorder(b, s, d, rows) ==
  IF s \notin Member(b, rows) THEN <<Return>>
  ELSE Renumber(InSpace(s, rows), b, d, SpaceSorts(s, rows),
                LAMBDA c, n : Update(Placed(c, s), <<"in", c, s, n>>))
       \o <<InvalidateBlocks>>

\* EnsureAdminDashboardBlocks, when the dashboard or the list of blocks is shown: a widget
\* whose block is there, with or without a space, is left alone.
EnsureAdminDashboardBlocks(rows) ==
  LET missing == {b \in DOMAIN Widget : ~Exists(b, "block", rows)} IN
  Each(missing, LAMBDA b : Call(<<"seedWidget", b>>)) \o When(missing # {}, <<InvalidateBlocks>>)
SeedWidget(b) ==
  <<Insert(<<"block", b, "active">>, StatusOf("block", b)),
    Insert(<<"in", b, Widget[b], 0>>, Placed(b, Widget[b])), Show(b, {Public})>>

----------------------------------------------------------------------------

\* groupToggleStatus: what is cached of routes, items and blocks keeps the old status.
GroupToggle(g, rows) ==
  Toggle("group", g, StatusOf("group", g), rows) \o <<Overlook(Key)>>

\* Activate, at a reload: every cache is dropped, then the routes are seen to.
Activate == <<Forget(Key)>> \o EnsureDefaultRoute

Plan(op, rows, c) ==
  CASE op[1] = "routeForm" -> RouteForm(op[2], op[3], op[4], op[5], op[6], op[7], rows)
    [] op[1] = "addRouteToMenu" -> AddRouteToMenu(op[2], op[3], op[4], rows)
    [] op[1] = "copyGroups" -> CopyGroups(op[2], op[3], rows)
    [] op[1] = "routeDelete" -> RouteDelete(op[2], rows)
    [] op[1] = "routeToggle" -> Toggle("route", op[2], RouteColumns(op[2]), rows) \o InvalidateRoutes
    [] op[1] = "routeMove" -> RouteMoveSort(op[2], op[3], rows)
    [] op[1] = "routeReorder" -> RouteReorder(op[2], op[3], rows)
    [] op[1] = "routeApply" -> RouteApply(op[2], rows)
    [] op[1] = "ensureDefaultRoute" -> EnsureDefaultRoute
    [] op[1] = "ensureRoute" -> EnsureRoute(op[2], rows)
    [] op[1] = "ensureRouteDefault" -> EnsureRouteDefault(rows)
    [] op[1] = "menuForm" -> MenuForm(op[2], op[3], rows)
    [] op[1] = "saveMenu" -> SaveMenu(op[2], op[3], op[4], op[5], rows)
    [] op[1] = "menuDelete" -> MenuDelete(op[2])
    [] op[1] = "deleteItemsOf" -> DeleteItemsOf(op[2], rows)
    [] op[1] = "menuToggle" -> Toggle("menu", op[2], StatusOf("menu", op[2]), rows) \o <<InvalidateMenus>>
    [] op[1] = "itemForm" -> MenuItemForm(op[2], op[3], op[4], op[5], op[6], op[7], rows)
    [] op[1] = "saveItem" -> SaveItem(op[2], op[3], op[4], op[5], op[6], op[7], op[8], op[9], rows)
    [] op[1] = "itemDelete" -> MenuItemDelete(op[2], rows)
    [] op[1] = "reparent" -> Reparent(op[2], op[3], rows)
    [] op[1] = "itemToggle" -> Toggle("item", op[2], ItemColumns(op[2]), rows) \o <<InvalidateMenus>>
    [] op[1] = "itemMove" -> MenuItemReorder(op[2], op[3], rows)
    [] op[1] = "blockForm" -> BlockForm(op[2], op[3], op[4], op[5], rows)
    [] op[1] = "replaceSpaces" -> ReplaceBlockSpaces(op[2], op[3], rows)
    [] op[1] = "place" -> Place(op[2], op[3], rows)
    [] op[1] = "blockDelete" -> BlockDelete(op[2])
    [] op[1] = "blockToggle" -> Toggle("block", op[2], StatusOf("block", op[2]), rows) \o <<InvalidateBlocks>>
    [] op[1] = "blockMove" -> BlockReorder(op[2], op[3], op[4], rows)
    [] op[1] = "dashboard" -> EnsureAdminDashboardBlocks(rows)
    [] op[1] = "seedWidget" -> SeedWidget(op[2])
    [] op[1] = "groupToggle" -> GroupToggle(op[2], rows)
    [] op[1] = "activate" -> Activate

Asked(k, rows) == TRUE
Server == INSTANCE Requests
Spec == Server!Spec

----------------------------------------------------------------------------
\* Properties

\* What is cached of routes, menus and blocks is what the database says once the changes
\* under way are over, a route that is saved, removed or switched off showing in the menus
\* too.  (Where a view overlaps the change, a handler ends with an error, or the code drops
\* nothing, the cache may be out of date.)
CachesShow == Server!UpToDate

\* Whatever forms, moves and deletions have made of a menu, every item a viewer may see is in
\* the tree that is rendered: none is lost in a cycle or below one that is not shown.
MenuShowsAll ==
  Server!Quiet => \A m \in Menu, G \in SUBSET Group :
    LET I == Viewable(m, G, db) IN Tree(I, db) = I

\* As long as a built-in route (login, the editor of content, ...) is active and open to a
\* viewer, no custom route, made by a form or for an extension, takes its requests; the login
\* stays open when the site is offline.  And nobody is sent round in a circle, where the
\* default route shows a page to whoever is sent there (unless signed in without being
\* validated: the login sends such a visitor home, from where the way leads to the login).
Visitor(G, signedIn) == [groups |-> G, signedIn |-> signedIn, validated |-> TRUE, staff |-> FALSE]
Online(login) == [offline |-> FALSE, login |-> login]
Redirected(P, v, site, rows) == {a[2] : a \in {b \in UNION {Serve(p, v, site, rows) : p \in P} : b[1] = "redirect"}}
Answered ==
  Server!Quiet => \A G \in SUBSET Group :
    /\ \A path \in Path :
         (\E b \in BuiltInRoute : Is(b, "route", db) /\ Viewers(b, db) \cap G # {} /\ Score(b, path) > 0)
           => /\ Match(path, G, db) \subseteq BuiltInRoute
              /\ path = LoginPath(db) =>
                   \A a \in Serve(path, Visitor(G, FALSE), [offline |-> TRUE, login |-> FALSE], db) : a[1] = "page"
    /\ \A signedIn, login \in BOOLEAN :
         LET v == Visitor(G, signedIn)
             Next1(P) == Redirected(P, v, Online(login), db)
         IN Next1({DefaultRoutePath(db)}) = {} => Next1(Next1(Next1(Path))) = {}

\* What is asked of the routes a site has: the built-in ones have a path of their own; the paths of
\* the login bypass offline mode, and neither a route that redirects nor one for members takes them;
\* where a route that redirects leads, no other redirects.
RoutesLead ==
  /\ \A b \in BuiltInRoute : ~(Pattern[b].wild /\ Pattern[b].path = <<>>)
  /\ \A l \in LoginRoute : BypassesOffline(Pattern[l].path, Visitor({}, FALSE))
  /\ \A l \in LoginRoute, r \in Route : r \in MembersOnly \cup DOMAIN Target => Score(r, Pattern[l].path) = 0
  /\ \A r, q \in Route \cap DOMAIN Target : Score(r, Target[q]) = 0

\* The routes a site starts with leave the built-in ones their paths.
StartsUnreserved == \A rows \in Start, r \in Route : Exists(r, "route", rows) => ~ConflictsWithReservedPath(r)

\* An item is of one menu and hangs below one other item, if any, of the same menu; wherever one
\* begins among some items, the way up leads out of them.
MenusSound(rows) ==
  /\ \A i \in Item : Exists(i, "item", rows) => \E m \in Menu : <<"of", i, m>> \in rows
  /\ \A i \in Item, m, n \in Menu : <<"of", i, m>> \in rows /\ <<"of", i, n>> \in rows => m = n
  /\ \A c, p, q \in Item : <<"parent", c, p>> \in rows /\ <<"parent", c, q>> \in rows => p = q
  /\ \A c, p \in Item : <<"parent", c, p>> \in rows => \E m \in Menu : {c, p} \subseteq ItemsOf(m, rows)
  /\ \A C \in SUBSET Item : C # {} => \E j \in C : \A k \in C : <<"parent", j, k>> \notin rows
MenusSoundAtStart == \A rows \in Start : MenusSound(rows)

\* Only one goroutine adds, changes and removes items.
EditsItems(op) ==
  op[1] \in {"itemForm", "itemDelete", "itemToggle", "menuForm", "menuDelete"} \/ (op[1] = "routeForm" /\ op[6] # None)
OneForItems(one) == \A w \in Worker \ {one} : \A op \in Does[w] \ Key : ~EditsItems(op)

=============================================================================
