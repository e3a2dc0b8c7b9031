# TLA+ specifications of Cannon

Cannon is a content management server written in Go: one process serves several
sites, keeps the content of each in a database, runs third-party *extensions* as
child processes, caches what it renders, keeps sessions in files and replaces its
own binary when a release comes out. Its handlers are sequential code, but they share maps, files, rows and child
processes, no lock and hardly a transaction spans a whole operation, and what one of them
leaves behind the next one meets.

The modules here are written from the code. For the processes, the updater, the page
caches and the sessions there is one action per step between two points at which another
goroutine (or a crash) can get in. The rest of Cannon is handlers over a database, files
and a few caches: those are *requests*, lists of statements that run interleaved, any of
which may fail. TLC checks all of them on small instances, and TLAPS proves the most
important results about the processes, the updater, the caches, the sessions, signing in, the
roles, the routes and menus and the content for every number of goroutines, stores, versions, accounts, roles, edits, failures and restarts.

1. [The system](#1-the-system): components, state, operations, hazards
2. [Plan](#2-plan): modules in order, done and to do
3. [Modules](#3-modules): how each one corresponds to the code
4. [Runs](#4-runs): what TLC checks, the bounds and the fairness
5. [Proofs](#5-proofs)
6. [Where code and documentation part](#6-where-code-and-documentation-part)
7. [What is not modelled](#7-what-is-not-modelled)

To repeat the checks:

| configurations | command |
|---|---|
| `ext_*.cfg` | `tlc -config ext_safety.cfg MCExtensionManager` |
| `update_*.cfg` | `tlc -config update_pass.cfg MCAppUpdate` |
| `cache_pass.cfg` | `tlc -config cache_pass.cfg MCSiteCache` |
| `session_pass.cfg` | `tlc -config session_pass.cfg MCSessionStore` |
| `access_safety.cfg` | `tlc -config access_safety.cfg MCAccess` |
| `site_safety.cfg` | `tlc -config site_safety.cfg MCSite` |
| `content_safety.cfg` | `tlc -config content_safety.cfg MCContent` |
| `signin_safety.cfg` | `tlc -config signin_safety.cfg MCSignIn` |
| `office_safety.cfg` | `tlc -config office_safety.cfg MCOffice` |
| proofs | `tlapm M.tla`, for `M` one of `ExtensionManager_proofs`, `Site_proofs`, `AppUpdate_proofs`, `SiteCache_proofs`, `SessionStore_proofs`, `SignIn_proofs`, `Access_proofs`, `Content_proofs` |

## 1. The system

### How the parts interact

A request enters `server` (one `http.Handler` whose current chain is swapped by
`Activate`), passes `middleware.Chain` (site, session, user, CSRF), then the page cache,
and ends in a page handler, an admin handler, the API or an extension. Admin handlers
write the database and call the component whose state the row describes: the extension
manager, the caches, the updater. Components call one another directly; `hooks` are
synchronous callbacks with which a save flushes the caches, tells extensions and
publishes realtime events. Shared state is of four kinds: maps under a mutex in the
process, rows in the database, files on disk, and child processes. None is
updated together with another in one atomic step, and that is where the hazards are.

### Components

| component (sources under `src/internal`) | state | operations | what is hard | what makes it correct |
|---|---|---|---|---|
| **Extension manager** (`extensions`, `admin/crud_extensions.go`) | `runtimes`, `suppressed`, `starts` in memory; the extensions table; binaries; child processes | Bootstrap, ensureActiveRuntime, Start, Stop, Restart, Install, Update, SaveBinary, delete, toggle | a mutex per map access and a lock per start, nothing per operation; failing starts are cleaned up after the lock is gone; processes crash by themselves | no process forgotten or owned twice, one per extension, `/install` before service, a stop sticks, every call returns |
| **Application update** (`appupdate`, `updater`, `admin/crud_system_update.go`) | five files beside the binary; a JSON state file; the running process | Check, Apply, Rollback, DiscardStaged, ApplyPendingAtStartup, ScheduleRestart | a swap is several renames; any may fail, and the process may die between two | a working binary is never lost, a rollback runs what it restored, the service comes back |
| **Site caches** (`cache`, `settings`, `lrucache`, `server/page_cache.go`, `admin` save handlers) | page, object, block, menu, route, group and settings caches; the memory toggle | page view, saves, restore, comment moderation, reload | read-then-fill without a lock; six caches that feed one another, dropped one after the other | a finished change shows everywhere; pages expire |
| **Sessions and users** (`session`, `user`, `middleware`) | session files; an LRU per Store; a Store per chain and site | Load, Save, Delete, Login, Logout, SetSessionValue, EnsureCSRFToken, reload | each request writes back its own copy; two Stores may serve one file; skipped rewrites | what was saved is loaded, for as long as promised; a logout ends the session |
| **Roles and permissions** (`security`, `roles`, `groups`, `admin/crud_roles.go`, `crud_groups.go`, `crud_users.go`) | rows of users, roles, groups and their links; a cache of permissions and one of groups | forms, deletions, status toggles, role reconciliation at a start, resolution | links are saved one by one; two caches without expiry; recursion over an inheritance graph | no cycle, the resolution is reachability without denials, caches agree with the rows, the administrator stays whole |
| **Blocks, menus and routes** (`router`, `blocks`, `admin/crud_routes.go`, `crud_menus.go`, `crud_menu_items.go`, `crud_blocks.go`) | rows; caches of routes, menus and blocks | forms, deletions, toggles, moves, assignment to routes; matching a path | menus hold copies of routes; orders are numbers edited one by one | caches agree, no item of a menu is lost, built-in routes win |
| **Content and revisions** (`content`, `admin/crud_items.go` and its neighbours, `controllers/content`, `api/content.go`) | items, values, tags, groups, comments, revisions, categories, the search index | save, delete, restore, empty the trash, roll back, clone, reorder, bulk actions; lists, pages, feeds | up to ten statements per save without a transaction; pruning against rolling back; the same visibility decided in SQL and in Go | nothing is overwritten without a revision, a rollback restores, no leftovers, the index finds, links open |
| **Signing in** (`auth`, `controllers/auth`, `user`, `api`) | users, providers, codes, passkeys, pending tokens, refresh tokens, browser sessions | sign in, second factor, sign up, verify, reset, profile, rotation of keys | two-request flows over a session that other requests save too; tokens read, deleted and honoured in three steps | no way round the second factor, a token is spent before it is honoured, an identity keeps its account |
| **Media library** (`media`, `admin/crud_media.go`, `media_folders.go`) | rows that stand for files; derived pictures; folders | upload, copy, replace, delete, folders, styles | file and row are changed apart; a goroutine outlives its request | no file of an asset is written over, thumbnails belong to their pictures |
| **Notifications and mail** (`notifications`, `mail`, `extensions/notifications.go`) | subscriptions of roles and users, destinations, delivery states | forms, ticks in a profile, dispatch, synchronisation with extensions | who is told is computed from the role's side, what is ticked from the user's | both agree |
| **Languages and help** (`lang`, `help`, `extensions/help.go`) | files of strings; managers in the middleware | editing, merging, looking up | file truncated, then written; process-wide maps to be dropped | pages show the files; an edit changes nothing else; links lead somewhere |
| **Templates, themes, engine** (`templatemgr`, `templatemeta`, `themes`, `templateengine`) | folders of files, versions, descriptions; parsed templates | edit, override, revert, create, import, migrate, choose | which built-in file is overridden is decided twice; migrations stop half way | editor and engine agree, no template is lost, caches show the files |
| **Settings** (`settings`, `admin/crud_configuration.go`, `content/settings.go`) | a JSON document per section | forms rendered from a schema, saved whole; values in effect with defaults | a value saved by another version is shown, submitted and stored in another shape | saving a form unchanged changes nothing that was saved |
| **Sites, configuration, installer** (`sites`, `config`, `database`, `install`, `server`, `admin/crud_sites.go`, `cmd/cannon`) | `sites.json`, its copy in memory, pools, routing by host | create, edit, delete a site, install, reload, activate, restart | file and memory are changed before the database is tried; a manager refuses all sites for one | every site answers under its names after any sequence of changes and restarts |
| Realtime hub (`realtime`) | presence of visitors | connect, disconnect, publish | timers | display only, not modelled |
| Middleware, captcha, access log | stores and managers kept by the chain | one request each | only what is shared | modelled where shared (sessions, strings) |
| Hooks | a list of listeners | fire | order only | part of the handlers that fire them |
| Extension SDK (`src/extension`) | none in Cannon | wire format | none | a library for other programs |

The hazards are in `PROJECT.json`, each at its line, with the properties that would
catch it or a note on why none does yet.

## 2. Plan

The order follows what costs most when it goes wrong: child processes that nobody owns,
a server that does not come up again, outdated pages, lost sessions; then permissions.

| step | module | status |
|---|---|---|
| 1 | `ProcessSupervisor`: what the manager promises, without locks, rows and goroutines | done |
| 2 | `ExtensionManager`, shown to implement it; safety and liveness | done |
| 3 | `ExtensionManager_proofs`, with the refinement of `ProcessSupervisor` | done |
| 4 | `AppUpdate`: files, renames, failures, crashes, restarts | done |
| 5 | `SiteCache`: the caches of a site between views and changes | done |
| 6 | `SessionStore`: one session, its file, its stores, reloads | done |
| 7 | `Requests`, `Steps`: handlers as lists of statements over rows, with caches, failures and overlaps; used by all that follow | done |
| 8 | `Access`: users, roles, groups and what is cached of them | done |
| 9 | `Site`: routes, menus, blocks | done |
| 10 | `Content`, and `Reading` over it: what is stored and what visitors are shown | done |
| 11 | `SignIn`: accounts, sessions, second factors, tokens | done |
| 12 | `Media`, `Notices`, `Languages`, `Templates`, `Settings`, `Sites`, composed in `Office` | done |
| 13 | `AppUpdate_proofs`, `SiteCache_proofs`, `SessionStore_proofs` | done |
| 14 | `SignIn_proofs`, the first proofs about a module over `Requests` | done |
| 15 | `Access_proofs`: inheritance and the administrator, the first proofs about loops over sets | done |
| 16 | `Access_proofs`, second part: what is cached of users, roles and groups | done |
| 17 | `Site_proofs`: what is cached of routes, menus and blocks, who answers a request, what a menu shows | done |
| 18 | `Content_proofs`: what belongs to an item goes with it | done |
| 19 | `Content_proofs`, second part: what visitors are shown (`Reading`) | done |
| 20 | proofs about `Office` and its parts | to do |
| 21 | the media a page shows (`admin/item_media.go`), profiles of authors, what happens to the children of a chain that a reload has dropped | to do |

## 3. Modules

All concurrent modules share four conventions. A goroutine is a record with a program
counter (`pc`, or in `SiteCache` the list `todo` of the steps left) and its local
variables. `Begin` is a request arriving; a goroutine that is done is idle again. What is done under a mutex without a
blocking call in between is one action; a database access, a rename, a system call or a
wait is a step. `Does` says which operations a goroutine performs, so that each run picks
its actors. Each module also defines *mutants*, forms of an action with a
plausible bug, placed just before the action; they are no part of the specification, and
`PROJECT.json` says which property each of them breaks.

### ProcessSupervisor

The promise: a child process is `unborn`, `starting`, `serving`, `stopping` or `reaped`, in
that order (a failed start skips service). `Fork` needs an extension with no process
starting or serving. `FairSupervisorSpec` adds that nothing stays on its way up or down.

### ExtensionManager

| variable | code |
|---|---|
| `row` | the `extensions` table: status and installed flag |
| `binary` | executables in the extensions directory |
| `runtimes`, `suppressed` | the maps of `Manager`, under `m.mu` |
| `startLock` | `m.starts[name]`, and who is inside `start()` |
| `proc` | the children: `exited` is a process that ended but was not waited for, for which `cmd.ProcessState` is still nil |
| `setup` | history: how often `/install` has been performed |
| `thread` | goroutines: `seen` is the copy of the row, `hold` a process taken out of the map or not yet put in |

| actions | code |
|---|---|
| `Begin`, `Load`, `Save`, `Drop` | the admin handlers and `ensureActiveRuntime` up to the row; `Save` writes the whole stale row back, as `db.Save` does |
| `Stop`, `Kill` | `Stop`: map under `m.mu`; Kill and Wait after it |
| `Quiesce`, `Swap`, `Reload` | `Update`: stop if running, rename and columns, read the row again and start |
| `Check`, `Lookup` | `ensureActiveRuntime`'s `IsRunning` and the lookup of the runtime |
| `Unsuppress`, `Acquire`, `Inspect`, `Spawn`, `Await`, `Setup`, `Mark`, `Publish`, `Abort` | `Start` and `start()`: lock, second look at the map, fork, wait for the socket, metadata, `/install`, flag, publication, and `fail()` |
| `Cleanup`, `Discard`, `Suppress` | `disableFailedExtension`, which runs without the start lock |
| `Query`, `Call`, `Record` | `Install` on an extension that may run already |
| `Place`, `Sync`, `Scan`, `Deactivate`, `Select`, `Gate` | `SaveBinary`, `syncDirectory`, `deactivateMissingBinaries`, `Bootstrap` |
| `Exit`, `RemoveBinary` | the environment |

`Answers(e)` says that a call over an extension's socket is answered by any live process
of the extension: the transport is pooled by path, and idle connections outlive a
runtime's place in the map.

### AppUpdate

`file` maps the five names (`live`, `previous`, `latest`, `mistaken` for the name older builds used, `tmp`)
to the version in each; `state` is the JSON file, `Torn` between truncation and write;
`server` is the process (down, one of the startup steps, up); `worker` are the admin
requests and the checker, and end with the process. `promise` is history: the version
a rollback has announced; `clean` whether that rollback met no apply and no other rollback, and whether its removals of
what was staged succeeded (`Removed`: `os.Remove`, whose error the code drops). Actions are single renames, removals and accesses to the state
file: `Fetch` to `Stage` are `Check` and `Apply`; `Find` to `Note` are
`Rollback`; `Discard` is `DiscardStaged`; `Repair` to `Serve` are
`ApplyPendingAtStartup` and the re-exec; `Boot`, `Exit`, `Crash` are systemd,
`exitAfterRestart`, and SIGTERM, a kill or a power cut. `Fault` lets a file operation
fail for outside reasons, at most `MaxFaults` times.

### SiteCache

One item, one comment thread, one block, the general settings, and what can be cached of
them: `settings`, `blocks`, `object`, `page`, and `toggle` (whether the memory cache is on,
itself cached). A page view is the list of steps of `withPageCache` and the page handler;
a change is the list of its handler's steps (`Plan`). `Fail` is a handler that returns
between its write and its flush. `Evict` is the LRU, `Tick` the age of the page. Each edit
writes a new version number, so that "outdated" is "a number other than the database's".
Route, menu and group caches have the block cache's code shape and are covered by it.

### SessionStore

`file` is one session's file, `cache` its entry in the LRU of each Store, `lock` the mutex
of each Store, `storeOf` the map of Stores of each middleware chain and `chain` the current
one. A request finds or makes its Store (two locks, so two first requests may each make
one), loads, receives a token if it has none, acts, and saves its whole copy. A write is two
steps (truncate, write) under the Store's mutex; what another Store does to the file in between (removes it, makes it again,
writes it) decides what the second step leaves. Time is what is left until expiry.
`known`, `until` and `left` are history: what Save has promised, for how long, and
whether a logout has ended the session.

### Steps and Requests

`Requests` is what the modules below are instances of. `db` is a set of rows: those of
the tables, and files and values in memory where a module says so. `worker[w]` is the
request a goroutine serves, as an operation and the steps (`Steps`) it still has to take:

| step | code |
|---|---|
| `statement` (`Save`, `Update`, `Insert`, `Delete`, `Link`, `Write`) | one SQL statement, file operation or assignment under a mutex: rows that go, rows that come; `clash` and `needs` are its unique indexes and foreign keys |
| `where` | the same, its rows chosen when the database executes it |
| `call` | the handler reads the database and goes on as `Plan(op, db, cached)` says |
| `return`, `catch` | an early return with an error, and what handles it |
| `resolve`, `read`, `fill` | a look into a cache; on a miss, the query, and later the store |
| `forget`, `overlook` | an invalidation; a place where the code does without one |

A loop over a set is `Each`, one step per member in an order nothing depends on, or `ForEach` where a round has
several steps, which only TLC can evaluate (it concatenates by a recursion). A list that is moved by one place and
numbered anew is `Ordered` by its sorts, and `Renumber` writes the numbers that are wrong (`Misnumbered`).

`Begin` and `View` are requests for a change and for something cached, `Expand` takes a
`call`, `Execute` and `Fail` execute a statement or let it fail (because an index says
so, or at most `MaxFaults` times for any reason), `Evict` is the LRU. A module gives
`Plan` (one operator per handler), `Derive` (what belongs under a cache key)
and `Asked` (requests there is reason to make). `doubtful` is history: keys of which a view
had read something and not stored it when a statement changed the rows, or stored it while a change was
under way, and keys that a handler left behind when it ended with an error; `UpToDate` says that all
other keys are current when no change is under way.

### Access

Users, roles, groups, permissions and their links; `cached` holds the resolved
permissions (`security/cache.go`) and the groups (`cache/groups.go`) of each user.
`RoleForm`, `GroupForm`, `UserForm` and the rest save the row and then the links one by one, as
gorm's associations do. A user or a group is read with its groups and roles (`Preload`), and its Save writes these too
(`SaveLinked`): links that have gone are inserted again, and so is what they lead to. Who a user is, what he is a member of and
whether he may sign in are three permissions (`May`), beside the one for all of it; `SeedDefaults`, `Migrate` and `Wildcard` are what a start does to the
built-in roles. `Request` is what may be asked for, and `Does` gives every goroutine some of it.
`AllowedBy` is the recursion of `security/resolver.go`; `Reaches`, which
the property compares it with, is reachability. `Above`, the queue of `wouldCycle`, is what the queue
ends up with: the smallest set that has a role and the parents of all it has.

### Site

Routes with patterns and scores, menu items with parents and sorts, blocks in spaces, the
groups of each, and the three caches. The forms, the deletions (children move up,
dashboard blocks come back), the moves (`Renumber` writes only the sorts that change), the
toggles and the assignment of a route to menus are operations; `Request` is what may be asked for,
and `Does` gives every goroutine some of it. A path is a sequence of `Segment`s. `Serve` is what a visitor is answered:
the offline page, nothing, a redirect (of a route, or to the login or home, by `Dispatch`) or a page; `Match` is the dispatcher's
choice, `Tree` the tree that is rendered. The walks up and down a menu (`ValidateMenuItemParent`, `filterPublicMenuItems`,
`buildMenuTree`) are what they end up with: the smallest set that has the parents, or the children, of all it has
(`Ancestors`, `Tree`).

A form loads a row with what it refers to, and gorm's `Save` writes more than the row: it inserts the links (`SeenBy`) and
the rows (`Again`) that it had loaded and that are gone by now, and sets the foreign keys to the rows that it
had loaded. In `SaveMenu` and `SaveItem` the database finds which these are; the forms drop the menus, and nothing that is cached of
routes (`Overlook`).

### Content and Reading

Items with values, tags, groups, comments, revisions and an entry in the search index.
`ItemForm` is the whole of a save: revision and pruning, row, tags, groups, values, index;
`rollback` brings a revision back the same way. Deleting, restoring, emptying the trash, bulk
actions, clones, reordering, the handlers for categories, fields and tags, and the edit form of
the site are operations. `Reading` has the queries: what a list, a page, a feed, a block, the
site map or the API shows to a viewer of given groups (`ListItems`, `ItemPage`,
`CategoryPage`, ...), which no step changes: its properties compare them with one another
in every reachable database. The lists are ordered by columns that need not tell items apart (`SortKey`); the
order of those that are equal is the database's and may be another one for the next page (`Whim`, a constant), so that such items
may trade places between two pages and be on both or on neither. `PagesPartition` and `LinksOpen` say what holds all the same.

### SignIn

Accounts, providers' identities, secrets of authenticator apps, passkeys, pending
tokens, refresh tokens and the session of each browser. A request loads the session when it
begins and saves all of it, so that two requests of a browser overwrite each other's changes.
Of the given and family names a row says whether both are there (`named`): a callback that finds some missing saves the whole row as it
was found. A step that both changes the database and looks at it (deleting a token, creating the user
of an identity) is one statement; what it decides is the next one. Where the code takes gorm's
`First`, so does the model (`TheFirst` in `Steps`). A pending token that is deleted leaves the row
`spent` behind, which no handler reads: it is history, and `Taken` uses it to say that a random
name is not drawn twice.

### Media, Notices, Languages, Templates, Settings, Sites; Office

Six parts of the administration which share requests and rows. Files are rows:
`disk` files of the media library, `ini` files of strings, `file`s of themes, `sites.json`.
`Office` composes them: `Handle` is the switch of `admin/handler.go`, `RequireAccess` its check of
the section, `Key` the managers of strings and the parsed templates that are cached.

- *Media*: an upload looks for its name and appends the second (`UniqueName`) if it is taken, writes the file, makes the row, then the
  styles; copies, replacements and deletions likewise. Another request may get in between the look and the writing.
  A file that cannot be removed stays, and the handler goes on (`RemoveFile`). `Background` is the goroutine that a
  JSON replacement leaves behind.
- *Notices*: `DispatchEvent` tells the destinations (layer 1), `DispatchLayer2` the users (layer 2);
  `LoadUserProfileState` is what a profile shows ticked.
- *Languages*: `Reload` merges the files of a locale, `LanguageFile` is the editor, which truncates and writes
  a file; `HelpLinks` and `OpenHelp` are the pages of the help and what their links lead to.
- *Templates*: `ReadTemplate` and `ParseAdmin` are the engine's choice of a file, `ReadForEdit` the
  editor's; saving keeps versions, overriding copies a built-in file, migrating moves folders.
- *Settings*: `InEffect` is the value a setting has, `RenderForm` what a browser would submit
  if nothing were changed, `FormDataFromRequest` what is stored of a submission.
- *Sites*: `Connect` to `Seed` make a database ready, `NewManager` reads the sites (and refuses all
  for one that conflicts), `Activate` is what a start, a reload, a form and the installer end with,
  `HandleSiteSetup` and `HandleAdminSetup` are the installer's pages. What the process keeps
  (configuration, routes, pools) goes with it in `Restart`, which may come between any two
  requests.

## 4. Runs

| run | instance | checks | shows |
|---|---|---|---|
| `ext_safety` | 1 extension, 2 goroutines that may do every operation, 2 processes | `TypeOK`, `NothingLeaks`, `ExclusiveOwner`, `OneServing`, `SetupBeforeService`, `NeverReplaced`, `StopSticks`, `Supervises` | ownership of processes, what stops and installs guarantee, and the safety part of the refinement |
| `ext_liveness` | an admin who restarts, installs, updates; requests and Bootstrap | `EveryCallReturns`, `SupervisesFairly` | no call hangs on a start lock, no process stays on its way up or down: the manager implements the fair `ProcessSupervisor` |
| `ext_crash` (violation) | requests only | `RequestsRestartCrashed` | see section 6 |
| `update_pass` | 2 versions; an admin with every operation, another one who applies and checks; 1 fault, 2 crashes | `RunningKept`, `RollbackRuns`, `ComesBack` | no binary in use is lost; an undisturbed rollback runs what it has restored; the service comes back unless it was cut off between two renames |
| `update_leftover` (violation) | one admin, the checker; 1 fault, 2 crashes | `RollbackAnnounced` | see section 6 |
| `cache_pass` | a visitor, an admin with every change but one, another who restores revisions; 2 changes; pages live 2 ticks | `ChangesShow`, `PagesTurnOver` | a change that no view overlaps leaves nothing outdated in any cache; an outdated page goes away however often it is hit |
| `session_pass` | 2 requests of any kind, 3 Stores, 1 reload, restart or failed write | `ReadBack`, `LogoutSticks` | memory, file, expiry and skipped writes agree with what Save promised |
| `access_safety` | 2 users, 4 roles, 4 groups; a new site and a running one; 2 changes, 1 failure | `PermissionsShow`, `InheritanceAcyclic`, `ResolutionIsReachability`, `AdministratorWhole` | nobody keeps a permission in a cache, roles do not inherit from themselves, the resolution is right on every graph reached, the administrator keeps everything |
| `site_safety` | 5 routes, 4 menu items, 2 blocks; 2 changes, 1 failure | `CachesShow`, `MenuShowsAll`, `Answered` | the three caches, the trees and the dispatch agree with the rows after any two changes; built-in routes win, the login stays open when the site is offline, and no redirects make a circle |
| `content_safety` | 5 items, 4 categories, 2 fields, 2 revisions kept; 2 changes, 1 failure | `NoLeftovers`, `EditsKept`, `RollbackRestores`, `SearchFinds`, `LinksOpen`, `PagesPartition` | nothing is overwritten without a revision or left behind; every link leads to something the viewer may open, and lists are complete |
| `signin_safety` | 3 users, every flow under way in some browser; 2 requests at a time, 1 failure | `SecondFactor`, `SpentFirst`, `OneAccount` | no mixture of flows gets round a code, a token is spent before it is honoured, an identity leads to its own account |
| `office_safety` | a library, notifications, strings, themes, settings, two sites or none, each in a start of its own; 3 changes, 1 failure, a second administrator who uploads too, a user, late goroutines | `FilesKept`, `ThumbShows`, `NoticesReach`, `EditorsShow`, `PagesShow`, `LinksLead`, `SitesReached` | what an administrator has made is neither lost nor shown wrong, and the sites answer |

### Bounds, and why they are enough

- `Ext`: one. Nothing in the manager relates two extensions but the maps' mutex, which
  is held for one map operation; the proofs cover any number.
- `Pid`: two children over a behaviour. Every ownership question is about a process and
  the one that replaces it. When none is left `Spawn` fails as a fork may. The proofs
  cover any number.
- `Thread`, `Worker`: two goroutines (three in `SiteCache`), each of which performs one
  operation after another without end; a race here is between two operations, and the
  bystander's earlier operations reach every starting state. Caches need a view and two
  changes, since a fill, a flush and a second write are three actors.
- `Version`: two versions are an update and its rollback. `MaxFaults` 1 and `MaxCrashes` 2: one failed operation and what the code does
  about it, one crash in the swap and one in the start after it. (With two failed
  operations `RunningKept` does not hold, see section 6; the proofs cover any number of crashes.)
- `MaxEdits` 2, `PageTTL` 2: outdated means another number; expiry needs two
  ages that are fresh, so that a hit could set it back, and one that is not.
- `MaxAge`: 1 is one tick with "more than half left" and one without; `MaxUpsets` 1
  gives two chains, hence at most two stores with two requests under way plus a current
  one: `Store` 3.

- Requests: `MaxChanges` 2 is one change and the one that overlaps or follows it, from a start
  in which the interesting data already exists (a published item with two revisions,
  a menu with equal sorts, every sign-in half done); 3 in `office_safety`, where a name must be
  taken, freed and taken again, and a site saved, reloaded and changed. `MaxFaults` 1 is a
  statement that fails and what the handler does then. The operations in `Does` (the `MC`
  modules) are those that touch the same rows; which one comes second, and where it gets in,
  is left to TLC. `office_safety` has a start per part so that unrelated parts do not multiply
  states; they share no rows.
- `MaxRevisions` 2, `PageSizes` 1 and 2, `MaxLeading` 3, `MaxSort` 4: the code's constants (50 revisions,
  page sizes from a list) cut down so that pruning and page ends are reached.
- `Created`: two of the five items were made at the same moment, and the first order that the lists have is by `sort`, in which
  they may be equal too. `Whim`: the order of equals turns round from each page to the next.
- `Second` 2 and `Asset` 5: uploads in one second and in two, and an id per upload. The uploads of the second administrator
  are too small for copies.

Symmetry sets are used in `ext_safety` and `session_pass` only, where no liveness is checked and
all members of the set do the same things.

`CHECK_DEADLOCK FALSE` is in the update configuration: a process that ends
between two renames of the live binary leaves nothing that systemd could start, and the
model really stops there. It is also in the configurations over `Requests`, where nothing
happens once the bounded number of changes has been made. `ComesBack` says exactly that, and `RunningKept` that an operator
still has the binary.

### Fairness

- `ExtensionManager`: weak fairness of each goroutine's steps (the Go scheduler runs
  what can run; kill, wait, and every call over the socket have deadlines or end with
  the process), and strong fairness of `Acquire`, because a `sync.Mutex` that has
  kept a waiter for a millisecond is handed to it. No request has to arrive; no process
  has to exit, and none has to answer.
- `AppUpdate`: goroutines run, systemd restarts the service (`Restart=always`) and the
  timer of `exitAfterRestart` fires.
- `SiteCache`: time passes; no goroutine has to go on.
- The modules over `Requests` state safety only, and no fairness: every step of theirs ends, and
  what their liveness would say is that a handler returns.

## 5. Proofs

What holds of the runs' small instances is proved here for every value of the constants: any
number of goroutines, whatever each of them is asked for, and any bound on edits, failures,
crashes and time. Each proof module extends the module it is about, and has the same
layout: an invariant `IInv` of named parts, one lemma per action, the theorems at the end.

### ExtensionManager

`ExtensionManager_proofs` proves, for all `Ext`, `Thread`, `Pid`, `None` and `Does` that
satisfy the module's two assumptions (`None` is no process and no goroutine; `Does`
maps goroutines to operations):

| theorem | statement |
|---|---|
| `Inductive` | `Spec => []IInv` |
| `TypeCorrect` | `Spec => []TypeOK` |
| `Ownership` | `Spec => []NothingLeaks` |
| `SoleOwner` | `Spec => []ExclusiveOwner` |
| `SingleService` | `Spec => []OneServing` |
| `Replacement` | `Spec => NeverReplaced` |
| `StopsStick` | `Spec => StopSticks` |
| `SetupFirst` | `Spec => []SetupBeforeService` |

and its last part proves `Refinement`: `Spec => Supervises`.

The ownership invariants are not inductive by themselves: they do not say when a goroutine
may own a process, nor why two starters cannot meet. `IInv` adds

- `Engaged`: a goroutine that is not idle works on an extension;
- `LockHeld`: whoever is inside `start()` holds that extension's start lock;
- `HoldMatches`: a goroutine owns a process exactly at the program counters
  that end in a publication, a Kill or a Wait;
- `NoRuntimeYet`: after the second look at the map there is no published runtime until
  the starter publishes its own, because everybody else who publishes needs the lock;
- `OwnExtension`: a process runs the extension of its owner.

The argument goes by what a step does with ownership: most actions touch no process,
map or lock (`BystanderPreserves`); `Stop` and `Cleanup` take a process out of the map
(`TakeStep`); `Kill`, `Discard` and `Abort` wait for it (`ReapStep`); `Spawn` makes one and
`Publish` hands it over. `SetupFirst` needs a second invariant, `SetupInv`: besides the map and the
column, whatever copy of the row a goroutine carries claims `/install` only if it
happened, so that a stale `db.Save` cannot claim more. The refinement goes by
`PhaseTable`, which under `IInv` reads the phase of a process off its owner, and then
shows for every action the one supervisor step it takes, or that it takes none.

### AppUpdate

Versions are any set of positive numbers; assumed are the bounds and that `Does` names operations.

| theorem | statement |
|---|---|
| `TypeCorrect` | `Spec => []TypeOK` |
| `BinaryKept` | `Sole({"rollback"}) => (Spec => [](faults <= 1 => RunningKept))` |
| `RollbackKept` | `Spec => RollbackRuns` |

`Sole(ops)`: at most one goroutine performs one of `ops`. Nothing in the code sees to that, and
section 6 says what two rollbacks do; it is the condition under which the run has `RunningKept`
too. `RollbackKept` needs no such condition: `RollbackRuns` itself is about rollbacks that were `clean`, and section 6
says what becomes of the others. Typing already needs to know where a start can be:
`Staged` says which file each step of `ApplyPendingAtStartup` may count on, since
`promote` renames a file that only the check before `clear` has seen. `RunningKept` is
not inductive because it does not say *where* the binary is: `SwapKeeps` gives, for each label
of a rollback's swap, the names under which it may be, and `PhaseKeeps` those for each phase
of the process; between swaps it is live or previous, or aside with nothing to
swap with it. `OwnSteps` says that labels belong to operations, so that a second goroutine at one of
these labels would be a second rollback. `RollbackRuns` is about a step of the process; its
invariant `PromiseInv` says that a clean rollback is alone (`CleanInv`), that from its removals on nothing is staged (`SwapClears`), and
that an announced version is in the live file with nothing
staged over it until the process that runs it is up (`PromiseHolds`). With two failed file operations the
first statement is false, which the proof attempt showed (section 6).

### SiteCache

| theorem | statement |
|---|---|
| `TypeCorrect` | `Spec => []TypeOK` |
| `ChangesShown` | `Spec => []ChangesShow` |

Moderation drops no page (section 6), so a goroutine that moderates can leave a page with old
comments: `SeesTo` leaves comments out of what such a change has to show. `IInv` has two parts beside the types. `Shows`: a source
whose last change is complete is current in every cache it reaches (an object and a page for an item, a
page for comments, ...). `Goroutines`: what a goroutine still has to do is a suffix of what its
operation began with; while its change is *calm* (no view and no change of the same rows
overlaps it), the caches already dropped are those whose step is no longer in the list
(`Achieved`), and a view that overlaps no change holds only copies of what the database
has (`ReadsCurrent`). Steps are labels in a sequence, so the first part of the module is a
theory of sequences without repetitions: what the head, the tail and a concatenation have
left (`Left`, `Ordered`). The argument is then one lemma per kind of step.

### SessionStore

| theorem | statement |
|---|---|
| `TypeCorrect` | `Spec => []TypeOK` |
| `SavesLast` | `Spec => []ReadBack` |
| `LogoutsLast` | `Spec => []LogoutSticks` |

Assumed is that `None` (no entry, no file, no goroutine) and `Torn` (a file that does not parse)
are no entries. `ReadBack` and `LogoutSticks` are about what the *current* store and the file
show; other stores, and copies that requests carry, can bring the past back. So `IInv` says
of them: `Stations`, where a goroutine in the middle of a call has the mutex of its store (the file
is read and put into memory, or written and put into memory, under it); `Chains`, no chain to come
has a store; `FileIsKnown`, where the history knows what the session holds, the file
holds it for as long as promised, and the memory of the current store is empty or equal to the file;
`NobodyIn`, after a logout that was alone, nobody is logged in by the file, by the memory of
any store that some request still can reach (`Live`), or by the copy a request carries, unless
that request is a login.

### SignIn

| theorem | statement |
|---|---|
| `PromisesHold` | `Spec => []Inv` |
| `SpentBefore` | `Spec => SpentFirst` |
| `SecondFactorNeeded` | `Lasting => (Spec => SecondFactor)` |

Assumed is that goroutines are asked for requests there are (`Request`) and that no behaviour begins
with history. `Lasting`: no goroutine is asked to confirm an app or to change whether second factors are
on, and they are on at the start. `HasApp` compares the app of now with that of the start, and
without `Lasting` somebody could be without one for a moment in between, while another request finds out
that he needs none; the run `signin_safety`, whose requests do confirm apps and switch
second factors off, has too few of them for that. All 33 requests are covered, with any arguments.

A request is a list of steps that grows as it reads, so the invariant is a grammar of what may be on
that list. `WhereOk` and `CallOk` say which statements and which parts of handlers a request may
have before it, given the rows: a statement that gives a session or an access token to `u` is there only
if it is `Lawful`, that is, if `u` has had no app all the time or the request has brought its code or a
passkey. One lemma per handler shows that what `Plan` answers is a list of such steps (`PartOk` for the
parts, `RequestOk` for the requests). Other requests change the rows meanwhile: `Moves` is all
that a statement can do to tokens, codes and settings, `WhereMoves` that each kind of statement does no
more, and `ListStays` that what was lawful before a `Moves` is so after it. `Promise` adds that a
request that shows a token has not looked at anything yet, or is about to end, or spends the token
next, or nobody can use it any more (`Gone`); that an error cannot lead round this is because no catch of
such a request has steps (`Errors`).

### Access

| theorem | statement |
|---|---|
| `NoCircle` | `(\E one \in Worker : OneForRoles(one)) /\ AcyclicAtStart => (Spec => []InheritanceAcyclic)` |
| `AdministratorKept` | `(\E one \in Worker : OneForRoles(one)) /\ Established => (Spec => []AdministratorWhole)` |

The hypotheses:

- `OneForRoles(one)`: role forms and restarts come one after the other, in one goroutine. Nothing in
  the code sees to that, and two role forms at once do close a circle (section 6), so `NoCircle` has no
  chance without it. Everything else (roles deleted and toggled, groups, users, logins, installers)
  may overlap it and itself in any number of goroutines.
- `AcyclicAtStart`: no role inherits from itself in the databases a behaviour begins with.
- `Established`: these have the administrator active and allowed everything by a grant of its own, as
  `SeedDefaults` leaves it. What the first start of an empty site does is left to the run.

The run's own instance satisfies the first two, its running site the third. Assumed of the constants is what the
code's tables say: finite sets, the administrator among the built-in roles with `*` in its list, an
installer's role that is not built in.

As for `SignIn`, the invariant is a grammar of what a request may still have to do: `StepOk` says which
steps, and one lemma per handler (collected in `PlanOk`) that `Plan` answers with such steps. Loops are the new part. `SetToSeqIs`
says what the order of a finite set is, and `EachOk` that a loop is as it may be if each of its steps is, without a recursion. Two kinds of
list are not made of harmless steps one by one, and have to be followed as lists:

- `LinkList`: what `SaveRoleInheritance` has left to insert for `c`. It was checked against
  the links of then; every parent `p` still to come has `c` not above it *now*, and stays so: a new link from `c` can bring `c` above
  `p` only by a way from `p` to `c`, of which there was none (`AboveOther`), and what other goroutines do takes links away or is
  about other rows (`AboveFewer`). A link inserted under that condition closes no circle (`AcyclicMore`).
  `Above` is the smallest closed set, so each of these facts comes from naming a closed set.
- `WipeList` and `Mending`: what `SaveRolePermissions` has left for the administrator. All grants go
  first, then the allowed ones are inserted again with `*` among them, before any
  denial. From the deletion until that insertion the invariant says that `*` is on the list and its insertion clashes with
  nothing (`Mending`); at all other times, unless a statement has failed, the grant is there (`Kept`). A denial of `*` can
  come neither from the form, whose list of permissions the grant itself keeps `*` on, nor from a
  restart (`Sound`).

What is cached is the second part of `Access_proofs`, with one theorem:

| theorem | statement |
|---|---|
| `PermissionsShown` | `ConsistentAtStart => (Spec => []PermissionsShow)` |

`ConsistentAtStart`: in the databases a behaviour begins with, nobody is a member of a group, holds a role or is given
one through a group that is not there, as their foreign keys see to (both databases of the run are like that). It is needed because
gorm's associations, and the Save of a row that was read with them, make a group or a role anew that has gone since the form read it, and the form of a user then
drops the permissions of that user only: others still linked to it would get it back and not be told. Nothing is assumed about who does what: all requests may overlap each other in any number of goroutines.

- *Which rows concern which keys.* `Concerns(row, k)`: rows of a user concern his two keys, those of roles and
  their permissions all permissions, those of groups everything. `DeriveSame` says that what is derived for
  `k` is the same as long as no row that concerns `k` has changed; `AllowedBy` is not unfolded for that, being applied
  to the same tables (`RoleTables`).
- *What a step may change.* A statement `Fit(K, s)` changes what concerns keys in `K` only
  and leaves the links `Consistent`. The insertion of an association (`where`, decided when the database
  executes it) may make a group or a role anew: nobody else is linked to that (`TieSpares`). The Save of a user or a group that was
  read with its links is such insertions one after the other, after that of its own row (`SaveLinkedIs`, `SaveLinkedDoes`).
- *What a list sees to.* A list is `Covered` if each of its steps changes only keys that a step after it
  forgets, or overlooks where the code does so. There is one lemma per handler. `Expand` puts such a list in the place of
  a `call`, which was to see to the same keys.
- *A start* drops all permissions first and nothing after its seeds, so its list (`BootList`) is not `Covered`. It
  is right because nothing is cached until it is over: `Emptied`, which no view that ends meanwhile
  disturbs, what it stores being doubtful then.

`CacheInv` puts that together: each request has such a list or a view of one step (`Served`); each key that is not
doubtful is current or a change under way will see to it (`Tended`); what is read and not stored yet is what the
database says, or doubtful (`Fresh`). When no change is under way, `Tended` is `PermissionsShow`.
The proof showed that the model had let less be in doubt than is: a view that reads after a
request has come in and before its first statement, and stores after its end, leaves what was
there before, and `doubtful` now counts from the statement, not from the request.

The last part is about what is computed, not about steps:

| theorem | statement |
|---|---|
| `ResolutionReaches` | `Spec => []ResolutionIsReachability` |

It needs finitely many roles and nothing of the tables: circles of inheritance may be there, from which the set of roles `seen`
protects the recursion. `AllowedBy` and `Reaches` are recursive functions, of which three things have to be shown. That there is such
a function: for `AllowedBy` one is given, from the smallest closed set of roles beyond `r` (`Beyond`) among those not seen, whose
first step is the equation of the recursion (`BeyondFirst`); for `Reaches` it is built number by
number (`Iteration`). That any such function has these values: the least number of roles not seen for which it has not leads to
a smaller one (`Least` says that there is a least one, and takes the place of an induction). And that `Reaches` has
stopped growing after as many rounds as there are roles: until then, each round has brought one more (`ReachesIs`).

### Site

| theorem | statement |
|---|---|
| `CachesShown` | `Spec => []CachesShow` |
| `RoutesAnswer` | `Spec => []Answered`, if `RoutesLead` and `StartsUnreserved` |
| `MenusShowAll` | `(\E one \in Worker : OneForItems(one)) /\ MenusSoundAtStart => (Spec => []MenuShowsAll)` |

Assumed of the constants is that the sets of ids are finite sets of numbers, apart from each other, that the login
has a built-in route, and that goroutines are asked for requests there are. The first theorem has no further hypothesis. Those of
the others, all of which but `OneForItems` are checked on the run's instance too (`MCTheoremsAssumption`):

- `RoutesLead` is about the table of routes and not about any state: no built-in route takes every path; the paths of the login
  bypass offline mode, and no route that redirects and none for members only takes them; where a redirect leads, no
  other redirects. For the built-in routes the table in the code is like that. The rest limits what an administrator may
  have made by hand: a route for the login action at a path of his own is not let through when the
  site is offline (`canBypassSiteOffline` compares paths), and two redirects can lead to each other. No route form
  compares targets.
- `StartsUnreserved`: the routes a site starts with do not lie in the way of the built-in ones, as forms
  and extensions see to (`ConflictsWithReservedPath`).
- `MenusSoundAtStart`: an item is of one menu and hangs below at most one item, of the same menu, and nothing
  hangs in a circle (`MenusSound`).
- `OneForItems(one)`: one goroutine adds, changes and removes items, including route forms that put
  one into a menu, and forms and deletions of menus. Nothing in the code sees to that, and without it the statement is false: each of
  two forms at once may find that its item is not below the other (TLC finds it with `Does <- Pair` and three
  changes). A deletion of a menu between the check of a form and its write can leave an item whose
  parent is gone, and if that id is used again, as it can be in the model, below the item itself. Moves of items, toggles
  of menus and all that routes, blocks and groups have may overlap. The run
  gives deletions of menus to the other goroutine, to see that two changes do no harm, so its instance is not
  one of the theorem; moved to the first, `MenusSound(db)` is an invariant of it.

`CachesShown` rests on the invariant `CacheInv`, the one of `Access_proofs` for other keys: `Concerns`,
`DeriveSame`, `Fit` and `Covered` say which rows concern a cache, that what is derived from the others does not change, and that
a list of steps sees to all that it changes; one lemma per handler, `Tended` and `Fresh` for the whole. Moves
write the sorts of many rows: `FitNumbered` is about such lists, whose length is that of a finite set. A statement whose rows
the database finds itself (`where`) changes menus, items and the columns of routes only (`WhereIs`).

`RoutesAnswer` needs one part more, `Clean`: a route there is in the database is one a site starts with, or is in no
built-in route's way. It is part of what a statement may add (`StatementFit`), as the forms and the
extensions check it when they read the rows and the paths do not change. The rest is about `Match`: a custom
route that scores as high as a built-in one overlaps with it in each of the four cases of wildcards (`InTheWay`), so one
that does not never wins (`BuiltInFirst`); and a chain of redirects goes from a target or the login to the page of a
built-in route or to the default route, at most three steps long (`SentFrom`, `NoCircle`).

`MenusShowAll` has an invariant of its own, `MenuInv`. That `MenuShowsAll` holds when the menus are sound is
short: what a closed set of items leaves out would hang below itself (`NoneHang`). That they stay sound is about two things.

- *What a statement does.* Most rows are `Loose`: they say nothing of where an item is, and a statement on such rows leaves
  all items where they are (`Same`). One that writes an item below `p` after the check keeps the menus sound (`WriteItemKeeps`: a
  circle through the new link would make the item an ancestor of `p`), as does the removal of items nothing
  hangs below, or of all of a menu (`RemovalKeeps`), and moving children to where their parent hangs (`ReparentKeeps`). `Keeps(s, rows)` says
  so of a statement planned on `rows`, as long as the items are the `Same`, and `KeepsWhere` of one whose rows the database
  finds. A form saves an item below the parent it has (`WriteItemStays`), and what it makes again is no item,
  since nobody else deletes items (`AgainLoose`).
- *What a list does.* `CalmList`: loose statements and calls of handlers with such lists only; all goroutines but one have
  these. The one may have a step that `Keeps` the menus sound among calm ones (`Pending`), or the two of a deletion
  (`Emptying`): first the children go, then the item, which has none by then because nobody else gives it any. `EditPlan` shows
  that every handler of items answers with such a list, and `EditsSame` that what the other goroutines do leaves it one.

Nothing is left out in `MenuInv` about failures: a handler that fails is over, and the menus are sound between any two of
its statements.

### Content

| theorem | statement |
|---|---|
| `ItemsLeaveNothing` | `(\E one \in Worker : OneForItems(one)) /\ OwnedAtStart => (Spec => []NoLeftovers)` |

Assumed of the constants is that ids are numbers, that there are finitely many of them, and that goroutines are asked for
handlers there are (`ContentDoesAssumption`). The hypotheses, which the run's instance satisfies
(`MCTheoremsAssumption`):

- `OneForItems(one)`: the forms, clones, rollbacks, comments and deletions of items come one after the other, in one
  goroutine. The code does not see to that, and a form that overlaps a deletion does make the item anew or leave values
  behind (section 6). Everything else may overlap these and itself in any number of goroutines: the trash, reviews, bulk
  changes, moves and all handlers of tags, groups, categories and fields.
- `OwnedAtStart`: no database has leftovers to begin with.

The code has no foreign keys for these rows and no transactions, so it is the order of the statements that
sees to it. The invariant, `LeftInv`, says that every part (a value, a revision, an index entry, a comment) has its item
(`Owned`), at all times and not only between requests, and that the list of every goroutine is `Orderly`:

- All goroutines but one have calm lists only (`AreCalm`): their steps neither make a part nor remove an item.
- The lists of the one are either those of a request that fills (`AreFilling`) or of one that clears
  (`AreClearing`), and are `Ready`. A step that makes a part of item `i` *waits for* the item, and one that removes
  the item waits until nothing of it is left, one kind of part at a time. What a step waits for is there already, or a
  step before it in the list *meets* it: the `Save` of the item, or the deletion of that kind of part. So a form may
  begin with a new item and a deletion with a full one.
- What is there stays: `Met` conditions survive the steps of the others (which remove no item and make
  no part) and the request's own (a request that fills removes nothing, one that clears makes nothing).

There is one lemma per handler that its list is of the right sort and `Ready`. A loop over values is a list of which each
step waits for the same item (`AreFillingOne`). A bulk deletion goes on with the next item whatever became of
one; its list is a deletion, in front of a `Catch`, and the rest of the call, each of which is read anew when it is
expanded. Nothing is said once the database has refused a statement (`faults`): deletions of parts are tried, and the item is
removed even where one of them has failed, as in the code.

### Reading

| theorem | statement |
|---|---|
| `ListsLeadOn` | `Spec => []LinksOpen` |
| `PagesWhole` | `Spec => []PagesPartition` |

Both speak of every database that the handlers of `Content` can make, in the middle of requests and after failed ones too. What
they need of it is no more than types (`TypedInv`): an item has an id and numbers to sort by, a category and the settings have a
listing, a revision keeps the columns that come back from it (`Typed`). That is an invariant because every step of every handler is
`Neat`: what it writes is typed, or is made of what it has read. `NeatPlan` has a case for each handler and `WheresTyped` one for each
statement whose rows the database finds. Assumed is that databases and requests are typed to begin with (`ContentDoesAssumption`; the
types are those of the columns and of the fields of forms), that page sizes are positive numbers, and that an absent sort is not the name of one
(`ListingAssumption`).

The rest is about the queries, in any typed database:

- A query with an `ORDER BY` lists each row once, in the order of its columns (`InOrderLists`). Together with the order that the database
  gives equals (`Apart`) the columns order the rows totally (`AheadOrders`), and by induction over the set every row has a rank of its
  own (`RanksAre`). Two queries that order equals differently have the same columns in every place (`SameKeys`): fewer rows are ahead of
  one with smaller columns, whatever the order of equals. So what has no equal is in the same place for every page (`AlonesPlace`).
- The pages of a list are pieces, each of the list in the order of its own query. They are the pieces of one list, which
  has in each place what the page of that place has there (`mix` in `WholeIs`, `SamePieces`, `PagePlace`), and join to it
  (`PiecesJoin`, by induction over the pages); the last ends where the list ends
  (`PagesEnd`, `TotalPagesAre`, the arithmetic of the division that rounds up). The leading items, which each page splits off for
  itself, are the first of the whole (`CutsAre`, `SplitIs`): `WholeIs`, for every listing.
- What a category inherits is a listing again, whatever way up the parents the settings come from, circles included (`SettingsThere`,
  `ListingsAre`).
- Every list, feed, block and search shows nothing but what `VisibleItems` has (`ListVisible`, `LinksShown`), and where the groups
  of the visitor are active that is what opens for him (`OpensAre`): the same condition on groups, in SQL and in Go. An item that is
  visible and has no equal in a list of several pages is on one of the list of all items (`ApiReaches`) and of its category's and those
  above (`ShelfReaches`).

The inductions are over data, for which the provers have no scheme: they are by the smallest counterexample (`Least`), and what a recursive function
computes is taken from its definition at one number and the next (`Iteration`).

### Only model-checked

- Liveness (`EveryCallReturns`, `SupervisesFairly`, `ComesBack`, `PagesTurnOver`): the prover does
  not do fairness.
- Of `Access`, the first start of a site.
- Of `Content`: the action properties (`EditsKept`, `RollbackRestores`, `SearchFinds`), which say what the tables hold
  when a request of many statements ends, so that the invariant would have to carry the half-done contents of each.
- `Office` and its parts (`ThumbShows`, `NoticesReach`, `EditorsShow`, `PagesShow`, `LinksLead`, `SitesReached`). Some of their
  loops are `ForEach`, whose lists are concatenated by a recursion: before anything can be proved about them, they
  have to be rewritten as `Site`'s and `Content`'s were.
- `OneAccount`, which needs in addition that new users get ids of their own, and an invariant about
  the order of the steps after `findMail`.

## 6. Where code and documentation part

*A crashed extension is not started again* (run `ext_crash`, the quotations are in
`PROJECT.json`). `IsRunning` tests `ProcessState`, which only Wait sets, and nobody waits
for a published process.

*A rollback that was announced is undone by the next start* (`RollbackAnnounced`). In `update_leftover` the removal of the staged
binary fails: `Rollback` drops the error (`appupdate/swap.go:123`), says that it rolled back, and the next start swaps the
staged binary in over the restored one. The same happens when nothing fails, if an Apply that is still downloading
stages its binary after the rollback has removed what was staged (`manager.go:255`). `RollbackRuns` is what is left: the
announcement holds for a rollback whose removals succeed and which no apply or other rollback overlaps or follows.

The following was met while modelling and is behaviour of the model too; the passing
properties are stated for what the code does promise beside it. (Paths are under `src/internal`.)

Processes, caches, sessions
- A rollback in which two renames fail, the one that puts the previous binary in place and the one that should put
  the running one back (its error is dropped, `appupdate/swap.go:133`), leaves the running binary under
  the temporary name only, and the next rollback begins by removing that (`swap.go:122`).
- A request that read its row before the status toggle starts an extension after the toggle has
  stopped it. The form and the toggle save the whole row as they read it (`crud_extensions.go:530`): they clear `installed` when
  another goroutine has set it meanwhile, so that the next start runs `/install` a second time, and make a deleted row anew
  (`SetupBeforeService` says only that nothing is in service without an `/install`). Two rollbacks at once remove the running binary (`BinaryKept` and the run have one goroutine that rolls back).
- Approving and deleting comments fires no flush, against README.md: pages show them as they were until
  they expire (`PagesTurnOver`). A view that overlaps a change may store what the change has dropped
  (`ChangesShow`, `UpToDate` except those).
- A logout is undone by a request under way that saves its copy of the session later (`LogoutSticks`).

Access, site
- A start drops all permissions before it migrates and seeds and none afterwards: what a view has cached in between stays
  in force until something else drops it (`PermissionsShow` leaves out what overlaps a change).
- Some handlers drop too little of what is cached, and what they leave stays in force until something else drops it: switching a
  group on or off drops the groups of viewers and not the permissions of its members (`status_toggle.go:105`); deleting a user
  drops nothing (`crud_users.go`, `userDelete`), nor does a login that adds its user to the registered ones
  (`EnsureRegisteredGroup`); who installs an extension gets his permissions anew, and the other holders of the role that has grown do not.
  `PermissionsShow` is about all other changes; these are marked `Overlook` in `Access`.
- The forms of users and groups save the row with the groups and roles it was read with (`crud_users.go:137`, `crud_groups.go:83`):
  a link, a role or a group that has gone since then is inserted again, even by who may not assign any. (A form that replaces the
  links removes what it does not list.)
- Two role forms at once can close an inheritance cycle, each having checked the links without the
  other's; the run has one goroutine that saves roles.
- `menuDelete` leaves items behind when they have groups. Menu items moved below each other by two
  forms at once vanish from the tree.
- `db.Save` writes what was loaded with a row (`crud_menus.go:68`, `crud_menu_items.go:193`): a form of an item cannot change
  the parent or the route of an item that has one, and a form of a menu, or of an item, that was open while an item,
  a parent or a route of it was deleted inserts that row again, a route even without dropping the cached routes.
- A visitor who is signed in and not validated is sent in a circle where a page is not for such: to the login
  (`dispatch.go:58`), from there home, being signed in (`dispatch.go:37`), and so on if home is such a page. `Answered` is
  about others. `offline.html:34` says that backend users can sign in while the site is offline; the
  page for a second factor is not among those `offlineAllowsRoute` lets through, so that whoever has one cannot.

Content
- `templateengine/admin/items_revisions.html:68` says that revisions are made automatically each time an item
  is saved; `saveFrontendItem` makes none. A rollback and the edit form of the site leave the search index
  behind (`SearchFinds` is about the forms of the administration and clones).
- Two forms for one item at once can write the same revision number, two index rows, and lose one
  of the edits; a form that overlaps a deletion makes the item anew. Emptying the trash deletes an item that
  has been restored in between. A rollback makes deleted tags anew, without a name. Bulk
  changes of a status fire no flush. The category of an item cannot be changed in a form that was
  loaded with it.
- No list has a last column that tells items apart: of items that are equal in `sort` and were made at one
  moment (or, sorted by title, have one title) the database may put one on two pages and another on none (`content/content.go:260`).
- The parents offered for a category are active ones only, so a cycle through an inactive one can be
  saved; resolving its settings would not end. The run has no such forms.
- `groups/groups.go:107` says that pages and list queries agree on restricted content; lists count inactive
  groups, pages do not (`LinksOpen` is conditioned on the groups of the viewer being active). The feed and the
  block of a category have its own items only, without those below; its menu and the
  home page name categories the visitor may not open; the API does not look at a category's status.

Signing in
- `templateengine/admin/api_settings.html:54` says that rotating the secret invalidates all tokens; the settings form
  (`crud_api_credentials.go:313`) writes back the secret it was loaded with, so a form open during a rotation undoes it.
- Two users of providers without an e-mail cannot both exist; an identity whose provider later returns the e-mail of
  another account can no longer enter. Two refreshes or resets with one token at once may both
  succeed (`SpentFirst` is about whoever comes later). An administrator who deletes an account unlinks
  it first: a callback that has found the account by then still enters it, while another one already makes
  a new account of the same identity (`OneAccount` is about accounts nobody deletes). Deleting a user leaves codes, passkeys, tokens, sessions and notifications.

Administration
- `MediaAsset.Path` is not unique: a rejected replacement removes the file and keeps the row, and an
  upload of that name later makes two assets share a file. So do two uploads of a name that look for it before either
  has created the file (`crud_media.go:192`), and two of a taken name in one second: the stamped name is not looked up (`crud_media.go:195`,
  `uniqueMediaFilename`); the second one writes over the file of the first. `FilesKept` is about all others.
  The background job, or an upload that is still making its styles, may make
  styles of a picture that has been replaced or deleted. A picture called like a thumbnail of another collides
  with it. Changing the styles does not make the ones there are anew.
- A role or group that is inactive still has its subscribers told. A form that was open during a delivery writes the
  old delivery state back.
- The file of strings is truncated, then written, and the mutex of `lang.Manager` protects nothing across requests,
  each of which makes its own. The article "/" of an extension redirects to itself; one called "_" is out of reach.
- `RevertOverride`, an import and `templateMeta` drop no cache (`PagesShow` leaves these out). A theme that is inactive is used
  by the admin engine and for assets all the same. `form.html` and `edit-form.html` share three
  versions, since old versions are matched by their suffix. A migration that was interrupted says "already exists" when
  repeated. A clone that takes too long goes on after the answer, also into a theme made meanwhile.
- Settings that are on without ever having been saved (`allow_login`, `allow_signup`, `memory_cache_enabled`, ...)
  are shown off, and saving the section turns them off; selects never saved show their first option, and
  saving makes it effective. Saving drops keys the schema does not have; `maintenance_mode` is in the
  schema and not in the form, so that saving brings an offline site back, and it counts beside
  `site_offline` though `general.json` calls it an alias for when that is unset. A meta tag that
  is cleared falls back to the value of the general section. A section with a nullable
  category has its unticked booleans not stored at all. (`EditorsShow` is therefore about what has been
  saved and can be shown.)
- A site is saved before its database is opened: with a mistyped one the file is refused, a reload
  leaves no routes and a restart ends the process; the form sent again says "already exists"
  (`SitesReached` is about files whose databases open). Corrected by an edit later, such a site has no providers and no
  administrators. Administrators without a password are not copied to a new site. The memory
  changes even if the file cannot be written, and two forms at once can both pass the check
  of the host.
- The installer's second page needs the pool its first page has opened. After a restart between the two, or with a
  database that does not open, the first page is passed over (there is a site in the file) and the second fails
  for ever, although README.md describes the wizard as something to come back to. An administrator of
  that name that exists already makes the second page fail too.

## 7. What is not modelled

- Of the extension manager: the proxying of a request to a running extension, slots and
  translations (they change no state of the manager), and what becomes of the processes of a chain that a
  reload has dropped. Of the updater: version comparison and the release client (a release is a number).
- Expiry of tokens, rate limits, captchas, CSRF checks and API keys: each is a test at the head of a handler.
- Hooks that may veto a save, required fields, publishing windows, locales but one, list limits,
  filters and sort orders of the lists in the administration.
- Regular expressions, query patterns and extension mounts in the matching of a path; the rendering of
  blocks; `blocks.sort`, a copy of another column. Tokens and child processes get names that were not used before; the id of a
  deleted row may be used again.
- The media a page shows (`admin/item_media.go`), pixels, archives uploaded as themes, the parsing and execution of
  templates, the texts of messages, the outside services (mail, providers, release server, git).
- Schema migrations and repairs (a database is as the models say), a crash in the middle of writing
  `sites.json`, the override of the host by a header, upper and lower case in hosts.
- List-valued settings, the cleaning of header text, the accents of the admin.
- Data races in the memory-model sense: the modelled maps are accessed under their mutexes.
- The components marked `not_modelled` in `PROJECT.json`, each with its reason: they keep no
  state that outlasts a step, or are for display only.
