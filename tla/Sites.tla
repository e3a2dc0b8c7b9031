--------------------------------- MODULE Sites ---------------------------------
(***************************************************************************)
(* One process serves several sites, each with hosts and a database of its *)
(* own: sites.json, the configuration in memory, the pools, the routes     *)
(* (packages config, sites, server), the installer (package install) and   *)
(* the sites' pages of the admin (admin/crud_sites.go), as steps on rows.  *)
(***************************************************************************)
EXTENDS Steps

CONSTANTS Dsn, Broken,   \* databases; those that cannot be opened
          Account,       \* user names
          NoUrl, NoDsn   \* a field of a form left empty

\* A host URL is its host and port; "?" stands for one that does not parse.  A site is
\* its id (the slug of its name), URL and database; sites.json holds those and whether
\* the installer is wanted.
SiteRow(id, url, dsn) == [id |-> id, url |-> url, dsn |-> dsn]
DefaultApp == [install |-> TRUE, sites |-> <<>>]

\* Mutant: a new URL is compared without the other name of the local host.
SiteHostKeysPlain(url) == {url[1]}

HostKey(url) == url[1]
Parses(url) == HostKey(url) # "?"
LocalHostAlias(host) ==
  CASE host = "localhost" -> {"127.0.0.1"} [] host = "127.0.0.1" -> {"localhost"} [] OTHER -> {}
SiteHostKeys(url) == {HostKey(url)} \cup LocalHostAlias(HostKey(url))
ConflictOf(site, url) == SiteHostKeys(site.url) \cap SiteHostKeys(url) # {}
FindSite(cfg, id) == {i \in DOMAIN cfg.sites : cfg.sites[i].id = id}

\* Rows: <<"sites.json", cfg>> on disk; <<"config", cfg>>, the routes and the pools in
\* memory; of a database which seeds, accounts (with a password or not) and administrators.
Kept(kind, rows) == {r \in rows : r[1] = kind}
FileConfig(rows) == LET f == Kept("sites.json", rows) IN IF f = {} THEN DefaultApp ELSE (CHOOSE r \in f : TRUE)[2]
Running(rows) == Kept("config", rows) # {}
Config(rows) == (CHOOSE r \in Kept("config", rows) : TRUE)[2]
NeedsInstall(cfg) == cfg.install \/ cfg.sites = <<>>

SetConfig(cfg, rows) == Memory(Save(Kept("config", rows), <<"config", cfg>>))
SaveConfig(cfg, rows) == Save(Kept("sites.json", rows), <<"sites.json", cfg>>)

----------------------------------------------------------------------------
\* Databases

\* A pool that is there for another database is replaced.
Connect(id, dsn, rows) ==
  IF <<"pool", id, dsn>> \in rows THEN <<>>
  ELSE IF dsn \in Broken THEN <<Return>>
  ELSE <<Memory(Save({r \in Kept("pool", rows) : r[2] = id}, <<"pool", id, dsn>>))>>
Connected(id, rows) == {r[3] : r \in {q \in Kept("pool", rows) : q[2] = id}}

Seeds(dsn, what) == {<<"seed", dsn, x>> : x \in what}
Migrate(dsn) == <<Link(Seeds(dsn, {"tables"}))>>
SeedAuthenticators(dsn) == <<Link(Seeds(dsn, {"providers", "local"}))>>
SeedGroups(dsn) == Link(Seeds(dsn, {"groups"}))
EnsureDefaultRoute(dsn) == Needing({Seeds(dsn, {"groups"})}, Link(Seeds(dsn, {"routes"})))
Open(site) == <<Call(<<"connect", site.id, site.dsn>>)>> \o Migrate(site.dsn)
Seed(site) == SeedAuthenticators(site.dsn) \o <<SeedGroups(site.dsn), EnsureDefaultRoute(site.dsn)>>

AccountRows(dsn, u) == {<<"account", dsn, u, b>> : b \in BOOLEAN}

----------------------------------------------------------------------------
\* The server

\* What requests are routed by: the hosts of each site, the first being the default.
Routes(mode, hosts) == <<"routes", mode, hosts>>
HostsOf(cfg) ==
  [byHost |-> UNION {SiteHostKeys(cfg.sites[i].url) \X {cfg.sites[i].id} : i \in DOMAIN cfg.sites},
   default |-> cfg.sites[1].id]
SetRoutes(mode, hosts, rows) == Memory(Save(Kept("routes", rows), Routes(mode, hosts)))
Serving(mode, rows) == \E r \in Kept("routes", rows) : r[2] = mode

\* The sites in their order: one that conflicts with one before it, or whose URL does not
\* parse, ends it.
NewManager(cfg) ==
  FlattenSeq([i \in DOMAIN cfg.sites |->
    IF ~Parses(cfg.sites[i].url) \/ \E j \in 1 .. i - 1 : ConflictOf(cfg.sites[j], cfg.sites[i].url)
    THEN <<Return>> ELSE Open(cfg.sites[i])])

ReloadManager(cfg, rows) == NewManager(cfg) \o <<SetRoutes("app", HostsOf(cfg), rows)>>

ResolveHost(host, rows) ==
  LET hosts == (CHOOSE r \in Kept("routes", rows) : r[2] = "app")[3]
      at == {h \in hosts.byHost : h[1] \in {host} \cup LocalHostAlias(host)}
  IN IF at = {} THEN {hosts.default} ELSE {h[2] : h \in at}

\* Until it ends there are no routes; if it fails there are none afterwards.
Activate(cfg, rows) ==
  LET none == Routes("none", {})
      routed(mode, hosts) == Memory(Save({none}, Routes(mode, hosts)))
      before == Kept("config", rows) \cup Kept("routes", rows)
  IN <<Memory(Write(before, {<<"config", cfg>>, none}))>> \o
     IF NeedsInstall(cfg) THEN <<routed("install", {})>>
     ELSE NewManager(cfg)
          \o FlattenSeq([i \in DOMAIN cfg.sites |->
               <<Ignored(SeedGroups(cfg.sites[i].dsn)), Ignored(EnsureDefaultRoute(cfg.sites[i].dsn))>>])
          \o <<routed("app", HostsOf(cfg))>>

\* The process ends and is started again.
Restart(rows) ==
  IF ~Running(rows) THEN <<Return>>
  ELSE <<Memory(Delete(UNION {Kept(k, rows) : k \in {"config", "routes", "pool"}})), Call(<<"activate", FileConfig(rows)>>)>>

ServerReload(rows) == IF ~Running(rows) THEN <<Return>> ELSE <<Call(<<"activate", FileConfig(rows)>>)>>

----------------------------------------------------------------------------
\* The admin's pages

\* Mutant: a URL is compared with those of other sites without the names of the local host.
ValidateUniqueSiteHostPlain(cfg, id, url) ==
  Parses(url) /\ \A i \in DOMAIN cfg.sites \ FindSite(cfg, id) : SiteHostKeysPlain(cfg.sites[i].url) # SiteHostKeysPlain(url)

ValidateUniqueSiteHost(cfg, id, url) ==
  /\ Parses(url)
  /\ \A i \in DOMAIN cfg.sites \ FindSite(cfg, id) : Parses(cfg.sites[i].url) /\ ~ConflictOf(cfg.sites[i], url)

Apply(cfg) == <<Call(<<"reloadSites", cfg>>), Call(<<"activate", cfg>>)>>

\* The site is in memory and in the file before its database is tried.
SiteCreate(id, url, dsn, from, rows) ==
  LET cfg == Config(rows)
      site == SiteRow(id, url, dsn)
      new == [cfg EXCEPT !.sites = Append(@, site)]
  IN IF url = NoUrl \/ FindSite(cfg, id) # {} \/ ~ValidateUniqueSiteHost(cfg, id, url) THEN <<Return>>
     ELSE <<SetConfig(new, rows), SaveConfig(new, rows)>> \o Open(site) \o Seed(site)
          \o <<Call(<<"copyAdmins", from, id>>)>> \o Apply(new)

SiteEdit(id, url, dsn, rows) ==
  LET cfg == Config(rows)
      new == [cfg EXCEPT !.sites = [i \in DOMAIN @ |->
                IF @[i].id # id THEN @[i] ELSE SiteRow(id, url, IF dsn = NoDsn THEN @[i].dsn ELSE dsn)]]
  IN IF FindSite(cfg, id) = {} \/ url = NoUrl \/ ~ValidateUniqueSiteHost(cfg, id, url) THEN <<Return>>
     ELSE <<SetConfig(new, rows), SaveConfig(new, rows)>> \o Apply(new)

SiteDelete(id, rows) ==
  LET cfg == Config(rows)
      new == [cfg EXCEPT !.sites = SelectSeq(@, LAMBDA s : s.id # id)]
  IN IF Len(cfg.sites) <= 1 \/ FindSite(cfg, id) = {} THEN <<Return>>
     ELSE <<SetConfig(new, rows), SaveConfig(new, rows)>> \o Apply(new)

\* Administrators who have a password get an account on the new site too.
CopyAdminUsersToSite(from, to, rows) ==
  IF Connected(from, rows) = {} \/ Connected(to, rows) = {} THEN <<Return>>
  ELSE LET source == CHOOSE d \in Connected(from, rows) : TRUE
           target == CHOOSE d \in Connected(to, rows) : TRUE
           admins == {u \in Account : {<<"account", source, u, TRUE>>, <<"admin", source, u>>} \subseteq rows}
       IN IF admins = {} THEN <<>>
          ELSE IF <<"seed", target, "local">> \notin rows THEN <<Return>>
          ELSE ForEach(admins, LAMBDA u : <<Save(AccountRows(target, u), <<"account", target, u, TRUE>>)>>
                 \o When(<<"seed", target, "groups">> \in rows, <<Link({<<"admin", target, u>>})>>))

SiteForm(op, rows) ==
  IF ~Serving("app", rows) THEN <<Return>>
  ELSE CASE op[1] = "siteCreate" -> SiteCreate(op[2], op[3], op[4], CHOOSE s \in ResolveHost(op[5], rows) : TRUE, rows)
         [] op[1] = "siteEdit" -> SiteEdit(op[2], op[3], op[4], rows)
         [] op[1] = "siteDelete" -> SiteDelete(op[2], rows)

----------------------------------------------------------------------------
\* The installer

\* It reads the file first; once nothing is to be installed it only activates.
Wizard(rows, Page(_)) ==
  IF ~Serving("install", rows) THEN <<Return>>
  ELSE <<SetConfig(FileConfig(rows), rows)>> \o
       IF ~NeedsInstall(FileConfig(rows)) THEN <<Call(<<"activate", FileConfig(rows)>>)>> ELSE Page(FileConfig(rows))

\* Its first page is passed over once there is a site in the file.
HandleSiteSetup(id, url, dsn, cfg, rows) ==
  LET site == SiteRow(id, IF url = NoUrl THEN <<"localhost", 8001>> ELSE url, dsn)
      new == [cfg EXCEPT !.install = TRUE, !.sites = <<site>>]
  IN IF cfg.sites # <<>> THEN <<Return>>
     ELSE <<Memory(Write(Kept("config", rows) \cup {<<"config", cfg>>}, {<<"config", new>>})), SaveConfig(new, rows)>>
          \o Open(site) \o Seed(site)

CreateLocalUser(dsn, u) == <<Link(Seeds(dsn, {"local"})), Insert(<<"account", dsn, u, TRUE>>, AccountRows(dsn, u))>>
AssignAdmin(dsn, u) == <<Needing({Seeds(dsn, {"groups"})}, Link({<<"admin", dsn, u>>}))>>

HandleAdminSetup(u, cfg, rows) ==
  LET done == [cfg EXCEPT !.install = FALSE]
      dsn == CHOOSE d \in Connected(cfg.sites[1].id, rows) : TRUE
  IN IF cfg.sites = <<>> \/ Connected(cfg.sites[1].id, rows) = {} THEN <<Return>>
     ELSE CreateLocalUser(dsn, u) \o AssignAdmin(dsn, u)
          \o <<Memory(Write(Kept("config", rows) \cup {<<"config", cfg>>}, {<<"config", done>>})), SaveConfig(done, rows),
               Call(<<"activate", done>>)>>

InstallSite(id, url, dsn, rows) == Wizard(rows, LAMBDA cfg : HandleSiteSetup(id, url, dsn, cfg, rows))
InstallAdmin(u, rows) == Wizard(rows, LAMBDA cfg : HandleAdminSetup(u, cfg, rows))

================================================================================
