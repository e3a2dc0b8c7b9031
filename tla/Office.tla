--------------------------------- MODULE Office ---------------------------------
(***************************************************************************)
(* What administrators keep beside the content: the media library, the     *)
(* notifications, the strings of the user interface, the help, themes, the *)
(* settings and the sites themselves (the handlers of src/internal/admin   *)
(* over the packages media, notifications, lang, help, templatemgr,        *)
(* settings, sites and install), as requests on one store of rows.         *)
(***************************************************************************)
EXTENDS Media, Notices, Languages, Templates, Settings, Sites

CONSTANTS Worker, Start, Does, MaxChanges, MaxFaults

VARIABLES db, cached, worker, changes, faults, doubtful

\* What is cached: the managers the middleware keeps (Lang), the templates of the engine.
Key == {<<"lang", l>> : l \in Locale} \cup TemplateKey
Derive(k, rows) == IF k[1] = "lang" THEN Reload(k[2], rows) ELSE Bundle(k, rows)

\* requireAccess: which section of the admin a request belongs to, and whether the
\* administrators of the site may change it (who they are is left to Access).
Section ==
  [n \in {"mediaUpload", "mediaDuplicate", "mediaReplace", "mediaDelete", "mediaCreateFolder"} |-> "media"]
  @@ [n \in {"mediaSettings", "themeSettings", "configuration"} |-> "configuration"]
  @@ [n \in {"roleForm", "roleDelete"} |-> "roles"]
  @@ [n \in {"noticeForm", "noticeDelete", "noticeToggle", "noticeTest"} |-> "notifications"]
  @@ [n \in {"languageFile"} |-> "languages"]
  @@ [n \in {"templateSave", "assetDelete", "override", "revert", "templateMeta", "createTheme", "import", "migrate"}
        |-> "templates"]
  @@ [n \in {"siteCreate", "siteEdit", "siteDelete"} |-> "sites"]
RequireAccess(op, rows) == op[1] \in DOMAIN Section => <<"may", Section[op[1]]>> \in rows

Handle(op, rows) ==
  CASE op[1] = "mediaUpload" -> MediaUpload(op[2], op[3], op[4], op[5], rows)
    [] op[1] = "mediaWrite" -> MediaWrite(op[2], op[3], op[4], op[5], rows)
    [] op[1] = "newAsset" -> NewAsset(op[2], op[3], op[4], op[5], rows)
    [] op[1] = "generate" -> GenerateStyles(op[2], op[3], op[4], rows)
    [] op[1] = "mediaDuplicate" -> MediaDuplicate(op[2], op[3], rows)
    [] op[1] = "mediaReplace" -> MediaReplace(op[2], op[3], op[4], op[5], rows)
    [] op[1] = "saveAsset" -> SaveAsset(op[2], op[3], rows)
    [] op[1] = "background" -> Background(rows)
    [] op[1] = "mediaDelete" -> MediaDelete(op[2], rows)
    [] op[1] = "deleteAsset" -> DeleteAsset(op[2], rows)
    [] op[1] = "mediaCreateFolder" -> MediaCreateFolder(op[2], op[3])
    [] op[1] = "mediaSettings" -> SaveMediaSettings(op[2], rows)
    [] op[1] = "sync" -> SyncNotificationEvents(op[2], op[3], rows)
    [] op[1] = "clearInactive" -> ClearInactiveNotificationEvents(rows)
    [] op[1] = "roleForm" -> ReplaceRoleSubscriptions(op[2], op[3], rows)
    [] op[1] = "roleDelete" -> RoleDelete(op[2], rows)
    [] op[1] = "profile" -> SaveUserSubscriptions(op[2], op[3], rows)
    [] op[1] = "upsert" -> Upsert(op[2], op[3], op[4], rows)
    [] op[1] = "dispatch" -> DispatchEvent(op[2], op[3], op[4], rows)
    [] op[1] = "layer2" -> DispatchLayer2(op[2], op[3], rows)
    [] op[1] = "delivery" -> Delivery(op[2], op[3], rows)
    [] op[1] = "noticeForm" -> NotificationForm(op[2], op[3], op[4], op[5], op[6], op[7], op[8], rows)
    [] op[1] = "saveNotice" -> SaveNotice(op[2], op[3], rows)
    [] op[1] = "noticeDelete" -> NotificationDelete(op[2], op[3], rows)
    [] op[1] = "deleteNotice" -> DeleteNotice(op[2], rows)
    [] op[1] = "noticeToggle" -> NotificationToggle(op[2], op[3], rows)
    [] op[1] = "toggleNotice" -> ToggleNotice(op[2], op[3], rows)
    [] op[1] = "noticeTest" -> NotificationTest(op[2], op[3], op[4], rows)
    [] op[1] = "languageFile" -> LanguageFile(op[2], op[3], op[4], rows)
    [] op[1] = "truncate" -> Truncate(op[2], rows)
    [] op[1] = "writeIni" -> WriteIni(op[2], op[3], rows)
    [] op[1] = "templateSave" -> TemplateSave(op[2], op[3], op[4], rows)
    [] op[1] = "version" -> WriteVersion(op[2], op[3], op[4], rows)
    [] op[1] = "prune" -> PruneVersions(op[2], op[3], rows)
    [] op[1] = "assetDelete" -> TemplateAssetDelete(op[2], op[3], rows)
    [] op[1] = "override" -> Override(op[2], op[3], rows)
    [] op[1] = "revert" -> RevertOverride(op[2], op[3], rows)
    [] op[1] = "templateMeta" -> TemplateMeta(op[2], op[3], op[4])
    [] op[1] = "createTheme" -> CreateTheme(op[2], op[3], rows)
    [] op[1] = "import" -> ImportGitTheme(op[2], op[3], op[4], op[5], rows)
    [] op[1] = "clone" -> CloneGoesOn(rows)
    [] op[1] = "migrate" -> MigrateLegacy(op[2], op[3], rows)
    [] op[1] = "copy" -> CopyThemeFile(op[2], op[3], op[4], rows)
    [] op[1] = "removeAll" -> RemoveAll(op[2], rows)
    [] op[1] \in {"themeSettings", "select"} -> Select(op[2], op[3], rows)
    [] op[1] = "configuration" -> Configuration(op[2], op[3], rows)
    [] op[1] \in {"siteCreate", "siteEdit", "siteDelete"} -> SiteForm(op, rows)
    [] op[1] = "connect" -> Connect(op[2], op[3], rows)
    [] op[1] = "copyAdmins" -> CopyAdminUsersToSite(op[2], op[3], rows)
    [] op[1] = "reloadSites" -> ReloadManager(op[2], rows)
    [] op[1] = "activate" -> <<Forget(Key)>> \o Activate(op[2], rows)
    [] op[1] = "restart" -> Restart(rows)
    [] op[1] = "serverReload" -> ServerReload(rows)
    [] op[1] = "installSite" -> InstallSite(op[2], op[3], op[4], rows)
    [] op[1] = "installAdmin" -> InstallAdmin(op[2], rows)

Plan(op, rows, c) == IF RequireAccess(op, rows) THEN Handle(op, rows) ELSE <<Return>>

\* What a page of the site is rendered with: the languages, where they may change, and the
\* theme in use; what administrators are let do (a refused request changes nothing, so none is tried).
Asked(op, rows) ==
  IF op \notin Key THEN /\ RequireAccess(op, rows)
                        /\ op[1] \in {"restart", "serverReload", "installSite", "installAdmin"} => Running(rows)
                        /\ op[1] \in {"profile", "sync", "clearInactive", "dispatch"} => <<"mail">> \in rows
  ELSE IF op[1] = "lang" THEN <<"may", "languages">> \in rows ELSE \E r \in rows : r[1] = "selected" /\ op[2] \in {r[2], r[3]}

Server == INSTANCE Requests
Spec == Server!Spec

----------------------------------------------------------------------------
\* Properties

\* Nothing an administrator has made is written over: an upload or a copy never changes a
\* file that some asset stood for when its name was picked, whatever has been deleted,
\* replaced or failed to be before, unless that file got its name, the second appended, in
\* the same second (the code does not look twice: two uploads at once, or two of a taken
\* name in one second, share a file); and a migration of legacy templates, even one that
\* stops half way, leaves none without a copy (where no import that has been given up
\* still writes).
FilesKept ==
  [][\A w \in Worker : worker[w].op # None /\ worker[w].todo # worker'[w].todo =>
       /\ \A s \in ToSet(worker[w].todo) : s.do = "where" /\ s.op[1] = "newAsset" =>
            \A r \in Originals(db) \cap s.op[5] :
              /\ r[5] # "empty" /\ \E a \in db : a[1] = "asset" /\ a[3] = r[2] /\ a[4] = r[3]
              /\ Last(r[3]) \notin Second
              => r \in db'
       /\ worker[w].op[1] = "migrate" /\ (\A r \in db : r[1] # "cloned") =>
            \A r \in db : r[1] = "file" => \E q \in db' : q[1] = "file" /\ q[3] = r[3] /\ q[4] = r[4]]_<<db, worker>>

\* A thumbnail is one of the picture that is there: none outlives a replaced or deleted
\* file, even when the styles have been changed in between.  (Styles made in the background
\* may come after the next change of the file, as those of an upload that another
\* administrator's change overlaps would, and two assets may share one file.)
ThumbShows ==
  Server!Quiet /\ faults = 0 =>
    \A r \in db : /\ r[1] = "disk" /\ r[4] = "thumbnail" /\ ~(\E j \in db : j[1] = "job" /\ j[2] = r[2] /\ j[3] = r[3])
                 /\ Cardinality({a \in db : a[1] = "asset" /\ a[3] = r[2] /\ a[4] = r[3]}) <= 1
      => <<"disk", r[2], r[3], "original", r[5]>> \in db

\* What is ticked in the profile of an administrator is what they are mailed about, whether
\* it comes from their roles, directly or through groups, or from themselves, where no
\* filter says otherwise.
NoticesReach ==
  Server!Quiet => \A u \in User : \A e \in SubscribableEventsFor(db) :
    /\ HasAdminAccess(u, db) /\ \E m \in Email : <<"user", u, TRUE, FALSE, m>> \in db
    /\ ~\E q \in db : q[1] = "roleSub" /\ q[3] = e /\ q[4] # NoFilter
    => (e \in LoadUserProfileState(u, db)) = (u \in ResolveEmailRecipients(e, [meets |-> {}, author |-> None], db))

\* The editors show what pages are rendered with: of every template of a theme that can be
\* chosen (one for both sides is shown as one of the site), and of a file of strings, whose
\* form, saved without one of them, leaves what all others say.  The form of a section of
\* the settings, saved as it is, leaves in effect what has been saved before, by whatever
\* version: meta tags from the general settings, truth values that are choices by now.
EditorsShow ==
  Server!Quiet =>
    /\ \A t \in Options("default", db) \ BuiltinNames, p \in {b[2] : b \in Builtin} :
         p \in ThemeTemplates(t, db) => ReadForEdit(t, p, db) = ReadTemplate(t, p, db)
    /\ \A t \in Options("admin", db) \ BuiltinNames, p \in {b[2] : b \in Builtin} :
         p \in ThemeTemplates(t, db) /\ Meta(t, db).type = "backend" =>
           LET x == ReadForEdit(t, p, db) IN ParseAdmin(t, db)[IF IsFragment(p[2], x) THEN "fragments" ELSE "pages"][p[2]] = x
    /\ \A scope \in {<<"site">>, <<"admin">>, <<>>} \cap DOMAIN Reload(AmericanEnglish, db) :
         LET before == Reload(AmericanEnglish, db)
             form == Sections(before[scope])
             name == AmericanEnglish \o scope
         IN \A s \in form :
              LET new == (db \ FileNamed(name, db)) \cup {<<"ini", name, ParseLanguageForm(form, {<<s[1], s[2]>>})>>}
                  after == Reload(AmericanEnglish, new)
              IN \A o \in form \ {s} : Lookup(after, o[1] \o o[2]) = Lookup(before, o[1] \o o[2])
    /\ \A section \in DOMAIN Definition :
         LET new == Resubmitted(section, db)
         IN \A k \in ShownAsSaved(section, db) : InEffect(section, k, new) = InEffect(section, k, db)

\* The strings and templates pages are rendered with are those of the files once the changes
\* under way are over (where no view overlapped a change, no handler failed and the code
\* drops what is cached: not where a theme is reverted, imported or switched off).
PagesShow == Server!UpToDate

\* Every folder with something in it is reached by going down the media library, and every
\* link of the help leads to a page, except to an extension's article "/", which is the
\* folder that leads to it, and to an extension called "_".
LinksLead ==
  Server!Quiet =>
    /\ LET all == DiscoverMediaFolders(db) IN
       \A f \in all : \A g \in MediaFolderBreadcrumbs(f) : g \in MediaChildFolderNav(all, Front(g))
    /\ \A url \in HelpLinks(db) :
         ~(\E r \in HelpIndex(db) : url[1] = "extensions" /\ Len(url) > 1 /\ url[2] = r[2] /\ (r[2] = "_" \/ Head(r[3]) = <<>>))
         => \E o \in OpenHelp(url, db) : o[1] = "page" \/ \E p \in OpenHelp(o[2], db) : p[1] = "page"

\* Once sites.json holds only databases that open and URLs that parse, every site answers
\* under its names, the other name of the local host among them, after whatever changes of
\* the sites, reloads and restarts came before; and no site is set up without an
\* administrator (where the one that creates it has a password to copy).
SitesReached ==
  Server!Quiet /\ faults = 0 /\ Running(db) =>
    LET cfg == FileConfig(db) IN
    ~NeedsInstall(cfg) /\ (\A i \in DOMAIN cfg.sites : cfg.sites[i].dsn \notin Broken /\ Parses(cfg.sites[i].url)) =>
      /\ Config(db) = cfg /\ Serving("app", db)
      /\ \A i \in DOMAIN cfg.sites : \A h \in SiteHostKeys(cfg.sites[i].url) : ResolveHost(h, db) = {cfg.sites[i].id}
      /\ \A i \in DOMAIN cfg.sites :
           LET dsn == cfg.sites[i].dsn IN
           <<"seed", dsn, "providers">> \in db => \E u \in Account : <<"admin", dsn, u>> \in db

=============================================================================
