------------------------------- MODULE Templates -------------------------------
(***************************************************************************)
(* Themes: folders of templates that override the ones built in, edited in *)
(* the admin, imported or migrated, and read into caches by the engine     *)
(* (src/internal/templatemgr, themes, templatemeta, templateengine,        *)
(* admin/crud_templates.go).  A theme is a string; a path in it is a       *)
(* directory and a name, which is the sequence of its hyphened words.      *)
(***************************************************************************)
EXTENDS Integers, FiniteSets, Steps

CONSTANTS Builtin,      \* <<"default" or "admin", path>> of what is built in
          Partials,     \* Partials[p]: the partials the page p is parsed with
          Rendered,     \* the bundles that are asked for: <<"bundle", theme, page>>, <<"admin", theme>>
          Text, NoText, \* what a file may say
          Defining      \* the texts that have a {{define

BuiltinText(side, p) == <<"built in", side, p>>
Texts == Text \cup {BuiltinText(b[1], b[2]) : b \in Builtin}
BuiltinNames == {"default", "admin"}
ValidateName(t) == t \notin {"versions", "extension"}
IsHtml(p) == p[1] # "assets"

File(t, p) == {<<"file", t, p, x>> : x \in Texts}
FilesOf(t, rows) == {r \in rows : r[1] = "file" /\ r[2] = t}
ThemeFiles(t, rows) == {r \in FilesOf(t, rows) : IsHtml(r[3])}
Said(S) == IF S = {} THEN NoText ELSE (CHOOSE r \in S : TRUE)[4]
Overridden(t, p, rows) == File(t, p) \cap rows

\* template.json; a folder without one is an active theme for both sides.
MetaRow(t, rows) == {r \in rows : r[1] = "theme" /\ r[2] = t}
Meta(t, rows) ==
  IF MetaRow(t, rows) = {} THEN [type |-> "full", status |-> "active"]
  ELSE LET r == CHOOSE m \in MetaRow(t, rows) : TRUE IN [type |-> r[3], status |-> r[4]]
FolderExists(t, rows) == <<"dir", t>> \in rows \/ FilesOf(t, rows) \cup MetaRow(t, rows) # {}

\* FrontendOptions and AdminOptions, what the settings offer.
ThemeAllows(side, t, rows) == Meta(t, rows).type \in {"full", IF side = "default" THEN "frontend" ELSE "backend"}
Options(side, rows) ==
  {side} \cup {t \in {r[2] : r \in {q \in rows : q[1] \in {"theme", "file"}}} :
                 t # "root" /\ ValidateName(t) /\ ThemeAllows(side, t, rows) /\ Meta(t, rows).status = "active"}

----------------------------------------------------------------------------
\* The engine

ReadBuiltin(side, p) == IF <<side, p>> \in Builtin THEN BuiltinText(side, p) ELSE NoText

\* readTemplate, of a page of the site: an inactive theme is passed over (readThemeDisk).
ReadTemplate(t, p, rows) ==
  LET disk == IF t = "default" \/ Meta(t, rows).status # "active" THEN {} ELSE Overridden(t, p, rows)
  IN IF disk # {} THEN Said(disk) ELSE ReadBuiltin("default", p)

\* loadFrontendSources: a page and its partials.
LoadFrontendSources(t, page, rows) ==
  [main |-> ReadTemplate(t, page, rows), partials |-> [p \in Partials[page] |-> ReadTemplate(t, p, rows)]]

\* parseAdminFile: a file whose name begins with "_" (a word) or that defines templates is no page.
IsFragment(n, x) == Head(n) = "_" \/ x \in Defining

\* parseAdmin: by name alone, what the theme has over what is built in: the pages, and the
\* fragments, which are merged into the set instead (one takes the place of another if they
\* have one name (bound)).  The theme's status is not looked at, and no two of its files have
\* one name (bound).
ParseAdmin(t, rows) ==
  LET embed == {<<b[2][2], BuiltinText("admin", b[2])>> : b \in {c \in Builtin : c[1] = "admin"}}
      mine == IF t = "admin" THEN {} ELSE {<<r[3][2], r[4]>> : r \in ThemeFiles(t, rows)}
      Merged(IsOne(_)) ==
        LET over == {f \in mine : IsOne(f)}
            all == over \cup {f \in embed : IsOne(f) /\ \A g \in over : g[1] # f[1]}
        IN [n \in {f[1] : f \in all} |-> (CHOOSE f \in all : f[1] = n)[2]]
  IN [pages |-> Merged(LAMBDA f : ~IsFragment(f[1], f[2])), fragments |-> Merged(LAMBDA f : IsFragment(f[1], f[2]))]

\* ThemeAsset and AdminThemeAsset; a is the path of an asset.
ThemeAsset(side, t, a, rows) ==
  IF t # side /\ Overridden(t, a, rows) # {} THEN Said(Overridden(t, a, rows)) ELSE ReadBuiltin(side, a)

TemplateKey == Rendered
Bundle(k, rows) == IF k[1] = "bundle" THEN LoadFrontendSources(k[2], k[3], rows) ELSE ParseAdmin(k[2], rows)

----------------------------------------------------------------------------
\* Editing

\* Mutant: a theme for both sides overrides the templates of the admin.
AdminFirst(t, rows) ==
  IF t \in BuiltinNames THEN t ELSE IF ThemeAllows("admin", t, rows) THEN "admin" ELSE "default"

\* logicalBuiltinPath: the side whose templates a theme overrides.
LogicalBuiltinSide(t, rows) ==
  IF t \in BuiltinNames THEN t
  ELSE IF ThemeAllows("admin", t, rows) /\ ~ThemeAllows("default", t, rows) THEN "admin" ELSE "default"

\* ThemeTemplates: what is built in for the theme, and what else is on disk.
ThemeTemplates(t, rows) ==
  {b[2] : b \in {c \in Builtin : c[1] = LogicalBuiltinSide(t, rows) /\ IsHtml(c[2])}}
  \cup {r[3] : r \in ThemeFiles(t, rows)}

\* Read, what the editor shows.
ReadForEdit(t, p, rows) ==
  IF Overridden(t, p, rows) # {} THEN Said(Overridden(t, p, rows)) ELSE ReadBuiltin(LogicalBuiltinSide(t, rows), p)

\* writeVersion and pruneVersions: what is overwritten is kept, and of the versions in one
\* directory whose names end alike the last three.  (No two are made in one nanosecond.)
WriteVersion(t, p, old, rows) ==
  LET n == 1 + Cardinality({r \in rows : r[1] = "stamp"})
  IN <<Link({<<"version", t, p, n, old>>, <<"stamp", n>>})>>
PruneVersions(t, p, rows) ==
  LET alike == {r \in rows : r[1] = "version" /\ r[2] = t /\ r[3][1] = p[1] /\ IsSuffix(p[2], r[3][2])}
  IN <<Delete({r \in alike : Cardinality({q \in alike : q[4] > r[4]}) >= 3})>>

\* Save and SaveAsset (which drops nothing: assets are not cached).
WriteThemeFile(t, p, x, rows) ==
  (IF Overridden(t, p, rows) = {} THEN <<>>
   ELSE <<Where(<<"version", t, p, Said(Overridden(t, p, rows))>>), Where(<<"prune", t, p>>)>>)
  \o <<Save(File(t, p), <<"file", t, p, x>>)>>

\* Saving drops all that is cached.
TemplateSave(t, p, x, rows) == WriteThemeFile(t, p, x, rows) \o When(IsHtml(p), <<Forget(TemplateKey)>>)
TemplateAssetDelete(t, p, rows) ==
  IF Overridden(t, p, rows) = {} THEN <<Return>> ELSE <<Delete(File(t, p))>>

\* Override copies what is built in, RevertOverride removes the copy; the caches keep it.
Override(t, p, rows) ==
  LET text == ReadBuiltin(LogicalBuiltinSide(t, rows), p) IN
  IF ~ValidateName(t) \/ Overridden(t, p, rows) # {} \/ text = NoText THEN <<Return>>
  ELSE <<Call(<<"templateSave", t, p, text>>)>>
RevertOverride(t, p, rows) ==
  IF Overridden(t, p, rows) = {} \/ ReadBuiltin(LogicalBuiltinSide(t, rows), p) = NoText THEN <<Return>>
  ELSE <<Delete(File(t, p)), Overlook(TemplateKey)>>

----------------------------------------------------------------------------
\* Themes

SaveMeta(t, type, status) ==
  <<Save({<<"theme", t>> \o <<y, s>> : y \in {"frontend", "backend", "full"}, s \in {"active", "inactive"}},
         <<"theme", t, type, status>>)>>

\* templateMeta: the caches keep what the theme was.
TemplateMeta(t, type, status) == SaveMeta(t, type, status) \o <<Overlook(TemplateKey)>>

\* createTheme: a folder that is left of a failed one is in the way of the next.
CreateTheme(t, type, rows) ==
  IF ~ValidateName(t) \/ FolderExists(t, rows) THEN <<Return>>
  ELSE <<Link({<<"dir", t>>})>> \o SaveMeta(t, type, "active") \o <<Overlook(TemplateKey)>>

\* copyFlatClone, one file after the other.
CopyFlatClone(t, files) ==
  <<Link({<<"dir", t>>})>> \o ForEach(files, LAMBDA f : <<Save(File(t, f[1]), <<"file", t, f[1], f[2]>>)>>)

\* ImportGitTheme: the clone is copied by a goroutine of its own, a job; when the
\* time is up the handler gives up, and the goroutine goes on.
ImportGitTheme(t, type, files, slow, rows) ==
  IF ~ValidateName(t) \/ FolderExists(t, rows) THEN <<Return>>
  ELSE IF slow THEN <<Link({<<"clone", t, files>>}), Return>>
  ELSE CopyFlatClone(t, files) \o SaveMeta(t, type, "active") \o <<Overlook(TemplateKey)>>

\* The goroutine of a clone.  (That it has begun stays known.)
CloneGoesOn(rows) ==
  LET jobs == {r \in rows : r[1] = "clone" /\ <<"cloned", r[2]>> \notin rows} IN
  When(jobs # {},
       LET j == CHOOSE r \in jobs : TRUE
       IN <<Link({<<"cloned", j[2]>>})>> \o CopyFlatClone(j[2], j[3]) \o <<Overlook(TemplateKey)>>)

\* DetectLegacy: overrides in folders named like the built-in themes, or a template.json
\* at the root.
LegacyDir(side, rows) == ThemeFiles(side, rows) # {} /\ MetaRow(side, rows) = {}
DetectLegacy(rows) ==
  [front |-> LegacyDir("default", rows), admin |-> LegacyDir("admin", rows), root |-> MetaRow("root", rows) # {}]

\* copyTree, each file as it is when it is copied.
CopyTree(from, to, rows) ==
  <<Link({<<"dir", to>>})>>
  \o ForEach({r[3] : r \in FilesOf(from, rows)}, LAMBDA p : <<Where(<<"copy", from, to, p>>)>>)
CopyThemeFile(from, to, p, rows) == <<Write(File(to, p), {<<"file", to, p, r[4]>> : r \in Overridden(from, p, rows)})>>
RemoveAll(t, rows) == <<Delete(FilesOf(t, rows))>>

\* MigrateLegacy and applyMigratedThemeSettings; front and office are the names chosen.
MigrateLegacy(front, office, rows) ==
  LET old == DetectLegacy(rows)
      needFront == old.front \/ (old.root /\ ~old.admin)
  IN IF ~(old.front \/ old.admin \/ old.root)
        \/ (needFront /\ (~ValidateName(front) \/ FolderExists(front, rows)))
        \/ (old.admin /\ (~ValidateName(office) \/ FolderExists(office, rows) \/ (needFront /\ office = front)))
     THEN <<Return>>
     ELSE When(needFront, CopyTree("default", front, IF old.front THEN rows ELSE {})
                          \o SaveMeta(front, IF old.admin THEN "frontend" ELSE "full", "active"))
          \o When(old.admin, CopyTree("admin", office, rows) \o SaveMeta(office, "backend", "active"))
          \o When(old.front, <<Where(<<"removeAll", "default">>)>>)
          \o When(old.admin, <<Where(<<"removeAll", "admin">>)>>)
          \o When(old.root, <<Ignored(Delete(MetaRow("root", rows)))>>)
          \o <<Where(<<"select", IF needFront THEN front ELSE NoText, IF old.admin THEN office ELSE NoText>>),
               Forget(TemplateKey)>>

\* The themes in use, in the general settings.
Select(front, office, rows) ==
  LET there == {r \in rows : r[1] = "selected"}
      old == CHOOSE r \in there : TRUE
  IN <<Save(there, <<"selected", IF front = NoText THEN old[2] ELSE front, IF office = NoText THEN old[3] ELSE office>>)>>

================================================================================
