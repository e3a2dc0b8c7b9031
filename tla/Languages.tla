------------------------------- MODULE Languages -------------------------------
(***************************************************************************)
(* The strings of the user interface, kept in files that the editor        *)
(* rewrites and that are read into managers the middleware keeps           *)
(* (src/internal/lang, admin/crud_languages.go, middleware/chain.go), and  *)
(* the help pages (src/internal/help, extensions/help.go,                  *)
(* admin/crud_help.go).  A dotted name is the sequence of its words.       *)
(***************************************************************************)
EXTENDS Integers, FiniteSets, Steps

CONSTANTS Locale,       \* locales somebody may ask for, <<"en", "US">> and others
          Embedded,     \* the strings built in for the site: section, key, value
          Starter,      \* those of the admin's first file
          Doc,          \* built-in help: folder and article
          NoString

\* A file: its name is the locale, then the scope; in it section, key and value of each
\* string (the section of those before the first is empty).
Files(rows) == {r \in rows : r[1] = "ini"}
FileNamed(name, rows) == {r \in Files(rows) : r[2] = name}
AmericanEnglish == <<"en", "US">>

----------------------------------------------------------------------------
\* Reading

\* bundleFromINI: what is found under a name.  No two strings of a file are (bound).
BundleFromINI(S) == {[id |-> s[1] \o s[2], value |-> s[3]] : s \in S}

MergeValues(base, override) == {b \in base : ~\E o \in override : o.id = b.id} \cup override

\* Reload: every file whose name begins with the locale, under what follows; the site's
\* strings are put over the built-in ones (applyEmbeddedSite).
Reload(locale, rows) ==
  LET mine == {r \in Files(rows) : IsPrefix(locale, r[2])}
      disk(scope) == UNION {BundleFromINI(r[3]) : r \in {q \in mine : q[2] = locale \o scope}}
      scopes == {SubSeq(r[2], Len(locale) + 1, Len(r[2])) : r \in mine} \cup {<<"site">>}
  IN [scope \in scopes |->
        IF scope = <<"site">> THEN MergeValues(BundleFromINI(Embedded), disk(scope)) ELSE disk(scope)]

\* lookup: the site's, the admin's, the file without a scope.
Lookup(bundles, id) ==
  LET said(scope) == IF scope \in DOMAIN bundles THEN {e.value : e \in {f \in bundles[scope] : f.id = id}} ELSE {}
      first == IF said(<<"site">>) # {} THEN said(<<"site">>)
               ELSE IF said(<<"admin">>) # {} THEN said(<<"admin">>) ELSE said(<<>>)
  IN IF first = {} THEN NoString ELSE CHOOSE v \in first : TRUE

\* Sections, the form of a file: a name is split at its first dot.
Sections(bundle) ==
  {<<IF Len(e.id) > 1 THEN SubSeq(e.id, 1, 1) ELSE <<>>,
     IF Len(e.id) > 1 THEN Tail(e.id) ELSE e.id, e.value>> : e \in bundle}

\* ResolveLocale, and what there is to choose from: InstalledLocales.
ResolveLocale(cookie, accepted) ==
  IF cookie # <<>> THEN cookie ELSE IF accepted = <<>> THEN AmericanEnglish ELSE Head(accepted)
InstalledLocales(rows) ==
  LET code(name) == IF name # <<>> /\ Last(name) \in {"admin", "site", "default"} THEN Front(name) ELSE name
      there == {code(r[2]) : r \in Files(rows)} \ {<<>>}
  IN IF there = {} THEN {AmericanEnglish} ELSE there

----------------------------------------------------------------------------
\* Writing

\* A file is written in place: emptied, then filled.
WriteFile(name, S) == <<Where(<<"truncate", name>>), Where(<<"writeIni", name, S>>)>>
Truncate(name, rows) == <<Save(FileNamed(name, rows), <<"ini", name, {}>>)>>
WriteIni(name, S, rows) == <<Save(FileNamed(name, rows), <<"ini", name, S>>)>>

\* ReplaceScope: the file becomes what the form says.
ReplaceScope(locale, scope, form) == WriteFile(locale \o scope, form)

\* parseLanguageForm: removed are the strings ticked for removal.
ParseLanguageForm(form, removed) == {s \in form : s[2] # <<>> /\ <<s[1], s[2]>> \notin removed}

\* Mutant: the managers that are kept stay.
LanguageFileKept(scope, form, removed, rows) ==
  IF scope \notin DOMAIN Reload(AmericanEnglish, rows) THEN <<>>
  ELSE ReplaceScope(AmericanEnglish, scope, ParseLanguageForm(form, removed))

\* languageFile: the editor knows one locale, and form is what the file said when the form
\* was opened, with what has been typed since (InvalidateLang).
LanguageFile(scope, form, removed, rows) ==
  IF scope \notin DOMAIN Reload(AmericanEnglish, rows) THEN <<>>
  ELSE ReplaceScope(AmericanEnglish, scope, ParseLanguageForm(form, removed))
       \o <<Forget({<<"lang", l>> : l \in Locale})>>

\* EnsureDefaults, for a site that is being made: the files it begins with.
EnsureDefaults(rows) ==
  rows \cup {<<"ini", AmericanEnglish \o f.scope, f.strings>> :
    f \in {g \in {[scope |-> <<"site">>, strings |-> Embedded], [scope |-> <<"admin">>, strings |-> Starter]} :
             FileNamed(AmericanEnglish \o g.scope, rows) = {}}}

----------------------------------------------------------------------------
\* Help.  A row <<"help", x, paths>>: extension x runs, is active and lists these; the
\* first comes first.

HelpIndex(rows) == {r \in rows : r[1] = "help" /\ r[3] # <<>>}

\* The pages: all of it, a folder, an article; of an extension, its folder and articles
\* (<<"extensions", "_">> are the built-in articles about extensions).
FolderURL(f) == <<f>>
ArticleURL(f, slug) == <<f, slug>>
HelpArticleURL(x, path) == <<"extensions", x>> \o path
BuiltinExtensionArticleURL(slug) == <<"extensions", "_", slug>>

Folders == {d[1] : d \in Doc}

\* What a page links to: buildRootFolders, internalFileItems, extensionFolderItems,
\* builtinExtensionFileItems and the articles beside the one being read.
HelpLinks(rows) ==
  {FolderURL(f) : f \in Folders \ {"extensions"}} \cup {<<"extensions">>}
  \cup {ArticleURL(d[1], d[2]) : d \in {e \in Doc : e[1] # "extensions"}}
  \cup {BuiltinExtensionArticleURL(d[2]) : d \in {e \in Doc : e[1] = "extensions"}}
  \cup {HelpArticleURL(r[2], <<>>) : r \in HelpIndex(rows)}
  \cup UNION {{HelpArticleURL(r[2], p) : p \in ToSet(r[3])} : r \in HelpIndex(rows)}

\* help, helpInternalPath, helpExtensionsPath, helpBuiltinExtensionDocs and
\* renderExtensionHelpReader: the article shown, where to go instead, or neither.
OpenHelp(url, rows) ==
  LET ext == {r \in HelpIndex(rows) : Len(url) > 1 /\ r[2] = url[2]}
      about == {d \in Doc : d[1] = "extensions"}
  IN IF url = <<>> \/ url = <<"extensions">> THEN {<<"page", url>>}
     ELSE IF url[1] # "extensions"
     THEN IF url[1] \notin Folders THEN {}
          ELSE IF Len(url) = 1 THEN {<<"page", url>>}
          ELSE IF <<url[1], url[2]>> \in Doc THEN {<<"page", <<url[1], url[2]>>>>} ELSE {}
     ELSE IF url[2] = "_"
     THEN IF Len(url) = 2 THEN {<<"redirect", BuiltinExtensionArticleURL(d[2])>> : d \in about}
          ELSE IF <<"extensions", url[3]>> \in Doc THEN {<<"page", url>>} ELSE {}
     ELSE IF Len(url) = 2 THEN {<<"redirect", HelpArticleURL(r[2], Head(r[3]))>> : r \in ext}
     ELSE {<<"page", url>> : r \in {q \in ext : SubSeq(url, 3, Len(url)) \in ToSet(q[3])}}

=============================================================================
