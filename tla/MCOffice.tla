------------------------------- MODULE MCOffice -------------------------------
(***************************************************************************)
(* An instance of Office.                                                  *)
(***************************************************************************)
EXTENDS Office

CONSTANTS ann, bob, root, other, fancy, plain,
          wide, tall, small, paper,
          eve, tom, eveMail, tomMail, editors, staff, saved, login, submitted, forms, polls, slack, pager,
          hello, bye, welcome

\* Pictures of two shapes and a small one, and a document; an asset whose file has gone.
Kinds == (wide :> "jpg") @@ (tall :> "png") @@ (small :> "jpg") @@ (paper :> "pdf")
Sizes == (wide :> 3) @@ (tall :> 40) @@ (small :> 1) @@ (paper :> 2)
Dims == (wide :> [w |-> 400, h |-> 3]) @@ (tall :> [w |-> 90, h |-> 300])
        @@ (small :> [w |-> 20, h |-> 20]) @@ (paper :> [w |-> 1, h |-> 1])
Boxes == ("thumbnail" :> [w |-> 80, h |-> 80]) @@ ("medium" :> [w |-> 200, h |-> 0])

Library ==
  {<<"asset", 1, <<"content">>, <<"a">>, "jpg">>, <<"disk", <<"content">>, <<"a">>, "original", wide>>,
   <<"disk", <<"content">>, <<"a">>, "thumbnail", wide>>, <<"disk", <<"content">>, <<"a">>, "medium", wide>>,
   <<"asset", 2, <<"press", "old">>, <<"b">>, "pdf">>, <<"folder", <<"content">>>>, <<"media", [limit |-> 64, types |-> {}, styles |-> {}]>>}

\* eve is an editor through the staff, tom one himself.
People ==
  {<<"user", eve, TRUE, FALSE, eveMail>>, <<"user", tom, TRUE, FALSE, tomMail>>, <<"access", eve>>, <<"access", tom>>,
   <<"userGroup", eve, staff>>, <<"groupRole", staff, editors>>, <<"userRole", tom, editors>>,
   <<"roleSub", editors, saved, {}>>, <<"userSub", tom, saved, FALSE>>, <<"extension", forms>>,
   <<"extEvent", forms, submitted>>, <<"mail">>, <<"notice", slack, eve, TRUE, "new">>, <<"noticeEvent", slack, saved>>}

\* The site's file overrides a built-in string; two sections; a string before them.
BuiltIn == {<<<<"nav">>, <<"home">>, hello>>, <<<<"nav">>, <<"out">>, bye>>}
First == {<<<<"dashboard">>, <<"title">>, welcome>>}
Own == {<<<<"nav">>, <<"home">>, welcome>>, <<<<>>, <<"greeting">>, hello>>, <<<<"menu">>, <<"home">>, bye>>,
        <<<<"form", "error">>, <<"title">>, bye>>}
Words == EnsureDefaults({<<"ini", <<"en", "US", "site">>, Own>>, <<"ini", <<"en", "US">>, First>>})
Locales == {<<"en", "US">>, <<"en">>}
Guides == {<<"admin", "media">>, <<"extensions", "hooks">>, <<"extensions", "capabilities">>}
Help == {<<"help", forms, <<<<"start">>, <<"more", "fields">>>>>>, <<"help", polls, <<>>>>}
\* Two themes, one with a template of its own; overrides from before there were themes.
Layout == <<"", <<"layout">>>>
Card == <<"partials", <<"card">>>>
Form == <<"", <<"form">>>>
EditForm == <<"", <<"edit", "form">>>>
Bits == <<"", <<"_", "fragments">>>>
Style == <<"assets", <<"style">>>>
BuiltIns == {<<"default", Layout>>, <<"default", Card>>, <<"admin", Layout>>, <<"admin", Form>>, <<"admin", EditForm>>, <<"admin", Bits>>}
Parts == (Layout :> {Card})
Pages == {<<"bundle", "mysite", Layout>>}
Themes ==
  {<<"theme", "mysite", "frontend", "active">>, <<"theme", "office", "backend", "active">>,
   <<"file", "mysite", Card, fancy>>, <<"file", "office", EditForm, plain>>,
   <<"file", "default", Layout, plain>>, <<"file", "admin", Form, plain>>, <<"theme", "root", "full", "inactive">>}
\* A server with two sites, one administrator of the first having no password; one not installed.
Home == SiteRow("home", <<"localhost", 8001>>, "home.sqlite")
Shop == SiteRow("shop", <<"shop.test", 443>>, "shop.sqlite")
Set(sites) == [install |-> FALSE, sites |-> sites]
Seeded(dsn) == Seeds(dsn, {"tables", "providers", "local", "groups", "routes"})
Serves(cfg) == {<<"sites.json", cfg>>, <<"config", cfg>>, Routes("app", HostsOf(cfg))}
               \cup {<<"pool", cfg.sites[i].id, cfg.sites[i].dsn>> : i \in DOMAIN cfg.sites}
TwoSites ==
  Serves(Set(<<Home, Shop>>)) \cup Seeded("home.sqlite") \cup Seeded("shop.sqlite") \cup {<<"may", "sites">>}
  \cup {<<"account", "home.sqlite", root, TRUE>>, <<"admin", "home.sqlite", root>>,
        <<"account", "home.sqlite", other, FALSE>>, <<"admin", "home.sqlite", other>>,
        <<"account", "shop.sqlite", other, TRUE>>, <<"admin", "shop.sqlite", other>>}
Uninstalled == {<<"config", DefaultApp>>, Routes("install", {})}
\* Some settings of each kind; a site whose settings are older than some of them.
Numerals == ("25" :> 25) @@ ("50" :> 50) @@ ("7" :> 7) @@ ("0" :> 0) @@ ("1" :> 1) @@ ("+7" :> 7)
Prints == (25 :> "25") @@ (50 :> "50") @@ (7 :> "7") @@ (0 :> "0") @@ (1 :> "1")
YesNo == <<"inherit", "yes", "no">>
Definitions ==
  ("general" :> ("allow_login" :> Toggle(TRUE) @@ "site_offline" :> Toggle(FALSE)
                 @@ "maintenance_mode" :> [Toggle(FALSE) EXCEPT !.shown = FALSE]
                 @@ "date_format" :> [Choice("select", <<"01/02/2006", "2006-01-02">>, "01/02/2006") EXCEPT !.checked = TRUE]
                 @@ "default_list_limit" :> Choice("number", <<"25", "50">>, 25)
                 @@ "page_cache_ttl_seconds" :> Choice("number", <<>>, 300)))
  @@ ("seo" :> ("site_meta_description" :> Control @@ "allow_ai_crawlers" :> Toggle(TRUE)
                @@ "site_twitter_card" :> Choice("select", <<"summary", "summary_large_image">>, "summary_large_image")))
  @@ ("content" :> ("show_title" :> Choice("display", YesNo, "yes") @@ "show_author" :> Choice("display", YesNo, "yes")
                    @@ "allow_comments" :> Toggle(TRUE)))
  @@ ("polls" :> ("category" :> [Choice("category", <<>>, 0) EXCEPT !.checked = TRUE] @@ "anonymous" :> Toggle(FALSE)))
Older ==
  {<<"setting", "general", ("site_meta_description" :> SettingText("+7") @@ "site_twitter_card" :> SettingText("summary_large_image")
                            @@ "allow_login" :> SettingText("1") @@ "maintenance_mode" :> Boolean(TRUE)
                            @@ "date_format" :> SettingText("2006-01-02") @@ "page_cache_ttl_seconds" :> <<"number", 7>>)>>,
   <<"setting", "content", ("show_title" :> Boolean(TRUE) @@ "show_author" :> Boolean(FALSE) @@ "allow_comments" :> Boolean(FALSE))>>}
SettingsWork ==
  {<<"configuration", "general", [RenderForm("general", <<>>) EXCEPT !["default_list_limit"] = "50", !["date_format"] = "other"]>>,
   <<"configuration", "seo", RenderForm("seo", ("site_meta_description" :> SettingText("7") @@ "allow_ai_crawlers" :> Boolean(TRUE)))>>,
   <<"configuration", "content", RenderForm("content", ("show_title" :> SettingText("no")))>>,
   <<"configuration", "polls", ("category" :> "7" @@ "anonymous" :> "true")>>, <<"configuration", "polls", ("category" :> "")>>}
\* Sites whose administrators look after some sections each, the last with themes.
May(S) == {<<"may", section>> : section \in S}
Starts ==
  {TwoSites, Uninstalled, Older \cup May({"configuration"}), Library \cup May({"media", "configuration"}),
   People \cup Help \cup May({"notifications", "roles"}), Words \cup May({"languages"}),
   Themes \cup {<<"selected", "mysite", "office">>} \cup May({"templates", "configuration"})}

MediaWork ==
  {<<"mediaUpload", <<"a">>, <<>>, small, "1">>, <<"mediaUpload", <<"a">>, <<>>, small, "2">>,
   <<"mediaUpload", <<"b">>, <<"press", "new">>, tall, "1">>,
   <<"mediaDuplicate", 1, "1">>, <<"mediaDuplicate", 1, "2">>, <<"mediaReplace", 1, tall, "png", FALSE>>, <<"mediaReplace", 1, small, "jpg", TRUE>>,
   <<"mediaReplace", 1, paper, "jpg", FALSE>>, <<"mediaDelete", 1>>, <<"mediaDelete", 2>>,
   <<"mediaCreateFolder", <<"press">>, "new">>, <<"mediaCreateFolder", <<"press">>, "..">>,
   <<"mediaSettings", [limit |-> 0, types |-> {"*"}, styles |-> {"medium"}]>>}
NoticeWork ==
  {<<"roleForm", editors, {<<saved, {}>>, <<login, {}>>}>>, <<"roleForm", editors, {<<saved, {"self"}>>}>>,
   <<"roleDelete", editors>>, <<"profile", eve, {login}>>,
   <<"sync", polls, {submitted}>>, <<"clearInactive">>,
   <<"noticeForm", TRUE, pager, None, tom, TRUE, TRUE, {saved}>>,
   <<"noticeForm", FALSE, slack, eve, eve, TRUE, FALSE, {login}>>,
   <<"noticeDelete", slack, None>>, <<"noticeToggle", slack, eve>>, <<"noticeTest", slack, tom, TRUE>>,
   <<"dispatch", saved, [meets |-> {"status"}, author |-> eve], {slack}>>}
OfTom == {<<"profile", tom, {saved, submitted}>>, <<"profile", tom, {}>>}
LanguageWork ==
  {<<"languageFile", <<"site">>, Own \cup BuiltIn, {<<<<"nav">>, <<"home">>>>}>>,
   <<"languageFile", <<>>, First, {}>>}
TemplateWork ==
  {<<"templateSave", "mysite", Layout, fancy>>, <<"templateSave", "office", EditForm, fancy>>,
   <<"templateSave", "mysite", Style, plain>>, <<"assetDelete", "mysite", Style>>,
   <<"override", "mysite", Layout>>, <<"override", "office", Form>>, <<"templateSave", "office", Bits, plain>>, <<"revert", "mysite", Card>>,
   <<"templateMeta", "mysite", "full", "inactive">>, <<"templateMeta", "office", "full", "active">>,
   <<"createTheme", "new", "full">>, <<"import", "new", "frontend", {<<Layout, fancy>>, <<Form, plain>>}, FALSE>>,
   <<"import", "new", "frontend", {<<Layout, fancy>>}, TRUE>>, <<"migrate", "new", "new-admin">>,
   <<"themeSettings", "default", "admin">>}
SiteWork ==
  {<<"siteCreate", "blog", <<"127.0.0.1", 80>>, "blog.sqlite", "localhost">>,
   <<"siteCreate", "blog", <<"blog.test", 80>>, "blog.sqlite", "localhost">>,
   <<"siteCreate", "blog", <<"blog.test", 80>>, "typo", "localhost">>, <<"siteCreate", "shop", <<"blog.test", 80>>, "blog.sqlite", "localhost">>,
   <<"siteEdit", "shop", <<"localhost", 9000>>, NoDsn>>, <<"siteEdit", "shop", <<"127.0.0.1", 9000>>, NoDsn>>,
   <<"siteEdit", "home", <<"home.test", 80>>, NoDsn>>, <<"siteEdit", "blog", <<"blog.test", 80>>, "blog.sqlite">>,
   <<"siteEdit", "home", NoUrl, NoDsn>>,
   <<"siteDelete", "home">>, <<"siteDelete", "shop">>, <<"siteDelete", "blog">>,
   <<"serverReload">>, <<"restart">>}
InstallWork ==
  {<<"installSite", "home", NoUrl, "home.sqlite">>, <<"installSite", "home", <<"?", 0>>, "home.sqlite">>,
   <<"installSite", "home", NoUrl, "typo">>, <<"installAdmin", root>>, <<"restart">>}
\* What bob uploads gets no copies: none is made while ann replaces or deletes the picture.
Work ==
  (ann :> MediaWork \cup NoticeWork \cup LanguageWork \cup TemplateWork \cup SiteWork \cup InstallWork
          \cup SettingsWork)
  @@ (bob :> {<<"mediaUpload", <<"a">>, <<>>, small, "1">>} \cup OfTom \cup {<<"background">>, <<"clone">>, <<"lang", <<"en", "US">>>>} \cup Pages)

===============================================================================
