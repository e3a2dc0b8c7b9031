------------------------------- MODULE SiteCache -------------------------------
(***************************************************************************)
(* The in-memory caches of one site (src/internal/cache, settings) between *)
(* page views and admin changes.  A view fills the caches from what it     *)
(* reads in the database, a change writes the database and drops what it   *)
(* makes out of date; the lock of a cache covers one access to it, never   *)
(* the read and the fill together.  A goroutine is the list of steps it    *)
(* still has to take: one step is one database or one cache access.        *)
(***************************************************************************)
EXTENDS Naturals, Sequences

CONSTANTS Worker,      \* goroutines: visitors and admins
          Does,        \* Does[w]: the operations goroutine w performs
          None,        \* nothing cached
          MaxEdits,    \* changes (a bound)
          PageTTL      \* the age at which a cached page expires

View == "view"
Change == {"edit", "restore", "comment", "moderate", "block", "general", "reload"}

ASSUME CacheDoesAssumption == Does \in [Worker -> SUBSET (Change \cup {View})]
ASSUME CacheBoundsAssumption == MaxEdits \in Nat /\ PageTTL \in Nat \ {0}

VARIABLES
  db,        \* the database: the version of each row, and the general settings
  toggle,    \* toggles and toggleKnown: "on", "off" or "unknown"
  settings,  \* the cached section global/general
  blocks,    \* the cached blocks of a space; menus, routes, groups work alike
  object,    \* the cached item, in the object cache, which has no expiry
  page,      \* the cached page
  worker,
  edits,     \* changes begun
  shown      \* history: what a view must show as the database has it

vars == <<db, toggle, settings, blocks, object, page, worker, edits, shown>>

----------------------------------------------------------------------------

Source == {"item", "comment", "block", "general"}
Edition == Nat
General == [memory : BOOLEAN, page : BOOLEAN]
Content == [item : Edition, comment : Edition, block : Edition]
Blank == [item |-> 0, comment |-> 0, block |-> 0]

\* What a change writes; restore is the rollback to a revision, moderate the
\* approval or deletion of a comment.
Touches(op) == CASE op \in {"edit", "restore"} -> {"item"}
                 [] op \in {"comment", "moderate"} -> {"comment"}
                 [] op = "block" -> {"block"}
                 [] op = "general" -> {"general"}
                 [] OTHER -> {}

\* InvalidateSitePublic: the pages, then the objects.
Flush == <<"flushPages", "flushObjects">>

\* InvalidateSite, and InvalidateAll for a reload.
DropSite == <<"dropSettings", "dropBlocks", "dropToggle">> \o Flush

\* The steps of an operation, as its handler takes them.  The hook that flushes
\* for a restored revision fires before the revision is applied; moderation
\* fires none.
Plan(op, g) ==
  CASE op = View -> <<"general", "page", "item", "comment", "block", "general", "keep">>
    [] op = "edit" -> <<"writeItem">> \o Flush
    [] op = "restore" -> Flush \o <<"writeItem">>
    [] op = "comment" -> <<"writeComment">> \o Flush
    [] op = "moderate" -> <<"writeComment">>
    [] op = "block" -> <<"writeBlock", "dropBlocks">> \o Flush
    [] op = "general" -> <<"writeGeneral", "dropSettings">>
                         \o (IF g.memory THEN <<>> ELSE DropSite)
                         \o <<"setToggle">> \o Flush
    [] OTHER -> DropSite

Label == {"general", "generalRead", "generalFill", "toggleRead", "toggleSet", "page",
          "item", "itemRead", "itemFill", "comment", "block", "blockRead", "blockFill",
          "keep", "writeItem", "writeComment", "writeBlock", "writeGeneral",
          "dropSettings", "dropBlocks", "dropToggle", "setToggle",
          "flushPages", "flushObjects"}

\* conf is the general section, as read or as posted; draft the page being
\* rendered; on the toggle as read; calm (history) holds while neither a view nor
\* another change of the same rows has been under way since the change began.
Goroutine == [todo : Seq(Label), op : Change \cup {View, "none"}, conf : General,
              draft : Content, on : BOOLEAN, calm : BOOLEAN]
Idle == [todo |-> <<>>, op |-> "none", conf |-> [memory |-> TRUE, page |-> FALSE],
         draft |-> Blank, on |-> FALSE, calm |-> FALSE]

TypeOK ==
  /\ db \in [content : Content, general : General]
  /\ toggle \in {"on", "off", "unknown"}
  /\ settings \in General \cup {None}
  /\ blocks \in Edition \cup {None}
  /\ object \in Edition \cup {None}
  /\ page \in [shows : Content, age : 0 .. PageTTL] \cup {None}
  /\ worker \in [Worker -> Goroutine]
  /\ edits \in 0 .. MaxEdits
  /\ shown \subseteq Source

Init ==
  /\ \E g \in General : db = [content |-> Blank, general |-> g]
  /\ toggle = "unknown"
  /\ settings = None
  /\ blocks = None
  /\ object = None
  /\ page = None
  /\ worker = [w \in Worker |-> Idle]
  /\ edits = 0
  /\ shown = Source

----------------------------------------------------------------------------
\* Helpers

Busy(w) == worker[w].todo # <<>>
At(w, l) == Busy(w) /\ Head(worker[w].todo) = l
Rest(w) == Tail(worker[w].todo)
Viewing(w) == worker[w].op = View

Then(w, g) == worker' = [worker EXCEPT ![w] = g]

\* The goroutine once it has taken its step; when that was its last, it is done.
Past(w) == IF Len(worker[w].todo) = 1 THEN Idle ELSE [worker[w] EXCEPT !.todo = Rest(w)]
Proceed(w) == Then(w, Past(w))

\* The step is replaced by others.
Instead(w, steps) == Then(w, [worker[w] EXCEPT !.todo = steps \o Rest(w)])

\* From its last step on, a calm change has to show; but moderation drops nothing.
SeesTo(op) == Touches(op) \ (IF op = "moderate" THEN {"comment"} ELSE {})
Settle(w) ==
  shown' = IF Len(worker[w].todo) = 1 /\ worker[w].calm
           THEN shown \cup SeesTo(worker[w].op) ELSE shown

Cached == <<toggle, settings, blocks, object, page>>

\* Enabled: the toggle, which is loaded from the database first if it is not
\* known.
NeedsToggle(w) ==
  /\ toggle = "unknown"
  /\ Instead(w, <<"toggleRead", "toggleSet", Head(worker[w].todo)>>)
  /\ UNCHANGED <<db, Cached, edits, shown>>

----------------------------------------------------------------------------
\* Operations begin

\* A page view; from now on no change in progress is calm.
BeginView(w) ==
  /\ ~Busy(w) /\ View \in Does[w]
  /\ worker' = [u \in Worker |->
                  IF u = w THEN [Idle EXCEPT !.op = View, !.todo = Plan(View, Idle.conf)]
                  ELSE [worker[u] EXCEPT !.calm = FALSE]]
  /\ UNCHANGED <<db, Cached, edits, shown>>

\* The changes under way of rows that op changes too.
Rivals(op) == {u \in Worker : Touches(worker[u].op) \cap Touches(op) # {}}

\* A change.
BeginChange(w) ==
  /\ ~Busy(w) /\ edits < MaxEdits
  /\ edits' = edits + 1
  /\ \E op \in Does[w] \ {View}, g \in General :
       /\ op # "general" => g = Idle.conf
       /\ worker' = [u \in Worker |->
            IF u = w THEN [Idle EXCEPT !.op = op, !.todo = Plan(op, g), !.conf = g,
                             !.calm = Rivals(op) = {} /\ \A x \in Worker : ~Viewing(x)]
            ELSE [worker[u] EXCEPT !.calm = @ /\ u \notin Rivals(op)]]
       /\ shown' = shown \ Touches(op)
  /\ UNCHANGED <<db, Cached>>

----------------------------------------------------------------------------
\* A page view: cachedStore.Load of global/general

ToggleRead(w) ==
  /\ At(w, "toggleRead")
  /\ Then(w, [Past(w) EXCEPT !.on = db.general.memory])
  /\ UNCHANGED <<db, Cached, edits, shown>>

ToggleSet(w) ==
  /\ At(w, "toggleSet")
  /\ toggle' = IF worker[w].on THEN "on" ELSE "off"
  /\ Then(w, [Past(w) EXCEPT !.on = Idle.on])
  /\ UNCHANGED <<db, settings, blocks, object, page, edits, shown>>

\* GetSettings.
LoadGeneral(w) ==
  /\ At(w, "general")
  /\ \/ NeedsToggle(w)
     \/ /\ toggle # "unknown"
        /\ IF toggle = "on" /\ settings # None
           THEN Then(w, [Past(w) EXCEPT !.conf = settings])
           ELSE Instead(w, <<"generalRead", "generalFill">>)
        /\ UNCHANGED <<db, Cached, edits, shown>>

ReadGeneral(w) ==
  /\ At(w, "generalRead")
  /\ Then(w, [Past(w) EXCEPT !.conf = db.general])
  /\ UNCHANGED <<db, Cached, edits, shown>>

\* SetSettings looks at the toggle once more.
FillGeneral(w) ==
  /\ At(w, "generalFill")
  /\ \/ NeedsToggle(w)
     \/ /\ toggle # "unknown"
        /\ settings' = IF toggle = "on" THEN worker[w].conf ELSE settings
        /\ Proceed(w)
        /\ UNCHANGED <<db, toggle, blocks, object, page, edits, shown>>

----------------------------------------------------------------------------
\* A page view: withPageCache, and the parts of a page

Fresh == page # None /\ page.age < PageTTL

\* Mutant: a hit extends the page's life.
LookupSlides(w) ==
  /\ At(w, "page")
  /\ \/ /\ Then(w, [worker[w] EXCEPT !.todo = <<"item", "comment", "block">>, !.conf = Idle.conf])
        /\ UNCHANGED page
     \/ /\ worker[w].conf.page /\ Fresh
        /\ Then(w, Idle)
        /\ page' = [page EXCEPT !.age = 0]
     \/ /\ worker[w].conf.page /\ ~Fresh
        /\ page' = None
        /\ Then(w, [Past(w) EXCEPT !.conf = Idle.conf])
  /\ UNCHANGED <<db, toggle, settings, blocks, object, edits, shown>>

\* GetPage, unless the page cache is off or the request is of a kind that is
\* never cached.  A hit is the whole response; an expired page is deleted.
Lookup(w) ==
  /\ At(w, "page")
  /\ \/ /\ Then(w, [worker[w] EXCEPT !.todo = <<"item", "comment", "block">>, !.conf = Idle.conf])
        /\ UNCHANGED page
     \/ /\ worker[w].conf.page /\ Fresh
        /\ Then(w, Idle)
        /\ UNCHANGED page
     \/ /\ worker[w].conf.page /\ ~Fresh
        /\ page' = None
        /\ Then(w, [Past(w) EXCEPT !.conf = Idle.conf])
  /\ UNCHANGED <<db, toggle, settings, blocks, object, edits, shown>>

\* ItemBySlug, which does not ask for the toggle.
LoadItem(w) ==
  /\ At(w, "item")
  /\ IF object # None THEN Then(w, [Past(w) EXCEPT !.draft.item = object])
     ELSE Instead(w, <<"itemRead", "itemFill">>)
  /\ UNCHANGED <<db, Cached, edits, shown>>

ReadItem(w) ==
  /\ At(w, "itemRead")
  /\ Then(w, [Past(w) EXCEPT !.draft.item = db.content.item])
  /\ UNCHANGED <<db, Cached, edits, shown>>

FillItem(w) ==
  /\ At(w, "itemFill")
  /\ object' = worker[w].draft.item
  /\ Proceed(w)
  /\ UNCHANGED <<db, toggle, settings, blocks, page, edits, shown>>

\* ApprovedComments reads the database.
ReadComments(w) ==
  /\ At(w, "comment")
  /\ Then(w, [Past(w) EXCEPT !.draft.comment = db.content.comment])
  /\ UNCHANGED <<db, Cached, edits, shown>>

\* BlocksForSpace: only its start depends on the toggle.
LoadBlocks(w) ==
  /\ At(w, "block")
  /\ \/ NeedsToggle(w)
     \/ /\ toggle = "on" /\ blocks # None
        /\ Then(w, [Past(w) EXCEPT !.draft.block = blocks])
        /\ UNCHANGED <<db, Cached, edits, shown>>
     \/ /\ toggle = "on" /\ blocks = None
        /\ Instead(w, <<"blockRead", "blockFill">>)
        /\ UNCHANGED <<db, Cached, edits, shown>>
     \/ /\ toggle = "off"
        /\ Instead(w, <<"blockRead">>)
        /\ UNCHANGED <<db, Cached, edits, shown>>

ReadBlocks(w) ==
  /\ At(w, "blockRead")
  /\ Then(w, [Past(w) EXCEPT !.draft.block = db.content.block])
  /\ UNCHANGED <<db, Cached, edits, shown>>

FillBlocks(w) ==
  /\ At(w, "blockFill")
  /\ blocks' = worker[w].draft.block
  /\ Proceed(w)
  /\ UNCHANGED <<db, toggle, settings, object, page, edits, shown>>

\* SetPage, unless the response is not one to cache.
Keep(w) ==
  /\ At(w, "keep")
  /\ page' \in {page, [shows |-> worker[w].draft, age |-> 0]}
  /\ Proceed(w)
  /\ UNCHANGED <<db, toggle, settings, blocks, object, edits, shown>>

----------------------------------------------------------------------------
\* Changes

Write(w) ==
  /\ \/ At(w, "writeItem") /\ db' = [db EXCEPT !.content.item = @ + 1]
     \/ At(w, "writeComment") /\ db' = [db EXCEPT !.content.comment = @ + 1]
     \/ At(w, "writeBlock") /\ db' = [db EXCEPT !.content.block = @ + 1]
     \/ At(w, "writeGeneral") /\ db' = [db EXCEPT !.general = worker[w].conf]
  /\ Proceed(w)
  /\ Settle(w)
  /\ UNCHANGED <<Cached, edits>>

\* A later write of the same operation (tags, groups, field values) fails: the
\* handler returns without dropping anything.
Fail(w) ==
  /\ \/ worker[w].op = "edit" /\ At(w, "flushPages")
     \/ worker[w].op = "block" /\ At(w, "dropBlocks")
  /\ Then(w, Idle)
  /\ UNCHANGED <<db, Cached, edits, shown>>

\* Mutant: a save of the general settings leaves their cached copy.
DropSettingsMisses(w) ==
  /\ \/ At(w, "dropSettings") /\ UNCHANGED <<settings, toggle, blocks>>
     \/ At(w, "dropBlocks") /\ blocks' = None /\ UNCHANGED <<toggle, settings>>
     \/ At(w, "dropToggle") /\ toggle' = "unknown" /\ UNCHANGED <<settings, blocks>>
     \/ /\ At(w, "setToggle")
        /\ toggle' = IF worker[w].conf.memory THEN "on" ELSE "off"
        /\ UNCHANGED <<settings, blocks>>
  /\ Proceed(w) /\ Settle(w)
  /\ UNCHANGED <<db, object, page, edits>>

\* InvalidateSettings, InvalidateBlocks, invalidateToggle, SetToggle.
Drop(w) ==
  /\ \/ At(w, "dropSettings") /\ settings' = None /\ UNCHANGED <<toggle, blocks>>
     \/ At(w, "dropBlocks") /\ blocks' = None /\ UNCHANGED <<toggle, settings>>
     \/ At(w, "dropToggle") /\ toggle' = "unknown" /\ UNCHANGED <<settings, blocks>>
     \/ /\ At(w, "setToggle")
        /\ toggle' = IF worker[w].conf.memory THEN "on" ELSE "off"
        /\ UNCHANGED <<settings, blocks>>
  /\ Proceed(w) /\ Settle(w)
  /\ UNCHANGED <<db, object, page, edits>>

\* InvalidateSitePages, then InvalidateSiteObjects.
Flushes(w) ==
  /\ \/ At(w, "flushPages") /\ page' = None /\ UNCHANGED object
     \/ At(w, "flushObjects") /\ object' = None /\ UNCHANGED page
  /\ Proceed(w) /\ Settle(w)
  /\ UNCHANGED <<db, toggle, settings, blocks, edits>>

----------------------------------------------------------------------------
\* The caches on their own

\* An entry is evicted to make room for others (lrucache.Set).
Evict ==
  /\ \/ settings' = None /\ UNCHANGED <<blocks, object, page>>
     \/ blocks' = None /\ UNCHANGED <<settings, object, page>>
     \/ object' = None /\ UNCHANGED <<settings, blocks, page>>
     \/ page' = None /\ UNCHANGED <<settings, blocks, object>>
  /\ UNCHANGED <<db, toggle, worker, edits, shown>>

\* Time passes.
Tick ==
  /\ Fresh
  /\ page' = [page EXCEPT !.age = @ + 1]
  /\ UNCHANGED <<db, toggle, settings, blocks, object, worker, edits, shown>>

----------------------------------------------------------------------------

Step(w) ==
  \/ ToggleRead(w) \/ ToggleSet(w) \/ LoadGeneral(w) \/ ReadGeneral(w) \/ FillGeneral(w)
  \/ Lookup(w) \/ LoadItem(w) \/ ReadItem(w) \/ FillItem(w) \/ ReadComments(w)
  \/ LoadBlocks(w) \/ ReadBlocks(w) \/ FillBlocks(w) \/ Keep(w)
  \/ Write(w) \/ Drop(w) \/ Flushes(w)

Next ==
  \/ \E w \in Worker : BeginView(w) \/ BeginChange(w) \/ Step(w) \/ Fail(w)
  \/ Evict
  \/ Tick

Spec == Init /\ [][Next]_vars

\* Time passes; nobody has to ask for a page, and no goroutine has to go on.
FairSpec == Spec /\ WF_vars(Tick)

----------------------------------------------------------------------------
\* Properties

Current(s) ==
  CASE s = "item" -> /\ object \in {None, db.content.item}
                     /\ page # None => page.shows.item = db.content.item
    [] s = "comment" -> page # None => page.shows.comment = db.content.comment
    [] s = "block" -> /\ blocks \in {None, db.content.block}
                      /\ page # None => page.shows.block = db.content.block
    [] OTHER -> /\ settings \in {None, db.general}
                /\ toggle \in {"unknown", IF db.general.memory THEN "on" ELSE "off"}

\* A change that no page view overlaps is complete when its handler returns:
\* however later views, other changes, evictions and reloads mix, no cache shows
\* what was there before it.  (A view that overlaps the change may put back what
\* the change has dropped; approving or deleting a comment drops nothing.)
ChangesShow == \A s \in shown : Current(s)

\* A page that shows comments as they were goes out of date, however often it is
\* asked for.
PagesTurnOver ==
  (Fresh /\ page.shows.comment # db.content.comment)
    ~> ~(Fresh /\ page.shows.comment # db.content.comment)

=============================================================================
