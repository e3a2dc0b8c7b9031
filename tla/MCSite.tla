-------------------------------- MODULE MCSite --------------------------------
(***************************************************************************)
(* Instances of Site.                                                      *)
(***************************************************************************)
EXTENDS Site

CONSTANTS main, top, side, public, members, a1, a2

\* The editor of content and the login are built in; there are custom routes that take
\* everything, lead home from below /content, and show one item.
Patterns ==
  (1 :> [path |-> <<"content", "edit">>, wild |-> TRUE]) @@ (2 :> [path |-> <<>>, wild |-> TRUE])
  @@ (3 :> [path |-> <<"content">>, wild |-> TRUE]) @@ (4 :> [path |-> <<"content", "edit", "a">>, wild |-> FALSE])
  @@ (5 :> [path |-> <<"auth", "login">>, wild |-> FALSE])
Paths == {<<>>, <<"content", "edit", "a">>, <<"content", "b">>, <<"auth", "login">>}

Redirects == (3 :> <<>>)

\* A site with the built-in routes (1 and 5) and two custom ones, a menu of three items, two of them
\* with the same sort, and two blocks in one space.
Running ==
  {<<"route", 1, "active">>, <<"sort", 1, 0>>, <<"route", 5, "active">>, <<"sort", 5, 0>>, <<"route", 2, "active">>, <<"sort", 2, 0>>,
   <<"default", 2, TRUE>>, <<"route", 3, "inactive">>, <<"sort", 3, 0>>,
   <<"menu", main, "active">>,
   <<"item", 11, "active">>, <<"of", 11, main>>, <<"sort", 11, 1>>, <<"goes", 11, 2>>,
   <<"item", 12, "active">>, <<"of", 12, main>>, <<"sort", 12, 1>>, <<"parent", 12, 11>>,
   <<"item", 13, "active">>, <<"of", 13, main>>, <<"sort", 13, 1>>, <<"parent", 13, 12>>,
   <<"block", 21, "active">>, <<"in", 21, top, 0>>, <<"block", 22, "active">>, <<"in", 22, top, 0>>,
   <<"group", public, "active">>, <<"group", members, "active">>, <<"sees", 12, members>>}
  \cup {<<"sees", x, public>> : x \in {1, 2, 3, 5, 11, 13, 21, 22}}
Fresh == {<<"group", public, "active">>, <<"group", members, "inactive">>}
Sites == {Running, Fresh}
Widgets == [b \in {22} |-> side]

Items ==
  {<<"itemForm", 11, main, 13, 3, "active", {public}>>, <<"itemForm", 12, main, None, None, "inactive", {public}>>,
   <<"itemForm", 13, main, 11, 3, "active", {}>>, <<"itemDelete", 12>>, <<"itemToggle", 12>>,
   <<"itemMove", 13, -1>>}
RoutesAndItems ==
  Items \cup {<<"routeForm", 3, "active", TRUE, {members}, main, 12>>, <<"routeForm", 2, "active", FALSE, {}, None, None>>,
   <<"routeDelete", 2>>, <<"routeToggle", 3>>, <<"routeToggle", 5>>, <<"routeMove", 3, -1>>, <<"routeApply", {2, 3}>>,
   <<"routeApply", {4}>>, <<"routeForm", 4, "active", FALSE, {public}, None, None>>,
   <<"ensureDefaultRoute">>}
MenusAndBlocks ==
  {<<"menuForm", main, "active">>, <<"menuDelete", main>>, <<"menuToggle", main>>,
   <<"blockForm", 21, "active", {side}, {members}>>, <<"blockForm", 22, "inactive", {}, {}>>,
   <<"blockDelete", 21>>, <<"blockToggle", 22>>, <<"blockMove", 22, top, -1>>, <<"dashboard">>,
   <<"groupToggle", members>>, <<"activate">>}
Work == (a1 :> RoutesAndItems) @@ (a2 :> MenusAndBlocks \cup {<<"menu", main>>, <<"space", top>>})

\* What the theorems about Answered and MenuShowsAll ask of the routes and of a start.
ASSUME MCTheoremsAssumption == RoutesLead /\ StartsUnreserved /\ MenusSoundAtStart

\* Two who edit items at the same time.
Pair == (a1 :> Items) @@ (a2 :> Items)

===============================================================================
