------------------------------- MODULE MCContent -------------------------------
(***************************************************************************)
(* Instances of Content.                                                   *)
(***************************************************************************)
EXTENDS Reading

CONSTANTS ta, tb, tc, public, members, user, a1, a2

Copies == [t \in {ta, tb, tc} |-> tc]

Shown(t, status, c) == [NewItem EXCEPT !.text = t, !.slug = <<t, 0>>, !.status = status, !.category = c]
TwoAPage == [size |-> 2, paged |-> TRUE, leading |-> 3, related |-> "inherit"]
AllAtOnce == [size |-> 1, paged |-> FALSE, leading |-> 1, related |-> "no"]
OneAPage == [size |-> 1, paged |-> TRUE, leading |-> 2, related |-> "yes"]
Root == [status |-> "active", parent |-> None, inherits |-> FALSE, fields |-> "g", sort |-> 0, slug |-> <<<<"r", 0>>>>,
         list |-> OneAPage]
Below(p, name) == [status |-> "active", parent |-> p, inherits |-> TRUE, fields |-> None, sort |-> 0,
                   slug |-> <<<<"r", 0>>, <<name, 0>>>>, list |-> TwoAPage]
First == [row |-> Kept([Shown(tb, "draft", None) EXCEPT !.featured = TRUE]), tags |-> {"t", "u"},
          groups |-> {members}, values |-> {<<31, tb>>}]
Second == [row |-> Kept(Shown(ta, "published", 21)), tags |-> {"t"}, groups |-> {public}, values |-> {<<31, ta>>}]

\* Item 1 is published (4 for members, 5 for everyone), with two revisions, a tag, a value of a field that its category
\* inherits, and a comment; item 2 is in the trash.
Running ==
  {<<"item", 1, Shown(ta, "published", 22)>>, <<"item", 2, Shown(tb, "trashed", None)>>,
   <<"revision", 1, 1, First>>, <<"revision", 1, 2, Second>>,
   <<"tag", "t", "named">>, <<"tagged", 1, "t">>, <<"sees", 1, public>>, <<"sees", 2, public>>,
   <<"value", 1, 32, ta>>, <<"indexed", 1, ta, {<<32, ta>>}>>, <<"indexed", 2, tb, {}>>,
   <<"value", 2, 31, tb>>, <<"comment", 41, [item |-> 1, approved |-> TRUE]>>,
   <<"category", 21, Root>>, <<"category", 22, Below(21, "a")>>, <<"category", 23, Below(22, "b")>>,
   <<"sees", 21, public>>, <<"sees", 22, public>>, <<"sees", 23, public>>,
   <<"item", 4, [Shown(tb, "published", 22) EXCEPT !.slug = <<tb, 1>>, !.featured = TRUE, !.group = 4, !.author = user]>>,
   <<"sees", 4, members>>, <<"tagged", 4, "t">>,
   <<"item", 5, [Shown(tc, "published", 23) EXCEPT !.featured = TRUE, !.place = 1, !.group = 4, !.sort = 1]>>,
   <<"group", public, [status |-> "active"]>>, <<"group", members, [status |-> "active"]>>,
   <<"user", user, [status |-> "active"]>>, <<"member", user, members>>,
   <<"fieldgroup", "g", "named">>, <<"field", 31, [group |-> "g", status |-> "active", sort |-> 0]>>,
   <<"field", 32, [group |-> "g", status |-> "active", sort |-> 0]>>}
Sites == {Running}

\* Items 1 and 4 were made at one moment, and every other page has them the other way round.
Moments == [i \in Item |-> IF i = 4 THEN 1 ELSE i]
Whims == [n \in 1..6 |-> [i \in Item |-> IF n % 2 = 1 THEN i ELSE 10 - i]]

Form == [text |-> tb, slug |-> None, status |-> "pending", featured |-> TRUE, category |-> 23, sort |-> 1, author |-> user,
         groups |-> {members}, tags |-> {"t", "u"}, values |-> [f \in {31, 32} |-> IF f = 31 THEN tc ELSE None],
         link |-> 2, publish |-> TRUE, submit |-> FALSE]
Changed == [status |-> "active", parent |-> 21, inherits |-> FALSE, fields |-> None, sort |-> 1, name |-> "b",
            groups |-> {public}, list |-> AllAtOnce]

Writing ==
  {<<"itemForm", 1, Form>>, <<"itemForm", 3, [Form EXCEPT !.link = None, !.category = None]>>,
   <<"itemForm", 1, [Form EXCEPT !.slug = <<tb, 0>>]>>, <<"itemForm", 2, [Form EXCEPT !.groups = {}]>>,
   <<"frontendForm", 1, [Form EXCEPT !.text = tc, !.tags = {}]>>, <<"frontendForm", 2, [Form EXCEPT !.submit = TRUE]>>,
   <<"rollback", 1, 1>>, <<"rollback", 1, 2>>, <<"clone", 1, 3>>, <<"deleteItem", 1>>, <<"emptyTrash">>,
   <<"bulkItems", <<"tags", {"t"}>>, {1, 2}>>, <<"bulkItems", <<"category", 23>>, {1, 2}>>,
   <<"itemMove", 2, -1>>, <<"featuredMove", 1, -1>>, <<"comment", 42, 1>>, <<"tagForm", "u">>, <<"tagDelete", "t">>,
   <<"fieldGroupForm", "g">>, <<"fieldGroupDelete", "g">>, <<"fieldForm", 32, "g", "inactive", 1>>, <<"fieldDelete", 32>>,
   <<"fieldMove", 32, "g", -1>>}
Editing ==
  {<<"bulkItems", <<"status", "archived">>, {1}>>, <<"bulkItems", <<"trash">>, {1, 3}>>,
   <<"bulkItems", <<"restore">>, {1, 2}>>, <<"bulkItems", <<"decide", "approve">>, {1}>>,
   <<"submitReview", 1>>, <<"preview", 1>>, <<"toggle", "group", members>>,
   <<"toggle", "group", public>>, <<"featuredForm", TwoAPage>>, <<"moderate", 41, FALSE>>, <<"commentDelete", 41>>,
   <<"categoryForm", 23, Changed>>, <<"categoryForm", 24, [Changed EXCEPT !.parent = 22]>>,
   <<"categoryDelete", 22>>, <<"toggle", "category", 22>>, <<"toggle", "field", 31>>, <<"categoryMove", 23, -1>>}
Work == (a1 :> Writing) @@ (a2 :> Editing)

\* What the theorem about NoLeftovers asks of the requests and of a start.
ASSUME MCTheoremsAssumption == OneForItems(a1) /\ OwnedAtStart

================================================================================
