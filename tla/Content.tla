-------------------------------- MODULE Content --------------------------------
(***************************************************************************)
(* Items with their revisions, tags, custom fields, comments and search    *)
(* index, and the categories they are in (src/internal/content, the admin  *)
(* handlers of all these, and the edit form of the site).  One locale; the *)
(* search index is there; nothing of this is cached.                       *)
(***************************************************************************)
EXTENDS Integers, FiniteSets, Steps

CONSTANTS Item, Category, Field,  \* ids
          Text,                   \* titles and what is written below them
          Copy,                   \* Copy[t]: the title of a clone (cloneItemTitle)
          MaxRevisions,           \* of an item (maxItemRevisions)
          AutoApprove,            \* comments need no approval (settings)
          None, Worker, Start, Does, MaxChanges, MaxFaults

ASSUME ContentIdsAssumption ==
  /\ Item \cup Category \cup Field \subseteq Nat /\ IsFiniteSet(Item \cup Category \cup Field \cup Text)
  /\ MaxRevisions \in Nat \ {0}
  /\ Copy \in [Text -> Text] /\ AutoApprove \in BOOLEAN

\* What may be asked for: the handlers, with what a toggle and a bulk action may be of.
Handler ==
  {"itemForm", "frontendForm", "rollback", "clone", "deleteItem", "emptyTrash", "bulkItems", "submitReview", "itemMove",
   "featuredMove", "preview", "comment", "moderate", "commentDelete", "tagForm", "tagDelete", "categoryForm", "featuredForm",
   "categoryDelete", "categoryMove", "toggle", "fieldGroupForm", "fieldGroupDelete", "fieldForm", "fieldDelete", "fieldMove"}
BulkAction == {"status", "trash", "restore", "decide", "delete", "category", "tags"}
Handled(op) ==
  /\ op[1] \in Handler
  /\ op[1] = "toggle" => op[2] \in {"category", "field", "group", "user"}
  /\ op[1] = "bulkItems" => op[2][1] \in BulkAction
\* The types that columns and the fields of forms have: of an item its id and what it is sorted
\* by, how a category lists its items, and what a revision keeps.
Listings == [size : Int, paged : BOOLEAN, leading : Int, related : {"inherit", "yes", "no"}]
Sorted(row) == {"sort", "place"} \subseteq DOMAIN row /\ row.sort \in Int /\ row.place \in Int
TypedRow(r) ==
  /\ r[1] = "item" => r[2] \in Item /\ Sorted(r[3])
  /\ r[1] = "revision" => Sorted(r[4].row) /\ IsFiniteSet(r[4].values)
  /\ r[1] = "category" => "list" \in DOMAIN r[3] /\ r[3].list \in Listings
  /\ r[1] = "settings" => r[3] \in Listings
Typed(rows) == \A r \in rows : TypedRow(r)
TypedOp(op) ==
  /\ op[1] \in {"itemForm", "frontendForm"} => op[2] \in Item
  /\ op[1] = "itemForm" => op[3].sort \in Int
  /\ op[1] = "clone" => op[3] \in Item
  /\ op[1] = "categoryForm" => op[3].list \in Listings
  /\ op[1] = "featuredForm" => op[2] \in Listings

ASSUME ContentDoesAssumption ==
  /\ \A w \in Worker : \A op \in Does[w] : Handled(op) /\ TypedOp(op)
  /\ \A rows \in Start : Typed(rows)

VARIABLES db, cached, worker, changes, faults, doubtful

vars == <<db, cached, worker, changes, faults, doubtful>>

\* Rows: <<table, id, columns>> for an item, a category, a field, a tag or a comment,
\* <<table, one id, the other>> for a link, <<"value", item, field, value>>,
\* <<"revision", item, number, snapshot>> and <<"indexed", item, text, values>>.
Has(what, x, rows) == \E r \in rows : r[1] = what /\ r[2] = x
Of(what, x, rows) == {r \in rows : r[1] = what /\ r[2] = x}
The(what, x, rows) == (CHOOSE r \in Of(what, x, rows) : TRUE)[3]
Linked(what, x, rows) == {r[3] : r \in Of(what, x, rows)}
Ids(what, rows) == {r[2] : r \in {s \in rows : s[1] = what}}
Values(i, rows) == {v \in Field \X Text : <<"value", i, v[1], v[2]>> \in rows}
SlugsOf(what, x, rows) == {r[3].slug : r \in {s \in rows : s[1] = what /\ s[2] # x}}
Numbers(i, rows) == Linked("revision", i, rows)
Newest(i, rows) == CHOOSE r \in Of("revision", i, rows) : \A n \in Numbers(i, rows) : n <= r[3]

\* A statement that an index or a foreign key forbids.
Fails == Needing({{}}, Statement)

\* The columns of an item that its revisions do not keep are group, of translations,
\* and token, for the preview.
Kept(row) == [text |-> row.text, slug |-> row.slug, status |-> row.status, featured |-> row.featured,
              author |-> row.author, place |-> row.place, category |-> row.category, sort |-> row.sort]
NewItem == [text |-> None, slug |-> None, status |-> "draft", featured |-> FALSE, place |-> 0,
            author |-> None, category |-> None, sort |-> 0, group |-> None, token |-> FALSE]
Snapshot(i, rows) ==
  [row |-> Kept(The("item", i, rows)), tags |-> Linked("tagged", i, rows),
   groups |-> Linked("sees", i, rows), values |-> Values(i, rows)]

----------------------------------------------------------------------------
\* Statements whose rows the database finds

\* gorm Save and Create: the row, whatever there was.  Of what was loaded with it, links
\* come back, and rows that are gone.
Put(what, x, row, read, rows) ==
  <<IF what \in {"item", "category"} /\ row.slug \in SlugsOf(what, x, rows) THEN Fails
    ELSE Write(Of(what, x, rows), {<<what, x, row>>} \cup
               {r \in read : r[1] \in {"tagged", "sees"} \/ ~Has(r[1], r[2], rows)})>>

Set(what, x, column, v, rows) ==
  <<IF Has(what, x, rows)
    THEN Save(Of(what, x, rows), <<what, x, [The(what, x, rows) EXCEPT ![column] = v]>>) ELSE Statement>>

\* Where(...).Delete; links hold what they refer to.
DeleteRows(what, x, rows) ==
  LET links == CASE what \in {"item", "category"} -> Of("sees", x, rows) \cup Of("tagged", x, rows)
                 [] what = "tag" -> {r \in rows : r[1] = "tagged" /\ r[3] = x}
                 [] OTHER -> {}
  IN <<IF links # {} THEN Fails ELSE Delete(Of(what, x, rows))>>
DeleteOf(what, x) == Where(<<"delete", what, x>>)
TryDelete(what, x) == Where(<<"tryDelete", what, x>>)
Unlink(what, x, Y, rows) == <<Delete({r \in Of(what, x, rows) : r[3] \notin Y})>>

LinkGroups(x, G, rows) ==
  <<IF Has("item", x, rows) \/ Has("category", x, rows) THEN Link({<<"sees", x, g>> : g \in G}) ELSE Fails>>

\* Tags that are gone are made again first, as they were read; of those without a name,
\* whose slug is empty, there is one at most.
LinkTags(i, read, rows) ==
  LET missing == {t \in read : ~Has("tag", t[2], rows)}
      nameless == {t \in rows \cup missing : t[1] = "tag" /\ t[3] = "nameless"}
  IN <<IF Has("item", i, rows) /\ Cardinality(nameless) <= 1
       THEN Link(missing \cup {<<"tagged", i, t[2]>> : t \in read}) ELSE Fails>>

----------------------------------------------------------------------------
\* Steps several handlers use

\* Association(...).Replace: the new links, then the others go.
ReplaceTags(i, read) ==
  When(read # {}, <<Where(<<"linkTags", i, read>>)>>)
  \o <<Where(<<"unlink", "tagged", i, {t[2] : t \in read}>>)>>
Nameless(T) == {<<"tag", t, "nameless">> : t \in T}   \* models.Tag{TagID: id}
ReplaceGroups(x, G) ==
  When(G # {}, <<Where(<<"linkGroups", x, G>>)>>) \o <<Where(<<"unlink", "sees", x, G>>)>>

\* An empty selection ends the form with an error.
ReplaceFormGroups(x, G) == IF G = {} THEN <<Return>> ELSE ReplaceGroups(x, G)

\* The slug (candidate[n] with the number n, 0 for none) that is not taken.
FirstFree(candidate, taken) ==
  candidate[CHOOSE n \in DOMAIN candidate :
              candidate[n] \notin taken /\ \A m \in 0..(n - 1) : candidate[m] \in taken]
UniqueItemSlug(i, text, rows) ==
  LET taken == SlugsOf("item", i, rows)
  IN FirstFree([n \in 0..Cardinality(taken) |-> <<text, n>>], taken)

----------------------------------------------------------------------------
\* Custom fields

\* ResolveCategorySettings: up the parents while settings are inherited.
SettingsOf(c, rows) ==
  LET up[n \in Nat] ==
        IF n = 0 THEN c
        ELSE LET d == up[n - 1]  row == The("category", d, rows) IN
             IF row.inherits /\ row.parent # None /\ Has("category", row.parent, rows) THEN row.parent ELSE d
  IN up[Cardinality(Category)]

FieldsOf(g, rows) == {f \in Field : Has("field", f, rows) /\ The("field", f, rows).group = g}
\* The active fields of the category's group, or of the one it inherits.
FieldsForCategory(c, rows) ==
  IF c = None \/ ~Has("category", c, rows) THEN {}
  ELSE LET own == The("category", c, rows).fields
           group == IF own # None THEN own ELSE The("category", SettingsOf(c, rows), rows).fields
       IN {f \in FieldsOf(group, rows) : The("field", f, rows).status = "active"}

ValueOf(i, f) == {<<"value", i, f, t>> : t \in Text}
CreateValue(i, f, v) == Insert(<<"value", i, f, v>>, ValueOf(i, f))
CreateValues(i, V) == Each(V, LAMBDA v : CreateValue(i, v[1], v[2]))

\* SaveItemFieldValues, one field.
SaveValue(i, f, v, rows) ==
  IF ValueOf(i, f) \cap rows = {} THEN When(v # None, <<CreateValue(i, f, v)>>)
  ELSE <<Write(ValueOf(i, f), IF v = None THEN {} ELSE {<<"value", i, f, v>>})>>

\* copyItemFieldValues.
CopyValues(i, new, rows) == CreateValues(new, Values(i, rows))

----------------------------------------------------------------------------
\* Revisions

\* CreateItemRevision: what the database has of the item now.
CreateItemRevision(i, rows) ==
  IF ~Has("item", i, rows) THEN <<Return>>
  ELSE LET next == 1 + FoldSet(LAMBDA m, n : IF m > n THEN m ELSE n, 0, Numbers(i, rows))
       IN <<Link({<<"revision", i, next, Snapshot(i, rows)>>}), Call(<<"prune", i>>)>>

\* Mutant: the newest revisions go.
PruneNewest(i, rows) ==
  LET old == {r \in Of("revision", i, rows) : Cardinality({n \in Numbers(i, rows) : n < r[3]}) >= MaxRevisions}
  IN When(old # {}, <<Delete(old)>>)

\* pruneItemRevisions.
Prune(i, rows) ==
  LET old == {r \in Of("revision", i, rows) : Cardinality({n \in Numbers(i, rows) : n > r[3]}) >= MaxRevisions}
  IN When(old # {}, <<Delete(old)>>)

\* RollbackItemRevision: the revision is read before a new one is made.
Rollback(i, n, rows) ==
  LET found == {r \in Of("revision", i, rows) : r[3] = n} IN
  IF ~Has("item", i, rows) \/ found = {} THEN <<Return>>
  ELSE <<Call(<<"revise", i>>), Call(<<"restoreFrom", i, (CHOOSE r \in found : TRUE)[4]>>)>>

\* The columns that a revision keeps.
Restored(kept, row) == [column \in DOMAIN row |-> IF column \in DOMAIN kept THEN kept[column] ELSE row[column]]

\* Mutant: values the revision does not have stay.
RestoreOver(i, snap, rows) ==
  IF ~Has("item", i, rows) THEN <<Return>>
  ELSE <<Where(<<"put", "item", i, Restored(snap.row, The("item", i, rows)), {}>>)>>
       \o ReplaceTags(i, Nameless(snap.tags)) \o ReplaceGroups(i, snap.groups)
       \o Each(snap.values, LAMBDA v : Call(<<"saveValue", i, v[1], v[2]>>))

\* Tags come back without a name; the search index stays as it is.
RestoreFrom(i, snap, rows) ==
  IF ~Has("item", i, rows) THEN <<Return>>
  ELSE <<Where(<<"put", "item", i, Restored(snap.row, The("item", i, rows)), {}>>)>>
       \o ReplaceTags(i, Nameless(snap.tags)) \o ReplaceGroups(i, snap.groups)
       \o <<DeleteOf("value", i)>> \o CreateValues(i, snap.values)

----------------------------------------------------------------------------
\* The search index

\* UpsertSearchIndex: the text as the caller has it, and the values there are.
UpsertSearchIndex(i, text, rows) ==
  <<DeleteOf("indexed", i),
    Link({<<"indexed", i, text, {v \in Values(i, rows) : Has("field", v[1], rows)}>>})>>

----------------------------------------------------------------------------
\* Items

\* What is loaded with an item; saving it brings that back, its category among it.
CategoryRow(i, rows) == LET c == The("item", i, rows).category IN IF c = None THEN {} ELSE Of("category", c, rows)
Loaded(i, with, rows) == CategoryRow(i, rows) \cup (UNION {Of(what, i, rows) : what \in with})
                         \cup {r \in rows : r[1] = "tag" /\ r[2] \in Linked("tagged", i, rows)}
\* The category of the form, unless one was loaded: gorm sets the column to that.
CategoryOf(form, read) ==
  LET loaded == {r \in read : r[1] = "category"} IN
  IF loaded = {} THEN form.category ELSE (CHOOSE r \in loaded : TRUE)[2]
SlugFor(i, form, rows) == IF form.slug = None THEN UniqueItemSlug(i, form.text, rows) ELSE form.slug
SaveValues(i, form, rows) ==
  Each(FieldsForCategory(form.category, rows), LAMBDA f : Call(<<"saveValue", i, f, form.values[f]>>))

\* itemForm.
ItemForm(i, form, rows) ==
  IF Has("item", i, rows)
  THEN <<Call(<<"saveItem", i, form, The("item", i, rows), Loaded(i, {"tagged", "sees"}, rows)>>)>>
  ELSE <<Call(<<"saveItem", i, form, NewItem, {}>>)>>

\* The number of other featured items, when the item becomes one.
FeaturedSort(i, form, row, rows) ==
  LET others == {j \in Ids("item", rows) \ {i} : The("item", j, rows).featured} IN
  IF ~form.featured THEN row.place
  ELSE IF Has("item", i, rows) /\ The("item", i, rows).featured THEN The("item", i, rows).place
  ELSE Cardinality(others)

\* Mutant: the index is written before the values.
SaveItemIndexFirst(i, form, row, read, rows) ==
  LET new == [row EXCEPT !.text = form.text, !.slug = SlugFor(i, form, rows), !.status = form.status,
                !.featured = form.featured, !.place = FeaturedSort(i, form, row, rows),
                !.category = CategoryOf(form, read), !.sort = form.sort, !.author = form.author]
  IN When(row # NewItem, <<Call(<<"revise", i>>)>>) \o <<Where(<<"put", "item", i, new, read>>)>>
     \o ReplaceFormGroups(i, form.groups) \o ReplaceTags(i, Nameless(form.tags))
     \o <<Call(<<"index", i, form.text>>)>> \o SaveValues(i, form, rows)

\* saveItemFromForm.
SaveItem(i, form, row, read, rows) ==
  LET new == [row EXCEPT !.text = form.text, !.slug = SlugFor(i, form, rows), !.status = form.status,
                !.featured = form.featured, !.place = FeaturedSort(i, form, row, rows),
                !.category = CategoryOf(form, read), !.sort = form.sort, !.author = form.author]
  IN When(row # NewItem, <<Call(<<"revise", i>>)>>) \o <<Where(<<"put", "item", i, new, read>>)>>
     \o ReplaceFormGroups(i, form.groups) \o ReplaceTags(i, Nameless(form.tags))
     \o SaveValues(i, form, rows)
     \o When(form.link # None, <<Call(<<"link", i, form.link>>)>>)
     \o <<Call(<<"index", i, form.text>>)>>

\* saveFrontendItem: no revision, no groups, no index; the status of those who may publish.
FrontendForm(i, form, rows) ==
  LET known == Has("item", i, rows)
      row == IF known THEN The("item", i, rows) ELSE NewItem
      read == IF known THEN Loaded(i, {"tagged"}, rows) ELSE {}
      status == IF form.submit THEN "pending"
                ELSE IF form.publish THEN (IF form.status = "published" THEN "published" ELSE "draft")
                ELSE row.status
      new == [row EXCEPT !.text = form.text, !.slug = SlugFor(i, form, rows), !.status = status,
                !.featured = IF form.publish THEN form.featured ELSE @, !.category = CategoryOf(form, read)]
  IN <<Where(<<"put", "item", i, new, read>>)>> \o ReplaceTags(i, Nameless(form.tags)) \o SaveValues(i, form, rows)

\* LinkTranslation.
LinkTranslation(i, j, rows) ==
  IF i = j THEN <<>> ELSE IF ~Has("item", i, rows) \/ ~Has("item", j, rows) THEN <<Return>> ELSE
  LET groups == <<The("item", i, rows).group, The("item", j, rows).group, i>>
      group == Head(SelectSeq(groups, LAMBDA g : g # None))
  IN <<Where(<<"regroup", {i, j}, group>>)>>
Regroup(I, group, rows) ==
  LET old == {r \in rows : r[1] = "item" /\ r[2] \in I}
  IN <<Write(old, {<<"item", r[2], [r[3] EXCEPT !.group = group]>> : r \in old})>>

CloneItem(i, new, rows) ==
  IF ~Has("item", i, rows) THEN <<Return>> ELSE
  LET old == The("item", i, rows)  text == Copy[old.text]
      row == [NewItem EXCEPT !.text = text, !.slug = UniqueItemSlug(new, text, rows),
                !.category = old.category, !.sort = old.sort, !.author = old.author]
      T == {r \in rows : r[1] = "tag" /\ r[2] \in Linked("tagged", i, rows)}
      G == Linked("sees", i, rows)
  IN <<Where(<<"put", "item", new, row, {}>>)>> \o When(T # {}, ReplaceTags(new, T))
     \o When(G # {}, ReplaceGroups(new, G))
     \o <<Call(<<"copyValues", i, new>>), Call(<<"index", new, text>>)>>

\* Mutant: the comments stay.
DeleteItemOnly(i) ==
  <<TryDelete("indexed", i), TryDelete("sees", i), TryDelete("tagged", i), TryDelete("value", i),
    TryDelete("revision", i), DeleteOf("item", i)>>

\* DeleteItemPermanent: only the last error counts.
DeleteItem(i) ==
  <<TryDelete("indexed", i), TryDelete("sees", i), TryDelete("tagged", i), TryDelete("value", i),
    TryDelete("revision", i), Where(<<"deleteComments", i>>), DeleteOf("item", i)>>
DeleteComments(i, rows) == <<Ignored(Delete({r \in rows : r[1] = "comment" /\ r[3].item = i}))>>

\* TrashItem, RestoreItem and the decisions of a review.
TrashItem(i, rows) ==
  IF ~Has("item", i, rows) THEN <<Return>> ELSE <<Where(<<"set", "item", i, "status", "trashed">>)>>
RestoreItem(i, rows) ==
  IF ~Has("item", i, rows) \/ The("item", i, rows).status # "trashed" THEN <<Return>>
  ELSE <<Where(<<"set", "item", i, "status", "draft">>)>>
Decide(i, verdict, rows) ==
  IF Has("item", i, rows) /\ The("item", i, rows).status = "pending"
  THEN Set("item", i, "status", IF verdict = "approve" THEN "published" ELSE "draft", rows) ELSE <<Statement>>

\* itemBulk: one item, then the others, whatever became of it.
Bulk(op, I) ==
  TheFirst(I, LAMBDA i : LET others == Call(<<"bulkItems", op, I \ {i}>>)
                         IN <<Call(<<"bulk", op, i>>), Catch(<<others>>), others>>)
\* itemTrashEmpty: what is in the trash now.
EmptyTrash(rows) == Bulk(<<"delete">>, {i \in Ids("item", rows) : The("item", i, rows).status = "trashed"})
BulkOne(op, i, rows) ==
  CASE op[1] = "status" -> <<Where(<<"set", "item", i, "status", op[2]>>)>>
    [] op[1] = "trash" -> TrashItem(i, rows)
    [] op[1] = "restore" -> RestoreItem(i, rows)
    [] op[1] = "decide" -> <<Where(<<"decide", i, op[2]>>)>>
    [] op[1] = "delete" -> DeleteItem(i)
    [] op[1] = "category" -> <<Where(<<"set", "item", i, "category", op[2]>>)>>
    [] op[1] = "tags" -> When(Has("item", i, rows) /\ op[2] # {}, ReplaceTags(i, Nameless(op[2])))

\* itemReorder and itemFeaturedReorder; what is in the trash counts as well.
Column(what, column, rows) == [x \in Ids(what, rows) |-> The(what, x, rows)[column]]
Reorder(what, x, d, S, column, rows) ==
  LET sort == Column(what, column, rows) IN
  Renumber(Ordered(S, sort), x, d, sort,
           LAMBDA y, n : Where(<<"set", what, y, column, n>>))
Beside(what, x, column, rows) ==
  {y \in Item \cup Category : Has(what, y, rows) /\ The(what, y, rows)[column] = The(what, x, rows)[column]}
ItemReorder(i, d, rows) ==
  IF ~Has("item", i, rows) THEN <<Return>>
  ELSE Reorder("item", i, d, Beside("item", i, "category", rows), "sort", rows)
ItemFeaturedReorder(i, d, rows) ==
  IF ~Has("item", i, rows) THEN <<Return>>
  ELSE When(The("item", i, rows).featured,
            Reorder("item", i, d, Beside("item", i, "featured", rows), "place", rows))

\* EnsurePreviewToken; a token lasts.
EnsurePreviewToken(i, rows) ==
  IF ~Has("item", i, rows) THEN <<Return>>
  ELSE When(~The("item", i, rows).token, <<Where(<<"set", "item", i, "token", TRUE>>)>>)

----------------------------------------------------------------------------
\* Comments and tags

CreateComment(c, i, rows) ==
  IF ~Has("item", i, rows) THEN <<Return>>
  ELSE <<Where(<<"put", "comment", c, [item |-> i, approved |-> AutoApprove], {}>>)>>

\* A tag that is edited gets a name.
TagForm(t) == <<Where(<<"put", "tag", t, "named", {}>>)>>
TagDelete(t) == <<Where(<<"untag", t>>), DeleteOf("tag", t)>>
Untag(t, rows) == <<Ignored(Delete({r \in rows : r[1] = "tagged" /\ r[3] = t}))>>

----------------------------------------------------------------------------
\* Categories

\* The category and what is below it.
DescendantSet(c, C, rows) ==
  LET down[n \in Nat] ==
        IF n = 0 THEN {c}
        ELSE LET near == down[n - 1] IN near \cup {d \in C : The("category", d, rows).parent \in near}
  IN down[Cardinality(C)]

\* CategoryParentOptions, of the active categories: what the form offers as a parent.
ParentOptions(c, rows) ==
  LET C == {d \in Ids("category", rows) : The("category", d, rows).status = "active"}
  IN C \ DescendantSet(c, C, rows)

\* The slug of the parent, then the name, then a number if it is taken.
ResolveCategorySlug(c, form, rows) ==
  LET taken == SlugsOf("category", c, rows)
      above == IF form.parent # None /\ Has("category", form.parent, rows)
               THEN The("category", form.parent, rows).slug ELSE <<>>
  IN FirstFree([n \in 0..Cardinality(taken) |-> Append(above, <<form.name, n>>)], taken)

\* categoryForm, with a parent it has offered.
CategoryForm(c, form, rows) ==
  LET row == [status |-> form.status, parent |-> form.parent, inherits |-> form.inherits,
              fields |-> form.fields, sort |-> form.sort, list |-> form.list, slug |-> ResolveCategorySlug(c, form, rows)]
  IN When(form.parent = None \/ form.parent \in ParentOptions(c, rows),
          <<Where(<<"put", "category", c, row, Of("sees", c, rows)>>)>> \o ReplaceFormGroups(c, form.groups))

\* featuredCategoryForm: the listing of what is featured is not a row of categories.
FeaturedCategoryForm(list) == <<Where(<<"put", "settings", "featured", list, {}>>)>>

\* The children keep the id of a parent that is gone.
CategoryDelete(c, rows) ==
  When(Has("category", c, rows), <<TryDelete("sees", c), DeleteOf("category", c)>>)
CategoryReorder(c, d, rows) ==
  IF ~Has("category", c, rows) THEN <<Return>>
  ELSE Reorder("category", c, d, Beside("category", c, "parent", rows), "sort", rows)

\* postToggleModel: all columns as they were read, with the other status.
Toggle(what, x, rows) ==
  When(Has(what, x, rows),
       <<Where(<<"put", what, x, [The(what, x, rows) EXCEPT !.status = IF @ = "active" THEN "inactive" ELSE "active"], {}>>)>>)

----------------------------------------------------------------------------
\* Field groups and fields

\* fieldGroupForm saves the fields it has loaded, where they are gone.
FieldGroupForm(g, rows) ==
  <<Where(<<"put", "fieldgroup", g, "named", UNION {Of("field", f, rows) : f \in FieldsOf(g, rows)}>>)>>
FieldGroupDelete(g) == <<Where(<<"deleteFields", g>>), DeleteOf("fieldgroup", g)>>
DeleteFields(g, rows) == <<Ignored(Delete(UNION {Of("field", f, rows) : f \in FieldsOf(g, rows)}))>>
FieldForm(f, g, s, n) == <<Where(<<"put", "field", f, [group |-> g, status |-> s, sort |-> n], {}>>)>>
FieldReorder(f, g, d, rows) ==
  IF f \notin FieldsOf(g, rows) THEN <<Return>> ELSE Reorder("field", f, d, FieldsOf(g, rows), "sort", rows)

----------------------------------------------------------------------------

Plan(op, rows, c) ==
  CASE op[1] = "put" -> Put(op[2], op[3], op[4], op[5], rows)
    [] op[1] = "set" -> Set(op[2], op[3], op[4], op[5], rows)
    [] op[1] = "delete" -> DeleteRows(op[2], op[3], rows)
    [] op[1] = "tryDelete" -> <<Ignored(DeleteRows(op[2], op[3], rows)[1])>>
    [] op[1] = "unlink" -> Unlink(op[2], op[3], op[4], rows)
    [] op[1] = "linkGroups" -> LinkGroups(op[2], op[3], rows)
    [] op[1] = "linkTags" -> LinkTags(op[2], op[3], rows)
    [] op[1] = "saveValue" -> SaveValue(op[2], op[3], op[4], rows)
    [] op[1] = "copyValues" -> CopyValues(op[2], op[3], rows)
    [] op[1] = "revise" -> CreateItemRevision(op[2], rows)
    [] op[1] = "prune" -> Prune(op[2], rows)
    [] op[1] = "rollback" -> Rollback(op[2], op[3], rows)
    [] op[1] = "restoreFrom" -> RestoreFrom(op[2], op[3], rows)
    [] op[1] = "index" -> UpsertSearchIndex(op[2], op[3], rows)
    [] op[1] = "itemForm" -> ItemForm(op[2], op[3], rows)
    [] op[1] = "saveItem" -> SaveItem(op[2], op[3], op[4], op[5], rows)
    [] op[1] = "frontendForm" -> FrontendForm(op[2], op[3], rows)
    [] op[1] = "link" -> LinkTranslation(op[2], op[3], rows)
    [] op[1] = "regroup" -> Regroup(op[2], op[3], rows)
    [] op[1] = "clone" -> CloneItem(op[2], op[3], rows)
    [] op[1] = "deleteItem" -> DeleteItem(op[2])
    [] op[1] = "deleteComments" -> DeleteComments(op[2], rows)
    [] op[1] = "emptyTrash" -> EmptyTrash(rows)
    [] op[1] = "bulkItems" -> Bulk(op[2], op[3])
    [] op[1] = "bulk" -> BulkOne(op[2], op[3], rows)
    [] op[1] = "decide" -> Decide(op[2], op[3], rows)
    [] op[1] = "submitReview" -> <<Where(<<"set", "item", op[2], "status", "pending">>)>>
    [] op[1] = "itemMove" -> ItemReorder(op[2], op[3], rows)
    [] op[1] = "featuredMove" -> ItemFeaturedReorder(op[2], op[3], rows)
    [] op[1] = "preview" -> EnsurePreviewToken(op[2], rows)
    [] op[1] = "comment" -> CreateComment(op[2], op[3], rows)
    [] op[1] = "moderate" -> <<Where(<<"set", "comment", op[2], "approved", op[3]>>)>>
    [] op[1] = "commentDelete" -> <<DeleteOf("comment", op[2])>>
    [] op[1] = "tagForm" -> TagForm(op[2])
    [] op[1] = "tagDelete" -> TagDelete(op[2])
    [] op[1] = "untag" -> Untag(op[2], rows)
    [] op[1] = "categoryForm" -> CategoryForm(op[2], op[3], rows)
    [] op[1] = "featuredForm" -> FeaturedCategoryForm(op[2])
    [] op[1] = "categoryDelete" -> CategoryDelete(op[2], rows)
    [] op[1] = "categoryMove" -> CategoryReorder(op[2], op[3], rows)
    [] op[1] = "toggle" -> Toggle(op[2], op[3], rows)
    [] op[1] = "fieldGroupForm" -> FieldGroupForm(op[2], rows)
    [] op[1] = "fieldGroupDelete" -> FieldGroupDelete(op[2])
    [] op[1] = "deleteFields" -> DeleteFields(op[2], rows)
    [] op[1] = "fieldForm" -> FieldForm(op[2], op[3], op[4], op[5])
    [] op[1] = "fieldDelete" -> <<TryDelete("field", op[2])>>
    [] op[1] = "fieldMove" -> FieldReorder(op[2], op[3], op[4], rows)

Key == {}
Derive(k, rows) == None
Asked(k, rows) == TRUE
Server == INSTANCE Requests
Spec == Server!Spec

----------------------------------------------------------------------------
\* Properties

\* Nothing is overwritten unseen: when a form of the administration or a rollback writes over
\* an item, the newest revision has the text, slug, tags, groups and values that it had until
\* then, whatever has been pruned.
Written(i, rows) ==
  LET s == Snapshot(i, rows) IN
  [text |-> s.row.text, slug |-> s.row.slug, tags |-> s.tags, groups |-> s.groups, values |-> s.values]
Overwrites(w, i) ==
  /\ Server!Execute(w)
  /\ Server!At(w, "where") /\ LET op == Server!Now(w).op IN op[1] = "put" /\ op[2] = "item" /\ op[3] = i
  /\ worker[w].op[1] \in {"itemForm", "rollback"} /\ Has("item", i, db)
EditsKept ==
  [][\A w \in Worker, i \in Item : Overwrites(w, i) =>
       LET s == Newest(i, db)[4] IN
       Written(i, db) = [text |-> s.row.text, slug |-> s.row.slug, tags |-> s.tags,
                         groups |-> s.groups, values |-> s.values]]_vars

\* A rollback that ends well has brought back all that the revision had, whatever it has done
\* to that revision: only the status may since have been set by others.
Ends(w, op) == Server!Execute(w) /\ worker[w].op = op /\ Len(worker[w].todo) = 1
RollbackRestores ==
  [][\A w \in Worker, i \in Item : \A r \in UNION {Of("revision", i, rows) : rows \in Start} :
       Ends(w, <<"rollback", i, r[3]>>) =>
         LET s == Snapshot(i, db') IN [s EXCEPT !.row.status = None] = [r[4] EXCEPT !.row.status = None]]_vars

\* What belongs to an item goes with it: values, revisions, comments and what the search
\* finds.  (Without a failed statement; only one goroutine writes and deletes items here.)
NoLeftovers ==
  Server!Quiet /\ faults = 0 =>
    \A i \in Item \ Ids("item", db) :
      /\ Of("value", i, db) \cup Of("revision", i, db) \cup Of("indexed", i, db) = {}
      /\ \A r \in db : r[1] = "comment" => r[3].item # i

\* Whenever a form of the administration or a clone ends well, the search finds the item by
\* its text and its values, and by no other.
Indexed(i, rows) ==
  Of("indexed", i, rows) =
    {<<"indexed", i, The("item", i, rows).text, {v \in Values(i, rows) : Has("field", v[1], rows)}>>}
SearchFinds ==
  [][\A w \in Worker : \A op \in Does[w] : Ends(w, op) =>
       /\ op[1] = "itemForm" => Indexed(op[2], db')
       /\ op[1] = "clone" => Indexed(op[3], db')]_vars

\* What an item owns: its values, revisions and comments, and what the search finds.
Parts == {"value", "revision", "indexed", "comment"}
Owner(r) == IF r[1] = "comment" THEN r[3].item ELSE r[2]
There(i, rows) == Has("item", i, rows)
Owned(rows) == \A r \in rows : r[1] \in Parts => There(Owner(r), rows)

\* A comment says of which item it is, and what a revision keeps is finite.
RowOk(r) == (r[1] = "comment" => "item" \in DOMAIN r[3]) /\ (r[1] = "revision" => IsFiniteSet(r[4].values))
Recorded(rows) == \A r \in rows : RowOk(r)

\* No database has leftovers to begin with.
OwnedAtStart == \A rows \in Start : Owned(rows) /\ Recorded(rows)

\* Items are made, filled and deleted by one goroutine, one request after another; all other
\* requests may overlap each other and these.
Fills(op) == op[1] \in {"itemForm", "frontendForm", "rollback", "clone", "comment"}
Clears(op) == op[1] \in {"deleteItem", "emptyTrash"} \/ (op[1] \in {"bulkItems", "bulk"} /\ op[2][1] = "delete")
OneForItems(one) == \A w \in Worker \ {one} : \A op \in Does[w] : ~Fills(op) /\ ~Clears(op)

=============================================================================
