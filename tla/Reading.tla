-------------------------------- MODULE Reading --------------------------------
(***************************************************************************)
(* What visitors, feeds, blocks and clients of the API are shown of the    *)
(* content (src/internal/content, controllers/content, api).  Each of them *)
(* is a query of the database as it is now, and is an operator here.       *)
(***************************************************************************)
EXTENDS Content

CONSTANTS Visitor,                    \* users; None is a visitor who has not signed in
          Public,                     \* the group everyone is in
          PageSizes, DefaultPageSize, \* what a listing may have on a page
          MaxLeading,                 \* full-width items of a listing
          Created,                    \* Created[i]: when item i was made; two may be of one moment
          Whim                        \* Whim[n]: how the database orders equals when it reads page n

ASSUME ListingAssumption ==
  /\ PageSizes \subseteq Nat \ {0} /\ DefaultPageSize \in PageSizes /\ MaxLeading \in Nat
  /\ None \notin {"title", "sort", "featured", "featured_sort", "popular"}   \* no order of a list
  /\ Created \in [Item -> Nat] /\ 1 \in DOMAIN Whim
  /\ \A n \in DOMAIN Whim : Whim[n] \in [Item -> Nat] /\ \A i, j \in Item : Whim[n][i] = Whim[n][j] => i = j

----------------------------------------------------------------------------
\* Who may see what

Active(what, rows) == {x \in Ids(what, rows) : The(what, x, rows).status = "active"}

\* The active groups of the visitor, and the public one, be it active or not.
ViewerGroups(u, rows) ==
  {Public} \cup (IF u \in Active("user", rows) THEN Linked("member", u, rows) \cap Active("group", rows) ELSE {})

\* filterByGroups: in the queries, all groups of the item count.
Listed(V, i, rows) == LET G == Linked("sees", i, rows) IN G = {} \/ G \cap V # {}
\* CanViewContent: of the groups of what was loaded, the active ones count.
CanViewContent(V, G, rows) == LET A == G \cap Active("group", rows) IN A = {} \/ A \cap V # {}

\* VisibleItemsQuery.
VisibleItems(V, rows) ==
  {i \in Ids("item", rows) : The("item", i, rows).status = "published" /\ Listed(V, i, rows)}

\* ItemBySlug, and loadVisibleItemByID: an item or none.
ItemBySlug(s, V, rows) ==
  {i \in VisibleItems(V, rows) :
     The("item", i, rows).slug = s /\ CanViewContent(V, Linked("sees", i, rows), rows)}
LoadVisibleItemByID(i, V, rows) ==
  {j \in VisibleItems(V, rows) \cap {i} : CanViewContent(V, Linked("sees", j, rows), rows)}

CategoryBySlug(s, V, rows) ==
  {c \in Active("category", rows) :
     The("category", c, rows).slug = s /\ CanViewContent(V, Linked("sees", c, rows), rows)}

Browsable(V, rows) == {c \in Ids("category", rows) : c \in CategoryBySlug(The("category", c, rows).slug, V, rows)}

\* What opens, by its slug and by its id.
Opens(V, rows) ==
  {i \in Ids("item", rows) : i \in ItemBySlug(The("item", i, rows).slug, V, rows) \cap LoadVisibleItemByID(i, V, rows)}

\* Mutant: the children, not what is below them.
CategoryChildrenIDs(c, rows) ==
  {c} \cup {d \in Active("category", rows) : The("category", d, rows).parent = c}

\* CategoryDescendantIDs: through active categories; the first may be inactive.
CategoryDescendantIDs(c, rows) == DescendantSet(c, Active("category", rows), rows)

----------------------------------------------------------------------------
\* Lists of items

ListOptions == [categories |-> {}, author |-> None, tag |-> None, query |-> None, filters |-> <<>>,
                featured |-> FALSE, sort |-> None, desc |-> FALSE, page |-> 1, limit |-> 20, all |-> FALSE]

\* What the index finds, if it finds anything; otherwise what has the words in its text.
FtsItemIDs(query, rows) ==
  {r[2] : r \in {s \in rows : s[1] = "indexed" /\ (s[3] = query \/ \E v \in s[4] : v[2] = query)}}
ApplySearchQuery(query, rows) ==
  LET ids == FtsItemIDs(query, rows)
  IN IF ids # {} THEN ids ELSE {i \in Ids("item", rows) : The("item", i, rows).text = query}

\* applyFieldFilters joins the values of each field asked for.
HasFields(i, filters, rows) == \A f \in DOMAIN filters : <<"value", i, f, filters[f]>> \in rows /\ Has("field", f, rows)

Matching(V, opts, rows) ==
  {i \in VisibleItems(V, rows) :
     LET row == The("item", i, rows) IN
     /\ opts.categories # {} => row.category \in opts.categories
     /\ opts.author # None => row.author = opts.author
     /\ opts.featured => row.featured
     /\ opts.tag # None => opts.tag \in Linked("tagged", i, rows)
     /\ HasFields(i, opts.filters, rows)
     /\ opts.query # None => i \in ApplySearchQuery(opts.query, rows)}

ApprovedComments(i, rows) ==
  {c \in Ids("comment", rows) : LET row == The("comment", c, rows) IN row.item = i /\ row.approved}
CommentCount(i, rows) == Cardinality(ApprovedComments(i, rows))

\* The columns that the list is ordered by, the newest first among equals.  (Titles, and what
\* the index makes of a query, are in any order.)
SortKey(i, opts, rows) ==
  LET row == The("item", i, rows)
      newest == -Created[i]
      up(n) == IF opts.desc THEN -n ELSE n
  IN IF opts.query # None /\ FtsItemIDs(opts.query, rows) # {} THEN <<>>
     ELSE IF opts.featured /\ opts.sort \in {None, "sort"} THEN <<row.place, newest>>
     ELSE CASE opts.sort = "title" -> <<>>
            [] opts.sort = "sort" -> <<up(row.sort), newest>>
            [] opts.sort = "featured_sort" -> <<up(row.place), newest>>
            [] opts.sort = "featured" -> <<IF row.featured THEN 0 ELSE 1, row.place, newest>>
            [] opts.sort = "popular" -> <<-CommentCount(i, rows), newest>>
            [] OTHER -> <<row.sort, newest>>
Before(a, b) == \E n \in DOMAIN a : a[n] < b[n] /\ \A m \in 1..(n - 1) : a[m] = b[m]

\* What is equal in all columns comes in the order the database likes, which may be another
\* one for the next page.
Ahead(x, y, key, whim) == Before(key[x], key[y]) \/ (key[x] = key[y] /\ whim[x] < whim[y])
WhimFor(opts) == Whim[IF opts.page \in DOMAIN Whim THEN opts.page ELSE 1]

\* S in the order of its keys: n-th is what n - 1 others are ahead of.
InOrder(S, key, whim) ==
  [n \in 1..Cardinality(S) |-> CHOOSE x \in S : Cardinality({y \in S : Ahead(y, x, key, whim)}) = n - 1]
Found(V, opts, rows) ==
  LET found == Matching(V, opts, rows)
  IN InOrder(found, [i \in found |-> SortKey(i, opts, rows)], WhimFor(opts))

ListItems(V, opts, rows) ==
  LET list == Found(V, opts, rows)
      first == (opts.page - 1) * opts.limit + 1
      last == opts.page * opts.limit
  IN [items |-> IF opts.all THEN list ELSE SubSeq(list, first, IF last < Len(list) THEN last ELSE Len(list)),
      total |-> Len(list)]

----------------------------------------------------------------------------
\* Listings: a category's own settings, or those it inherits

NormalizeCategoryListPageSize(n) == IF n \in PageSizes THEN n ELSE DefaultPageSize
NormalizeCategoryLeadingArticles(n) == IF n < 0 THEN 0 ELSE IF n > MaxLeading THEN MaxLeading ELSE n
ListingSettings(list) ==
  [list EXCEPT !.size = NormalizeCategoryListPageSize(@), !.leading = NormalizeCategoryLeadingArticles(@)]
ResolveCategoryListingSettings(c, rows) == ListingSettings(The("category", SettingsOf(c, rows), rows).list)

\* FeaturedCategorySettings, and where there are none, FeaturedCategoryDefaults.
FeaturedListing(rows) ==
  ListingSettings(IF Has("settings", "featured", rows) THEN The("settings", "featured", rows)
                  ELSE [size |-> DefaultPageSize, paged |-> TRUE, leading |-> 0, related |-> "inherit"])

\* ResolveDisplayMode: whether items are shown with related ones, which the site's settings have on.
ShowsRelated(i, rows) ==
  LET c == The("item", i, rows).category
  IN c = None \/ ~Has("category", c, rows) \/ The("category", SettingsOf(c, rows), rows).list.related # "no"

\* Mutant: every page begins with the leading items.
SplitEachPage(items, list, page) ==
  LET first == IF list.leading > Len(items) THEN Len(items) ELSE list.leading
  IN [leading |-> SubSeq(items, 1, first), remaining |-> SubSeq(items, first + 1, Len(items))]

\* SplitCategoryLeadingItems: the leading items of the listing that are on this page.
SplitCategoryLeadingItems(items, list, page) ==
  LET left == list.leading - (IF list.paged THEN (page - 1) * list.size ELSE 0)
      first == IF left < 0 THEN 0 ELSE IF left > Len(items) THEN Len(items) ELSE left
  IN [leading |-> SubSeq(items, 1, first), remaining |-> SubSeq(items, first + 1, Len(items))]

ListTotalPages(total, size) == IF total = 0 THEN 1 ELSE (total + size - 1) \div size

Listing(V, opts, list, page, rows) ==
  LET found == ListItems(V, [opts EXCEPT !.page = IF list.paged THEN page ELSE 1, !.limit = list.size,
                                         !.all = ~list.paged], rows)
      parts == SplitCategoryLeadingItems(found.items, list, page)
  IN [leading |-> parts.leading, remaining |-> parts.remaining,
      total |-> found.total, pages |-> IF list.paged THEN ListTotalPages(found.total, list.size) ELSE 1]

----------------------------------------------------------------------------
\* The pages of the site

CategoryPage(c, V, page, rows) ==
  Listing(V, [ListOptions EXCEPT !.categories = CategoryDescendantIDs(c, rows)],
          ResolveCategoryListingSettings(c, rows), page, rows)
IndexPage(V, rows) ==
  [items |-> ListItems(V, [ListOptions EXCEPT !.limit = 12, !.sort = "sort"], rows).items,
   featured |-> ListItems(V, [ListOptions EXCEPT !.limit = 6, !.featured = TRUE], rows).items]
FeaturedPage(V, page, rows) == Listing(V, [ListOptions EXCEPT !.featured = TRUE], FeaturedListing(rows), page, rows)
TagPage(t, V, page, rows) == ListItems(V, [ListOptions EXCEPT !.tag = t, !.page = page], rows)
AuthorPage(u, V, page, rows) == ListItems(V, [ListOptions EXCEPT !.author = u, !.page = page], rows)

\* RelatedItems: by the tags; an item without any has those of its category.
RelatedItems(i, V, rows) ==
  LET T == Linked("tagged", i, rows)  c == The("item", i, rows).category
      others == VisibleItems(V, rows) \ {i}
  IN IF T # {} THEN {j \in others : Linked("tagged", j, rows) \cap T # {}}
     ELSE IF c # None THEN {j \in others : The("item", j, rows).category = c} ELSE {}

\* handleItem.
ItemPage(i, V, rows) ==
  [related |-> IF ShowsRelated(i, rows) THEN RelatedItems(i, V, rows) ELSE {},
   comments |-> ApprovedComments(i, rows)]

\* handleFeed: of a category, what is in it itself.
FeedOptions(rows) ==
  {ListOptions} \cup {[ListOptions EXCEPT !.categories = {c}] : c \in Active("category", rows)}
  \cup {[ListOptions EXCEPT !.tag = t] : t \in Ids("tag", rows)}
  \cup {[ListOptions EXCEPT !.author = u] : u \in Active("user", rows)}
Feed(opts, V, rows) ==
  IF \A c \in opts.categories : CanViewContent(V, Linked("sees", c, rows), rows)
  THEN ListItems(V, [opts EXCEPT !.limit = 25], rows).items ELSE <<>>

\* Those with the most comments; which of the others is of no account here.
PopularItems(V, limit, rows) ==
  LET fewer(i) == Cardinality({j \in VisibleItems(V, rows) : CommentCount(j, rows) > CommentCount(i, rows)})
  IN {i \in VisibleItems(V, rows) : fewer(i) < limit}

\* TagCloud: how many published items of those the visitor may see have the tag.
TagCloud(V, rows) ==
  [t \in Ids("tag", rows) |->
     Cardinality({i \in Ids("item", rows) : The("item", i, rows).status = "published" /\ Listed(V, i, rows)
                                            /\ t \in Linked("tagged", i, rows)})]

\* Search, with what may be filtered by.
Searches(rows) ==
  {[ListOptions EXCEPT !.query = t] : t \in Text} \cup
  {[ListOptions EXCEPT !.filters = f :> t] : f \in Active("field", rows), t \in Text}

\* RenderContentBlock: the lists that go into other pages, five items each.
BlockItems(mode, x, V, rows) ==
  LET listed(opts) == ToSet(ListItems(V, [opts EXCEPT !.limit = 5], rows).items)
  IN CASE mode = "latest" -> listed(ListOptions)
       [] mode = "featured" -> listed([ListOptions EXCEPT !.featured = TRUE])
       [] mode = "popular" -> PopularItems(V, 5, rows)
       [] mode = "category" -> IF x \in Browsable(V, rows) THEN listed([ListOptions EXCEPT !.categories = {x}]) ELSE {}
       [] mode = "tag" -> IF Has("tag", x, rows) THEN listed([ListOptions EXCEPT !.tag = x]) ELSE {}
       [] mode = "author" -> IF x \in Active("user", rows) THEN listed([ListOptions EXCEPT !.author = x]) ELSE {}
       [] mode = "related" -> IF x \in Opens(V, rows) THEN RelatedItems(x, V, rows) ELSE {}

\* The API: all items, those below a category, and the translations of one.
ApiItems(V, page, rows) == ListItems(V, [ListOptions EXCEPT !.page = page], rows).items
ApiCategoryItems(c, V, rows) ==
  IF ~CanViewContent(V, Linked("sees", c, rows), rows) THEN <<>>
  ELSE ListItems(V, [ListOptions EXCEPT !.categories = CategoryDescendantIDs(c, rows)], rows).items
ItemTranslations(i, V, rows) ==
  LET group == The("item", i, rows).group IN
  {j \in VisibleItems(V, rows) \ {i} :
     LoadVisibleItemByID(i, V, rows) # {} /\ group # None /\ The("item", j, rows).group = group}

\* serveSitemapXML asks for nobody in particular.
Sitemap(rows) == ListItems({}, [ListOptions EXCEPT !.limit = 5000], rows).items

----------------------------------------------------------------------------
\* Properties

\* What any page, feed, block or answer of the API links to.
Pages(size, rows) == 1..ListTotalPages(Cardinality(Ids("item", rows)), size)
Shelves(V, rows) ==
  {CategoryPage(c, V, n, rows) : c \in Browsable(V, rows), n \in Pages(1, rows)}
  \cup {FeaturedPage(V, n, rows) : n \in Pages(1, rows)}
Lists(V, rows) ==
  {TagPage(t, V, n, rows).items : t \in Ids("tag", rows), n \in Pages(ListOptions.limit, rows)}
  \cup {AuthorPage(u, V, n, rows).items : u \in Active("user", rows), n \in Pages(ListOptions.limit, rows)}
  \cup {Feed(opts, V, rows) : opts \in FeedOptions(rows)} \cup {ListItems(V, opts, rows).items : opts \in Searches(rows)}
  \cup {ApiCategoryItems(c, V, rows) : c \in Ids("category", rows)} \cup {ApiItems(V, n, rows) : n \in Pages(ListOptions.limit, rows)}
  \cup {IndexPage(V, rows).items, IndexPage(V, rows).featured}
Blocks(rows) ==
  ({"latest", "featured", "popular"} \X {None}) \cup ({"category"} \X Ids("category", rows))
  \cup ({"tag"} \X Ids("tag", rows)) \cup ({"author"} \X Ids("user", rows)) \cup ({"related"} \X Ids("item", rows))
FromShelves(V, rows) == UNION {ToSet(l.leading) \cup ToSet(l.remaining) : l \in Shelves(V, rows)}
FromLists(V, rows) == UNION {ToSet(l) : l \in Lists(V, rows)}
FromBlocks(V, rows) == UNION {BlockItems(b[1], b[2], V, rows) : b \in Blocks(rows)}
FromItems(V, rows) == UNION {ItemPage(i, V, rows).related \cup ItemTranslations(i, V, rows) : i \in Opens(V, rows)}
Links(V, rows) == FromShelves(V, rows) \cup FromLists(V, rows) \cup FromBlocks(V, rows) \cup FromItems(V, rows)

\* No link is dead and nothing is out of reach: what a visitor is shown anywhere opens for
\* him; what opens is on the list of all items and on the pages of its category and of the
\* active ones above it; and the tag cloud counts what the pages of the tags have.  (Where the
\* groups he is in are active: the public one counts for him even when it is not.  Of a list of
\* several pages, where no other item is equal to it in all that the list is ordered by:
\* such two may change places between one page and the next.)
Alone(i, V, opts, rows) == \A j \in Matching(V, opts, rows) \ {i} : SortKey(j, opts, rows) # SortKey(i, opts, rows)
Reachable(i, V, rows) ==
  LET c == The("item", i, rows).category
      below(d) == [ListOptions EXCEPT !.categories = CategoryDescendantIDs(d, rows)]
  IN
  /\ ListItems(V, ListOptions, rows).total <= ListOptions.limit \/ Alone(i, V, ListOptions, rows) =>
       \E n \in Pages(ListOptions.limit, rows) : i \in ToSet(ApiItems(V, n, rows))
  /\ \A d \in Active("category", rows) :
       /\ c \in DescendantSet(d, Active("category", rows), rows)
       /\ CategoryPage(d, V, 1, rows).pages = 1 \/ Alone(i, V, below(d), rows)
       => \E n \in 1..CategoryPage(d, V, 1, rows).pages :
            LET page == CategoryPage(d, V, n, rows) IN i \in ToSet(page.leading) \cup ToSet(page.remaining)
LinksOpen ==
  Server!Quiet => \A u \in Visitor : LET V == ViewerGroups(u, db)  open == Opens(V, db) IN
    V \subseteq Active("group", db) =>
      /\ Links(V, db) \subseteq open
      /\ \A i \in open : Reachable(i, V, db)
      /\ \A t \in Ids("tag", db) \ {None} : TagCloud(V, db)[t] = TagPage(t, V, 1, db).total
      /\ ToSet(Sitemap(db)) \subseteq open

\* The pages of a listing, one after the other, are as long as the list and in its order, and
\* have nothing else; what no other item of the list is equal to in all it is ordered by is on
\* them once, at its place; and the first of them are the leading ones, as many as the settings
\* say, wherever a page ends.
InPlace(joined, all, V, opts, rows) ==
  /\ Len(joined) = Len(all) /\ ToSet(joined) \subseteq ToSet(all)
  /\ \A n \in 1..Len(all) : SortKey(joined[n], opts, rows) = SortKey(all[n], opts, rows)
  /\ \A n \in 1..Len(all) : Alone(all[n], V, opts, rows) => \A m \in 1..Len(all) : joined[m] = all[n] <=> m = n
Whole(page, opts, list, V, rows) ==
  LET all == ListItems(V, [opts EXCEPT !.all = TRUE], rows).items
      pages == [n \in 1..page[1].pages |-> page[n]]
      joined == FlattenSeq([n \in DOMAIN pages |-> pages[n].leading \o pages[n].remaining])
      many == IF list.leading < Len(all) THEN list.leading ELSE Len(all)
  IN /\ InPlace(joined, all, V, opts, rows)
     /\ FlattenSeq([n \in DOMAIN pages |-> pages[n].leading]) = SubSeq(joined, 1, many)
PagesPartition ==
  Server!Quiet => \A u \in Visitor : LET V == ViewerGroups(u, db)  N == 1..Cardinality(Ids("item", db)) + 1 IN
    /\ \A c \in Active("category", db) :
         Whole([n \in N |-> CategoryPage(c, V, n, db)], [ListOptions EXCEPT !.categories = CategoryDescendantIDs(c, db)],
               ResolveCategoryListingSettings(c, db), V, db)
    /\ Whole([n \in N |-> FeaturedPage(V, n, db)], [ListOptions EXCEPT !.featured = TRUE],
             FeaturedListing(db), V, db)

=============================================================================
