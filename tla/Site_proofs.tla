------------------------------ MODULE Site_proofs ------------------------------
(***************************************************************************)
(* Proofs about Site, for any routes, menus, items, blocks and groups, any *)
(* requests, any number of goroutines and of failures: what is cached of   *)
(* routes, menus and blocks shows a change that has ended; who takes a     *)
(* request; and that a menu shows all of its items.                        *)
(***************************************************************************)
EXTENDS Site, FiniteSetTheorems, NaturalsInduction, WellFoundedInduction, TLAPS

----------------------------------------------------------------------------
\* What a row may change

Concerns(row, k) ==
  \/ row[1] = "group"
  \/ k = Routes /\ (row[1] \in {"route", "default"} \/ (row[1] = "sees" /\ row[2] \in Route))
  \/ k \in Menus /\ (row[1] \in {"route", "menu", "item", "of", "parent", "goes"}
                     \/ (row[1] \in {"sees", "sort"} /\ row[2] \in Item))
  \/ k \in Spaces /\ (row[1] \in {"block", "in"} \/ (row[1] = "sees" /\ row[2] \in Block))

\* Rows that concern nothing but keys in K.
Within(K, S) == \A row \in S : \A k \in Key : Concerns(row, k) => k \in K

\* What does not differ.
Spares(K, rows, new) == \A k \in Key \ K : Derive(k, new) = Derive(k, rows)

LEMMA KeyIs ==
  ASSUME NEW k \in Key
  PROVE  /\ k = Routes \/ k \in Menus \/ k \in Spaces
         /\ k \in Menus => k # Routes /\ k \notin Spaces
         /\ k \in Spaces => k # Routes /\ k \notin Menus
BY DEF Key, Routes, Menus, Spaces

\* What is derived does not change while no row does that it rests on.
LEMMA DeriveSame ==
  ASSUME NEW rows, NEW new, NEW k \in Key,
         \A row : Concerns(row, k) => (row \in new <=> row \in rows)
  PROVE  Derive(k, new) = Derive(k, rows)
<1>1. \A g : Is(g, "group", new) <=> Is(g, "group", rows)
  BY DEF Concerns, Is
<1>2. CASE k = Routes
  <2>1. /\ \A r : Is(r, "route", new) <=> Is(r, "route", rows)
        /\ \A r : <<"default", r, TRUE>> \in new <=> <<"default", r, TRUE>> \in rows
        /\ \A r \in Route : \A g : <<"sees", r, g>> \in new <=> <<"sees", r, g>> \in rows
    BY <1>2 DEF Concerns, Is
  <2>2. \A r \in Route : Viewers(r, new) = Viewers(r, rows)
    BY <1>1, <2>1 DEF Viewers
  <2>3. ActiveRoutes(new) = ActiveRoutes(rows)
    <3>. DEFINE S == {q \in Route : Is(q, "route", rows)}
    <3>1. S = {q \in Route : Is(q, "route", new)}
      BY <2>1
    <3>2. \A r \in S : Viewers(r, new) = Viewers(r, rows) /\ Default({r}) \cap new = Default({r}) \cap rows
      BY <2>1, <2>2 DEF Default
    <3>. QED
      BY <3>1, <3>2 DEF ActiveRoutes
  <2>. QED
    BY <1>2, <2>3 DEF Derive
<1>3. CASE k \in Menus
  <2>1. /\ \A r : Is(r, "route", new) <=> Is(r, "route", rows)
        /\ \A m : Is(m, "menu", new) <=> Is(m, "menu", rows)
        /\ \A i, r : <<"goes", i, r>> \in new <=> <<"goes", i, r>> \in rows
        /\ \A i, m : <<"of", i, m>> \in new <=> <<"of", i, m>> \in rows
        /\ \A i \in Item : \A g : <<"sees", i, g>> \in new <=> <<"sees", i, g>> \in rows
    BY <1>3 DEF Concerns, Is
  <2>2. \A i \in Item : Viewers(i, new) = Viewers(i, rows)
    BY <1>1, <2>1 DEF Viewers
  <2>3. ASSUME NEW i \in Item
        PROVE  /\ ItemColumns(i) \cap new = ItemColumns(i) \cap rows
               /\ Exists(i, "item", new) <=> Exists(i, "item", rows)
    <3>1. \A row \in ItemColumns(i) : row[1] \in {"item", "of", "parent", "goes"} \/ (row[1] = "sort" /\ row[2] \in Item)
      BY DEF ItemColumns, StatusOf, Links
    <3>2. \A row \in ItemColumns(i) : row \in new <=> row \in rows
      BY <1>3, <3>1 DEF Concerns
    <3>3. StatusOf("item", i) \subseteq ItemColumns(i)
      BY DEF ItemColumns
    <3>. QED
      BY <3>2, <3>3 DEF Exists
  <2>4. \A m : ItemsOf(m, new) = ItemsOf(m, rows)
    BY <2>1, <2>3 DEF ItemsOf
  <2>5. ItemsOf(k[2], rows) \subseteq Item
    BY DEF ItemsOf
  <2>6. ActiveMenuItems(k[2], new) = ActiveMenuItems(k[2], rows)
    BY <2>1, <2>2, <2>3, <2>4, <2>5 DEF ActiveMenuItems
  <2>. QED
    BY <1>3, <2>6, KeyIs DEF Derive
<1>4. CASE k \in Spaces
  <2>1. /\ \A b : Is(b, "block", new) <=> Is(b, "block", rows)
        /\ \A b \in Block : \A g : <<"sees", b, g>> \in new <=> <<"sees", b, g>> \in rows
    BY <1>4 DEF Concerns, Is
  <2>2. \A b \in Block : Viewers(b, new) = Viewers(b, rows)
    BY <1>1, <2>1 DEF Viewers
  <2>3. \A b, s : Placed(b, s) \cap new = Placed(b, s) \cap rows
    <3>1. \A b, s : \A row \in Placed(b, s) : row[1] = "in"
      BY DEF Placed
    <3>. QED
      BY <1>4, <3>1 DEF Concerns
  <2>4. BlocksForSpace(k[2], new) = BlocksForSpace(k[2], rows)
    BY <2>1, <2>2, <2>3 DEF BlocksForSpace
  <2>. QED
    BY <1>4, <2>4, KeyIs DEF Derive
<1>. QED
  BY <1>2, <1>3, <1>4, KeyIs

LEMMA SparesRows ==
  ASSUME NEW K, NEW rows, NEW new, NEW S, Within(K, S),
         \A row : row \notin S => (row \in new <=> row \in rows)
  PROVE  Spares(K, rows, new)
<1>. SUFFICES ASSUME NEW k \in Key \ K PROVE Derive(k, new) = Derive(k, rows)
  BY DEF Spares
<1>1. \A row : Concerns(row, k) => (row \in new <=> row \in rows)
  BY DEF Within
<1>. QED
  BY <1>1, DeriveSame

----------------------------------------------------------------------------
\* What may be among the steps of a request which later sees to the keys in K

\* The built-in routes keep their paths: the only routes in their way are those a site starts with.
Legacy == {r \in Route : \E rows \in Start : Exists(r, "route", rows)}
Clean(S) == \A row \in S : row[1] = "route" => row[2] \in Legacy \/ ~ConflictsWithReservedPath(row[2])

StatementFit(K, s) == s.do = "statement" /\ Within(K, s.add \cup s.drop) /\ Clean(s.add)

Result(s, rows) == IF s.upsert \/ rows \cap s.drop # {} THEN (rows \ s.drop) \cup s.add ELSE rows
Possible(s, rows) == s.clash \cap rows = {} /\ \A N \in s.needs : N \cap rows # {}

LEMMA StatementSpares ==
  ASSUME NEW K, NEW s, StatementFit(K, s), NEW rows
  PROVE  Spares(K, rows, Result(s, rows))
<1>. DEFINE S == s.add \cup s.drop
<1>1. Within(K, S) /\ \A row : row \notin S => (row \in Result(s, rows) <=> row \in rows)
  BY DEF StatementFit, Result
<1>. HIDE DEF S
<1>. QED
  BY <1>1, SparesRows

\* What a form keeps of what was read: columns of items and routes, and who sees an item.
Columns(S) ==
  Clean(S) /\ \A row \in S : row[1] \in {"route", "default", "item", "of", "parent", "goes", "sort"}
ItemLinks(S) == \A row \in S : row[1] = "sees" /\ row[2] \in Item

\* The items of a menu, the children of an item, and what is gone and made again, are found
\* when the database is asked.
WhereFit(K, op) ==
  \/ op[1] \in {"deleteItemsOf", "reparent"} /\ Menus \subseteq K
  \/ op[1] = "saveMenu" /\ Columns(op[5]) /\ {Routes} \cup Menus \subseteq K
  \/ op[1] = "saveItem" /\ ItemLinks(op[8]) /\ Columns(op[9]) /\ {Routes} \cup Menus \subseteq K

\* Handlers see to all that they change themselves; parts of them do not.
Whole(op) == op \in Request
Part(K, op) ==
  \/ op[1] \in {"addRouteToMenu", "routeReorder"} /\ Menus \subseteq K
  \/ op[1] = "copyGroups" /\ op[3] \in Item /\ Menus \subseteq K
  \/ op[1] = "ensureRoute" /\ op[2] \in BuiltInRoute /\ {Routes} \cup Menus \subseteq K
  \/ op[1] = "ensureRouteDefault" /\ Routes \in K
  \/ op[1] = "replaceSpaces" /\ op[3] \in SUBSET Space /\ Spaces \subseteq K
  \/ op[1] = "place" /\ Spaces \subseteq K
  \/ op[1] = "seedWidget" /\ op[2] \in Block /\ Spaces \subseteq K

Fit(K, s) ==
  \/ s.do = "call" /\ (Whole(s.op) \/ Part(K, s.op))
  \/ s.do = "where" /\ WhereFit(K, s.op)
  \/ StatementFit(K, s)
  \/ s.do \in {"return", "forget", "overlook"}
FitList(K, l) == \E S : l \in Seq(S) /\ \A s \in S : Fit(K, s)

Ends(s, k) == s.do \in {"forget", "overlook"} /\ k \in s.keys
EndedIn(l) == {k \in Key : \E i \in DOMAIN l : Ends(l[i], k)}
EndedAfter(l, i) == {k \in Key : \E j \in DOMAIN l : j > i /\ Ends(l[j], k)}
\* A list that sees to all that it changes.
Covered(l) == (\E S : l \in Seq(S)) /\ \A i \in DOMAIN l : Fit(EndedAfter(l, i), l[i])

LEMMA FitMore ==
  ASSUME NEW K, NEW L, K \cap Key \subseteq L, NEW s, Fit(K, s)
  PROVE  Fit(L, s)
<1>1. ASSUME NEW S, Within(K, S) PROVE Within(L, S)
  BY <1>1 DEF Within
<1>2. Routes \in Key /\ Menus \subseteq Key /\ Spaces \subseteq Key
  BY DEF Key
<1>3. StatementFit(K, s) => StatementFit(L, s)
  BY <1>1 DEF StatementFit
<1>4. \A op : Part(K, op) => Part(L, op)
  BY <1>2 DEF Part
<1>5. \A op : WhereFit(K, op) => WhereFit(L, op)
  BY <1>2 DEF WhereFit
<1>. QED
  BY <1>3, <1>4, <1>5 DEF Fit

LEMMA FitIs ==
  ASSUME NEW K, NEW l, NEW S, l \in Seq(S), \A s \in S : Fit(K, s)
  PROVE  FitList(K, l)
BY DEF FitList

LEMMA FitEmpty ==
  ASSUME NEW K
  PROVE  FitList(K, <<>>)
<1>. DEFINE S == {}
<1>1. <<>> \in Seq(S) /\ \A s \in S : Fit(K, s)
  OBVIOUS
<1>. HIDE DEF S
<1>. QED
  BY <1>1, FitIs

LEMMA FitOf ==
  ASSUME NEW K, NEW a, Fit(K, a)
  PROVE  FitList(K, <<a>>)
<1>. DEFINE S == {a}
<1>1. <<a>> \in Seq(S) /\ \A s \in S : Fit(K, s)
  OBVIOUS
<1>. HIDE DEF S
<1>. QED
  BY <1>1, FitIs

LEMMA FitOfTwo ==
  ASSUME NEW K, NEW a, NEW b, Fit(K, a), Fit(K, b)
  PROVE  FitList(K, <<a, b>>)
<1>. DEFINE S == {a, b}
<1>1. <<a, b>> \in Seq(S) /\ \A s \in S : Fit(K, s)
  OBVIOUS
<1>. HIDE DEF S
<1>. QED
  BY <1>1, FitIs

LEMMA FitOfThree ==
  ASSUME NEW K, NEW a, NEW b, NEW c, Fit(K, a), Fit(K, b), Fit(K, c)
  PROVE  FitList(K, <<a, b, c>>)
<1>. DEFINE S == {a, b, c}
<1>1. <<a, b, c>> \in Seq(S) /\ \A s \in S : Fit(K, s)
  OBVIOUS
<1>. HIDE DEF S
<1>. QED
  BY <1>1, FitIs

LEMMA FitConcat ==
  ASSUME NEW K, NEW l, NEW m, FitList(K, l), FitList(K, m)
  PROVE  FitList(K, l \o m)
<1>1. PICK S : l \in Seq(S) /\ \A s \in S : Fit(K, s)
  BY DEF FitList
<1>2. PICK T : m \in Seq(T) /\ \A s \in T : Fit(K, s)
  BY DEF FitList
<1>3. l \o m \in Seq(S \cup T)
  <2>1. l \in Seq(S \cup T) /\ m \in Seq(S \cup T)
    BY <1>1, <1>2
  <2>. QED
    BY <2>1
<1>. QED
  BY <1>1, <1>2, <1>3 DEF FitList

LEMMA FitWhen ==
  ASSUME NEW K, NEW b, NEW l, b => FitList(K, l)
  PROVE  FitList(K, When(b, l))
BY FitEmpty DEF When

\* A set in the order of a list.
\* The elements of a finite set, in some order, each once.
LEMMA SetToSeqIs ==
  ASSUME NEW S, IsFiniteSet(S)
  PROVE  /\ SetToSeq(S) \in Seq(S)
         /\ \A i, j \in DOMAIN SetToSeq(S) : SetToSeq(S)[i] = SetToSeq(S)[j] => i = j
         /\ \A x \in S : \E i \in DOMAIN SetToSeq(S) : SetToSeq(S)[i] = x
<1>. DEFINE n == Cardinality(S)
            s == SetToSeq(S)
<1>1. n \in Nat /\ ExistsBijection(1..n, S)
  BY FS_CardinalityType
<1>2. \E f \in [1..n -> S] : IsInjective(f)
  BY <1>1 DEF ExistsBijection, Bijection, Injection
<1>3. s \in [1..n -> S] /\ IsInjective(s)
  BY <1>2 DEF SetToSeq
<1>4. s \in Injection(1..n, S)
  BY <1>3 DEF Injection
<1>5. Cardinality(1..n) = n
  BY <1>1, FS_Interval
<1>6. s \in Surjection(1..n, S)
  BY <1>1, <1>4, <1>5, FS_Injection
<1>. HIDE DEF s
<1>7. s \in Seq(S)
  BY <1>1, <1>3
<1>8. DOMAIN s = 1..n
  BY <1>3
<1>. QED
  BY <1>3, <1>6, <1>7, <1>8 DEF IsInjective, Surjection, s

\* A loop over a set.
LEMMA FitEach ==
  ASSUME NEW K, NEW S, IsFiniteSet(S), NEW f, DOMAIN f = DOMAIN SetToSeq(S), f = [i \in DOMAIN f |-> f[i]],
         \A i \in DOMAIN f : Fit(K, f[i])
  PROVE  FitList(K, f)
<1>. DEFINE T == {f[i] : i \in DOMAIN f}
            s == SetToSeq(S)
<1>1. s \in Seq(S)
  BY SetToSeqIs
<1>. HIDE DEF s
<1>2. DOMAIN f = 1..Len(s) /\ Len(s) \in Nat
  BY <1>1 DEF s
<1>3. f \in Seq(T)
  BY <1>2
<1>. QED
  BY <1>3 DEF FitList

----------------------------------------------------------------------------
\* Lists that see to what they change

\* Where a step of two lists one after the other is.
LEMMA ConcatAt ==
  ASSUME NEW a, NEW b, NEW S, NEW T, a \in Seq(S), b \in Seq(T)
  PROVE  /\ a \o b \in Seq(S \cup T)
         /\ \A i \in DOMAIN a : i \in DOMAIN (a \o b) /\ (a \o b)[i] = a[i]
         /\ \A i \in DOMAIN b : Len(a) + i \in DOMAIN (a \o b) /\ (a \o b)[Len(a) + i] = b[i]
         /\ \A i \in DOMAIN (a \o b) : i \in DOMAIN a \/ (i - Len(a) \in DOMAIN b /\ (a \o b)[i] = b[i - Len(a)])
         /\ \A i \in DOMAIN a : i \in Nat /\ i <= Len(a)
         /\ \A i \in DOMAIN b : i \in Nat /\ i > 0
         /\ Len(a) \in Nat
<1>. DEFINE U == S \cup T
<1>1. a \in Seq(U) /\ b \in Seq(U)
  OBVIOUS
<1>. HIDE DEF U
<1>2. a \o b \in Seq(U) /\ Len(a \o b) = Len(a) + Len(b) /\ Len(a) \in Nat /\ Len(b) \in Nat
  BY <1>1
<1>3. DOMAIN a = 1..Len(a) /\ DOMAIN b = 1..Len(b) /\ DOMAIN (a \o b) = 1..Len(a) + Len(b)
  BY <1>1, <1>2
<1>4. \A i \in 1..Len(a) + Len(b) : (a \o b)[i] = IF i <= Len(a) THEN a[i] ELSE b[i - Len(a)]
  BY <1>1
<1>. HIDE <1>1
<1>5. \A i \in DOMAIN a : i \in DOMAIN (a \o b) /\ (a \o b)[i] = a[i] /\ i \in Nat /\ i <= Len(a)
  BY <1>2, <1>3, <1>4
<1>6. ASSUME NEW i \in DOMAIN b
      PROVE  Len(a) + i \in DOMAIN (a \o b) /\ (a \o b)[Len(a) + i] = b[i] /\ i \in Nat /\ i > 0
  <2>1. i \in Nat /\ i > 0 /\ i <= Len(b) /\ Len(a) + i \in 1..Len(a) + Len(b) /\ Len(a) + i - Len(a) = i
        /\ ~(Len(a) + i <= Len(a))
    BY <1>2, <1>3
  <2>. QED
    BY <1>3, <1>4, <2>1
<1>7. ASSUME NEW i \in DOMAIN (a \o b), i \notin DOMAIN a
      PROVE  i - Len(a) \in DOMAIN b /\ (a \o b)[i] = b[i - Len(a)]
  BY <1>2, <1>3, <1>4, <1>7
<1>8. a \o b \in Seq(S \cup T)
  BY <1>2 DEF U
<1>. QED
  BY <1>2, <1>5, <1>6, <1>7, <1>8

LEMMA EndedConcat ==
  ASSUME NEW a, NEW b, NEW S, NEW T, a \in Seq(S), b \in Seq(T)
  PROVE  /\ EndedIn(a) \cup EndedIn(b) \subseteq EndedIn(a \o b)
         /\ \A i \in DOMAIN a : EndedAfter(a, i) \cup EndedIn(b) \subseteq EndedAfter(a \o b, i)
         /\ \A i \in DOMAIN b : EndedAfter(b, i) \subseteq EndedAfter(a \o b, Len(a) + i)
<1>. DEFINE m == a \o b
<1>0. /\ \A i \in DOMAIN a : i \in DOMAIN m /\ m[i] = a[i] /\ i \in Nat /\ i <= Len(a)
      /\ \A i \in DOMAIN b : Len(a) + i \in DOMAIN m /\ m[Len(a) + i] = b[i] /\ i \in Nat /\ i > 0
      /\ Len(a) \in Nat
  BY ConcatAt
<1>. HIDE DEF m
<1>1. EndedIn(a) \cup EndedIn(b) \subseteq EndedIn(m)
  BY <1>0 DEF EndedIn
<1>2. ASSUME NEW i \in DOMAIN a, NEW k \in EndedAfter(a, i)
      PROVE  k \in EndedAfter(m, i)
  BY <1>0 DEF EndedAfter
<1>3. ASSUME NEW i \in DOMAIN a, NEW k \in EndedIn(b)
      PROVE  k \in EndedAfter(m, i)
  <2>1. PICK j \in DOMAIN b : Ends(b[j], k)
    BY DEF EndedIn
  <2>2. Len(a) + j > i
    BY <1>0
  <2>. QED
    BY <2>1, <2>2, <1>0 DEF EndedAfter, EndedIn
<1>4. ASSUME NEW i \in DOMAIN b, NEW k \in EndedAfter(b, i)
      PROVE  k \in EndedAfter(m, Len(a) + i)
  <2>1. PICK j \in DOMAIN b : j > i /\ Ends(b[j], k)
    BY DEF EndedAfter
  <2>2. Len(a) + j > Len(a) + i
    BY <2>1, <1>0
  <2>. QED
    BY <2>1, <2>2, <1>0 DEF EndedAfter
<1>. QED
  BY <1>1, <1>2, <1>3, <1>4 DEF m

\* A list followed by one that sees to what it changes.
LEMMA CoveredBefore ==
  ASSUME NEW K, NEW a, NEW b, FitList(K, a), Covered(b), K \cap Key \subseteq EndedIn(b)
  PROVE  Covered(a \o b)
<1>1. PICK S : a \in Seq(S) /\ \A s \in S : Fit(K, s)
  BY DEF FitList
<1>2. PICK T : b \in Seq(T)
  BY DEF Covered
<1>3. ASSUME NEW i \in DOMAIN a
      PROVE  Fit(EndedAfter(a \o b, i), a[i])
  <2>1. K \cap Key \subseteq EndedAfter(a \o b, i)
    BY <1>1, <1>2, EndedConcat
  <2>2. Fit(K, a[i])
    BY <1>1
  <2>. QED
    BY <2>1, <2>2, FitMore
<1>4. ASSUME NEW i \in DOMAIN b
      PROVE  Fit(EndedAfter(a \o b, Len(a) + i), b[i])
  <2>1. EndedAfter(b, i) \subseteq EndedAfter(a \o b, Len(a) + i)
    BY <1>1, <1>2, EndedConcat
  <2>2. Fit(EndedAfter(b, i), b[i])
    BY DEF Covered
  <2>. QED
    BY <2>1, <2>2, FitMore
<1>5. ASSUME NEW i \in DOMAIN (a \o b)
      PROVE  Fit(EndedAfter(a \o b, i), (a \o b)[i])
  <2>1. CASE i \in DOMAIN a
    BY <1>1, <1>2, <1>3, <2>1, ConcatAt
  <2>2. CASE i \notin DOMAIN a
    <3>1. i - Len(a) \in DOMAIN b /\ (a \o b)[i] = b[i - Len(a)] /\ Len(a) + (i - Len(a)) = i
      BY <1>1, <1>2, <2>2, ConcatAt
    <3>. QED
      BY <1>4, <3>1
  <2>. QED
    BY <2>1, <2>2
<1>6. a \o b \in Seq(S \cup T)
  BY <1>1, <1>2, ConcatAt
<1>. QED
  BY <1>5, <1>6 DEF Covered

LEMMA CoveredBoth ==
  ASSUME NEW a, NEW b, Covered(a), Covered(b)
  PROVE  Covered(a \o b)
<1>1. PICK S : a \in Seq(S)
  BY DEF Covered
<1>2. PICK T : b \in Seq(T)
  BY DEF Covered
<1>3. ASSUME NEW i \in DOMAIN a
      PROVE  Fit(EndedAfter(a \o b, i), a[i])
  <2>1. EndedAfter(a, i) \subseteq EndedAfter(a \o b, i)
    BY <1>1, <1>2, EndedConcat
  <2>2. Fit(EndedAfter(a, i), a[i])
    BY DEF Covered
  <2>. QED
    BY <2>1, <2>2, FitMore
<1>4. ASSUME NEW i \in DOMAIN b
      PROVE  Fit(EndedAfter(a \o b, Len(a) + i), b[i])
  <2>1. EndedAfter(b, i) \subseteq EndedAfter(a \o b, Len(a) + i)
    BY <1>1, <1>2, EndedConcat
  <2>2. Fit(EndedAfter(b, i), b[i])
    BY DEF Covered
  <2>. QED
    BY <2>1, <2>2, FitMore
<1>5. ASSUME NEW i \in DOMAIN (a \o b)
      PROVE  Fit(EndedAfter(a \o b, i), (a \o b)[i])
  <2>1. CASE i \in DOMAIN a
    BY <1>1, <1>2, <1>3, <2>1, ConcatAt
  <2>2. CASE i \notin DOMAIN a
    <3>1. i - Len(a) \in DOMAIN b /\ (a \o b)[i] = b[i - Len(a)] /\ Len(a) + (i - Len(a)) = i
      BY <1>1, <1>2, <2>2, ConcatAt
    <3>. QED
      BY <1>4, <3>1
  <2>. QED
    BY <2>1, <2>2
<1>6. a \o b \in Seq(S \cup T)
  BY <1>1, <1>2, ConcatAt
<1>. QED
  BY <1>5, <1>6 DEF Covered

\* A list of steps that change nothing there is a key for.
LEMMA CoveredFit ==
  ASSUME NEW l, FitList({}, l)
  PROVE  Covered(l)
BY FitMore DEF FitList, Covered

LEMMA CoveredTail ==
  ASSUME NEW l, Covered(l), l # <<>>
  PROVE  Fit(EndedIn(Tail(l)), Head(l)) /\ Covered(Tail(l))
<1>1. PICK S : l \in Seq(S)
  BY DEF Covered
<1>2. /\ 1 \in DOMAIN l /\ Head(l) = l[1] /\ Tail(l) \in Seq(S)
      /\ \A i \in DOMAIN Tail(l) : i \in Nat /\ i + 1 \in DOMAIN l /\ Tail(l)[i] = l[i + 1]
      /\ \A i \in DOMAIN l : i \in Nat /\ (i > 1 => i - 1 \in DOMAIN Tail(l) /\ Tail(l)[i - 1] = l[i])
  BY <1>1
<1>3. EndedAfter(l, 1) \subseteq EndedIn(Tail(l))
  BY <1>2 DEF EndedAfter, EndedIn
<1>4. ASSUME NEW i \in DOMAIN Tail(l)
      PROVE  EndedAfter(l, i + 1) \subseteq EndedAfter(Tail(l), i)
  <2>1. ASSUME NEW k \in EndedAfter(l, i + 1)
        PROVE  k \in EndedAfter(Tail(l), i)
    <3>1. PICK j \in DOMAIN l : j > i + 1 /\ Ends(l[j], k)
      BY DEF EndedAfter
    <3>2. j > 1 /\ j - 1 > i
      BY <1>2, <3>1
    <3>. QED
      BY <1>2, <3>1, <3>2 DEF EndedAfter
  <2>. QED
    BY <2>1
<1>5. Fit(EndedIn(Tail(l)), Head(l))
  <2>1. Fit(EndedAfter(l, 1), Head(l))
    BY <1>2 DEF Covered
  <2>. QED
    BY <1>3, <2>1, FitMore
<1>6. ASSUME NEW i \in DOMAIN Tail(l)
      PROVE  Fit(EndedAfter(Tail(l), i), Tail(l)[i])
  <2>1. Fit(EndedAfter(l, i + 1), Tail(l)[i])
    BY <1>2 DEF Covered
  <2>2. EndedAfter(l, i + 1) \cap Key \subseteq EndedAfter(Tail(l), i)
    BY <1>4
  <2>. QED
    BY <2>1, <2>2, FitMore
<1>. QED
  BY <1>2, <1>5, <1>6 DEF Covered

----------------------------------------------------------------------------
\* The steps of handlers

LEMMA SimpleFit ==
  ASSUME NEW K, NEW L
  PROVE  Fit(K, Return) /\ Fit(K, Forget(L)) /\ Fit(K, Overlook(L))
BY DEF Return, Forget, Overlook, Fit

LEMMA CallFit ==
  ASSUME NEW K, NEW op, Whole(op) \/ Part(K, op)
  PROVE  Fit(K, Call(op))
BY DEF Call, Fit

\* Rows that concern menus only, routes and menus only, or spaces only.
LEMMA MenuRows ==
  ASSUME NEW K, Menus \subseteq K, NEW S,
         \A row \in S : \/ row[1] \in {"menu", "item", "of", "parent", "goes", "sort"}
                        \/ row[1] = "sees" /\ row[2] \in Item
  PROVE  Within(K, S)
BY SiteIdsAssumption DEF Within, Concerns

LEMMA RouteRows ==
  ASSUME NEW K, {Routes} \cup Menus \subseteq K, NEW S,
         \A row \in S : \/ row[1] \in {"route", "default", "menu", "item", "of", "parent", "goes", "sort"}
                        \/ row[1] = "sees" /\ row[2] \in Route \cup Item
  PROVE  Within(K, S)
BY SiteIdsAssumption DEF Within, Concerns

LEMMA BlockRows ==
  ASSUME NEW K, Spaces \subseteq K, NEW S,
         \A row \in S : row[1] \in {"block", "in"} \/ (row[1] = "sees" /\ row[2] \in Block)
  PROVE  Within(K, S)
BY SiteIdsAssumption DEF Within, Concerns

\* The kinds of the rows of a thing.
LEMMA ColumnsAre ==
  /\ \A what, x : \A row \in StatusOf(what, x) : row[1] = what /\ row[2] = x
  /\ \A r : \A row \in RouteColumns(r) : row[1] \in {"route", "default", "sort"}
  /\ \A i : \A row \in ItemColumns(i) : row[1] \in {"item", "of", "parent", "goes", "sort"}
  /\ \A x : \A row \in Sees(x) : row[1] = "sees" /\ row[2] = x
  /\ \A x, Y : \A row \in Links("sees", x, Y) : row[1] = "sees" /\ row[2] = x
  /\ \A b, s : \A row \in Placed(b, s) : row[1] = "in"
  /\ \A R : \A row \in Default(R) : row[1] = "default"
<1>1. \A what, x : \A row \in StatusOf(what, x) : row[1] = what /\ row[2] = x
  BY DEF StatusOf
<1>3. \A i : \A row \in ItemColumns(i) : row[1] \in {"item", "of", "parent", "goes", "sort"}
  BY DEF ItemColumns, StatusOf, Links
<1>4. \A x, Y : \A row \in Links("sees", x, Y) : row[1] = "sees" /\ row[2] = x
  BY DEF Links
<1>5. \A x : \A row \in Sees(x) : row[1] = "sees" /\ row[2] = x
  BY <1>4 DEF Sees
<1>6. \A b, s : \A row \in Placed(b, s) : row[1] = "in"
  BY DEF Placed
<1>7. ASSUME NEW R, NEW row \in Default(R)
      PROVE  row[1] = "default"
  <2>1. PICK r \in R : row = <<"default", r, TRUE>>
    BY DEF Default
  <2>. QED
    BY <2>1
<1>2. \A r : \A row \in RouteColumns(r) : row[1] \in {"route", "default", "sort"}
  <2>1. \A r, Y : \A row \in Links("sort", r, Y) : row[1] = "sort"
    BY DEF Links
  <2>. QED
    BY <1>1, <1>7, <2>1 DEF RouteColumns
<1>. QED
  BY <1>1, <1>2, <1>3, <1>4, <1>5, <1>6, <1>7

LEMMA CleanIs ==
  ASSUME NEW S, \A row \in S : row[1] # "route"
  PROVE  Clean(S)
BY DEF Clean

LEMMA StatementIs ==
  ASSUME NEW K, NEW s, s.do = "statement", Within(K, s.add), Within(K, s.drop), Clean(s.add)
  PROVE  Fit(K, s)
BY DEF Fit, StatementFit, Within

LEMMA DeleteFit ==
  ASSUME NEW K, NEW S, Within(K, S)
  PROVE  /\ Fit(K, Delete(S))
         /\ \A x : Fit(K, Expunge(x, S))
         /\ \A U : Fit(K, Ignored(Unless(U, Delete(S))))
<1>. Within(K, {}) /\ Clean({})
  BY DEF Within, Clean
<1>1. /\ Delete(S).do = "statement" /\ Delete(S).add = {} /\ Delete(S).drop = S
      /\ \A x : Expunge(x, S).do = "statement" /\ Expunge(x, S).add = {} /\ Expunge(x, S).drop = S
      /\ \A U : /\ Ignored(Unless(U, Delete(S))).do = "statement" /\ Ignored(Unless(U, Delete(S))).add = {}
                /\ Ignored(Unless(U, Delete(S))).drop = S
  BY DEF Delete, Expunge, Unless, Ignored, Statement
<1>. QED
  BY <1>1, StatementIs

LEMMA WriteFit ==
  ASSUME NEW K, NEW S, NEW T, Within(K, S), Within(K, T), Clean(T)
  PROVE  /\ Fit(K, Write(S, T))
         /\ \A U : Fit(K, [Write(S, T) EXCEPT !.clash = U])
<1>1. Write(S, T).do = "statement" /\ Write(S, T).add = T /\ Write(S, T).drop = S
  BY DEF Write, Statement
<1>2. ASSUME NEW U
      PROVE  Fit(K, [Write(S, T) EXCEPT !.clash = U])
  <2>. DEFINE s == [Write(S, T) EXCEPT !.clash = U]
  <2>1. s.do = "statement" /\ s.add = T /\ s.drop = S
    BY DEF Write, Statement
  <2>. HIDE DEF s
  <2>2. Fit(K, s)
    BY <2>1, StatementIs
  <2>. QED
    BY <2>2 DEF s
<1>. QED
  BY <1>1, <1>2, StatementIs

LEMMA SaveFit ==
  ASSUME NEW K, NEW S, NEW row, Within(K, S), Within(K, {row}), row[1] # "route"
  PROVE  /\ Fit(K, Save(S, row)) /\ Fit(K, Update(S, row))
         /\ \A U : Fit(K, Insert(row, U))
<1>. Within(K, {}) /\ Clean({})
  BY DEF Within, Clean
<1>1. /\ Save(S, row).do = "statement" /\ Save(S, row).add = {row} /\ Save(S, row).drop = S
      /\ Update(S, row).do = "statement" /\ Update(S, row).add = {row} /\ Update(S, row).drop = S
      /\ \A U : Insert(row, U).do = "statement" /\ Insert(row, U).add = {row} /\ Insert(row, U).drop = {}
  BY DEF Save, Update, Insert, Statement
<1>2. Clean({row})
  BY DEF Clean
<1>. QED
  BY <1>1, <1>2, StatementIs

\* Who sees x.
LEMMA GroupsFit ==
  ASSUME NEW K, NEW x, \A Y : Within(K, Links("sees", x, Y))
  PROVE  /\ \A G : Fit(K, Show(x, G))
         /\ \A G : FitList(K, ReplaceFormGroups(x, G))
<1>1. ASSUME NEW G
      PROVE  Fit(K, Show(x, G))
  <2>1. Show(x, G).do = "statement" /\ Show(x, G).add = Links("sees", x, G) /\ Show(x, G).drop = {}
    BY DEF Show, Needing, Link, Statement
  <2>2. Within(K, {}) /\ Clean(Links("sees", x, G))
    BY ColumnsAre, CleanIs DEF Within
  <2>. QED
    BY <2>1, <2>2, StatementIs
<1>2. ASSUME NEW G
      PROVE  FitList(K, ReplaceFormGroups(x, G))
  <2>1. Fit(K, Delete(Links("sees", x, Group \ G)))
    BY DeleteFit
  <2>. QED
    BY <1>1, <2>1, SimpleFit, FitOf, FitOfTwo DEF ReplaceFormGroups
<1>. QED
  BY <1>1, <1>2

LEMMA ToggleFit ==
  ASSUME NEW K, NEW what, NEW x, NEW columns, StatusOf(what, x) \subseteq columns, Within(K, columns), NEW rows,
         what = "route" => Clean(rows), \A row \in columns : row[1] = "route" => what = "route"
  PROVE  FitList(K, Toggle(what, x, columns, rows))
<1>. DEFINE new == ((columns \cap rows) \ StatusOf(what, x)) \cup {Flip(what, x, rows)}
<1>1. Flip(what, x, rows) \in StatusOf(what, x)
  BY DEF Flip, StatusOf, Status
<1>2. Within(K, new)
  BY <1>1 DEF Within
<1>3. Exists(x, what, rows) => Clean(new)
  <2>. SUFFICES ASSUME Exists(x, what, rows), NEW row \in new, row[1] = "route"
                PROVE  row[2] \in Legacy \/ ~ConflictsWithReservedPath(row[2])
    BY DEF Clean
  <2>1. CASE row = Flip(what, x, rows)
    <3>1. row[1] = what /\ row[2] = x
      BY <2>1 DEF Flip
    <3>2. PICK old \in rows : old \in StatusOf(what, x)
      BY DEF Exists
    <3>3. old[1] = what /\ old[2] = x
      BY <3>2, ColumnsAre
    <3>. QED
      BY <3>1, <3>2, <3>3 DEF Clean
  <2>2. CASE row \in columns \cap rows
    BY <2>2 DEF Clean
  <2>. QED
    BY <2>1, <2>2
<1>. HIDE DEF new
<1>4. Exists(x, what, rows) => FitList(K, <<Write(columns, new)>>)
  BY <1>2, <1>3, WriteFit, FitOf
<1>. QED
  BY <1>4, FitWhen DEF Toggle, new

LEMMA StatusFit ==
  ASSUME NEW K, NEW what, what # "route", NEW x, Within(K, StatusOf(what, x)), NEW rows
  PROVE  FitList(K, Toggle(what, x, StatusOf(what, x), rows))
<1>. \A row \in StatusOf(what, x) : row[1] # "route"
  BY ColumnsAre
<1>. QED
  BY ToggleFit

\* A set in an order of its own.
LEMMA OrderedIs ==
  ASSUME NEW S, IsFiniteSet(S), NEW sort
  PROVE  /\ DOMAIN Ordered(S, sort) = 1..Cardinality(S) /\ Cardinality(S) \in Nat
         /\ Ordered(S, sort) = [n \in 1..Cardinality(S) |-> Ordered(S, sort)[n]]
         /\ IsFiniteSet(DOMAIN Ordered(S, sort))
<1>1. Cardinality(S) \in Nat
  BY FS_CardinalityType
<1>2. DOMAIN Ordered(S, sort) = 1..Cardinality(S) /\ Ordered(S, sort) = [n \in 1..Cardinality(S) |-> Ordered(S, sort)[n]]
  <2>. DEFINE before(x) == {y \in S : sort[y] < sort[x] \/ (sort[y] = sort[x] /\ y < x)}
              at(n) == CHOOSE x \in S : Cardinality(before(x)) = n - 1
              order == [n \in 1..Cardinality(S) |-> at(n)]
  <2>1. Ordered(S, sort) = order
    BY DEF Ordered
  <2>. HIDE DEF at
  <2>2. DOMAIN order = 1..Cardinality(S) /\ order = [n \in 1..Cardinality(S) |-> order[n]]
    OBVIOUS
  <2>. HIDE DEF order
  <2>. QED
    BY <2>1, <2>2
<1>3. IsFiniteSet(1..Cardinality(S))
  BY <1>1, FS_Interval
<1>. QED
  BY <1>1, <1>2, <1>3

\* A list with a step for each number.
LEMMA FitNumbered ==
  ASSUME NEW K, NEW n \in Nat, NEW f, DOMAIN f = 1..n, f = [i \in 1..n |-> f[i]], \A i \in 1..n : Fit(K, f[i])
  PROVE  FitList(K, f)
<1>. DEFINE T == {f[i] : i \in 1..n}
<1>1. \A i \in 1..n : f[i] \in T
  OBVIOUS
<1>2. \A s \in T : Fit(K, s)
  OBVIOUS
<1>. HIDE DEF T
<1>3. f \in [1..n -> T]
  BY <1>1
<1>4. f \in Seq(T)
  BY <1>3
<1>. QED
  BY <1>2, <1>4 DEF FitList

\* What is renumbered after a move.
LEMMA WrongIs ==
  ASSUME NEW S, IsFiniteSet(S), NEW order, NEW sort, NEW x, NEW d
  PROVE  LET list == Ordered(S, order)
             new == Moved(list, x, d)
             wrong == {i \in DOMAIN new : sort[new[i]] # i - 1}
         IN IsFiniteSet(wrong)
<1>. DEFINE list == Ordered(S, order)
            new == Moved(list, x, d)
            wrong == {i \in DOMAIN new : sort[new[i]] # i - 1}
<1>1. DOMAIN new = DOMAIN list
  BY DEF Moved
<1>2. IsFiniteSet(DOMAIN list)
  BY OrderedIs
<1>3. wrong \subseteq DOMAIN new
  OBVIOUS
<1>. QED
  BY <1>1, <1>2, <1>3, FS_Subset

LEMMA ForgetAfter ==
  ASSUME NEW K, NEW a, FitList(K, a)
  PROVE  Covered(a \o <<Forget(K)>>) /\ Covered(a \o <<Overlook(K)>>)
<1>1. ASSUME NEW s, Fit({}, s), \A k \in K : Ends(s, k)
      PROVE  Covered(a \o <<s>>)
  <2>1. Covered(<<s>>)
    BY <1>1, FitOf, CoveredFit
  <2>2. 1 \in DOMAIN <<s>> /\ <<s>>[1] = s
    OBVIOUS
  <2>3. K \cap Key \subseteq EndedIn(<<s>>)
    BY <1>1, <2>2 DEF EndedIn
  <2>. QED
    BY <2>1, <2>3, CoveredBefore
<1>2. \A k \in K : Ends(Forget(K), k) /\ Ends(Overlook(K), k)
  BY DEF Ends, Forget, Overlook
<1>. QED
  BY <1>1, <1>2, SimpleFit

\* The same, where two steps see to it.
LEMMA TwoAfter ==
  ASSUME NEW K, NEW a, FitList(K, a), NEW x, NEW y, Fit({}, x), Fit({}, y), \A k \in K : Ends(x, k) \/ Ends(y, k)
  PROVE  Covered(a \o <<x, y>>)
<1>1. Covered(<<x, y>>)
  BY FitOfTwo, CoveredFit
<1>2. {1, 2} \subseteq DOMAIN <<x, y>> /\ <<x, y>>[1] = x /\ <<x, y>>[2] = y
  OBVIOUS
<1>3. K \cap Key \subseteq EndedIn(<<x, y>>)
  BY <1>2 DEF EndedIn
<1>. QED
  BY <1>1, <1>3, CoveredBefore

LEMMA RoutesAndMenusAfter ==
  ASSUME NEW a, FitList({Routes} \cup Menus, a)
  PROVE  Covered(a \o InvalidateRoutes) /\ Covered(a \o <<InvalidateMenus, Overlook({Routes})>>)
<1>1. /\ Ends(Forget({Routes}), Routes) /\ Ends(Overlook({Routes}), Routes)
      /\ \A k \in Menus : Ends(Forget(Menus), k)
  BY DEF Ends, Forget, Overlook
<1>2. \A k \in {Routes} \cup Menus : /\ (Ends(Forget({Routes}), k) \/ Ends(Forget(Menus), k))
                                   /\ (Ends(Forget(Menus), k) \/ Ends(Overlook({Routes}), k))
  BY <1>1
<1>. DEFINE K == {Routes} \cup Menus
            x == Forget({Routes})
            y == Forget(Menus)
            z == Overlook({Routes})
<1>3. Fit({}, x) /\ Fit({}, y) /\ Fit({}, z)
  BY SimpleFit
<1>4. InvalidateRoutes = <<x, y>> /\ <<InvalidateMenus, Overlook({Routes})>> = <<y, z>>
  BY DEF InvalidateRoutes, InvalidateMenus
<1>5. FitList(K, a) /\ \A k \in K : (Ends(x, k) \/ Ends(y, k)) /\ (Ends(y, k) \/ Ends(z, k))
  BY <1>2
<1>. HIDE DEF K, x, y, z
<1>6. Covered(a \o <<x, y>>) /\ Covered(a \o <<y, z>>)
  BY <1>3, <1>5, TwoAfter
<1>. QED
  BY <1>4, <1>6

LEMMA CoveredSimple ==
  /\ Covered(<<>>) /\ Covered(<<Return>>)
  /\ \A K : Covered(<<Forget(K)>>)
BY FitEmpty, SimpleFit, FitOf, CoveredFit

LEMMA CoveredWhen ==
  ASSUME NEW b, NEW l, b => Covered(l)
  PROVE  Covered(When(b, l))
BY CoveredSimple DEF When

\* A loop that makes a call for each.
Calls(S, tag) == LET s == SetToSeq(S) IN [i \in DOMAIN s |-> Call(<<tag, s[i]>>)]

LEMMA CallsFit ==
  ASSUME NEW K, NEW S, IsFiniteSet(S), NEW tag, \A x \in S : Fit(K, Call(<<tag, x>>))
  PROVE  FitList(K, Calls(S, tag))
<1>. DEFINE s == SetToSeq(S)
            calls == [i \in DOMAIN s |-> Call(<<tag, s[i]>>)]
<1>1. s \in Seq(S)
  BY SetToSeqIs
<1>2. Calls(S, tag) = calls
  BY DEF Calls
<1>. HIDE DEF s
<1>3. \A i \in DOMAIN s : s[i] \in S
  BY <1>1
<1>4. \A i \in DOMAIN calls : Fit(K, calls[i])
  BY <1>3
<1>5. FitList(K, calls)
  BY <1>4, FitEach DEF s
<1>. QED
  BY <1>2, <1>5

LEMMA NumberFit ==
  ASSUME NEW K, Menus \subseteq K, NEW S, IsFiniteSet(S), NEW order, NEW sort, NEW x, NEW d
  PROVE  FitList(K, Renumber(Ordered(S, order), x, d, sort, Number))
<1>. DEFINE list == Ordered(S, order)
            new == Moved(list, x, d)
            wrong == {i \in DOMAIN new : sort[new[i]] # i - 1}
            at == Ordered(wrong, [i \in wrong |-> i])
            n == Cardinality(wrong)
            steps == [j \in DOMAIN at |-> Number(new[at[j]], at[j] - 1)]
<1>1. IsFiniteSet(wrong)
  BY WrongIs
<1>2. Renumber(list, x, d, sort, Number) \in {<<>>, steps}
  BY DEF Renumber, Misnumbered
<1>. HIDE DEF list, new, wrong
<1>3. DOMAIN at = 1..n /\ n \in Nat
  BY <1>1, OrderedIs
<1>4. \A y, m : Fit(K, Number(y, m))
  <2>1. \A y, m : Within(K, Links("sort", y, Sorts)) /\ Within(K, {SortColumn(y, m)})
    BY MenuRows DEF Links, SortColumn
  <2>. QED
    BY <2>1, SaveFit DEF Number, SortColumn
<1>. HIDE DEF at, n
<1>5. FitList(K, steps)
  BY <1>3, <1>4, FitNumbered
<1>. HIDE DEF steps
<1>. QED
  BY <1>2, <1>5, FitEmpty DEF list

PlaceAnew(list, x, d, sort, s) == Renumber(list, x, d, sort, LAMBDA c, m : Update(Placed(c, s), <<"in", c, s, m>>))

LEMMA PlaceFit ==
  ASSUME NEW K, Spaces \subseteq K, NEW S, IsFiniteSet(S), NEW order, NEW sort, NEW x, NEW d, NEW s
  PROVE  FitList(K, PlaceAnew(Ordered(S, order), x, d, sort, s))
<1>. DEFINE place(c, m) == Update(Placed(c, s), <<"in", c, s, m>>)
            list == Ordered(S, order)
            new == Moved(list, x, d)
            wrong == {i \in DOMAIN new : sort[new[i]] # i - 1}
            at == Ordered(wrong, [i \in wrong |-> i])
            n == Cardinality(wrong)
            steps == [j \in DOMAIN at |-> place(new[at[j]], at[j] - 1)]
<1>1. IsFiniteSet(wrong)
  BY WrongIs
<1>2. PlaceAnew(list, x, d, sort, s) \in {<<>>, steps}
  BY DEF PlaceAnew, Renumber, Misnumbered
<1>4. \A y, m : Fit(K, place(y, m))
  <2>1. \A y, m : Within(K, Placed(y, s)) /\ Within(K, {<<"in", y, s, m>>})
    BY BlockRows, ColumnsAre
  <2>. QED
    BY <2>1, SaveFit
<1>. HIDE DEF list, new, wrong, place
<1>3. DOMAIN at = 1..n /\ n \in Nat
  BY <1>1, OrderedIs
<1>. HIDE DEF at, n
<1>5. FitList(K, steps)
  BY <1>3, <1>4, FitNumbered
<1>. HIDE DEF steps
<1>. QED
  BY <1>2, <1>5, FitEmpty DEF list

\* The least of some ids.
LEMMA LeastIs ==
  ASSUME NEW S, S \subseteq Nat, S # {}
  PROVE  /\ \E i \in S : \A j \in S : i <= j
         /\ (CHOOSE i \in S : \A j \in S : i <= j) \in S
         /\ \A j \in S : (CHOOSE i \in S : \A k \in S : i <= k) <= j
<1>1. PICK i \in S : \A j \in S : <<j, i>> \notin OpToRel(<, Nat)
  BY NatLessThanWellFounded, WFMin
<1>2. ASSUME NEW j \in S
      PROVE  i <= j
  <2>1. i \in Nat /\ j \in Nat
    OBVIOUS
  <2>2. ~(j < i)
    BY <1>1, <2>1 DEF OpToRel
  <2>. QED
    BY <2>1, <2>2
<1>. QED
  BY <1>2

----------------------------------------------------------------------------
\* Handlers of routes

LEMMA RoutesAndMenus ==
  ASSUME NEW K, {Routes} \cup Menus \subseteq K
  PROVE  /\ \A r : Within(K, StatusOf("route", r)) /\ Within(K, RouteColumns(r)) /\ Within(K, Links("sort", r, Sorts))
         /\ \A R : Within(K, Default(R))
         /\ \A r \in Route : \A Y : Within(K, Sees(r)) /\ Within(K, Links("sees", r, Y))
BY RouteRows, ColumnsAre DEF Links

LEMMA RouteFormCovered ==
  ASSUME NEW r \in Route, NEW s, NEW d, NEW G, NEW m, NEW p, NEW rows
  PROVE  Covered(RouteForm(r, s, d, G, m, p, rows))
<1>. DEFINE K == {Routes} \cup Menus
            known == Exists(r, "route", rows)
            status == IF known /\ G = {} THEN "inactive" ELSE s
            sort == IF known THEN SortOr0(r, rows) ELSE Max0({n \in Sorts : \E q \in Route : <<"sort", q, n>> \in rows})
            row == {<<"route", r, status>>, <<"sort", r, sort>>} \cup (IF d THEN Default({r}) ELSE {}) \cup SeenBy(r, rows)
            old == RouteColumns(r) \cup (IF d THEN Default(Route) ELSE {})
            first == <<Write(old, row)>>
            second == When(~(known /\ G = {}), ReplaceFormGroups(r, G))
            third == When(m # None, <<Call(<<"addRouteToMenu", r, m, p>>)>>)
<1>1. \/ RouteForm(r, s, d, G, m, p, rows) = <<Return>>
      \/ /\ ~ConflictsWithReservedPath(r)
         /\ RouteForm(r, s, d, G, m, p, rows) = first \o second \o third \o InvalidateRoutes
  BY DEF RouteForm
<1>2. Within(K, row)
  <2>1. \A x \in row : x[1] \in {"route", "sort"} \/ x \in Default({r}) \/ x \in Sees(r)
    BY DEF SeenBy
  <2>. HIDE DEF row
  <2>2. \A x \in row : x[1] \in {"route", "sort", "default"} \/ (x[1] = "sees" /\ x[2] \in Route)
    BY <2>1, ColumnsAre
  <2>. QED
    BY <2>2, RouteRows
<1>8. ~ConflictsWithReservedPath(r) => Clean(row)
  <2>1. \A x \in row : (x[1] = "route" => x[2] = r) \/ x \in Default({r}) \/ x \in Sees(r)
    BY DEF SeenBy
  <2>2. \A x \in row : x[1] = "route" => x[2] = r
    BY <2>1, ColumnsAre
  <2>. HIDE DEF row
  <2>. QED
    BY <2>2 DEF Clean
<1>3. Within(K, old)
  <2>1. Within(K, RouteColumns(r)) /\ Within(K, Default(Route))
    BY RoutesAndMenus
  <2>. QED
    BY <2>1 DEF Within
<1>4. \A Y : Within(K, Links("sees", r, Y))
  BY RoutesAndMenus
<1>5. Part(K, <<"addRouteToMenu", r, m, p>>)
  BY DEF Part
<1>. HIDE DEF known, row, old
<1>9. K = {Routes} \cup Menus
  OBVIOUS
<1>. HIDE DEF K
<1>6. (~ConflictsWithReservedPath(r) => FitList(K, first)) /\ FitList(K, second) /\ FitList(K, third)
  BY <1>2, <1>3, <1>4, <1>5, <1>8, WriteFit, GroupsFit, CallFit, FitOf, FitWhen
<1>. HIDE DEF first, second, third
<1>7. ~ConflictsWithReservedPath(r) => FitList(K, first \o second \o third)
  BY <1>6, FitConcat
<1>. QED
  BY <1>1, <1>7, <1>9, RoutesAndMenusAfter, CoveredSimple

LEMMA RouteDeleteCovered ==
  ASSUME NEW r \in Route, NEW rows
  PROVE  Covered(RouteDelete(r, rows))
<1>. DEFINE K == {Routes} \cup Menus
            first == <<Delete(Sees(r)), Expunge(r, RouteColumns(r))>>
            second == When(<<"default", r, TRUE>> \in rows, <<Call(<<"ensureRouteDefault">>)>>)
<1>1. RouteDelete(r, rows) = When(r \notin BuiltInRoute /\ Exists(r, "route", rows), first \o second \o InvalidateRoutes)
  BY DEF RouteDelete
<1>2. Within(K, Sees(r)) /\ Within(K, RouteColumns(r))
  BY RoutesAndMenus
<1>3. Part(K, <<"ensureRouteDefault">>)
  BY DEF Part
<1>5. K = {Routes} \cup Menus
  OBVIOUS
<1>. HIDE DEF K
<1>4. FitList(K, first) /\ FitList(K, second)
  BY <1>2, <1>3, DeleteFit, CallFit, FitOf, FitOfTwo, FitWhen
<1>. HIDE DEF first, second
<1>. QED
  BY <1>1, <1>4, <1>5, FitConcat, RoutesAndMenusAfter, CoveredWhen

LEMMA RouteMoveCovered ==
  ASSUME NEW r, NEW d, NEW rows
  PROVE  Covered(RouteMoveSort(r, d, rows))
<1>. DEFINE K == {Routes} \cup Menus
            first == <<Call(<<"routeReorder", r, d>>)>>
<1>1. Part(K, <<"routeReorder", r, d>>)
  BY DEF Part
<1>2. RouteMoveSort(r, d, rows) = When(Exists(r, "route", rows), first \o InvalidateRoutes)
  BY DEF RouteMoveSort
<1>3. FitList(K, first)
  BY <1>1, CallFit, FitOf
<1>. HIDE DEF first
<1>. QED
  BY <1>2, <1>3, RoutesAndMenusAfter, CoveredWhen

LEMMA RouteApplyCovered ==
  ASSUME NEW R \in SUBSET Route, NEW rows
  PROVE  Covered(RouteApply(R, rows))
<1>. DEFINE K == {Routes} \cup Menus
            new == {r \in R : ~Exists(r, "route", rows)}
            next == Max0({n \in Sorts : \E q \in Route : <<"sort", q, n>> \in rows})
            bare == {r \in R : Sees(r) \cap rows = {}}
            sort(r) == next + Cardinality({q \in new : q < r})
            add == {<<"route", r, "active">> : r \in new} \cup {<<"sort", r, sort(r)>> : r \in new}
                   \cup {<<"sees", r, Public>> : r \in bare}
            first == <<Write({}, add)>>
<1>1. \/ RouteApply(R, rows) = <<Return>>
      \/ /\ \A r \in new : ~ConflictsWithReservedPath(r)
         /\ RouteApply(R, rows) = first \o InvalidateRoutes
  BY DEF RouteApply
<1>2. \A x \in add : x[1] \in {"route", "sort"} \/ (x[1] = "sees" /\ x[2] \in Route)
  <2>. HIDE DEF sort
  <2>. QED
    OBVIOUS
<1>6. \A x \in add : x[1] = "route" => x[2] \in new
  <2>. HIDE DEF sort, new
  <2>. QED
    OBVIOUS
<1>. HIDE DEF add
<1>3. K = {Routes} \cup Menus
  OBVIOUS
<1>4. Within(K, add) /\ Within(K, {})
  BY <1>2, RouteRows
<1>7. (\A r \in new : ~ConflictsWithReservedPath(r)) => Clean(add)
  <2>. HIDE DEF new
  <2>. QED
    BY <1>6 DEF Clean
<1>. HIDE DEF K
<1>5. (\A r \in new : ~ConflictsWithReservedPath(r)) => FitList(K, first)
  BY <1>4, <1>7, WriteFit, FitOf
<1>. HIDE DEF first
<1>. QED
  BY <1>1, <1>3, <1>5, RoutesAndMenusAfter, CoveredSimple

LEMMA DefaultRouteCovered ==
  Covered(EnsureDefaultRoute) /\ Covered(Activate)
<1>. DEFINE K == {Routes} \cup Menus
            first == Calls(BuiltInRoute, "ensureRoute")
            second == <<Call(<<"ensureRouteDefault">>)>>
<1>1. <<Call(<<"ensureRouteDefault">>), Overlook(K)>> = second \o <<Overlook(K)>>
  OBVIOUS
<1>2. FitList(K, first)
  <2>1. IsFiniteSet(BuiltInRoute)
    BY SiteIdsAssumption, SiteSeedsAssumption, FS_Subset
  <2>2. \A r \in BuiltInRoute : Part(K, <<"ensureRoute", r>>)
    BY DEF Part
  <2>. HIDE DEF K
  <2>3. \A r \in BuiltInRoute : Fit(K, Call(<<"ensureRoute", r>>))
    BY <2>2, CallFit
  <2>. QED
    BY <2>1, <2>3, CallsFit
<1>3. Part(K, <<"ensureRouteDefault">>)
  BY DEF Part
<1>4. EnsureDefaultRoute = first \o (second \o <<Overlook(K)>>)
  BY <1>1 DEF EnsureDefaultRoute, Each, Calls
<1>5. K \subseteq Key
  BY DEF Key
<1>. HIDE DEF K, first
<1>6. FitList(K, second)
  BY <1>3, CallFit, FitOf
<1>. HIDE DEF second
<1>7. Covered(second \o <<Overlook(K)>>)
  BY <1>6, ForgetAfter
<1>8. Covered(first \o (second \o <<Overlook(K)>>))
  <2>1. PICK S : second \in Seq(S)
    BY <1>6 DEF FitList
  <2>. DEFINE o == Overlook(K)
  <2>2. \A k \in K : Ends(o, k)
    BY DEF Overlook, Ends
  <2>. HIDE DEF o
  <2>3. <<o>> \in Seq({o}) /\ 1 \in DOMAIN <<o>> /\ <<o>>[1] = o
    OBVIOUS
  <2>4. K \subseteq EndedIn(<<o>>)
    BY <1>5, <2>2, <2>3 DEF EndedIn
  <2>5. EndedIn(<<o>>) \subseteq EndedIn(second \o <<o>>)
    BY <2>1, <2>3, EndedConcat
  <2>. QED
    BY <1>2, <1>7, <2>4, <2>5, CoveredBefore DEF o
<1>. QED
  BY <1>4, <1>8, CoveredSimple, CoveredBoth DEF Activate

\* Parts of the handlers of routes.
LEMMA RouteParts ==
  ASSUME NEW K, NEW rows
  PROVE  /\ Menus \subseteq K => \A r, d : FitList(K, RouteReorder(r, d, rows))
         /\ {Routes} \cup Menus \subseteq K => \A r \in BuiltInRoute : FitList(K, EnsureRoute(r, rows))
         /\ Routes \in K => FitList(K, EnsureRouteDefault(rows))
<1>1. ASSUME Menus \subseteq K, NEW r, NEW d
      PROVE  FitList(K, RouteReorder(r, d, rows))
  <2>1. IsFiniteSet({q \in Route \ BuiltInRoute : Exists(q, "route", rows)})
    BY SiteIdsAssumption, FS_Subset
  <2>. QED
    BY <1>1, <2>1, NumberFit, FitWhen DEF RouteReorder, CustomRoutes
<1>2. ASSUME {Routes} \cup Menus \subseteq K, NEW r \in BuiltInRoute
      PROVE  FitList(K, EnsureRoute(r, rows))
  <2>. DEFINE new == {<<"route", r, "active">>, <<"sort", r, 0>>}
  <2>1. Within(K, new) /\ Within(K, {})
    BY <1>2, RouteRows
  <2>4. Clean(new)
    BY DEF Clean, ConflictsWithReservedPath
  <2>2. \A Y : Within(K, Links("sees", r, Y))
    BY <1>2, RoutesAndMenus, SiteSeedsAssumption
  <2>. HIDE DEF new
  <2>3. Fit(K, [Write({}, new) EXCEPT !.clash = StatusOf("route", r)]) /\ Fit(K, Show(r, {Public}))
    BY <2>1, <2>2, <2>4, WriteFit, GroupsFit
  <2>. QED
    BY <2>3, FitOfTwo, FitWhen DEF EnsureRoute, new
<1>3. ASSUME Routes \in K
      PROVE  FitList(K, EnsureRouteDefault(rows))
  <2>. DEFINE D == {r \in Route : <<"default", r, TRUE>> \in rows}
              more == {r \in D : \E q \in D : q < r}
              s == SetToSeq(more)
              deletes == [i \in DOMAIN s |-> Delete(Default({s[i]}))]
  <2>1. IsFiniteSet(more)
    BY SiteIdsAssumption, FS_Subset
  <2>2. EnsureRouteDefault(rows) = deletes
    BY DEF EnsureRouteDefault, Each
  <2>3. \A R : Within(K, Default(R))
    <3>1. \A k \in Key : k = Routes \/ k \in Menus \/ k \in Spaces
      BY KeyIs
    <3>2. Routes \notin Menus /\ Routes \notin Spaces /\ Menus \cap Spaces = {}
      BY DEF Routes, Menus, Spaces
    <3>. QED
      BY <1>3, <3>1, <3>2, ColumnsAre DEF Within, Concerns
  <2>4. \A R : Fit(K, Delete(Default(R)))
    BY <2>3, DeleteFit
  <2>. HIDE DEF more, s
  <2>5. \A i \in DOMAIN deletes : Fit(K, deletes[i])
    BY <2>4
  <2>6. FitList(K, deletes)
    BY <2>1, <2>5, FitEach DEF s
  <2>. QED
    BY <2>2, <2>6
<1>. QED
  BY <1>1, <1>2, <1>3

----------------------------------------------------------------------------
\* Handlers of menus and their items

LEMMA MenusOnly ==
  ASSUME NEW K, Menus \subseteq K
  PROVE  /\ \A m : Within(K, StatusOf("menu", m)) /\ \A s : Within(K, {<<"menu", m, s>>})
         /\ \A i : Within(K, ItemColumns(i))
         /\ \A i \in Item : \A Y : Within(K, Sees(i)) /\ Within(K, Links("sees", i, Y))
BY MenuRows, ColumnsAre

\* What was read of some items and routes.
LEMMA LoadedIs ==
  ASSUME NEW rows, Clean(rows), NEW I, NEW R
  PROVE  Columns(Loaded(I, R, rows))
<1>. DEFINE S == (UNION {ItemColumns(i) : i \in I}) \cup (UNION {RouteColumns(r) : r \in R})
<1>1. \A row \in S : row[1] \in {"route", "default", "item", "of", "parent", "goes", "sort"}
  BY ColumnsAre
<1>2. Loaded(I, R, rows) = S \cap rows
  BY DEF Loaded
<1>. HIDE DEF S
<1>. QED
  BY <1>1, <1>2 DEF Columns, Clean

LEMMA MenuHandlers ==
  ASSUME NEW m, NEW s, NEW rows, Clean(rows)
  PROVE  /\ Covered(MenuForm(m, s, rows)) /\ Covered(MenuDelete(m))
         /\ Covered(Toggle("menu", m, StatusOf("menu", m), rows) \o <<InvalidateMenus>>)
<1>. DEFINE I == IF Exists(m, "menu", rows) THEN ItemsOf(m, rows) ELSE {}
            R == {r \in Route : \E i \in I : <<"goes", i, r>> \in rows}
            op == <<"saveMenu", m, s, I, Loaded(I, R, rows)>>
            save == Where(op)
            items == Where(<<"deleteItemsOf", m>>)
            menu == Delete(StatusOf("menu", m))
<1>1. Within(Menus, StatusOf("menu", m)) /\ Within(Menus, {<<"menu", m, s>>})
  BY MenusOnly
<1>7. \A a, b, c : <<a, b, c>> = <<a>> \o <<b, c>>
  OBVIOUS
<1>2. MenuForm(m, s, rows) = <<save, InvalidateMenus, Overlook({Routes})>>
  BY DEF MenuForm
<1>3. MenuDelete(m) = <<items, menu, Forget(Menus)>> /\ <<items, menu, Forget(Menus)>> = <<items, menu>> \o <<Forget(Menus)>>
  BY DEF MenuDelete, InvalidateMenus
<1>6. Fit({Routes} \cup Menus, save)
  <2>1. Columns(Loaded(I, R, rows))
    BY LoadedIs
  <2>. HIDE DEF I, R
  <2>2. op[1] = "saveMenu" /\ op[5] = Loaded(I, R, rows)
    OBVIOUS
  <2>. HIDE DEF op
  <2>3. save.do = "where" /\ save.op = op
    BY DEF Where
  <2>. QED
    BY <2>1, <2>2, <2>3 DEF Fit, WhereFit
<1>4. Fit(Menus, items) /\ Fit(Menus, menu)
  BY <1>1, DeleteFit DEF Where, Fit, WhereFit
<1>. HIDE DEF save, items, menu
<1>5. Covered(MenuForm(m, s, rows)) /\ Covered(MenuDelete(m))
  <2>1. Covered(<<save>> \o <<InvalidateMenus, Overlook({Routes})>>)
    BY <1>6, FitOf, RoutesAndMenusAfter
  <2>2. Covered(MenuForm(m, s, rows))
    BY <1>2, <1>7, <2>1
  <2>. QED
    BY <2>2, <1>3, <1>4, FitOfTwo, ForgetAfter
<1>. QED
  BY <1>1, <1>5, StatusFit, ForgetAfter DEF InvalidateMenus

LEMMA WriteItemFit ==
  ASSUME NEW K, Menus \subseteq K, NEW i, NEW m, NEW p, NEW r, NEW s, NEW n
  PROVE  Fit(K, WriteItem(i, m, p, r, s, n))
<1>. DEFINE add == {<<"item", i, s>>, <<"of", i, m>>, <<"sort", i, n>>}
                   \cup (IF p = None THEN {} ELSE {<<"parent", i, p>>})
                   \cup (IF r = None THEN {} ELSE {<<"goes", i, r>>})
<1>1. Within(K, add) /\ Clean(add)
  BY MenuRows, CleanIs
<1>2. Within(K, ItemColumns(i))
  BY MenusOnly
<1>3. WriteItem(i, m, p, r, s, n) = Write(ItemColumns(i), add)
  BY DEF WriteItem
<1>. HIDE DEF add
<1>. QED
  BY <1>1, <1>2, <1>3, WriteFit

LEMMA ItemHandlers ==
  ASSUME NEW i \in Item, NEW rows, Clean(rows)
  PROVE  /\ \A m, p, r, s, G : Covered(MenuItemForm(i, m, p, r, s, G, rows))
         /\ Covered(MenuItemDelete(i, rows))
         /\ Covered(Toggle("item", i, ItemColumns(i), rows) \o <<InvalidateMenus>>)
         /\ \A d : Covered(MenuItemReorder(i, d, rows))
<1>1. Within(Menus, ItemColumns(i)) /\ \A Y : Within(Menus, Sees(i)) /\ Within(Menus, Links("sees", i, Y))
  BY MenusOnly
<1>2. ASSUME NEW m, NEW p, NEW r, NEW s, NEW G
      PROVE  Covered(MenuItemForm(i, m, p, r, s, G, rows))
  <2>. DEFINE menu == IF Exists(i, "item", rows) THEN CHOOSE n \in Menu : <<"of", i, n>> \in rows ELSE m
              parent == {q \in Item : <<"parent", i, q>> \in rows /\ Exists(q, "item", rows)}
              route == {q \in Route : <<"goes", i, q>> \in rows /\ Exists(q, "route", rows)}
              Kept(S, x) == IF S = {} THEN x ELSE CHOOSE q \in S : TRUE
              op == <<"saveItem", i, menu, Kept(parent, p), Kept(route, r), s, SortOr0(i, rows),
                      SeenBy(i, rows), Loaded(parent, route, rows)>>
              save == Where(op)
              second == ReplaceFormGroups(i, G)
  <2>1. MenuItemForm(i, m, p, r, s, G, rows)
          \in {<<Return>>, <<save>> \o second \o <<InvalidateMenus, Overlook({Routes})>>}
    BY DEF MenuItemForm
  <2>3. Columns(Loaded(parent, route, rows))
    BY LoadedIs
  <2>4. ItemLinks(SeenBy(i, rows))
    BY ColumnsAre DEF ItemLinks, SeenBy
  <2>. HIDE DEF menu, parent, route, Kept
  <2>5. op[1] = "saveItem" /\ op[8] = SeenBy(i, rows) /\ op[9] = Loaded(parent, route, rows)
    OBVIOUS
  <2>. HIDE DEF op
  <2>6. save.do = "where" /\ save.op = op
    BY DEF Where
  <2>7. Fit({Routes} \cup Menus, save)
    BY <2>3, <2>4, <2>5, <2>6 DEF Fit, WhereFit
  <2>. HIDE DEF save
  <2>2. FitList({Routes} \cup Menus, <<save>>) /\ FitList({Routes} \cup Menus, second)
    <3>1. Menus \subseteq {Routes} \cup Menus
      OBVIOUS
    <3>2. \A Y : Within({Routes} \cup Menus, Links("sees", i, Y))
      BY <3>1, MenusOnly
    <3>. QED
      BY <2>7, <3>2, GroupsFit, FitOf
  <2>. HIDE DEF second
  <2>8. FitList({Routes} \cup Menus, <<save>> \o second)
    BY <2>2, FitConcat
  <2>. QED
    BY <2>1, <2>8, RoutesAndMenusAfter, CoveredSimple
<1>3. Covered(MenuItemDelete(i, rows))
  <2>. DEFINE a == Where(<<"reparent", i, ParentOf(i, rows)>>)
              b == Delete(Sees(i))
              c == Expunge(i, ItemColumns(i))
  <2>1. /\ MenuItemDelete(i, rows) = When(Exists(i, "item", rows), <<a, b, c, Forget(Menus)>>)
        /\ <<a, b, c, Forget(Menus)>> = <<a, b, c>> \o <<Forget(Menus)>>
    BY DEF MenuItemDelete, InvalidateMenus
  <2>2. Fit(Menus, a) /\ Fit(Menus, b) /\ Fit(Menus, c)
    BY <1>1, DeleteFit DEF Where, Fit, WhereFit
  <2>. HIDE DEF a, b, c
  <2>. QED
    BY <2>1, <2>2, FitOfThree, ForgetAfter, CoveredWhen
<1>4. Covered(Toggle("item", i, ItemColumns(i), rows) \o <<InvalidateMenus>>)
  <2>1. StatusOf("item", i) \subseteq ItemColumns(i)
    BY DEF ItemColumns
  <2>. QED
    BY <1>1, <2>1, ColumnsAre, ToggleFit, ForgetAfter DEF InvalidateMenus
<1>5. ASSUME NEW d
      PROVE  Covered(MenuItemReorder(i, d, rows))
  <2>. DEFINE m == CHOOSE n \in Menu : <<"of", i, n>> \in rows
              S == {j \in ItemsOf(m, rows) : ParentOf(j, rows) = ParentOf(i, rows)}
  <2>1. IsFiniteSet(S)
    <3>1. S \subseteq Item
      BY DEF ItemsOf
    <3>. QED
      BY <3>1, SiteIdsAssumption, FS_Subset
  <2>2. Siblings(i, rows) = Ordered(S, SortsNow(rows))
    BY DEF Siblings
  <2>. HIDE DEF S
  <2>3. FitList(Menus, Renumber(Siblings(i, rows), i, d, SortsNow(rows), Number))
    BY <2>1, <2>2, NumberFit
  <2>. QED
    BY <2>3, ForgetAfter, CoveredWhen DEF MenuItemReorder, InvalidateMenus
<1>. QED
  BY <1>2, <1>3, <1>4, <1>5

LEMMA ItemParts ==
  ASSUME NEW K, Menus \subseteq K, NEW rows
  PROVE  /\ \A r, m, p : FitList(K, AddRouteToMenu(r, m, p, rows))
         /\ \A r : \A i \in Item : FitList(K, CopyGroups(r, i, rows))
<1>1. ASSUME NEW r, NEW i \in Item
      PROVE  FitList(K, CopyGroups(r, i, rows))
  <2>1. \A Y : Within(K, Links("sees", i, Y))
    BY MenusOnly
  <2>. QED
    BY <2>1, GroupsFit, FitWhen DEF CopyGroups
<1>2. ASSUME NEW r, NEW m, NEW p
      PROVE  FitList(K, AddRouteToMenu(r, m, p, rows))
  <2>. DEFINE free == {i \in Item : ~Exists(i, "item", rows)}
              siblings == {j \in ItemsOf(m, rows) : ParentOf(j, rows) = p}
              i == CHOOSE i \in free : \A j \in free : i <= j
              n == Max0({SortOr0(j, rows) : j \in siblings})
              add == <<WriteItem(i, m, p, r, "active", n), Call(<<"copyGroups", r, i>>)>>
  <2>1. AddRouteToMenu(r, m, p, rows) \in {<<>>, <<Return>>} \/ (free # {} /\ AddRouteToMenu(r, m, p, rows) = add)
    BY DEF AddRouteToMenu
  <2>2. free # {} => i \in Item
    <3>1. free \subseteq Nat /\ free \subseteq Item
      BY SiteIdsAssumption
    <3>. HIDE DEF free
    <3>. QED
      BY <3>1, LeastIs
  <2>. HIDE DEF free, siblings, i, n
  <2>3. i \in Item => Part(K, <<"copyGroups", r, i>>)
    BY DEF Part
  <2>4. i \in Item => FitList(K, add)
    BY <2>3, WriteItemFit, CallFit, FitOfTwo
  <2>. HIDE DEF add
  <2>. QED
    BY <2>1, <2>2, <2>4, FitEmpty, SimpleFit, FitOf
<1>. QED
  BY <1>1, <1>2

----------------------------------------------------------------------------
\* Handlers of blocks

LEMMA SpacesOnly ==
  ASSUME NEW K, Spaces \subseteq K
  PROVE  /\ \A b : Within(K, StatusOf("block", b)) /\ \A s : Within(K, {<<"block", b, s>>})
         /\ \A b, s : Within(K, Placed(b, s)) /\ \A n : Within(K, {<<"in", b, s, n>>})
         /\ \A b, S : Within(K, UNION {Placed(b, s) : s \in S})
         /\ \A b \in Block : \A Y : Within(K, Sees(b)) /\ Within(K, Links("sees", b, Y))
<1>1. \A b, S : \A row \in UNION {Placed(b, s) : s \in S} : row[1] = "in"
  BY ColumnsAre
<1>. QED
  BY <1>1, BlockRows, ColumnsAre

LEMMA BlockHandlers ==
  ASSUME NEW b \in Block, NEW rows
  PROVE  /\ \A S \in SUBSET Space : \A s, G : Covered(BlockForm(b, s, S, G, rows))
         /\ Covered(BlockDelete(b))
         /\ Covered(Toggle("block", b, StatusOf("block", b), rows) \o <<InvalidateBlocks>>)
         /\ \A s, d : Covered(BlockReorder(b, s, d, rows))
<1>1. ASSUME NEW s, NEW S \in SUBSET Space, NEW G
      PROVE  Covered(BlockForm(b, s, S, G, rows))
  <2>. DEFINE row == {<<"block", b, s>>} \cup SeenBy(b, rows)
              save == Write(StatusOf("block", b), row)
              spaces == Call(<<"replaceSpaces", b, S>>)
              first == <<save, spaces>>
              second == ReplaceFormGroups(b, G)
  <2>1. BlockForm(b, s, S, G, rows) \in {<<Return>>, first \o second \o <<Forget(Spaces)>>}
    BY DEF BlockForm, InvalidateBlocks
  <2>2. Part(Spaces, <<"replaceSpaces", b, S>>)
    BY DEF Part
  <2>3. Within(Spaces, StatusOf("block", b)) /\ \A Y : Within(Spaces, Links("sees", b, Y))
    BY SpacesOnly
  <2>6. Within(Spaces, row) /\ Clean(row)
    <3>1. \A x \in row : x[1] = "block" \/ (x[1] = "sees" /\ x[2] = b)
      BY ColumnsAre DEF SeenBy
    <3>. HIDE DEF row
    <3>. QED
      BY <3>1, BlockRows, CleanIs
  <2>. HIDE DEF row
  <2>4. Fit(Spaces, save) /\ Fit(Spaces, spaces) /\ FitList(Spaces, second)
    BY <2>2, <2>3, <2>6, WriteFit, CallFit, GroupsFit
  <2>. HIDE DEF save, spaces
  <2>5. FitList(Spaces, first)
    BY <2>4, FitOfTwo
  <2>. HIDE DEF first, second
  <2>. QED
    BY <2>1, <2>4, <2>5, FitConcat, ForgetAfter, CoveredSimple
<1>2. Covered(BlockDelete(b))
  <2>. DEFINE x == Delete(UNION {Placed(b, s) : s \in Space})
              y == Delete(Sees(b))
              z == Expunge(b, StatusOf("block", b))
  <2>1. BlockDelete(b) = <<x, y, z, Forget(Spaces)>> /\ <<x, y, z, Forget(Spaces)>> = <<x, y, z>> \o <<Forget(Spaces)>>
    BY DEF BlockDelete, InvalidateBlocks
  <2>2. Fit(Spaces, x) /\ Fit(Spaces, y) /\ Fit(Spaces, z)
    BY SpacesOnly, DeleteFit
  <2>. HIDE DEF x, y, z
  <2>. QED
    BY <2>1, <2>2, FitOfThree, ForgetAfter
<1>3. Covered(Toggle("block", b, StatusOf("block", b), rows) \o <<InvalidateBlocks>>)
  BY SpacesOnly, StatusFit, ForgetAfter DEF InvalidateBlocks
<1>4. ASSUME NEW s, NEW d
      PROVE  Covered(BlockReorder(b, s, d, rows))
  <2>. DEFINE place == PlaceAnew(InSpace(s, rows), b, d, SpaceSorts(s, rows), s)
  <2>1. BlockReorder(b, s, d, rows) \in {<<Return>>, place \o <<Forget(Spaces)>>}
    BY DEF BlockReorder, InvalidateBlocks, PlaceAnew
  <2>2. DOMAIN SpaceSorts(s, rows) \subseteq Block
    BY DEF SpaceSorts
  <2>3. IsFiniteSet(DOMAIN SpaceSorts(s, rows))
    BY <2>2, SiteIdsAssumption, FS_Subset
  <2>4. FitList(Spaces, place)
    BY <2>3, PlaceFit DEF InSpace
  <2>. HIDE DEF place
  <2>. QED
    BY <2>1, <2>4, ForgetAfter, CoveredSimple
<1>. QED
  BY <1>1, <1>2, <1>3, <1>4

LEMMA DashboardCovered ==
  ASSUME NEW rows
  PROVE  Covered(EnsureAdminDashboardBlocks(rows))
<1>. DEFINE missing == {b \in DOMAIN Widget : ~Exists(b, "block", rows)}
            calls == Calls(missing, "seedWidget")
            last == When(missing # {}, <<Forget(Spaces)>>)
<1>1. EnsureAdminDashboardBlocks(rows) = calls \o last
  BY DEF EnsureAdminDashboardBlocks, InvalidateBlocks, Each, Calls
<1>2. missing \subseteq Block
  BY SiteSeedsAssumption
<1>3. IsFiniteSet(missing)
  BY <1>2, SiteIdsAssumption, FS_Subset
<1>. HIDE DEF missing
<1>4. CASE missing = {}
  <2>1. FitList({}, calls)
    BY <1>3, <1>4, CallsFit
  <2>. HIDE DEF calls
  <2>. QED
    BY <1>1, <1>4, <2>1, CoveredFit, CoveredBoth, CoveredSimple DEF When
<1>5. CASE missing # {}
  <2>1. \A b \in missing : Part(Spaces, <<"seedWidget", b>>)
    BY <1>2 DEF Part
  <2>2. \A b \in missing : Fit(Spaces, Call(<<"seedWidget", b>>))
    BY <2>1, CallFit
  <2>3. FitList(Spaces, calls)
    BY <1>3, <2>2, CallsFit
  <2>. HIDE DEF calls
  <2>. QED
    BY <1>1, <1>5, <2>3, ForgetAfter DEF When
<1>. QED
  BY <1>4, <1>5

LEMMA BlockParts ==
  ASSUME NEW K, Spaces \subseteq K, NEW rows
  PROVE  /\ \A b : \A S \in SUBSET Space : FitList(K, ReplaceBlockSpaces(b, S, rows))
         /\ \A b, s : FitList(K, Place(b, s, rows))
         /\ \A b \in Block : FitList(K, SeedWidget(b))
<1>1. ASSUME NEW b, NEW s
      PROVE  FitList(K, Place(b, s, rows))
  BY SpacesOnly, SaveFit, FitOf DEF Place
<1>2. ASSUME NEW b \in Block
      PROVE  FitList(K, SeedWidget(b))
  BY SpacesOnly, SaveFit, GroupsFit, FitOfThree DEF SeedWidget
<1>3. ASSUME NEW b, NEW S \in SUBSET Space
      PROVE  FitList(K, ReplaceBlockSpaces(b, S, rows))
  <2>. DEFINE new == S \ Member(b, rows)
              old == Member(b, rows) \ S
              p == SetToSeq(new)
              q == SetToSeq(old)
              joins == [i \in DOMAIN p |-> Call(<<"place", b, p[i]>>)]
              leaves == [i \in DOMAIN q |-> Delete(Placed(b, q[i]))]
  <2>1. ReplaceBlockSpaces(b, S, rows) = joins \o leaves
    BY DEF ReplaceBlockSpaces, Each
  <2>2. IsFiniteSet(new) /\ IsFiniteSet(old)
    <3>1. Member(b, rows) \subseteq Space
      BY DEF Member
    <3>. QED
      BY <3>1, SiteIdsAssumption, FS_Subset
  <2>3. \A s : Fit(K, Call(<<"place", b, s>>))
    <3>1. \A s : Part(K, <<"place", b, s>>)
      BY DEF Part
    <3>. QED
      BY <3>1, CallFit
  <2>4. \A s : Fit(K, Delete(Placed(b, s)))
    BY SpacesOnly, DeleteFit
  <2>. HIDE DEF p, q, new, old
  <2>5. (\A i \in DOMAIN joins : Fit(K, joins[i])) /\ (\A i \in DOMAIN leaves : Fit(K, leaves[i]))
    BY <2>3, <2>4
  <2>6. FitList(K, joins) /\ FitList(K, leaves)
    BY <2>2, <2>5, FitEach DEF p, q
  <2>. HIDE DEF joins, leaves
  <2>. QED
    BY <2>1, <2>6, FitConcat
<1>. QED
  BY <1>1, <1>2, <1>3

----------------------------------------------------------------------------
\* Every handler sees to what it changes

Simple == {"routeDelete", "routeToggle", "routeMove", "menuForm", "menuDelete", "menuToggle", "itemDelete", "itemToggle",
           "itemMove", "blockDelete", "blockToggle", "blockMove", "groupToggle", "ensureDefaultRoute", "dashboard", "activate"}

LEMMA RequestIs ==
  ASSUME NEW op \in Request
  PROVE  /\ op[1] \in Simple \cup {"routeForm", "routeApply", "itemForm", "blockForm"}
         /\ op[1] \in {"routeForm", "routeDelete", "routeToggle"} => op[2] \in Route
         /\ op[1] = "routeApply" => op[2] \in SUBSET Route
         /\ op[1] \in {"itemForm", "itemDelete", "itemToggle", "itemMove"} => op[2] \in Item
         /\ op[1] \in {"blockForm", "blockDelete", "blockToggle", "blockMove"} => op[2] \in Block
         /\ op[1] = "blockForm" => op[4] \in SUBSET Space
<1>. DEFINE A == {"routeForm"} \X Route \X Status \X BOOLEAN \X (SUBSET Group) \X (Menu \cup {None}) \X (Item \cup {None})
            B == ({"routeDelete", "routeToggle"} \X Route) \cup ({"routeMove"} \X Route \X {-1, 1})
            C == {"routeApply"} \X (SUBSET Route)
            D == ({"menuForm"} \X Menu \X Status) \cup ({"menuDelete", "menuToggle"} \X Menu)
            E == {"itemForm"} \X Item \X Menu \X (Item \cup {None}) \X (Route \cup {None}) \X Status \X (SUBSET Group)
            F == ({"itemDelete", "itemToggle"} \X Item) \cup ({"itemMove"} \X Item \X {-1, 1})
            G == {"blockForm"} \X Block \X Status \X (SUBSET Space) \X (SUBSET Group)
            H == ({"blockDelete", "blockToggle"} \X Block) \cup ({"blockMove"} \X Block \X Space \X {-1, 1})
            I == ({"groupToggle"} \X Group) \cup {<<"ensureDefaultRoute">>, <<"dashboard">>, <<"activate">>}
<1>1. op \in A \cup B \cup C \cup D \cup E \cup F \cup G \cup H \cup I
  BY DEF Request
<1>2. CASE op \in A
  <2>1. op[1] = "routeForm" /\ op[2] \in Route
    BY <1>2
  <2>. QED
    BY <2>1
<1>3. CASE op \in B
  <2>1. op[1] \in {"routeDelete", "routeToggle", "routeMove"} /\ op[2] \in Route
    BY <1>3
  <2>. QED
    BY <2>1 DEF Simple
<1>4. CASE op \in C
  BY <1>4
<1>5. CASE op \in D
  <2>1. op[1] \in {"menuForm", "menuDelete", "menuToggle"}
    BY <1>5
  <2>. QED
    BY <2>1 DEF Simple
<1>6. CASE op \in E
  <2>1. op[1] = "itemForm" /\ op[2] \in Item
    BY <1>6
  <2>. QED
    BY <2>1
<1>7. CASE op \in F
  <2>1. op[1] \in {"itemDelete", "itemToggle", "itemMove"} /\ op[2] \in Item
    BY <1>7
  <2>. QED
    BY <2>1 DEF Simple
<1>8. CASE op \in G
  <2>1. op[1] = "blockForm" /\ op[2] \in Block /\ op[4] \in SUBSET Space
    BY <1>8
  <2>. QED
    BY <2>1
<1>9. CASE op \in H
  <2>1. op[1] \in {"blockDelete", "blockToggle", "blockMove"} /\ op[2] \in Block
    BY <1>9
  <2>. QED
    BY <2>1 DEF Simple
<1>10. CASE op \in I
  <2>1. op[1] \in {"groupToggle", "ensureDefaultRoute", "dashboard", "activate"}
    BY <1>10
  <2>. QED
    BY <2>1 DEF Simple
<1>. QED
  BY <1>1, <1>2, <1>3, <1>4, <1>5, <1>6, <1>7, <1>8, <1>9, <1>10

LEMMA WholeCovered ==
  ASSUME NEW rows, Clean(rows), NEW c, NEW op, Whole(op)
  PROVE  Covered(Plan(op, rows, c))
<1>0. op \in Request
  BY DEF Whole
<1>1. CASE op[1] = "routeForm"
  <2>1. op[2] \in Route
    BY <1>0, <1>1, RequestIs
  <2>2. Covered(RouteForm(op[2], op[3], op[4], op[5], op[6], op[7], rows))
    BY <2>1, RouteFormCovered
  <2>. QED
    BY <1>1, <2>2 DEF Plan
<1>2. CASE op[1] = "routeDelete"
  <2>1. Covered(RouteDelete(op[2], rows))
    BY <1>0, <1>2, RequestIs, RouteDeleteCovered
  <2>. QED
    BY <1>2, <2>1 DEF Plan
<1>3. CASE op[1] = "routeToggle"
  <2>. DEFINE K == {Routes} \cup Menus
  <2>1. StatusOf("route", op[2]) \subseteq RouteColumns(op[2]) /\ Within(K, RouteColumns(op[2]))
    BY RoutesAndMenus DEF RouteColumns
  <2>2. FitList(K, Toggle("route", op[2], RouteColumns(op[2]), rows))
    BY <2>1, ColumnsAre, ToggleFit
  <2>3. Covered(Toggle("route", op[2], RouteColumns(op[2]), rows) \o InvalidateRoutes)
    BY <2>2, RoutesAndMenusAfter
  <2>. QED
    BY <1>3, <2>3 DEF Plan
<1>4. CASE op[1] = "routeMove"
  <2>1. Covered(RouteMoveSort(op[2], op[3], rows))
    BY RouteMoveCovered
  <2>. QED
    BY <1>4, <2>1 DEF Plan
<1>5. CASE op[1] = "routeApply"
  <2>1. op[2] \in SUBSET Route
    BY <1>0, <1>5, RequestIs
  <2>2. Covered(RouteApply(op[2], rows))
    BY <2>1, RouteApplyCovered
  <2>. QED
    BY <1>5, <2>2 DEF Plan
<1>6. CASE op[1] = "ensureDefaultRoute"
  BY <1>6, DefaultRouteCovered DEF Plan
<1>7. CASE op[1] = "activate"
  BY <1>7, DefaultRouteCovered DEF Plan
<1>8. CASE op[1] = "menuForm"
  <2>1. Covered(MenuForm(op[2], op[3], rows))
    BY MenuHandlers
  <2>. QED
    BY <1>8, <2>1 DEF Plan
<1>9. CASE op[1] = "menuDelete"
  <2>1. Covered(MenuDelete(op[2]))
    BY MenuHandlers
  <2>. QED
    BY <1>9, <2>1 DEF Plan
<1>10. CASE op[1] = "menuToggle"
  <2>1. Covered(Toggle("menu", op[2], StatusOf("menu", op[2]), rows) \o <<InvalidateMenus>>)
    BY MenuHandlers
  <2>. QED
    BY <1>10, <2>1 DEF Plan
<1>11. CASE op[1] = "itemForm"
  <2>1. Covered(MenuItemForm(op[2], op[3], op[4], op[5], op[6], op[7], rows))
    BY <1>0, <1>11, RequestIs, ItemHandlers
  <2>. QED
    BY <1>11, <2>1 DEF Plan
<1>12. CASE op[1] = "itemDelete"
  <2>1. Covered(MenuItemDelete(op[2], rows))
    BY <1>0, <1>12, RequestIs, ItemHandlers
  <2>. QED
    BY <1>12, <2>1 DEF Plan
<1>13. CASE op[1] = "itemToggle"
  <2>1. Covered(Toggle("item", op[2], ItemColumns(op[2]), rows) \o <<InvalidateMenus>>)
    BY <1>0, <1>13, RequestIs, ItemHandlers
  <2>. QED
    BY <1>13, <2>1 DEF Plan
<1>14. CASE op[1] = "itemMove"
  <2>1. Covered(MenuItemReorder(op[2], op[3], rows))
    BY <1>0, <1>14, RequestIs, ItemHandlers
  <2>. QED
    BY <1>14, <2>1 DEF Plan
<1>15. CASE op[1] = "blockForm"
  <2>1. op[2] \in Block /\ op[4] \in SUBSET Space
    BY <1>0, <1>15, RequestIs
  <2>2. Covered(BlockForm(op[2], op[3], op[4], op[5], rows))
    BY <2>1, BlockHandlers
  <2>. QED
    BY <1>15, <2>2 DEF Plan
<1>16. CASE op[1] = "blockDelete"
  <2>1. Covered(BlockDelete(op[2]))
    BY <1>0, <1>16, RequestIs, BlockHandlers
  <2>. QED
    BY <1>16, <2>1 DEF Plan
<1>17. CASE op[1] = "blockToggle"
  <2>1. Covered(Toggle("block", op[2], StatusOf("block", op[2]), rows) \o <<InvalidateBlocks>>)
    BY <1>0, <1>17, RequestIs, BlockHandlers
  <2>. QED
    BY <1>17, <2>1 DEF Plan
<1>18. CASE op[1] = "blockMove"
  <2>1. Covered(BlockReorder(op[2], op[3], op[4], rows))
    BY <1>0, <1>18, RequestIs, BlockHandlers
  <2>. QED
    BY <1>18, <2>1 DEF Plan
<1>19. CASE op[1] = "dashboard"
  BY <1>19, DashboardCovered DEF Plan
<1>20. CASE op[1] = "groupToggle"
  <2>1. Within(Key, StatusOf("group", op[2]))
    BY DEF Within
  <2>2. Covered(GroupToggle(op[2], rows))
    BY <2>1, StatusFit, ForgetAfter DEF GroupToggle
  <2>. QED
    BY <1>20, <2>2 DEF Plan
<1>. QED
  BY <1>0, RequestIs, <1>1, <1>2, <1>3, <1>4, <1>5, <1>6, <1>7, <1>8, <1>9, <1>10, <1>11, <1>12, <1>13, <1>14, <1>15,
     <1>16, <1>17, <1>18, <1>19, <1>20 DEF Simple

LEMMA PartFit ==
  ASSUME NEW rows, NEW c, NEW K, NEW op, Part(K, op)
  PROVE  FitList(K, Plan(op, rows, c))
<1>1. CASE op[1] = "addRouteToMenu"
  <2>1. FitList(K, AddRouteToMenu(op[2], op[3], op[4], rows))
    BY <1>1, ItemParts DEF Part
  <2>. QED
    BY <1>1, <2>1 DEF Plan
<1>2. CASE op[1] = "copyGroups"
  <2>1. FitList(K, CopyGroups(op[2], op[3], rows))
    BY <1>2, ItemParts DEF Part
  <2>. QED
    BY <1>2, <2>1 DEF Plan
<1>3. CASE op[1] = "routeReorder"
  <2>1. FitList(K, RouteReorder(op[2], op[3], rows))
    BY <1>3, RouteParts DEF Part
  <2>. QED
    BY <1>3, <2>1 DEF Plan
<1>4. CASE op[1] = "ensureRoute"
  <2>1. FitList(K, EnsureRoute(op[2], rows))
    BY <1>4, RouteParts DEF Part
  <2>. QED
    BY <1>4, <2>1 DEF Plan
<1>5. CASE op[1] = "ensureRouteDefault"
  <2>1. FitList(K, EnsureRouteDefault(rows))
    BY <1>5, RouteParts DEF Part
  <2>. QED
    BY <1>5, <2>1 DEF Plan
<1>6. CASE op[1] = "replaceSpaces"
  <2>1. FitList(K, ReplaceBlockSpaces(op[2], op[3], rows))
    BY <1>6, BlockParts DEF Part
  <2>. QED
    BY <1>6, <2>1 DEF Plan
<1>7. CASE op[1] = "place"
  <2>1. FitList(K, Place(op[2], op[3], rows))
    BY <1>7, BlockParts DEF Part
  <2>. QED
    BY <1>7, <2>1 DEF Plan
<1>8. CASE op[1] = "seedWidget"
  <2>1. FitList(K, SeedWidget(op[2]))
    BY <1>8, BlockParts DEF Part
  <2>. QED
    BY <1>8, <2>1 DEF Plan
<1>. QED
  BY <1>1, <1>2, <1>3, <1>4, <1>5, <1>6, <1>7, <1>8 DEF Part

----------------------------------------------------------------------------
\* The invariant: whatever is out of date is seen to by a request under way

Shape(o, l) ==
  \/ o \in Key /\ \E k, v : l = <<Read(k)>> \/ l = <<Fill(k, v)>>
  \/ o \notin Key /\ Covered(l)

Underway(w, o, l) == worker[w] = [op |-> o, todo |-> l] /\ l # <<>> /\ Shape(o, l)
Served(w) == worker[w] = Server!Idle \/ \E o, l : Underway(w, o, l)

\* Some change will see to k.
Tends(w, k) == Server!Changing(w) /\ k \in EndedIn(worker[w].todo)
CurrentIn(k, c, rows) == c[k] \in {None, Derive(k, rows)}
Tended == \A k \in Key \ doubtful : CurrentIn(k, cached, db) \/ \E w \in Worker : Tends(w, k)

\* What is about to be cached is what the database says.
Fresh == \A k \in Key \ doubtful, w \in Worker : k \in Server!Filling(w) => Server!Now(w).value = Derive(k, db)

CacheInv ==
  /\ DOMAIN worker = Worker
  /\ Clean(db)
  /\ cached = [k \in Key |-> cached[k]]
  /\ \A w \in Worker : Served(w)
  /\ Tended
  /\ Fresh

\* What kinds of rows there are for a route.
LEMMA RouteRow ==
  ASSUME NEW row \in Row, row[1] = "route"
  PROVE  row[2] \in Route /\ row \in StatusOf("route", row[2])
<1>1. \A r : \A x \in RouteColumns(r) : x[1] = "route" => x \in StatusOf("route", r)
  <2>1. \A r, Y : \A x \in Links("sort", r, Y) : x[1] = "sort"
    BY DEF Links
  <2>. QED
    BY <2>1, ColumnsAre DEF RouteColumns
<1>2. \A b, S : \A x \in UNION {Placed(b, s) : s \in S} : x[1] = "in"
  BY ColumnsAre
<1>3. PICK r \in Route : row \in StatusOf("route", r)
  <2>1. CASE \E r \in Route : row \in RouteColumns(r) \cup Sees(r)
    BY <1>1, <2>1, ColumnsAre
  <2>2. ~\E i : row \in ItemColumns(i) \cup Sees(i)
    BY ColumnsAre
  <2>3. ~\E m : row \in StatusOf("menu", m) \cup StatusOf("group", m)
    BY ColumnsAre
  <2>4. ~\E b : row \in StatusOf("block", b) \cup Sees(b) \cup UNION {Placed(b, s) : s \in Space}
    BY <1>2, ColumnsAre
  <2>. DEFINE R(r) == RouteColumns(r) \cup Sees(r)
              I(i) == ItemColumns(i) \cup Sees(i)
              B(b) == StatusOf("block", b) \cup Sees(b) \cup UNION {Placed(b, s) : s \in Space}
              X == UNION {R(r) : r \in Route}
              Y == UNION {I(i) : i \in Item}
              Z == UNION {B(b) : b \in Block}
              M == UNION {StatusOf("menu", m) : m \in Menu}
              G == UNION {StatusOf("group", g) : g \in Group}
  <2>5. Row = X \cup Y \cup M \cup G \cup Z
    BY DEF Row
  <2>6. (\A i : row \notin I(i)) /\ (\A b : row \notin B(b))
    BY <2>2, <2>4
  <2>7. \A r : row \in R(r) => row \in RouteColumns(r) \cup Sees(r)
    OBVIOUS
  <2>. HIDE DEF R, I, B
  <2>8. row \notin Y /\ row \notin Z /\ row \notin M /\ row \notin G /\ (row \in X => \E r \in Route : row \in R(r))
    BY <2>3, <2>6
  <2>. HIDE DEF X, Y, Z, M, G
  <2>9. row \in X
    BY <2>5, <2>8
  <2>. QED
    BY <2>1, <2>7, <2>8, <2>9
<1>. QED
  BY <1>3, ColumnsAre

LEMMA StartClean ==
  ASSUME NEW rows \in Start
  PROVE  Clean(rows)
<1>. SUFFICES ASSUME NEW row \in rows, row[1] = "route" PROVE row[2] \in Legacy
  BY DEF Clean
<1>1. row[2] \in Route /\ row \in StatusOf("route", row[2])
  BY SiteStartAssumption, RouteRow
<1>. QED
  BY <1>1 DEF Legacy, Exists

LEMMA CacheInit ==
  ASSUME Server!Init
  PROVE  CacheInv
<1>1. cached = [k \in Key |-> None] /\ worker = [w \in Worker |-> Server!Idle]
  BY DEF Server!Init
<1>2. \A w \in Worker : worker[w] = Server!Idle
  BY <1>1
<1>3. \A w \in Worker : Server!Filling(w) = {}
  BY <1>2 DEF Server!Filling, Server!At, Server!Busy
<1>4. \A k \in Key : CurrentIn(k, cached, db)
  BY <1>1 DEF CurrentIn
<1>5. cached = [k \in Key |-> cached[k]] /\ DOMAIN worker = Worker
  BY <1>1
<1>6. Clean(db)
  BY SiteStartAssumption, StartClean DEF Server!Init
<1>. QED
  BY <1>2, <1>3, <1>4, <1>5, <1>6 DEF CacheInv, Served, Tended, Fresh

----------------------------------------------------------------------------
\* Steps that remain

LEMMA FitSorts ==
  ASSUME NEW K, NEW s, Fit(K, s)
  PROVE  s.do \in {"call", "where", "statement", "return", "forget", "overlook"}
BY DEF Fit, StatementFit

LEMMA ShapeSeq ==
  ASSUME NEW o, NEW l, Shape(o, l)
  PROVE  \E S : l \in Seq(S)
<1>1. CASE \E k, v : l = <<Read(k)>> \/ l = <<Fill(k, v)>>
  <2>1. \A a : <<a>> \in Seq({a})
    OBVIOUS
  <2>. QED
    BY <1>1, <2>1
<1>2. CASE Covered(l)
  BY <1>2 DEF Covered
<1>. QED
  BY <1>1, <1>2 DEF Shape

\* A list of steps is what its first step and the others make.
LEMMA EndedTail ==
  ASSUME NEW l, \E S : l \in Seq(S), l # <<>>
  PROVE  \A k \in EndedIn(l) : k \in EndedIn(Tail(l)) \/ Ends(Head(l), k)
<1>1. PICK S : l \in Seq(S)
  OBVIOUS
<1>2. /\ Head(l) = l[1]
      /\ \A i \in DOMAIN l : i = 1 \/ (i - 1 \in DOMAIN Tail(l) /\ Tail(l)[i - 1] = l[i])
  BY <1>1
<1>. QED
  BY <1>2 DEF EndedIn

\* A change never stores what it read.
LEMMA CoveredHead ==
  ASSUME NEW l, Covered(l), l # <<>>
  PROVE  Head(l).do \notin {"fill", "read", "catch", "resolve"}
BY CoveredTail, FitSorts

----------------------------------------------------------------------------
\* Requests come and go on

LEMMA UnderwayIs ==
  ASSUME CacheInv, NEW w \in Worker, NEW do, Server!At(w, do)
  PROVE  \E o, l : Underway(w, o, l) /\ Head(l).do = do
<1>1. PICK o, l : Underway(w, o, l)
  BY DEF CacheInv, Served, Server!At, Server!Busy
<1>2. Head(l).do = do
  BY <1>1 DEF Server!At, Underway
<1>. QED
  BY <1>1, <1>2

LEMMA ChangingIs ==
  ASSUME NEW w, NEW o, NEW l, Underway(w, o, l)
  PROVE  Server!Changing(w) <=> o \notin Key
BY DEF Underway, Server!Changing, Server!Busy, Server!Idle

\* A request that changes something has more to do than to look.
LEMMA Changes ==
  ASSUME NEW w, NEW o, NEW l, Underway(w, o, l), Head(l).do \notin {"read", "fill"}
  PROVE  o \notin Key /\ Covered(l) /\ l # <<>>
<1>1. \A k, v : Head(<<Read(k)>>).do = "read" /\ Head(<<Fill(k, v)>>).do = "fill"
  BY DEF Read, Fill
<1>. QED
  BY <1>1 DEF Underway, Shape

LEMMA Views ==
  ASSUME NEW w, NEW o, NEW l, Underway(w, o, l), Head(l).do \in {"read", "fill"}
  PROVE  o \in Key /\ Tail(l) = <<>>
<1>1. \A k, v : Tail(<<Read(k)>>) = <<>> /\ Tail(<<Fill(k, v)>>) = <<>>
  OBVIOUS
<1>2. ~Covered(l)
  BY CoveredHead DEF Underway
<1>. QED
  BY <1>1, <1>2 DEF Underway, Shape

LEMMA InsteadDoes ==
  ASSUME NEW w \in Worker, DOMAIN worker = Worker, NEW o, NEW l, worker[w] = [op |-> o, todo |-> l],
         NEW steps, Server!Instead(w, steps)
  PROVE  /\ (DOMAIN worker)' = Worker
         /\ \A v \in Worker : v # w => worker'[v] = worker[v]
         /\ worker'[w] = IF steps = <<>> THEN Server!Idle ELSE [op |-> o, todo |-> steps]
<1>. DEFINE new == IF steps = <<>> THEN Server!Idle ELSE [worker[w] EXCEPT !.todo = steps]
<1>1. worker' = [worker EXCEPT ![w] = new]
  BY DEF Server!Instead
<1>2. new = IF steps = <<>> THEN Server!Idle ELSE [op |-> o, todo |-> steps]
  OBVIOUS
<1>. HIDE DEF new
<1>3. /\ (DOMAIN worker)' = Worker
      /\ \A v \in Worker : v # w => worker'[v] = worker[v]
      /\ worker'[w] = new
  BY <1>1
<1>. QED
  BY <1>2, <1>3

LEMMA Moves ==
  ASSUME CacheInv, NEW w \in Worker, NEW o, NEW l, Underway(w, o, l), NEW steps, Server!Instead(w, steps),
         steps # <<>> => Shape(o, steps),
         cached' = [k \in Key |-> cached'[k]], Clean(db'),
         \A k \in Key \ doubtful' :
           \/ CurrentIn(k, cached', db')
           \/ o \notin Key /\ k \in EndedIn(steps)
           \/ \E u \in Worker \ {w} : Tends(u, k),
         \A k \in Key \ doubtful' : steps # <<>> /\ Head(steps).do = "fill" /\ Head(steps).key = k =>
           Head(steps).value = Derive(k, db'),
         \A k \in Key \ doubtful', u \in Worker \ {w} : k \in Server!Filling(u) => Server!Now(u).value = Derive(k, db')
  PROVE  CacheInv'
<1>1. /\ (DOMAIN worker)' = Worker
      /\ \A v \in Worker : v # w => worker'[v] = worker[v]
      /\ worker'[w] = IF steps = <<>> THEN Server!Idle ELSE [op |-> o, todo |-> steps]
  BY InsteadDoes DEF CacheInv, Underway
<1>2. ASSUME NEW v \in Worker
      PROVE  Served(v)'
  <2>1. CASE v = w
    BY <1>1, <2>1 DEF Served, Underway, Server!Idle
  <2>2. CASE v # w
    <3>1. worker'[v] = worker[v] /\ Served(v)
      BY <1>1, <2>2 DEF CacheInv
    <3>. QED
      BY <3>1 DEF Served, Underway, Server!Idle
  <2>. QED
    BY <2>1, <2>2
<1>3. ASSUME NEW k \in Key \ doubtful'
      PROVE  CurrentIn(k, cached', db') \/ \E u \in Worker : Tends(u, k)'
  <2>1. CASE CurrentIn(k, cached', db')
    BY <2>1
  <2>2. CASE o \notin Key /\ k \in EndedIn(steps)
    <3>1. steps # <<>>
      BY <2>2 DEF EndedIn
    <3>2. worker'[w] = [op |-> o, todo |-> steps]
      BY <1>1, <3>1
    <3>3. Tends(w, k)'
      BY <2>2, <3>1, <3>2 DEF Tends, Server!Changing, Server!Busy, Server!Idle
    <3>. QED
      BY <3>3
  <2>3. CASE \E u \in Worker \ {w} : Tends(u, k)
    <3>1. PICK u \in Worker \ {w} : Tends(u, k)
      BY <2>3
    <3>2. worker'[u] = worker[u]
      BY <1>1
    <3>3. Tends(u, k)'
      BY <3>1, <3>2 DEF Tends, Server!Changing, Server!Busy, Server!Idle
    <3>. QED
      BY <3>3
  <2>. QED
    BY <2>1, <2>2, <2>3
<1>4. ASSUME NEW k \in Key \ doubtful', NEW v \in Worker, (k \in Server!Filling(v))'
      PROVE  (Server!Now(v).value = Derive(k, db))'
  <2>1. CASE v = w
    <3>1. steps # <<>> /\ Head(steps).do = "fill" /\ Head(steps).key = k
      BY <1>1, <1>4, <2>1 DEF Server!Filling, Server!At, Server!Busy, Server!Now, Server!Idle
    <3>2. Head(steps).value = Derive(k, db')
      BY <3>1
    <3>. QED
      BY <1>1, <2>1, <3>1, <3>2 DEF Server!Now
  <2>2. CASE v # w
    <3>1. worker'[v] = worker[v]
      BY <1>1, <2>2
    <3>2. k \in Server!Filling(v)
      BY <1>4, <3>1 DEF Server!Filling, Server!At, Server!Busy, Server!Now, Server!Idle
    <3>3. Server!Now(v).value = Derive(k, db')
      BY <2>2, <3>2
    <3>. QED
      BY <3>1, <3>3 DEF Server!Now
  <2>. QED
    BY <2>1, <2>2
<1>5. Tended'
  BY <1>3 DEF Tended
<1>6. Fresh'
  BY <1>4 DEF Fresh
<1>. QED
  BY <1>1, <1>2, <1>5, <1>6 DEF CacheInv, Clean

\* A request goes on, and neither the rows nor the caches change.
LEMMA KeepsOn ==
  ASSUME CacheInv, NEW w \in Worker, NEW o, NEW l, Underway(w, o, l), NEW steps, Server!Instead(w, steps),
         db' = db, cached' = cached, doubtful \subseteq doubtful',
         steps # <<>> => Shape(o, steps),
         \A k \in Key \ doubtful' : o \notin Key /\ k \in EndedIn(l) => k \in EndedIn(steps) \/ CurrentIn(k, cached, db),
         steps # <<>> /\ Head(steps).do = "fill" => Head(steps).value = Derive(Head(steps).key, db)
  PROVE  CacheInv'
<1>1. cached' = [k \in Key |-> cached'[k]] /\ Clean(db')
  BY DEF CacheInv
<1>2. ASSUME NEW k \in Key \ doubtful'
      PROVE  \/ CurrentIn(k, cached', db')
             \/ o \notin Key /\ k \in EndedIn(steps)
             \/ \E u \in Worker \ {w} : Tends(u, k)
  <2>1. CurrentIn(k, cached, db) \/ \E u \in Worker : Tends(u, k)
    BY DEF CacheInv, Tended
  <2>2. Tends(w, k) => o \notin Key /\ k \in EndedIn(l)
    BY ChangingIs DEF Tends, Underway
  <2>. QED
    BY <2>1, <2>2
<1>3. \A k \in Key \ doubtful' : steps # <<>> /\ Head(steps).do = "fill" /\ Head(steps).key = k =>
        Head(steps).value = Derive(k, db')
  OBVIOUS
<1>4. \A k \in Key \ doubtful', u \in Worker \ {w} : k \in Server!Filling(u) => Server!Now(u).value = Derive(k, db')
  BY DEF CacheInv, Fresh
<1>. QED
  BY <1>1, <1>2, <1>3, <1>4, Moves

LEMMA Arrives ==
  ASSUME CacheInv, NEW w \in Worker, ~Server!Busy(w), NEW o, NEW l, l # <<>>,
         worker' = [worker EXCEPT ![w] = [op |-> o, todo |-> l]], Shape(o, l), Head(l).do # "fill",
         db' = db, cached' = cached, doubtful' = doubtful
  PROVE  CacheInv'
<1>. DEFINE new == [op |-> o, todo |-> l]
<1>. HIDE DEF new
<1>1. /\ (DOMAIN worker)' = Worker
      /\ \A v \in Worker : v # w => worker'[v] = worker[v]
      /\ worker'[w] = new
  BY DEF CacheInv, new
<1>2. ASSUME NEW v \in Worker
      PROVE  Served(v)'
  <2>1. CASE v = w
    BY <1>1, <2>1 DEF Served, Underway, new
  <2>2. CASE v # w
    <3>1. worker'[v] = worker[v] /\ Served(v)
      BY <1>1, <2>2 DEF CacheInv
    <3>. QED
      BY <3>1 DEF Served, Underway, Server!Idle
  <2>. QED
    BY <2>1, <2>2
<1>3. ASSUME NEW k \in Key \ doubtful'
      PROVE  CurrentIn(k, cached', db') \/ \E u \in Worker : Tends(u, k)'
  <2>1. CurrentIn(k, cached, db) \/ \E u \in Worker : Tends(u, k)
    BY DEF CacheInv, Tended
  <2>2. ASSUME NEW u \in Worker, Tends(u, k)
        PROVE  Tends(u, k)'
    <3>1. u # w
      BY <2>2 DEF Tends, Server!Changing
    <3>2. worker'[u] = worker[u]
      BY <1>1, <3>1
    <3>. QED
      BY <2>2, <3>2 DEF Tends, Server!Changing, Server!Busy, Server!Idle
  <2>. QED
    BY <2>1, <2>2
<1>4. ASSUME NEW k \in Key \ doubtful', NEW v \in Worker, (k \in Server!Filling(v))'
      PROVE  (Server!Now(v).value = Derive(k, db))'
  <2>1. v # w
    BY <1>1, <1>4 DEF Server!Filling, Server!At, new
  <2>2. worker'[v] = worker[v]
    BY <1>1, <2>1
  <2>3. k \in Server!Filling(v)
    BY <1>4, <2>2 DEF Server!Filling, Server!At, Server!Busy, Server!Now, Server!Idle
  <2>4. Server!Now(v).value = Derive(k, db)
    BY <2>3 DEF CacheInv, Fresh
  <2>. QED
    BY <2>2, <2>4 DEF Server!Now
<1>5. Tended'
  BY <1>3 DEF Tended
<1>6. Fresh'
  BY <1>4 DEF Fresh
<1>7. cached' = [k \in Key |-> cached'[k]]
  BY DEF CacheInv
<1>8. Clean(db')
  BY DEF CacheInv
<1>. QED
  BY <1>1, <1>2, <1>5, <1>6, <1>7, <1>8 DEF CacheInv, Clean

LEMMA BeginKeeps ==
  ASSUME CacheInv, NEW w \in Worker, Server!Begin(w)
  PROVE  CacheInv'
<1>1. PICK o \in Does[w] \ Key : worker' = [worker EXCEPT ![w] = [op |-> o, todo |-> <<Call(o)>>]]
  BY DEF Server!Begin, Server!Call, Call
<1>2. db' = db /\ cached' = cached /\ doubtful' = doubtful /\ ~Server!Busy(w)
  BY DEF Server!Begin
<1>3. Whole(o) /\ o \notin Key
  BY <1>1, SiteDoesAssumption DEF Whole
<1>4. Shape(o, <<Call(o)>>)
  BY <1>3, CallFit, FitOf, CoveredFit DEF Shape
<1>5. <<Call(o)>> # <<>> /\ Head(<<Call(o)>>).do # "fill"
  BY DEF Call
<1>. QED
  BY <1>1, <1>2, <1>4, <1>5, Arrives

LEMMA ViewKeeps ==
  ASSUME CacheInv, NEW w \in Worker, Server!View(w)
  PROVE  CacheInv'
<1>1. PICK k \in Key : worker' = [worker EXCEPT ![w] = [op |-> k, todo |-> <<Read(k)>>]]
  BY DEF Server!View, Server!Read, Read
<1>2. db' = db /\ cached' = cached /\ doubtful' = doubtful /\ ~Server!Busy(w)
  BY DEF Server!View
<1>3. Shape(k, <<Read(k)>>)
  BY DEF Shape
<1>4. <<Read(k)>> # <<>> /\ Head(<<Read(k)>>).do # "fill"
  BY DEF Read
<1>. QED
  BY <1>1, <1>2, <1>3, <1>4, Arrives

----------------------------------------------------------------------------
\* Steps that leave the rows and the caches as they are

LEMMA ExpandKeeps ==
  ASSUME CacheInv, NEW w \in Worker, Server!Expand(w)
  PROVE  CacheInv'
<1>1. PICK o, l : Underway(w, o, l) /\ Head(l).do = "call"
  BY UnderwayIs DEF Server!Expand
<1>2. db' = db /\ cached' = cached /\ doubtful' = doubtful
  BY DEF Server!Expand
<1>. DEFINE op == Head(l).op
            plan == Plan(op, db, cached)
<1>3. Server!Instead(w, plan \o Tail(l))
  BY <1>1 DEF Server!Expand, Server!Now, Server!Later, Underway
<1>4. o \notin Key /\ Covered(l) /\ l # <<>>
  BY <1>1, Changes
<1>5. Fit(EndedIn(Tail(l)), Head(l)) /\ Covered(Tail(l))
  BY <1>4, CoveredTail
<1>6. \A k \in EndedIn(l) : k \in EndedIn(Tail(l))
  BY <1>1, <1>4, EndedTail DEF Covered, Ends
<1>7. Covered(plan) \/ FitList(EndedIn(Tail(l)), plan)
  <2>1. Whole(op) \/ Part(EndedIn(Tail(l)), op)
    BY <1>1, <1>5 DEF Fit, StatementFit
  <2>. QED
    BY <2>1, WholeCovered, PartFit DEF CacheInv
<1>. HIDE DEF plan
<1>8. Covered(plan \o Tail(l))
  <2>1. CASE Covered(plan)
    BY <1>5, <2>1, CoveredBoth
  <2>2. CASE FitList(EndedIn(Tail(l)), plan)
    BY <1>5, <2>2, CoveredBefore
  <2>. QED
    BY <1>7, <2>1, <2>2
<1>9. EndedIn(Tail(l)) \subseteq EndedIn(plan \o Tail(l))
  <2>1. PICK S, T : plan \in Seq(S) /\ Tail(l) \in Seq(T)
    BY <1>5, <1>7 DEF Covered, FitList
  <2>. QED
    BY <2>1, EndedConcat
<1>. DEFINE steps == plan \o Tail(l)
<1>. HIDE DEF steps
<1>10. Server!Instead(w, steps) /\ Covered(steps) /\ \A k \in EndedIn(l) : k \in EndedIn(steps)
  BY <1>3, <1>6, <1>8, <1>9 DEF steps
<1>11. steps # <<>> => Shape(o, steps) /\ Head(steps).do # "fill"
  BY <1>4, <1>10, CoveredHead DEF Shape
<1>. QED
  BY <1>1, <1>2, <1>10, <1>11, KeepsOn

\* A request goes on with its next step.
LEMMA ProceedKeeps ==
  ASSUME CacheInv, NEW w \in Worker, NEW o, NEW l, Underway(w, o, l), Head(l).do \notin {"read", "fill"},
         Server!Proceed(w), db' = db, cached' = cached, doubtful \subseteq doubtful',
         \A k \in Key \ doubtful' : Ends(Head(l), k) => CurrentIn(k, cached, db)
  PROVE  CacheInv'
<1>1. Server!Instead(w, Tail(l))
  BY DEF Server!Proceed, Server!Later, Underway
<1>2. o \notin Key /\ Covered(l) /\ l # <<>>
  BY Changes
<1>3. \A k \in Key \ doubtful' : k \in EndedIn(l) => k \in EndedIn(Tail(l)) \/ CurrentIn(k, cached, db)
  BY <1>2, EndedTail DEF Covered
<1>4. Tail(l) # <<>> => Shape(o, Tail(l)) /\ Head(Tail(l)).do # "fill"
  BY <1>2, CoveredTail, CoveredHead DEF Shape
<1>. QED
  BY <1>1, <1>3, <1>4, KeepsOn

\* An error leaves in doubt what is not up to date.
LEMMA ErrorKeeps ==
  ASSUME CacheInv, NEW w \in Worker, NEW o, NEW l, Underway(w, o, l), Head(l).do \notin {"read", "fill"},
         Server!Errs(w), db' = db, cached' = cached
  PROVE  CacheInv'
<1>1. PICK steps : /\ Server!Instead(w, steps)
                   /\ steps = <<>> \/ \E i \in DOMAIN Tail(l) : Tail(l)[i].do = "catch"
  BY DEF Server!Errs, Server!Error, Server!Later, Underway
<1>2. o \notin Key /\ Covered(l) /\ l # <<>>
  BY Changes
<1>3. doubtful' = doubtful \cup Server!Doubted
  BY DEF Server!Errs
<1>4. \A k \in Key \ doubtful' : CurrentIn(k, cached, db)
  BY <1>3 DEF Server!Doubted, Server!Current, CurrentIn
<1>5. steps = <<>>
  <2>. SUFFICES ASSUME NEW i \in DOMAIN Tail(l), Tail(l)[i].do = "catch" PROVE FALSE
    BY <1>1
  <2>1. Fit(EndedAfter(Tail(l), i), Tail(l)[i])
    BY <1>2, CoveredTail DEF Covered
  <2>. QED
    BY <2>1, FitSorts
<1>. QED
  BY <1>1, <1>3, <1>4, <1>5, KeepsOn

LEMMA ReadKeeps ==
  ASSUME CacheInv, NEW w \in Worker, Server!ReadRows(w)
  PROVE  CacheInv'
<1>1. PICK o, l : Underway(w, o, l) /\ Head(l).do = "read"
  BY UnderwayIs DEF Server!ReadRows
<1>2. db' = db /\ cached' = cached /\ doubtful' = doubtful
  BY DEF Server!ReadRows
<1>. DEFINE k == Head(l).key
            fill == Fill(k, Derive(k, db))
<1>3. o \in Key /\ Tail(l) = <<>>
  BY <1>1, Views
<1>4. Server!Instead(w, <<fill>> \o Tail(l))
  BY <1>1 DEF Server!ReadRows, Server!Now, Server!Later, Server!Fill, Fill, Underway
<1>5. Shape(o, <<fill>>)
  BY <1>3 DEF Shape
<1>6. fill.key = k /\ fill.value = Derive(k, db)
  BY DEF Fill
<1>. HIDE DEF fill, k
<1>7. <<fill>> \o <<>> = <<fill>> /\ <<fill>> # <<>> /\ Head(<<fill>>) = fill
  OBVIOUS
<1>8. Head(<<fill>>).value = Derive(Head(<<fill>>).key, db)
  BY <1>6, <1>7
<1>. DEFINE steps == <<fill>>
<1>. HIDE DEF steps
<1>9. Server!Instead(w, steps) /\ Shape(o, steps) /\ Head(steps).value = Derive(Head(steps).key, db)
  BY <1>3, <1>4, <1>5, <1>7, <1>8 DEF steps
<1>. QED
  BY <1>1, <1>2, <1>3, <1>9, KeepsOn

LEMMA QuietSteps ==
  ASSUME CacheInv, NEW w \in Worker,
         Server!Pass(w) \/ Server!Look(w) \/ Server!GiveUp(w) \/ Server!Fail(w) \/ Server!Omit(w)
  PROVE  CacheInv'
<1>1. ~Server!Pass(w) /\ ~Server!Look(w)
  <2>. SUFFICES ASSUME Server!Pass(w) \/ Server!Look(w) PROVE FALSE
    OBVIOUS
  <2>1. PICK o, l : Underway(w, o, l) /\ Head(l).do \in {"catch", "resolve"}
    BY UnderwayIs DEF Server!Pass, Server!Look
  <2>. QED
    BY <2>1, Changes, CoveredHead
<1>2. CASE Server!GiveUp(w)
  <2>1. PICK o, l : Underway(w, o, l) /\ Head(l).do = "return"
    BY <1>2, UnderwayIs DEF Server!GiveUp
  <2>2. Server!Errs(w) /\ db' = db /\ cached' = cached
    BY <1>2 DEF Server!GiveUp
  <2>. QED
    BY <2>1, <2>2, ErrorKeeps
<1>3. CASE Server!Fail(w)
  <2>1. PICK o, l : Underway(w, o, l) /\ Head(l).do \in {"statement", "where"}
    BY <1>3, UnderwayIs DEF Server!Fail, Server!Executing
  <2>2. db' = db /\ cached' = cached
    BY <1>3 DEF Server!Fail
  <2>3. CASE Server!Errs(w)
    BY <2>1, <2>2, <2>3, ErrorKeeps
  <2>4. CASE Server!Proceed(w) /\ doubtful' = doubtful
    BY <2>1, <2>2, <2>4, ProceedKeeps DEF Ends
  <2>. QED
    BY <1>3, <2>3, <2>4 DEF Server!Fail
<1>4. CASE Server!Omit(w)
  <2>1. PICK o, l : Underway(w, o, l) /\ Head(l).do = "overlook"
    BY <1>4, UnderwayIs DEF Server!Omit
  <2>2. /\ Server!Proceed(w) /\ db' = db /\ cached' = cached
        /\ doubtful' = doubtful \cup (Head(l).keys \cap Server!Doubted)
    BY <1>4, <2>1 DEF Server!Omit, Server!Now, Underway
  <2>3. \A k \in Key \ doubtful' : Ends(Head(l), k) => CurrentIn(k, cached, db)
    BY <2>2 DEF Ends, Server!Doubted, Server!Current, CurrentIn
  <2>. QED
    BY <2>1, <2>2, <2>3, ProceedKeeps
<1>. QED
  BY <1>1, <1>2, <1>3, <1>4

----------------------------------------------------------------------------
\* Steps that change what is cached

LEMMA StoreKeeps ==
  ASSUME CacheInv, NEW w \in Worker, Server!Store(w)
  PROVE  CacheInv'
<1>1. PICK o, l : Underway(w, o, l) /\ Head(l).do = "fill"
  BY UnderwayIs DEF Server!Store
<1>. DEFINE x == Head(l).key
            v == Head(l).value
<1>2. /\ Server!Instead(w, Tail(l)) /\ db' = db
      /\ cached' = [cached EXCEPT ![x] = v]
      /\ doubtful' = IF \E u \in Worker : Server!Changing(u) THEN doubtful \cup Server!Filling(w) ELSE doubtful
  BY <1>1 DEF Server!Store, Server!Proceed, Server!Later, Server!Now, Underway
<1>3. Server!Filling(w) = {x} /\ Server!Now(w).value = v
  BY <1>1 DEF Server!Filling, Server!At, Server!Now, Server!Busy, Server!Idle, Underway
<1>4. o \in Key /\ Tail(l) = <<>>
  BY <1>1, Views
<1>. HIDE DEF x, v
<1>7. Clean(db')
  BY <1>2 DEF CacheInv
<1>6. /\ cached' = [k \in Key |-> cached'[k]] /\ \A k \in Key : k # x => cached'[k] = cached[k]
      /\ x \in Key => cached'[x] = v
  BY <1>2 DEF CacheInv
<1>9. ASSUME NEW k \in Key \ doubtful'
      PROVE  CurrentIn(k, cached', db') \/ \E u \in Worker \ {w} : Tends(u, k)
  <2>1. k \in Key \ doubtful
    BY <1>2
  <2>2. CASE k = x
    <3>1. v = Derive(k, db)
      BY <1>3, <2>1, <2>2 DEF CacheInv, Fresh
    <3>. QED
      BY <1>2, <1>6, <2>1, <2>2, <3>1 DEF CurrentIn
  <2>3. CASE k # x
    <3>1. CurrentIn(k, cached, db) \/ \E u \in Worker : Tends(u, k)
      BY <2>1 DEF CacheInv, Tended
    <3>2. ~Tends(w, k)
      BY <1>1, <1>4, ChangingIs DEF Tends
    <3>3. CurrentIn(k, cached, db) => CurrentIn(k, cached', db')
      BY <1>2, <1>6, <2>1, <2>3 DEF CurrentIn
    <3>. QED
      BY <3>1, <3>2, <3>3
  <2>. QED
    BY <2>2, <2>3
<1>10. \A k \in Key \ doubtful', u \in Worker \ {w} : k \in Server!Filling(u) => Server!Now(u).value = Derive(k, db')
  BY <1>2 DEF CacheInv, Fresh
<1>. QED
  BY <1>1, <1>2, <1>4, <1>6, <1>7, <1>9, <1>10, Moves

LEMMA InvalidateKeeps ==
  ASSUME CacheInv, NEW w \in Worker, Server!Invalidate(w)
  PROVE  CacheInv'
<1>1. PICK o, l : Underway(w, o, l) /\ Head(l).do = "forget"
  BY UnderwayIs DEF Server!Invalidate
<1>. DEFINE K == Head(l).keys
<1>2. /\ Server!Instead(w, Tail(l)) /\ db' = db
      /\ cached' = [k \in Key |-> IF k \in K THEN None ELSE cached[k]]
      /\ doubtful' = (doubtful \ K) \cup UNION {Server!Filling(u) \cap K : u \in Worker}
  BY <1>1 DEF Server!Invalidate, Server!Proceed, Server!Later, Server!Now, Underway
<1>3. o \notin Key /\ Covered(l) /\ l # <<>>
  BY <1>1, Changes
<1>4. \A k \in EndedIn(l) : k \in EndedIn(Tail(l)) \/ k \in K
  BY <1>3, EndedTail DEF Ends, Covered
<1>. HIDE DEF K
<1>5. Tail(l) # <<>> => Shape(o, Tail(l)) /\ Head(Tail(l)).do # "fill"
  BY <1>3, CoveredTail, CoveredHead DEF Shape
<1>6. ASSUME NEW k \in Key \ doubtful'
      PROVE  \/ CurrentIn(k, cached', db')
             \/ o \notin Key /\ k \in EndedIn(Tail(l))
             \/ \E u \in Worker \ {w} : Tends(u, k)
  <2>1. CASE k \in K
    BY <1>2, <2>1 DEF CurrentIn
  <2>2. CASE k \notin K
    <3>1. k \in Key \ doubtful /\ cached'[k] = cached[k]
      BY <1>2, <2>2
    <3>2. CurrentIn(k, cached, db) \/ \E u \in Worker : Tends(u, k)
      BY <3>1 DEF CacheInv, Tended
    <3>3. Tends(w, k) => k \in EndedIn(Tail(l))
      BY <1>1, <1>4, <2>2 DEF Tends, Underway
    <3>. QED
      BY <1>2, <1>3, <3>1, <3>2, <3>3 DEF CurrentIn
  <2>. QED
    BY <2>1, <2>2
<1>7. \A k \in Key \ doubtful', u \in Worker \ {w} : k \in Server!Filling(u) => Server!Now(u).value = Derive(k, db')
  BY <1>2 DEF CacheInv, Fresh
<1>8. cached' = [k \in Key |-> cached'[k]] /\ Clean(db')
  BY <1>2 DEF CacheInv
<1>. QED
  BY <1>1, <1>2, <1>5, <1>6, <1>7, <1>8, Moves

LEMMA EvictKeeps ==
  ASSUME CacheInv, NEW x \in Key, Server!Evict(x)
  PROVE  CacheInv'
<1>1. cached' = [cached EXCEPT ![x] = None] /\ db' = db /\ worker' = worker /\ doubtful' = doubtful
  BY DEF Server!Evict
<1>2. cached' = [k \in Key |-> cached'[k]] /\ \A k \in Key : cached'[k] = None \/ cached'[k] = cached[k]
  BY <1>1 DEF CacheInv
<1>3. \A v \in Worker : Served(v)'
  BY <1>1 DEF CacheInv, Served, Underway, Server!Idle
<1>4. Tended'
  <2>1. \A u, k : Tends(u, k) <=> Tends(u, k)'
    BY <1>1 DEF Tends, Server!Changing, Server!Busy, Server!Idle
  <2>2. \A k \in Key : CurrentIn(k, cached, db) => CurrentIn(k, cached', db')
    BY <1>1, <1>2 DEF CurrentIn
  <2>. QED
    BY <1>1, <2>1, <2>2 DEF CacheInv, Tended
<1>5. Fresh'
  BY <1>1 DEF CacheInv, Fresh, Server!Filling, Server!At, Server!Busy, Server!Now, Server!Idle
<1>6. (DOMAIN worker)' = Worker /\ Clean(db)'
  BY <1>1 DEF CacheInv, Clean
<1>. QED
  BY <1>2, <1>3, <1>4, <1>5, <1>6 DEF CacheInv

----------------------------------------------------------------------------
\* Statements

\* What Save makes again.
LEMMA AgainIs ==
  ASSUME NEW old, Columns(old), NEW rows
  PROVE  Columns(Again(old, rows)) /\ Clean(Again(old, rows))
<1>1. Again(old, rows) \subseteq old
  BY DEF Again
<1>. QED
  BY <1>1 DEF Columns, Clean

\* The items of a menu go, the children of an item move up, and what was read is made again, as
\* the database finds them.
LEMMA WhereIs ==
  ASSUME NEW K, NEW op, WhereFit(K, op), NEW rows, NEW c
  PROVE  StatementFit(K, Head(Plan(op, rows, c)))
<1>. Menus \subseteq K
  BY DEF WhereFit
<1>1. CASE op[1] = "deleteItemsOf"
  <2>. DEFINE I == ItemsOf(op[2], rows)
              columns == UNION {ItemColumns(i) : i \in I}
              s == Ignored(Unless(UNION {Sees(i) : i \in I}, Delete(columns)))
  <2>1. Plan(op, rows, c) = <<s>>
    BY <1>1 DEF Plan, DeleteItemsOf
  <2>2. s.do = "statement" /\ s.add = {} /\ s.drop = columns
    BY DEF Ignored, Unless, Delete, Statement
  <2>3. \A row \in columns : row[1] \in {"item", "of", "parent", "goes", "sort"}
    BY ColumnsAre
  <2>. HIDE DEF columns, s
  <2>4. Within(K, columns)
    BY <2>3, MenuRows
  <2>5. Within(K, s.add \cup s.drop)
    BY <2>2, <2>4 DEF Within
  <2>. QED
    BY <2>1, <2>2, <2>5, CleanIs DEF StatementFit
<1>2. CASE op[1] = "reparent"
  <2>. DEFINE i == op[2]
              p == op[3]
              children == {d \in Item : <<"parent", d, i>> \in rows}
              old == {<<"parent", d, i>> : d \in children}
              new == IF p = None THEN {} ELSE {<<"parent", d, p>> : d \in children}
              s == Write(old, new)
  <2>1. Plan(op, rows, c) = <<s>>
    BY <1>2 DEF Plan, Reparent
  <2>2. s.do = "statement" /\ s.add = new /\ s.drop = old
    BY DEF Write, Statement
  <2>. HIDE DEF i, p, children
  <2>3. \A row \in new \cup old : row[1] = "parent"
    <3>1. \A row \in old : row[1] = "parent"
      OBVIOUS
    <3>2. \A row \in {<<"parent", d, p>> : d \in children} : row[1] = "parent"
      OBVIOUS
    <3>. QED
      BY <3>1, <3>2
  <2>. HIDE DEF new, old, s
  <2>5. Clean(new)
    BY <2>3, CleanIs
  <2>4. Within(K, new \cup old)
    BY <2>3, MenuRows
  <2>. QED
    <3>1. StatementFit(K, s)
      <4>1. s.add \cup s.drop = new \cup old
        BY <2>2
      <4>. QED
        BY <2>2, <2>4, <2>5, <4>1 DEF StatementFit
    <3>. QED
      BY <2>1, <3>1
<1>3. CASE op[1] = "saveMenu"
  <2>. DEFINE more == Again(op[5], rows)
              links == {<<"of", i, op[2]>> : i \in op[4]}
              new == {<<"menu", op[2], op[3]>>} \cup links \cup more
              others == UNION {Links("of", i, Menu) : i \in op[4]}
              old == StatusOf("menu", op[2]) \cup others
              s == Write(old, new)
  <2>1. Plan(op, rows, c) = <<s>>
    BY <1>3 DEF Plan, SaveMenu
  <2>2. s.do = "statement" /\ s.add = new /\ s.drop = old
    BY DEF Write, Statement
  <2>3. Columns(more) /\ {Routes} \cup Menus \subseteq K
    BY <1>3, AgainIs DEF WhereFit
  <2>. HIDE DEF more
  <2>4. \A row \in new : row[1] \in {"menu", "of"} \/ row \in more
    OBVIOUS
  <2>5. \A row \in others : row[1] = "of"
    BY DEF Links
  <2>. HIDE DEF new, others
  <2>6. \A row \in old : row[1] \in {"menu", "of"}
    BY <2>5, ColumnsAre
  <2>. HIDE DEF old, s
  <2>7. \A row \in new \cup old : row[1] \in {"menu", "route", "default", "item", "of", "parent", "goes", "sort"}
    BY <2>3, <2>4, <2>6 DEF Columns
  <2>8. Within(K, new \cup old)
    BY <2>3, <2>7, RouteRows
  <2>9. Clean(new)
    BY <2>3, <2>4 DEF Columns, Clean
  <2>10. s.add \cup s.drop = new \cup old
    BY <2>2
  <2>11. StatementFit(K, s)
    BY <2>2, <2>8, <2>9, <2>10 DEF StatementFit
  <2>. QED
    BY <2>1, <2>11
<1>4. CASE op[1] = "saveItem"
  <2>. DEFINE i == op[2]
              more == Again(op[9], rows)
              links == op[8]
              item == WriteItem(i, op[3], op[4], op[5], op[6], op[7])
              add == {<<"item", i, op[6]>>, <<"of", i, op[3]>>, <<"sort", i, op[7]>>}
                     \cup (IF op[4] = None THEN {} ELSE {<<"parent", i, op[4]>>})
                     \cup (IF op[5] = None THEN {} ELSE {<<"goes", i, op[5]>>})
              new == add \cup links \cup more
              s == [item EXCEPT !.add = @ \cup links \cup more]
  <2>1. Plan(op, rows, c) = <<s>>
    BY <1>4 DEF Plan, SaveItem
  <2>2. s.do = "statement" /\ s.add = new /\ s.drop = ItemColumns(i)
    BY DEF WriteItem, Write, Statement
  <2>3. Columns(more) /\ ItemLinks(links) /\ {Routes} \cup Menus \subseteq K
    BY <1>4, AgainIs DEF WhereFit
  <2>. HIDE DEF more, links
  <2>4. \A row \in add : row[1] \in {"item", "of", "sort", "parent", "goes"}
    OBVIOUS
  <2>5. \A row \in ItemColumns(i) : row[1] \in {"item", "of", "sort", "parent", "goes"}
    BY ColumnsAre
  <2>. HIDE DEF add, i, s
  <2>6. \A row \in new \cup ItemColumns(i) :
          \/ row[1] \in {"route", "default", "menu", "item", "of", "parent", "goes", "sort"}
          \/ row[1] = "sees" /\ row[2] \in Route \cup Item
    BY <2>3, <2>4, <2>5 DEF Columns, ItemLinks
  <2>7. Within(K, new \cup ItemColumns(i))
    BY <2>3, <2>6, RouteRows
  <2>8. Clean(new)
    BY <2>3, <2>4 DEF Columns, ItemLinks, Clean
  <2>. HIDE DEF new
  <2>9. s.add \cup s.drop = new \cup ItemColumns(i)
    BY <2>2
  <2>10. StatementFit(K, s)
    BY <2>2, <2>7, <2>8, <2>9 DEF StatementFit
  <2>. QED
    BY <2>1, <2>10
<1>. QED
  BY <1>1, <1>2, <1>3, <1>4 DEF WhereFit

LEMMA ExecuteKeeps ==
  ASSUME CacheInv, NEW w \in Worker, Server!Execute(w)
  PROVE  CacheInv'
<1>1. PICK o, l : Underway(w, o, l) /\ Head(l).do \in {"statement", "where"}
  BY UnderwayIs DEF Server!Execute, Server!Executing
<1>. DEFINE sql == Server!Sql(w)
<1>2. /\ Server!Instead(w, Tail(l)) /\ cached' = cached /\ db' = Result(sql, db)
      /\ doubtful' = IF db' = db THEN doubtful ELSE doubtful \cup UNION {Server!Filling(u) : u \in Worker}
  BY <1>1 DEF Server!Execute, Server!Effect, Result, Server!Proceed, Server!Later, Underway
<1>3. sql = IF Head(l).do = "where" THEN Head(Plan(Head(l).op, db, cached)) ELSE Head(l)
  BY <1>1 DEF Server!Sql, Server!At, Server!Now, Server!Busy, Server!Idle, Underway
<1>. HIDE DEF sql
<1>4. o \notin Key /\ Covered(l) /\ l # <<>>
  BY <1>1, Changes
<1>5. \A k \in EndedIn(l) : k \in EndedIn(Tail(l))
  BY <1>1, <1>4, EndedTail DEF Covered, Ends
<1>6. StatementFit(EndedIn(Tail(l)), sql)
  <2>1. Fit(EndedIn(Tail(l)), Head(l))
    BY <1>4, CoveredTail
  <2>2. CASE Head(l).do = "where"
    <3>1. WhereFit(EndedIn(Tail(l)), Head(l).op)
      BY <2>1, <2>2 DEF Fit, StatementFit
    <3>. QED
      BY <1>3, <2>2, <3>1, WhereIs
  <2>3. CASE Head(l).do = "statement"
    BY <1>3, <2>1, <2>3 DEF Fit
  <2>. QED
    BY <1>1, <2>2, <2>3
<1>7. Spares(EndedIn(Tail(l)), db, db')
  BY <1>2, <1>6, StatementSpares
<1>8. Tail(l) # <<>> => Shape(o, Tail(l)) /\ Head(Tail(l)).do # "fill"
  BY <1>4, CoveredTail, CoveredHead DEF Shape
<1>9. ASSUME NEW k \in Key \ doubtful'
      PROVE  \/ CurrentIn(k, cached', db')
             \/ o \notin Key /\ k \in EndedIn(Tail(l))
             \/ \E u \in Worker \ {w} : Tends(u, k)
  <2>1. k \in Key \ doubtful
    BY <1>2
  <2>2. CASE k \in EndedIn(Tail(l))
    BY <1>4, <2>2
  <2>3. CASE k \notin EndedIn(Tail(l))
    <3>1. Derive(k, db') = Derive(k, db)
      BY <1>7, <2>1, <2>3 DEF Spares
    <3>2. CurrentIn(k, cached, db) \/ \E u \in Worker : Tends(u, k)
      BY <2>1 DEF CacheInv, Tended
    <3>3. ~Tends(w, k)
      BY <1>1, <1>5, <2>3 DEF Tends, Underway
    <3>. QED
      BY <1>2, <3>1, <3>2, <3>3 DEF CurrentIn
  <2>. QED
    BY <2>2, <2>3
<1>10. ASSUME NEW k \in Key \ doubtful', NEW u \in Worker \ {w}, k \in Server!Filling(u)
       PROVE  Server!Now(u).value = Derive(k, db')
  <2>1. db' = db /\ k \in Key \ doubtful
    BY <1>2, <1>10
  <2>. QED
    BY <1>10, <2>1 DEF CacheInv, Fresh
<1>11. cached' = [k \in Key |-> cached'[k]] /\ Clean(db')
  BY <1>2, <1>6 DEF CacheInv, StatementFit, Result, Clean
<1>. QED
  BY <1>1, <1>2, <1>8, <1>9, <1>10, <1>11, Moves

LEMMA CacheStep ==
  ASSUME CacheInv, [Server!Next]_(Server!vars)
  PROVE  CacheInv'
<1>1. ASSUME NEW w \in Worker, Server!Begin(w) \/ Server!View(w) \/ Server!Step(w)
      PROVE  CacheInv'
  BY <1>1, BeginKeeps, ViewKeeps, ExpandKeeps, ExecuteKeeps, QuietSteps, ReadKeeps, StoreKeeps, InvalidateKeeps
  DEF Server!Step
<1>2. CASE UNCHANGED Server!vars
  BY <1>2 DEF Server!vars, CacheInv, Clean, Served, Underway, Tended, Tends, Fresh, Server!Changing, Server!Busy, Server!Idle,
     Server!Filling, Server!At, Server!Now
<1>. QED
  BY <1>1, <1>2, EvictKeeps DEF Server!Next

----------------------------------------------------------------------------
\* What is cached

\* Once the changes of routes, menus, items and blocks that are under way are over, whatever else has
\* been changed, looked at and evicted meanwhile and whatever has failed, what is cached of the active
\* routes, of a menu and of a space is what the database says, except where a view overlapped the
\* change, a handler ended with an error or the code drops nothing, as it has it
\* (invalidateRoutesDataCache, invalidateMenusDataCache, invalidateBlocksDataCache and who calls them).
THEOREM CachesShown == Spec => []CachesShow
<1>1. Server!Init => CacheInv
  BY CacheInit
<1>2. CacheInv /\ [Server!Next]_(Server!vars) => CacheInv'
  BY CacheStep
<1>3. CacheInv => CachesShow
  <2>. SUFFICES ASSUME CacheInv, Server!Quiet, NEW k \in Key \ doubtful PROVE Server!Current(k)
    BY DEF CachesShow, Server!UpToDate
  <2>1. \A w \in Worker : ~Tends(w, k)
    BY DEF Server!Quiet, Tends
  <2>2. CurrentIn(k, cached, db)
    BY <2>1 DEF CacheInv, Tended
  <2>. QED
    BY <2>2 DEF CurrentIn, Server!Current
<1>. QED
  BY <1>1, <1>2, <1>3, PTL DEF Spec, Server!Spec

----------------------------------------------------------------------------
\* Who takes a request

LEMMA PatternIs ==
  ASSUME NEW r \in Route
  PROVE  /\ Pattern[r].path \in Seq(Segment) /\ Pattern[r].wild \in BOOLEAN
         /\ Pattern[r] = [path |-> Pattern[r].path, wild |-> Pattern[r].wild]
BY SiteSeedsAssumption

\* Of two beginnings of a path the shorter one begins the longer.
LEMMA PrefixIs ==
  ASSUME NEW s \in Seq(Segment), NEW t \in Seq(Segment), NEW u \in Seq(Segment),
         IsPrefix(s, u), IsPrefix(t, u), Len(s) <= Len(t)
  PROVE  IsPrefix(s, t)
<1>1. /\ Len(s) <= Len(u) /\ SubSeq(s, 1, Len(s)) = SubSeq(u, 1, Len(s))
      /\ Len(t) <= Len(u) /\ SubSeq(t, 1, Len(t)) = SubSeq(u, 1, Len(t))
  BY DEF IsPrefix
<1>2. \A i \in 1..Len(s) : SubSeq(s, 1, Len(s))[i] = s[i] /\ SubSeq(u, 1, Len(s))[i] = u[i] /\ SubSeq(t, 1, Len(s))[i] = t[i]
  BY <1>1
<1>3. \A i \in 1..Len(t) : SubSeq(t, 1, Len(t))[i] = t[i] /\ SubSeq(u, 1, Len(t))[i] = u[i]
  BY <1>1
<1>4. \A i \in 1..Len(s) : s[i] = t[i]
  BY <1>1, <1>2, <1>3
<1>5. SubSeq(s, 1, Len(s)) \in Seq(Segment) /\ SubSeq(t, 1, Len(s)) \in Seq(Segment)
      /\ Len(SubSeq(s, 1, Len(s))) = Len(s) /\ Len(SubSeq(t, 1, Len(s))) = Len(s)
  BY <1>1
<1>6. SubSeq(s, 1, Len(s)) = SubSeq(t, 1, Len(s))
  BY <1>2, <1>4, <1>5
<1>. QED
  BY <1>6 DEF IsPrefix

LEMMA ScoreIs ==
  ASSUME NEW r \in Route, NEW path \in Seq(Segment)
  PROVE  /\ Score(r, path) \in Nat /\ Score(r, path) <= 1000 + Len(path)
         /\ Score(r, path) > 0 /\ Pattern[r].wild =>
              IsPrefix(Pattern[r].path, path) /\ Score(r, path) = 500 + Len(Pattern[r].path)
         /\ Score(r, path) > 0 /\ ~Pattern[r].wild => Pattern[r].path = path /\ Score(r, path) = 1000 + Len(path)
<1>1. IsPrefix(Pattern[r].path, path) => Len(Pattern[r].path) <= Len(path)
  BY DEF IsPrefix
<1>2. Len(path) \in Nat /\ Len(Pattern[r].path) \in Nat
  BY PatternIs
<1>. QED
  BY <1>1, <1>2 DEF Score

\* A custom route that does no worse than a built-in one is in its way.
LEMMA InTheWay ==
  ASSUME RoutesLead, NEW b \in BuiltInRoute, NEW q \in Route \ BuiltInRoute, NEW path \in Seq(Segment),
         Score(b, path) > 0, Score(b, path) <= Score(q, path)
  PROVE  ConflictsWithReservedPath(q)
<1>. DEFINE x == Pattern[q]
            y == Pattern[b]
<1>0. b \in Route
  BY SiteSeedsAssumption
<1>1. Score(q, path) > 0 /\ Score(q, path) \in Nat /\ Score(b, path) \in Nat
  BY <1>0, ScoreIs
<1>2. /\ x.path \in Seq(Segment) /\ x.wild \in BOOLEAN /\ x = [path |-> x.path, wild |-> x.wild]
      /\ y.path \in Seq(Segment) /\ y.wild \in BOOLEAN /\ y = [path |-> y.path, wild |-> y.wild]
  BY <1>0, PatternIs
<1>3. y.wild => IsPrefix(y.path, path) /\ Score(b, path) = 500 + Len(y.path) /\ y.path # <<>>
  BY <1>0, ScoreIs DEF RoutesLead
<1>4. ~y.wild => y.path = path /\ Score(b, path) = 1000 + Len(path)
  BY <1>0, ScoreIs
<1>5. x.wild => IsPrefix(x.path, path) /\ Score(q, path) = 500 + Len(x.path)
  BY <1>1, ScoreIs
<1>6. ~x.wild => x.path = path
  BY <1>1, ScoreIs
<1>. HIDE DEF x, y
<1>7. CASE y.wild /\ x.wild
  <2>1. Len(y.path) <= Len(x.path)
    BY <1>2, <1>3, <1>5, <1>7
  <2>2. IsPrefix(y.path, x.path)
    BY <1>2, <1>3, <1>5, <1>7, <2>1, PrefixIs
  <2>3. Overlap(x, y)
    BY <1>3, <1>7, <2>2 DEF Overlap
  <2>. QED
    BY <2>3 DEF ConflictsWithReservedPath, x, y
<1>8. CASE y.wild /\ ~x.wild
  <2>1. Overlap(x, y)
    BY <1>3, <1>6, <1>8 DEF Overlap
  <2>. QED
    BY <2>1 DEF ConflictsWithReservedPath, x, y
<1>9. CASE ~y.wild /\ x.wild
  <2>1. Len(x.path) <= Len(path) /\ Len(x.path) \in Nat /\ Len(path) \in Nat
    BY <1>2, <1>5, <1>9 DEF IsPrefix
  <2>. QED
    BY <1>4, <1>5, <1>9, <2>1
<1>10. CASE ~y.wild /\ ~x.wild
  <2>1. x = y
    BY <1>2, <1>4, <1>6, <1>10
  <2>2. Overlap(x, y)
    BY <2>1 DEF Overlap
  <2>. QED
    BY <2>2 DEF ConflictsWithReservedPath, x, y
<1>. QED
  BY <1>2, <1>7, <1>8, <1>9, <1>10

\* Of some routes one scores as high as any.
LEMMA HighestIs ==
  ASSUME NEW R \in SUBSET Route, R # {}, NEW path \in Seq(Segment)
  PROVE  \E r \in R : \A q \in R : Score(q, path) <= Score(r, path)
<1>. DEFINE top == 1000 + Len(path)
            short(r) == top - Score(r, path)
            S == {short(r) : r \in R}
<1>1. \A r \in R : Score(r, path) \in Nat /\ Score(r, path) <= top /\ top \in Nat
  BY ScoreIs
<1>2. \A r \in R : short(r) \in Nat
  BY <1>1
<1>. HIDE DEF top
<1>3. S \subseteq Nat /\ S # {}
  BY <1>2
<1>4. \E n \in S : \A m \in S : n <= m
  <2>. HIDE DEF S
  <2>. QED
    BY <1>3, LeastIs
<1>5. PICK r \in R : \A q \in R : short(r) <= short(q)
  BY <1>4
<1>6. \A q \in R : Score(q, path) <= Score(r, path)
  BY <1>1, <1>5
<1>. QED
  BY <1>6

LEMMA LoginPathIs ==
  ASSUME NEW rows
  PROVE  \E l \in LoginRoute : LoginPath(rows) = Pattern[l].path
<1>. DEFINE R == {r \in LoginRoute : Is(r, "route", rows)}
            S == IF R = {} THEN LoginRoute \cap BuiltInRoute ELSE R
<1>1. S # {} /\ S \subseteq LoginRoute /\ S \subseteq Nat
  BY SiteSeedsAssumption, SiteIdsAssumption
<1>2. LoginPath(rows) = Pattern[First(S)].path
  BY DEF LoginPath
<1>. HIDE DEF S
<1>3. First(S) \in S
  BY <1>1, LeastIs DEF First
<1>. QED
  BY <1>1, <1>2, <1>3

LEMMA MatchIs ==
  ASSUME NEW path, NEW G, NEW rows
  PROVE  \A r \in Match(path, G, rows) :
           /\ r \in Route /\ Is(r, "route", rows) /\ Score(r, path) > 0
           /\ \A q \in Route : Is(q, "route", rows) /\ Viewers(q, rows) \cap G # {} /\ Score(q, path) > 0
                => Score(q, path) <= Score(r, path)
BY DEF Match

\* Where a visitor is sent who has been validated, if anywhere.
LEMMA SentOn ==
  ASSUME NEW G, NEW signedIn \in BOOLEAN, NEW login \in BOOLEAN, NEW rows, NEW path,
         NEW a \in Serve(path, Visitor(G, signedIn), Online(login), rows), a[1] = "redirect"
  PROVE  \E r \in Match(path, G, rows) :
           \/ r \in DOMAIN Target /\ a[2] = Target[r]
           \/ r \in GuestOnly /\ signedIn /\ a[2] = DefaultRoutePath(rows)
           \/ r \in MembersOnly /\ ~signedIn /\ a[2] \in {DefaultRoutePath(rows), LoginPath(rows)}
<1>. DEFINE v == Visitor(G, signedIn)
            to(r) == IF r \in DOMAIN Target THEN <<"redirect", Target[r]>> ELSE Dispatch(r, v, login, rows)
            none == \A r \in Route : ~(Is(r, "route", rows) /\ Viewers(r, rows) \cap G # {})
            R == Match(path, G, rows)
<1>1. v.groups = G /\ v.signedIn = signedIn /\ v.validated = TRUE /\ Online(login).offline = FALSE /\ Online(login).login = login
  BY DEF Visitor, Online
<1>2. a \in IF R = {} THEN {IF none THEN <<"no routes">> ELSE <<"not found">>} ELSE {to(r) : r \in R}
  BY <1>1 DEF Serve
<1>3. R # {}
  <2>1. <<"no routes">>[1] # "redirect" /\ <<"not found">>[1] # "redirect"
    OBVIOUS
  <2>. HIDE DEF to, R, none
  <2>. QED
    BY <1>2, <2>1
<1>4. PICK r \in R : a = to(r)
  BY <1>2, <1>3
<1>5. CASE r \in DOMAIN Target
  BY <1>4, <1>5
<1>6. CASE r \notin DOMAIN Target
  <2>1. a = Dispatch(r, v, login, rows)
    BY <1>4, <1>6
  <2>. HIDE DEF v
  <2>. DEFINE home == DefaultRoutePath(rows)
              back == LoginPath(rows)
  <2>2. \/ r \in GuestOnly /\ signedIn /\ a = <<"redirect", home>>
        \/ r \in MembersOnly /\ ~signedIn /\ a \in {<<"redirect", back>>, <<"redirect", home>>}
        \/ a = <<"page", r>>
    BY <1>1, <2>1 DEF Dispatch
  <2>. HIDE DEF home, back
  <2>3. <<"page", r>>[1] # "redirect" /\ <<"redirect", home>>[2] = home /\ <<"redirect", back>>[2] = back
    OBVIOUS
  <2>4. \/ r \in GuestOnly /\ signedIn /\ a[2] = home
        \/ r \in MembersOnly /\ ~signedIn /\ a[2] \in {home, back}
    BY <2>2, <2>3
  <2>. QED
    BY <2>4 DEF home, back
<1>. QED
  BY <1>5, <1>6

\* An active built-in route somebody may see keeps its requests.
LEMMA BuiltInFirst ==
  ASSUME RoutesLead, NEW rows, \A r \in Route : Is(r, "route", rows) => ~ConflictsWithReservedPath(r),
         NEW G, NEW path \in Seq(Segment), NEW b \in BuiltInRoute,
         Is(b, "route", rows), Viewers(b, rows) \cap G # {}, Score(b, path) > 0
  PROVE  Match(path, G, rows) \subseteq BuiltInRoute /\ Match(path, G, rows) # {}
<1>1. b \in Route
  BY SiteSeedsAssumption
<1>2. ASSUME NEW r \in Match(path, G, rows)
      PROVE  r \in BuiltInRoute
  <2>1. r \in Route /\ Is(r, "route", rows) /\ Score(b, path) <= Score(r, path)
    BY <1>1, MatchIs
  <2>. QED
    BY <2>1, InTheWay
<1>3. Match(path, G, rows) # {}
  <2>. DEFINE R == {r \in Route : Is(r, "route", rows) /\ Viewers(r, rows) \cap G # {} /\ Score(r, path) > 0}
  <2>1. R \in SUBSET Route /\ R # {}
    BY <1>1
  <2>2. Match(path, G, rows) = {r \in R : \A q \in R : Score(q, path) <= Score(r, path)}
    BY DEF Match
  <2>. HIDE DEF R
  <2>3. \E r \in R : \A q \in R : Score(q, path) <= Score(r, path)
    BY <2>1, HighestIs
  <2>. QED
    BY <2>2, <2>3
<1>. QED
  BY <1>2, <1>3

\* What shows at the path of the login to somebody who is not signed in, whether the site is offline or not.
LEMMA LoginShows ==
  ASSUME RoutesLead, NEW rows, NEW G, NEW login \in BOOLEAN, NEW offline \in BOOLEAN, Match(LoginPath(rows), G, rows) # {},
         NEW a \in Serve(LoginPath(rows), Visitor(G, FALSE), [offline |-> offline, login |-> login], rows)
  PROVE  a[1] = "page"
<1>. DEFINE path == LoginPath(rows)
            v == Visitor(G, FALSE)
            site == [offline |-> offline, login |-> login]
            to(r) == IF r \in DOMAIN Target THEN <<"redirect", Target[r]>> ELSE Dispatch(r, v, login, rows)
            R == Match(path, G, rows)
<1>1. PICK l \in LoginRoute : path = Pattern[l].path
  BY LoginPathIs
<1>2. v.groups = G /\ v.signedIn = FALSE /\ v.validated = TRUE /\ v.staff = FALSE
  BY DEF Visitor
<1>3. BypassesOffline(path, v)
  <2>1. BypassesOffline(path, Visitor({}, FALSE))
    BY <1>1 DEF RoutesLead
  <2>. QED
    BY <1>2, <2>1 DEF BypassesOffline, Visitor
<1>4. a \in {to(r) : r \in R}
  <2>1. R # {} /\ site.login = login
    OBVIOUS
  <2>2. Serve(path, v, site, rows) = {IF r \in DOMAIN Target THEN <<"redirect", Target[r]>> ELSE Dispatch(r, v, site.login, rows) : r \in R}
    BY <1>2, <1>3, <2>1 DEF Serve
  <2>. QED
    BY <2>1, <2>2
<1>5. PICK r \in R : a = to(r)
  BY <1>4
<1>6. r \notin MembersOnly /\ r \notin DOMAIN Target
  <2>1. r \in Route /\ Score(r, path) > 0
    BY MatchIs
  <2>. QED
    BY <1>1, <2>1 DEF RoutesLead
<1>7. a = Dispatch(r, v, login, rows)
  BY <1>5, <1>6
<1>. HIDE DEF v
<1>8. a = <<"page", r>>
  BY <1>2, <1>6, <1>7 DEF Dispatch
<1>. QED
  BY <1>8

\* Where a visitor is sent at once.
LEMMA SentFrom ==
  ASSUME NEW G, NEW signedIn \in BOOLEAN, NEW login \in BOOLEAN, NEW rows, NEW P,
         NEW to \in Redirected(P, Visitor(G, signedIn), Online(login), rows)
  PROVE  \E p \in P : \E r \in Match(p, G, rows) :
           \/ r \in DOMAIN Target /\ to = Target[r]
           \/ r \in GuestOnly /\ signedIn /\ to = DefaultRoutePath(rows)
           \/ r \in MembersOnly /\ ~signedIn /\ to \in {DefaultRoutePath(rows), LoginPath(rows)}
<1>. DEFINE A(p) == Serve(p, Visitor(G, signedIn), Online(login), rows)
<1>1. PICK p \in P : \E a \in A(p) : a[1] = "redirect" /\ a[2] = to
  <2>. HIDE DEF A
  <2>1. to \in {a[2] : a \in {b \in UNION {A(p) : p \in P} : b[1] = "redirect"}}
    BY DEF Redirected, A
  <2>. QED
    BY <2>1
<1>. QED
  BY <1>1, SentOn

\* Nobody is sent on more than twice, if the default route shows a page.
LEMMA NoCircle ==
  ASSUME RoutesLead, NEW rows, NEW G, NEW signedIn \in BOOLEAN, NEW login \in BOOLEAN, NEW P,
         Redirected({DefaultRoutePath(rows)}, Visitor(G, signedIn), Online(login), rows) = {}
  PROVE  LET Next1(Q) == Redirected(Q, Visitor(G, signedIn), Online(login), rows)
         IN Next1(Next1(Next1(P))) = {}
<1>. DEFINE Next1(Q) == Redirected(Q, Visitor(G, signedIn), Online(login), rows)
            home == DefaultRoutePath(rows)
            back == LoginPath(rows)
            T == {Target[r] : r \in Route \cap DOMAIN Target}
<1>1. ASSUME NEW Q, NEW to \in Next1(Q)
      PROVE  \E p \in Q : \E r \in Route : /\ Score(r, p) > 0
                                           /\ \/ r \in DOMAIN Target /\ to = Target[r]
                                              \/ r \in GuestOnly /\ signedIn /\ to = home
                                              \/ r \in MembersOnly /\ ~signedIn /\ to \in {home, back}
  BY SentFrom, MatchIs
<1>2. PICK l \in LoginRoute : back = Pattern[l].path
  BY LoginPathIs
<1>3. \A r \in Route : Score(r, back) > 0 => r \notin MembersOnly \cup DOMAIN Target
  BY <1>2 DEF RoutesLead
<1>4. \A t \in T : \A r \in Route : Score(r, t) > 0 => r \notin DOMAIN Target
  BY DEF RoutesLead
<1>5. \A Q : \A to \in Next1(Q) : \E p \in Q : to \in Next1({p})
  <2>. SUFFICES ASSUME NEW Q, NEW to \in Next1(Q) PROVE \E p \in Q : to \in Next1({p})
    OBVIOUS
  <2>. DEFINE A(p) == Serve(p, Visitor(G, signedIn), Online(login), rows)
  <2>1. \A R : Next1(R) = {a[2] : a \in {b \in UNION {A(p) : p \in R} : b[1] = "redirect"}}
    BY DEF Redirected
  <2>. HIDE DEF A, Next1
  <2>2. PICK p \in Q : \E a \in A(p) : a[1] = "redirect" /\ a[2] = to
    BY <2>1
  <2>5. PICK a \in A(p) : a[1] = "redirect" /\ a[2] = to
    BY <2>2
  <2>3. a \in UNION {A(q) : q \in {p}}
    BY <2>5
  <2>. QED
    BY <2>1, <2>5, <2>3
<1>6. Next1({home}) = {}
  OBVIOUS
<1>. HIDE DEF Next1, home, back
<1>7. CASE signedIn
  <2>1. \A Q : Next1(Q) \subseteq T \cup {home}
    BY <1>1, <1>7
  <2>2. \A t \in T : Next1({t}) \subseteq {home}
    BY <1>1, <1>4, <1>7
  <2>. HIDE DEF T
  <2>3. ASSUME NEW to \in Next1(Next1(P))
       PROVE  to \in {home}
    <3>1. PICK p \in Next1(P) : to \in Next1({p})
      BY <1>5
    <3>. QED
      BY <1>6, <2>1, <2>2, <3>1
  <2>4. ASSUME NEW to \in Next1(Next1(Next1(P)))
       PROVE  FALSE
    <3>1. PICK p \in Next1(Next1(P)) : to \in Next1({p})
      BY <1>5
    <3>. QED
      BY <1>6, <2>3, <3>1
  <2>. QED
    BY <2>4 DEF Next1
<1>8. CASE ~signedIn
  <2>1. \A Q : Next1(Q) \subseteq T \cup {home, back}
    BY <1>1, <1>8
  <2>2. \A t \in T : Next1({t}) \subseteq {home, back}
    BY <1>1, <1>4, <1>8
  <2>3. Next1({back}) = {}
    BY <1>1, <1>3, <1>8
  <2>. HIDE DEF T
  <2>4. ASSUME NEW to \in Next1(Next1(P))
       PROVE  to \in {home, back}
    <3>1. PICK p \in Next1(P) : to \in Next1({p})
      BY <1>5
    <3>. QED
      BY <1>6, <2>1, <2>2, <2>3, <3>1
  <2>5. ASSUME NEW to \in Next1(Next1(Next1(P)))
       PROVE  FALSE
    <3>1. PICK p \in Next1(Next1(P)) : to \in Next1({p})
      BY <1>5
    <3>. QED
      BY <1>6, <2>3, <2>4, <3>1
  <2>. QED
    BY <2>5 DEF Next1
<1>. QED
  BY <1>7, <1>8

\* As long as a built-in route is active and open to a viewer, no custom route takes its requests,
\* however many forms, toggles, deletions and extensions are at work at once and whichever of their
\* statements fail, if the site starts without a route in the way of a built-in one (conflictsWithReservedPath,
\* routeForm, routeApplyExtensionRoutes); who is not signed in finds the login when the site is offline
\* (canBypassSiteOffline), and nobody is sent round in a circle (Dispatch, ServeHTTP).
THEOREM RoutesAnswer ==
  ASSUME RoutesLead, StartsUnreserved
  PROVE  Spec => []Answered
<1>1. Server!Init => CacheInv
  BY CacheInit
<1>2. CacheInv /\ [Server!Next]_(Server!vars) => CacheInv'
  BY CacheStep
<1>3. CacheInv => Answered
  <2>. SUFFICES ASSUME CacheInv PROVE Answered
    OBVIOUS
  <2>1. \A r \in Route : Is(r, "route", db) => ~ConflictsWithReservedPath(r)
    <3>. SUFFICES ASSUME NEW r \in Route, Is(r, "route", db), ConflictsWithReservedPath(r) PROVE FALSE
      OBVIOUS
    <3>1. <<"route", r, "active">>[1] = "route" /\ <<"route", r, "active">>[2] = r
      OBVIOUS
    <3>2. r \in Legacy
      BY <3>1 DEF CacheInv, Clean, Is
    <3>. QED
      BY <3>2 DEF Legacy, StartsUnreserved
  <2>2. ASSUME NEW G \in SUBSET Group, NEW path \in Path,
               \E b \in BuiltInRoute : Is(b, "route", db) /\ Viewers(b, db) \cap G # {} /\ Score(b, path) > 0
        PROVE  /\ Match(path, G, db) \subseteq BuiltInRoute
               /\ path = LoginPath(db) =>
                    \A a \in Serve(path, Visitor(G, FALSE), [offline |-> TRUE, login |-> FALSE], db) : a[1] = "page"
    <3>1. path \in Seq(Segment)
      BY SiteSeedsAssumption
    <3>2. Match(path, G, db) \subseteq BuiltInRoute /\ Match(path, G, db) # {}
      BY <2>1, <2>2, <3>1, BuiltInFirst
    <3>. QED
      BY <3>2, LoginShows
  <2>3. ASSUME NEW G \in SUBSET Group, NEW signedIn \in BOOLEAN, NEW login \in BOOLEAN
        PROVE  LET v == Visitor(G, signedIn)
                   Next1(P) == Redirected(P, v, Online(login), db)
               IN Next1({DefaultRoutePath(db)}) = {} => Next1(Next1(Next1(Path))) = {}
    BY NoCircle
  <2>. QED
    BY <2>2, <2>3 DEF Answered
<1>. QED
  BY <1>1, <1>2, <1>3, PTL DEF Spec, Server!Spec

----------------------------------------------------------------------------
\* What hangs below what

\* Two databases in which the same items are of the same menus and hang below the same ones.
Same(rows, new) ==
  \A i \in Item :
    /\ Exists(i, "item", new) <=> Exists(i, "item", rows)
    /\ \A m \in Menu : <<"of", i, m>> \in new <=> <<"of", i, m>> \in rows
    /\ \A p \in Item : <<"parent", i, p>> \in new <=> <<"parent", i, p>> \in rows

LEMMA ExistsIs ==
  ASSUME NEW i, NEW rows
  PROVE  Exists(i, "item", rows) <=> \E s \in Status : <<"item", i, s>> \in rows
BY DEF Exists, StatusOf

LEMMA SameIs ==
  ASSUME NEW rows, NEW new, Same(rows, new)
  PROVE  /\ \A m \in Menu : ItemsOf(m, new) = ItemsOf(m, rows)
         /\ \A i \in Item : ParentOf(i, new) = ParentOf(i, rows)
         /\ MenusSound(rows) => MenusSound(new)
         /\ Same(new, rows)
<1>1. \A m \in Menu : ItemsOf(m, new) = ItemsOf(m, rows)
  BY DEF ItemsOf, Same
<1>2. ASSUME NEW i \in Item PROVE ParentOf(i, new) = ParentOf(i, rows)
  <2>1. \A p \in Item : <<"parent", i, p>> \in new <=> <<"parent", i, p>> \in rows
    BY DEF Same
  <2>. QED
    BY <2>1 DEF ParentOf
<1>3. MenusSound(rows) => MenusSound(new)
  <2>. SUFFICES ASSUME MenusSound(rows) PROVE MenusSound(new)
    OBVIOUS
  <2>1. /\ \A i \in Item : Exists(i, "item", new) => \E m \in Menu : <<"of", i, m>> \in new
        /\ \A i \in Item, m, n \in Menu : <<"of", i, m>> \in new /\ <<"of", i, n>> \in new => m = n
        /\ \A c, p, q \in Item : <<"parent", c, p>> \in new /\ <<"parent", c, q>> \in new => p = q
    BY DEF MenusSound, Same
  <2>2. \A c, p \in Item : <<"parent", c, p>> \in new => \E m \in Menu : {c, p} \subseteq ItemsOf(m, new)
    BY <1>1 DEF MenusSound, Same
  <2>3. \A C \in SUBSET Item : C # {} => \E j \in C : \A k \in C : <<"parent", j, k>> \notin new
    BY DEF MenusSound, Same
  <2>. QED
    BY <2>1, <2>2, <2>3 DEF MenusSound
<1>4. Same(new, rows)
  BY DEF Same
<1>. QED
  BY <1>1, <1>2, <1>3, <1>4

LEMMA SameMore ==
  ASSUME NEW a, NEW b, NEW c, Same(a, b), Same(b, c)
  PROVE  Same(a, c)
BY DEF Same

LEMMA SameSelf ==
  ASSUME NEW rows
  PROVE  Same(rows, rows)
BY DEF Same

\* Rows that say nothing of where an item is.
Loose(S) == \A row \in S : row[1] \notin {"item", "of", "parent"}

LEMMA LooseSame ==
  ASSUME NEW s, Loose(s.add), Loose(s.drop), NEW rows
  PROVE  Same(rows, Result(s, rows))
<1>1. \A row : row[1] \in {"item", "of", "parent"} => (row \in Result(s, rows) <=> row \in rows)
  BY DEF Loose, Result
<1>2. \A i, x : <<"item", i, x>>[1] = "item" /\ <<"of", i, x>>[1] = "of" /\ <<"parent", i, x>>[1] = "parent"
  OBVIOUS
<1>3. \A i : Exists(i, "item", Result(s, rows)) <=> Exists(i, "item", rows)
  BY <1>1, <1>2, ExistsIs
<1>. QED
  BY <1>1, <1>2, <1>3 DEF Same

\* The parent of an item is the only one it has.
LEMMA ParentIs ==
  ASSUME NEW rows, MenusSound(rows), NEW i \in Item, NEW p \in Item
  PROVE  <<"parent", i, p>> \in rows <=> ParentOf(i, rows) = p
<1>1. CASE \E q \in Item : <<"parent", i, q>> \in rows
  <2>1. ParentOf(i, rows) \in Item /\ <<"parent", i, ParentOf(i, rows)>> \in rows
    BY <1>1 DEF ParentOf
  <2>. QED
    BY <2>1 DEF MenusSound
<1>2. CASE ~\E q \in Item : <<"parent", i, q>> \in rows
  BY <1>2, SiteIdsAssumption DEF ParentOf
<1>. QED
  BY <1>1, <1>2

\* There are no items all of which hang below one among them.
LEMMA NoneHang ==
  ASSUME NEW rows, MenusSound(rows), NEW C \in SUBSET Item, C # {}, \A j \in C : \E k \in C : <<"parent", j, k>> \in rows
  PROVE  FALSE
<1>1. PICK j \in C : \A k \in C : <<"parent", j, k>> \notin rows
  BY DEF MenusSound
<1>. QED
  BY <1>1

\* An item of menu m is written below p, which is not below it.
LEMMA WriteItemKeeps ==
  ASSUME NEW rows, MenusSound(rows), NEW new, NEW i \in Item, NEW m \in Menu, NEW p \in Item \cup {None},
         Exists(i, "item", rows) => <<"of", i, m>> \in rows,
         ValidateMenuItemParent(i, m, p, rows),
         Exists(i, "item", new),
         \A n \in Menu : <<"of", i, n>> \in new <=> n = m,
         \A q \in Item : <<"parent", i, q>> \in new <=> q = p,
         \A j \in Item \ {i} :
           /\ Exists(j, "item", new) <=> Exists(j, "item", rows)
           /\ \A n \in Menu : <<"of", j, n>> \in new <=> <<"of", j, n>> \in rows
           /\ \A q \in Item : <<"parent", j, q>> \in new <=> <<"parent", j, q>> \in rows
  PROVE  MenusSound(new)
<1>. DEFINE I == ItemsOf(m, rows)
<1>1. /\ \A j \in Item : Exists(j, "item", new) => \E n \in Menu : <<"of", j, n>> \in new
      /\ \A j \in Item, n, o \in Menu : <<"of", j, n>> \in new /\ <<"of", j, o>> \in new => n = o
      /\ \A c, q, r \in Item : <<"parent", c, q>> \in new /\ <<"parent", c, r>> \in new => q = r
  <2>1. ASSUME NEW j \in Item, Exists(j, "item", new) PROVE \E n \in Menu : <<"of", j, n>> \in new
    BY <2>1 DEF MenusSound
  <2>2. ASSUME NEW j \in Item, NEW n \in Menu, NEW o \in Menu, <<"of", j, n>> \in new, <<"of", j, o>> \in new PROVE n = o
    BY <2>2 DEF MenusSound
  <2>3. ASSUME NEW c \in Item, NEW q \in Item, NEW r \in Item, <<"parent", c, q>> \in new, <<"parent", c, r>> \in new PROVE q = r
    BY <2>3 DEF MenusSound
  <2>. QED
    BY <2>1, <2>2, <2>3
<1>2. p = None \/ (p \in I /\ p # i /\ i \notin Ancestors(p, I, rows))
  BY DEF ValidateMenuItemParent
<1>3. ASSUME NEW c \in Item, NEW q \in Item, <<"parent", c, q>> \in new
      PROVE  \E n \in Menu : {c, q} \subseteq ItemsOf(n, new)
  <2>1. CASE c = i
    <3>1. q = p /\ p \in Item /\ p \in I /\ p # i
      BY <1>2, <1>3, <2>1, SiteIdsAssumption
    <3>2. i \in ItemsOf(m, new) /\ p \in ItemsOf(m, new)
      BY <3>1 DEF ItemsOf
    <3>. QED
      BY <2>1, <3>1, <3>2
  <2>2. CASE c # i
    <3>1. PICK n \in Menu : {c, q} \subseteq ItemsOf(n, rows)
      BY <1>3, <2>2 DEF MenusSound
    <3>2. c \in ItemsOf(n, new)
      BY <2>2, <3>1 DEF ItemsOf
    <3>3. CASE q # i
      <4>1. q \in ItemsOf(n, new)
        BY <3>1, <3>3 DEF ItemsOf
      <4>. QED
        BY <3>2, <4>1
    <3>4. CASE q = i
      <4>1. Exists(i, "item", rows) /\ <<"of", i, n>> \in rows
        BY <3>1, <3>4 DEF ItemsOf
      <4>2. n = m
        BY <4>1 DEF MenusSound
      <4>3. q \in ItemsOf(n, new)
        BY <3>4, <4>2 DEF ItemsOf
      <4>. QED
        BY <3>2, <4>3
    <3>. QED
      BY <3>3, <3>4
  <2>. QED
    BY <2>1, <2>2
<1>4. ASSUME NEW C \in SUBSET Item, C # {}, \A j \in C : \E k \in C : <<"parent", j, k>> \in new
      PROVE  FALSE
  <2>1. CASE i \notin C \/ p \notin C
    <3>1. \A j \in C : \E k \in C : <<"parent", j, k>> \in rows
      BY <1>4, <2>1
    <3>. QED
      BY <1>4, <3>1, NoneHang
  <2>2. CASE i \in C /\ p \in C
    <3>1. p \in I /\ p # i /\ i \notin Ancestors(p, I, rows) /\ p \in Item
      BY <1>2, <2>2, SiteIdsAssumption
    <3>2. PICK S \in SUBSET I : (\A j \in S \cup {p} : {ParentOf(j, rows)} \cap I \subseteq S) /\ i \notin S
      <4>1. CASE i \in I
        BY <3>1, <4>1 DEF Ancestors
      <4>2. CASE i \notin I
        <5>1. I \in SUBSET I /\ (\A j \in I \cup {p} : {ParentOf(j, rows)} \cap I \subseteq I) /\ i \notin I
          BY <4>2
        <5>. QED
          BY <5>1
      <4>. QED
        BY <4>1, <4>2
    <3>. DEFINE D == C \cap (S \cup {p})
    <3>3. ASSUME NEW j \in D PROVE \E k \in D : <<"parent", j, k>> \in rows
      <4>1. j \in Item /\ j # i /\ j \in I
        BY <3>1, <3>2
      <4>2. PICK k \in C : <<"parent", j, k>> \in rows
        BY <1>4, <4>1
      <4>3. PICK n \in Menu : {j, k} \subseteq ItemsOf(n, rows)
        BY <4>1, <4>2 DEF MenusSound
      <4>4. n = m
        BY <4>1, <4>3 DEF ItemsOf, MenusSound
      <4>5. ParentOf(j, rows) = k
        BY <4>1, <4>2, ParentIs
      <4>6. k \in S
        BY <3>2, <4>3, <4>4, <4>5
      <4>. QED
        BY <4>2, <4>6
    <3>4. D \in SUBSET Item /\ D # {}
      BY <2>2
    <3>. QED
      BY <3>3, <3>4, NoneHang
  <2>. QED
    BY <2>1, <2>2
<1>5. \A C \in SUBSET Item : C # {} => \E j \in C : \A k \in C : <<"parent", j, k>> \notin new
  <2>. SUFFICES ASSUME NEW C \in SUBSET Item, C # {} PROVE \E j \in C : \A k \in C : <<"parent", j, k>> \notin new
    OBVIOUS
  <2>. QED
    BY <1>4
<1>. QED
  BY <1>1, <1>3, <1>5 DEF MenusSound

\* Items that nothing is below go, with all that is said of them; or all items of a menu go.
LEMMA RemovalKeeps ==
  ASSUME NEW rows, MenusSound(rows), NEW new, NEW G \in SUBSET Item,
         \A c, g \in Item : g \in G /\ <<"parent", c, g>> \in rows => c \in G,
         \A j \in Item \ G :
           /\ Exists(j, "item", new) <=> Exists(j, "item", rows)
           /\ \A n \in Menu : <<"of", j, n>> \in new <=> <<"of", j, n>> \in rows
           /\ \A q \in Item : <<"parent", j, q>> \in new <=> <<"parent", j, q>> \in rows,
         \A j \in G :
           /\ ~Exists(j, "item", new)
           /\ \A n \in Menu : <<"of", j, n>> \notin new
           /\ \A q \in Item : <<"parent", j, q>> \notin new
  PROVE  MenusSound(new)
<1>1. /\ \A j \in Item : Exists(j, "item", new) => \E n \in Menu : <<"of", j, n>> \in new
      /\ \A j \in Item, n, o \in Menu : <<"of", j, n>> \in new /\ <<"of", j, o>> \in new => n = o
      /\ \A c, q, r \in Item : <<"parent", c, q>> \in new /\ <<"parent", c, r>> \in new => q = r
  BY DEF MenusSound
<1>2. ASSUME NEW c \in Item, NEW q \in Item, <<"parent", c, q>> \in new
      PROVE  \E n \in Menu : {c, q} \subseteq ItemsOf(n, new)
  <2>1. c \notin G /\ q \notin G
    BY <1>2
  <2>2. PICK n \in Menu : {c, q} \subseteq ItemsOf(n, rows)
    BY <1>2, <2>1 DEF MenusSound
  <2>3. c \in ItemsOf(n, new) /\ q \in ItemsOf(n, new)
    BY <2>1, <2>2 DEF ItemsOf
  <2>. QED
    BY <2>3
<1>3. \A C \in SUBSET Item : C # {} => \E j \in C : \A k \in C : <<"parent", j, k>> \notin new
  <2>1. \A j, k \in Item : <<"parent", j, k>> \in new => <<"parent", j, k>> \in rows
    OBVIOUS
  <2>. QED
    BY <2>1 DEF MenusSound
<1>. QED
  BY <1>1, <1>2, <1>3 DEF MenusSound

\* The children of an item go to its parent.
LEMMA ReparentKeeps ==
  ASSUME NEW rows, MenusSound(rows), NEW new, NEW i \in Item,
         \A j \in Item : Exists(j, "item", new) <=> Exists(j, "item", rows),
         \A j \in Item, n \in Menu : <<"of", j, n>> \in new <=> <<"of", j, n>> \in rows,
         \A j, q \in Item : <<"parent", j, i>> \in rows => (<<"parent", j, q>> \in new <=> q = ParentOf(i, rows)),
         \A j, q \in Item : <<"parent", j, i>> \notin rows => (<<"parent", j, q>> \in new <=> <<"parent", j, q>> \in rows)
  PROVE  MenusSound(new) /\ \A c \in Item : <<"parent", c, i>> \notin new
<1>1. /\ \A j \in Item : Exists(j, "item", new) => \E n \in Menu : <<"of", j, n>> \in new
      /\ \A j \in Item, n, o \in Menu : <<"of", j, n>> \in new /\ <<"of", j, o>> \in new => n = o
      /\ \A c, q, r \in Item : <<"parent", c, q>> \in new /\ <<"parent", c, r>> \in new => q = r
  <2>1. ASSUME NEW c \in Item, NEW q \in Item, NEW r \in Item, <<"parent", c, q>> \in new, <<"parent", c, r>> \in new
        PROVE  q = r
    <3>1. CASE <<"parent", c, i>> \in rows
      BY <2>1, <3>1
    <3>2. CASE <<"parent", c, i>> \notin rows
      BY <2>1, <3>2 DEF MenusSound
    <3>. QED
      BY <3>1, <3>2
  <2>2. \A j \in Item : Exists(j, "item", new) => \E n \in Menu : <<"of", j, n>> \in new
    BY DEF MenusSound
  <2>3. \A j \in Item, n, o \in Menu : <<"of", j, n>> \in new /\ <<"of", j, o>> \in new => n = o
    BY DEF MenusSound
  <2>. QED
    BY <2>1, <2>2, <2>3
<1>2. \A n \in Menu : ItemsOf(n, new) = ItemsOf(n, rows)
  BY DEF ItemsOf
<1>3. \A q \in Item : q = ParentOf(i, rows) => <<"parent", i, q>> \in rows
  BY ParentIs
<1>4. ASSUME NEW c \in Item, NEW q \in Item, <<"parent", c, q>> \in new
      PROVE  \E n \in Menu : {c, q} \subseteq ItemsOf(n, new)
  <2>1. CASE <<"parent", c, i>> \notin rows
    BY <1>2, <1>4, <2>1 DEF MenusSound
  <2>2. CASE <<"parent", c, i>> \in rows
    <3>1. <<"parent", i, q>> \in rows
      BY <1>3, <1>4, <2>2
    <3>2. PICK n \in Menu : {c, i} \subseteq ItemsOf(n, rows)
      BY <2>2 DEF MenusSound
    <3>3. PICK o \in Menu : {i, q} \subseteq ItemsOf(o, rows)
      BY <3>1 DEF MenusSound
    <3>4. n = o
      BY <3>2, <3>3 DEF ItemsOf, MenusSound
    <3>. QED
      BY <1>2, <3>2, <3>3, <3>4
  <2>. QED
    BY <2>1, <2>2
<1>5. ASSUME NEW C \in SUBSET Item, C # {}, \A j \in C : \E k \in C : <<"parent", j, k>> \in new
      PROVE  FALSE
  <2>. DEFINE D == C \cup {i}
  <2>1. CASE \A j \in C : <<"parent", j, i>> \notin rows
    <3>1. \A j \in C : \E k \in C : <<"parent", j, k>> \in rows
      BY <1>5, <2>1
    <3>. QED
      BY <1>5, <3>1, NoneHang
  <2>2. CASE \E j \in C : <<"parent", j, i>> \in rows
    <3>1. PICK c \in C : <<"parent", c, i>> \in rows
      BY <2>2
    <3>2. PICK k \in C : <<"parent", c, k>> \in new
      BY <1>5
    <3>3. <<"parent", i, k>> \in rows
      BY <1>3, <3>1, <3>2
    <3>4. ASSUME NEW j \in D PROVE \E q \in D : <<"parent", j, q>> \in rows
      <4>1. CASE j = i
        BY <3>3, <4>1
      <4>2. CASE j \in C /\ <<"parent", j, i>> \in rows
        BY <4>2
      <4>3. CASE j \in C /\ <<"parent", j, i>> \notin rows
        BY <1>5, <4>3
      <4>. QED
        BY <4>1, <4>2, <4>3
    <3>5. D \in SUBSET Item /\ D # {}
      OBVIOUS
    <3>. QED
      BY <3>4, <3>5, NoneHang
  <2>. QED
    BY <2>1, <2>2
<1>6. ASSUME NEW c \in Item PROVE <<"parent", c, i>> \notin new
  <2>1. <<"parent", i, i>> \notin rows
    <3>1. {i} \in SUBSET Item /\ {i} # {}
      OBVIOUS
    <3>. QED
      BY <3>1, NoneHang
  <2>. QED
    BY <1>3, <2>1
<1>7. \A C \in SUBSET Item : C # {} => \E j \in C : \A k \in C : <<"parent", j, k>> \notin new
  BY <1>5
<1>. QED
  BY <1>1, <1>4, <1>6, <1>7 DEF MenusSound

----------------------------------------------------------------------------
\* Statements about items

\* A statement that keeps the menus sound if the items are still as they are in rows.
Keeps(s, rows) ==
  s.do = "statement" /\ \A new : Same(rows, new) /\ MenusSound(new) => MenusSound(Result(s, new))
\* The same of a statement whose rows the database finds.
KeepsWhere(op, rows) ==
  op[1] # "reparent" /\ \A new, c : Same(rows, new) /\ MenusSound(new) => MenusSound(Result(Head(Plan(op, new, c)), new))

\* All that is said of where an item is stands in its columns, and nothing else.
LEMMA ItemRows ==
  ASSUME NEW i
  PROVE  /\ \A row \in ItemColumns(i) : row[2] = i
         /\ StatusOf("item", i) \subseteq ItemColumns(i)
         /\ \A m \in Menu : <<"of", i, m>> \in ItemColumns(i)
         /\ \A p \in Item : <<"parent", i, p>> \in ItemColumns(i)
<1>1. \A what, Y : \A row \in Links(what, i, Y) : row[2] = i
  BY DEF Links
<1>2. \A row \in StatusOf("item", i) : row[2] = i
  BY ColumnsAre
<1>3. \A row \in ItemColumns(i) : row[2] = i
  BY <1>1, <1>2 DEF ItemColumns
<1>4. (\A m \in Menu : <<"of", i, m>> \in Links("of", i, Menu)) /\ (\A p \in Item : <<"parent", i, p>> \in Links("parent", i, Item))
  BY DEF Links
<1>. QED
  BY <1>3, <1>4 DEF ItemColumns

\* Rows of one item say nothing of another.
DifferAt(i, rows, new) == \A row : row[2] # i => (row \in new <=> row \in rows)

LEMMA OthersSame ==
  ASSUME NEW i, NEW rows, NEW new, DifferAt(i, rows, new), NEW j, j # i
  PROVE  /\ Exists(j, "item", new) <=> Exists(j, "item", rows)
         /\ \A n : <<"of", j, n>> \in new <=> <<"of", j, n>> \in rows
         /\ \A q : <<"parent", j, q>> \in new <=> <<"parent", j, q>> \in rows
<1>1. \A row : row[2] = j => (row \in new <=> row \in rows)
  BY DEF DifferAt
<1>2. \A x : <<"item", j, x>>[2] = j /\ <<"of", j, x>>[2] = j /\ <<"parent", j, x>>[2] = j
  OBVIOUS
<1>. QED
  BY <1>1, <1>2, ExistsIs

LEMMA WriteItemHot ==
  ASSUME NEW rows, NEW i \in Item, NEW m \in Menu, NEW p \in Item \cup {None}, NEW r, NEW s \in Status, NEW n,
         Exists(i, "item", rows) => <<"of", i, m>> \in rows, ValidateMenuItemParent(i, m, p, rows)
  PROVE  Keeps(WriteItem(i, m, p, r, s, n), rows)
<1>. DEFINE add == {<<"item", i, s>>, <<"of", i, m>>, <<"sort", i, n>>}
                   \cup (IF p = None THEN {} ELSE {<<"parent", i, p>>})
                   \cup (IF r = None THEN {} ELSE {<<"goes", i, r>>})
            w == WriteItem(i, m, p, r, s, n)
<1>1. w.do = "statement" /\ w.add = add /\ w.drop = ItemColumns(i) /\ w.upsert = TRUE
  BY DEF WriteItem, Write, Statement
<1>2. /\ \A row \in add : row[2] = i
      /\ <<"item", i, s>> \in add
      /\ \A o \in Menu : <<"of", i, o>> \in add <=> o = m
      /\ \A q \in Item : <<"parent", i, q>> \in add <=> q = p
  <2>1. \A row \in add : row[2] = i
    OBVIOUS
  <2>2. \A o : <<"of", i, o>> \in add <=> o = m
    OBVIOUS
  <2>3. \A q \in Item : q # None
    BY SiteIdsAssumption
  <2>4. \A q \in Item : <<"parent", i, q>> \in add <=> q = p
    BY <2>3
  <2>. QED
    BY <2>1, <2>2, <2>4
<1>. HIDE DEF add, w
<1>. SUFFICES ASSUME NEW old, Same(rows, old), MenusSound(old) PROVE MenusSound(Result(w, old))
  BY <1>1 DEF Keeps, w
<1>. DEFINE new == Result(w, old)
<1>3. new = (old \ ItemColumns(i)) \cup add
  BY <1>1 DEF Result
<1>. HIDE DEF new
<1>4. \A j \in Item \ {i} :
        /\ Exists(j, "item", new) <=> Exists(j, "item", old)
        /\ \A o \in Menu : <<"of", j, o>> \in new <=> <<"of", j, o>> \in old
        /\ \A q \in Item : <<"parent", j, q>> \in new <=> <<"parent", j, q>> \in old
  <2>1. DifferAt(i, old, new)
    BY <1>2, <1>3, ItemRows DEF DifferAt
  <2>. QED
    BY <2>1, OthersSame
<1>5. /\ Exists(i, "item", new)
      /\ \A o \in Menu : <<"of", i, o>> \in new <=> o = m
      /\ \A q \in Item : <<"parent", i, q>> \in new <=> q = p
  <2>1. Exists(i, "item", new)
    BY <1>2, <1>3, ExistsIs
  <2>. QED
    BY <2>1, <1>2, <1>3, ItemRows
<1>6. ValidateMenuItemParent(i, m, p, old)
  <2>. DEFINE I == ItemsOf(m, rows)
  <2>1. ItemsOf(m, old) = I /\ \A j \in Item : ParentOf(j, old) = ParentOf(j, rows)
    BY SameIs
  <2>2. I \subseteq Item
    BY DEF ItemsOf
  <2>. HIDE DEF I
  <2>3. p \in I => Ancestors(p, I, old) = Ancestors(p, I, rows)
    <3>1. p \in I => \A S \in SUBSET I : \A j \in S \cup {p} : ParentOf(j, old) = ParentOf(j, rows)
      BY <2>1, <2>2
    <3>. QED
      BY <3>1 DEF Ancestors
  <2>. QED
    BY <2>1, <2>3 DEF ValidateMenuItemParent, I
<1>7. Exists(i, "item", old) => <<"of", i, m>> \in old
  BY DEF Same
<1>8. MenusSound(new)
  BY <1>4, <1>5, <1>6, <1>7, WriteItemKeeps
<1>. QED
  BY <1>8 DEF new

\* An item that is below another stays there.
LEMMA WriteItemStays ==
  ASSUME NEW rows, NEW i \in Item, NEW m \in Menu, NEW p \in Item, NEW r, NEW s \in Status, NEW n,
         <<"of", i, m>> \in rows, Exists(i, "item", rows), <<"parent", i, p>> \in rows
  PROVE  Keeps(WriteItem(i, m, p, r, s, n), rows)
<1>. DEFINE add == {<<"item", i, s>>, <<"of", i, m>>, <<"sort", i, n>>}
                   \cup (IF p = None THEN {} ELSE {<<"parent", i, p>>})
                   \cup (IF r = None THEN {} ELSE {<<"goes", i, r>>})
            w == WriteItem(i, m, p, r, s, n)
<1>1. w.do = "statement" /\ w.add = add /\ w.drop = ItemColumns(i) /\ w.upsert = TRUE
  BY DEF WriteItem, Write, Statement
<1>2. /\ \A row \in add : row[2] = i
      /\ <<"item", i, s>> \in add
      /\ \A o \in Menu : <<"of", i, o>> \in add <=> o = m
      /\ \A q \in Item : <<"parent", i, q>> \in add <=> q = p
  <2>1. \A row \in add : row[2] = i
    OBVIOUS
  <2>2. \A o : <<"of", i, o>> \in add <=> o = m
    OBVIOUS
  <2>3. p # None
    BY SiteIdsAssumption
  <2>4. \A q \in Item : <<"parent", i, q>> \in add <=> q = p
    BY <2>3
  <2>. QED
    BY <2>1, <2>2, <2>4
<1>. HIDE DEF add, w
<1>. SUFFICES ASSUME NEW old, Same(rows, old), MenusSound(old) PROVE MenusSound(Result(w, old))
  BY <1>1 DEF Keeps, w
<1>. DEFINE new == Result(w, old)
<1>3. new = (old \ ItemColumns(i)) \cup add
  BY <1>1 DEF Result
<1>. HIDE DEF new
<1>4. DifferAt(i, old, new)
  BY <1>2, <1>3, ItemRows DEF DifferAt
<1>5. /\ Exists(i, "item", new) /\ Exists(i, "item", old)
      /\ \A o \in Menu : <<"of", i, o>> \in new <=> <<"of", i, o>> \in old
      /\ \A q \in Item : <<"parent", i, q>> \in new <=> <<"parent", i, q>> \in old
  <2>1. Exists(i, "item", new)
    BY <1>2, <1>3, ExistsIs
  <2>2. Exists(i, "item", old) /\ <<"of", i, m>> \in old /\ <<"parent", i, p>> \in old
    BY DEF Same
  <2>3. (\A o \in Menu : <<"of", i, o>> \in old <=> o = m) /\ (\A q \in Item : <<"parent", i, q>> \in old <=> q = p)
    BY <2>2 DEF MenusSound
  <2>4. (\A o \in Menu : <<"of", i, o>> \in new <=> o = m) /\ (\A q \in Item : <<"parent", i, q>> \in new <=> q = p)
    BY <1>2, <1>3, ItemRows
  <2>. QED
    BY <2>1, <2>2, <2>3, <2>4
<1>6. Same(old, new)
  <2>1. ASSUME NEW j \in Item, j # i
        PROVE  /\ Exists(j, "item", new) <=> Exists(j, "item", old)
               /\ \A o \in Menu : <<"of", j, o>> \in new <=> <<"of", j, o>> \in old
               /\ \A q \in Item : <<"parent", j, q>> \in new <=> <<"parent", j, q>> \in old
    BY <1>4, <2>1, OthersSame
  <2>. QED
    BY <1>5, <2>1 DEF Same
<1>. QED
  BY <1>6, SameIs DEF new

\* What was read of items that are still there is not made again.
Backed(old, rows) == \A row \in old : row[1] \in {"item", "of", "parent"} => row[2] \in Item /\ Exists(row[2], "item", rows)

LEMMA LoadedBacked ==
  ASSUME NEW rows, NEW I \in SUBSET Item, \A i \in I : Exists(i, "item", rows), NEW R
  PROVE  Backed(Loaded(I, R, rows), rows)
<1>1. \A i : \A row \in ItemColumns(i) : row[2] = i
  BY ItemRows
<1>2. \A r : \A row \in RouteColumns(r) : row[1] \notin {"item", "of", "parent"}
  BY ColumnsAre
<1>. QED
  BY <1>1, <1>2 DEF Loaded, Backed

LEMMA AgainLoose ==
  ASSUME NEW old, NEW rows, Backed(old, rows), NEW new, Same(rows, new)
  PROVE  Loose(Again(old, new))
BY DEF Loose, Again, Gone, Backed, Same

\* A form of an item saves it below the parent it has, or below one that is not below it.
LEMMA SaveItemHot ==
  ASSUME NEW rows, MenusSound(rows), NEW i \in Item, NEW m \in Menu, NEW p \in Item \cup {None}, NEW r, NEW s \in Status, NEW n,
         Exists(i, "item", rows) => <<"of", i, m>> \in rows,
         ValidateMenuItemParent(i, m, p, rows) \/ (p \in Item /\ <<"parent", i, p>> \in rows),
         NEW links, Loose(links), NEW old, Backed(old, rows)
  PROVE  KeepsWhere(<<"saveItem", i, m, p, r, s, n, links, old>>, rows)
<1>. DEFINE op == <<"saveItem", i, m, p, r, s, n, links, old>>
            w == WriteItem(i, m, p, r, s, n)
<1>1. Keeps(w, rows)
  <2>1. CASE ValidateMenuItemParent(i, m, p, rows)
    BY <2>1, WriteItemHot
  <2>2. CASE p \in Item /\ <<"parent", i, p>> \in rows
    <3>1. Exists(i, "item", rows)
      BY <2>2 DEF MenusSound, ItemsOf
    <3>. QED
      BY <2>2, <3>1, WriteItemStays
  <2>. QED
    BY <2>1, <2>2
<1>2. op[1] = "saveItem" /\ op[1] # "reparent"
  OBVIOUS
<1>3. ASSUME NEW new, NEW c, Same(rows, new), MenusSound(new)
      PROVE  MenusSound(Result(Head(Plan(op, new, c)), new))
  <2>. DEFINE again == Again(old, new)
              x == [w EXCEPT !.add = @ \cup links \cup again]
  <2>1. Plan(op, new, c) = <<x>>
    BY DEF Plan, SaveItem
  <2>2. Loose(again)
    BY <1>3, AgainLoose
  <2>3. x.add = w.add \cup links \cup again /\ x.drop = w.drop /\ x.upsert = TRUE /\ w.upsert = TRUE
    BY DEF WriteItem, Write, Statement
  <2>. HIDE DEF again, x
  <2>4. \A row : row[1] \in {"item", "of", "parent"} => (row \in Result(x, new) <=> row \in Result(w, new))
    BY <2>2, <2>3 DEF Loose, Result
  <2>5. \A j, y : <<"item", j, y>>[1] = "item" /\ <<"of", j, y>>[1] = "of" /\ <<"parent", j, y>>[1] = "parent"
    OBVIOUS
  <2>6. \A j : Exists(j, "item", Result(x, new)) <=> Exists(j, "item", Result(w, new))
    BY <2>4, <2>5, ExistsIs
  <2>7. Same(Result(w, new), Result(x, new))
    BY <2>4, <2>5, <2>6 DEF Same
  <2>8. MenusSound(Result(w, new))
    BY <1>1, <1>3 DEF Keeps
  <2>9. MenusSound(Result(x, new))
    BY <2>7, <2>8, SameIs
  <2>. QED
    BY <2>1, <2>9
<1>. HIDE DEF op
<1>4. KeepsWhere(op, rows)
  BY <1>2, <1>3 DEF KeepsWhere
<1>. QED
  BY <1>4 DEF op

\* A form of a menu saves the items it has as items it has.
LEMMA SaveMenuHot ==
  ASSUME NEW rows, MenusSound(rows), NEW m \in Menu, NEW s, NEW I \in SUBSET Item,
         \A i \in I : Exists(i, "item", rows) /\ <<"of", i, m>> \in rows, NEW old, Backed(old, rows)
  PROVE  KeepsWhere(<<"saveMenu", m, s, I, old>>, rows)
<1>. DEFINE op == <<"saveMenu", m, s, I, old>>
<1>1. op[1] # "reparent"
  OBVIOUS
<1>2. ASSUME NEW new, NEW c, Same(rows, new), MenusSound(new)
      PROVE  MenusSound(Result(Head(Plan(op, new, c)), new))
  <2>. DEFINE again == Again(old, new)
              menu == StatusOf("menu", m)
              drop == UNION {Links("of", i, Menu) : i \in I}
              add == {<<"of", i, m>> : i \in I}
              x == Write(menu \cup drop, {<<"menu", m, s>>} \cup add \cup again)
  <2>1. Plan(op, new, c) = <<x>>
    BY DEF Plan, SaveMenu
  <2>2. Loose(again) /\ Loose(menu) /\ Loose({<<"menu", m, s>>})
    BY <1>2, AgainLoose, ColumnsAre DEF Loose
  <2>3. x.add = {<<"menu", m, s>>} \cup add \cup again /\ x.drop = menu \cup drop /\ x.upsert = TRUE
    BY DEF Write, Statement
  <2>4. \A row : row \in drop \cup add => row[1] = "of"
    BY DEF Links
  <2>5. \A i, n : <<"of", i, n>> \in drop <=> i \in I /\ n \in Menu
    BY DEF Links
  <2>6. \A i, n : <<"of", i, n>> \in add <=> i \in I /\ n = m
    OBVIOUS
  <2>. HIDE DEF again, menu, drop, add, x
  <2>7. \A row : row[1] \in {"item", "parent"} => (row \in Result(x, new) <=> row \in new)
    BY <2>2, <2>3, <2>4 DEF Loose, Result
  <2>8. \A i \in Item, n \in Menu : <<"of", i, n>> \in Result(x, new) <=> <<"of", i, n>> \in new
    <3>. SUFFICES ASSUME NEW i \in Item, NEW n \in Menu PROVE <<"of", i, n>> \in Result(x, new) <=> <<"of", i, n>> \in new
      OBVIOUS
    <3>1. <<"of", i, n>> \notin menu \cup {<<"menu", m, s>>} \cup again
      BY <2>2 DEF Loose
    <3>2. <<"of", i, n>> \in Result(x, new) <=> (<<"of", i, n>> \in new /\ <<"of", i, n>> \notin drop) \/ <<"of", i, n>> \in add
      BY <2>3, <3>1 DEF Result
    <3>3. i \in I => (<<"of", i, n>> \in new <=> n = m)
      BY <1>2 DEF Same, MenusSound
    <3>. QED
      BY <2>5, <2>6, <3>2, <3>3
  <2>9. \A j, y : <<"item", j, y>>[1] = "item" /\ <<"parent", j, y>>[1] = "parent"
    OBVIOUS
  <2>10. \A j : Exists(j, "item", Result(x, new)) <=> Exists(j, "item", new)
    BY <2>7, <2>9, ExistsIs
  <2>11. Same(new, Result(x, new))
    BY <2>7, <2>8, <2>9, <2>10 DEF Same
  <2>12. MenusSound(Result(x, new))
    BY <1>2, <2>11, SameIs
  <2>. QED
    BY <2>1, <2>12
<1>. HIDE DEF op
<1>3. KeepsWhere(op, rows)
  BY <1>1, <1>2 DEF KeepsWhere
<1>. QED
  BY <1>3 DEF op

LEMMA ToggleHot ==
  ASSUME NEW rows, NEW i \in Item, Exists(i, "item", rows)
  PROVE  Keeps(Write(ItemColumns(i), ((ItemColumns(i) \cap rows) \ StatusOf("item", i)) \cup {Flip("item", i, rows)}), rows)
<1>. DEFINE add == ((ItemColumns(i) \cap rows) \ StatusOf("item", i)) \cup {Flip("item", i, rows)}
            w == Write(ItemColumns(i), add)
<1>1. w.do = "statement" /\ w.add = add /\ w.drop = ItemColumns(i) /\ w.upsert = TRUE
  BY DEF Write, Statement
<1>2. Flip("item", i, rows) \in StatusOf("item", i) /\ Flip("item", i, rows)[1] = "item"
  BY DEF Flip, StatusOf, Status
<1>3. /\ \A row \in add : row[2] = i
      /\ add \cap StatusOf("item", i) # {}
      /\ \A o \in Menu : <<"of", i, o>> \in add <=> <<"of", i, o>> \in rows
      /\ \A q \in Item : <<"parent", i, q>> \in add <=> <<"parent", i, q>> \in rows
  <2>1. \A row \in StatusOf("item", i) : row[1] = "item" /\ row[2] = i
    BY ColumnsAre
  <2>2. \A x : <<"of", i, x>>[1] = "of" /\ <<"parent", i, x>>[1] = "parent"
    OBVIOUS
  <2>3. \A row \in add : row[2] = i
    BY <1>2, <2>1, ItemRows
  <2>4. \A row : row[1] # "item" /\ row \in ItemColumns(i) => (row \in add <=> row \in rows)
    BY <1>2, <2>1
  <2>. HIDE DEF add
  <2>5. \A o \in Menu : <<"of", i, o>> \in add <=> <<"of", i, o>> \in rows
    BY <2>2, <2>4, ItemRows
  <2>6. \A q \in Item : <<"parent", i, q>> \in add <=> <<"parent", i, q>> \in rows
    BY <2>2, <2>4, ItemRows
  <2>. QED
    BY <1>2, <2>3, <2>5, <2>6 DEF add
<1>. HIDE DEF add, w
<1>. SUFFICES ASSUME NEW old, Same(rows, old), MenusSound(old) PROVE MenusSound(Result(w, old))
  BY <1>1 DEF Keeps, w, add
<1>. DEFINE new == Result(w, old)
<1>4. new = (old \ ItemColumns(i)) \cup add
  BY <1>1 DEF Result
<1>. HIDE DEF new
<1>5. Same(old, new)
  <2>1. \A j \in Item \ {i} :
          /\ Exists(j, "item", new) <=> Exists(j, "item", old)
          /\ \A o \in Menu : <<"of", j, o>> \in new <=> <<"of", j, o>> \in old
          /\ \A q \in Item : <<"parent", j, q>> \in new <=> <<"parent", j, q>> \in old
    <3>1. DifferAt(i, old, new)
      BY <1>3, <1>4, ItemRows DEF DifferAt
    <3>. QED
      BY <3>1, OthersSame
  <2>2. /\ Exists(i, "item", new) <=> Exists(i, "item", old)
        /\ \A o \in Menu : <<"of", i, o>> \in new <=> <<"of", i, o>> \in old
        /\ \A q \in Item : <<"parent", i, q>> \in new <=> <<"parent", i, q>> \in old
    <3>1. Exists(i, "item", new) /\ Exists(i, "item", old)
      BY <1>3, <1>4 DEF Same, Exists
    <3>2. \A o \in Menu : <<"of", i, o>> \in new <=> <<"of", i, o>> \in rows
      BY <1>3, <1>4, ItemRows
    <3>3. \A q \in Item : <<"parent", i, q>> \in new <=> <<"parent", i, q>> \in rows
      BY <1>3, <1>4, ItemRows
    <3>. QED
      BY <3>1, <3>2, <3>3 DEF Same
  <2>. QED
    BY <2>1, <2>2 DEF Same
<1>. QED
  BY <1>5, SameIs DEF new

\* What is left of the items in G once their columns are gone.
LEMMA ColumnsGone ==
  ASSUME NEW rows, MenusSound(rows), NEW G \in SUBSET Item, NEW new, new = rows \ UNION {ItemColumns(i) : i \in G},
         \A c, g \in Item : g \in G /\ <<"parent", c, g>> \in rows => c \in G
  PROVE  MenusSound(new)
<1>1. \A row : row \in new <=> row \in rows /\ \A i \in G : row \notin ItemColumns(i)
  OBVIOUS
<1>2. ASSUME NEW j \in Item \ G
      PROVE  /\ Exists(j, "item", new) <=> Exists(j, "item", rows)
             /\ \A n \in Menu : <<"of", j, n>> \in new <=> <<"of", j, n>> \in rows
             /\ \A q \in Item : <<"parent", j, q>> \in new <=> <<"parent", j, q>> \in rows
  <2>1. \A row : row[2] = j => (row \in new <=> row \in rows)
    BY <1>1, ItemRows
  <2>2. \A x : <<"item", j, x>>[2] = j /\ <<"of", j, x>>[2] = j /\ <<"parent", j, x>>[2] = j
    OBVIOUS
  <2>. QED
    BY <2>1, <2>2, ExistsIs
<1>3. ASSUME NEW j \in G
      PROVE  /\ ~Exists(j, "item", new)
             /\ \A n \in Menu : <<"of", j, n>> \notin new
             /\ \A q \in Item : <<"parent", j, q>> \notin new
  <2>1. ~Exists(j, "item", new)
    BY <1>1, ItemRows DEF Exists
  <2>. QED
    BY <1>1, <2>1, ItemRows
<1>. QED
  BY <1>2, <1>3, RemovalKeeps

LEMMA ExpungeHot ==
  ASSUME NEW rows, NEW i \in Item, \A c \in Item : <<"parent", c, i>> \notin rows
  PROVE  Keeps(Expunge(i, ItemColumns(i)), rows)
<1>. DEFINE w == Expunge(i, ItemColumns(i))
<1>1. w.do = "statement" /\ w.add = {} /\ w.drop = ItemColumns(i) /\ w.upsert = TRUE
  BY DEF Expunge, Unless, Delete, Statement
<1>. HIDE DEF w
<1>. SUFFICES ASSUME NEW old, Same(rows, old), MenusSound(old) PROVE MenusSound(Result(w, old))
  BY <1>1 DEF Keeps, w
<1>2. Result(w, old) = old \ UNION {ItemColumns(g) : g \in {i}}
  BY <1>1 DEF Result
<1>3. \A c, g \in Item : g \in {i} /\ <<"parent", c, g>> \in old => c \in {i}
  BY DEF Same
<1>. QED
  BY <1>2, <1>3, ColumnsGone

\* The items of a menu go with it.
LEMMA MenuGone ==
  ASSUME NEW rows, MenusSound(rows), NEW c, NEW op, op[1] = "deleteItemsOf", op[2] \in Menu
  PROVE  MenusSound(Result(Head(Plan(op, rows, c)), rows))
<1>. DEFINE I == ItemsOf(op[2], rows)
            columns == UNION {ItemColumns(i) : i \in I}
            s == Ignored(Unless(UNION {Sees(i) : i \in I}, Delete(columns)))
<1>1. Head(Plan(op, rows, c)) = s
  BY DEF Plan, DeleteItemsOf
<1>2. s.add = {} /\ s.drop = columns /\ s.upsert = TRUE
  BY DEF Ignored, Unless, Delete, Statement
<1>3. I \in SUBSET Item
  BY DEF ItemsOf
<1>4. ASSUME NEW d \in Item, NEW g \in Item, g \in I, <<"parent", d, g>> \in rows
      PROVE  d \in I
  <2>1. PICK n \in Menu : {d, g} \subseteq ItemsOf(n, rows)
    BY <1>4 DEF MenusSound
  <2>2. n = op[2]
    BY <1>4, <2>1 DEF ItemsOf, MenusSound
  <2>. QED
    BY <2>1, <2>2
<1>. HIDE DEF I, s
<1>5. Result(s, rows) = rows \ UNION {ItemColumns(i) : i \in I}
  BY <1>2 DEF Result
<1>6. MenusSound(Result(s, rows))
  BY <1>3, <1>4, <1>5, ColumnsGone
<1>. QED
  BY <1>1, <1>6

\* The children of an item go to the parent it has.
LEMMA ChildrenGone ==
  ASSUME NEW rows, MenusSound(rows), NEW c, NEW i \in Item, NEW op, op = <<"reparent", i, ParentOf(i, rows)>>
  PROVE  LET s == Head(Plan(op, rows, c)) IN
         /\ MenusSound(Result(s, rows)) /\ (\A d \in Item : <<"parent", d, i>> \notin Result(s, rows))
         /\ s.vital = TRUE
<1>. DEFINE p == ParentOf(i, rows)
            children == {d \in Item : <<"parent", d, i>> \in rows}
            old == {<<"parent", d, i>> : d \in children}
            add == IF p = None THEN {} ELSE {<<"parent", d, p>> : d \in children}
            s == Write(old, add)
            new == Result(s, rows)
<1>1. Head(Plan(op, rows, c)) = s
  BY DEF Plan, Reparent
<1>2. s.add = add /\ s.drop = old /\ s.upsert = TRUE /\ s.vital = TRUE
  BY DEF Write, Statement
<1>3. p \in Item \cup {None}
  BY DEF ParentOf
<1>. HIDE DEF p, s
<1>4. new = (rows \ old) \cup add
  BY <1>2 DEF Result
<1>. HIDE DEF new
<1>. HIDE DEF children
<1>5. \A row \in old \cup add : row[1] = "parent"
  <2>1. \A row \in old : row[1] = "parent"
    OBVIOUS
  <2>2. \A row \in {<<"parent", d, p>> : d \in children} : row[1] = "parent"
    OBVIOUS
  <2>. QED
    BY <2>1, <2>2
<1>6. \A j, q : <<"parent", j, q>> \in old <=> j \in children /\ q = i
  OBVIOUS
<1>7. \A j, q : <<"parent", j, q>> \in add <=> p # None /\ j \in children /\ q = p
  OBVIOUS
<1>. HIDE DEF old, add
<1>8. \A row : row[1] # "parent" => (row \in new <=> row \in rows)
  BY <1>4, <1>5
<1>9. /\ \A j \in Item : Exists(j, "item", new) <=> Exists(j, "item", rows)
      /\ \A j \in Item, n \in Menu : <<"of", j, n>> \in new <=> <<"of", j, n>> \in rows
  <2>1. \A j, x : <<"item", j, x>>[1] # "parent" /\ <<"of", j, x>>[1] # "parent"
    OBVIOUS
  <2>. QED
    BY <1>8, <2>1, ExistsIs
<1>10. ASSUME NEW j \in Item, NEW q \in Item
       PROVE  /\ <<"parent", j, i>> \in rows => (<<"parent", j, q>> \in new <=> q = p)
              /\ <<"parent", j, i>> \notin rows => (<<"parent", j, q>> \in new <=> <<"parent", j, q>> \in rows)
  <2>1. q # None
    BY SiteIdsAssumption
  <2>2. CASE <<"parent", j, i>> \notin rows
    BY <1>4, <1>6, <1>7, <2>2 DEF children
  <2>3. CASE <<"parent", j, i>> \in rows
    <3>1. <<"parent", j, q>> \in rows => q = i
      BY <2>3 DEF MenusSound
    <3>2. j \in children
      BY <2>3 DEF children
    <3>3. <<"parent", j, q>> \in add <=> q = p
      BY <1>7, <2>1, <3>2
    <3>4. <<"parent", j, q>> \notin rows \ old
      BY <1>6, <3>1, <3>2
    <3>. QED
      BY <1>4, <2>3, <3>3, <3>4
  <2>. QED
    BY <2>2, <2>3
<1>11. MenusSound(new) /\ \A d \in Item : <<"parent", d, i>> \notin new
  BY <1>9, <1>10, ReparentKeeps DEF p
<1>. QED
  BY <1>1, <1>2, <1>11 DEF new

----------------------------------------------------------------------------
\* Lists of steps that leave the items where they are, but for one

CalmOp(op) ==
  \/ op \in Request /\ ~EditsItems(op)
  \/ op[1] \in {"copyGroups", "routeReorder", "ensureRoute", "ensureRouteDefault", "place", "seedWidget"}
  \/ op[1] = "replaceSpaces" /\ op[3] \in SUBSET Space
Calm(s) ==
  \/ s.do = "call" /\ CalmOp(s.op)
  \/ s.do = "statement" /\ Loose(s.add) /\ Loose(s.drop)
  \/ s.do \in {"return", "forget", "overlook", "read", "fill"}

\* The steps of l are calm, but for those at the places in H.
CalmBut(H, l) == (\E S : l \in Seq(S)) /\ \A i \in DOMAIN l \ H : Calm(l[i])
CalmList(l) == CalmBut({}, l)

EditOp(op) ==
  \/ op \in Request /\ EditsItems(op)
  \/ op[1] = "addRouteToMenu" /\ op[3] \in Menu /\ op[4] \in Item \cup {None}
Hot(s, rows) ==
  \/ s.do = "call" /\ EditOp(s.op)
  \/ Keeps(s, rows)
  \/ s.do = "where" /\ KeepsWhere(s.op, rows)

\* One step to come is about items; or an item is to lose its children first and then to go.
Pending(l, rows) == \E k \in DOMAIN l : Hot(l[k], rows) /\ CalmBut({k}, l)
Emptying(l, rows) ==
  \E i \in Item, k \in DOMAIN l :
    /\ k > 1 /\ l[k] = Expunge(i, ItemColumns(i))
    /\ l[1] = Where(<<"reparent", i, ParentOf(i, rows)>>)
    /\ CalmBut({1, k}, l)
Edits(l, rows) == CalmList(l) \/ Pending(l, rows) \/ Emptying(l, rows)

LEMMA CalmOf ==
  ASSUME NEW a, Calm(a)
  PROVE  CalmList(<<a>>)
<1>1. <<a>> \in Seq({a}) /\ \A i \in DOMAIN <<a>> : <<a>>[i] = a
  OBVIOUS
<1>. QED
  BY <1>1 DEF CalmList, CalmBut

LEMMA CalmEmpty == CalmList(<<>>)
<1>1. <<>> \in Seq({}) /\ DOMAIN <<>> = {}
  OBVIOUS
<1>. QED
  BY <1>1 DEF CalmList, CalmBut

LEMMA CalmConcat ==
  ASSUME NEW a, NEW b, CalmList(a), CalmList(b)
  PROVE  CalmList(a \o b)
<1>1. PICK S, T : a \in Seq(S) /\ b \in Seq(T)
  BY DEF CalmList, CalmBut
<1>2. /\ a \o b \in Seq(S \cup T)
      /\ \A i \in DOMAIN a : (a \o b)[i] = a[i]
      /\ \A i \in DOMAIN (a \o b) : i \in DOMAIN a \/ (i - Len(a) \in DOMAIN b /\ (a \o b)[i] = b[i - Len(a)])
  BY <1>1, ConcatAt
<1>. DEFINE c == a \o b
<1>. HIDE DEF c
<1>3. \A i \in DOMAIN c : Calm(c[i])
  BY <1>2 DEF CalmList, CalmBut, c
<1>. QED
  BY <1>2, <1>3 DEF CalmList, CalmBut, c

LEMMA CalmOfTwo ==
  ASSUME NEW a, NEW b, Calm(a), Calm(b)
  PROVE  CalmList(<<a, b>>)
<1>1. <<a, b>> \in Seq({a, b}) /\ \A i \in DOMAIN <<a, b>> : <<a, b>>[i] \in {a, b}
  OBVIOUS
<1>. QED
  BY <1>1 DEF CalmList, CalmBut

LEMMA CalmOfThree ==
  ASSUME NEW a, NEW b, NEW c, Calm(a), Calm(b), Calm(c)
  PROVE  CalmList(<<a, b, c>>)
<1>1. <<a, b, c>> = <<a, b>> \o <<c>>
  OBVIOUS
<1>. QED
  BY <1>1, CalmOf, CalmOfTwo, CalmConcat

LEMMA CalmWhen ==
  ASSUME NEW b, NEW l, b => CalmList(l)
  PROVE  CalmList(When(b, l))
BY CalmEmpty DEF When

\* A list that is a sequence for another reason.
LEMMA CalmAll ==
  ASSUME NEW K, NEW l, FitList(K, l), \A i \in DOMAIN l : Calm(l[i])
  PROVE  CalmList(l)
BY DEF FitList, CalmList, CalmBut

LEMMA CalmEach ==
  ASSUME NEW S, IsFiniteSet(S), NEW f, DOMAIN f = DOMAIN SetToSeq(S), f = [i \in DOMAIN f |-> f[i]],
         \A i \in DOMAIN f : Calm(f[i])
  PROVE  CalmList(f)
<1>. DEFINE T == {f[i] : i \in DOMAIN f}
            s == SetToSeq(S)
<1>1. s \in Seq(S)
  BY SetToSeqIs
<1>. HIDE DEF s
<1>2. DOMAIN f = 1..Len(s) /\ Len(s) \in Nat
  BY <1>1 DEF s
<1>3. f \in Seq(T)
  BY <1>2
<1>. QED
  BY <1>3 DEF CalmList, CalmBut

LEMMA PendingOf ==
  ASSUME NEW a, NEW rows, Hot(a, rows)
  PROVE  Pending(<<a>>, rows)
<1>1. <<a>> \in Seq({a}) /\ DOMAIN <<a>> = {1} /\ <<a>>[1] = a
  OBVIOUS
<1>. QED
  BY <1>1 DEF Pending, CalmBut

\* Calm steps before and after.
LEMMA PendingBetween ==
  ASSUME NEW a, NEW b, NEW rows
  PROVE  /\ CalmList(a) /\ Pending(b, rows) => Pending(a \o b, rows)
         /\ Pending(a, rows) /\ CalmList(b) => Pending(a \o b, rows)
<1>1. ASSUME CalmList(a), Pending(b, rows) PROVE Pending(a \o b, rows)
  <2>1. PICK k \in DOMAIN b : Hot(b[k], rows) /\ CalmBut({k}, b)
    BY <1>1 DEF Pending
  <2>2. PICK S, T : a \in Seq(S) /\ b \in Seq(T)
    BY <1>1, <2>1 DEF CalmList, CalmBut
  <2>. DEFINE c == a \o b
              m == Len(a) + k
  <2>3. /\ c \in Seq(S \cup T)
        /\ \A i \in DOMAIN a : c[i] = a[i]
        /\ m \in DOMAIN c /\ c[m] = b[k]
        /\ \A i \in DOMAIN c : i \in DOMAIN a \/ (i - Len(a) \in DOMAIN b /\ c[i] = b[i - Len(a)])
        /\ Len(a) \in Nat /\ k \in Nat
    BY <2>2, ConcatAt
  <2>4. DOMAIN c \subseteq Nat
    BY <2>3
  <2>. HIDE DEF c
  <2>5. ASSUME NEW i \in DOMAIN c, i # m PROVE Calm(c[i])
    <3>1. CASE i \in DOMAIN a
      BY <1>1, <2>3, <3>1 DEF CalmList, CalmBut
    <3>2. CASE i - Len(a) \in DOMAIN b /\ c[i] = b[i - Len(a)]
      <4>1. i - Len(a) # k
        BY <2>3, <2>4, <2>5
      <4>. QED
        BY <2>1, <3>2, <4>1 DEF CalmBut
    <3>. QED
      BY <2>3, <3>1, <3>2
  <2>. HIDE DEF m
  <2>6. CalmBut({m}, c)
    BY <2>3, <2>5 DEF CalmBut
  <2>. QED
    BY <2>1, <2>3, <2>6 DEF Pending, c
<1>2. ASSUME Pending(a, rows), CalmList(b) PROVE Pending(a \o b, rows)
  <2>1. PICK k \in DOMAIN a : Hot(a[k], rows) /\ CalmBut({k}, a)
    BY <1>2 DEF Pending
  <2>2. PICK S, T : a \in Seq(S) /\ b \in Seq(T)
    BY <1>2, <2>1 DEF CalmList, CalmBut
  <2>. DEFINE c == a \o b
  <2>3. /\ c \in Seq(S \cup T)
        /\ \A i \in DOMAIN a : i \in DOMAIN c /\ c[i] = a[i]
        /\ \A i \in DOMAIN c : i \in DOMAIN a \/ (i - Len(a) \in DOMAIN b /\ c[i] = b[i - Len(a)])
    BY <2>2, ConcatAt
  <2>. HIDE DEF c
  <2>4. \A i \in DOMAIN c \ {k} : Calm(c[i])
    BY <1>2, <2>1, <2>3 DEF CalmList, CalmBut
  <2>5. CalmBut({k}, c)
    BY <2>3, <2>4 DEF CalmBut
  <2>. QED
    BY <2>1, <2>3, <2>5 DEF Pending, c
<1>. QED
  BY <1>1, <1>2

\* What comes after the steps of a handler is calm.
LEMMA EditsThen ==
  ASSUME NEW a, NEW b, NEW rows, Edits(a, rows), CalmList(b)
  PROVE  Edits(a \o b, rows)
<1>1. CASE CalmList(a)
  BY <1>1, CalmConcat DEF Edits
<1>2. CASE Pending(a, rows)
  BY <1>2, PendingBetween DEF Edits
<1>3. CASE Emptying(a, rows)
  <2>1. PICK i \in Item, k \in DOMAIN a :
          /\ k > 1 /\ a[k] = Expunge(i, ItemColumns(i))
          /\ a[1] = Where(<<"reparent", i, ParentOf(i, rows)>>)
          /\ CalmBut({1, k}, a)
    BY <1>3 DEF Emptying
  <2>2. PICK S, T : a \in Seq(S) /\ b \in Seq(T)
    BY <2>1 DEF CalmList, CalmBut
  <2>. DEFINE c == a \o b
  <2>3. /\ c \in Seq(S \cup T)
        /\ \A j \in DOMAIN a : j \in DOMAIN c /\ c[j] = a[j]
        /\ \A j \in DOMAIN c : j \in DOMAIN a \/ (j - Len(a) \in DOMAIN b /\ c[j] = b[j - Len(a)])
    BY <2>2, ConcatAt
  <2>4. 1 \in DOMAIN a
    BY <2>1, <2>2
  <2>. HIDE DEF c
  <2>5. \A j \in DOMAIN c \ {1, k} : Calm(c[j])
    BY <2>1, <2>3 DEF CalmList, CalmBut
  <2>6. CalmBut({1, k}, c)
    BY <2>3, <2>5 DEF CalmBut
  <2>7. c[1] = a[1] /\ c[k] = a[k] /\ k \in DOMAIN c
    BY <2>3, <2>4
  <2>8. Emptying(c, rows)
    BY <2>1, <2>6, <2>7 DEF Emptying
  <2>. QED
    BY <2>8 DEF Edits, c
<1>. QED
  BY <1>1, <1>2, <1>3 DEF Edits

\* What comes after the first step.
LEMMA TailIs ==
  ASSUME NEW l, NEW S, l \in Seq(S), l # <<>>
  PROVE  /\ Tail(l) \in Seq(S) /\ 1 \in DOMAIN l /\ Head(l) = l[1]
         /\ \A i \in DOMAIN Tail(l) : i + 1 \in DOMAIN l /\ Tail(l)[i] = l[i + 1] /\ i \in Nat /\ i > 0
         /\ \A i \in DOMAIN l : i # 1 => i - 1 \in DOMAIN Tail(l) /\ Tail(l)[i - 1] = l[i]
OBVIOUS

LEMMA CalmTail ==
  ASSUME NEW l, CalmList(l), l # <<>>
  PROVE  Calm(Head(l)) /\ CalmList(Tail(l))
<1>1. PICK S : l \in Seq(S)
  BY DEF CalmList, CalmBut
<1>. QED
  BY <1>1, TailIs DEF CalmList, CalmBut

LEMMA PendingTail ==
  ASSUME NEW l, NEW rows, Pending(l, rows), l # <<>>
  PROVE  \/ Hot(Head(l), rows) /\ CalmList(Tail(l))
         \/ Calm(Head(l)) /\ Pending(Tail(l), rows)
<1>1. PICK k \in DOMAIN l : Hot(l[k], rows) /\ CalmBut({k}, l)
  BY DEF Pending
<1>2. PICK S : l \in Seq(S)
  BY <1>1 DEF CalmBut
<1>. DEFINE t == Tail(l)
<1>3. /\ t \in Seq(S) /\ 1 \in DOMAIN l /\ Head(l) = l[1]
      /\ \A i \in DOMAIN t : i + 1 \in DOMAIN l /\ t[i] = l[i + 1] /\ i \in Nat /\ i > 0
      /\ \A i \in DOMAIN l : i # 1 => i - 1 \in DOMAIN t /\ t[i - 1] = l[i]
  BY <1>2, TailIs
<1>4. DOMAIN l \subseteq Nat
  BY <1>2
<1>. HIDE DEF t
<1>5. CASE k = 1
  <2>1. \A i \in DOMAIN t : Calm(t[i])
    BY <1>1, <1>3, <1>5 DEF CalmBut
  <2>. QED
    BY <1>1, <1>3, <1>5, <2>1 DEF CalmList, CalmBut, t
<1>6. CASE k # 1
  <2>1. Calm(Head(l))
    BY <1>1, <1>3, <1>6 DEF CalmBut
  <2>2. k - 1 \in DOMAIN t /\ t[k - 1] = l[k]
    BY <1>3, <1>6
  <2>3. \A i \in DOMAIN t \ {k - 1} : Calm(t[i])
    <3>. SUFFICES ASSUME NEW i \in DOMAIN t, i # k - 1 PROVE Calm(t[i])
      OBVIOUS
    <3>1. i + 1 \in DOMAIN l /\ t[i] = l[i + 1] /\ i + 1 # k
      BY <1>3, <1>4
    <3>. QED
      BY <1>1, <3>1 DEF CalmBut
  <2>4. CalmBut({k - 1}, t)
    BY <1>3, <2>3 DEF CalmBut
  <2>5. Pending(t, rows)
    BY <1>1, <2>2, <2>4 DEF Pending
  <2>. QED
    BY <2>1, <2>5 DEF t
<1>. QED
  BY <1>5, <1>6

LEMMA EmptyingTail ==
  ASSUME NEW l, NEW rows, Emptying(l, rows)
  PROVE  /\ l # <<>>
         /\ \E i \in Item, k \in DOMAIN Tail(l) :
              /\ Head(l) = Where(<<"reparent", i, ParentOf(i, rows)>>)
              /\ Tail(l)[k] = Expunge(i, ItemColumns(i))
              /\ CalmBut({k}, Tail(l))
<1>1. PICK i \in Item, k \in DOMAIN l :
        /\ k > 1 /\ l[k] = Expunge(i, ItemColumns(i))
        /\ l[1] = Where(<<"reparent", i, ParentOf(i, rows)>>)
        /\ CalmBut({1, k}, l)
  BY DEF Emptying
<1>2. PICK S : l \in Seq(S)
  BY <1>1 DEF CalmBut
<1>3. l # <<>> /\ DOMAIN l \subseteq Nat
  BY <1>1, <1>2
<1>. DEFINE t == Tail(l)
<1>4. /\ t \in Seq(S) /\ Head(l) = l[1]
      /\ \A j \in DOMAIN t : j + 1 \in DOMAIN l /\ t[j] = l[j + 1] /\ j \in Nat /\ j > 0
      /\ \A j \in DOMAIN l : j # 1 => j - 1 \in DOMAIN t /\ t[j - 1] = l[j]
  BY <1>2, <1>3, TailIs
<1>. HIDE DEF t
<1>5. k - 1 \in DOMAIN t /\ t[k - 1] = l[k]
  BY <1>1, <1>4
<1>6. \A j \in DOMAIN t \ {k - 1} : Calm(t[j])
  <2>. SUFFICES ASSUME NEW j \in DOMAIN t, j # k - 1 PROVE Calm(t[j])
    OBVIOUS
  <2>1. j + 1 \in DOMAIN l /\ t[j] = l[j + 1] /\ j + 1 # k /\ j + 1 # 1
    BY <1>3, <1>4
  <2>. QED
    BY <1>1, <2>1 DEF CalmBut
<1>7. CalmBut({k - 1}, t)
  BY <1>4, <1>6 DEF CalmBut
<1>. QED
  BY <1>1, <1>3, <1>4, <1>5, <1>7 DEF t

\* Nothing changes as long as the items stay where they are.
LEMMA EditsSame ==
  ASSUME NEW l, NEW rows, NEW new, Same(rows, new), Edits(l, rows)
  PROVE  Edits(l, new)
<1>1. \A s : Hot(s, rows) => Hot(s, new)
  <2>1. ASSUME NEW s, Keeps(s, rows) PROVE Keeps(s, new)
    BY <2>1, SameMore DEF Keeps
  <2>2. ASSUME NEW op, KeepsWhere(op, rows) PROVE KeepsWhere(op, new)
    BY <2>2, SameMore DEF KeepsWhere
  <2>. QED
    BY <2>1, <2>2 DEF Hot
<1>2. \A i \in Item : ParentOf(i, new) = ParentOf(i, rows)
  BY SameIs
<1>. QED
  BY <1>1, <1>2 DEF Edits, Pending, Emptying

----------------------------------------------------------------------------
\* Handlers that leave the items where they are

LEMMA LooseRows ==
  /\ Loose({})
  /\ \A what, x : what \notin {"item", "of", "parent"} => Loose(StatusOf(what, x))
  /\ \A r : Loose(RouteColumns(r))
  /\ \A x : Loose(Sees(x))
  /\ \A x, Y : Loose(Links("sees", x, Y)) /\ Loose(Links("sort", x, Y))
  /\ \A R : Loose(Default(R))
  /\ \A b, s : Loose(Placed(b, s))
  /\ \A b, S : Loose(UNION {Placed(b, s) : s \in S})
<1>1. \A x, Y : Loose(Links("sort", x, Y))
  BY DEF Links, Loose
<1>2. \A b, S : Loose(UNION {Placed(b, s) : s \in S})
  BY ColumnsAre DEF Loose
<1>. QED
  BY <1>1, <1>2, ColumnsAre DEF Loose

LEMMA CalmSteps ==
  /\ Calm(Return)
  /\ \A K : Calm(Forget(K)) /\ Calm(Overlook(K))
  /\ \A op : CalmOp(op) => Calm(Call(op))
  /\ \A S : Loose(S) => Calm(Delete(S)) /\ \A x : Calm(Expunge(x, S))
  /\ \A S, row : Loose(S) /\ row[1] \notin {"item", "of", "parent"} =>
       Calm(Save(S, row)) /\ Calm(Update(S, row)) /\ \A U : Calm(Insert(row, U))
  /\ \A x, G : Calm(Show(x, G))
<1>1. /\ Calm(Return)
      /\ \A K : Calm(Forget(K)) /\ Calm(Overlook(K))
      /\ \A op : CalmOp(op) => Calm(Call(op))
  BY DEF Calm, Return, Forget, Overlook, Call
<1>2. ASSUME NEW S, Loose(S)
      PROVE  Calm(Delete(S)) /\ \A x : Calm(Expunge(x, S))
  <2>1. /\ Delete(S).do = "statement" /\ Delete(S).add = {} /\ Delete(S).drop = S
        /\ \A x : Expunge(x, S).do = "statement" /\ Expunge(x, S).add = {} /\ Expunge(x, S).drop = S
    BY DEF Delete, Expunge, Unless, Statement
  <2>. QED
    BY <1>2, <2>1, LooseRows DEF Calm
<1>3. ASSUME NEW S, NEW row, Loose(S), row[1] \notin {"item", "of", "parent"}
      PROVE  Calm(Save(S, row)) /\ Calm(Update(S, row)) /\ \A U : Calm(Insert(row, U))
  <2>1. /\ Save(S, row).do = "statement" /\ Save(S, row).add = {row} /\ Save(S, row).drop = S
        /\ Update(S, row).do = "statement" /\ Update(S, row).add = {row} /\ Update(S, row).drop = S
        /\ \A U : Insert(row, U).do = "statement" /\ Insert(row, U).add = {row} /\ Insert(row, U).drop = {}
    BY DEF Save, Update, Insert, Statement
  <2>2. Loose({row}) /\ Loose({})
    BY <1>3 DEF Loose
  <2>. QED
    BY <1>3, <2>1, <2>2 DEF Calm
<1>4. ASSUME NEW x, NEW G
      PROVE  Calm(Show(x, G))
  <2>1. Show(x, G).do = "statement" /\ Show(x, G).add = Links("sees", x, G) /\ Show(x, G).drop = {}
    BY DEF Show, Needing, Link, Statement
  <2>. QED
    BY <2>1, LooseRows DEF Calm
<1>. QED
  BY <1>1, <1>2, <1>3, <1>4

LEMMA InvalidatesCalm ==
  CalmList(InvalidateRoutes) /\ CalmList(<<InvalidateMenus, Overlook({Routes})>>)
<1>1. \A K : Calm(Forget(K)) /\ Calm(Overlook(K))
  BY CalmSteps
<1>. QED
  BY <1>1, CalmOfTwo DEF InvalidateRoutes, InvalidateMenus

LEMMA WriteCalm ==
  ASSUME NEW S, NEW T, Loose(S), Loose(T)
  PROVE  /\ Calm(Write(S, T))
         /\ \A U : Calm([Write(S, T) EXCEPT !.clash = U])
<1>1. Write(S, T).do = "statement" /\ Write(S, T).add = T /\ Write(S, T).drop = S
  BY DEF Write, Statement
<1>2. ASSUME NEW U
      PROVE  Calm([Write(S, T) EXCEPT !.clash = U])
  <2>. DEFINE s == [Write(S, T) EXCEPT !.clash = U]
  <2>1. s.do = "statement" /\ s.add = T /\ s.drop = S
    BY DEF Write, Statement
  <2>. HIDE DEF s
  <2>2. Calm(s)
    BY <2>1 DEF Calm
  <2>. QED
    BY <2>2 DEF s
<1>. QED
  BY <1>1, <1>2 DEF Calm

LEMMA GroupsCalm ==
  ASSUME NEW x, NEW G
  PROVE  CalmList(ReplaceFormGroups(x, G))
<1>1. Calm(Delete(Links("sees", x, Group \ G))) /\ Calm(Show(x, G)) /\ Calm(Return)
  BY CalmSteps, LooseRows
<1>. QED
  BY <1>1, CalmOf, CalmOfTwo DEF ReplaceFormGroups

LEMMA ToggleCalm ==
  ASSUME NEW what, what \notin {"item", "of", "parent"}, NEW x, NEW columns, Loose(columns), NEW rows, NEW K
  PROVE  /\ CalmList(Toggle(what, x, columns, rows)) /\ CalmList(Toggle(what, x, columns, rows) \o <<Forget(K)>>)
         /\ CalmList(Toggle(what, x, columns, rows) \o <<Overlook(K)>>)
<1>. DEFINE new == ((columns \cap rows) \ StatusOf(what, x)) \cup {Flip(what, x, rows)}
<1>1. Flip(what, x, rows)[1] = what
  BY DEF Flip
<1>2. Loose(new)
  BY <1>1 DEF Loose
<1>. HIDE DEF new
<1>3. CalmList(<<Write(columns, new)>>)
  BY <1>2, WriteCalm, CalmOf
<1>4. CalmList(Toggle(what, x, columns, rows))
  BY <1>3, CalmWhen DEF Toggle, new
<1>5. CalmList(<<Forget(K)>>) /\ CalmList(<<Overlook(K)>>)
  BY CalmSteps, CalmOf
<1>. QED
  BY <1>4, <1>5, CalmConcat

LEMMA NumberedCalm ==
  ASSUME NEW n \in Nat, NEW f, DOMAIN f = 1..n, f = [i \in 1..n |-> f[i]], \A i \in 1..n : Calm(f[i])
  PROVE  CalmList(f)
<1>. DEFINE T == {f[i] : i \in 1..n}
<1>1. \A i \in 1..n : f[i] \in T
  OBVIOUS
<1>2. \A s \in T : Calm(s)
  OBVIOUS
<1>. HIDE DEF T
<1>3. f \in [1..n -> T]
  BY <1>1
<1>4. f \in Seq(T)
  BY <1>3
<1>. QED
  BY <1>4 DEF CalmList, CalmBut

LEMMA NumberCalm ==
  ASSUME NEW S, IsFiniteSet(S), NEW order, NEW sort, NEW x, NEW d
  PROVE  CalmList(Renumber(Ordered(S, order), x, d, sort, Number))
<1>. DEFINE list == Ordered(S, order)
            new == Moved(list, x, d)
            wrong == {i \in DOMAIN new : sort[new[i]] # i - 1}
            at == Ordered(wrong, [i \in wrong |-> i])
            n == Cardinality(wrong)
            steps == [j \in DOMAIN at |-> Number(new[at[j]], at[j] - 1)]
<1>1. IsFiniteSet(wrong)
  BY WrongIs
<1>2. Renumber(list, x, d, sort, Number) \in {<<>>, steps}
  BY DEF Renumber, Misnumbered
<1>. HIDE DEF list, new, wrong
<1>3. DOMAIN at = 1..n /\ n \in Nat
  BY <1>1, OrderedIs
<1>4. \A y, m : Calm(Number(y, m))
  <2>1. \A y, m : Loose(Links("sort", y, Sorts)) /\ SortColumn(y, m)[1] = "sort"
    BY LooseRows DEF SortColumn
  <2>. QED
    BY <2>1, CalmSteps DEF Number
<1>. HIDE DEF at, n
<1>5. CalmList(steps)
  BY <1>3, <1>4, NumberedCalm
<1>. HIDE DEF steps
<1>. QED
  BY <1>2, <1>5, CalmEmpty DEF list

LEMMA PlaceCalm ==
  ASSUME NEW S, IsFiniteSet(S), NEW order, NEW sort, NEW x, NEW d, NEW s
  PROVE  CalmList(PlaceAnew(Ordered(S, order), x, d, sort, s))
<1>. DEFINE place(c, m) == Update(Placed(c, s), <<"in", c, s, m>>)
            list == Ordered(S, order)
            new == Moved(list, x, d)
            wrong == {i \in DOMAIN new : sort[new[i]] # i - 1}
            at == Ordered(wrong, [i \in wrong |-> i])
            n == Cardinality(wrong)
            steps == [j \in DOMAIN at |-> place(new[at[j]], at[j] - 1)]
<1>1. IsFiniteSet(wrong)
  BY WrongIs
<1>2. PlaceAnew(list, x, d, sort, s) \in {<<>>, steps}
  BY DEF PlaceAnew, Renumber, Misnumbered
<1>4. \A y, m : Calm(place(y, m))
  BY LooseRows, CalmSteps
<1>. HIDE DEF list, new, wrong, place
<1>3. DOMAIN at = 1..n /\ n \in Nat
  BY <1>1, OrderedIs
<1>. HIDE DEF at, n
<1>5. CalmList(steps)
  BY <1>3, <1>4, NumberedCalm
<1>. HIDE DEF steps
<1>. QED
  BY <1>2, <1>5, CalmEmpty DEF list

LEMMA CallsCalm ==
  ASSUME NEW S, IsFiniteSet(S), NEW tag, \A x : CalmOp(<<tag, x>>)
  PROVE  CalmList(Calls(S, tag))
<1>. DEFINE s == SetToSeq(S)
            calls == [i \in DOMAIN s |-> Call(<<tag, s[i]>>)]
<1>1. Calls(S, tag) = calls
  BY DEF Calls
<1>. HIDE DEF s
<1>2. \A i \in DOMAIN calls : Calm(calls[i])
  BY CalmSteps
<1>3. CalmList(calls)
  BY <1>2, CalmEach DEF s
<1>. QED
  BY <1>1, <1>3

\* A form of a route, with or without an item for it.
LEMMA RouteFormEdits ==
  ASSUME NEW r, NEW s, NEW d, NEW G, NEW m \in Menu \cup {None}, NEW p \in Item \cup {None}, NEW rows
  PROVE  /\ m = None => CalmList(RouteForm(r, s, d, G, m, p, rows))
         /\ Edits(RouteForm(r, s, d, G, m, p, rows), rows)
<1>. DEFINE known == Exists(r, "route", rows)
            status == IF known /\ G = {} THEN "inactive" ELSE s
            sort == IF known THEN SortOr0(r, rows) ELSE Max0({n \in Sorts : \E q \in Route : <<"sort", q, n>> \in rows})
            row == {<<"route", r, status>>, <<"sort", r, sort>>} \cup (IF d THEN Default({r}) ELSE {}) \cup SeenBy(r, rows)
            old == RouteColumns(r) \cup (IF d THEN Default(Route) ELSE {})
            first == <<Write(old, row)>>
            second == When(~(known /\ G = {}), ReplaceFormGroups(r, G))
            third == When(m # None, <<Call(<<"addRouteToMenu", r, m, p>>)>>)
            last == InvalidateRoutes
            form == first \o second \o third \o last
<1>1. RouteForm(r, s, d, G, m, p, rows) \in {<<Return>>, form}
  BY DEF RouteForm
<1>2. Loose(row)
  <2>1. \A x \in row : x[1] \in {"route", "sort"} \/ x \in Default({r}) \/ x \in Sees(r)
    BY DEF SeenBy
  <2>2. \A x \in row : x[1] \in {"route", "sort", "default", "sees"}
    BY <2>1, ColumnsAre
  <2>. HIDE DEF row
  <2>. QED
    BY <2>2 DEF Loose
<1>3. Loose(old)
  BY LooseRows DEF Loose
<1>. HIDE DEF known, row, old
<1>4. CalmList(first) /\ CalmList(second) /\ CalmList(last) /\ CalmList(<<Return>>)
  BY <1>2, <1>3, WriteCalm, GroupsCalm, CalmSteps, InvalidatesCalm, CalmOf, CalmWhen
<1>5. m = None => third = <<>>
  BY DEF When
<1>6. m # None => Pending(third, rows)
  <2>. SUFFICES ASSUME m # None PROVE Pending(third, rows)
    OBVIOUS
  <2>1. EditOp(<<"addRouteToMenu", r, m, p>>)
    BY DEF EditOp
  <2>2. Hot(Call(<<"addRouteToMenu", r, m, p>>), rows)
    BY <2>1 DEF Hot, Call
  <2>. QED
    BY <2>2, PendingOf DEF When
<1>. HIDE DEF first, second, third, last
<1>7. CalmList(first \o second)
  BY <1>4, CalmConcat
<1>8. m = None => CalmList(form)
  BY <1>4, <1>5, <1>7, CalmEmpty, CalmConcat
<1>9. m # None => Pending(form, rows)
  BY <1>4, <1>6, <1>7, PendingBetween
<1>. HIDE DEF form
<1>. QED
  BY <1>1, <1>4, <1>8, <1>9 DEF Edits

LEMMA RoutesCalm ==
  ASSUME NEW r, NEW rows
  PROVE  /\ CalmList(RouteDelete(r, rows))
         /\ \A d : CalmList(RouteMoveSort(r, d, rows)) /\ CalmList(RouteReorder(r, d, rows))
         /\ CalmList(Toggle("route", r, RouteColumns(r), rows) \o InvalidateRoutes)
         /\ CalmList(EnsureRoute(r, rows))
         /\ CalmList(EnsureRouteDefault(rows))
         /\ CalmList(EnsureDefaultRoute) /\ CalmList(Activate)
<1>. DEFINE K == {Routes} \cup Menus
<1>0. CalmOp(<<"ensureRouteDefault">>) /\ (\A x : CalmOp(<<"ensureRoute", x>>)) /\ \A d : CalmOp(<<"routeReorder", r, d>>)
  BY DEF CalmOp
<1>1. CalmList(RouteDelete(r, rows))
  <2>. DEFINE first == <<Delete(Sees(r)), Expunge(r, RouteColumns(r))>>
              second == When(<<"default", r, TRUE>> \in rows, <<Call(<<"ensureRouteDefault">>)>>)
  <2>1. RouteDelete(r, rows) = When(r \notin BuiltInRoute /\ Exists(r, "route", rows), first \o second \o InvalidateRoutes)
    BY DEF RouteDelete
  <2>2. CalmList(first) /\ CalmList(second)
    <3>1. Calm(Delete(Sees(r))) /\ Calm(Expunge(r, RouteColumns(r))) /\ Calm(Call(<<"ensureRouteDefault">>))
      BY <1>0, CalmSteps, LooseRows
    <3>. QED
      BY <3>1, CalmOf, CalmOfTwo, CalmWhen
  <2>. HIDE DEF first, second
  <2>3. CalmList(first \o second \o InvalidateRoutes)
    BY <2>2, InvalidatesCalm, CalmConcat
  <2>. QED
    BY <2>1, <2>3, CalmWhen
<1>2. ASSUME NEW d
      PROVE  CalmList(RouteMoveSort(r, d, rows)) /\ CalmList(RouteReorder(r, d, rows))
  <2>1. CalmList(<<Call(<<"routeReorder", r, d>>)>>)
    BY <1>0, CalmSteps, CalmOf
  <2>2. CalmList(RouteMoveSort(r, d, rows))
    BY <2>1, InvalidatesCalm, CalmConcat, CalmWhen DEF RouteMoveSort
  <2>3. IsFiniteSet({q \in Route \ BuiltInRoute : Exists(q, "route", rows)})
    BY SiteIdsAssumption, FS_Subset
  <2>4. CalmList(RouteReorder(r, d, rows))
    BY <2>3, NumberCalm, CalmWhen DEF RouteReorder, CustomRoutes
  <2>. QED
    BY <2>2, <2>4
<1>3. CalmList(Toggle("route", r, RouteColumns(r), rows) \o InvalidateRoutes)
  BY LooseRows, ToggleCalm, InvalidatesCalm, CalmConcat
<1>4. CalmList(EnsureRoute(r, rows))
  <2>. DEFINE new == {<<"route", r, "active">>, <<"sort", r, 0>>}
  <2>1. Loose(new) /\ Loose({})
    BY DEF Loose
  <2>. HIDE DEF new
  <2>2. Calm([Write({}, new) EXCEPT !.clash = StatusOf("route", r)]) /\ Calm(Show(r, {Public}))
    BY <2>1, WriteCalm, CalmSteps
  <2>. QED
    BY <2>2, CalmOfTwo, CalmWhen DEF EnsureRoute, new
<1>5. CalmList(EnsureRouteDefault(rows))
  <2>. DEFINE D == {q \in Route : <<"default", q, TRUE>> \in rows}
              more == {q \in D : \E o \in D : o < q}
              s == SetToSeq(more)
              deletes == [i \in DOMAIN s |-> Delete(Default({s[i]}))]
  <2>1. IsFiniteSet(more)
    BY SiteIdsAssumption, FS_Subset
  <2>2. EnsureRouteDefault(rows) = deletes
    BY DEF EnsureRouteDefault, Each
  <2>3. \A R : Calm(Delete(Default(R)))
    BY LooseRows, CalmSteps
  <2>. HIDE DEF more, s
  <2>4. \A i \in DOMAIN deletes : Calm(deletes[i])
    BY <2>3
  <2>5. CalmList(deletes)
    BY <2>1, <2>4, CalmEach DEF s
  <2>. QED
    BY <2>2, <2>5
<1>6. CalmList(EnsureDefaultRoute) /\ CalmList(Activate)
  <2>. DEFINE first == Calls(BuiltInRoute, "ensureRoute")
              second == <<Call(<<"ensureRouteDefault">>), Overlook(K)>>
  <2>1. CalmList(first)
    <3>1. IsFiniteSet(BuiltInRoute)
      BY SiteIdsAssumption, SiteSeedsAssumption, FS_Subset
    <3>. QED
      BY <1>0, <3>1, CallsCalm
  <2>2. CalmList(second)
    BY <1>0, CalmSteps, CalmOfTwo
  <2>3. EnsureDefaultRoute = first \o second
    BY DEF EnsureDefaultRoute, Each, Calls
  <2>4. CalmList(<<Forget(Key)>>)
    BY CalmSteps, CalmOf
  <2>. HIDE DEF first, second
  <2>. QED
    BY <2>1, <2>2, <2>3, <2>4, CalmConcat DEF Activate
<1>. QED
  BY <1>1, <1>2, <1>3, <1>4, <1>5, <1>6

LEMMA RouteApplyCalm ==
  ASSUME NEW R, NEW rows
  PROVE  CalmList(RouteApply(R, rows))
<1>. DEFINE new == {r \in R : ~Exists(r, "route", rows)}
            next == Max0({n \in Sorts : \E q \in Route : <<"sort", q, n>> \in rows})
            bare == {r \in R : Sees(r) \cap rows = {}}
            sort(r) == next + Cardinality({q \in new : q < r})
            add == {<<"route", r, "active">> : r \in new} \cup {<<"sort", r, sort(r)>> : r \in new}
                   \cup {<<"sees", r, Public>> : r \in bare}
<1>1. RouteApply(R, rows) \in {<<Return>>, <<Write({}, add)>> \o InvalidateRoutes}
  BY DEF RouteApply
<1>2. \A x \in add : x[1] \in {"route", "sort", "sees"}
  <2>. HIDE DEF sort
  <2>. QED
    OBVIOUS
<1>. HIDE DEF add
<1>3. Calm(Write({}, add))
  BY <1>2, WriteCalm DEF Loose
<1>. QED
  BY <1>1, <1>3, CalmSteps, CalmOf, InvalidatesCalm, CalmConcat

LEMMA BlocksCalm ==
  ASSUME NEW b, NEW rows
  PROVE  /\ \A S \in SUBSET Space : \A s, G : CalmList(BlockForm(b, s, S, G, rows))
         /\ CalmList(BlockDelete(b))
         /\ CalmList(Toggle("block", b, StatusOf("block", b), rows) \o <<InvalidateBlocks>>)
         /\ \A s, d : CalmList(BlockReorder(b, s, d, rows))
         /\ CalmList(EnsureAdminDashboardBlocks(rows))
         /\ \A s : CalmList(Place(b, s, rows))
         /\ CalmList(SeedWidget(b))
         /\ \A S \in SUBSET Space : CalmList(ReplaceBlockSpaces(b, S, rows))
<1>0. /\ Loose(StatusOf("block", b)) /\ CalmList(<<Return>>)
      /\ \A K : Calm(Forget(K)) /\ CalmList(<<Forget(K)>>)
      /\ \A s, U : Calm(Insert(<<"block", b, s>>, U))
      /\ \A s, n, U : Calm(Insert(<<"in", b, s, n>>, U))
  BY LooseRows, CalmSteps, CalmOf
<1>1. ASSUME NEW s, NEW S \in SUBSET Space, NEW G
      PROVE  CalmList(BlockForm(b, s, S, G, rows))
  <2>. DEFINE row == {<<"block", b, s>>} \cup SeenBy(b, rows)
              save == Write(StatusOf("block", b), row)
              spaces == Call(<<"replaceSpaces", b, S>>)
              first == <<save, spaces>>
              second == ReplaceFormGroups(b, G)
  <2>1. BlockForm(b, s, S, G, rows) \in {<<Return>>, first \o second \o <<Forget(Spaces)>>}
    BY DEF BlockForm, InvalidateBlocks
  <2>2. CalmOp(<<"replaceSpaces", b, S>>)
    BY DEF CalmOp
  <2>5. Loose(row)
    BY ColumnsAre DEF Loose, SeenBy
  <2>. HIDE DEF row
  <2>3. Calm(save) /\ Calm(spaces) /\ CalmList(second)
    BY <1>0, <2>2, <2>5, WriteCalm, CalmSteps, GroupsCalm
  <2>. HIDE DEF save, spaces
  <2>4. CalmList(first)
    BY <2>3, CalmOfTwo
  <2>. HIDE DEF first, second
  <2>. QED
    BY <1>0, <2>1, <2>3, <2>4, CalmConcat
<1>2. CalmList(BlockDelete(b))
  <2>. DEFINE x == Delete(UNION {Placed(b, s) : s \in Space})
              y == Delete(Sees(b))
              z == Expunge(b, StatusOf("block", b))
  <2>1. BlockDelete(b) = <<x, y, z, Forget(Spaces)>> /\ <<x, y, z, Forget(Spaces)>> = <<x, y, z>> \o <<Forget(Spaces)>>
    BY DEF BlockDelete, InvalidateBlocks
  <2>2. Calm(x) /\ Calm(y) /\ Calm(z)
    BY <1>0, LooseRows, CalmSteps
  <2>. HIDE DEF x, y, z
  <2>. QED
    BY <1>0, <2>1, <2>2, CalmOfThree, CalmConcat
<1>3. CalmList(Toggle("block", b, StatusOf("block", b), rows) \o <<InvalidateBlocks>>)
  BY <1>0, ToggleCalm DEF InvalidateBlocks
<1>4. ASSUME NEW s, NEW d
      PROVE  CalmList(BlockReorder(b, s, d, rows))
  <2>. DEFINE place == PlaceAnew(InSpace(s, rows), b, d, SpaceSorts(s, rows), s)
  <2>1. BlockReorder(b, s, d, rows) \in {<<Return>>, place \o <<Forget(Spaces)>>}
    BY DEF BlockReorder, InvalidateBlocks, PlaceAnew
  <2>2. DOMAIN SpaceSorts(s, rows) \subseteq Block
    BY DEF SpaceSorts
  <2>3. IsFiniteSet(DOMAIN SpaceSorts(s, rows))
    BY <2>2, SiteIdsAssumption, FS_Subset
  <2>4. CalmList(place)
    BY <2>3, PlaceCalm DEF InSpace
  <2>. HIDE DEF place
  <2>. QED
    BY <1>0, <2>1, <2>4, CalmConcat
<1>5. CalmList(EnsureAdminDashboardBlocks(rows))
  <2>. DEFINE missing == {c \in DOMAIN Widget : ~Exists(c, "block", rows)}
              calls == Calls(missing, "seedWidget")
              last == When(missing # {}, <<Forget(Spaces)>>)
  <2>1. EnsureAdminDashboardBlocks(rows) = calls \o last
    BY DEF EnsureAdminDashboardBlocks, InvalidateBlocks, Each, Calls
  <2>2. missing \subseteq Block
    BY SiteSeedsAssumption
  <2>3. IsFiniteSet(missing)
    BY <2>2, SiteIdsAssumption, FS_Subset
  <2>. HIDE DEF missing
  <2>4. \A c : CalmOp(<<"seedWidget", c>>)
    BY DEF CalmOp
  <2>5. CalmList(calls) /\ CalmList(last)
    BY <1>0, <2>3, <2>4, CallsCalm, CalmWhen
  <2>. HIDE DEF calls, last
  <2>. QED
    BY <2>1, <2>5, CalmConcat
<1>6. \A s : CalmList(Place(b, s, rows))
  BY <1>0, CalmOf DEF Place
<1>7. CalmList(SeedWidget(b))
  <2>1. Calm(Show(b, {Public}))
    BY CalmSteps
  <2>. QED
    BY <1>0, <2>1, CalmOfThree DEF SeedWidget
<1>8. ASSUME NEW S \in SUBSET Space
      PROVE  CalmList(ReplaceBlockSpaces(b, S, rows))
  <2>. DEFINE new == S \ Member(b, rows)
              old == Member(b, rows) \ S
              p == SetToSeq(new)
              q == SetToSeq(old)
              joins == [i \in DOMAIN p |-> Call(<<"place", b, p[i]>>)]
              leaves == [i \in DOMAIN q |-> Delete(Placed(b, q[i]))]
  <2>1. ReplaceBlockSpaces(b, S, rows) = joins \o leaves
    BY DEF ReplaceBlockSpaces, Each
  <2>2. IsFiniteSet(new) /\ IsFiniteSet(old)
    <3>1. Member(b, rows) \subseteq Space
      BY DEF Member
    <3>. QED
      BY <3>1, SiteIdsAssumption, FS_Subset
  <2>3. \A s : Calm(Call(<<"place", b, s>>))
    <3>1. \A s : CalmOp(<<"place", b, s>>)
      BY DEF CalmOp
    <3>. QED
      BY <3>1, CalmSteps
  <2>4. \A s : Calm(Delete(Placed(b, s)))
    BY LooseRows, CalmSteps
  <2>. HIDE DEF p, q, new, old
  <2>5. (\A i \in DOMAIN joins : Calm(joins[i])) /\ (\A i \in DOMAIN leaves : Calm(leaves[i]))
    BY <2>3, <2>4
  <2>6. CalmList(joins) /\ CalmList(leaves)
    BY <2>2, <2>5, CalmEach DEF p, q
  <2>. HIDE DEF joins, leaves
  <2>. QED
    BY <2>1, <2>6, CalmConcat
<1>. QED
  BY <1>1, <1>2, <1>3, <1>4, <1>5, <1>6, <1>7, <1>8

LEMMA MenusCalm ==
  ASSUME NEW m, NEW rows
  PROVE  /\ CalmList(Toggle("menu", m, StatusOf("menu", m), rows) \o <<InvalidateMenus>>)
         /\ \A i, d : CalmList(MenuItemReorder(i, d, rows))
         /\ \A r, i : CalmList(CopyGroups(r, i, rows))
         /\ \A g : CalmList(GroupToggle(g, rows))
<1>1. CalmList(Toggle("menu", m, StatusOf("menu", m), rows) \o <<InvalidateMenus>>)
  BY LooseRows, ToggleCalm DEF InvalidateMenus
<1>2. ASSUME NEW i, NEW d
      PROVE  CalmList(MenuItemReorder(i, d, rows))
  <2>. DEFINE n == CHOOSE o \in Menu : <<"of", i, o>> \in rows
              S == {j \in ItemsOf(n, rows) : ParentOf(j, rows) = ParentOf(i, rows)}
  <2>1. IsFiniteSet(S)
    <3>1. S \subseteq Item
      BY DEF ItemsOf
    <3>. QED
      BY <3>1, SiteIdsAssumption, FS_Subset
  <2>2. Siblings(i, rows) = Ordered(S, SortsNow(rows))
    BY DEF Siblings
  <2>. HIDE DEF S
  <2>3. CalmList(Renumber(Siblings(i, rows), i, d, SortsNow(rows), Number))
    BY <2>1, <2>2, NumberCalm
  <2>4. CalmList(<<InvalidateMenus>>)
    BY CalmSteps, CalmOf DEF InvalidateMenus
  <2>. QED
    BY <2>3, <2>4, CalmConcat, CalmWhen DEF MenuItemReorder
<1>3. \A r, i : CalmList(CopyGroups(r, i, rows))
  BY GroupsCalm, CalmWhen DEF CopyGroups
<1>4. \A g : CalmList(GroupToggle(g, rows))
  BY LooseRows, ToggleCalm DEF GroupToggle
<1>. QED
  BY <1>1, <1>2, <1>3, <1>4

\* What is posted with the requests that are about items.
LEMMA EditRequestIs ==
  ASSUME NEW op \in Request
  PROVE  /\ op[1] = "routeForm" => op[6] \in Menu \cup {None} /\ op[7] \in Item \cup {None}
         /\ op[1] = "itemForm" => op[2] \in Item /\ op[3] \in Menu /\ op[4] \in Item \cup {None} /\ op[6] \in Status
         /\ op[1] \in {"menuForm", "menuDelete"} => op[2] \in Menu
<1>. DEFINE A == {"routeForm"} \X Route \X Status \X BOOLEAN \X (SUBSET Group) \X (Menu \cup {None}) \X (Item \cup {None})
            B == ({"routeDelete", "routeToggle"} \X Route) \cup ({"routeMove"} \X Route \X {-1, 1})
            C == {"routeApply"} \X (SUBSET Route)
            D == {"menuForm"} \X Menu \X Status
            J == {"menuDelete", "menuToggle"} \X Menu
            E == {"itemForm"} \X Item \X Menu \X (Item \cup {None}) \X (Route \cup {None}) \X Status \X (SUBSET Group)
            F == ({"itemDelete", "itemToggle"} \X Item) \cup ({"itemMove"} \X Item \X {-1, 1})
            G == {"blockForm"} \X Block \X Status \X (SUBSET Space) \X (SUBSET Group)
            H == ({"blockDelete", "blockToggle"} \X Block) \cup ({"blockMove"} \X Block \X Space \X {-1, 1})
            I == ({"groupToggle"} \X Group) \cup {<<"ensureDefaultRoute">>, <<"dashboard">>, <<"activate">>}
            L == {"routeForm", "itemForm", "menuForm", "menuDelete"}
<1>1. op \in A \cup B \cup C \cup D \cup J \cup E \cup F \cup G \cup H \cup I
  BY DEF Request
<1>2. CASE op \in A
  <2>1. op[1] = "routeForm" /\ op[6] \in Menu \cup {None} /\ op[7] \in Item \cup {None}
    BY <1>2
  <2>. QED
    BY <2>1
<1>3. CASE op \in E
  <2>1. op[1] = "itemForm" /\ op[2] \in Item /\ op[3] \in Menu /\ op[4] \in Item \cup {None} /\ op[6] \in Status
    BY <1>3
  <2>. QED
    BY <2>1
<1>4. CASE op \in J
  <2>1. op[1] \in {"menuDelete", "menuToggle"} /\ op[2] \in Menu
    BY <1>4
  <2>. QED
    BY <2>1
<1>5. CASE op \in B
  <2>1. op[1] \notin L
    BY <1>5
  <2>. QED
    BY <2>1
<1>6. CASE op \in C
  BY <1>6
<1>7. CASE op \in D
  <2>1. op[1] = "menuForm" /\ op[2] \in Menu
    BY <1>7
  <2>. QED
    BY <2>1
<1>8. CASE op \in F
  <2>1. op[1] \notin L
    BY <1>8
  <2>. QED
    BY <2>1
<1>9. CASE op \in G
  <2>1. op[1] \notin L
    BY <1>9
  <2>. QED
    BY <2>1
<1>10. CASE op \in H
  <2>1. op[1] \notin L
    BY <1>10
  <2>. QED
    BY <2>1
<1>11. CASE op \in I
  <2>1. op[1] \notin L
    BY <1>11
  <2>. QED
    BY <2>1
<1>. QED
  BY <1>1, <1>2, <1>3, <1>4, <1>5, <1>6, <1>7, <1>8, <1>9, <1>10, <1>11

\* A handler of calm requests, and a calm part of one.
LEMMA CalmPlan ==
  ASSUME NEW op, CalmOp(op), NEW rows, NEW c
  PROVE  CalmList(Plan(op, rows, c))
<1>1. CASE op[1] = "copyGroups"
  BY <1>1, MenusCalm DEF Plan
<1>2. CASE op[1] = "routeReorder"
  BY <1>2, RoutesCalm DEF Plan
<1>3. CASE op[1] = "ensureRoute"
  BY <1>3, RoutesCalm DEF Plan
<1>4. CASE op[1] = "ensureRouteDefault"
  BY <1>4, RoutesCalm DEF Plan
<1>5. CASE op[1] = "place"
  BY <1>5, BlocksCalm DEF Plan
<1>6. CASE op[1] = "seedWidget"
  BY <1>6, BlocksCalm DEF Plan
<1>7. CASE op[1] = "replaceSpaces" /\ op[3] \in SUBSET Space
  <2>1. CalmList(ReplaceBlockSpaces(op[2], op[3], rows))
    BY <1>7, BlocksCalm
  <2>. QED
    BY <1>7, <2>1 DEF Plan
<1>8. CASE op \in Request /\ ~EditsItems(op)
  <2>1. CASE op[1] = "routeForm"
    <3>1. op[6] = None /\ op[7] \in Item \cup {None}
      BY <1>8, <2>1, EditRequestIs DEF EditsItems
    <3>2. CalmList(RouteForm(op[2], op[3], op[4], op[5], op[6], op[7], rows))
      BY <3>1, RouteFormEdits
    <3>. QED
      BY <2>1, <3>2 DEF Plan
  <2>2. CASE op[1] = "routeDelete"
    BY <2>2, RoutesCalm DEF Plan
  <2>3. CASE op[1] = "routeToggle"
    BY <2>3, RoutesCalm DEF Plan
  <2>4. CASE op[1] = "routeMove"
    BY <2>4, RoutesCalm DEF Plan
  <2>5. CASE op[1] = "routeApply"
    BY <2>5, RouteApplyCalm DEF Plan
  <2>6. CASE op[1] = "ensureDefaultRoute"
    BY <2>6, RoutesCalm DEF Plan
  <2>7. CASE op[1] = "activate"
    BY <2>7, RoutesCalm DEF Plan
  <2>9. CASE op[1] = "menuToggle"
    BY <2>9, MenusCalm DEF Plan
  <2>10. CASE op[1] = "itemMove"
    BY <2>10, MenusCalm DEF Plan
  <2>11. CASE op[1] = "blockForm"
    <3>1. CalmList(BlockForm(op[2], op[3], op[4], op[5], rows))
      BY <1>8, <2>11, RequestIs, BlocksCalm
    <3>. QED
      BY <2>11, <3>1 DEF Plan
  <2>12. CASE op[1] = "blockDelete"
    BY <2>12, BlocksCalm DEF Plan
  <2>13. CASE op[1] = "blockToggle"
    BY <2>13, BlocksCalm DEF Plan
  <2>14. CASE op[1] = "blockMove"
    BY <2>14, BlocksCalm DEF Plan
  <2>15. CASE op[1] = "dashboard"
    BY <2>15, BlocksCalm DEF Plan
  <2>16. CASE op[1] = "groupToggle"
    BY <2>16, MenusCalm DEF Plan
  <2>17. op[1] \in Simple \cup {"routeForm", "routeApply", "itemForm", "blockForm"}
    BY <1>8, RequestIs
  <2>8. op[1] \notin {"itemForm", "itemDelete", "itemToggle", "menuForm", "menuDelete"}
    BY <1>8 DEF EditsItems
  <2>. QED
    BY <2>1, <2>2, <2>3, <2>4, <2>5, <2>6, <2>7, <2>8, <2>9, <2>10, <2>11, <2>12, <2>13, <2>14, <2>15, <2>16, <2>17
       DEF Simple
<1>. QED
  BY <1>1, <1>2, <1>3, <1>4, <1>5, <1>6, <1>7, <1>8 DEF CalmOp

----------------------------------------------------------------------------
\* Handlers that are about items

LEMMA PendingOfTwo ==
  ASSUME NEW a, NEW b, NEW rows, Hot(a, rows), Calm(b)
  PROVE  Pending(<<a, b>>, rows)
<1>. DEFINE l == <<a, b>>
<1>1. l \in Seq({a, b}) /\ DOMAIN l = {1, 2} /\ l[1] = a /\ l[2] = b
  OBVIOUS
<1>. HIDE DEF l
<1>2. CalmBut({1}, l)
  BY <1>1 DEF CalmBut
<1>3. Pending(l, rows)
  BY <1>1, <1>2 DEF Pending
<1>. QED
  BY <1>3 DEF l

LEMMA PendingFirst ==
  ASSUME NEW a, NEW l, NEW rows, Hot(a, rows), CalmList(l)
  PROVE  Pending(<<a>> \o l, rows)
BY PendingOf, PendingBetween

\* A form of an item keeps the parent the item has.
LEMMA ItemFormEdits ==
  ASSUME NEW rows, MenusSound(rows), NEW i \in Item, NEW m \in Menu, NEW p \in Item \cup {None}, NEW r, NEW s \in Status, NEW G
  PROVE  Edits(MenuItemForm(i, m, p, r, s, G, rows), rows)
<1>. DEFINE menu == IF Exists(i, "item", rows) THEN CHOOSE n \in Menu : <<"of", i, n>> \in rows ELSE m
            P == {q \in Item : <<"parent", i, q>> \in rows /\ Exists(q, "item", rows)}
            R == {q \in Route : <<"goes", i, q>> \in rows /\ Exists(q, "route", rows)}
            parent == IF P = {} THEN p ELSE CHOOSE q \in P : TRUE
            route == IF R = {} THEN r ELSE CHOOSE q \in R : TRUE
            links == SeenBy(i, rows)
            old == Loaded(P, R, rows)
            n == SortOr0(i, rows)
            op == <<"saveItem", i, menu, parent, route, s, n, links, old>>
            save == Where(op)
            second == ReplaceFormGroups(i, G)
            last == <<InvalidateMenus, Overlook({Routes})>>
            form == <<save>> \o second \o last
<1>1. \/ MenuItemForm(i, m, p, r, s, G, rows) = <<Return>>
      \/ ValidateMenuItemParent(i, menu, p, rows) /\ MenuItemForm(i, m, p, r, s, G, rows) = form
  BY DEF MenuItemForm
<1>2. menu \in Menu /\ (Exists(i, "item", rows) => <<"of", i, menu>> \in rows)
  BY DEF MenusSound
<1>3. Loose(links)
  BY ColumnsAre DEF SeenBy, Loose
<1>4. Backed(old, rows)
  <2>1. P \in SUBSET Item /\ \A q \in P : Exists(q, "item", rows)
    OBVIOUS
  <2>. HIDE DEF P, R
  <2>. QED
    BY <2>1, LoadedBacked
<1>5. parent \in Item \cup {None} /\ (parent = p \/ (parent \in Item /\ <<"parent", i, parent>> \in rows))
  <2>1. P # {} => (CHOOSE q \in P : TRUE) \in P
    OBVIOUS
  <2>. QED
    BY <2>1
<1>. HIDE DEF menu, P, R, parent, route, links, old, n
<1>6. ValidateMenuItemParent(i, menu, p, rows) => KeepsWhere(op, rows)
  <2>. SUFFICES ASSUME ValidateMenuItemParent(i, menu, p, rows) PROVE KeepsWhere(op, rows)
    OBVIOUS
  <2>1. ValidateMenuItemParent(i, menu, parent, rows) \/ (parent \in Item /\ <<"parent", i, parent>> \in rows)
    BY <1>5
  <2>. QED
    BY <1>2, <1>3, <1>4, <1>5, <2>1, SaveItemHot
<1>. HIDE DEF op
<1>7. KeepsWhere(op, rows) => Hot(save, rows)
  BY DEF Hot, Where
<1>8. CalmList(second) /\ CalmList(last) /\ CalmList(<<Return>>)
  BY GroupsCalm, InvalidatesCalm, CalmSteps, CalmOf
<1>. HIDE DEF save, second, last
<1>9. Hot(save, rows) => Pending(form, rows)
  BY <1>8, PendingFirst, PendingBetween
<1>. QED
  BY <1>1, <1>6, <1>7, <1>8, <1>9 DEF Edits

LEMMA MenuFormEdits ==
  ASSUME NEW rows, MenusSound(rows), NEW m \in Menu, NEW s
  PROVE  Edits(MenuForm(m, s, rows), rows)
<1>. DEFINE I == IF Exists(m, "menu", rows) THEN ItemsOf(m, rows) ELSE {}
            R == {r \in Route : \E i \in I : <<"goes", i, r>> \in rows}
            old == Loaded(I, R, rows)
            op == <<"saveMenu", m, s, I, old>>
            save == Where(op)
            last == <<InvalidateMenus, Overlook({Routes})>>
<1>1. MenuForm(m, s, rows) = <<save, InvalidateMenus, Overlook({Routes})>>
  BY DEF MenuForm
<1>2. \A a, b, c : <<a, b, c>> = <<a>> \o <<b, c>>
  OBVIOUS
<1>3. I \in SUBSET Item /\ \A i \in I : Exists(i, "item", rows) /\ <<"of", i, m>> \in rows
  BY DEF ItemsOf
<1>. HIDE DEF I, R
<1>4. Backed(old, rows)
  BY <1>3, LoadedBacked
<1>. HIDE DEF old
<1>5. KeepsWhere(op, rows)
  BY <1>3, <1>4, SaveMenuHot
<1>. HIDE DEF op
<1>6. Hot(save, rows)
  BY <1>5 DEF Hot, Where
<1>. HIDE DEF save
<1>. QED
  BY <1>1, <1>2, <1>6, InvalidatesCalm, PendingFirst DEF Edits

LEMMA AddEdits ==
  ASSUME NEW rows, MenusSound(rows), NEW r, NEW m \in Menu, NEW p \in Item \cup {None}
  PROVE  Edits(AddRouteToMenu(r, m, p, rows), rows)
<1>. DEFINE free == {i \in Item : ~Exists(i, "item", rows)}
            siblings == {j \in ItemsOf(m, rows) : ParentOf(j, rows) = p}
            i == CHOOSE i \in free : \A j \in free : i <= j
            n == Max0({SortOr0(j, rows) : j \in siblings})
            w == WriteItem(i, m, p, r, "active", n)
            groups == Call(<<"copyGroups", r, i>>)
            add == <<w, groups>>
<1>1. \/ AddRouteToMenu(r, m, p, rows) \in {<<>>, <<Return>>}
      \/ free # {} /\ ValidateMenuItemParent(i, m, p, rows) /\ AddRouteToMenu(r, m, p, rows) = add
  BY DEF AddRouteToMenu
<1>2. free # {} => i \in Item /\ ~Exists(i, "item", rows)
  <2>1. free \subseteq Nat /\ \A j \in free : j \in Item /\ ~Exists(j, "item", rows)
    BY SiteIdsAssumption
  <2>. HIDE DEF free
  <2>. QED
    BY <2>1, LeastIs
<1>3. "active" \in Status
  BY DEF Status
<1>4. Calm(groups)
  <2>1. CalmOp(<<"copyGroups", r, i>>)
    BY DEF CalmOp
  <2>. QED
    BY <2>1, CalmSteps
<1>. HIDE DEF free, siblings, i, n
<1>5. free # {} /\ ValidateMenuItemParent(i, m, p, rows) => Keeps(w, rows)
  BY <1>2, <1>3, WriteItemHot
<1>. HIDE DEF w, groups
<1>6. Keeps(w, rows) => Pending(add, rows)
  BY <1>4, PendingOfTwo DEF Hot
<1>. HIDE DEF add
<1>7. CalmList(<<>>) /\ CalmList(<<Return>>)
  BY CalmEmpty, CalmSteps, CalmOf
<1>. QED
  BY <1>1, <1>5, <1>6, <1>7 DEF Edits

LEMMA ItemDeleteEdits ==
  ASSUME NEW rows, NEW i \in Item
  PROVE  Edits(MenuItemDelete(i, rows), rows)
<1>. DEFINE a == Where(<<"reparent", i, ParentOf(i, rows)>>)
            b == Delete(Sees(i))
            c == Expunge(i, ItemColumns(i))
            d == Forget(Menus)
            l == <<a, b, c, d>>
<1>1. MenuItemDelete(i, rows) = When(Exists(i, "item", rows), l)
  BY DEF MenuItemDelete, InvalidateMenus
<1>2. Calm(b) /\ Calm(d)
  BY LooseRows, CalmSteps
<1>. HIDE DEF a, b, c, d
<1>3. l \in Seq({a, b, c, d}) /\ DOMAIN l = {1, 2, 3, 4} /\ l[1] = a /\ l[2] = b /\ l[3] = c /\ l[4] = d
  OBVIOUS
<1>. HIDE DEF l
<1>4. CalmBut({1, 3}, l)
  BY <1>2, <1>3 DEF CalmBut
<1>5. l[3] = Expunge(i, ItemColumns(i)) /\ l[1] = Where(<<"reparent", i, ParentOf(i, rows)>>) /\ 3 \in DOMAIN l /\ 3 > 1
  BY <1>3 DEF a, c
<1>6. Emptying(l, rows)
  BY <1>4, <1>5 DEF Emptying
<1>. QED
  BY <1>1, <1>6, CalmEmpty DEF Edits, When

LEMMA ItemToggleEdits ==
  ASSUME NEW rows, NEW i \in Item
  PROVE  Edits(Toggle("item", i, ItemColumns(i), rows) \o <<InvalidateMenus>>, rows)
<1>. DEFINE w == Write(ItemColumns(i), ((ItemColumns(i) \cap rows) \ StatusOf("item", i)) \cup {Flip("item", i, rows)})
<1>1. Toggle("item", i, ItemColumns(i), rows) = When(Exists(i, "item", rows), <<w>>)
  BY DEF Toggle
<1>2. CalmList(<<InvalidateMenus>>)
  BY CalmSteps, CalmOf DEF InvalidateMenus
<1>3. Exists(i, "item", rows) => Hot(w, rows)
  BY ToggleHot DEF Hot
<1>. HIDE DEF w
<1>4. Edits(Toggle("item", i, ItemColumns(i), rows), rows)
  BY <1>1, <1>3, PendingOf, CalmEmpty DEF Edits, When
<1>. QED
  BY <1>2, <1>4, EditsThen

LEMMA MenuDeleteEdits ==
  ASSUME NEW rows, NEW m \in Menu
  PROVE  Edits(MenuDelete(m), rows)
<1>. DEFINE a == Where(<<"deleteItemsOf", m>>)
            b == Delete(StatusOf("menu", m))
            c == InvalidateMenus
<1>1. Hot(a, rows)
  <2>. DEFINE op == <<"deleteItemsOf", m>>
  <2>1. op[1] = "deleteItemsOf" /\ op[2] \in Menu /\ op[1] # "reparent"
    OBVIOUS
  <2>. HIDE DEF op
  <2>2. KeepsWhere(op, rows)
    BY <2>1, MenuGone DEF KeepsWhere
  <2>. QED
    BY <2>2 DEF Hot, Where, op
<1>2. Calm(b) /\ Calm(c)
  BY LooseRows, CalmSteps DEF InvalidateMenus
<1>3. MenuDelete(m) = <<a, b, c>>
  BY DEF MenuDelete
<1>. HIDE DEF a, b, c
<1>4. <<a, b, c>> = <<a>> \o <<b, c>>
  OBVIOUS
<1>. QED
  BY <1>1, <1>2, <1>3, <1>4, CalmOfTwo, PendingFirst DEF Edits

LEMMA EditPlan ==
  ASSUME NEW op, EditOp(op), NEW rows, MenusSound(rows), NEW c
  PROVE  Edits(Plan(op, rows, c), rows)
<1>1. CASE op[1] = "addRouteToMenu" /\ op[3] \in Menu /\ op[4] \in Item \cup {None}
  <2>1. Edits(AddRouteToMenu(op[2], op[3], op[4], rows), rows)
    BY <1>1, AddEdits
  <2>. QED
    BY <1>1, <2>1 DEF Plan
<1>2. CASE op \in Request /\ EditsItems(op)
  <2>1. CASE op[1] = "itemForm"
    <3>1. Edits(MenuItemForm(op[2], op[3], op[4], op[5], op[6], op[7], rows), rows)
      BY <1>2, <2>1, EditRequestIs, ItemFormEdits
    <3>. QED
      BY <2>1, <3>1 DEF Plan
  <2>2. CASE op[1] = "itemDelete"
    <3>1. Edits(MenuItemDelete(op[2], rows), rows)
      BY <1>2, <2>2, RequestIs, ItemDeleteEdits
    <3>. QED
      BY <2>2, <3>1 DEF Plan
  <2>3. CASE op[1] = "itemToggle"
    <3>1. Edits(Toggle("item", op[2], ItemColumns(op[2]), rows) \o <<InvalidateMenus>>, rows)
      BY <1>2, <2>3, RequestIs, ItemToggleEdits
    <3>. QED
      BY <2>3, <3>1 DEF Plan
  <2>4. CASE op[1] = "menuDelete"
    <3>1. Edits(MenuDelete(op[2]), rows)
      BY <1>2, <2>4, EditRequestIs, MenuDeleteEdits
    <3>. QED
      BY <2>4, <3>1 DEF Plan
  <2>6. CASE op[1] = "menuForm"
    <3>1. Edits(MenuForm(op[2], op[3], rows), rows)
      BY <1>2, <2>6, EditRequestIs, MenuFormEdits
    <3>. QED
      BY <2>6, <3>1 DEF Plan
  <2>5. CASE op[1] = "routeForm"
    <3>1. op[6] \in Menu \cup {None} /\ op[7] \in Item \cup {None}
      BY <1>2, <2>5, EditRequestIs
    <3>2. Edits(RouteForm(op[2], op[3], op[4], op[5], op[6], op[7], rows), rows)
      BY <3>1, RouteFormEdits
    <3>. QED
      BY <2>5, <3>2 DEF Plan
  <2>. QED
    BY <1>2, <2>1, <2>2, <2>3, <2>4, <2>5, <2>6 DEF EditsItems
<1>. QED
  BY <1>1, <1>2 DEF EditOp

----------------------------------------------------------------------------
\* The invariant: the menus are sound, and only one goroutine is about to change where items are

Orderly(one, w, l, rows) == CalmList(l) \/ (w = one /\ Edits(l, rows))
MenuInv(one) == MenusSound(db) /\ \A w \in Worker : Orderly(one, w, worker[w].todo, db)

LEMMA OrderlySame ==
  ASSUME NEW one, NEW w, NEW l, NEW rows, NEW new, Same(rows, new), Orderly(one, w, l, rows)
  PROVE  Orderly(one, w, l, new)
BY EditsSame DEF Orderly

LEMMA MenuInit ==
  ASSUME MenusSoundAtStart, NEW one, Server!Init
  PROVE  MenuInv(one)
<1>1. \A w \in Worker : worker[w].todo = <<>>
  BY DEF Server!Init, Server!Idle
<1>2. MenusSound(db)
  BY DEF Server!Init, MenusSoundAtStart
<1>. QED
  BY <1>1, <1>2, CalmEmpty DEF MenuInv, Orderly

\* What a request does next: a calm step, the one that is about items, or the first of two.
LEMMA NextIs ==
  ASSUME NEW one, NEW w, NEW l, NEW rows, l # <<>>, Orderly(one, w, l, rows)
  PROVE  \/ Calm(Head(l)) /\ (CalmList(Tail(l)) \/ (w = one /\ Pending(Tail(l), rows)))
         \/ w = one /\ Hot(Head(l), rows) /\ CalmList(Tail(l))
         \/ w = one /\ Emptying(l, rows)
<1>1. CASE CalmList(l)
  BY <1>1, CalmTail
<1>2. CASE w = one /\ Pending(l, rows)
  BY <1>2, PendingTail
<1>. QED
  BY <1>1, <1>2 DEF Orderly, Edits

\* What sort of step is not calm.
LEMMA HotSorts ==
  ASSUME NEW l, NEW rows
  PROVE  /\ Hot(Head(l), rows) => Head(l).do \in {"call", "statement", "where"}
         /\ Emptying(l, rows) => Head(l).do = "where" /\ Head(l).op[1] = "reparent"
<1>1. Hot(Head(l), rows) => Head(l).do \in {"call", "statement", "where"}
  BY DEF Hot, Keeps
<1>2. ASSUME Emptying(l, rows)
      PROVE  Head(l).do = "where" /\ Head(l).op[1] = "reparent"
  <2>1. PICK i \in Item : Head(l) = Where(<<"reparent", i, ParentOf(i, rows)>>)
    BY <1>2, EmptyingTail
  <2>2. Head(l).do = "where" /\ Head(l).op = <<"reparent", i, ParentOf(i, rows)>>
    BY <2>1 DEF Where
  <2>. QED
    BY <2>2
<1>. QED
  BY <1>1, <1>2

\* One request goes on; items are changed by none but one goroutine.
LEMMA Others ==
  ASSUME NEW one, MenuInv(one), NEW w \in Worker,
         \A v \in Worker : v # w => worker'[v] = worker[v],
         NEW l, worker'[w].todo = l, Orderly(one, w, l, db'),
         MenusSound(db'), w = one \/ Same(db, db')
  PROVE  MenuInv(one)'
<1>1. ASSUME NEW v \in Worker
      PROVE  Orderly(one, v, worker'[v].todo, db')
  <2>1. CASE v = w
    BY <2>1
  <2>2. CASE v # w
    <3>1. worker'[v].todo = worker[v].todo /\ Orderly(one, v, worker[v].todo, db)
      BY <2>2 DEF MenuInv
    <3>2. CASE Same(db, db')
      BY <3>1, <3>2, OrderlySame
    <3>3. CASE w = one
      BY <2>2, <3>1, <3>3 DEF Orderly
    <3>. QED
      BY <3>2, <3>3
  <2>. QED
    BY <2>1, <2>2
<1>. QED
  BY <1>1 DEF MenuInv, Orderly, Edits, Pending, Emptying, MenusSound, Hot, Keeps

LEMMA GoesOn ==
  ASSUME CacheInv, NEW one, MenuInv(one), NEW w \in Worker, NEW o, NEW l, Underway(w, o, l),
         NEW steps, Server!Instead(w, steps), Orderly(one, w, steps, db'),
         MenusSound(db'), w = one \/ Same(db, db')
  PROVE  MenuInv(one)'
<1>1. /\ \A v \in Worker : v # w => worker'[v] = worker[v]
      /\ worker'[w] = IF steps = <<>> THEN Server!Idle ELSE [op |-> o, todo |-> steps]
  BY InsteadDoes DEF CacheInv, Underway
<1>2. worker'[w].todo = steps
  BY <1>1 DEF Server!Idle
<1>. QED
  BY <1>1, <1>2, Others

\* A request comes, and is about items only for the one goroutine.
LEMMA MenuArrives ==
  ASSUME CacheInv, NEW one, MenuInv(one), NEW w \in Worker, NEW o, NEW l, Orderly(one, w, l, db),
         worker' = [worker EXCEPT ![w] = [op |-> o, todo |-> l]], db' = db
  PROVE  MenuInv(one)'
<1>1. \A v \in Worker : v # w => worker'[v] = worker[v]
  BY DEF CacheInv
<1>2. worker'[w].todo = l
  BY DEF CacheInv
<1>3. MenusSound(db') /\ Same(db, db') /\ Orderly(one, w, l, db')
  BY SameSelf DEF MenuInv
<1>. QED
  BY <1>1, <1>2, <1>3, Others

LEMMA MenuBegin ==
  ASSUME CacheInv, NEW one, OneForItems(one), MenuInv(one), NEW w \in Worker, Server!Begin(w) \/ Server!View(w)
  PROVE  MenuInv(one)'
<1>1. CASE Server!Begin(w)
  <2>1. PICK o \in Does[w] \ Key : worker' = [worker EXCEPT ![w] = [op |-> o, todo |-> <<Call(o)>>]]
    BY <1>1 DEF Server!Begin, Server!Call, Call
  <2>2. db' = db
    BY <1>1 DEF Server!Begin
  <2>3. o \in Request /\ (EditsItems(o) => w = one)
    BY <2>1, SiteDoesAssumption DEF OneForItems
  <2>4. CASE EditsItems(o)
    <3>1. Hot(Call(o), db)
      BY <2>3, <2>4 DEF Hot, EditOp, Call
    <3>2. Orderly(one, w, <<Call(o)>>, db)
      BY <2>3, <2>4, <3>1, PendingOf DEF Orderly, Edits
    <3>. QED
      BY <2>1, <2>2, <3>2, MenuArrives
  <2>5. CASE ~EditsItems(o)
    <3>1. CalmOp(o)
      BY <2>3, <2>5 DEF CalmOp
    <3>2. Orderly(one, w, <<Call(o)>>, db)
      BY <3>1, CalmSteps, CalmOf DEF Orderly
    <3>. QED
      BY <2>1, <2>2, <3>2, MenuArrives
  <2>. QED
    BY <2>4, <2>5
<1>2. CASE Server!View(w)
  <2>1. PICK k \in Key : worker' = [worker EXCEPT ![w] = [op |-> k, todo |-> <<Read(k)>>]]
    BY <1>2 DEF Server!View, Server!Read, Read
  <2>2. db' = db
    BY <1>2 DEF Server!View
  <2>3. Calm(Read(k))
    BY DEF Calm, Read
  <2>4. Orderly(one, w, <<Read(k)>>, db)
    BY <2>3, CalmOf DEF Orderly
  <2>. QED
    BY <2>1, <2>2, <2>4, MenuArrives
<1>. QED
  BY <1>1, <1>2

LEMMA MenuExpand ==
  ASSUME CacheInv, NEW one, MenuInv(one), NEW w \in Worker, Server!Expand(w)
  PROVE  MenuInv(one)'
<1>1. PICK o, l : Underway(w, o, l) /\ Head(l).do = "call"
  BY UnderwayIs DEF Server!Expand
<1>. DEFINE op == Head(l).op
            plan == Plan(op, db, cached)
<1>2. Server!Instead(w, plan \o Tail(l)) /\ db' = db
  BY <1>1 DEF Server!Expand, Server!Now, Server!Later, Underway
<1>3. MenusSound(db) /\ Orderly(one, w, l, db) /\ l # <<>>
  BY <1>1 DEF MenuInv, Underway
<1>. HIDE DEF plan, op
<1>4. ASSUME Calm(Head(l)), CalmList(Tail(l)) \/ (w = one /\ Pending(Tail(l), db))
      PROVE  Orderly(one, w, plan \o Tail(l), db)
  <2>1. CalmOp(op)
    BY <1>1, <1>4 DEF Calm, op
  <2>2. CalmList(plan)
    BY <2>1, CalmPlan DEF plan
  <2>. QED
    BY <1>4, <2>2, CalmConcat, PendingBetween DEF Orderly, Edits
<1>5. ASSUME w = one, Hot(Head(l), db), CalmList(Tail(l))
      PROVE  Orderly(one, w, plan \o Tail(l), db)
  <2>1. EditOp(op)
    BY <1>1, <1>5 DEF Hot, Keeps, op
  <2>2. Edits(plan, db)
    BY <1>3, <2>1, EditPlan DEF plan
  <2>. QED
    BY <1>5, <2>2, EditsThen DEF Orderly
<1>6. Orderly(one, w, plan \o Tail(l), db)
  BY <1>1, <1>3, <1>4, <1>5, NextIs, HotSorts
<1>. QED
  BY <1>1, <1>2, <1>3, <1>6, SameSelf, GoesOn

\* A statement is executed: it says nothing of where an item is, or the menus are sound after it too.
LEMMA MenuExecute ==
  ASSUME CacheInv, NEW one, MenuInv(one), NEW w \in Worker, Server!Execute(w)
  PROVE  MenuInv(one)'
<1>1. PICK o, l : Underway(w, o, l) /\ Head(l).do \in {"statement", "where"}
  BY UnderwayIs DEF Server!Execute, Server!Executing
<1>. DEFINE sql == Server!Sql(w)
<1>2. Server!Instead(w, Tail(l)) /\ db' = Result(sql, db)
  BY <1>1 DEF Server!Execute, Server!Effect, Result, Server!Proceed, Server!Later, Underway
<1>3. sql = IF Head(l).do = "where" THEN Head(Plan(Head(l).op, db, cached)) ELSE Head(l)
  BY <1>1 DEF Server!Sql, Server!At, Server!Now, Server!Busy, Server!Idle, Underway
<1>. HIDE DEF sql
<1>4. MenusSound(db) /\ Orderly(one, w, l, db) /\ l # <<>>
  BY <1>1 DEF MenuInv, Underway
<1>. DEFINE Done == /\ Orderly(one, w, Tail(l), db') /\ MenusSound(db')
                    /\ w = one \/ Same(db, db')
<1>5. ASSUME Calm(Head(l)), CalmList(Tail(l)) \/ (w = one /\ Pending(Tail(l), db))
      PROVE  Done
  <2>1. Head(l).do = "statement" /\ Loose(Head(l).add) /\ Loose(Head(l).drop)
    BY <1>1, <1>5 DEF Calm
  <2>2. Same(db, db')
    BY <1>2, <1>3, <2>1, LooseSame
  <2>3. Orderly(one, w, Tail(l), db)
    BY <1>5 DEF Orderly, Edits
  <2>. QED
    BY <1>4, <2>2, <2>3, SameIs, OrderlySame
<1>6. ASSUME w = one, Hot(Head(l), db), CalmList(Tail(l))
      PROVE  Done
  <2>1. CASE Head(l).do = "statement"
    <3>1. Keeps(Head(l), db)
      BY <1>6, <2>1 DEF Hot
    <3>2. MenusSound(Result(Head(l), db))
      BY <1>4, <3>1, SameSelf DEF Keeps
    <3>. QED
      BY <1>2, <1>3, <1>6, <2>1, <3>2 DEF Orderly
  <2>2. CASE Head(l).do = "where"
    <3>1. KeepsWhere(Head(l).op, db)
      BY <1>6, <2>2 DEF Hot, Keeps
    <3>2. MenusSound(db')
      BY <1>2, <1>3, <1>4, <2>2, <3>1, SameSelf DEF KeepsWhere
    <3>. QED
      BY <1>6, <3>2 DEF Orderly
  <2>. QED
    BY <1>1, <2>1, <2>2
<1>7. ASSUME w = one, Emptying(l, db)
      PROVE  Done
  <2>1. PICK i \in Item, k \in DOMAIN Tail(l) :
          /\ Head(l) = Where(<<"reparent", i, ParentOf(i, db)>>)
          /\ Tail(l)[k] = Expunge(i, ItemColumns(i))
          /\ CalmBut({k}, Tail(l))
    BY <1>7, EmptyingTail
  <2>2. Head(l).do = "where" /\ Head(l).op = <<"reparent", i, ParentOf(i, db)>>
    BY <2>1 DEF Where
  <2>3. sql = Head(Plan(Head(l).op, db, cached))
    BY <1>3, <2>2
  <2>4. MenusSound(db') /\ \A d \in Item : <<"parent", d, i>> \notin db'
    BY <1>2, <1>4, <2>2, <2>3, ChildrenGone
  <2>5. Hot(Tail(l)[k], db')
    BY <2>1, <2>4, ExpungeHot DEF Hot
  <2>6. Pending(Tail(l), db')
    BY <2>1, <2>5 DEF Pending
  <2>. QED
    BY <1>7, <2>4, <2>6 DEF Orderly, Edits
<1>8. Done
  BY <1>4, <1>5, <1>6, <1>7, NextIs
<1>. QED
  BY <1>1, <1>2, <1>8, GoesOn

\* A request that fails is over, unless the handler ignores the failure.
LEMMA MenuFails ==
  ASSUME CacheInv, NEW one, MenuInv(one), NEW w \in Worker, Server!Fail(w) \/ Server!GiveUp(w)
  PROVE  MenuInv(one)'
<1>1. PICK o, l : Underway(w, o, l) /\ Head(l).do \in {"statement", "where", "return"}
  BY UnderwayIs DEF Server!Fail, Server!GiveUp, Server!Executing
<1>2. db' = db
  BY DEF Server!Fail, Server!GiveUp
<1>3. MenusSound(db) /\ Orderly(one, w, l, db) /\ l # <<>>
  BY <1>1 DEF MenuInv, Underway
<1>4. CASE Server!Errs(w)
  <2>1. PICK steps : /\ Server!Instead(w, steps)
                     /\ steps = <<>> \/ \E i \in DOMAIN Tail(l) : Tail(l)[i].do = "catch"
    BY <1>1, <1>4 DEF Server!Errs, Server!Error, Server!Later, Underway
  <2>2. Covered(l) /\ l # <<>>
    BY <1>1, Changes
  <2>3. steps = <<>>
    <3>. SUFFICES ASSUME NEW i \in DOMAIN Tail(l), Tail(l)[i].do = "catch" PROVE FALSE
      BY <2>1
    <3>1. Fit(EndedAfter(Tail(l), i), Tail(l)[i])
      BY <2>2, CoveredTail DEF Covered
    <3>. QED
      BY <3>1, FitSorts
  <2>4. Orderly(one, w, steps, db')
    BY <2>3, CalmEmpty DEF Orderly
  <2>. QED
    BY <1>1, <1>2, <1>3, <2>1, <2>4, SameSelf, GoesOn
<1>5. CASE ~Server!Errs(w)
  <2>. DEFINE sql == Server!Sql(w)
  <2>1. Server!Fail(w) /\ Server!Proceed(w) /\ sql.vital # TRUE
    BY <1>5 DEF Server!Fail, Server!GiveUp
  <2>2. Server!Instead(w, Tail(l))
    BY <1>1, <2>1 DEF Server!Proceed, Server!Later, Underway
  <2>3. sql = IF Head(l).do = "where" THEN Head(Plan(Head(l).op, db, cached)) ELSE Head(l)
    BY <1>1 DEF Server!Sql, Server!At, Server!Now, Server!Busy, Server!Idle, Underway
  <2>. HIDE DEF sql
  <2>4. ~Emptying(l, db)
    <3>. SUFFICES ASSUME Emptying(l, db) PROVE FALSE
      OBVIOUS
    <3>1. PICK i \in Item : Head(l) = Where(<<"reparent", i, ParentOf(i, db)>>)
      BY EmptyingTail
    <3>2. Head(l).do = "where" /\ Head(l).op = <<"reparent", i, ParentOf(i, db)>>
      BY <3>1 DEF Where
    <3>3. sql = Head(Plan(Head(l).op, db, cached))
      BY <2>3, <3>2
    <3>. QED
      BY <1>3, <2>1, <3>2, <3>3, ChildrenGone
  <2>5. Orderly(one, w, Tail(l), db')
    BY <1>2, <1>3, <2>4, NextIs DEF Orderly, Edits
  <2>. QED
    BY <1>1, <1>2, <1>3, <2>2, <2>5, SameSelf, GoesOn
<1>. QED
  BY <1>4, <1>5

\* Looking at the rows, and what is done to the caches.
LEMMA MenuCaches ==
  ASSUME CacheInv, NEW one, MenuInv(one), NEW w \in Worker,
         Server!ReadRows(w) \/ Server!Store(w) \/ Server!Invalidate(w) \/ Server!Omit(w)
  PROVE  MenuInv(one)'
<1>1. PICK o, l : Underway(w, o, l) /\ Head(l).do \in {"read", "fill", "forget", "overlook"}
  BY UnderwayIs DEF Server!ReadRows, Server!Store, Server!Invalidate, Server!Omit
<1>2. db' = db
  BY DEF Server!ReadRows, Server!Store, Server!Invalidate, Server!Omit
<1>3. MenusSound(db) /\ Orderly(one, w, l, db) /\ l # <<>>
  BY <1>1 DEF MenuInv, Underway
<1>4. Orderly(one, w, Tail(l), db)
  <2>1. Calm(Head(l)) /\ (CalmList(Tail(l)) \/ (w = one /\ Pending(Tail(l), db)))
    BY <1>1, <1>3, NextIs, HotSorts
  <2>. QED
    BY <2>1 DEF Orderly, Edits
<1>5. CASE Server!ReadRows(w)
  <2>. DEFINE k == Head(l).key
              fill == Fill(k, Derive(k, db))
  <2>1. Server!Instead(w, <<fill>> \o Tail(l)) /\ Head(l).do = "read"
    BY <1>1, <1>5 DEF Server!ReadRows, Server!Now, Server!Later, Server!Fill, Fill, Server!At, Underway
  <2>2. Tail(l) = <<>>
    BY <1>1, <2>1, Views
  <2>3. Calm(fill)
    BY DEF Calm, Fill
  <2>. HIDE DEF fill
  <2>4. <<fill>> \o <<>> = <<fill>>
    OBVIOUS
  <2>5. Orderly(one, w, <<fill>> \o Tail(l), db')
    BY <2>2, <2>3, <2>4, CalmOf DEF Orderly
  <2>. QED
    BY <1>1, <1>2, <1>3, <2>1, <2>5, SameSelf, GoesOn
<1>6. CASE ~Server!ReadRows(w)
  <2>1. Server!Instead(w, Tail(l))
    BY <1>1, <1>6 DEF Server!Store, Server!Invalidate, Server!Omit, Server!Proceed, Server!Later, Underway
  <2>. QED
    BY <1>1, <1>2, <1>3, <1>4, <2>1, SameSelf, GoesOn
<1>. QED
  BY <1>5, <1>6

LEMMA MenuStep ==
  ASSUME NEW one, OneForItems(one), CacheInv, MenuInv(one), [Server!Next]_(Server!vars)
  PROVE  MenuInv(one)'
<1>1. ASSUME NEW w \in Worker, Server!Begin(w) \/ Server!View(w) \/ Server!Step(w)
      PROVE  MenuInv(one)'
  <2>1. ~Server!Pass(w) /\ ~Server!Look(w)
    <3>. SUFFICES ASSUME Server!Pass(w) \/ Server!Look(w) PROVE FALSE
      OBVIOUS
    <3>1. PICK o, l : Underway(w, o, l) /\ Head(l).do \in {"catch", "resolve"}
      BY UnderwayIs DEF Server!Pass, Server!Look
    <3>. QED
      BY <3>1, Changes, CoveredHead
  <2>. QED
    BY <1>1, <2>1, MenuBegin, MenuExpand, MenuExecute, MenuFails, MenuCaches DEF Server!Step
<1>2. ASSUME worker' = worker, db' = db
      PROVE  MenuInv(one)'
  <2>1. MenusSound(db') /\ \A w \in Worker : Orderly(one, w, worker'[w].todo, db')
    BY <1>2 DEF MenuInv
  <2>. QED
    BY <2>1 DEF MenuInv, Orderly, Edits, Pending, Emptying, MenusSound, Hot, Keeps
<1>3. CASE UNCHANGED Server!vars
  BY <1>2, <1>3 DEF Server!vars
<1>4. ASSUME NEW k \in Key, Server!Evict(k)
      PROVE  MenuInv(one)'
  BY <1>2, <1>4 DEF Server!Evict
<1>. QED
  BY <1>1, <1>3, <1>4 DEF Server!Next

----------------------------------------------------------------------------
\* What a menu shows

\* Forms of items, of menus, and of routes that put one into a menu, toggles and deletions of items and menus
\* that come one after the other, failed ones among them, leave every item a viewer may see in the
\* tree that is rendered, whatever is done to routes, blocks, groups and the order of the items at
\* the same time, where the menus are sound at the start (ValidateMenuItemParent, menuItemForm,
\* menuItemDelete, addRouteToMenu, menuDelete; filterPublicMenuItems, buildMenuTree).
THEOREM MenusShowAll == (\E one \in Worker : OneForItems(one)) /\ MenusSoundAtStart => (Spec => []MenuShowsAll)
<1>. SUFFICES ASSUME \E one \in Worker : OneForItems(one), MenusSoundAtStart PROVE Spec => []MenuShowsAll
  OBVIOUS
<1>1. PICK one \in Worker : OneForItems(one)
  OBVIOUS
<1>2. Server!Init => CacheInv /\ MenuInv(one)
  BY CacheInit, MenuInit
<1>3. CacheInv /\ MenuInv(one) /\ [Server!Next]_(Server!vars) => CacheInv' /\ MenuInv(one)'
  BY <1>1, CacheStep, MenuStep
<1>4. MenuInv(one) => MenuShowsAll
  <2>. SUFFICES ASSUME MenusSound(db), NEW m \in Menu, NEW G \in SUBSET Group
                PROVE  Tree(Viewable(m, G, db), db) = Viewable(m, G, db)
    BY DEF MenuInv, MenuShowsAll
  <2>. DEFINE I == Viewable(m, G, db)
  <2>1. I \subseteq Item
    BY DEF Viewable, ItemsOf
  <2>. HIDE DEF I
  <2>2. ASSUME NEW S \in SUBSET I, \A j \in I : ParentOf(j, db) \in S \/ ParentOf(j, db) \notin I => j \in S
        PROVE  I \subseteq S
    <3>. DEFINE C == I \ S
    <3>1. ASSUME NEW j \in C
          PROVE  \E k \in C : <<"parent", j, k>> \in db
      <4>1. ParentOf(j, db) \in C
        BY <2>2
      <4>2. <<"parent", j, ParentOf(j, db)>> \in db
        BY <2>1, <4>1, ParentIs
      <4>. QED
        BY <4>1, <4>2
    <3>2. C \in SUBSET Item
      BY <2>1
    <3>3. C = {}
      <4>. HIDE DEF C
      <4>. QED
        BY <3>1, <3>2, NoneHang
    <3>. QED
      BY <3>3
  <2>3. Tree(I, db) = I
    BY <2>2 DEF Tree
  <2>. QED
    BY <2>3 DEF I
<1>. QED
  BY <1>2, <1>3, <1>4, PTL DEF Spec, Server!Spec

================================================================================
