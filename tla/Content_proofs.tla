----------------------------- MODULE Content_proofs -----------------------------
(***************************************************************************)
(* Proofs about Content and Reading, for any items, categories, fields and *)
(* texts, any requests, any number of goroutines: what belongs to an item  *)
(* goes with it; what visitors are shown opens for them, and the pages of  *)
(* a listing make up the whole of it.                                      *)
(***************************************************************************)
EXTENDS Reading, FiniteSetTheorems, SequenceTheorems, WellFoundedInduction, TLAPS

----------------------------------------------------------------------------
\* What may be among the steps of a request

\* No parts of the sort K are left of i.
Free(K, i, rows) == \A r \in rows : r[1] = K => Owner(r) # i

\* Rows that were loaded with another.
ReadOk(read) == \A r \in read : r[1] \notin Parts

CalmWhere(op) ==
  \/ op[1] = "put" /\ op[2] \notin Parts /\ ReadOk(op[5])
  \/ op[1] = "set" /\ (op[2] \notin Parts \/ (op[2] = "comment" /\ op[4] = "approved"))
  \/ op[1] \in {"delete", "tryDelete"} /\ op[2] # "item"
  \/ op[1] = "unlink" /\ op[2] \in {"tagged", "sees"}
  \/ op[1] = "linkTags" /\ ReadOk(op[3])
  \/ op[1] \in {"linkGroups", "regroup", "decide", "deleteComments", "untag", "deleteFields"}
CalmCall(op) ==
  \/ Handled(op) /\ ~Fills(op) /\ ~Clears(op)
  \/ op[1] = "bulk" /\ op[2][1] \in BulkAction \ {"delete"}
  \/ op[1] \in {"prune", "link"}
Calm(s) ==
  \/ s.do = "call" /\ CalmCall(s.op)
  \/ s.do = "where" /\ CalmWhere(s.op)
  \/ s.do = "statement" /\ (\A r \in s.add : r[1] \notin Parts) /\ (\A r \in s.drop : r[1] # "item")
  \/ s.do = "catch" /\ \E op : s.steps = <<Call(op)>> /\ CalmCall(op)
  \/ s.do = "return"

\* Steps of requests that fill items.
FillCall(op) ==
  \/ Handled(op) /\ Fills(op)
  \/ op[1] = "saveItem" /\ ReadOk(op[5])
  \/ op[1] = "restoreFrom" /\ IsFiniteSet(op[3].values)
  \/ op[1] \in {"revise", "saveValue", "copyValues", "index"}
Filler(s) ==
  \/ Calm(s)
  \/ s.do = "call" /\ FillCall(s.op)
  \/ s.do = "where" /\ s.op[1] = "put" /\ s.op[2] = "comment" /\ "item" \in DOMAIN s.op[4] /\ s.op[5] = {}
  \/ s.do = "statement" /\ Recorded(s.add) /\ (\A r \in s.drop : r[1] # "item")

\* Steps of requests that delete items.
ClearCall(op) == Clears(op) /\ (op[1] = "bulkItems" => Handled(op))
Clearer(s) ==
  \/ Calm(s)
  \/ s.do = "call" /\ ClearCall(s.op)
  \/ s.do = "where" /\ s.op[1] = "delete" /\ s.op[2] = "item"
  \/ s.do = "catch" /\ \E op : s.steps = <<Call(op)>> /\ ClearCall(op)

\* What a step waits for: that the item is there, or that nothing is left of one kind of its parts.
FillsItem(s, i) ==
  \/ s.do = "call" /\ s.op[1] \in {"saveValue", "index"} /\ s.op[2] = i
  \/ s.do = "call" /\ s.op[1] = "copyValues" /\ s.op[3] = i
  \/ s.do = "where" /\ s.op[1] = "put" /\ s.op[2] = "comment" /\ s.op[4].item = i
  \/ s.do = "statement" /\ \E r \in s.add : r[1] \in Parts /\ Owner(r) = i
Removes(s, i) == s.do = "where" /\ s.op[1] = "delete" /\ s.op[2] = "item" /\ s.op[3] = i
Waits(s, K, i) == (K = "item" /\ FillsItem(s, i)) \/ (K \in Parts /\ Removes(s, i))
Met(K, i, rows) == IF K = "item" THEN There(i, rows) ELSE Free(K, i, rows)
Meets(s, K, i) ==
  /\ s.do = "where"
  /\ \/ K = "item" /\ s.op[1] = "put" /\ s.op[2] = "item" /\ s.op[3] = i
     \/ K = "comment" /\ s.op = <<"deleteComments", i>>
     \/ K \in Parts \ {"comment"} /\ s.op = <<"tryDelete", K, i>>

\* Steps that write nothing but rows of the types the code gives them.
NeatWhere(op) ==
  \/ op[1] = "put" /\ TypedRow(<<op[2], op[3], op[4]>>) /\ Typed(op[5])
  \/ /\ op[1] = "set" /\ op[2] \in {"item", "category", "comment", "field"}
     /\ op[2] = "item" /\ op[4] \in {"sort", "place"} => op[5] \in Int
     /\ op[2] = "category" => op[4] # "list"
  \/ op[1] = "linkTags" /\ Typed(op[3])
  \/ op[1] \in {"delete", "tryDelete", "unlink", "linkGroups", "regroup", "decide", "deleteComments", "untag", "deleteFields"}
NeatCall(op) ==
  \/ Handled(op) /\ TypedOp(op)
  \/ op[1] = "bulk" /\ op[2][1] \in BulkAction
  \/ op[1] = "saveItem" /\ op[2] \in Item /\ op[3].sort \in Int /\ Sorted(op[4]) /\ Typed(op[5])
  \/ op[1] = "restoreFrom" /\ Sorted(op[3].row) /\ IsFiniteSet(op[3].values)
  \/ op[1] \in {"revise", "saveValue", "copyValues", "index", "prune", "link"}
Neat(s) ==
  \/ s.do = "call" /\ NeatCall(s.op)
  \/ s.do = "where" /\ NeatWhere(s.op)
  \/ s.do = "statement" /\ Typed(s.add)
  \/ s.do = "catch" /\ \E op : s.steps = <<Call(op)>> /\ NeatCall(op)
  \/ s.do = "return"

\* Lists of steps of one sort.
Fits(sort, s) ==
  \/ sort[1] = "calm" /\ Calm(s)
  \/ sort[1] = "fills" /\ Filler(s)
  \/ sort[1] = "fillsOne" /\ Filler(s) /\ \A i : FillsItem(s, i) => i = sort[2]
  \/ sort[1] = "clears" /\ Clearer(s)
  \/ sort[1] = "neat" /\ Neat(s)
AreSteps(sort, l) == (\E S : l \in Seq(S)) /\ \A n \in DOMAIN l : Fits(sort, l[n])
AreCalm == <<"calm">>
AreFilling == <<"fills">>
AreFillingOne(i) == <<"fillsOne", i>>
AreClearing == <<"clears">>
AreNeat == <<"neat">>

\* Whatever a step waits for is there, or one before it sees to it.
Earlier(l, n, K, i) == \E m \in DOMAIN l : m < n /\ Meets(l[m], K, i)
Ready(l, rows) ==
  \A K, i : \A n \in DOMAIN l : Waits(l[n], K, i) => Met(K, i, rows) \/ Earlier(l, n, K, i)

----------------------------------------------------------------------------
\* Lists

LEMMA SeqIs ==
  ASSUME NEW l, NEW S, l \in Seq(S)
  PROVE  Len(l) \in Nat /\ DOMAIN l = 1..Len(l)
OBVIOUS

LEMMA EmptySteps ==
  ASSUME NEW sort
  PROVE  AreSteps(sort, <<>>)
<1>1. <<>> \in Seq({}) /\ DOMAIN <<>> = {}
  OBVIOUS
<1>. QED
  BY <1>1 DEF AreSteps

LEMMA OneStep ==
  ASSUME NEW sort, NEW a, Fits(sort, a)
  PROVE  AreSteps(sort, <<a>>)
<1>1. <<a>> \in Seq({a}) /\ \A n \in DOMAIN <<a>> : <<a>>[n] = a
  OBVIOUS
<1>. QED
  BY <1>1 DEF AreSteps

LEMMA TwoSteps ==
  ASSUME NEW sort, NEW a, NEW b, Fits(sort, a), Fits(sort, b)
  PROVE  AreSteps(sort, <<a, b>>)
<1>1. <<a, b>> \in Seq({a, b}) /\ \A n \in DOMAIN <<a, b>> : <<a, b>>[n] \in {a, b}
  OBVIOUS
<1>. QED
  BY <1>1 DEF AreSteps

LEMMA ConcatAt ==
  ASSUME NEW a, NEW b, NEW S, NEW T, a \in Seq(S), b \in Seq(T)
  PROVE  /\ a \o b \in Seq(S \cup T)
         /\ \A n \in DOMAIN a : n \in DOMAIN (a \o b) /\ (a \o b)[n] = a[n]
         /\ \A n \in DOMAIN b : Len(a) + n \in DOMAIN (a \o b) /\ (a \o b)[Len(a) + n] = b[n]
         /\ \A n \in DOMAIN (a \o b) : n \in DOMAIN a \/ (n - Len(a) \in DOMAIN b /\ (a \o b)[n] = b[n - Len(a)])
         /\ \A n \in DOMAIN a : n \in Nat /\ n <= Len(a)
         /\ \A n \in DOMAIN b : n \in Nat /\ n > 0
         /\ \A n \in DOMAIN (a \o b) : n \in Nat
         /\ Len(a) \in Nat
<1>. DEFINE U == S \cup T
<1>1. a \in Seq(U) /\ b \in Seq(U)
  OBVIOUS
<1>. HIDE DEF U
<1>2. a \o b \in Seq(U) /\ Len(a \o b) = Len(a) + Len(b) /\ Len(a) \in Nat /\ Len(b) \in Nat
  BY <1>1
<1>3. DOMAIN a = 1..Len(a) /\ DOMAIN b = 1..Len(b) /\ DOMAIN (a \o b) = 1..Len(a) + Len(b)
  BY <1>1, <1>2
<1>4. \A n \in 1..Len(a) + Len(b) : (a \o b)[n] = IF n <= Len(a) THEN a[n] ELSE b[n - Len(a)]
  BY <1>1
<1>. HIDE <1>1
<1>5. \A n \in DOMAIN a : n \in DOMAIN (a \o b) /\ (a \o b)[n] = a[n] /\ n \in Nat /\ n <= Len(a)
  BY <1>2, <1>3, <1>4
<1>6. ASSUME NEW n \in DOMAIN b
      PROVE  Len(a) + n \in DOMAIN (a \o b) /\ (a \o b)[Len(a) + n] = b[n] /\ n \in Nat /\ n > 0
  <2>1. n \in Nat /\ n > 0 /\ n <= Len(b) /\ Len(a) + n \in 1..Len(a) + Len(b) /\ Len(a) + n - Len(a) = n
        /\ ~(Len(a) + n <= Len(a))
    BY <1>2, <1>3
  <2>. QED
    BY <1>3, <1>4, <2>1
<1>7. ASSUME NEW n \in DOMAIN (a \o b), n \notin DOMAIN a
      PROVE  n - Len(a) \in DOMAIN b /\ (a \o b)[n] = b[n - Len(a)]
  BY <1>2, <1>3, <1>4, <1>7
<1>8. a \o b \in Seq(S \cup T) /\ \A n \in DOMAIN (a \o b) : n \in Nat
  BY <1>2, <1>3 DEF U
<1>. QED
  BY <1>2, <1>5, <1>6, <1>7, <1>8

LEMMA ConcatSteps ==
  ASSUME NEW sort, NEW a, NEW b, AreSteps(sort, a), AreSteps(sort, b)
  PROVE  AreSteps(sort, a \o b)
<1>1. PICK S, T : a \in Seq(S) /\ b \in Seq(T)
  BY DEF AreSteps
<1>2. /\ a \o b \in Seq(S \cup T)
      /\ \A n \in DOMAIN a : (a \o b)[n] = a[n]
      /\ \A n \in DOMAIN (a \o b) : n \in DOMAIN a \/ (n - Len(a) \in DOMAIN b /\ (a \o b)[n] = b[n - Len(a)])
  BY <1>1, ConcatAt
<1>. DEFINE c == a \o b
<1>. HIDE DEF c
<1>3. \A n \in DOMAIN c : Fits(sort, c[n])
  BY <1>2 DEF AreSteps, c
<1>. QED
  BY <1>2, <1>3 DEF AreSteps, c

LEMMA WhenSteps ==
  ASSUME NEW sort, NEW b, NEW l, b => AreSteps(sort, l)
  PROVE  AreSteps(sort, When(b, l))
BY EmptySteps DEF When

\* A list with a step for each number.
LEMMA NumberedSteps ==
  ASSUME NEW sort, NEW n \in Nat, NEW f, DOMAIN f = 1..n, f = [m \in 1..n |-> f[m]], \A m \in 1..n : Fits(sort, f[m])
  PROVE  AreSteps(sort, f)
<1>. DEFINE T == {f[m] : m \in 1..n}
<1>1. \A m \in 1..n : f[m] \in T
  OBVIOUS
<1>. HIDE DEF T
<1>2. f \in [1..n -> T]
  BY <1>1
<1>3. f \in Seq(T)
  BY <1>2
<1>. QED
  BY <1>3 DEF AreSteps

\* One sort of steps among others.
LEMMA SortsOf ==
  ASSUME NEW l
  PROVE  /\ AreSteps(AreCalm, l) => AreSteps(AreFilling, l) /\ AreSteps(AreClearing, l)
         /\ \A i : AreSteps(AreFillingOne(i), l) => AreSteps(AreFilling, l)
BY DEF AreSteps, AreCalm, AreFilling, AreFillingOne, AreClearing, Fits, Filler, Clearer

\* Calm steps fill and delete nothing.
LEMMA CalmNoPart ==
  ASSUME NEW s, Calm(s)
  PROVE  /\ \A i : ~FillsItem(s, i) /\ ~Removes(s, i)
         /\ \A K, i : ~Waits(s, K, i)
<1>1. \A i : ~FillsItem(s, i)
  <2>. SUFFICES ASSUME NEW i, FillsItem(s, i) PROVE FALSE
    OBVIOUS
  <2>1. CASE s.do = "call"
    BY <2>1 DEF FillsItem, Calm, CalmCall, Handled, Handler
  <2>2. CASE s.do = "where"
    BY <2>2 DEF FillsItem, Calm, CalmWhere, Parts
  <2>3. CASE s.do = "statement"
    BY <2>3 DEF FillsItem, Calm
  <2>. QED
    BY <2>1, <2>2, <2>3 DEF FillsItem
<1>2. \A i : ~Removes(s, i)
  BY DEF Removes, Calm, CalmWhere
<1>. QED
  BY <1>1, <1>2 DEF Waits

LEMMA CalmForAll ==
  ASSUME NEW l, AreSteps(AreCalm, l)
  PROVE  /\ \A i : AreSteps(AreFillingOne(i), l)
         /\ \A rows : Ready(l, rows)
<1>1. \A n \in DOMAIN l : Calm(l[n])
  BY DEF AreSteps, AreCalm, Fits
<1>. QED
  BY <1>1, CalmNoPart DEF AreSteps, AreFillingOne, Fits, Filler, Ready

----------------------------------------------------------------------------
\* Lists that are ready

LEMMA ReadyConcat ==
  ASSUME NEW a, NEW b, NEW rows, \E S : a \in Seq(S), \E S : b \in Seq(S), Ready(a, rows),
         \A K, i : \A n \in DOMAIN b : Waits(b[n], K, i) =>
           Met(K, i, rows) \/ Earlier(b, n, K, i) \/ \E m \in DOMAIN a : Meets(a[m], K, i)
  PROVE  Ready(a \o b, rows)
<1>1. PICK S, T : a \in Seq(S) /\ b \in Seq(T)
  OBVIOUS
<1>. DEFINE c == a \o b
<1>2. /\ \A n \in DOMAIN a : n \in DOMAIN c /\ c[n] = a[n]
      /\ \A n \in DOMAIN b : Len(a) + n \in DOMAIN c /\ c[Len(a) + n] = b[n]
      /\ \A n \in DOMAIN c : n \in DOMAIN a \/ (n - Len(a) \in DOMAIN b /\ c[n] = b[n - Len(a)])
      /\ \A n \in DOMAIN a : n \in Nat /\ n <= Len(a)
      /\ \A n \in DOMAIN b : n \in Nat /\ n > 0
      /\ \A n \in DOMAIN c : n \in Nat
      /\ Len(a) \in Nat
  BY <1>1, ConcatAt
<1>. HIDE DEF c
<1>. SUFFICES ASSUME NEW K, NEW i, NEW n \in DOMAIN c, Waits(c[n], K, i), ~Met(K, i, rows)
              PROVE  Earlier(c, n, K, i)
  BY DEF Ready, c
<1>3. CASE n \in DOMAIN a
  <2>1. Earlier(a, n, K, i)
    BY <1>2, <1>3 DEF Ready
  <2>. QED
    BY <1>2, <2>1 DEF Earlier
<1>4. CASE n \notin DOMAIN a
  <2>. DEFINE k == n - Len(a)
  <2>1. k \in DOMAIN b /\ c[n] = b[k] /\ n = Len(a) + k /\ k \in Nat /\ k > 0
    BY <1>2, <1>4
  <2>. HIDE DEF k
  <2>2. CASE Earlier(b, k, K, i)
    <3>1. PICK m \in DOMAIN b : m < k /\ Meets(b[m], K, i)
      BY <2>2 DEF Earlier
    <3>2. Len(a) + m \in DOMAIN c /\ c[Len(a) + m] = b[m] /\ Len(a) + m < n
      BY <1>2, <2>1, <3>1
    <3>. QED
      BY <3>1, <3>2 DEF Earlier
  <2>3. CASE \E m \in DOMAIN a : Meets(a[m], K, i)
    <3>1. PICK m \in DOMAIN a : Meets(a[m], K, i)
      BY <2>3
    <3>2. m \in DOMAIN c /\ c[m] = a[m] /\ m < n
      BY <1>2, <2>1
    <3>. QED
      BY <3>1, <3>2 DEF Earlier
  <2>. QED
    BY <2>1, <2>2, <2>3
<1>. QED
  BY <1>3, <1>4

LEMMA ReadyBoth ==
  ASSUME NEW a, NEW b, NEW rows, \E S : a \in Seq(S), \E S : b \in Seq(S), Ready(a, rows), Ready(b, rows)
  PROVE  Ready(a \o b, rows)
BY ReadyConcat DEF Ready

\* Steps that fill items delete none.
LEMMA FillersWait ==
  ASSUME NEW s, Filler(s), NEW K, NEW i, Waits(s, K, i)
  PROVE  K = "item" /\ FillsItem(s, i)
<1>1. ~Removes(s, i)
  BY CalmNoPart DEF Filler, Removes
<1>. QED
  BY <1>1 DEF Waits

LEMMA ReadyThere ==
  ASSUME NEW i, NEW l, NEW rows, AreSteps(AreFillingOne(i), l), There(i, rows)
  PROVE  Ready(l, rows)
<1>1. \A n \in DOMAIN l : Filler(l[n]) /\ \A j : FillsItem(l[n], j) => j = i
  BY DEF AreSteps, AreFillingOne, Fits
<1>. QED
  BY <1>1, FillersWait DEF Ready, Met

LEMMA ReadyMade ==
  ASSUME NEW i, NEW a, NEW b, NEW rows, AreSteps(AreFilling, a), Ready(a, rows),
         \E n \in DOMAIN a : Meets(a[n], "item", i), AreSteps(AreFillingOne(i), b)
  PROVE  AreSteps(AreFilling, a \o b) /\ Ready(a \o b, rows)
<1>1. \A n \in DOMAIN b : Filler(b[n]) /\ \A j : FillsItem(b[n], j) => j = i
  BY DEF AreSteps, AreFillingOne, Fits
<1>2. \A K, j : \A n \in DOMAIN b : Waits(b[n], K, j) => K = "item" /\ j = i
  BY <1>1, FillersWait
<1>3. Ready(a \o b, rows)
  BY <1>2, ReadyConcat DEF AreSteps
<1>. QED
  BY <1>3, ConcatSteps, SortsOf

LEMMA ReadyOne ==
  ASSUME NEW s, NEW rows, \A K, i : Waits(s, K, i) => Met(K, i, rows)
  PROVE  Ready(<<s>>, rows)
<1>1. \A n \in DOMAIN <<s>> : <<s>>[n] = s
  OBVIOUS
<1>. QED
  BY <1>1 DEF Ready

\* What comes after the first step.
LEMMA TailIs ==
  ASSUME NEW l, NEW S, l \in Seq(S), l # <<>>
  PROVE  /\ Tail(l) \in Seq(S) /\ 1 \in DOMAIN l /\ Head(l) = l[1]
         /\ \A n \in DOMAIN Tail(l) : n + 1 \in DOMAIN l /\ Tail(l)[n] = l[n + 1] /\ n \in Nat /\ n > 0
         /\ \A n \in DOMAIN l : n # 1 => n - 1 \in DOMAIN Tail(l) /\ Tail(l)[n - 1] = l[n]
         /\ \A n \in DOMAIN l : n \in Nat /\ n > 0
OBVIOUS

LEMMA TailSteps ==
  ASSUME NEW sort, NEW l, AreSteps(sort, l), l # <<>>
  PROVE  Fits(sort, Head(l)) /\ AreSteps(sort, Tail(l))
<1>1. PICK S : l \in Seq(S)
  BY DEF AreSteps
<1>. QED
  BY <1>1, TailIs DEF AreSteps

\* After its first step a list is ready for whatever has come of it.
LEMMA TailReady ==
  ASSUME NEW l, NEW S, l \in Seq(S), l # <<>>, NEW rows, NEW new, Ready(l, rows),
         \A K, i : \A n \in DOMAIN Tail(l) : Waits(Tail(l)[n], K, i) =>
           (Met(K, i, rows) \/ Meets(Head(l), K, i) => Met(K, i, new))
  PROVE  Ready(Tail(l), new)
<1>. DEFINE t == Tail(l)
<1>1. /\ 1 \in DOMAIN l /\ Head(l) = l[1]
      /\ \A n \in DOMAIN t : n + 1 \in DOMAIN l /\ t[n] = l[n + 1] /\ n \in Nat /\ n > 0
      /\ \A n \in DOMAIN l : n # 1 => n - 1 \in DOMAIN t /\ t[n - 1] = l[n]
      /\ \A n \in DOMAIN l : n \in Nat /\ n > 0
  BY TailIs
<1>. HIDE DEF t
<1>. SUFFICES ASSUME NEW K, NEW i, NEW n \in DOMAIN t, Waits(t[n], K, i), ~Met(K, i, new)
              PROVE  Earlier(t, n, K, i)
  BY DEF Ready, t
<1>2. ~Met(K, i, rows) /\ ~Meets(Head(l), K, i)
  BY DEF t
<1>3. Earlier(l, n + 1, K, i)
  BY <1>1, <1>2 DEF Ready
<1>4. PICK m \in DOMAIN l : m < n + 1 /\ Meets(l[m], K, i)
  BY <1>3 DEF Earlier
<1>5. m # 1 /\ m \in Nat
  BY <1>1, <1>2, <1>4
<1>6. m - 1 \in DOMAIN t /\ t[m - 1] = l[m] /\ m - 1 < n
  BY <1>1, <1>4, <1>5
<1>. QED
  BY <1>4, <1>6 DEF Earlier

----------------------------------------------------------------------------
\* What a calm statement does

Result(s, rows) == IF s.upsert \/ rows \cap s.drop # {} THEN (rows \ s.drop) \cup s.add ELSE rows

\* No item goes, and nothing gets parts that had none.
Gentle(rows, new) ==
  /\ \A i : There(i, rows) => There(i, new)
  /\ \A K \in Parts : \A i : Free(K, i, rows) => Free(K, i, new)
  /\ Recorded(rows) => Recorded(new)
Soft(s, rows) ==
  /\ \A r \in s.drop : r[1] = "item" => \E q \in s.add : q[1] = "item" /\ q[2] = r[2]
  /\ \A r \in s.add : RowOk(r) /\ (r[1] \in Parts => \E q \in rows : q[1] = r[1] /\ Owner(q) = Owner(r))

LEMMA SoftGentle ==
  ASSUME NEW s, NEW rows, Soft(s, rows)
  PROVE  Gentle(rows, Result(s, rows))
<1>. DEFINE new == Result(s, rows)
<1>1. \A r : r \in new => r \in rows \/ r \in s.add
  BY DEF Result
<1>2. \A r \in rows : r \in new \/ (r \in s.drop /\ \A q \in s.add : q \in new)
  BY DEF Result
<1>. HIDE DEF new
<1>3. \A i : There(i, rows) => There(i, new)
  BY <1>2 DEF There, Has, Soft
<1>4. \A K \in Parts : \A i : Free(K, i, rows) => Free(K, i, new)
  BY <1>1 DEF Free, Soft
<1>5. Recorded(rows) => Recorded(new)
  BY <1>1 DEF Recorded, Soft
<1>. QED
  BY <1>3, <1>4, <1>5 DEF Gentle, new

LEMMA OtherRowOk ==
  ASSUME NEW r, r[1] \notin Parts
  PROVE  RowOk(r)
BY DEF RowOk, Parts

\* Rows that are no parts come, and no items go.
LEMMA BlandSoft ==
  ASSUME NEW s, NEW rows, \A r \in s.add : r[1] \notin Parts, \A r \in s.drop : r[1] # "item"
  PROVE  Soft(s, rows)
BY OtherRowOk DEF Soft

LEMMA StatementsAre ==
  /\ \A S, A : Write(S, A).drop = S /\ Write(S, A).add = A /\ Write(S, A).vital = TRUE /\ Write(S, A).do = "statement"
  /\ \A S : Delete(S).drop = S /\ Delete(S).add = {} /\ Delete(S).clash = {} /\ Delete(S).needs = {}
            /\ Delete(S).vital = TRUE /\ Delete(S).do = "statement" /\ Delete(S).upsert = TRUE
  /\ \A S : Link(S).drop = {} /\ Link(S).add = S /\ Link(S).do = "statement"
  /\ \A S, r : Save(S, r).drop = S /\ Save(S, r).add = {r} /\ Save(S, r).vital = TRUE
  /\ \A S, r : Insert(r, S).drop = {} /\ Insert(r, S).add = {r} /\ Insert(r, S).do = "statement"
  /\ Statement.drop = {} /\ Statement.add = {} /\ Statement.vital = TRUE
  /\ Fails.drop = {} /\ Fails.add = {} /\ Fails.vital = TRUE
  /\ \A N : Needing(N, Statement).drop = {}
  /\ \A S : Ignored(Delete(S)).drop = S /\ Ignored(Delete(S)).add = {} /\ Ignored(Delete(S)).upsert = TRUE
            /\ Ignored(Delete(S)).clash = {} /\ Ignored(Delete(S)).needs = {}
BY DEF Write, Delete, Link, Save, Insert, Statement, Fails, Needing, Ignored

LEMMA OfIs ==
  ASSUME NEW what, NEW x, NEW rows, NEW r \in Of(what, x, rows)
  PROVE  r \in rows /\ r[1] = what /\ r[2] = x
BY DEF Of

LEMMA PutSoft ==
  ASSUME NEW what, what \notin Parts, NEW x, NEW row, NEW read, ReadOk(read), NEW rows
  PROVE  Soft(Head(Put(what, x, row, read, rows)), rows)
<1>. DEFINE back == {r \in read : r[1] \in {"tagged", "sees"} \/ ~Has(r[1], r[2], rows)}
            new == {<<what, x, row>>} \cup back
            write == Write(Of(what, x, rows), new)
<1>1. Head(Put(what, x, row, read, rows)) \in {Fails, write}
  BY DEF Put
<1>2. Soft(Fails, rows)
  BY StatementsAre, BlandSoft
<1>3. Soft(write, rows)
  <2>1. write.drop = Of(what, x, rows) /\ write.add = new
    BY StatementsAre
  <2>2. \A r \in new : r[1] \notin Parts
    <3>1. \A r \in back : r[1] \notin Parts
      BY DEF ReadOk
    <3>2. <<what, x, row>>[1] = what
      OBVIOUS
    <3>. QED
      BY <3>1, <3>2
  <2>3. \A r \in Of(what, x, rows) : \E q \in new : q[1] = r[1] /\ q[2] = r[2]
    <3>1. <<what, x, row>> \in new /\ <<what, x, row>>[1] = what /\ <<what, x, row>>[2] = x
      OBVIOUS
    <3>2. \A r \in Of(what, x, rows) : r[1] = what /\ r[2] = x
      BY OfIs
    <3>. HIDE DEF new
    <3>. QED
      BY <3>1, <3>2
  <2>. HIDE DEF new, write
  <2>. QED
    BY <2>1, <2>2, <2>3, OtherRowOk DEF Soft
<1>. QED
  BY <1>1, <1>2, <1>3

LEMMA SetSoft ==
  ASSUME NEW what, NEW x, NEW column, what \notin Parts \/ (what = "comment" /\ column = "approved"), NEW v,
         NEW rows, Recorded(rows)
  PROVE  Soft(Head(Set(what, x, column, v, rows)), rows)
<1>. DEFINE old == CHOOSE r \in Of(what, x, rows) : TRUE
            cell == [old[3] EXCEPT ![column] = v]
            row == <<what, x, cell>>
            save == Save(Of(what, x, rows), row)
<1>1. Head(Set(what, x, column, v, rows)) = IF Has(what, x, rows) THEN save ELSE Statement
  BY DEF Set, The
<1>2. Soft(Statement, rows)
  BY StatementsAre, BlandSoft
<1>3. ASSUME Has(what, x, rows)
      PROVE  Soft(save, rows)
  <2>1. old \in Of(what, x, rows)
    BY <1>3 DEF Has, Of
  <2>2. old \in rows /\ old[1] = what /\ old[2] = x
    BY <2>1, OfIs
  <2>3. save.drop = Of(what, x, rows) /\ save.add = {row}
    <3>. HIDE DEF row
    <3>. QED
      BY StatementsAre
  <2>4. row[1] = what /\ row[2] = x /\ row[3] = cell
    OBVIOUS
  <2>5. \A r \in Of(what, x, rows) : r[1] = row[1] /\ r[2] = row[2]
    BY <2>4, OfIs
  <2>6. CASE what \notin Parts
    <3>1. RowOk(row) /\ row[1] \notin Parts
      BY <2>4, <2>6, OtherRowOk
    <3>. HIDE DEF save, row
    <3>. QED
      BY <2>3, <2>5, <3>1 DEF Soft
  <2>7. CASE what = "comment" /\ column = "approved"
    <3>1. "item" \in DOMAIN old[3]
      BY <2>2, <2>7 DEF Recorded, RowOk
    <3>. HIDE DEF old
    <3>2. "item" \in DOMAIN cell /\ cell["item"] = old[3]["item"]
      BY <2>7, <3>1
    <3>. HIDE DEF cell
    <3>3. RowOk(row)
      BY <2>4, <2>7, <3>2 DEF RowOk
    <3>. HIDE DEF row
    <3>4. Owner(row) = Owner(old)
      BY <2>2, <2>4, <2>7, <3>2 DEF Owner
    <3>. HIDE DEF save
    <3>. QED
      BY <2>2, <2>3, <2>4, <2>5, <3>3, <3>4 DEF Soft
  <2>. QED
    BY <2>6, <2>7
<1>. QED
  BY <1>1, <1>2, <1>3

LEMMA RegroupSoft ==
  ASSUME NEW I, NEW group, NEW rows
  PROVE  Soft(Head(Regroup(I, group, rows)), rows)
<1>. DEFINE old == {r \in rows : r[1] = "item" /\ r[2] \in I}
            new == {<<"item", r[2], [r[3] EXCEPT !.group = group]>> : r \in old}
            write == Write(old, new)
<1>1. Head(Regroup(I, group, rows)) = write
  BY DEF Regroup
<1>2. write.drop = old /\ write.add = new
  BY StatementsAre
<1>3. \A r \in new : r[1] = "item"
  OBVIOUS
<1>4. ASSUME NEW r \in old
      PROVE  \E q \in new : q[1] = "item" /\ q[2] = r[2]
  <2>. DEFINE q == <<"item", r[2], [r[3] EXCEPT !.group = group]>>
  <2>1. q \in new /\ q[1] = "item" /\ q[2] = r[2]
    OBVIOUS
  <2>. QED
    BY <2>1
<1>. HIDE DEF old, new, write
<1>5. \A r \in new : RowOk(r) /\ r[1] \notin Parts
  BY <1>3 DEF RowOk, Parts
<1>. QED
  BY <1>1, <1>2, <1>4, <1>5 DEF Soft

LEMMA LinksSoft ==
  ASSUME NEW x, NEW y, NEW G, NEW rows
  PROVE  /\ Soft(Head(LinkGroups(x, G, rows)), rows)
         /\ ReadOk(y) => Soft(Head(LinkTags(x, y, rows)), rows)
         /\ \A what \in {"tagged", "sees"} : Soft(Head(Unlink(what, x, G, rows)), rows)
         /\ Soft(Head(Untag(x, rows)), rows)
<1>1. Soft(Fails, rows)
  BY StatementsAre, BlandSoft
<1>2. Soft(Head(LinkGroups(x, G, rows)), rows)
  <2>. DEFINE new == {<<"sees", x, g>> : g \in G}
  <2>1. Head(LinkGroups(x, G, rows)) \in {Fails, Link(new)}
    BY DEF LinkGroups
  <2>2. \A r \in new : r[1] = "sees"
    OBVIOUS
  <2>. HIDE DEF new
  <2>3. \A r \in new : r[1] \notin Parts
    BY <2>2 DEF Parts
  <2>4. Soft(Link(new), rows)
    BY <2>3, StatementsAre, BlandSoft
  <2>. QED
    BY <1>1, <2>1, <2>4
<1>3. ASSUME ReadOk(y)
      PROVE  Soft(Head(LinkTags(x, y, rows)), rows)
  <2>. DEFINE missing == {t \in y : ~Has("tag", t[2], rows)}
              new == missing \cup {<<"tagged", x, t[2]>> : t \in y}
  <2>1. Head(LinkTags(x, y, rows)) \in {Fails, Link(new)}
    BY DEF LinkTags
  <2>2. \A r \in new : r \in y \/ r[1] = "tagged"
    OBVIOUS
  <2>. HIDE DEF new
  <2>3. \A r \in new : r[1] \notin Parts
    BY <1>3, <2>2 DEF Parts, ReadOk
  <2>4. Soft(Link(new), rows)
    BY <2>3, StatementsAre, BlandSoft
  <2>. QED
    BY <1>1, <2>1, <2>4
<1>4. ASSUME NEW what \in {"tagged", "sees"}
      PROVE  Soft(Head(Unlink(what, x, G, rows)), rows)
  <2>. DEFINE old == {r \in Of(what, x, rows) : r[3] \notin G}
  <2>1. Head(Unlink(what, x, G, rows)) = Delete(old)
    BY DEF Unlink
  <2>2. \A r \in old : r[1] # "item"
    BY OfIs
  <2>. HIDE DEF old
  <2>. QED
    BY <2>1, <2>2, StatementsAre, BlandSoft
<1>5. Soft(Head(Untag(x, rows)), rows)
  <2>. DEFINE old == {r \in rows : r[1] = "tagged" /\ r[3] = x}
  <2>1. Head(Untag(x, rows)) = Ignored(Delete(old))
    BY DEF Untag
  <2>2. \A r \in old : r[1] # "item"
    OBVIOUS
  <2>. HIDE DEF old
  <2>. QED
    BY <2>1, <2>2, StatementsAre, BlandSoft
<1>. QED
  BY <1>2, <1>3, <1>4, <1>5

\* A deletion: void, forbidden, or of the rows that are meant.
LEMMA DeletesRows ==
  ASSUME NEW what, NEW x, NEW rows
  PROVE  LET s == Head(DeleteRows(what, x, rows)) IN
         /\ DeleteRows(what, x, rows) = <<s>>
         /\ s = Fails \/ s = Delete(Of(what, x, rows))
         /\ what \in {"value", "revision", "indexed"} => s = Delete(Of(what, x, rows))
<1>. DEFINE links == CASE what \in {"item", "category"} -> Of("sees", x, rows) \cup Of("tagged", x, rows)
                       [] what = "tag" -> {r \in rows : r[1] = "tagged" /\ r[3] = x}
                       [] OTHER -> {}
            s == IF links # {} THEN Fails ELSE Delete(Of(what, x, rows))
<1>1. DeleteRows(what, x, rows) = <<s>>
  BY DEF DeleteRows
<1>2. Head(<<s>>) = s
  OBVIOUS
<1>3. what \in {"value", "revision", "indexed"} => links = {}
  OBVIOUS
<1>. HIDE DEF links
<1>4. s = Fails \/ s = Delete(Of(what, x, rows))
  OBVIOUS
<1>5. what \in {"value", "revision", "indexed"} => s = Delete(Of(what, x, rows))
  BY <1>3
<1>. HIDE DEF s
<1>. QED
  BY <1>1, <1>2, <1>4, <1>5

LEMMA DeleteSoft ==
  ASSUME NEW what, what # "item", NEW x, NEW rows
  PROVE  /\ Soft(Head(DeleteRows(what, x, rows)), rows)
         /\ Soft(Ignored(DeleteRows(what, x, rows)[1]), rows)
<1>. DEFINE s == Head(DeleteRows(what, x, rows))
<1>1. DeleteRows(what, x, rows) = <<s>> /\ (s = Fails \/ s = Delete(Of(what, x, rows)))
  BY DeletesRows
<1>. HIDE DEF s
<1>2. s.add = {} /\ \A r \in s.drop : r[1] # "item"
  BY <1>1, StatementsAre, OfIs
<1>3. DeleteRows(what, x, rows)[1] = s
  BY <1>1
<1>4. Ignored(s).add = {} /\ Ignored(s).drop = s.drop
  BY <1>1 DEF Ignored, Fails, Needing, Statement, Delete
<1>. QED
  BY <1>2, <1>3, <1>4, BlandSoft DEF s

LEMMA DropsSoft ==
  ASSUME NEW x, NEW rows
  PROVE  /\ Soft(Head(DeleteComments(x, rows)), rows)
         /\ Soft(Head(DeleteFields(x, rows)), rows)
<1>1. Soft(Head(DeleteComments(x, rows)), rows)
  <2>. DEFINE old == {r \in rows : r[1] = "comment" /\ r[3].item = x}
  <2>1. Head(DeleteComments(x, rows)) = Ignored(Delete(old))
    BY DEF DeleteComments
  <2>2. \A r \in old : r[1] # "item"
    OBVIOUS
  <2>. HIDE DEF old
  <2>. QED
    BY <2>1, <2>2, StatementsAre, BlandSoft
<1>2. Soft(Head(DeleteFields(x, rows)), rows)
  <2>. DEFINE old == UNION {Of("field", f, rows) : f \in FieldsOf(x, rows)}
  <2>1. Head(DeleteFields(x, rows)) = Ignored(Delete(old))
    BY DEF DeleteFields
  <2>2. \A r \in old : r[1] # "item"
    BY OfIs
  <2>. HIDE DEF old
  <2>. QED
    BY <2>1, <2>2, StatementsAre, BlandSoft
<1>. QED
  BY <1>1, <1>2

\* Whatever is done by the calm statements whose rows the database finds.
LEMMA CalmSoft ==
  ASSUME NEW op, CalmWhere(op), NEW rows, Recorded(rows), NEW c
  PROVE  Soft(Head(Plan(op, rows, c)), rows)
<1>1. CASE op[1] = "put" /\ op[2] \notin Parts /\ ReadOk(op[5])
  <2>1. Plan(op, rows, c) = Put(op[2], op[3], op[4], op[5], rows)
    BY <1>1 DEF Plan
  <2>. QED
    BY <1>1, <2>1, PutSoft
<1>2. CASE op[1] = "set" /\ (op[2] \notin Parts \/ (op[2] = "comment" /\ op[4] = "approved"))
  <2>1. Plan(op, rows, c) = Set(op[2], op[3], op[4], op[5], rows)
    BY <1>2 DEF Plan
  <2>. QED
    BY <1>2, <2>1, SetSoft
<1>3. CASE op[1] = "delete" /\ op[2] # "item"
  <2>1. Plan(op, rows, c) = DeleteRows(op[2], op[3], rows)
    BY <1>3 DEF Plan
  <2>. QED
    BY <1>3, <2>1, DeleteSoft
<1>4. CASE op[1] = "tryDelete" /\ op[2] # "item"
  <2>1. Head(Plan(op, rows, c)) = Ignored(DeleteRows(op[2], op[3], rows)[1])
    BY <1>4 DEF Plan
  <2>. QED
    BY <1>4, <2>1, DeleteSoft
<1>5. CASE op[1] = "unlink" /\ op[2] \in {"tagged", "sees"}
  <2>1. Plan(op, rows, c) = Unlink(op[2], op[3], op[4], rows)
    BY <1>5 DEF Plan
  <2>. QED
    BY <1>5, <2>1, LinksSoft
<1>6. CASE op[1] = "linkTags" /\ ReadOk(op[3])
  <2>1. Plan(op, rows, c) = LinkTags(op[2], op[3], rows)
    BY <1>6 DEF Plan
  <2>. QED
    BY <1>6, <2>1, LinksSoft
<1>7. CASE op[1] = "linkGroups"
  <2>1. Plan(op, rows, c) = LinkGroups(op[2], op[3], rows)
    BY <1>7 DEF Plan
  <2>. QED
    BY <2>1, LinksSoft
<1>8. CASE op[1] = "regroup"
  <2>1. Plan(op, rows, c) = Regroup(op[2], op[3], rows)
    BY <1>8 DEF Plan
  <2>. QED
    BY <2>1, RegroupSoft
<1>9. CASE op[1] = "decide"
  <2>1. Plan(op, rows, c) = Decide(op[2], op[3], rows)
    BY <1>9 DEF Plan
  <2>2. \E v : Decide(op[2], op[3], rows) \in {Set("item", op[2], "status", v, rows), <<Statement>>}
    BY DEF Decide
  <2>3. Soft(Head(<<Statement>>), rows)
    BY StatementsAre, BlandSoft
  <2>4. \A v : Soft(Head(Set("item", op[2], "status", v, rows)), rows)
    BY SetSoft DEF Parts
  <2>. QED
    BY <2>1, <2>2, <2>3, <2>4
<1>10. CASE op[1] = "deleteComments"
  <2>1. Plan(op, rows, c) = DeleteComments(op[2], rows)
    BY <1>10 DEF Plan
  <2>. QED
    BY <2>1, DropsSoft
<1>11. CASE op[1] = "untag"
  <2>1. Plan(op, rows, c) = Untag(op[2], rows)
    BY <1>11 DEF Plan
  <2>. QED
    BY <2>1, LinksSoft
<1>12. CASE op[1] = "deleteFields"
  <2>1. Plan(op, rows, c) = DeleteFields(op[2], rows)
    BY <1>12 DEF Plan
  <2>. QED
    BY <2>1, DropsSoft
<1>. QED
  BY <1>1, <1>2, <1>3, <1>4, <1>5, <1>6, <1>7, <1>8, <1>9, <1>10, <1>11, <1>12 DEF CalmWhere

----------------------------------------------------------------------------
\* Parts of handlers that are calm

LEMMA CalmSteps ==
  /\ Calm(Return)
  /\ \A op : CalmWhere(op) => Calm(Where(op))
  /\ \A op : CalmCall(op) => Calm(Call(op)) /\ Calm(Catch(<<Call(op)>>))
BY DEF Calm, Return, Where, Call, Catch

LEMMA CalmOne ==
  /\ \A s : Calm(s) => AreSteps(AreCalm, <<s>>)
  /\ AreSteps(AreCalm, <<>>) /\ AreSteps(AreCalm, <<Return>>)
  /\ \A op : CalmWhere(op) => AreSteps(AreCalm, <<Where(op)>>)
  /\ \A op : CalmCall(op) => AreSteps(AreCalm, <<Call(op)>>)
<1>1. \A s : Calm(s) => AreSteps(AreCalm, <<s>>)
  BY OneStep DEF Fits, AreCalm
<1>. QED
  BY <1>1, CalmSteps, EmptySteps

LEMMA WheresCalm ==
  /\ \A what, x, row, read : what \notin Parts /\ ReadOk(read) => CalmWhere(<<"put", what, x, row, read>>)
  /\ \A what, x, column, v : what \notin Parts => CalmWhere(<<"set", what, x, column, v>>)
  /\ \A c, v : CalmWhere(<<"set", "comment", c, "approved", v>>)
  /\ \A what, x : what # "item" => CalmWhere(<<"delete", what, x>>) /\ CalmWhere(<<"tryDelete", what, x>>)
  /\ \A what \in {"tagged", "sees"} : \A x, Y : CalmWhere(<<"unlink", what, x, Y>>)
  /\ \A i, read : ReadOk(read) => CalmWhere(<<"linkTags", i, read>>)
  /\ \A x, G : CalmWhere(<<"linkGroups", x, G>>)
  /\ \A I, g : CalmWhere(<<"regroup", I, g>>)
  /\ \A i, v : CalmWhere(<<"decide", i, v>>)
  /\ \A x : CalmWhere(<<"deleteComments", x>>) /\ CalmWhere(<<"untag", x>>) /\ CalmWhere(<<"deleteFields", x>>)
BY DEF CalmWhere, Parts

LEMMA ReadIs ==
  /\ ReadOk({})
  /\ \A what, x, rows : what \notin Parts => ReadOk(Of(what, x, rows))
  /\ \A T : ReadOk(Nameless(T))
  /\ \A S, T : ReadOk(S) /\ ReadOk(T) => ReadOk(S \cup T)
<1>1. \A what, x, rows : what \notin Parts => ReadOk(Of(what, x, rows))
  BY OfIs DEF ReadOk
<1>2. ASSUME NEW T
      PROVE  ReadOk(Nameless(T))
  <2>1. \A r \in Nameless(T) : r[1] = "tag"
    BY DEF Nameless
  <2>. QED
    BY <2>1 DEF ReadOk, Parts
<1>. QED
  BY <1>1, <1>2 DEF ReadOk

LEMMA ReplaceCalm ==
  ASSUME NEW x, NEW G
  PROVE  /\ ReadOk(G) => AreSteps(AreCalm, ReplaceTags(x, G))
         /\ AreSteps(AreCalm, ReplaceGroups(x, G))
         /\ AreSteps(AreCalm, ReplaceFormGroups(x, G))
<1>1. ASSUME ReadOk(G)
      PROVE  AreSteps(AreCalm, ReplaceTags(x, G))
  <2>. DEFINE T == {t[2] : t \in G}
  <2>1. AreSteps(AreCalm, <<Where(<<"linkTags", x, G>>)>>) /\ AreSteps(AreCalm, <<Where(<<"unlink", "tagged", x, T>>)>>)
    BY <1>1, CalmOne, WheresCalm
  <2>2. AreSteps(AreCalm, When(G # {}, <<Where(<<"linkTags", x, G>>)>>))
    BY <2>1, WhenSteps
  <2>. QED
    BY <2>1, <2>2, ConcatSteps DEF ReplaceTags
<1>2. AreSteps(AreCalm, ReplaceGroups(x, G))
  <2>1. AreSteps(AreCalm, <<Where(<<"linkGroups", x, G>>)>>) /\ AreSteps(AreCalm, <<Where(<<"unlink", "sees", x, G>>)>>)
    BY CalmOne, WheresCalm
  <2>2. AreSteps(AreCalm, When(G # {}, <<Where(<<"linkGroups", x, G>>)>>))
    BY <2>1, WhenSteps
  <2>. QED
    BY <2>1, <2>2, ConcatSteps DEF ReplaceGroups
<1>. QED
  BY <1>1, <1>2, CalmOne DEF ReplaceFormGroups

----------------------------------------------------------------------------
\* Loops

LEMMA SetToSeqIs ==
  ASSUME NEW S, IsFiniteSet(S)
  PROVE  SetToSeq(S) \in Seq(S)
<1>. DEFINE n == Cardinality(S)
            s == SetToSeq(S)
<1>1. n \in Nat /\ ExistsBijection(1..n, S)
  BY FS_CardinalityType
<1>2. \E f \in [1..n -> S] : IsInjective(f)
  BY <1>1 DEF ExistsBijection, Bijection, Injection
<1>3. s \in [1..n -> S]
  BY <1>2 DEF SetToSeq
<1>. HIDE DEF s
<1>4. s \in Seq(S)
  BY <1>1, <1>3
<1>. QED
  BY <1>4 DEF s

LEMMA EachSteps ==
  ASSUME NEW sort, NEW S, IsFiniteSet(S), NEW f, DOMAIN f = DOMAIN SetToSeq(S), f = [n \in DOMAIN f |-> f[n]],
         \A n \in DOMAIN f : SetToSeq(S)[n] \in S => Fits(sort, f[n])
  PROVE  AreSteps(sort, f)
<1>. DEFINE s == SetToSeq(S)
<1>1. s \in Seq(S)
  BY SetToSeqIs
<1>. HIDE DEF s
<1>2. DOMAIN f = 1..Len(s) /\ Len(s) \in Nat /\ \A n \in DOMAIN f : s[n] \in S
  BY <1>1 DEF s
<1>. QED
  BY <1>2, NumberedSteps DEF s

LEMMA OrderedIs ==
  ASSUME NEW S, IsFiniteSet(S), NEW sort
  PROVE  DOMAIN Ordered(S, sort) = 1..Cardinality(S) /\ Cardinality(S) \in Nat /\ IsFiniteSet(DOMAIN Ordered(S, sort))
<1>1. Cardinality(S) \in Nat
  BY FS_CardinalityType
<1>2. DOMAIN Ordered(S, sort) = 1..Cardinality(S)
  <2>. DEFINE before(x) == {y \in S : sort[y] < sort[x] \/ (sort[y] = sort[x] /\ y < x)}
              at(n) == CHOOSE x \in S : Cardinality(before(x)) = n - 1
              order == [n \in 1..Cardinality(S) |-> at(n)]
  <2>1. Ordered(S, sort) = order
    BY DEF Ordered
  <2>. HIDE DEF at
  <2>2. DOMAIN order = 1..Cardinality(S)
    OBVIOUS
  <2>. QED
    BY <2>1, <2>2
<1>3. IsFiniteSet(1..Cardinality(S))
  BY <1>1, FS_Interval
<1>. QED
  BY <1>1, <1>2, <1>3

LEMMA ReorderCalm ==
  ASSUME NEW what, what \notin Parts, NEW x, NEW d, NEW S, IsFiniteSet(S), NEW column, NEW rows
  PROVE  AreSteps(AreCalm, Reorder(what, x, d, S, column, rows))
<1>. DEFINE sort == Column(what, column, rows)
            number(y, m) == Where(<<"set", what, y, column, m>>)
            list == Ordered(S, sort)
            new == Moved(list, x, d)
            wrong == {k \in DOMAIN new : sort[new[k]] # k - 1}
            at == Ordered(wrong, [k \in wrong |-> k])
            n == Cardinality(wrong)
            steps == [j \in DOMAIN at |-> number(new[at[j]], at[j] - 1)]
<1>1. Reorder(what, x, d, S, column, rows) \in {<<>>, steps}
  BY DEF Reorder, Renumber, Misnumbered
<1>2. IsFiniteSet(wrong)
  <2>1. DOMAIN new = DOMAIN list
    BY DEF Moved
  <2>2. IsFiniteSet(DOMAIN list)
    BY OrderedIs
  <2>3. wrong \subseteq DOMAIN new
    OBVIOUS
  <2>. QED
    BY <2>1, <2>2, <2>3, FS_Subset
<1>3. \A y, m : Fits(AreCalm, number(y, m))
  BY CalmSteps, WheresCalm DEF Fits, AreCalm
<1>. HIDE DEF list, new, wrong, number
<1>4. DOMAIN at = 1..n /\ n \in Nat
  BY <1>2, OrderedIs
<1>. HIDE DEF at, n
<1>5. AreSteps(AreCalm, steps)
  BY <1>3, <1>4, NumberedSteps
<1>. HIDE DEF steps
<1>. QED
  BY <1>1, <1>5, EmptySteps

LEMMA ConstantsFinite == IsFiniteSet(Item \cup Category) /\ IsFiniteSet(Field) /\ IsFiniteSet(Text)
<1>. DEFINE all == Item \cup Category \cup Field \cup Text
<1>1. IsFiniteSet(all) /\ Item \cup Category \subseteq all /\ Field \subseteq all /\ Text \subseteq all
  BY ContentIdsAssumption
<1>. HIDE DEF all
<1>. QED
  BY <1>1, FS_Subset

LEMMA DataFinite ==
  ASSUME NEW rows
  PROVE  /\ \A what, x, column : IsFiniteSet(Beside(what, x, column, rows))
         /\ \A g : IsFiniteSet(FieldsOf(g, rows))
         /\ \A c : IsFiniteSet(FieldsForCategory(c, rows))
         /\ \A i : IsFiniteSet(Values(i, rows))
<1>1. \A what, x, column : Beside(what, x, column, rows) \subseteq Item \cup Category
  BY DEF Beside
<1>2. \A g : FieldsOf(g, rows) \subseteq Field
  BY DEF FieldsOf
<1>3. ASSUME NEW c
      PROVE  FieldsForCategory(c, rows) \subseteq Field
  <2>1. \E g : FieldsForCategory(c, rows) \subseteq {} \cup FieldsOf(g, rows)
    BY DEF FieldsForCategory
  <2>. QED
    BY <1>2, <2>1
<1>4. \A i : Values(i, rows) \subseteq Field \X Text
  BY DEF Values
<1>5. IsFiniteSet(Field \X Text)
  BY ConstantsFinite, FS_Product
<1>. QED
  BY <1>1, <1>2, <1>3, <1>4, <1>5, ConstantsFinite, FS_Subset

----------------------------------------------------------------------------
\* Handlers that leave what belongs to an item where it is

LEMMA MovesCalm ==
  ASSUME NEW x, NEW g, NEW d, NEW rows
  PROVE  /\ AreSteps(AreCalm, ItemReorder(x, d, rows))
         /\ AreSteps(AreCalm, ItemFeaturedReorder(x, d, rows))
         /\ AreSteps(AreCalm, CategoryReorder(x, d, rows))
         /\ AreSteps(AreCalm, FieldReorder(x, g, d, rows))
<1>1. \A what, column : what \notin Parts =>
        AreSteps(AreCalm, Reorder(what, x, d, Beside(what, x, column, rows), column, rows))
        /\ AreSteps(AreCalm, Reorder(what, x, d, Beside(what, x, "parent", rows), column, rows))
        /\ AreSteps(AreCalm, Reorder(what, x, d, Beside(what, x, "category", rows), column, rows))
        /\ AreSteps(AreCalm, Reorder(what, x, d, Beside(what, x, "featured", rows), column, rows))
        /\ AreSteps(AreCalm, Reorder(what, x, d, FieldsOf(g, rows), column, rows))
  BY ReorderCalm, DataFinite
<1>2. AreSteps(AreCalm, ItemReorder(x, d, rows))
  BY <1>1, CalmOne DEF ItemReorder, Parts
<1>3. AreSteps(AreCalm, ItemFeaturedReorder(x, d, rows))
  <2>1. AreSteps(AreCalm, Reorder("item", x, d, Beside("item", x, "featured", rows), "place", rows))
    BY <1>1 DEF Parts
  <2>. QED
    BY <2>1, CalmOne, WhenSteps DEF ItemFeaturedReorder
<1>4. AreSteps(AreCalm, CategoryReorder(x, d, rows))
  BY <1>1, CalmOne DEF CategoryReorder, Parts
<1>5. AreSteps(AreCalm, FieldReorder(x, g, d, rows))
  BY <1>1, CalmOne DEF FieldReorder, Parts
<1>. QED
  BY <1>2, <1>3, <1>4, <1>5

\* The columns of an item and of a comment.
LEMMA ColumnsCalm ==
  ASSUME NEW i, NEW v, NEW rows
  PROVE  /\ \A column : AreSteps(AreCalm, <<Where(<<"set", "item", i, column, v>>)>>)
         /\ AreSteps(AreCalm, <<Where(<<"set", "comment", i, "approved", v>>)>>)
         /\ AreSteps(AreCalm, TrashItem(i, rows))
         /\ AreSteps(AreCalm, RestoreItem(i, rows))
         /\ AreSteps(AreCalm, EnsurePreviewToken(i, rows))
<1>1. \A column, u : CalmWhere(<<"set", "item", i, column, u>>)
  BY WheresCalm DEF Parts
<1>2. \A column, u : AreSteps(AreCalm, <<Where(<<"set", "item", i, column, u>>)>>)
  BY <1>1, CalmOne
<1>3. AreSteps(AreCalm, <<Where(<<"set", "comment", i, "approved", v>>)>>)
  BY WheresCalm, CalmOne
<1>4. AreSteps(AreCalm, TrashItem(i, rows)) /\ AreSteps(AreCalm, RestoreItem(i, rows))
  BY <1>2, CalmOne DEF TrashItem, RestoreItem
<1>5. AreSteps(AreCalm, EnsurePreviewToken(i, rows))
  BY <1>2, CalmOne, WhenSteps DEF EnsurePreviewToken
<1>. QED
  BY <1>2, <1>3, <1>4, <1>5

LEMMA PutCalm ==
  ASSUME NEW what, what \notin Parts, NEW x, NEW row, NEW read, ReadOk(read)
  PROVE  AreSteps(AreCalm, <<Where(<<"put", what, x, row, read>>)>>)
BY WheresCalm, CalmOne

LEMMA DeleteCalm ==
  ASSUME NEW what, what # "item", NEW x
  PROVE  /\ AreSteps(AreCalm, <<DeleteOf(what, x)>>) /\ AreSteps(AreCalm, <<TryDelete(what, x)>>)
         /\ Calm(DeleteOf(what, x)) /\ Calm(TryDelete(what, x))
BY WheresCalm, CalmOne, CalmSteps DEF DeleteOf, TryDelete

LEMMA TagsCalm ==
  ASSUME NEW t
  PROVE  AreSteps(AreCalm, TagForm(t)) /\ AreSteps(AreCalm, TagDelete(t))
<1>1. AreSteps(AreCalm, TagForm(t))
  BY PutCalm, ReadIs DEF TagForm, Parts
<1>2. Fits(AreCalm, Where(<<"untag", t>>)) /\ Fits(AreCalm, DeleteOf("tag", t))
  BY WheresCalm, CalmSteps DEF DeleteOf, Fits, AreCalm
<1>. QED
  BY <1>1, <1>2, TwoSteps DEF TagDelete

LEMMA CategoriesCalm ==
  ASSUME NEW c, NEW form, NEW rows
  PROVE  /\ AreSteps(AreCalm, CategoryForm(c, form, rows))
         /\ AreSteps(AreCalm, FeaturedCategoryForm(form))
         /\ AreSteps(AreCalm, CategoryDelete(c, rows))
<1>1. AreSteps(AreCalm, CategoryForm(c, form, rows))
  <2>. DEFINE row == [status |-> form.status, parent |-> form.parent, inherits |-> form.inherits,
                      fields |-> form.fields, sort |-> form.sort, list |-> form.list,
                      slug |-> ResolveCategorySlug(c, form, rows)]
              offered == form.parent = None \/ form.parent \in ParentOptions(c, rows)
              put == <<Where(<<"put", "category", c, row, Of("sees", c, rows)>>)>>
  <2>1. CategoryForm(c, form, rows) = When(offered, put \o ReplaceFormGroups(c, form.groups))
    BY DEF CategoryForm
  <2>. HIDE DEF row, offered
  <2>2. AreSteps(AreCalm, put)
    BY PutCalm, ReadIs DEF Parts
  <2>. HIDE DEF put
  <2>3. AreSteps(AreCalm, put \o ReplaceFormGroups(c, form.groups))
    BY <2>2, ReplaceCalm, ConcatSteps
  <2>. QED
    BY <2>1, <2>3, WhenSteps
<1>2. AreSteps(AreCalm, FeaturedCategoryForm(form))
  BY PutCalm, ReadIs DEF FeaturedCategoryForm, Parts
<1>3. AreSteps(AreCalm, CategoryDelete(c, rows))
  <2>1. Fits(AreCalm, TryDelete("sees", c)) /\ Fits(AreCalm, DeleteOf("category", c))
    BY DeleteCalm DEF Fits, AreCalm
  <2>2. AreSteps(AreCalm, <<TryDelete("sees", c), DeleteOf("category", c)>>)
    BY <2>1, TwoSteps
  <2>. QED
    BY <2>2, WhenSteps DEF CategoryDelete
<1>. QED
  BY <1>1, <1>2, <1>3

LEMMA ToggleCalm ==
  ASSUME NEW what, what \notin Parts, NEW x, NEW rows
  PROVE  AreSteps(AreCalm, Toggle(what, x, rows))
<1>. DEFINE row == [The(what, x, rows) EXCEPT !.status = IF @ = "active" THEN "inactive" ELSE "active"]
<1>1. Toggle(what, x, rows) = When(Has(what, x, rows), <<Where(<<"put", what, x, row, {}>>)>>)
  BY DEF Toggle
<1>. HIDE DEF row
<1>2. AreSteps(AreCalm, <<Where(<<"put", what, x, row, {}>>)>>)
  BY PutCalm, ReadIs
<1>. QED
  BY <1>1, <1>2, WhenSteps

LEMMA FieldsCalm ==
  ASSUME NEW g, NEW f, NEW s, NEW n, NEW rows
  PROVE  /\ AreSteps(AreCalm, FieldGroupForm(g, rows))
         /\ AreSteps(AreCalm, FieldGroupDelete(g))
         /\ AreSteps(AreCalm, FieldForm(f, g, s, n))
<1>1. AreSteps(AreCalm, FieldGroupForm(g, rows))
  <2>. DEFINE read == UNION {Of("field", h, rows) : h \in FieldsOf(g, rows)}
  <2>1. ReadOk(read)
    <3>1. \A r \in read : r[1] = "field"
      BY OfIs
    <3>. QED
      BY <3>1 DEF ReadOk, Parts
  <2>. HIDE DEF read
  <2>2. AreSteps(AreCalm, <<Where(<<"put", "fieldgroup", g, "named", read>>)>>)
    BY <2>1, PutCalm DEF Parts
  <2>. QED
    BY <2>2 DEF FieldGroupForm, read
<1>2. AreSteps(AreCalm, FieldGroupDelete(g))
  <2>1. Fits(AreCalm, Where(<<"deleteFields", g>>)) /\ Fits(AreCalm, DeleteOf("fieldgroup", g))
    BY WheresCalm, CalmSteps DEF DeleteOf, Fits, AreCalm
  <2>. QED
    BY <2>1, TwoSteps DEF FieldGroupDelete
<1>3. AreSteps(AreCalm, FieldForm(f, g, s, n))
  BY PutCalm, ReadIs DEF FieldForm, Parts
<1>. QED
  BY <1>1, <1>2, <1>3

LEMMA LinkCalm ==
  ASSUME NEW i, NEW j, NEW rows
  PROVE  AreSteps(AreCalm, LinkTranslation(i, j, rows))
<1>1. \E g : LinkTranslation(i, j, rows) \in {<<>>, <<Return>>, <<Where(<<"regroup", {i, j}, g>>)>>}
  BY DEF LinkTranslation
<1>2. \A g : AreSteps(AreCalm, <<Where(<<"regroup", {i, j}, g>>)>>)
  BY WheresCalm, CalmOne
<1>. QED
  BY <1>1, <1>2, CalmOne

LEMMA PruneCalm ==
  ASSUME NEW i, NEW rows
  PROVE  AreSteps(AreCalm, Prune(i, rows))
<1>. DEFINE old == {r \in Of("revision", i, rows) : Cardinality({n \in Numbers(i, rows) : n > r[3]}) >= MaxRevisions}
<1>1. Prune(i, rows) = When(old # {}, <<Delete(old)>>)
  BY DEF Prune
<1>2. \A r \in old : r[1] # "item"
  BY OfIs
<1>. HIDE DEF old
<1>3. Calm(Delete(old))
  BY <1>2, StatementsAre DEF Calm
<1>. QED
  BY <1>1, <1>3, CalmOne, WhenSteps

\* One item of a bulk action and then the others.
LEMMA BulkSteps ==
  ASSUME NEW sort, NEW op, NEW I,
         \A i : Fits(sort, Call(<<"bulk", op, i>>)),
         \A J : Fits(sort, Call(<<"bulkItems", op, J>>)) /\ Fits(sort, Catch(<<Call(<<"bulkItems", op, J>>)>>))
  PROVE  AreSteps(sort, Bulk(op, I))
<1>. DEFINE i == CHOOSE x \in I : TRUE
            others == Call(<<"bulkItems", op, I \ {i}>>)
            first == Call(<<"bulk", op, i>>)
            catch == Catch(<<others>>)
<1>1. Bulk(op, I) \in {<<>>, <<first, catch, others>>}
  BY DEF Bulk, TheFirst
<1>2. Fits(sort, first) /\ Fits(sort, catch) /\ Fits(sort, others)
  OBVIOUS
<1>. HIDE DEF first, catch, others
<1>3. <<first, catch, others>> = <<first, catch>> \o <<others>>
  OBVIOUS
<1>4. AreSteps(sort, <<first, catch>>) /\ AreSteps(sort, <<others>>)
  BY <1>2, OneStep, TwoSteps
<1>5. AreSteps(sort, <<first, catch, others>>)
  BY <1>3, <1>4, ConcatSteps
<1>. QED
  BY <1>1, <1>5, EmptySteps

LEMMA BulkCalm ==
  ASSUME NEW op, op[1] \in BulkAction \ {"delete"}, NEW i, NEW rows
  PROVE  /\ \A I : AreSteps(AreCalm, Bulk(op, I))
         /\ AreSteps(AreCalm, BulkOne(op, i, rows))
<1>1. \A I : AreSteps(AreCalm, Bulk(op, I))
  <2>1. \A j : CalmCall(<<"bulk", op, j>>)
    BY DEF CalmCall
  <2>2. \A J : CalmCall(<<"bulkItems", op, J>>)
    BY DEF CalmCall, Handled, Handler, Fills, Clears
  <2>. QED
    BY <2>1, <2>2, CalmSteps, BulkSteps DEF Fits, AreCalm
<1>2. AreSteps(AreCalm, BulkOne(op, i, rows))
  <2>1. CASE op[1] = "status"
    BY <2>1, ColumnsCalm DEF BulkOne
  <2>2. CASE op[1] = "trash"
    BY <2>2, ColumnsCalm DEF BulkOne
  <2>3. CASE op[1] = "restore"
    BY <2>3, ColumnsCalm DEF BulkOne
  <2>4. CASE op[1] = "decide"
    BY <2>4, WheresCalm, CalmOne DEF BulkOne
  <2>5. CASE op[1] = "category"
    BY <2>5, ColumnsCalm DEF BulkOne
  <2>6. CASE op[1] = "tags"
    <3>1. AreSteps(AreCalm, ReplaceTags(i, Nameless(op[2])))
      BY ReadIs, ReplaceCalm
    <3>2. BulkOne(op, i, rows) = When(Has("item", i, rows) /\ op[2] # {}, ReplaceTags(i, Nameless(op[2])))
      BY <2>6 DEF BulkOne
    <3>. QED
      BY <3>1, <3>2, WhenSteps
  <2>. QED
    BY <2>1, <2>2, <2>3, <2>4, <2>5, <2>6 DEF BulkAction
<1>. QED
  BY <1>1, <1>2

\* What the code calls from there is calm as well.
LEMMA CalmPlan ==
  ASSUME NEW op, CalmCall(op), NEW rows, NEW c
  PROVE  AreSteps(AreCalm, Plan(op, rows, c))
<1>1. CASE op[1] = "prune"
  BY <1>1, PruneCalm DEF Plan
<1>2. CASE op[1] = "link"
  BY <1>2, LinkCalm DEF Plan
<1>3. CASE op[1] = "bulk" /\ op[2][1] \in BulkAction \ {"delete"}
  <2>1. Plan(op, rows, c) = BulkOne(op[2], op[3], rows)
    BY <1>3 DEF Plan
  <2>. QED
    BY <1>3, <2>1, BulkCalm
<1>4. CASE Handled(op) /\ ~Fills(op) /\ ~Clears(op)
  <2>1. CASE op[1] = "bulkItems"
    <3>1. Plan(op, rows, c) = Bulk(op[2], op[3])
      BY <2>1 DEF Plan
    <3>2. op[2][1] \in BulkAction \ {"delete"}
      BY <1>4, <2>1 DEF Handled, Clears
    <3>. QED
      BY <3>1, <3>2, BulkCalm
  <2>2. CASE op[1] = "submitReview"
    BY <2>2, ColumnsCalm DEF Plan
  <2>3. CASE op[1] = "itemMove"
    BY <2>3, MovesCalm DEF Plan
  <2>4. CASE op[1] = "featuredMove"
    BY <2>4, MovesCalm DEF Plan
  <2>5. CASE op[1] = "preview"
    BY <2>5, ColumnsCalm DEF Plan
  <2>6. CASE op[1] = "moderate"
    BY <2>6, ColumnsCalm DEF Plan
  <2>7. CASE op[1] = "commentDelete"
    BY <2>7, DeleteCalm DEF Plan
  <2>8. CASE op[1] = "tagForm"
    BY <2>8, TagsCalm DEF Plan
  <2>9. CASE op[1] = "tagDelete"
    BY <2>9, TagsCalm DEF Plan
  <2>10. CASE op[1] = "categoryForm"
    BY <2>10, CategoriesCalm DEF Plan
  <2>11. CASE op[1] = "featuredForm"
    BY <2>11, CategoriesCalm DEF Plan
  <2>12. CASE op[1] = "categoryDelete"
    BY <2>12, CategoriesCalm DEF Plan
  <2>13. CASE op[1] = "categoryMove"
    BY <2>13, MovesCalm DEF Plan
  <2>14. CASE op[1] = "toggle"
    <3>1. Plan(op, rows, c) = Toggle(op[2], op[3], rows)
      BY <2>14 DEF Plan
    <3>2. op[2] \notin Parts
      BY <1>4, <2>14 DEF Handled, Parts
    <3>. QED
      BY <3>1, <3>2, ToggleCalm
  <2>15. CASE op[1] = "fieldGroupForm"
    BY <2>15, FieldsCalm DEF Plan
  <2>16. CASE op[1] = "fieldGroupDelete"
    BY <2>16, FieldsCalm DEF Plan
  <2>17. CASE op[1] = "fieldForm"
    BY <2>17, FieldsCalm DEF Plan
  <2>18. CASE op[1] = "fieldDelete"
    BY <2>18, DeleteCalm DEF Plan
  <2>19. CASE op[1] = "fieldMove"
    BY <2>19, MovesCalm DEF Plan
  <2>20. op[1] \in Handler \ {"itemForm", "frontendForm", "rollback", "clone", "comment", "deleteItem", "emptyTrash"}
    BY <1>4 DEF Handled, Fills, Clears
  <2>. QED
    BY <2>1, <2>2, <2>3, <2>4, <2>5, <2>6, <2>7, <2>8, <2>9, <2>10, <2>11, <2>12, <2>13, <2>14, <2>15, <2>16, <2>17,
       <2>18, <2>19, <2>20 DEF Handler
<1>. QED
  BY <1>1, <1>2, <1>3, <1>4 DEF CalmCall

----------------------------------------------------------------------------
\* Handlers that fill an item: its row is saved first

Made(i, l, rows) == AreSteps(AreFilling, l) /\ Ready(l, rows) /\ \E n \in DOMAIN l : Meets(l[n], "item", i)

LEMMA MadeThen ==
  ASSUME NEW i, NEW a, NEW b, NEW rows, Made(i, a, rows), AreSteps(AreFillingOne(i), b)
  PROVE  Made(i, a \o b, rows)
<1>1. AreSteps(AreFilling, a \o b) /\ Ready(a \o b, rows)
  BY ReadyMade DEF Made
<1>2. PICK S, T : a \in Seq(S) /\ b \in Seq(T)
  BY DEF Made, AreSteps
<1>3. \A n \in DOMAIN a : n \in DOMAIN (a \o b) /\ (a \o b)[n] = a[n]
  BY <1>2, ConcatAt
<1>4. \E n \in DOMAIN (a \o b) : Meets((a \o b)[n], "item", i)
  BY <1>3 DEF Made
<1>. QED
  BY <1>1, <1>4 DEF Made

LEMMA MadeCalm ==
  ASSUME NEW i, NEW a, NEW b, NEW rows, Made(i, a, rows), AreSteps(AreCalm, b)
  PROVE  Made(i, a \o b, rows)
BY MadeThen, CalmForAll

\* The row of an item is saved.
LEMMA PutItem ==
  ASSUME NEW i, NEW row, NEW read, ReadOk(read)
  PROVE  LET s == Where(<<"put", "item", i, row, read>>) IN Calm(s) /\ Meets(s, "item", i)
<1>. DEFINE op == <<"put", "item", i, row, read>>
<1>1. Calm(Where(op))
  BY WheresCalm, CalmSteps DEF Parts
<1>2. op[1] = "put" /\ op[2] = "item" /\ op[3] = i
  OBVIOUS
<1>. HIDE DEF op
<1>3. Where(op).do = "where" /\ Where(op).op = op
  BY DEF Where
<1>4. Meets(Where(op), "item", i)
  BY <1>2, <1>3 DEF Meets
<1>. QED
  BY <1>1, <1>4 DEF op

LEMMA MadeHere ==
  ASSUME NEW i, NEW a, NEW rows, AreSteps(AreFilling, a), Ready(a, rows), NEW s, Calm(s), Meets(s, "item", i)
  PROVE  Made(i, a \o <<s>>, rows)
<1>1. AreSteps(AreCalm, <<s>>)
  BY CalmOne
<1>2. AreSteps(AreFilling, <<s>>) /\ Ready(<<s>>, rows)
  BY <1>1, SortsOf, CalmForAll
<1>3. AreSteps(AreFilling, a \o <<s>>) /\ Ready(a \o <<s>>, rows)
  BY <1>2, ConcatSteps, ReadyBoth DEF AreSteps
<1>4. PICK S, T : a \in Seq(S) /\ <<s>> \in Seq(T)
  BY <1>1 DEF AreSteps
<1>5. 1 \in DOMAIN <<s>> /\ <<s>>[1] = s
  OBVIOUS
<1>6. Len(a) + 1 \in DOMAIN (a \o <<s>>) /\ (a \o <<s>>)[Len(a) + 1] = s
  BY <1>4, <1>5, ConcatAt
<1>. QED
  BY <1>3, <1>6 DEF Made

LEMMA MadeFirst ==
  ASSUME NEW i, NEW rows, NEW s, Calm(s), Meets(s, "item", i)
  PROVE  Made(i, <<s>>, rows)
<1>1. AreSteps(AreCalm, <<s>>)
  BY CalmOne
<1>2. AreSteps(AreFilling, <<s>>) /\ Ready(<<s>>, rows)
  BY <1>1, SortsOf, CalmForAll
<1>3. 1 \in DOMAIN <<s>> /\ <<s>>[1] = s
  OBVIOUS
<1>. QED
  BY <1>2, <1>3 DEF Made

\* What is written of an item.
LEMMA CallFills ==
  /\ \A op, i : FillCall(op) /\ (op[1] \in {"saveValue", "index"} => op[2] = i) /\ (op[1] = "copyValues" => op[3] = i)
       => Fits(AreFillingOne(i), Call(op))
  /\ \A op : FillCall(op) => Fits(AreFilling, Call(op))
  /\ \A op, i : op[1] \notin {"saveValue", "index", "copyValues"} => ~FillsItem(Call(op), i)
<1>1. \A op : Call(op).do = "call" /\ Call(op).op = op
  BY DEF Call
<1>. QED
  BY <1>1 DEF Fits, AreFillingOne, AreFilling, Filler, FillsItem

LEMMA ValueFills ==
  ASSUME NEW i, NEW f, NEW v, NEW s, s.do = "statement", s.add \in {{}, {<<"value", i, f, v>>}},
         \A r \in s.drop : r[1] # "item"
  PROVE  Fits(AreFillingOne(i), s)
<1>. DEFINE row == <<"value", i, f, v>>
<1>1. row[1] = "value" /\ row[2] = i
  OBVIOUS
<1>2. s.add \in {{}, {row}}
  OBVIOUS
<1>. HIDE DEF row
<1>3. RowOk(row) /\ Owner(row) = i
  BY <1>1 DEF RowOk, Owner
<1>. QED
  BY <1>2, <1>3 DEF Fits, AreFillingOne, Filler, FillsItem, Recorded

LEMMA CreateFills ==
  ASSUME NEW i, NEW f, NEW v
  PROVE  Fits(AreFillingOne(i), CreateValue(i, f, v))
<1>. DEFINE row == <<"value", i, f, v>>
            s == CreateValue(i, f, v)
<1>1. s = Insert(row, ValueOf(i, f))
  BY DEF CreateValue
<1>. HIDE DEF s, row
<1>2. s.do = "statement" /\ s.add = {row} /\ s.drop = {}
  BY <1>1, StatementsAre
<1>3. Fits(AreFillingOne(i), s)
  BY <1>2, ValueFills DEF row
<1>. QED
  BY <1>3 DEF s

LEMMA SaveValueFills ==
  ASSUME NEW i, NEW f, NEW v, NEW rows
  PROVE  AreSteps(AreFillingOne(i), SaveValue(i, f, v, rows))
<1>. DEFINE new == IF v = None THEN {} ELSE {<<"value", i, f, v>>}
            write == Write(ValueOf(i, f), new)
            create == CreateValue(i, f, v)
<1>1. SaveValue(i, f, v, rows) \in {<<>>, <<create>>, <<write>>}
  BY DEF SaveValue, When
<1>2. Fits(AreFillingOne(i), create)
  BY CreateFills
<1>3. Fits(AreFillingOne(i), write)
  <2>1. \A r \in ValueOf(i, f) : r[1] # "item"
    BY DEF ValueOf
  <2>. HIDE DEF new
  <2>2. write.do = "statement" /\ write.add = new /\ write.drop = ValueOf(i, f)
    BY StatementsAre
  <2>3. new \in {{}, {<<"value", i, f, v>>}}
    BY DEF new
  <2>. HIDE DEF write
  <2>4. write.add \in {{}, {<<"value", i, f, v>>}} /\ \A r \in write.drop : r[1] # "item"
    BY <2>1, <2>2, <2>3
  <2>. QED
    BY <2>2, <2>4, ValueFills
<1>. HIDE DEF create, write
<1>. QED
  BY <1>1, <1>2, <1>3, OneStep, EmptySteps

LEMMA CreateEachFills ==
  ASSUME NEW i, NEW V, IsFiniteSet(V)
  PROVE  AreSteps(AreFillingOne(i), CreateValues(i, V))
<1>. DEFINE s == SetToSeq(V)
            f == [n \in DOMAIN s |-> CreateValue(i, s[n][1], s[n][2])]
<1>1. CreateValues(i, V) = f
  BY DEF CreateValues, Each
<1>2. \A n \in DOMAIN f : Fits(AreFillingOne(i), f[n])
  BY CreateFills
<1>3. DOMAIN f = DOMAIN s /\ f = [n \in DOMAIN f |-> f[n]]
  OBVIOUS
<1>. HIDE DEF f
<1>4. AreSteps(AreFillingOne(i), f)
  BY <1>2, <1>3, EachSteps
<1>. QED
  BY <1>1, <1>4

LEMMA SaveValuesFill ==
  ASSUME NEW i, NEW form, NEW rows
  PROVE  AreSteps(AreFillingOne(i), SaveValues(i, form, rows))
<1>. DEFINE F == FieldsForCategory(form.category, rows)
            s == SetToSeq(F)
            f == [n \in DOMAIN s |-> Call(<<"saveValue", i, s[n], form.values[s[n]]>>)]
<1>1. SaveValues(i, form, rows) = f
  BY DEF SaveValues, Each
<1>2. \A g, v : Fits(AreFillingOne(i), Call(<<"saveValue", i, g, v>>))
  BY CallFills DEF FillCall
<1>3. DOMAIN f = DOMAIN s /\ f = [n \in DOMAIN f |-> f[n]] /\ \A n \in DOMAIN f : Fits(AreFillingOne(i), f[n])
  BY <1>2
<1>4. IsFiniteSet(F)
  BY DataFinite
<1>. HIDE DEF f, F
<1>5. AreSteps(AreFillingOne(i), f)
  BY <1>3, <1>4, EachSteps
<1>. QED
  BY <1>1, <1>5

LEMMA IndexFills ==
  ASSUME NEW i, NEW text, NEW rows
  PROVE  AreSteps(AreFillingOne(i), UpsertSearchIndex(i, text, rows))
<1>. DEFINE row == <<"indexed", i, text, {v \in Values(i, rows) : Has("field", v[1], rows)}>>
            drop == DeleteOf("indexed", i)
            add == Link({row})
<1>1. UpsertSearchIndex(i, text, rows) = <<drop, add>>
  BY DEF UpsertSearchIndex
<1>2. row[1] = "indexed" /\ row[2] = i
  OBVIOUS
<1>. HIDE DEF row
<1>3. RowOk(row) /\ Owner(row) = i
  BY <1>2 DEF RowOk, Owner
<1>4. add.do = "statement" /\ add.add = {row} /\ add.drop = {}
  BY StatementsAre
<1>. HIDE DEF add
<1>5. Fits(AreFillingOne(i), add)
  BY <1>3, <1>4 DEF Fits, AreFillingOne, Filler, FillsItem, Recorded
<1>6. Calm(drop)
  BY DeleteCalm
<1>. HIDE DEF drop
<1>7. Fits(AreFillingOne(i), drop)
  BY <1>6, CalmNoPart DEF Fits, AreFillingOne, Filler
<1>. QED
  BY <1>1, <1>5, <1>7, TwoSteps

LEMMA LoadedOk ==
  ASSUME NEW i, NEW with, with \cap Parts = {}, NEW rows
  PROVE  ReadOk(Loaded(i, with, rows))
<1>. DEFINE tags == {r \in rows : r[1] = "tag" /\ r[2] \in Linked("tagged", i, rows)}
            linked == UNION {Of(what, i, rows) : what \in with}
<1>1. Loaded(i, with, rows) = CategoryRow(i, rows) \cup linked \cup tags
  BY DEF Loaded
<1>2. ReadOk(CategoryRow(i, rows))
  <2>1. CategoryRow(i, rows) = {} \/ \E c : CategoryRow(i, rows) = Of("category", c, rows)
    BY DEF CategoryRow
  <2>. QED
    BY <2>1, ReadIs DEF Parts
<1>3. ReadOk(linked)
  <2>. SUFFICES ASSUME NEW r \in linked PROVE r[1] \notin Parts
    BY DEF ReadOk
  <2>1. PICK what \in with : r \in Of(what, i, rows)
    OBVIOUS
  <2>. QED
    BY <2>1, OfIs
<1>4. ReadOk(tags)
  BY DEF ReadOk, Parts
<1>. HIDE DEF linked, tags
<1>. QED
  BY <1>1, <1>2, <1>3, <1>4, ReadIs

\* The revision of an item that there is.
LEMMA ReviseIs ==
  ASSUME NEW i, NEW b
  PROVE  LET l == When(b, <<Call(<<"revise", i>>)>>) IN AreSteps(AreFilling, l) /\ \A rows : Ready(l, rows)
<1>. DEFINE call == Call(<<"revise", i>>)
<1>1. Fits(AreFilling, call)
  BY CallFills DEF FillCall
<1>2. Filler(call) /\ \A j : ~FillsItem(call, j)
  BY <1>1, CallFills DEF Fits, AreFilling
<1>. HIDE DEF call
<1>3. \A K, j : ~Waits(call, K, j)
  BY <1>2, FillersWait
<1>4. AreSteps(AreFilling, <<call>>) /\ \A rows : Ready(<<call>>, rows)
  BY <1>1, <1>3, OneStep, ReadyOne
<1>5. AreSteps(AreFilling, <<>>) /\ \A rows : Ready(<<>>, rows)
  BY EmptySteps, CalmOne, CalmForAll
<1>. QED
  BY <1>4, <1>5 DEF When, call

LEMMA SaveItemFills ==
  ASSUME NEW i, NEW form, NEW row, NEW read, ReadOk(read), NEW rows
  PROVE  Made(i, SaveItem(i, form, row, read, rows), rows)
<1>. DEFINE new == [row EXCEPT !.text = form.text, !.slug = SlugFor(i, form, rows), !.status = form.status,
                      !.featured = form.featured, !.place = FeaturedSort(i, form, row, rows),
                      !.category = CategoryOf(form, read), !.sort = form.sort, !.author = form.author]
            revise == When(row # NewItem, <<Call(<<"revise", i>>)>>)
            put == Where(<<"put", "item", i, new, read>>)
            groups == ReplaceFormGroups(i, form.groups)
            tags == ReplaceTags(i, Nameless(form.tags))
            values == SaveValues(i, form, rows)
            link == When(form.link # None, <<Call(<<"link", i, form.link>>)>>)
            index == <<Call(<<"index", i, form.text>>)>>
<1>1. SaveItem(i, form, row, read, rows) = revise \o <<put>> \o groups \o tags \o values \o link \o index
  BY DEF SaveItem
<1>. HIDE DEF new
<1>2. AreSteps(AreFilling, revise) /\ Ready(revise, rows)
  BY ReviseIs
<1>3. Calm(put) /\ Meets(put, "item", i)
  BY PutItem
<1>4. AreSteps(AreCalm, groups) /\ AreSteps(AreCalm, tags)
  BY ReplaceCalm, ReadIs
<1>5. AreSteps(AreFillingOne(i), values)
  BY SaveValuesFill
<1>6. AreSteps(AreCalm, link)
  <2>1. CalmCall(<<"link", i, form.link>>)
    BY DEF CalmCall
  <2>. QED
    BY <2>1, CalmOne, WhenSteps
<1>7. AreSteps(AreFillingOne(i), index)
  <2>1. Fits(AreFillingOne(i), Call(<<"index", i, form.text>>))
    BY CallFills DEF FillCall
  <2>. QED
    BY <2>1, OneStep
<1>. HIDE DEF revise, put, groups, tags, values, link, index
<1>8. Made(i, revise \o <<put>>, rows)
  BY <1>2, <1>3, MadeHere
<1>9. Made(i, revise \o <<put>> \o groups, rows)
  BY <1>4, <1>8, MadeCalm
<1>10. Made(i, revise \o <<put>> \o groups \o tags, rows)
  BY <1>4, <1>9, MadeCalm
<1>11. Made(i, revise \o <<put>> \o groups \o tags \o values, rows)
  BY <1>5, <1>10, MadeThen
<1>12. Made(i, revise \o <<put>> \o groups \o tags \o values \o link, rows)
  BY <1>6, <1>11, MadeCalm
<1>. QED
  BY <1>1, <1>7, <1>12, MadeThen

LEMMA FrontendFills ==
  ASSUME NEW i, NEW form, NEW rows
  PROVE  Made(i, FrontendForm(i, form, rows), rows)
<1>. DEFINE known == Has("item", i, rows)
            row == IF known THEN The("item", i, rows) ELSE NewItem
            read == IF known THEN Loaded(i, {"tagged"}, rows) ELSE {}
            status == IF form.submit THEN "pending"
                      ELSE IF form.publish THEN (IF form.status = "published" THEN "published" ELSE "draft")
                      ELSE row.status
            new == [row EXCEPT !.text = form.text, !.slug = SlugFor(i, form, rows), !.status = status,
                      !.featured = IF form.publish THEN form.featured ELSE @, !.category = CategoryOf(form, read)]
            put == Where(<<"put", "item", i, new, read>>)
            tags == ReplaceTags(i, Nameless(form.tags))
            values == SaveValues(i, form, rows)
<1>1. FrontendForm(i, form, rows) = <<put>> \o tags \o values
  BY DEF FrontendForm
<1>2. ReadOk(read)
  BY LoadedOk, ReadIs DEF Parts
<1>. HIDE DEF new, read
<1>3. Made(i, <<put>>, rows)
  BY <1>2, PutItem, MadeFirst
<1>4. AreSteps(AreCalm, tags) /\ AreSteps(AreFillingOne(i), values)
  BY ReplaceCalm, ReadIs, SaveValuesFill
<1>. HIDE DEF put, tags, values
<1>5. Made(i, <<put>> \o tags, rows)
  BY <1>3, <1>4, MadeCalm
<1>. QED
  BY <1>1, <1>4, <1>5, MadeThen

\* A handler that is over with an error at once.
LEMMA ReturnFills ==
  ASSUME NEW rows
  PROVE  AreSteps(AreFilling, <<Return>>) /\ Ready(<<Return>>, rows)
BY CalmOne, SortsOf, CalmForAll

LEMMA CloneFills ==
  ASSUME NEW i, NEW new, NEW rows
  PROVE  AreSteps(AreFilling, CloneItem(i, new, rows)) /\ Ready(CloneItem(i, new, rows), rows)
<1>. DEFINE old == The("item", i, rows)
            text == Copy[old.text]
            row == [NewItem EXCEPT !.text = text, !.slug = UniqueItemSlug(new, text, rows),
                      !.category = old.category, !.sort = old.sort, !.author = old.author]
            T == {r \in rows : r[1] = "tag" /\ r[2] \in Linked("tagged", i, rows)}
            G == Linked("sees", i, rows)
            put == Where(<<"put", "item", new, row, {}>>)
            tags == When(T # {}, ReplaceTags(new, T))
            groups == When(G # {}, ReplaceGroups(new, G))
            rest == <<Call(<<"copyValues", i, new>>), Call(<<"index", new, text>>)>>
<1>1. CloneItem(i, new, rows) = IF ~Has("item", i, rows) THEN <<Return>> ELSE <<put>> \o tags \o groups \o rest
  BY DEF CloneItem
<1>2. ReadOk(T)
  BY DEF ReadOk, Parts
<1>. HIDE DEF row, T, G, text
<1>3. Made(new, <<put>>, rows)
  BY ReadIs, PutItem, MadeFirst
<1>4. AreSteps(AreCalm, tags) /\ AreSteps(AreCalm, groups)
  BY <1>2, ReplaceCalm, WhenSteps
<1>5. AreSteps(AreFillingOne(new), rest)
  <2>1. Fits(AreFillingOne(new), Call(<<"copyValues", i, new>>)) /\ Fits(AreFillingOne(new), Call(<<"index", new, text>>))
    BY CallFills DEF FillCall
  <2>. QED
    BY <2>1, TwoSteps
<1>. HIDE DEF put, tags, groups, rest
<1>6. Made(new, <<put>> \o tags \o groups, rows)
  BY <1>3, <1>4, MadeCalm
<1>7. Made(new, <<put>> \o tags \o groups \o rest, rows)
  BY <1>5, <1>6, MadeThen
<1>. QED
  BY <1>1, <1>7, ReturnFills DEF Made

LEMMA RestoreFills ==
  ASSUME NEW i, NEW snap, IsFiniteSet(snap.values), NEW rows
  PROVE  AreSteps(AreFilling, RestoreFrom(i, snap, rows)) /\ Ready(RestoreFrom(i, snap, rows), rows)
<1>. DEFINE row == Restored(snap.row, The("item", i, rows))
            put == Where(<<"put", "item", i, row, {}>>)
            tags == ReplaceTags(i, Nameless(snap.tags))
            groups == ReplaceGroups(i, snap.groups)
            drop == <<DeleteOf("value", i)>>
            values == CreateValues(i, snap.values)
<1>1. RestoreFrom(i, snap, rows)
      = IF ~Has("item", i, rows) THEN <<Return>> ELSE <<put>> \o tags \o groups \o drop \o values
  BY DEF RestoreFrom
<1>. HIDE DEF row
<1>2. Made(i, <<put>>, rows)
  BY ReadIs, PutItem, MadeFirst
<1>3. AreSteps(AreCalm, tags) /\ AreSteps(AreCalm, groups) /\ AreSteps(AreCalm, drop)
  BY ReplaceCalm, ReadIs, DeleteCalm
<1>4. AreSteps(AreFillingOne(i), values)
  BY CreateEachFills
<1>. HIDE DEF put, tags, groups, drop, values
<1>5. Made(i, <<put>> \o tags \o groups, rows)
  BY <1>2, <1>3, MadeCalm
<1>6. Made(i, <<put>> \o tags \o groups \o drop \o values, rows)
  BY <1>3, <1>4, <1>5, MadeCalm, MadeThen
<1>. QED
  BY <1>1, <1>6, ReturnFills DEF Made

LEMMA ItemFormFills ==
  ASSUME NEW i, NEW form, NEW rows
  PROVE  AreSteps(AreFilling, ItemForm(i, form, rows)) /\ Ready(ItemForm(i, form, rows), rows)
<1>1. ASSUME NEW row, NEW read, ReadOk(read)
      PROVE  LET l == <<Call(<<"saveItem", i, form, row, read>>)>> IN AreSteps(AreFilling, l) /\ Ready(l, rows)
  <2>. DEFINE call == Call(<<"saveItem", i, form, row, read>>)
  <2>1. Fits(AreFilling, call) /\ \A j : ~FillsItem(call, j)
    BY <1>1, CallFills DEF FillCall
  <2>. HIDE DEF call
  <2>2. \A K, j : ~Waits(call, K, j)
    BY <2>1, FillersWait DEF Fits, AreFilling
  <2>. QED
    BY <2>1, <2>2, OneStep, ReadyOne DEF call
<1>2. ReadOk({}) /\ ReadOk(Loaded(i, {"tagged", "sees"}, rows))
  BY ReadIs, LoadedOk DEF Parts
<1>. QED
  BY <1>1, <1>2 DEF ItemForm

LEMMA RollbackFills ==
  ASSUME NEW i, NEW n, NEW rows, Recorded(rows)
  PROVE  AreSteps(AreFilling, Rollback(i, n, rows)) /\ Ready(Rollback(i, n, rows), rows)
<1>. DEFINE found == {r \in Of("revision", i, rows) : r[3] = n}
            snap == (CHOOSE r \in found : TRUE)[4]
            revise == Call(<<"revise", i>>)
            restore == Call(<<"restoreFrom", i, snap>>)
<1>1. Rollback(i, n, rows) = IF ~Has("item", i, rows) \/ found = {} THEN <<Return>> ELSE <<revise, restore>>
  BY DEF Rollback
<1>2. ASSUME found # {}
      PROVE  AreSteps(AreFilling, <<revise, restore>>) /\ Ready(<<revise, restore>>, rows)
  <2>1. PICK r \in found : snap = r[4]
    BY <1>2
  <2>2. r \in rows /\ r[1] = "revision"
    BY <2>1, OfIs
  <2>3. IsFiniteSet(snap.values)
    BY <2>1, <2>2 DEF Recorded, RowOk
  <2>. HIDE DEF snap
  <2>4. FillCall(<<"restoreFrom", i, snap>>) /\ FillCall(<<"revise", i>>)
    BY <2>3 DEF FillCall
  <2>5. Fits(AreFilling, revise) /\ Fits(AreFilling, restore)
        /\ \A j : ~FillsItem(revise, j) /\ ~FillsItem(restore, j)
    BY <2>4, CallFills
  <2>. HIDE DEF revise, restore
  <2>6. \A K, j : ~Waits(revise, K, j) /\ ~Waits(restore, K, j)
    BY <2>5, FillersWait DEF Fits, AreFilling
  <2>7. AreSteps(AreFilling, <<revise, restore>>)
    BY <2>5, TwoSteps
  <2>8. \A m \in DOMAIN <<revise, restore>> : <<revise, restore>>[m] \in {revise, restore}
    OBVIOUS
  <2>9. Ready(<<revise, restore>>, rows)
    BY <2>6, <2>8 DEF Ready
  <2>. QED
    BY <2>7, <2>9
<1>. QED
  BY <1>1, <1>2, ReturnFills

LEMMA ReviseFills ==
  ASSUME NEW i, NEW rows
  PROVE  AreSteps(AreFilling, CreateItemRevision(i, rows)) /\ Ready(CreateItemRevision(i, rows), rows)
<1>. DEFINE next == 1 + FoldSet(LAMBDA m, n : IF m > n THEN m ELSE n, 0, Numbers(i, rows))
            row == <<"revision", i, next, Snapshot(i, rows)>>
            add == Link({row})
            prune == Call(<<"prune", i>>)
<1>1. CreateItemRevision(i, rows) = IF ~Has("item", i, rows) THEN <<Return>> ELSE <<add, prune>>
  BY DEF CreateItemRevision
<1>. HIDE DEF next
<1>2. row[1] = "revision" /\ row[2] = i /\ row[4] = Snapshot(i, rows)
  OBVIOUS
<1>3. IsFiniteSet(Snapshot(i, rows).values)
  BY DataFinite DEF Snapshot
<1>. HIDE DEF row
<1>4. RowOk(row) /\ Owner(row) = i
  BY <1>2, <1>3 DEF RowOk, Owner
<1>5. add.do = "statement" /\ add.add = {row} /\ add.drop = {}
  BY StatementsAre
<1>. HIDE DEF add
<1>6. Fits(AreFillingOne(i), add)
  BY <1>4, <1>5 DEF Fits, AreFillingOne, Filler, FillsItem, Recorded
<1>7. Fits(AreFillingOne(i), prune)
  <2>1. Calm(prune)
    BY CalmSteps DEF CalmCall
  <2>. QED
    BY <2>1, CalmNoPart DEF Fits, AreFillingOne, Filler
<1>. HIDE DEF prune
<1>8. AreSteps(AreFillingOne(i), <<add, prune>>)
  BY <1>6, <1>7, TwoSteps
<1>9. Has("item", i, rows) => AreSteps(AreFilling, <<add, prune>>) /\ Ready(<<add, prune>>, rows)
  BY <1>8, SortsOf, ReadyThere DEF There
<1>. QED
  BY <1>1, <1>9, ReturnFills

LEMMA CommentFills ==
  ASSUME NEW c, NEW i, NEW rows
  PROVE  AreSteps(AreFilling, CreateComment(c, i, rows)) /\ Ready(CreateComment(c, i, rows), rows)
<1>. DEFINE row == [item |-> i, approved |-> AutoApprove]
            op == <<"put", "comment", c, row, {}>>
            put == Where(op)
<1>1. CreateComment(c, i, rows) = IF ~Has("item", i, rows) THEN <<Return>> ELSE <<put>>
  BY DEF CreateComment
<1>2. "item" \in DOMAIN row /\ row.item = i
  OBVIOUS
<1>. HIDE DEF row
<1>3. op[1] = "put" /\ op[2] = "comment" /\ op[4] = row /\ op[5] = {}
  OBVIOUS
<1>. HIDE DEF op
<1>4. put.do = "where" /\ put.op = op
  BY DEF Where
<1>. HIDE DEF put
<1>5. Fits(AreFillingOne(i), put)
  BY <1>2, <1>3, <1>4 DEF Fits, AreFillingOne, Filler, FillsItem
<1>6. AreSteps(AreFillingOne(i), <<put>>)
  BY <1>5, OneStep
<1>7. Has("item", i, rows) => AreSteps(AreFilling, <<put>>) /\ Ready(<<put>>, rows)
  BY <1>6, SortsOf, ReadyThere DEF There
<1>. QED
  BY <1>1, <1>7, ReturnFills

\* What a call that fills items goes on with, where the item it writes into is there.
LEMMA FillPlan ==
  ASSUME NEW op, FillCall(op), NEW rows, Recorded(rows), NEW c, \A i : FillsItem(Call(op), i) => There(i, rows)
  PROVE  AreSteps(AreFilling, Plan(op, rows, c)) /\ Ready(Plan(op, rows, c), rows)
<1>1. CASE op[1] = "saveItem" /\ ReadOk(op[5])
  <2>1. Plan(op, rows, c) = SaveItem(op[2], op[3], op[4], op[5], rows)
    BY <1>1 DEF Plan
  <2>. QED
    BY <1>1, <2>1, SaveItemFills DEF Made
<1>2. CASE op[1] = "restoreFrom" /\ IsFiniteSet(op[3].values)
  <2>1. Plan(op, rows, c) = RestoreFrom(op[2], op[3], rows)
    BY <1>2 DEF Plan
  <2>. QED
    BY <1>2, <2>1, RestoreFills
<1>3. CASE op[1] = "revise"
  <2>1. Plan(op, rows, c) = CreateItemRevision(op[2], rows)
    BY <1>3 DEF Plan
  <2>. QED
    BY <2>1, ReviseFills
<1>4. CASE op[1] \in {"saveValue", "copyValues", "index"}
  <2>1. There(IF op[1] = "copyValues" THEN op[3] ELSE op[2], rows)
    <3>1. Call(op).do = "call" /\ Call(op).op = op
      BY DEF Call
    <3>. QED
      BY <1>4, <3>1 DEF FillsItem
  <2>2. CASE op[1] = "saveValue"
    <3>1. Plan(op, rows, c) = SaveValue(op[2], op[3], op[4], rows)
      BY <2>2 DEF Plan
    <3>. QED
      BY <2>1, <2>2, <3>1, SaveValueFills, SortsOf, ReadyThere
  <2>3. CASE op[1] = "copyValues"
    <3>1. Plan(op, rows, c) = CopyValues(op[2], op[3], rows)
      BY <2>3 DEF Plan
    <3>2. AreSteps(AreFillingOne(op[3]), CopyValues(op[2], op[3], rows))
      BY DataFinite, CreateEachFills DEF CopyValues
    <3>. QED
      BY <2>1, <2>3, <3>1, <3>2, SortsOf, ReadyThere
  <2>4. CASE op[1] = "index"
    <3>1. Plan(op, rows, c) = UpsertSearchIndex(op[2], op[3], rows)
      BY <2>4 DEF Plan
    <3>. QED
      BY <2>1, <2>4, <3>1, IndexFills, SortsOf, ReadyThere
  <2>. QED
    BY <1>4, <2>2, <2>3, <2>4
<1>5. CASE Fills(op)
  <2>1. CASE op[1] = "itemForm"
    BY <2>1, ItemFormFills DEF Plan
  <2>2. CASE op[1] = "frontendForm"
    BY <2>2, FrontendFills DEF Plan, Made
  <2>3. CASE op[1] = "rollback"
    BY <2>3, RollbackFills DEF Plan
  <2>4. CASE op[1] = "clone"
    BY <2>4, CloneFills DEF Plan
  <2>5. CASE op[1] = "comment"
    BY <2>5, CommentFills DEF Plan
  <2>. QED
    BY <1>5, <2>1, <2>2, <2>3, <2>4, <2>5 DEF Fills
<1>. QED
  BY <1>1, <1>2, <1>3, <1>4, <1>5 DEF FillCall

----------------------------------------------------------------------------
\* Handlers that delete items: what they own goes first

LEMMA ClearSteps ==
  /\ \A op : ClearCall(op) => Fits(AreClearing, Call(op)) /\ Fits(AreClearing, Catch(<<Call(op)>>))
  /\ \A s : Calm(s) => Fits(AreClearing, s)
BY DEF Fits, AreClearing, Clearer, Call, Catch

\* Steps that delete items fill none.
LEMMA ClearersWait ==
  ASSUME NEW s, Clearer(s), NEW K, NEW i, Waits(s, K, i)
  PROVE  K \in Parts /\ Removes(s, i)
<1>1. ~FillsItem(s, i)
  <2>1. CASE Calm(s)
    BY <2>1, CalmNoPart
  <2>2. CASE ~Calm(s)
    BY <2>2 DEF Clearer, FillsItem, ClearCall, Clears
  <2>. QED
    BY <2>1, <2>2
<1>. QED
  BY <1>1 DEF Waits

LEMMA DeleteItemClears ==
  ASSUME NEW i, NEW rows
  PROVE  AreSteps(AreClearing, DeleteItem(i)) /\ Ready(DeleteItem(i), rows)
<1>. DEFINE l == DeleteItem(i)
            comments == Where(<<"deleteComments", i>>)
            last == DeleteOf("item", i)
<1>1. l = <<TryDelete("indexed", i), TryDelete("sees", i), TryDelete("tagged", i), TryDelete("value", i),
            TryDelete("revision", i), comments, last>>
  BY DEF DeleteItem
<1>2. \A what \in {"indexed", "sees", "tagged", "value", "revision"} : Calm(TryDelete(what, i))
  BY DeleteCalm
<1>3. Calm(comments)
  BY WheresCalm, CalmSteps
<1>4. Clearer(last)
  BY DEF Clearer, DeleteOf, Where
<1>5. \A what \in {"indexed", "value", "revision"} : Meets(TryDelete(what, i), what, i)
  BY DEF Meets, TryDelete, Where, Parts
<1>6. Meets(comments, "comment", i)
  BY DEF Meets, Where
<1>7. \A j : Removes(last, j) => j = i
  BY DEF Removes, DeleteOf, Where
<1>. HIDE DEF l, comments, last
<1>8. /\ l \in Seq({l[n] : n \in DOMAIN l}) /\ DOMAIN l = 1..7
      /\ l[1] = TryDelete("indexed", i) /\ l[2] = TryDelete("sees", i) /\ l[3] = TryDelete("tagged", i)
      /\ l[4] = TryDelete("value", i) /\ l[5] = TryDelete("revision", i) /\ l[6] = comments /\ l[7] = last
  BY <1>1
<1>9. \A n \in DOMAIN l : n # 7 => Calm(l[n])
  BY <1>2, <1>3, <1>8
<1>10. AreSteps(AreClearing, l)
  <2>1. \A n \in DOMAIN l : Fits(AreClearing, l[n])
    BY <1>4, <1>8, <1>9 DEF Fits, AreClearing, Clearer
  <2>. QED
    BY <1>8, <2>1 DEF AreSteps
<1>11. Ready(l, rows)
  <2>. SUFFICES ASSUME NEW K, NEW j, NEW n \in DOMAIN l, Waits(l[n], K, j) PROVE Earlier(l, n, K, j)
    BY DEF Ready
  <2>1. n = 7
    BY <1>9, CalmNoPart
  <2>2. K \in Parts /\ j = i
    BY <1>4, <1>7, <1>8, <2>1, ClearersWait
  <2>3. \E m \in {1, 4, 5, 6} : Meets(l[m], K, i)
    BY <1>5, <1>6, <1>8, <2>2 DEF Parts
  <2>. QED
    BY <1>8, <2>1, <2>2, <2>3 DEF Earlier
<1>. QED
  BY <1>10, <1>11 DEF l

LEMMA BulkClears ==
  ASSUME NEW op, op[1] = "delete", NEW I, NEW rows
  PROVE  AreSteps(AreClearing, Bulk(op, I)) /\ Ready(Bulk(op, I), rows)
<1>1. \A j : ClearCall(<<"bulk", op, j>>)
  BY DEF ClearCall, Clears
<1>2. \A J : ClearCall(<<"bulkItems", op, J>>)
  BY DEF ClearCall, Clears, Handled, Handler, BulkAction
<1>3. AreSteps(AreClearing, Bulk(op, I))
  BY <1>1, <1>2, ClearSteps, BulkSteps
<1>4. \A n \in DOMAIN Bulk(op, I) : Bulk(op, I)[n].do # "where"
  <2>. DEFINE i == CHOOSE x \in I : TRUE
              others == Call(<<"bulkItems", op, I \ {i}>>)
              first == Call(<<"bulk", op, i>>)
              catch == Catch(<<others>>)
  <2>1. Bulk(op, I) \in {<<>>, <<first, catch, others>>}
    BY DEF Bulk, TheFirst
  <2>2. first.do # "where" /\ catch.do # "where" /\ others.do # "where"
    BY DEF Call, Catch
  <2>. HIDE DEF first, catch, others
  <2>. QED
    BY <2>1, <2>2
<1>5. Ready(Bulk(op, I), rows)
  <2>1. \A n \in DOMAIN Bulk(op, I) : Clearer(Bulk(op, I)[n])
    BY <1>3 DEF AreSteps, AreClearing, Fits
  <2>. QED
    BY <1>4, <2>1, ClearersWait DEF Ready, Removes
<1>. QED
  BY <1>3, <1>5

LEMMA ClearPlan ==
  ASSUME NEW op, ClearCall(op), NEW rows, NEW c
  PROVE  AreSteps(AreClearing, Plan(op, rows, c)) /\ Ready(Plan(op, rows, c), rows)
<1>1. CASE op[1] = "deleteItem"
  <2>1. Plan(op, rows, c) = DeleteItem(op[2])
    BY <1>1 DEF Plan
  <2>. QED
    BY <2>1, DeleteItemClears
<1>2. CASE op[1] = "emptyTrash"
  <2>. DEFINE trash == {i \in Ids("item", rows) : The("item", i, rows).status = "trashed"}
  <2>1. Plan(op, rows, c) = Bulk(<<"delete">>, trash)
    BY <1>2 DEF Plan, EmptyTrash
  <2>. HIDE DEF trash
  <2>. QED
    BY <2>1, BulkClears
<1>3. CASE op[1] = "bulkItems" /\ op[2][1] = "delete"
  <2>1. Plan(op, rows, c) = Bulk(op[2], op[3])
    BY <1>3 DEF Plan
  <2>. QED
    BY <1>3, <2>1, BulkClears
<1>4. CASE op[1] = "bulk" /\ op[2][1] = "delete"
  <2>1. Plan(op, rows, c) = DeleteItem(op[3])
    BY <1>4 DEF Plan, BulkOne
  <2>. QED
    BY <2>1, DeleteItemClears
<1>. QED
  BY <1>1, <1>2, <1>3, <1>4 DEF ClearCall, Clears

----------------------------------------------------------------------------
\* The invariant: while no statement has failed by itself, every part has its item, and what
\* the steps of a request wait for is there or comes before them

Orderly(one, w, l, rows) ==
  /\ Ready(l, rows)
  /\ AreSteps(AreCalm, l) \/ (w = one /\ (AreSteps(AreFilling, l) \/ AreSteps(AreClearing, l)))
Underway(w, o, l) == worker[w] = [op |-> o, todo |-> l] /\ l # <<>>
Served(w) == worker[w] = Server!Idle \/ \E o, l : Underway(w, o, l)
AllOrderly(one) ==
  /\ DOMAIN worker = Worker
  /\ Owned(db) /\ Recorded(db)
  /\ \A w \in Worker : Served(w) /\ Orderly(one, w, worker[w].todo, db)
LeftInv(one) == faults \in Nat /\ (faults = 0 => AllOrderly(one))

LEMMA CalmOrderly ==
  ASSUME NEW one, NEW w, NEW l, AreSteps(AreCalm, l), NEW rows
  PROVE  Orderly(one, w, l, rows)
BY CalmForAll DEF Orderly

LEMMA LeftInit ==
  ASSUME OwnedAtStart, NEW one, Server!Init
  PROVE  LeftInv(one)
<1>1. DOMAIN worker = Worker /\ \A w \in Worker : worker[w] = Server!Idle
  BY DEF Server!Init
<1>2. \A w \in Worker : worker[w].todo = <<>>
  BY <1>1 DEF Server!Idle
<1>3. \A w \in Worker : Orderly(one, w, <<>>, db)
  BY CalmOne, CalmOrderly
<1>4. faults = 0 /\ Owned(db) /\ Recorded(db)
  BY DEF Server!Init, OwnedAtStart
<1>. QED
  BY <1>1, <1>2, <1>3, <1>4 DEF LeftInv, AllOrderly, Served

----------------------------------------------------------------------------
\* What is ready stays so

LEMMA MetGentle ==
  ASSUME NEW rows, NEW new, Gentle(rows, new), NEW K, NEW i, K = "item" \/ K \in Parts, Met(K, i, rows)
  PROVE  Met(K, i, new)
BY DEF Met, Gentle

LEMMA ReadyGentle ==
  ASSUME NEW rows, NEW new, Gentle(rows, new), NEW l, Ready(l, rows)
  PROVE  Ready(l, new)
<1>1. \A s, K, i : Waits(s, K, i) => K = "item" \/ K \in Parts
  BY DEF Waits
<1>. QED
  BY <1>1, MetGentle DEF Ready

LEMMA GentleOwned ==
  ASSUME NEW rows, NEW new, Gentle(rows, new), Owned(rows)
  PROVE  Owned(new)
<1>. SUFFICES ASSUME NEW r \in new, r[1] \in Parts PROVE There(Owner(r), new)
  BY DEF Owned
<1>1. ~Free(r[1], Owner(r), new)
  BY DEF Free
<1>2. ~Free(r[1], Owner(r), rows)
  BY <1>1 DEF Gentle
<1>3. PICK q \in rows : q[1] = r[1] /\ Owner(q) = Owner(r)
  BY <1>2 DEF Free
<1>4. There(Owner(r), rows)
  BY <1>3 DEF Owned
<1>. QED
  BY <1>4 DEF Gentle

LEMMA GentleSelf ==
  ASSUME NEW rows
  PROVE  Gentle(rows, rows)
BY DEF Gentle

LEMMA HeadWaits ==
  ASSUME NEW l, NEW S, l \in Seq(S), l # <<>>, NEW rows, Ready(l, rows), NEW K, NEW i, Waits(Head(l), K, i)
  PROVE  Met(K, i, rows)
<1>1. 1 \in DOMAIN l /\ Head(l) = l[1] /\ \A n \in DOMAIN l : n \in Nat /\ n > 0
  BY TailIs
<1>2. ~Earlier(l, 1, K, i)
  BY <1>1 DEF Earlier
<1>. QED
  BY <1>1, <1>2 DEF Ready

\* A step that is no statement lets the others be ready.
LEMMA TailWaits ==
  ASSUME NEW l, NEW S, l \in Seq(S), l # <<>>, NEW rows, Ready(l, rows), \A K, i : Meets(Head(l), K, i) => Met(K, i, rows)
  PROVE  Ready(Tail(l), rows)
BY TailReady

\* One request goes on; items are filled and deleted by none but one goroutine.
LEMMA Others ==
  ASSUME NEW one, AllOrderly(one), NEW w \in Worker, (DOMAIN worker)' = Worker,
         \A v \in Worker : v # w => worker'[v] = worker[v],
         Served(w)', Orderly(one, w, worker'[w].todo, db'),
         Owned(db'), Recorded(db'), w = one \/ Gentle(db, db')
  PROVE  AllOrderly(one)'
<1>1. ASSUME NEW v \in Worker
      PROVE  Served(v)' /\ Orderly(one, v, worker'[v].todo, db')
  <2>1. CASE v = w
    BY <2>1
  <2>2. CASE v # w
    <3>1. worker'[v] = worker[v] /\ Served(v) /\ Orderly(one, v, worker[v].todo, db)
      BY <2>2 DEF AllOrderly
    <3>2. Served(v)'
      BY <3>1 DEF Served, Underway, Server!Idle
    <3>3. CASE Gentle(db, db')
      BY <3>1, <3>2, <3>3, ReadyGentle DEF Orderly
    <3>4. CASE w = one
      <4>1. AreSteps(AreCalm, worker[v].todo)
        BY <2>2, <3>1, <3>4 DEF Orderly
      <4>. QED
        BY <3>1, <3>2, <4>1, CalmOrderly
    <3>. QED
      BY <3>3, <3>4
  <2>. QED
    BY <2>1, <2>2
<1>2. \A v \in Worker : Orderly(one, v, worker[v].todo, db)' <=> Orderly(one, v, worker'[v].todo, db')
  BY DEF Orderly, Ready, Met, Free, There, Has
<1>. QED
  BY <1>1, <1>2 DEF AllOrderly, Owned, Recorded, There, Has

LEMMA InsteadDoes ==
  ASSUME NEW w \in Worker, DOMAIN worker = Worker, NEW o, NEW l, worker[w] = [op |-> o, todo |-> l],
         NEW steps, Server!Instead(w, steps)
  PROVE  /\ (DOMAIN worker)' = Worker
         /\ \A v \in Worker : v # w => worker'[v] = worker[v]
         /\ worker'[w] = IF steps = <<>> THEN Server!Idle ELSE [op |-> o, todo |-> steps]
<1>. DEFINE new == IF steps = <<>> THEN Server!Idle ELSE [worker[w] EXCEPT !.todo = steps]
<1>1. worker' = [worker EXCEPT ![w] = new]
  BY DEF Server!Instead
<1>2. new = IF steps = <<>> THEN Server!Idle ELSE [op |-> o, todo |-> steps]
  OBVIOUS
<1>. HIDE DEF new
<1>3. /\ (DOMAIN worker)' = Worker
      /\ \A v \in Worker : v # w => worker'[v] = worker[v]
      /\ worker'[w] = new
  BY <1>1
<1>. QED
  BY <1>2, <1>3

LEMMA GoesOn ==
  ASSUME NEW one, AllOrderly(one), NEW w \in Worker, NEW o, NEW l, Underway(w, o, l),
         NEW steps, Server!Instead(w, steps), Orderly(one, w, steps, db'),
         Owned(db'), Recorded(db'), w = one \/ Gentle(db, db')
  PROVE  AllOrderly(one)'
<1>1. /\ (DOMAIN worker)' = Worker
      /\ \A v \in Worker : v # w => worker'[v] = worker[v]
      /\ worker'[w] = IF steps = <<>> THEN Server!Idle ELSE [op |-> o, todo |-> steps]
  BY InsteadDoes DEF AllOrderly, Underway
<1>2. worker'[w].todo = steps
  BY <1>1 DEF Server!Idle
<1>3. Served(w)'
  <2>1. CASE steps = <<>>
    BY <1>1, <2>1 DEF Served, Server!Idle
  <2>2. CASE steps # <<>>
    <3>1. Underway(w, o, steps)'
      BY <1>1, <2>2 DEF Underway
    <3>. QED
      BY <3>1 DEF Served
  <2>. QED
    BY <2>1, <2>2
<1>. QED
  BY <1>1, <1>2, <1>3, Others

LEMMA UnderwayIs ==
  ASSUME NEW one, AllOrderly(one), NEW w \in Worker, NEW do, Server!At(w, do)
  PROVE  \E o, l : Underway(w, o, l) /\ Head(l).do = do /\ Orderly(one, w, l, db) /\ l # <<>> /\ \E S : l \in Seq(S)
<1>1. PICK o, l : Underway(w, o, l)
  BY DEF AllOrderly, Served, Server!At, Server!Busy
<1>2. Head(l).do = do /\ l # <<>> /\ worker[w].todo = l
  BY <1>1 DEF Server!At, Underway
<1>3. Orderly(one, w, l, db)
  BY <1>2 DEF AllOrderly
<1>. QED
  BY <1>1, <1>2, <1>3 DEF Orderly, AreSteps

----------------------------------------------------------------------------
\* What the statements do

LEMMA FillEffect ==
  ASSUME NEW s, NEW rows, Recorded(rows), Owned(rows),
         \A r \in s.add : RowOk(r) /\ (r[1] \in Parts => There(Owner(r), rows)),
         \A r \in s.drop : r[1] # "item"
  PROVE  LET new == Result(s, rows) IN
         Recorded(new) /\ Owned(new) /\ \A i : There(i, rows) => There(i, new)
<1>. DEFINE new == Result(s, rows)
<1>1. \A r : r \in new => r \in rows \/ r \in s.add
  BY DEF Result
<1>2. \A r \in rows : r[1] = "item" => r \in new
  BY DEF Result
<1>. HIDE DEF new
<1>3. Recorded(new)
  BY <1>1 DEF Recorded
<1>4. \A i : There(i, rows) => There(i, new)
  BY <1>2 DEF There, Has
<1>5. Owned(new)
  BY <1>1, <1>4 DEF Owned
<1>. QED
  BY <1>3, <1>4, <1>5 DEF new

\* An item goes of which nothing is left.
LEMMA ClearEffect ==
  ASSUME NEW i, NEW rows, Recorded(rows), Owned(rows), \A K \in Parts : Free(K, i, rows),
         NEW s, s.add = {}, s.drop = {} \/ s.drop = Of("item", i, rows)
  PROVE  LET new == Result(s, rows) IN
         Recorded(new) /\ Owned(new) /\ \A K, j : Free(K, j, rows) => Free(K, j, new)
<1>. DEFINE new == Result(s, rows)
<1>1. \A r : r \in new => r \in rows
  BY DEF Result
<1>2. \A r \in rows : r \in new \/ (r[1] = "item" /\ r[2] = i)
  BY OfIs DEF Result
<1>. HIDE DEF new
<1>3. Recorded(new) /\ \A K, j : Free(K, j, rows) => Free(K, j, new)
  BY <1>1 DEF Recorded, Free
<1>4. \A j : j # i /\ There(j, rows) => There(j, new)
  BY <1>2 DEF There, Has
<1>5. Owned(new)
  BY <1>1, <1>4 DEF Owned, Free
<1>. QED
  BY <1>3, <1>5 DEF new

\* Statements that others wait for: they cannot be ignored, or cannot fail.
Works(s, rows) == s.clash \cap rows = {} /\ \A N \in s.needs : N \cap rows # {}

LEMMA MeetsPut ==
  ASSUME NEW i, NEW row, NEW read, NEW rows, NEW sql, sql = Head(Put("item", i, row, read, rows))
  PROVE  sql.vital = TRUE /\ (Works(sql, rows) => There(i, Result(sql, rows)))
<1>. DEFINE add == {<<"item", i, row>>} \cup {r \in read : r[1] \in {"tagged", "sees"} \/ ~Has(r[1], r[2], rows)}
            write == Write(Of("item", i, rows), add)
<1>1. sql \in {Fails, write}
  BY DEF Put
<1>2. write.vital = TRUE /\ write.add = add /\ write.upsert = TRUE
  BY DEF Write, Statement
<1>3. <<"item", i, row>> \in add /\ <<"item", i, row>>[1] = "item" /\ <<"item", i, row>>[2] = i
  OBVIOUS
<1>. HIDE DEF add
<1>4. There(i, Result(write, rows))
  BY <1>2, <1>3 DEF Result, There, Has
<1>5. Fails.vital = TRUE /\ ~Works(Fails, rows)
  BY DEF Fails, Needing, Statement, Works
<1>. HIDE DEF write
<1>. QED
  BY <1>1, <1>2, <1>4, <1>5

LEMMA MeetsDrop ==
  ASSUME NEW K \in Parts, NEW i, NEW rows, NEW old, NEW sql, sql = Ignored(Delete(old)),
         \A r \in rows : r[1] = K /\ Owner(r) = i => r \in old
  PROVE  Works(sql, rows) /\ Free(K, i, Result(sql, rows))
<1>1. sql.clash = {} /\ sql.needs = {} /\ sql.upsert = TRUE /\ sql.drop = old /\ sql.add = {}
  BY StatementsAre
<1>. QED
  BY <1>1 DEF Works, Result, Free

LEMMA MeetsMet ==
  ASSUME NEW s, NEW K, NEW i, Meets(s, K, i), NEW rows, NEW c
  PROVE  LET sql == Head(Plan(s.op, rows, c)) IN
         (sql.vital = TRUE \/ Works(sql, rows)) /\ (Works(sql, rows) => Met(K, i, Result(sql, rows)))
<1>. DEFINE sql == Head(Plan(s.op, rows, c))
<1>1. CASE K = "item" /\ s.op[1] = "put" /\ s.op[2] = "item" /\ s.op[3] = i
  <2>1. sql = Head(Put("item", i, s.op[4], s.op[5], rows))
    BY <1>1 DEF Plan
  <2>. HIDE DEF sql
  <2>2. sql.vital = TRUE /\ (Works(sql, rows) => There(i, Result(sql, rows)))
    BY <2>1, MeetsPut
  <2>. QED
    BY <1>1, <2>2 DEF Met, sql
<1>2. CASE K = "comment" /\ s.op = <<"deleteComments", i>>
  <2>. DEFINE old == {r \in rows : r[1] = "comment" /\ r[3].item = i}
  <2>1. s.op[1] = "deleteComments" /\ s.op[2] = i
    BY <1>2
  <2>2. sql = Ignored(Delete(old))
    BY <2>1 DEF Plan, DeleteComments
  <2>3. \A r \in rows : r[1] = "comment" /\ Owner(r) = i => r \in old
    BY DEF Owner
  <2>. HIDE DEF old, sql
  <2>4. Works(sql, rows) /\ Free("comment", i, Result(sql, rows))
    BY <2>2, <2>3, MeetsDrop DEF Parts
  <2>. QED
    BY <1>2, <2>4 DEF Met, sql
<1>3. CASE K \in Parts \ {"comment"} /\ s.op = <<"tryDelete", K, i>>
  <2>1. s.op[1] = "tryDelete" /\ s.op[2] = K /\ s.op[3] = i
    BY <1>3
  <2>2. sql = Ignored(DeleteRows(K, i, rows)[1])
    BY <2>1 DEF Plan
  <2>3. DeleteRows(K, i, rows)[1] = Delete(Of(K, i, rows))
    <3>. DEFINE first == Head(DeleteRows(K, i, rows))
    <3>1. DeleteRows(K, i, rows) = <<first>> /\ first = Delete(Of(K, i, rows))
      BY <1>3, DeletesRows DEF Parts
    <3>. HIDE DEF first
    <3>. QED
      BY <3>1
  <2>4. \A r \in rows : r[1] = K /\ Owner(r) = i => r \in Of(K, i, rows)
    BY <1>3 DEF Owner, Of
  <2>. HIDE DEF sql
  <2>5. Works(sql, rows) /\ Free(K, i, Result(sql, rows))
    BY <1>3, <2>2, <2>3, <2>4, MeetsDrop
  <2>6. K # "item"
    BY <1>3 DEF Parts
  <2>. QED
    BY <2>5, <2>6 DEF Met, sql
<1>. QED
  BY <1>1, <1>2, <1>3 DEF Meets

----------------------------------------------------------------------------
\* Every step keeps the invariant

LEMMA FitsIs ==
  /\ \A s : Fits(AreCalm, s) <=> Calm(s)
  /\ \A s : Fits(AreFilling, s) <=> Filler(s)
  /\ \A s : Fits(AreClearing, s) <=> Clearer(s)
BY DEF Fits, AreCalm, AreFilling, AreClearing

LEMMA CallsPlan ==
  ASSUME NEW l, NEW S, l \in Seq(S), l # <<>>, Head(l).do = "call", NEW rows, Ready(l, rows), Recorded(rows), NEW c
  PROVE  LET plan == Plan(Head(l).op, rows, c) IN
         /\ AreSteps(AreCalm, l) => AreSteps(AreCalm, plan \o Tail(l))
         /\ AreSteps(AreFilling, l) => AreSteps(AreFilling, plan \o Tail(l)) /\ Ready(plan \o Tail(l), rows)
         /\ AreSteps(AreClearing, l) => AreSteps(AreClearing, plan \o Tail(l)) /\ Ready(plan \o Tail(l), rows)
<1>. DEFINE op == Head(l).op
            plan == Plan(op, rows, c)
<1>1. Ready(Tail(l), rows)
  <2>1. \A K, i : ~Meets(Head(l), K, i)
    BY DEF Meets
  <2>. QED
    BY <2>1, TailWaits
<1>2. ASSUME CalmCall(op)
      PROVE  AreSteps(AreCalm, plan)
  BY <1>2, CalmPlan
<1>3. ASSUME AreSteps(AreCalm, l)
      PROVE  AreSteps(AreCalm, plan \o Tail(l))
  <2>1. Calm(Head(l)) /\ AreSteps(AreCalm, Tail(l))
    BY <1>3, TailSteps, FitsIs
  <2>2. CalmCall(op)
    BY <2>1 DEF Calm
  <2>. HIDE DEF plan, op
  <2>. QED
    BY <1>2, <2>1, <2>2, ConcatSteps
<1>4. ASSUME AreSteps(AreFilling, l)
      PROVE  AreSteps(AreFilling, plan \o Tail(l)) /\ Ready(plan \o Tail(l), rows)
  <2>1. Filler(Head(l)) /\ AreSteps(AreFilling, Tail(l))
    BY <1>4, TailSteps, FitsIs
  <2>2. CalmCall(op) \/ FillCall(op)
    BY <2>1 DEF Filler, Calm
  <2>3. ASSUME NEW i, FillsItem(Call(op), i)
        PROVE  There(i, rows)
    <3>1. Call(op).do = "call" /\ Call(op).op = op
      BY DEF Call
    <3>2. FillsItem(Head(l), i)
      BY <2>3, <3>1 DEF FillsItem
    <3>3. Met("item", i, rows)
      BY <3>2, HeadWaits DEF Waits
    <3>. QED
      BY <3>3 DEF Met
  <2>4. AreSteps(AreFilling, plan) /\ Ready(plan, rows)
    <3>1. CASE CalmCall(op)
      <4>. HIDE DEF plan, op
      <4>. QED
        BY <1>2, <3>1, SortsOf, CalmForAll
    <3>2. CASE FillCall(op)
      BY <2>3, <3>2, FillPlan
    <3>. QED
      BY <2>2, <3>1, <3>2
  <2>. HIDE DEF plan
  <2>5. (\E T : plan \in Seq(T)) /\ \E T : Tail(l) \in Seq(T)
    BY <2>1, <2>4 DEF AreSteps
  <2>. QED
    BY <1>1, <2>1, <2>4, <2>5, ConcatSteps, ReadyBoth
<1>5. ASSUME AreSteps(AreClearing, l)
      PROVE  AreSteps(AreClearing, plan \o Tail(l)) /\ Ready(plan \o Tail(l), rows)
  <2>1. Clearer(Head(l)) /\ AreSteps(AreClearing, Tail(l))
    BY <1>5, TailSteps, FitsIs
  <2>2. CalmCall(op) \/ ClearCall(op)
    BY <2>1 DEF Clearer, Calm
  <2>3. AreSteps(AreClearing, plan) /\ Ready(plan, rows)
    <3>1. CASE CalmCall(op)
      <4>. HIDE DEF plan, op
      <4>. QED
        BY <1>2, <3>1, SortsOf, CalmForAll
    <3>2. CASE ClearCall(op)
      BY <3>2, ClearPlan
    <3>. QED
      BY <2>2, <3>1, <3>2
  <2>. HIDE DEF plan
  <2>4. (\E T : plan \in Seq(T)) /\ \E T : Tail(l) \in Seq(T)
    BY <2>1, <2>3 DEF AreSteps
  <2>. QED
    BY <1>1, <2>1, <2>3, <2>4, ConcatSteps, ReadyBoth
<1>. QED
  BY <1>3, <1>4, <1>5

LEMMA LeftBegin ==
  ASSUME NEW one, OneForItems(one), AllOrderly(one), NEW w \in Worker, Server!Begin(w)
  PROVE  AllOrderly(one)'
<1>1. PICK o \in Does[w] : worker' = [worker EXCEPT ![w] = [op |-> o, todo |-> <<Call(o)>>]]
  BY DEF Server!Begin, Server!Call, Call
<1>2. db' = db
  BY DEF Server!Begin
<1>. DEFINE l == <<Call(o)>>
<1>3. Handled(o) /\ (Fills(o) \/ Clears(o) => w = one)
  BY ContentDoesAssumption DEF OneForItems
<1>4. Orderly(one, w, l, db)
  <2>1. CASE Fills(o)
    <3>1. FillCall(o) /\ o[1] \notin {"saveValue", "index", "copyValues"}
      BY <1>3, <2>1 DEF FillCall, Fills
    <3>2. Fits(AreFilling, Call(o)) /\ \A i : ~FillsItem(Call(o), i)
      BY <3>1, CallFills
    <3>3. \A K, i : ~Waits(Call(o), K, i)
      BY <3>2, FillersWait DEF Fits, AreFilling
    <3>. QED
      BY <1>3, <2>1, <3>2, <3>3, OneStep, ReadyOne DEF Orderly
  <2>2. CASE Clears(o)
    <3>1. Fits(AreClearing, Call(o)) /\ Call(o).do = "call"
      BY <1>3, <2>2, ClearSteps DEF ClearCall, Call
    <3>2. \A K, i : ~Waits(Call(o), K, i)
      BY <3>1, ClearersWait DEF Fits, AreClearing, Removes
    <3>. QED
      BY <1>3, <2>2, <3>1, <3>2, OneStep, ReadyOne DEF Orderly
  <2>3. CASE ~Fills(o) /\ ~Clears(o)
    <3>1. CalmCall(o)
      BY <1>3, <2>3 DEF CalmCall
    <3>. QED
      BY <3>1, CalmOne, CalmOrderly
  <2>. QED
    BY <2>1, <2>2, <2>3
<1>5. l # <<>>
  OBVIOUS
<1>6. worker' = [worker EXCEPT ![w] = [op |-> o, todo |-> l]]
  BY <1>1
<1>. HIDE DEF l
<1>7. /\ (DOMAIN worker)' = Worker
      /\ \A v \in Worker : v # w => worker'[v] = worker[v]
      /\ worker'[w] = [op |-> o, todo |-> l]
  BY <1>6 DEF AllOrderly
<1>8. Served(w)' /\ worker'[w].todo = l
  <2>1. Underway(w, o, l)'
    BY <1>5, <1>7 DEF Underway
  <2>. QED
    BY <1>7, <2>1 DEF Served
<1>9. Owned(db') /\ Recorded(db') /\ Gentle(db, db')
  BY <1>2, GentleSelf DEF AllOrderly
<1>10. Orderly(one, w, worker'[w].todo, db')
  BY <1>2, <1>4, <1>8
<1>. QED
  BY <1>7, <1>8, <1>9, <1>10, Others

LEMMA LeftExpand ==
  ASSUME NEW one, AllOrderly(one), NEW w \in Worker, Server!Expand(w)
  PROVE  AllOrderly(one)'
<1>1. PICK o, l : Underway(w, o, l) /\ Head(l).do = "call" /\ Orderly(one, w, l, db) /\ l # <<>> /\ \E S : l \in Seq(S)
  BY UnderwayIs DEF Server!Expand
<1>. DEFINE plan == Plan(Head(l).op, db, cached)
<1>2. Server!Instead(w, plan \o Tail(l)) /\ db' = db
  BY <1>1 DEF Server!Expand, Server!Now, Server!Later, Underway
<1>3. Ready(l, db) /\ Recorded(db) /\ Owned(db)
  BY <1>1 DEF Orderly, AllOrderly
<1>4. /\ AreSteps(AreCalm, l) => AreSteps(AreCalm, plan \o Tail(l))
      /\ AreSteps(AreFilling, l) => AreSteps(AreFilling, plan \o Tail(l)) /\ Ready(plan \o Tail(l), db)
      /\ AreSteps(AreClearing, l) => AreSteps(AreClearing, plan \o Tail(l)) /\ Ready(plan \o Tail(l), db)
  BY <1>1, <1>3, CallsPlan
<1>. HIDE DEF plan
<1>5. Orderly(one, w, plan \o Tail(l), db)
  BY <1>1, <1>4, CalmOrderly DEF Orderly
<1>6. Orderly(one, w, plan \o Tail(l), db') /\ Owned(db') /\ Recorded(db') /\ Gentle(db, db')
  BY <1>2, <1>3, <1>5, GentleSelf
<1>. QED
  BY <1>1, <1>2, <1>6, GoesOn

\* The sorts of a list are those of its steps to come.
LEMMA SortsStay ==
  ASSUME NEW one, NEW w, NEW l, NEW rows, Orderly(one, w, l, rows), l # <<>>, NEW new, Ready(Tail(l), new)
  PROVE  Orderly(one, w, Tail(l), new)
BY TailSteps DEF Orderly

\* A statement is executed.
LEMMA LeftExecute ==
  ASSUME NEW one, AllOrderly(one), NEW w \in Worker, Server!Execute(w)
  PROVE  AllOrderly(one)'
<1>1. PICK o, l, S : /\ Underway(w, o, l) /\ Head(l).do \in {"statement", "where"} /\ Orderly(one, w, l, db)
                     /\ l # <<>> /\ l \in Seq(S)
  BY UnderwayIs DEF Server!Execute, Server!Executing
<1>. DEFINE sql == Server!Sql(w)
            s == Head(l)
<1>2. Server!Instead(w, Tail(l)) /\ db' = Result(sql, db) /\ Works(sql, db)
  BY <1>1 DEF Server!Execute, Server!Effect, Result, Server!Proceed, Server!Later, Underway, Server!Allowed, Works
<1>3. sql = IF s.do = "where" THEN Head(Plan(s.op, db, cached)) ELSE s
  BY <1>1 DEF Server!Sql, Server!At, Server!Now, Server!Busy, Server!Idle, Underway
<1>. HIDE DEF sql
<1>4. Ready(l, db) /\ Recorded(db) /\ Owned(db)
  BY <1>1 DEF Orderly, AllOrderly
<1>5. \A K, i : Waits(s, K, i) => Met(K, i, db)
  BY <1>1, <1>4, HeadWaits
<1>6. \A K, i : Meets(s, K, i) => Met(K, i, db')
  <2>. SUFFICES ASSUME NEW K, NEW i, Meets(s, K, i) PROVE Met(K, i, db')
    OBVIOUS
  <2>1. sql = Head(Plan(s.op, db, cached))
    BY <1>3 DEF Meets
  <2>. HIDE DEF s
  <2>. QED
    BY <1>2, <2>1, MeetsMet
<1>7. ASSUME \A K, i : \A n \in DOMAIN Tail(l) : Waits(Tail(l)[n], K, i) => (Met(K, i, db) => Met(K, i, db'))
       PROVE  Ready(Tail(l), db')
  BY <1>1, <1>4, <1>6, <1>7, TailReady
<1>. DEFINE Done == Ready(Tail(l), db') /\ Owned(db') /\ Recorded(db') /\ (w = one \/ Gentle(db, db'))
<1>8. ASSUME Calm(s)
      PROVE  Done
  <2>1. Soft(sql, db)
    <3>1. CASE s.do = "where"
      <4>1. CalmWhere(s.op)
        BY <1>8, <3>1 DEF Calm
      <4>. QED
        BY <1>3, <1>4, <3>1, <4>1, CalmSoft
    <3>2. CASE s.do = "statement"
      <4>1. (\A r \in s.add : r[1] \notin Parts) /\ (\A r \in s.drop : r[1] # "item")
        BY <1>8, <3>2 DEF Calm
      <4>. QED
        BY <1>3, <3>2, <4>1, BlandSoft
    <3>. QED
      BY <1>1, <3>1, <3>2
  <2>2. Gentle(db, db')
    BY <1>2, <2>1, SoftGentle
  <2>3. Owned(db') /\ Recorded(db')
    BY <1>4, <2>2, GentleOwned DEF Gentle
  <2>4. Ready(Tail(l), db')
    <3>1. \A t, K, i : Waits(t, K, i) => K = "item" \/ K \in Parts
      BY DEF Waits
    <3>. QED
      BY <1>7, <2>2, <3>1, MetGentle
  <2>. QED
    BY <2>2, <2>3, <2>4
<1>9. ASSUME ~Calm(s), w = one, AreSteps(AreFilling, l)
      PROVE  Done
  <2>1. Filler(s) /\ \A n \in DOMAIN Tail(l) : Filler(Tail(l)[n])
    BY <1>1, <1>9, TailSteps, FitsIs DEF AreSteps
  <2>2. \A i : FillsItem(s, i) => There(i, db)
    BY <1>5 DEF Waits, Met
  <2>3. (\A r \in sql.add : RowOk(r) /\ (r[1] \in Parts => There(Owner(r), db))) /\ (\A r \in sql.drop : r[1] # "item")
    <3>1. CASE s.do = "where"
      <4>. DEFINE row == s.op[4]
                  c == s.op[3]
      <4>1. s.op[1] = "put" /\ s.op[2] = "comment" /\ "item" \in DOMAIN row /\ s.op[5] = {}
        BY <1>9, <2>1, <3>1 DEF Filler
      <4>2. sql = Head(Put("comment", c, row, {}, db))
        BY <1>3, <3>1, <4>1 DEF Plan
      <4>3. There(row.item, db)
        BY <2>2, <3>1, <4>1 DEF FillsItem
      <4>. HIDE DEF row, c, s
      <4>4. sql = Write(Of("comment", c, db), {<<"comment", c, row>>})
        <5>1. {r \in {} : r[1] \in {"tagged", "sees"} \/ ~Has(r[1], r[2], db)} = {}
          OBVIOUS
        <5>. QED
          BY <4>2, <5>1 DEF Put
      <4>5. sql.add = {<<"comment", c, row>>} /\ sql.drop = Of("comment", c, db)
        BY <4>4, StatementsAre
      <4>6. RowOk(<<"comment", c, row>>) /\ Owner(<<"comment", c, row>>) = row.item
        BY <4>1 DEF RowOk, Owner
      <4>. QED
        BY <4>3, <4>5, <4>6, OfIs
    <3>2. CASE s.do = "statement"
      <4>1. Recorded(s.add) /\ \A r \in s.drop : r[1] # "item"
        BY <1>9, <2>1, <3>2 DEF Filler
      <4>2. sql = s
        BY <1>3, <3>2
      <4>. QED
        BY <2>2, <3>2, <4>1, <4>2 DEF Recorded, FillsItem
    <3>. QED
      BY <1>1, <3>1, <3>2
  <2>4. Recorded(db') /\ Owned(db') /\ \A i : There(i, db) => There(i, db')
    BY <1>2, <1>4, <2>3, FillEffect
  <2>5. Ready(Tail(l), db')
    BY <1>7, <2>1, <2>4, FillersWait DEF Met
  <2>. QED
    BY <1>9, <2>4, <2>5
<1>10. ASSUME ~Calm(s), w = one, AreSteps(AreClearing, l)
      PROVE  Done
  <2>1. Clearer(s) /\ \A n \in DOMAIN Tail(l) : Clearer(Tail(l)[n])
    BY <1>1, <1>10, TailSteps, FitsIs DEF AreSteps
  <2>. DEFINE i == s.op[3]
  <2>2. s.do = "where" /\ s.op[1] = "delete" /\ s.op[2] = "item"
    BY <1>1, <1>10, <2>1 DEF Clearer
  <2>3. \A K \in Parts : Free(K, i, db)
    BY <1>5, <2>2 DEF Waits, Removes, Met, Parts
  <2>4. sql = Head(DeleteRows("item", i, db))
    BY <1>3, <2>2 DEF Plan
  <2>5. sql.add = {} /\ (sql.drop = {} \/ sql.drop = Of("item", i, db))
    BY <2>4, DeletesRows, StatementsAre
  <2>. HIDE DEF i
  <2>6. Recorded(db') /\ Owned(db') /\ \A K, j : Free(K, j, db) => Free(K, j, db')
    BY <1>2, <1>4, <2>3, <2>5, ClearEffect
  <2>7. Ready(Tail(l), db')
    BY <1>7, <2>1, <2>6, ClearersWait DEF Met, Parts
  <2>. QED
    BY <1>10, <2>6, <2>7
<1>11. Calm(s) \/ (w = one /\ (AreSteps(AreFilling, l) \/ AreSteps(AreClearing, l)))
  <2>1. AreSteps(AreCalm, l) => Calm(s)
    BY <1>1, TailSteps, FitsIs
  <2>. QED
    BY <1>1, <2>1 DEF Orderly
<1>12. Done
  BY <1>8, <1>9, <1>10, <1>11
<1>13. Orderly(one, w, Tail(l), db')
  BY <1>1, <1>12, SortsStay
<1>. QED
  BY <1>1, <1>2, <1>12, <1>13, GoesOn

\* An error that is caught goes on with one request of the same sort.
LEMMA CaughtIs ==
  ASSUME NEW one, NEW w, NEW l, NEW rows, Orderly(one, w, l, rows), l # <<>>,
         NEW k \in DOMAIN Tail(l), Tail(l)[k].do = "catch"
  PROVE  Orderly(one, w, Tail(l)[k].steps, rows)
<1>. DEFINE s == Tail(l)[k]
<1>1. \A sort : AreSteps(sort, l) => Fits(sort, s)
  BY TailSteps DEF AreSteps
<1>. HIDE DEF s
<1>2. Calm(s) => Orderly(one, w, s.steps, rows)
  BY CalmOne, CalmOrderly DEF Calm, s
<1>3. Filler(s) => Calm(s)
  BY DEF Filler, s
<1>4. ASSUME Clearer(s), ~Calm(s), w = one
      PROVE  Orderly(one, w, s.steps, rows)
  <2>1. PICK op : s.steps = <<Call(op)>> /\ ClearCall(op)
    BY <1>4 DEF Clearer, s
  <2>2. Fits(AreClearing, Call(op)) /\ Call(op).do = "call"
    BY <2>1, ClearSteps DEF Call
  <2>3. \A K, i : ~Waits(Call(op), K, i)
    BY <2>2, ClearersWait DEF Fits, AreClearing, Removes
  <2>4. AreSteps(AreClearing, <<Call(op)>>) /\ Ready(<<Call(op)>>, rows)
    BY <2>2, <2>3, OneStep, ReadyOne
  <2>. QED
    BY <1>4, <2>1, <2>4 DEF Orderly
<1>5. Calm(s) \/ Filler(s) \/ (w = one /\ Clearer(s))
  BY <1>1 DEF Orderly, Fits, AreCalm, AreFilling, AreClearing
<1>. QED
  BY <1>2, <1>3, <1>4, <1>5 DEF s

\* A request that fails is over or goes on with what catches it, unless the handler ignores the
\* failure; what it ignores cannot fail where others wait for it.
LEMMA LeftFails ==
  ASSUME NEW one, AllOrderly(one), NEW w \in Worker, faults \in Nat, faults = 0, faults' = 0,
         Server!Fail(w) \/ Server!GiveUp(w)
  PROVE  AllOrderly(one)'
<1>1. PICK o, l : /\ Underway(w, o, l) /\ Head(l).do \in {"statement", "where", "return"} /\ Orderly(one, w, l, db)
                  /\ l # <<>> /\ \E S : l \in Seq(S)
  BY UnderwayIs DEF Server!Fail, Server!GiveUp, Server!Executing
<1>2. db' = db
  BY DEF Server!Fail, Server!GiveUp
<1>3. Owned(db') /\ Recorded(db') /\ Gentle(db, db') /\ Ready(l, db)
  BY <1>1, <1>2, GentleSelf DEF AllOrderly, Orderly
<1>4. CASE Server!Errs(w)
  <2>1. PICK steps : /\ Server!Instead(w, steps)
                     /\ steps = <<>> \/ \E k \in DOMAIN Tail(l) : Tail(l)[k].do = "catch" /\ steps = Tail(l)[k].steps
    BY <1>1, <1>4 DEF Server!Errs, Server!Error, Server!Later, Underway
  <2>2. Orderly(one, w, steps, db)
    BY <1>1, <2>1, CaughtIs, CalmOne, CalmOrderly
  <2>. QED
    BY <1>1, <1>2, <1>3, <2>1, <2>2, GoesOn
<1>5. CASE ~Server!Errs(w)
  <2>. DEFINE sql == Server!Sql(w)
  <2>1. Server!Fail(w) /\ Server!Proceed(w) /\ sql.vital # TRUE
    BY <1>5 DEF Server!Fail, Server!GiveUp
  <2>2. Server!Instead(w, Tail(l))
    BY <1>1, <2>1 DEF Server!Proceed, Server!Later, Underway
  <2>3. ~Works(sql, db)
    <3>1. faults' # faults + 1
      OBVIOUS
    <3>2. ~Server!Allowed(sql)
      BY <2>1, <3>1 DEF Server!Fail
    <3>. QED
      BY <3>2 DEF Server!Allowed, Works
  <2>4. Head(l).do = "where" => sql = Head(Plan(Head(l).op, db, cached))
    BY <1>1 DEF Server!Sql, Server!At, Server!Now, Server!Busy, Server!Idle, Underway
  <2>. HIDE DEF sql
  <2>5. \A K, i : ~Meets(Head(l), K, i)
    BY <2>1, <2>3, <2>4, MeetsMet DEF Meets
  <2>6. Ready(Tail(l), db)
    BY <1>1, <1>3, <2>5, TailWaits
  <2>7. Orderly(one, w, Tail(l), db')
    BY <1>1, <1>2, <2>6, SortsStay
  <2>. QED
    BY <1>1, <1>3, <2>2, <2>7, GoesOn
<1>. QED
  BY <1>4, <1>5

LEMMA LeftPass ==
  ASSUME NEW one, AllOrderly(one), NEW w \in Worker, Server!Pass(w)
  PROVE  AllOrderly(one)'
<1>1. PICK o, l : Underway(w, o, l) /\ Head(l).do = "catch" /\ Orderly(one, w, l, db) /\ l # <<>> /\ \E S : l \in Seq(S)
  BY UnderwayIs DEF Server!Pass
<1>2. Server!Instead(w, Tail(l)) /\ db' = db
  BY <1>1 DEF Server!Pass, Server!Proceed, Server!Later, Underway
<1>3. Owned(db') /\ Recorded(db') /\ Gentle(db, db') /\ Ready(l, db)
  BY <1>1, <1>2, GentleSelf DEF AllOrderly, Orderly
<1>4. \A K, i : ~Meets(Head(l), K, i)
  BY <1>1 DEF Meets
<1>5. Ready(Tail(l), db)
  BY <1>1, <1>3, <1>4, TailWaits
<1>6. Orderly(one, w, Tail(l), db')
  BY <1>1, <1>2, <1>5, SortsStay
<1>. QED
  BY <1>1, <1>2, <1>3, <1>6, GoesOn

\* Nothing is cached of all this.
LEMMA NoneCached ==
  ASSUME NEW one, AllOrderly(one), NEW w \in Worker
  PROVE  /\ ~Server!View(w) /\ ~Server!Look(w) /\ ~Server!ReadRows(w) /\ ~Server!Store(w) /\ ~Server!Invalidate(w)
         /\ ~Server!Omit(w)
<1>1. ASSUME NEW do \in {"resolve", "read", "fill", "forget", "overlook"}, Server!At(w, do)
      PROVE  FALSE
  <2>1. PICK o, l : Head(l).do = do /\ Orderly(one, w, l, db) /\ l # <<>>
    BY <1>1, UnderwayIs
  <2>2. Calm(Head(l)) \/ Filler(Head(l)) \/ Clearer(Head(l))
    BY <2>1, TailSteps, FitsIs DEF Orderly
  <2>. QED
    BY <1>1, <2>1, <2>2 DEF Calm, Filler, Clearer
<1>2. ~Server!View(w)
  BY DEF Server!View, Key
<1>. QED
  BY <1>1, <1>2 DEF Server!Look, Server!ReadRows, Server!Store, Server!Invalidate, Server!Omit

LEMMA LeftStep ==
  ASSUME NEW one, OneForItems(one), LeftInv(one), [Server!Next]_(Server!vars)
  PROVE  LeftInv(one)'
<1>1. ASSUME NEW w \in Worker, Server!Begin(w) \/ Server!View(w) \/ Server!Step(w)
      PROVE  faults' \in {faults, faults + 1}
  BY <1>1 DEF Server!Begin, Server!View, Server!Step, Server!Expand, Server!Execute, Server!Fail, Server!GiveUp, Server!Pass,
     Server!Look, Server!ReadRows, Server!Store, Server!Invalidate, Server!Omit
<1>2. faults \in Nat /\ faults' \in {faults, faults + 1}
  BY <1>1 DEF LeftInv, Server!Next, Server!Evict, Server!vars
<1>3. ASSUME faults' = 0
      PROVE  AllOrderly(one)'
  <2>1. faults = 0 /\ AllOrderly(one)
    BY <1>2, <1>3 DEF LeftInv
  <2>2. ASSUME NEW w \in Worker, Server!Begin(w) \/ Server!View(w) \/ Server!Step(w)
        PROVE  AllOrderly(one)'
    BY <1>2, <1>3, <2>1, <2>2, LeftBegin, LeftExpand, LeftExecute, LeftFails, LeftPass, NoneCached DEF Server!Step
  <2>3. CASE UNCHANGED Server!vars
    <3>1. worker' = worker /\ db' = db
      BY <2>3 DEF Server!vars
    <3>2. \A w \in Worker : Served(w)' /\ Orderly(one, w, worker[w].todo, db)'
      BY <2>1, <3>1 DEF AllOrderly, Served, Underway, Server!Idle, Orderly, Ready, Met, Free, There, Has
    <3>. QED
      BY <2>1, <3>1, <3>2 DEF AllOrderly, Owned, Recorded, There, Has
  <2>4. \A k \in Key : FALSE
    BY DEF Key
  <2>. QED
    BY <2>2, <2>3, <2>4 DEF Server!Next
<1>. QED
  BY <1>2, <1>3 DEF LeftInv

----------------------------------------------------------------------------
\* What belongs to an item

\* However the forms, clones, rollbacks, comments and deletions of items that one goroutine serves
\* one after the other go on and end, failed ones among them, and whatever is done to tags,
\* categories, fields, comments and the states and places of the items at the same time: as long as
\* the database itself refuses no statement, a value, revision, comment or index entry has its item
\* (DeleteItemPermanent, saveItemFromForm, CloneItem, RollbackItemRevision, CreateItemRevision,
\* UpsertSearchIndex; src/internal/content).
THEOREM ItemsLeaveNothing == (\E one \in Worker : OneForItems(one)) /\ OwnedAtStart => (Spec => []NoLeftovers)
<1>. SUFFICES ASSUME \E one \in Worker : OneForItems(one), OwnedAtStart PROVE Spec => []NoLeftovers
  OBVIOUS
<1>1. PICK one \in Worker : OneForItems(one)
  OBVIOUS
<1>2. Server!Init => LeftInv(one)
  BY LeftInit
<1>3. LeftInv(one) /\ [Server!Next]_(Server!vars) => LeftInv(one)'
  BY <1>1, LeftStep
<1>4. LeftInv(one) => NoLeftovers
  <2>. SUFFICES ASSUME Owned(db), NEW i \in Item \ Ids("item", db)
                PROVE  /\ Of("value", i, db) \cup Of("revision", i, db) \cup Of("indexed", i, db) = {}
                       /\ \A r \in db : r[1] = "comment" => r[3].item # i
    BY DEF LeftInv, AllOrderly, NoLeftovers
  <2>1. ~There(i, db)
    BY DEF Ids, There, Has
  <2>2. \A r \in db : r[1] \in Parts => Owner(r) # i
    BY <2>1 DEF Owned
  <2>3. \A K \in Parts \ {"comment"} : Of(K, i, db) = {}
    BY <2>2 DEF Of, Owner
  <2>4. \A r \in db : r[1] = "comment" => r[3].item # i
    BY <2>2 DEF Owner, Parts
  <2>. QED
    BY <2>3, <2>4 DEF Parts
<1>. QED
  BY <1>2, <1>3, <1>4, PTL DEF Spec, Server!Spec

----------------------------------------------------------------------------
\* Lists in order

LEMMA Least ==
  ASSUME NEW S, S \subseteq Nat, S # {}
  PROVE  \E n \in S : \A m \in S : ~(m < n)
<1>. DEFINE R == {ss \in Nat \X Nat : ss[1] < ss[2]}
<1>1. IsWellFoundedOn(R, Nat)
  BY NatLessThanWellFounded DEF OpToRel
<1>. HIDE DEF R
<1>2. \E n \in S : \A m \in S : <<m, n>> \notin R
  BY <1>1, WFMin
<1>. QED
  BY <1>2 DEF R

LEMMA Products ==
  ASSUME NEW a \in Nat, NEW b \in Nat \ {0}
  PROVE  a * b \in Nat /\ a * b >= a /\ (a + 1) * b = a * b + b /\ (a > 0 => (a - 1) * b = a * b - b /\ (a - 1) * b \in Nat /\ (a - 1) * (b - 1) >= 0)
OBVIOUS

LEMMA TotalPagesAre ==
  ASSUME NEW total \in Nat, NEW size \in Nat \ {0}
  PROVE  LET P == ListTotalPages(total, size) IN
         P \in Nat \ {0} /\ P * size >= total /\ (P = 1 \/ P <= total)
<1>. DEFINE q == (total + size - 1) \div size
<1>1. CASE total = 0
  BY <1>1 DEF ListTotalPages
<1>2. CASE total # 0
  <2>1. q \in Int /\ q * size <= total + size - 1 /\ total + size - 1 < q * size + size
    OBVIOUS
  <2>2. q > 0
    BY <1>2, <2>1
  <2>3. q * size >= total
    BY <2>1
  <2>4. q <= total
    BY <1>2, <2>1
  <2>. QED
    BY <1>2, <2>1, <2>2, <2>3, <2>4 DEF ListTotalPages
<1>. QED
  BY <1>1, <1>2
\* A strict order of S.
Orders(R, S) ==
  /\ \A x \in S : <<x, x>> \notin R
  /\ \A x, y, z \in S : <<x, y>> \in R /\ <<y, z>> \in R => <<x, z>> \in R
  /\ \A x, y \in S : x # y => <<x, y>> \in R \/ <<y, x>> \in R
Below(R, S, x) == {y \in S : <<y, x>> \in R}

\* There is one element for each number of those that come before it.
LEMMA RanksAre ==
  ASSUME NEW S, IsFiniteSet(S), NEW R, Orders(R, S)
  PROVE  /\ Cardinality(S) \in Nat
         /\ \A n \in 1..Cardinality(S) : \E x \in S : Cardinality(Below(R, S, x)) = n - 1
         /\ \A x \in S : Cardinality(Below(R, S, x)) + 1 \in 1..Cardinality(S)
         /\ \A x, y \in S : Cardinality(Below(R, S, x)) = Cardinality(Below(R, S, y)) => x = y
<1>. DEFINE N == Cardinality(S)
            rank == [x \in S |-> Cardinality(Below(R, S, x)) + 1]
<1>1. N \in Nat
  BY FS_CardinalityType
<1>2. ASSUME NEW x \in S
      PROVE  IsFiniteSet(Below(R, S, x)) /\ Cardinality(Below(R, S, x)) \in Nat /\ Cardinality(Below(R, S, x)) < N
  <2>1. Below(R, S, x) \subseteq S /\ x \notin Below(R, S, x)
    BY DEF Below, Orders
  <2>2. Below(R, S, x) # S
    BY <2>1
  <2>. QED
    BY <2>1, <2>2, FS_Subset, FS_CardinalityType
<1>3. ASSUME NEW x \in S, NEW y \in S, <<x, y>> \in R
      PROVE  Cardinality(Below(R, S, x)) < Cardinality(Below(R, S, y))
  <2>1. Below(R, S, x) \subseteq Below(R, S, y) /\ x \in Below(R, S, y) /\ x \notin Below(R, S, x)
    BY <1>3 DEF Below, Orders
  <2>2. Below(R, S, x) # Below(R, S, y)
    BY <2>1
  <2>. QED
    BY <1>2, <2>1, <2>2, FS_Subset
<1>4. ASSUME NEW x \in S, NEW y \in S, Cardinality(Below(R, S, x)) = Cardinality(Below(R, S, y)), x # y
      PROVE  FALSE
  <2>1. Cardinality(Below(R, S, x)) \in Nat /\ Cardinality(Below(R, S, y)) \in Nat
    BY <1>2
  <2>2. <<x, y>> \in R \/ <<y, x>> \in R
    BY <1>4 DEF Orders
  <2>3. Cardinality(Below(R, S, x)) < Cardinality(Below(R, S, y)) \/ Cardinality(Below(R, S, y)) < Cardinality(Below(R, S, x))
    BY <1>3, <2>2
  <2>. QED
    BY <1>4, <2>1, <2>3
<1>5. rank \in [S -> 1..N]
  BY <1>1, <1>2
<1>6. \A x, y \in S : rank[x] = rank[y] => x = y
  BY <1>2, <1>4
<1>. HIDE DEF rank
<1>7. rank \in Injection(S, 1..N)
  BY <1>5, <1>6 DEF Injection, IsInjective
<1>8. IsFiniteSet(1..N) /\ Cardinality(1..N) = N
  BY <1>1, FS_Interval
<1>9. rank \in Surjection(S, 1..N)
  BY <1>7, <1>8, FS_Injection
<1>10. \A n \in 1..N : \E x \in S : rank[x] = n
  BY <1>9 DEF Surjection
<1>11. ASSUME NEW n \in 1..N PROVE \E x \in S : Cardinality(Below(R, S, x)) = n - 1
  <2>1. PICK x \in S : rank[x] = n
    BY <1>10
  <2>. QED
    BY <1>2, <2>1 DEF rank
<1>. QED
  BY <1>1, <1>2, <1>4, <1>11

\* Columns to sort by are as many for all; what is equal in them the database sets apart.
Sortable(key, S, k) == k \in Nat /\ DOMAIN key = S /\ \A x \in S : key[x] \in [1..k -> Int]
Apart(whim, S) == \A x, y \in S : whim[x] \in Nat /\ (whim[x] = whim[y] => x = y)

LEMMA BeforeIs ==
  ASSUME NEW S, NEW key, NEW k, Sortable(key, S, k)
  PROVE  /\ \A x \in S : ~Before(key[x], key[x])
         /\ \A x, y, z \in S : Before(key[x], key[y]) /\ Before(key[y], key[z]) => Before(key[x], key[z])
         /\ \A x, y \in S : key[x] # key[y] => Before(key[x], key[y]) \/ Before(key[y], key[x])
<1>1. \A x \in S : ~Before(key[x], key[x])
  BY DEF Before, Sortable
<1>2. ASSUME NEW x \in S, NEW y \in S, NEW z \in S, Before(key[x], key[y]), Before(key[y], key[z])
      PROVE  Before(key[x], key[z])
  <2>1. PICK n \in 1..k : key[x][n] < key[y][n] /\ \A m \in 1..(n - 1) : key[x][m] = key[y][m]
    BY <1>2 DEF Before, Sortable
  <2>2. PICK o \in 1..k : key[y][o] < key[z][o] /\ \A m \in 1..(o - 1) : key[y][m] = key[z][m]
    BY <1>2 DEF Before, Sortable
  <2>3. k \in Nat /\ n \in Nat /\ o \in Nat /\ \A v \in S : \A m \in 1..k : key[v][m] \in Int
    BY DEF Sortable
  <2>4. CASE n <= o
    <3>1. key[x][n] < key[z][n]
      BY <2>1, <2>2, <2>3, <2>4
    <3>2. \A m \in 1..(n - 1) : key[x][m] = key[z][m]
      BY <2>1, <2>2, <2>3, <2>4
    <3>. QED
      BY <3>1, <3>2 DEF Before, Sortable
  <2>5. CASE o < n
    <3>1. key[x][o] < key[z][o]
      BY <2>1, <2>2, <2>3, <2>5
    <3>2. \A m \in 1..(o - 1) : key[x][m] = key[z][m]
      BY <2>1, <2>2, <2>3, <2>5
    <3>. QED
      BY <3>1, <3>2 DEF Before, Sortable
  <2>. QED
    BY <2>3, <2>4, <2>5
<1>3. ASSUME NEW x \in S, NEW y \in S, key[x] # key[y]
      PROVE  Before(key[x], key[y]) \/ Before(key[y], key[x])
  <2>. DEFINE D == {m \in 1..k : key[x][m] # key[y][m]}
  <2>1. D # {}
    <3>. SUFFICES ASSUME \A m \in 1..k : key[x][m] = key[y][m] PROVE FALSE
      OBVIOUS
    <3>1. key[x] = [m \in 1..k |-> key[x][m]] /\ key[y] = [m \in 1..k |-> key[y][m]] /\ key[x] # key[y]
      BY <1>3 DEF Sortable
    <3>2. [m \in 1..k |-> key[x][m]] = [m \in 1..k |-> key[y][m]]
      OBVIOUS
    <3>. QED
      BY <3>1, <3>2
  <2>0. D \subseteq Nat
    BY DEF Sortable
  <2>. HIDE DEF D
  <2>2. PICK n \in D : \A m \in D : ~(m < n)
    BY <2>0, <2>1, Least
  <2>3. n \in 1..k /\ k \in Nat /\ key[x][n] # key[y][n] /\ \A m \in 1..(n - 1) : key[x][m] = key[y][m]
    BY <2>2 DEF D, Sortable
  <2>4. key[x][n] \in Int /\ key[y][n] \in Int /\ DOMAIN key[x] = 1..k /\ DOMAIN key[y] = 1..k
    BY <2>3 DEF Sortable
  <2>5. key[x][n] < key[y][n] \/ key[y][n] < key[x][n]
    BY <2>3, <2>4
  <2>. QED
    BY <2>3, <2>4, <2>5 DEF Before
<1>. QED
  BY <1>1, <1>2, <1>3

LEMMA AheadOrders ==
  ASSUME NEW S, NEW key, NEW k, Sortable(key, S, k), NEW whim, Apart(whim, S)
  PROVE  Orders({p \in S \X S : Ahead(p[1], p[2], key, whim)}, S)
<1>. DEFINE R == {p \in S \X S : Ahead(p[1], p[2], key, whim)}
<1>0. \A x, y \in S : <<x, y>> \in R <=> Before(key[x], key[y]) \/ (key[x] = key[y] /\ whim[x] < whim[y])
  BY DEF Ahead
<1>. HIDE DEF R
<1>1. \A x \in S : ~Before(key[x], key[x]) /\ ~(whim[x] < whim[x])
  BY BeforeIs DEF Apart
<1>2. ASSUME NEW x \in S, NEW y \in S, NEW z \in S, <<x, y>> \in R, <<y, z>> \in R
      PROVE  <<x, z>> \in R
  <2>1. key[x] = key[y] \/ Before(key[x], key[y])
    BY <1>0, <1>2
  <2>2. key[y] = key[z] \/ Before(key[y], key[z])
    BY <1>0, <1>2
  <2>3. CASE key[x] = key[y] /\ key[y] = key[z]
    <3>1. whim[x] < whim[y] /\ whim[y] < whim[z]
      BY <1>0, <1>1, <1>2, <2>3, Zenon
    <3>2. whim[x] < whim[z]
      BY <3>1 DEF Apart
    <3>. QED
      BY <1>0, <2>3, <3>2
  <2>4. CASE ~(key[x] = key[y] /\ key[y] = key[z])
    <3>1. Before(key[x], key[z])
      BY <2>1, <2>2, <2>4, BeforeIs, Zenon
    <3>. QED
      BY <1>0, <3>1
  <2>. QED
    BY <2>3, <2>4
<1>3. ASSUME NEW x \in S, NEW y \in S, x # y
      PROVE  <<x, y>> \in R \/ <<y, x>> \in R
  <2>1. CASE key[x] = key[y]
    <3>1. whim[x] < whim[y] \/ whim[y] < whim[x]
      BY <1>3 DEF Apart
    <3>. QED
      BY <1>0, <2>1, <3>1
  <2>2. CASE key[x] # key[y]
    BY <1>0, <2>2, BeforeIs
  <2>. QED
    BY <2>1, <2>2
<1>4. \A x \in S : <<x, x>> \notin R
  BY <1>0, <1>1, Zenon
<1>. QED
  BY <1>2, <1>3, <1>4 DEF Orders, R

\* Everything is once on the list.
ListsOnce(l, S) ==
  /\ Cardinality(S) \in Nat /\ l \in Seq(S) /\ Len(l) = Cardinality(S)
  /\ \A x \in S : \E n \in 1..Len(l) : l[n] = x
  /\ \A m, n \in 1..Len(l) : l[m] = l[n] => m = n

LEMMA InOrderLists ==
  ASSUME NEW S, IsFiniteSet(S), NEW key, NEW k, Sortable(key, S, k), NEW whim, Apart(whim, S)
  PROVE  LET l == InOrder(S, key, whim) IN
         /\ ListsOnce(l, S)
         /\ \A n \in 1..Cardinality(S) : l[n] \in S /\ Cardinality({y \in S : Ahead(y, l[n], key, whim)}) = n - 1
<1>. DEFINE R == {p \in S \X S : Ahead(p[1], p[2], key, whim)}
            N == Cardinality(S)
            rank(x) == Cardinality({y \in S : Ahead(y, x, key, whim)})
            at(n) == CHOOSE x \in S : rank(x) = n - 1
            l == [n \in 1..N |-> at(n)]
<1>1. ASSUME NEW x \in S PROVE rank(x) = Cardinality(Below(R, S, x))
  <2>1. Below(R, S, x) = {y \in S : Ahead(y, x, key, whim)}
    BY DEF Below
  <2>. QED
    BY <2>1
<1>2. InOrder(S, key, whim) = l
  BY DEF InOrder
<1>3. Orders(R, S)
  BY AheadOrders
<1>. HIDE DEF R, rank
<1>4. N \in Nat /\ \A n \in 1..N : \E x \in S : rank(x) = n - 1
  BY <1>1, <1>3, RanksAre
<1>5. \A x \in S : rank(x) + 1 \in 1..N
  BY <1>1, <1>3, RanksAre
<1>6. \A x, y \in S : rank(x) = rank(y) => x = y
  BY <1>1, <1>3, RanksAre
<1>7. \A n \in 1..N : at(n) \in S /\ rank(at(n)) = n - 1
  BY <1>4
<1>. HIDE DEF at
<1>8. l \in Seq(S) /\ Len(l) = N
  BY <1>4, <1>7
<1>9. ASSUME NEW x \in S PROVE \E n \in 1..N : l[n] = x
  <2>. DEFINE n == Cardinality(Below(R, S, x)) + 1
  <2>1. n \in 1..N /\ N \in Nat
    BY <1>1, <1>4, <1>5
  <2>2. rank(x) = n - 1
    <3>1. n = Cardinality(Below(R, S, x)) + 1 /\ Cardinality(Below(R, S, x)) \in Nat
      BY <1>3, RanksAre, FS_CardinalityType, FS_Subset DEF Below
    <3>. HIDE DEF n
    <3>. QED
      BY <1>1, <3>1
  <2>. HIDE DEF n
  <2>3. at(n) = x
    BY <1>6, <1>7, <2>1, <2>2
  <2>. QED
    BY <2>1, <2>3
<1>10. \A n \in 1..N : l[n] = at(n)
  OBVIOUS
<1>11. \A m, n \in 1..N : l[m] = l[n] => m = n
  <2>. SUFFICES ASSUME NEW m \in 1..N, NEW n \in 1..N, l[m] = l[n] PROVE m = n
    OBVIOUS
  <2>1. m - 1 = n - 1
    BY <1>7, <1>10
  <2>. QED
    BY <1>4, <2>1
<1>. HIDE DEF l
<1>12. \A n \in 1..N : l[n] \in S /\ Cardinality({y \in S : Ahead(y, l[n], key, whim)}) = n - 1
  BY <1>7, <1>10 DEF rank
<1>. QED
  BY <1>2, <1>4, <1>8, <1>9, <1>11, <1>12 DEF ListsOnce

\* However equals are ordered: what is n-th has the same columns.
LEMMA SameKeys ==
  ASSUME NEW S, IsFiniteSet(S), NEW key, NEW k, Sortable(key, S, k),
         NEW v, Apart(v, S), NEW w, Apart(w, S), NEW n \in 1..Cardinality(S)
  PROVE  key[InOrder(S, key, v)[n]] = key[InOrder(S, key, w)[n]]
<1>. DEFINE before(x, u) == {y \in S : Ahead(y, x, key, u)}
<1>1. ASSUME NEW x \in S, NEW y \in S, NEW a, NEW b, Apart(a, S), Before(key[x], key[y])
      PROVE  Cardinality(before(x, a)) < Cardinality(before(y, b))
  <2>1. before(x, a) \subseteq before(y, b)
    <3>. SUFFICES ASSUME NEW z \in before(x, a) PROVE Before(key[z], key[y])
      BY DEF Ahead
    <3>1. z \in S /\ (Before(key[z], key[x]) \/ key[z] = key[x])
      BY DEF Ahead
    <3>. QED
      BY <1>1, <3>1, BeforeIs
  <2>2. x \in before(y, b)
    BY <1>1 DEF Ahead
  <2>3. x \notin before(x, a)
    <3>1. ~Before(key[x], key[x]) /\ ~(a[x] < a[x])
      BY <1>1, BeforeIs DEF Apart
    <3>. QED
      BY <3>1 DEF Ahead
  <2>4. IsFiniteSet(before(y, b))
    <3>1. before(y, b) \subseteq S
      OBVIOUS
    <3>. QED
      BY <3>1, FS_Subset
  <2>. HIDE DEF before
  <2>5. before(x, a) # before(y, b)
    BY <2>2, <2>3
  <2>6. Cardinality(before(x, a)) <= Cardinality(before(y, b)) /\ Cardinality(before(x, a)) # Cardinality(before(y, b))
    BY <2>1, <2>4, <2>5, FS_Subset
  <2>7. Cardinality(before(x, a)) \in Nat /\ Cardinality(before(y, b)) \in Nat
    BY <2>1, <2>4, FS_Subset, FS_CardinalityType
  <2>. QED
    BY <2>6, <2>7
<1>. DEFINE x == InOrder(S, key, v)[n]
            y == InOrder(S, key, w)[n]
<1>2. x \in S /\ y \in S /\ Cardinality(before(x, v)) = n - 1 /\ Cardinality(before(y, w)) = n - 1
  BY InOrderLists
<1>3. n - 1 \in Int
  OBVIOUS
<1>. HIDE DEF x, y, before
<1>4. ~Before(key[x], key[y]) /\ ~Before(key[y], key[x])
  BY <1>1, <1>2, <1>3
<1>5. key[x] = key[y]
  BY <1>2, <1>4, BeforeIs
<1>. QED
  BY <1>5 DEF x, y

----------------------------------------------------------------------------
\* Pieces of lists

LEMMA FlattenIs ==
  ASSUME NEW T, NEW ss \in Seq(Seq(T)), Len(ss) > 0, NEW g, g[1] = ss[1],
         \A n \in 2..Len(ss) : g[n] = g[n - 1] \o ss[n]
  PROVE  FlattenSeq(ss) = g[Len(ss)]
<1>. DEFINE N == Len(ss)
            Body(f) == [i \in 1..N |-> IF i = 1 THEN ss[i] ELSE f[i - 1] \o ss[i]]
            flatten == CHOOSE f : f = Body(f)
            part == [i \in 1..N |-> g[i]]
<1>1. N \in Nat
  OBVIOUS
<1>2. part = Body(part)
  <2>1. ASSUME NEW i \in 1..N PROVE part[i] = IF i = 1 THEN ss[i] ELSE part[i - 1] \o ss[i]
    <3>1. CASE i = 1
      BY <3>1
    <3>2. CASE i # 1
      <4>1. i \in 2..N /\ i - 1 \in 1..N
        BY <1>1, <3>2
      <4>. QED
        BY <3>2, <4>1
    <3>. QED
      BY <3>1, <3>2
  <2>. QED
    BY <2>1
<1>3. flatten = Body(flatten)
  <2>. HIDE DEF Body
  <2>. QED
    BY <1>2, Zenon
<1>4. FlattenSeq(ss) = flatten[N]
  BY DEF FlattenSeq
<1>. HIDE DEF flatten
<1>5. \A i \in 1..N : flatten[i] = IF i = 1 THEN ss[i] ELSE flatten[i - 1] \o ss[i]
  BY <1>3
<1>. HIDE DEF Body
<1>. DEFINE S == {n \in 1..N : flatten[n] # g[n]}
<1>6. ASSUME S # {} PROVE FALSE
  <2>0. S \subseteq Nat
    OBVIOUS
  <2>1. PICK n \in S : \A m \in S : ~(m < n)
    <3>. HIDE DEF S
    <3>. QED
      BY <1>6, <2>0, Least
  <2>2. n # 1
    BY <1>1, <1>5
  <2>3. n \in 2..N /\ n - 1 \in 1..N /\ n - 1 < n
    BY <1>1, <2>2
  <2>4. flatten[n - 1] = g[n - 1]
    BY <2>1, <2>3
  <2>. QED
    BY <1>5, <2>2, <2>3, <2>4
<1>7. N \in 1..N
  BY <1>1
<1>. QED
  BY <1>4, <1>6, <1>7

LEMMA SubSeqIs ==
  ASSUME NEW T, NEW l \in Seq(T), NEW a \in Nat, NEW b \in Nat, b <= Len(l)
  PROVE  LET s == SubSeq(l, a + 1, b) IN
         /\ s \in Seq(T) /\ Len(s) = IF a <= b THEN b - a ELSE 0
         /\ \A n \in 1..Len(s) : s[n] = l[a + n]
OBVIOUS

LEMMA SameSeq ==
  ASSUME NEW T, NEW a \in Seq(T), NEW b \in Seq(T), Len(a) = Len(b), \A n \in 1..Len(a) : a[n] = b[n]
  PROVE  a = b
<1>1. a = [n \in 1..Len(a) |-> a[n]] /\ b = [n \in 1..Len(b) |-> b[n]]
  OBVIOUS
<1>2. [n \in 1..Len(a) |-> a[n]] = [n \in 1..Len(b) |-> b[n]]
  OBVIOUS
<1>. QED
  BY <1>1, <1>2

LEMMA JoinIs ==
  ASSUME NEW T, NEW p \in Seq(T), NEW q \in Seq(T), NEW r \in Seq(T), Len(r) = Len(p) + Len(q),
         \A n \in 1..Len(p) : r[n] = p[n], \A n \in 1..Len(q) : r[Len(p) + n] = q[n]
  PROVE  p \o q = r
<1>1. p \o q \in Seq(T) /\ Len(p \o q) = Len(p) + Len(q) /\ Len(p) \in Nat /\ Len(q) \in Nat
  OBVIOUS
<1>2. \A n \in 1..Len(p) + Len(q) : (p \o q)[n] = IF n <= Len(p) THEN p[n] ELSE q[n - Len(p)]
  OBVIOUS
<1>3. ASSUME NEW n \in 1..Len(p) + Len(q) PROVE (p \o q)[n] = r[n]
  <2>1. CASE n <= Len(p)
    BY <1>2, <2>1
  <2>2. CASE ~(n <= Len(p))
    <3>1. n - Len(p) \in 1..Len(q) /\ Len(p) + (n - Len(p)) = n
      BY <1>1, <2>2
    <3>. QED
      BY <1>2, <2>2, <3>1
  <2>. QED
    BY <2>1, <2>2
<1>. QED
  BY <1>1, <1>3, SameSeq

LEMMA SubSeqJoin ==
  ASSUME NEW T, NEW l \in Seq(T), NEW a \in Nat, NEW b \in Nat, a <= b, b <= Len(l)
  PROVE  SubSeq(l, 1, a) \o SubSeq(l, a + 1, b) = SubSeq(l, 1, b)
<1>. DEFINE p == SubSeq(l, 1, a)
            q == SubSeq(l, a + 1, b)
            r == SubSeq(l, 1, b)
<1>1. p \in Seq(T) /\ Len(p) = a /\ \A n \in 1..a : p[n] = l[n]
  OBVIOUS
<1>2. q \in Seq(T) /\ Len(q) = b - a /\ \A n \in 1..(b - a) : q[n] = l[a + n]
  BY SubSeqIs
<1>3. r \in Seq(T) /\ Len(r) = b /\ \A n \in 1..b : r[n] = l[n]
  OBVIOUS
<1>. HIDE DEF p, q, r
<1>4. /\ Len(r) = Len(p) + Len(q)
      /\ \A n \in 1..Len(p) : r[n] = p[n]
      /\ \A n \in 1..Len(q) : r[Len(p) + n] = q[n]
  <2>1. Len(r) = Len(p) + Len(q)
    BY <1>1, <1>2, <1>3
  <2>2. \A n \in 1..a : n \in 1..b
    OBVIOUS
  <2>3. \A n \in 1..(b - a) : a + n \in 1..b
    OBVIOUS
  <2>4. \A n \in 1..a : r[n] = p[n]
    BY <1>1, <1>3, <2>2
  <2>5. \A n \in 1..(b - a) : r[a + n] = q[n]
    BY <1>2, <1>3, <2>3
  <2>6. Len(p) = a /\ Len(q) = b - a
    BY <1>1, <1>2
  <2>. QED
    BY <2>1, <2>4, <2>5, <2>6
<1>5. p \o q = r
  BY <1>1, <1>2, <1>3, <1>4, JoinIs
<1>. QED
  BY <1>5 DEF p, q, r

LEMMA SubSeqTwice ==
  ASSUME NEW T, NEW l \in Seq(T), NEW a \in Nat, NEW b \in Nat, a <= b, b <= Len(l), NEW c \in Nat, c <= b - a
  PROVE  SubSeq(SubSeq(l, a + 1, b), 1, c) = SubSeq(l, a + 1, a + c)
<1>. DEFINE q == SubSeq(l, a + 1, b)
            p == SubSeq(q, 1, c)
            r == SubSeq(l, a + 1, a + c)
<1>1. q \in Seq(T) /\ Len(q) = b - a /\ \A n \in 1..(b - a) : q[n] = l[a + n]
  BY SubSeqIs
<1>2. r \in Seq(T) /\ Len(r) = c /\ \A n \in 1..c : r[n] = l[a + n]
  <2>1. a + c \in Nat /\ a + c <= Len(l) /\ a <= a + c /\ (a + c) - a = c
    OBVIOUS
  <2>. QED
    BY <2>1, SubSeqIs
<1>. HIDE DEF q, r
<1>3. p \in Seq(T) /\ Len(p) = c /\ \A n \in 1..c : p[n] = q[n]
  BY <1>1
<1>. HIDE DEF p
<1>4. p = r
  BY <1>1, <1>2, <1>3, SameSeq
<1>. QED
  BY <1>4 DEF p, q, r

\* A list in pieces is the list.
LEMMA PiecesJoin ==
  ASSUME NEW T, NEW l \in Seq(T), NEW P \in Nat \ {0}, NEW cut, cut[0] = 0,
         \A n \in 0..P : cut[n] \in Nat /\ cut[n] <= Len(l), \A n \in 1..P : cut[n - 1] <= cut[n],
         NEW ss, ss = [n \in 1..P |-> SubSeq(l, cut[n - 1] + 1, cut[n])]
  PROVE  FlattenSeq(ss) = SubSeq(l, 1, cut[P])
<1>. DEFINE g == [n \in 1..P |-> SubSeq(l, 1, cut[n])]
<1>1. \A n \in 1..P : n \in 0..P /\ n - 1 \in 0..P
  OBVIOUS
<1>2. ASSUME NEW n \in 1..P PROVE ss[n] \in Seq(T)
  BY <1>1, SubSeqIs
<1>3. ss \in Seq(Seq(T)) /\ Len(ss) = P
  BY <1>2
<1>4. g[1] = ss[1]
  <2>1. 1 \in 1..P /\ 1 - 1 = 0 /\ 0 + 1 = 1
    OBVIOUS
  <2>. QED
    BY <2>1
<1>5. ASSUME NEW n \in 2..P PROVE g[n] = g[n - 1] \o ss[n]
  <2>1. n \in 1..P /\ n - 1 \in 1..P
    OBVIOUS
  <2>2. SubSeq(l, 1, cut[n - 1]) \o SubSeq(l, cut[n - 1] + 1, cut[n]) = SubSeq(l, 1, cut[n])
    BY <1>1, <2>1, SubSeqJoin
  <2>. QED
    BY <2>1, <2>2
<1>. HIDE DEF g
<1>6. FlattenSeq(ss) = g[P]
  <2>1. Len(ss) > 0
    BY <1>3
  <2>2. \A n \in 2..Len(ss) : g[n] = g[n - 1] \o ss[n]
    BY <1>3, <1>5, Zenon
  <2>3. FlattenSeq(ss) = g[Len(ss)]
    BY <1>3, <1>4, <2>1, <2>2, FlattenIs, Zenon
  <2>. QED
    BY <1>3, <2>3
<1>7. P \in 1..P
  OBVIOUS
<1>. QED
  BY <1>6, <1>7 DEF g

----------------------------------------------------------------------------
\* Where pages end

\* What is asked for: the same search may be shown on any page.
SameSearch(o, p) ==
  /\ o.categories = p.categories /\ o.author = p.author /\ o.tag = p.tag /\ o.query = p.query
  /\ o.filters = p.filters /\ o.featured = p.featured /\ o.sort = p.sort /\ o.desc = p.desc

LEMMA SameMatching ==
  ASSUME NEW V, NEW rows, NEW o, NEW p, SameSearch(o, p)
  PROVE  Matching(V, o, rows) = Matching(V, p, rows) /\ \A i : SortKey(i, o, rows) = SortKey(i, p, rows)
<1>1. Matching(V, o, rows) = Matching(V, p, rows)
  BY DEF SameSearch, Matching
<1>2. ASSUME NEW i PROVE SortKey(i, o, rows) = SortKey(i, p, rows)
  BY DEF SameSearch, SortKey
<1>. QED
  BY <1>1, <1>2

IsListing(list) ==
  list.size \in Nat \ {0} /\ list.leading \in Nat /\ list.paged \in BOOLEAN

\* Where the pages of a list of this length end, and the leading items of it.
Least2(a, b) == IF a < b THEN a ELSE b
CutOf(list, total, n) == IF list.paged THEN Least2(n * list.size, total) ELSE IF n = 0 THEN 0 ELSE total
LeadingCut(list, total, n) == Least2(CutOf(list, total, n), list.leading)
PagesOf(list, total) == IF list.paged THEN ListTotalPages(total, list.size) ELSE 1

LEMMA PagesEnd ==
  ASSUME NEW total \in Nat, NEW size \in Nat \ {0}
  PROVE  LET P == ListTotalPages(total, size) IN
         \A n \in 1..P : (n - 1) * size \in Nat /\ (n - 1) * size <= total /\ n * size = (n - 1) * size + size
<1>. DEFINE P == ListTotalPages(total, size)
<1>1. P \in Nat \ {0}
  BY TotalPagesAre
<1>2. (P - 1) * size <= total
  <2>1. CASE total = 0
    BY <2>1 DEF ListTotalPages
  <2>2. CASE total # 0
    <3>. DEFINE q == (total + size - 1) \div size
    <3>1. q \in Int /\ q * size <= total + size - 1
      OBVIOUS
    <3>2. (q - 1) * size = q * size - size
      BY <3>1
    <3>3. P = q
      BY <2>2 DEF ListTotalPages
    <3>. HIDE DEF q, P
    <3>. QED
      BY <3>1, <3>2, <3>3
  <2>. QED
    BY <2>1, <2>2
<1>. HIDE DEF P
<1>3. ASSUME NEW n \in 1..P PROVE (n - 1) * size \in Nat /\ (n - 1) * size <= total /\ n * size = (n - 1) * size + size
  <2>1. n - 1 \in Nat /\ (n - 1) * size \in Nat /\ n * size = (n - 1) * size + size
    BY <1>1
  <2>2. (n - 1) * size <= (P - 1) * size
    <3>1. P - n \in Nat
      BY <1>1
    <3>2. (P - n) * size \in Nat
      BY <3>1
    <3>3. (P - 1) * size = (P - n) * size + (n - 1) * size
      BY <1>1
    <3>. QED
      BY <1>1, <2>1, <3>2, <3>3
  <2>. QED
    BY <1>1, <1>2, <2>1, <2>2
<1>. QED
  BY <1>3 DEF P

\* The cuts of a listing go from its beginning to its end.
LEMMA CutsAre ==
  ASSUME NEW total \in Nat, NEW list, IsListing(list)
  PROVE  LET P == PagesOf(list, total) IN
         /\ P \in Nat \ {0} /\ P <= total + 1
         /\ CutOf(list, total, 0) = 0 /\ CutOf(list, total, P) = total
         /\ \A n \in 0..P : CutOf(list, total, n) \in Nat /\ CutOf(list, total, n) <= total
         /\ \A n \in 1..P : CutOf(list, total, n - 1) <= CutOf(list, total, n)
         /\ list.paged => \A n \in 1..P : CutOf(list, total, n - 1) = (n - 1) * list.size
<1>. DEFINE P == PagesOf(list, total)
<1>1. CASE ~list.paged
  <2>1. P = 1
    BY <1>1 DEF PagesOf
  <2>. QED
    BY <1>1, <2>1 DEF CutOf
<1>2. CASE list.paged
  <2>0. P = ListTotalPages(total, list.size) /\ list.size \in Nat \ {0}
    BY <1>2 DEF PagesOf, IsListing
  <2>1. P \in Nat \ {0} /\ P * list.size >= total /\ (P = 1 \/ P <= total)
    BY <2>0, TotalPagesAre
  <2>2. \A n \in 1..P : (n - 1) * list.size \in Nat /\ (n - 1) * list.size <= total /\ n * list.size = (n - 1) * list.size + list.size
    BY <2>0, PagesEnd
  <2>. HIDE DEF P
  <2>3. CutOf(list, total, 0) = 0
    <3>1. 0 * list.size = 0
      BY <2>0
    <3>. QED
      BY <1>2, <3>1 DEF CutOf, Least2
  <2>4. CutOf(list, total, P) = total
    <3>1. P * list.size \in Nat
      BY <2>0, <2>1
    <3>. QED
      BY <1>2, <2>1, <3>1 DEF CutOf, Least2
  <2>5. ASSUME NEW n \in 1..P
        PROVE  /\ CutOf(list, total, n - 1) = (n - 1) * list.size
               /\ CutOf(list, total, n - 1) \in Nat /\ CutOf(list, total, n - 1) <= total
               /\ CutOf(list, total, n) \in Nat /\ CutOf(list, total, n) <= total
               /\ CutOf(list, total, n - 1) <= CutOf(list, total, n)
    <3>1. (n - 1) * list.size \in Nat /\ (n - 1) * list.size <= total /\ n * list.size = (n - 1) * list.size + list.size
      BY <2>2
    <3>2. CutOf(list, total, n - 1) = Least2((n - 1) * list.size, total) /\ CutOf(list, total, n) = Least2(n * list.size, total)
      BY <1>2 DEF CutOf
    <3>. QED
      BY <2>0, <3>1, <3>2 DEF Least2
  <2>6. \A n \in 0..P : CutOf(list, total, n) \in Nat /\ CutOf(list, total, n) <= total
    <3>. SUFFICES ASSUME NEW n \in 0..P PROVE CutOf(list, total, n) \in Nat /\ CutOf(list, total, n) <= total
      OBVIOUS
    <3>1. CASE n = 0
      BY <2>3, <3>1
    <3>2. CASE n # 0
      BY <2>1, <2>5, <3>2
    <3>. QED
      BY <3>1, <3>2
  <2>7. P <= total + 1
    BY <2>1
  <2>. QED
    BY <2>1, <2>3, <2>4, <2>5, <2>6, <2>7 DEF P
<1>. QED
  BY <1>1, <1>2 DEF IsListing

----------------------------------------------------------------------------
\* Pages one after the other

LEMMA SubSeqSame ==
  ASSUME NEW T, NEW l \in Seq(T)
  PROVE  SubSeq(l, 1, Len(l)) = l
<1>1. SubSeq(l, 1, Len(l)) \in Seq(T) /\ Len(SubSeq(l, 1, Len(l))) = Len(l) /\ \A n \in 1..Len(l) : SubSeq(l, 1, Len(l))[n] = l[n]
  OBVIOUS
<1>. QED
  BY <1>1, SameSeq

LEMMA SubSeqNone ==
  ASSUME NEW T, NEW l \in Seq(T), NEW a \in Nat, NEW b \in Nat, a <= Len(l), b <= Len(l)
  PROVE  SubSeq(SubSeq(l, a + 1, b), 1, 0) = SubSeq(l, a + 1, a) /\ SubSeq(l, a + 1, a) = <<>>
<1>1. ASSUME NEW m \in Seq(T), NEW c \in Nat PROVE SubSeq(m, c + 1, c) = <<>>
  <2>1. SubSeq(m, c + 1, c) \in Seq(T) /\ Len(SubSeq(m, c + 1, c)) = 0
    OBVIOUS
  <2>. QED
    BY <2>1
<1>2. SubSeq(l, a + 1, b) \in Seq(T)
  BY SubSeqIs
<1>3. SubSeq(SubSeq(l, a + 1, b), 0 + 1, 0) = <<>>
  BY <1>1, <1>2
<1>. QED
  BY <1>1, <1>3

\* One after the other.  (The provers instantiate this better than what it stands for.)
Joined(p, q) == p \o q
StartsAt(list, page, a) == a = IF list.paged THEN (page - 1) * list.size ELSE 0

\* The items of a page, and the leading ones among them.
LEMMA SplitIs ==
  ASSUME NEW T, NEW l \in Seq(T), NEW a \in Nat, NEW b \in Nat, a <= b, b <= Len(l),
         NEW list, IsListing(list), NEW page, StartsAt(list, page, a)
  PROVE  LET parts == SplitCategoryLeadingItems(SubSeq(l, a + 1, b), list, page) IN
         /\ Joined(parts.leading, parts.remaining) = SubSeq(l, a + 1, b)
         /\ parts.leading = SubSeq(l, Least2(a, list.leading) + 1, Least2(b, list.leading))
<1>. DEFINE items == SubSeq(l, a + 1, b)
            left == list.leading - a
            first == IF left < 0 THEN 0 ELSE IF left > Len(items) THEN Len(items) ELSE left
            lead == SubSeq(items, 1, first)
            rest == SubSeq(items, first + 1, Len(items))
            parts == SplitCategoryLeadingItems(items, list, page)
<1>1. items \in Seq(T) /\ Len(items) = b - a
  BY SubSeqIs
<1>2. parts = [leading |-> lead, remaining |-> rest]
  BY DEF SplitCategoryLeadingItems, StartsAt
<1>. HIDE DEF items, parts
<1>3. list.leading \in Nat /\ left \in Int
  BY DEF IsListing
<1>. HIDE DEF left
<1>4. Len(items) \in Nat /\ first \in Nat /\ first <= Len(items) /\ first <= b - a
  BY <1>1, <1>3
<1>5. Least2(a, list.leading) \in Nat /\ (left >= 0 => Least2(a, list.leading) = a /\ Least2(b, list.leading) = a + first)
  <2>1. left >= 0 => first = IF left > b - a THEN b - a ELSE left
    BY <1>1, <1>3
  <2>2. left = list.leading - a
    BY DEF left
  <2>. HIDE DEF first
  <2>. QED
    BY <1>3, <2>1, <2>2 DEF Least2
<1>6. left < 0 => first = 0 /\ list.leading <= Len(l) /\ Least2(a, list.leading) = list.leading /\ Least2(b, list.leading) = list.leading
  <2>1. left < 0 => first = 0
    BY <1>3
  <2>2. left = list.leading - a
    BY DEF left
  <2>. HIDE DEF first
  <2>. QED
    BY <1>3, <2>1, <2>2 DEF Least2
<1>. HIDE DEF first
<1>7. lead \o rest = items
  <2>0. Len(items) <= Len(items)
    BY <1>4
  <2>1. SubSeq(items, 1, first) \o SubSeq(items, first + 1, Len(items)) = SubSeq(items, 1, Len(items))
    BY <1>1, <1>4, <2>0, SubSeqJoin, Zenon
  <2>. QED
    BY <1>1, <2>1, SubSeqSame
<1>8. lead = SubSeq(l, Least2(a, list.leading) + 1, Least2(b, list.leading))
  <2>1. CASE left >= 0
    <3>1. SubSeq(SubSeq(l, a + 1, b), 1, first) = SubSeq(l, a + 1, a + first)
      <4>1. first \in Nat /\ first <= b - a /\ l \in Seq(T) /\ a \in Nat /\ b \in Nat /\ a <= b /\ b <= Len(l)
        BY <1>4
      <4>. QED
        BY <4>1, SubSeqTwice
    <3>. QED
      BY <1>5, <2>1, <3>1 DEF items
  <2>2. CASE left < 0
    <3>1. SubSeq(l, list.leading + 1, list.leading) = <<>>
      BY <1>3, <1>6, <2>2, SubSeqNone
    <3>2. a <= Len(l)
      OBVIOUS
    <3>3. SubSeq(SubSeq(l, a + 1, b), 1, 0) = SubSeq(l, a + 1, a) /\ SubSeq(l, a + 1, a) = <<>>
      BY <3>2, SubSeqNone
    <3>. QED
      BY <1>6, <2>2, <3>1, <3>3 DEF items
  <2>3. left >= 0 \/ left < 0
    BY <1>3
  <2>. QED
    BY <2>1, <2>2, <2>3
<1>. HIDE DEF lead, rest
<1>9. parts.leading = lead /\ parts.remaining = rest
  BY <1>2
<1>10. Joined(parts.leading, parts.remaining) = items
  BY <1>7, <1>9 DEF Joined
<1>11. parts.leading = SubSeq(l, Least2(a, list.leading) + 1, Least2(b, list.leading))
  BY <1>8, <1>9
<1>. QED
  BY <1>10, <1>11 DEF parts, items

\* A search that is shown in pages, and a page of it.
Paged(o) == \E x : o \in {[ListOptions EXCEPT !.categories = x], [ListOptions EXCEPT !.featured = x]}
Shown(o, list, page) ==
  [o EXCEPT !.page = IF list.paged THEN page ELSE 1, !.limit = list.size, !.all = ~list.paged]

LEMMA ShownIs ==
  ASSUME NEW o, NEW list, NEW page, Paged(o)
  PROVE  /\ SameSearch(Shown(o, list, page), o)
         /\ Shown(o, list, page).page = IF list.paged THEN page ELSE 1
         /\ Shown(o, list, page).limit = list.size /\ Shown(o, list, page).all = ~list.paged
<1>1. DOMAIN o = DOMAIN ListOptions
  BY DEF Paged
<1>. QED
  BY <1>1 DEF ListOptions, SameSearch, Shown

LEMMA AllIs ==
  ASSUME NEW o, Paged(o)
  PROVE  SameSearch([o EXCEPT !.all = TRUE], o) /\ [o EXCEPT !.all = TRUE].all = TRUE
<1>1. DOMAIN o = DOMAIN ListOptions
  BY DEF Paged
<1>. QED
  BY <1>1 DEF ListOptions, SameSearch

----------------------------------------------------------------------------
\* What a list is sorted by

NoneIsNoOrder == None \notin {"title", "sort", "featured", "featured_sort", "popular"}
Plain(o) == o.sort \in {None, "sort"} /\ o.desc = FALSE
IsItem(x, row) ==
  x \in Item /\ {"sort", "place"} \subseteq DOMAIN row /\ row.sort \in Int /\ row.place \in Int
TypedItems(rows) == \A i \in Ids("item", rows) : IsItem(i, The("item", i, rows))

LEMMA SortKeys ==
  ASSUME NEW rows, NEW o, Plain(o), NoneIsNoOrder
  PROVE  \/ \A i : SortKey(i, o, rows) = <<>>
         \/ \A i : SortKey(i, o, rows) = <<The("item", i, rows).place, -Created[i]>>
         \/ \A i : SortKey(i, o, rows) = <<The("item", i, rows).sort, -Created[i]>>
<1>. DEFINE queried == o.query # None /\ FtsItemIDs(o.query, rows) # {}
<1>1. CASE queried
  <2>1. \A i : SortKey(i, o, rows) = <<>>
    BY <1>1 DEF SortKey
  <2>. QED
    BY <2>1
<1>2. CASE ~queried /\ o.featured
  <2>1. \A i : SortKey(i, o, rows) = <<The("item", i, rows).place, -Created[i]>>
    BY <1>2 DEF SortKey, Plain, NoneIsNoOrder
  <2>. QED
    BY <2>1
<1>3. CASE ~queried /\ ~o.featured
  <2>1. \A i : SortKey(i, o, rows) = <<The("item", i, rows).sort, -Created[i]>>
    BY <1>3 DEF SortKey, Plain, NoneIsNoOrder
  <2>. QED
    BY <2>1
<1>. QED
  BY <1>1, <1>2, <1>3

LEMMA KeysSort ==
  ASSUME NEW rows, TypedItems(rows), NEW o, Plain(o), NoneIsNoOrder, NEW S, S \subseteq Ids("item", rows)
  PROVE  \E k : Sortable([i \in S |-> SortKey(i, o, rows)], S, k)
<1>. DEFINE key == [i \in S |-> SortKey(i, o, rows)]
<1>0. \A i \in S : -Created[i] \in Int /\ The("item", i, rows).place \in Int /\ The("item", i, rows).sort \in Int
  BY ListingAssumption DEF TypedItems, IsItem
<1>1. CASE \A i : SortKey(i, o, rows) = <<>>
  <2>1. \A i \in S : key[i] = <<>>
    BY <1>1
  <2>. HIDE DEF key
  <2>2. \A i \in S : key[i] \in [1..0 -> Int]
    <3>1. <<>> \in Seq(Int) /\ Len(<<>>) = 0
      OBVIOUS
    <3>2. <<>> \in [1..Len(<<>>) -> Int]
      BY <3>1, LenProperties
    <3>. QED
      BY <2>1, <3>1, <3>2
  <2>. QED
    BY <2>2 DEF Sortable, key
<1>2. ASSUME NEW c, \A i \in S : c[i] \in Int, \A i \in S : SortKey(i, o, rows) = <<c[i], -Created[i]>>
      PROVE  \E k : Sortable(key, S, k)
  <2>1. \A i \in S : key[i] = <<c[i], -Created[i]>>
    BY <1>2
  <2>. HIDE DEF key
  <2>2. \A i \in S : key[i] \in [1..2 -> Int]
    BY <1>0, <1>2, <2>1
  <2>. QED
    BY <2>2 DEF Sortable, key
<1>3. CASE \A i : SortKey(i, o, rows) = <<The("item", i, rows).place, -Created[i]>>
  <2>. DEFINE c == [i \in S |-> The("item", i, rows).place]
  <2>1. (\A i \in S : c[i] \in Int) /\ \A i \in S : SortKey(i, o, rows) = <<c[i], -Created[i]>>
    BY <1>0, <1>3
  <2>. HIDE DEF c, key
  <2>2. \E k : Sortable(key, S, k)
    BY <1>2, <2>1
  <2>. QED
    BY <2>2 DEF key
<1>4. CASE \A i : SortKey(i, o, rows) = <<The("item", i, rows).sort, -Created[i]>>
  <2>. DEFINE c == [i \in S |-> The("item", i, rows).sort]
  <2>1. (\A i \in S : c[i] \in Int) /\ \A i \in S : SortKey(i, o, rows) = <<c[i], -Created[i]>>
    BY <1>0, <1>4
  <2>. HIDE DEF c, key
  <2>2. \E k : Sortable(key, S, k)
    BY <1>2, <2>1
  <2>. QED
    BY <2>2 DEF key
<1>. QED
  BY <1>1, <1>3, <1>4, SortKeys

LEMMA WhimsApart ==
  ASSUME NEW rows, TypedItems(rows), NEW o, NEW S, S \subseteq Ids("item", rows)
  PROVE  Apart(WhimFor(o), S)
<1>1. \E n \in DOMAIN Whim : WhimFor(o) = Whim[n]
  BY ListingAssumption DEF WhimFor
<1>2. S \subseteq Item
  BY DEF TypedItems, IsItem
<1>. QED
  BY <1>1, <1>2, ListingAssumption DEF Apart

LEMMA FoundLists ==
  ASSUME NEW rows, TypedItems(rows), NEW V, NEW o, Plain(o), NoneIsNoOrder
  PROVE  /\ Matching(V, o, rows) \subseteq VisibleItems(V, rows)
         /\ VisibleItems(V, rows) \subseteq Ids("item", rows)
         /\ IsFiniteSet(Ids("item", rows))
         /\ ListsOnce(Found(V, o, rows), Matching(V, o, rows))
<1>1. Matching(V, o, rows) \subseteq VisibleItems(V, rows) /\ VisibleItems(V, rows) \subseteq Ids("item", rows)
  BY DEF Matching, VisibleItems
<1>2. IsFiniteSet(Ids("item", rows))
  <2>1. Ids("item", rows) \subseteq Item \cup Category \cup Field \cup Text
    BY DEF TypedItems, IsItem
  <2>. QED
    BY <2>1, FS_Subset, ContentIdsAssumption
<1>3. IsFiniteSet(Matching(V, o, rows)) /\ Matching(V, o, rows) \subseteq Ids("item", rows)
  BY <1>1, <1>2, FS_Subset
<1>4. PICK k : Sortable([i \in Matching(V, o, rows) |-> SortKey(i, o, rows)], Matching(V, o, rows), k)
  BY <1>3, KeysSort
<1>5. Apart(WhimFor(o), Matching(V, o, rows))
  BY <1>3, WhimsApart
<1>6. ListsOnce(InOrder(Matching(V, o, rows), [i \in Matching(V, o, rows) |-> SortKey(i, o, rows)], WhimFor(o)),
                Matching(V, o, rows))
  BY <1>3, <1>4, <1>5, InOrderLists
<1>. QED
  BY <1>1, <1>2, <1>6 DEF Found

\* A search shown on another page: the same is found, and what is n-th has the same columns.
Alike(l, m, o, rows) == \A n \in 1..Len(l) : SortKey(l[n], o, rows) = SortKey(m[n], o, rows)

LEMMA FoundAlike ==
  ASSUME NEW rows, TypedItems(rows), NEW V, NEW o, Plain(o), NoneIsNoOrder, NEW p, SameSearch(p, o), NEW q, SameSearch(q, o)
  PROVE  /\ ListsOnce(Found(V, p, rows), Matching(V, o, rows)) /\ ListsOnce(Found(V, q, rows), Matching(V, o, rows))
         /\ Len(Found(V, p, rows)) = Len(Found(V, q, rows)) /\ Alike(Found(V, p, rows), Found(V, q, rows), o, rows)
<1>. DEFINE S == Matching(V, o, rows)
            key == [i \in S |-> SortKey(i, o, rows)]
<1>1. S \subseteq Ids("item", rows) /\ IsFiniteSet(Ids("item", rows))
  BY FoundLists
<1>2. IsFiniteSet(S)
  BY <1>1, FS_Subset
<1>3. PICK k : Sortable(key, S, k)
  BY <1>1, KeysSort
<1>4. Apart(WhimFor(p), S) /\ Apart(WhimFor(q), S)
  BY <1>1, WhimsApart
<1>5. ASSUME NEW r, SameSearch(r, o) PROVE Found(V, r, rows) = InOrder(S, key, WhimFor(r))
  <2>1. Matching(V, r, rows) = S /\ \A i : SortKey(i, r, rows) = SortKey(i, o, rows)
    BY <1>5, SameMatching
  <2>. HIDE DEF S
  <2>. QED
    BY <2>1 DEF Found
<1>6. Found(V, p, rows) = InOrder(S, key, WhimFor(p)) /\ Found(V, q, rows) = InOrder(S, key, WhimFor(q))
  BY <1>5
<1>. HIDE DEF key
<1>7. ListsOnce(Found(V, p, rows), S) /\ ListsOnce(Found(V, q, rows), S)
  BY <1>2, <1>3, <1>4, <1>6, InOrderLists
<1>8. Len(Found(V, p, rows)) = Cardinality(S) /\ Len(Found(V, q, rows)) = Cardinality(S)
  BY <1>7 DEF ListsOnce
<1>9. ASSUME NEW n \in 1..Cardinality(S)
      PROVE  SortKey(Found(V, p, rows)[n], o, rows) = SortKey(Found(V, q, rows)[n], o, rows)
  <2>1. Found(V, p, rows)[n] \in S /\ Found(V, q, rows)[n] \in S
    BY <1>7, <1>8 DEF ListsOnce
  <2>2. key[Found(V, p, rows)[n]] = key[Found(V, q, rows)[n]]
    BY <1>2, <1>3, <1>4, <1>6, SameKeys
  <2>. HIDE DEF S
  <2>. QED
    BY <2>1, <2>2 DEF key
<1>. QED
  BY <1>7, <1>8, <1>9 DEF Alike

----------------------------------------------------------------------------
\* Pages of a listing

\* A page of a list: at most as many as are on one, from there on.
LEMMA ListItemsAre ==
  ASSUME NEW V, NEW rows, NEW p
  PROVE  /\ ListItems(V, p, rows).total = Len(Found(V, p, rows))
         /\ p.all = TRUE => ListItems(V, p, rows).items = Found(V, p, rows)
         /\ p.all = FALSE => ListItems(V, p, rows).items =
              SubSeq(Found(V, p, rows), (p.page - 1) * p.limit + 1, Least2(p.page * p.limit, Len(Found(V, p, rows))))
<1>. DEFINE list == Found(V, p, rows)
            part == SubSeq(list, (p.page - 1) * p.limit + 1, Least2(p.page * p.limit, Len(list)))
<1>1. ListItems(V, p, rows) = [items |-> IF p.all THEN list ELSE part, total |-> Len(list)]
  BY DEF ListItems, Least2
<1>. HIDE DEF list, part
<1>2. /\ ListItems(V, p, rows).total = Len(list)
      /\ p.all = TRUE => ListItems(V, p, rows).items = list
      /\ p.all = FALSE => ListItems(V, p, rows).items = part
  BY <1>1
<1>. QED
  BY <1>2 DEF list, part

LEMMA SubSeqWithin ==
  ASSUME NEW T, NEW l \in Seq(T), NEW a \in Nat, NEW b \in Nat, b <= Len(l)
  PROVE  SubSeq(l, a + 1, b) \in Seq(T) /\ ToSet(SubSeq(l, a + 1, b)) \subseteq T
<1>1. SubSeq(l, a + 1, b) \in Seq(T)
  BY SubSeqIs
<1>. QED
  BY <1>1 DEF ToSet

LEMMA ListedWithin ==
  ASSUME NEW rows, TypedItems(rows), NEW V, NEW o, Plain(o), NoneIsNoOrder, NEW p, SameSearch(p, o),
         p.page \in Nat \ {0}, p.limit \in Nat \ {0}, p.all \in BOOLEAN
  PROVE  LET items == ListItems(V, p, rows).items  S == Matching(V, o, rows) IN
         items \in Seq(S) /\ ToSet(items) \subseteq S
<1>. DEFINE all == Found(V, p, rows)
            S == Matching(V, o, rows)
<1>1. all \in Seq(S) /\ Len(all) \in Nat
  BY FoundAlike DEF ListsOnce
<1>. HIDE DEF all, S
<1>2. CASE p.all = TRUE
  <2>1. ListItems(V, p, rows).items = all
    BY <1>2, ListItemsAre DEF all
  <2>2. ToSet(all) \subseteq S
    BY <1>1 DEF ToSet
  <2>. QED
    BY <1>1, <2>1, <2>2 DEF S
<1>3. CASE p.all = FALSE
  <2>. DEFINE a == (p.page - 1) * p.limit
              b == Least2(p.page * p.limit, Len(all))
  <2>1. ListItems(V, p, rows).items = SubSeq(all, a + 1, b)
    BY <1>3, ListItemsAre DEF all
  <2>2. p.page * p.limit \in Nat /\ (p.page - 1) * p.limit \in Nat
    OBVIOUS
  <2>3. a \in Nat /\ b \in Nat /\ b <= Len(all)
    BY <1>1, <2>2 DEF Least2
  <2>. HIDE DEF a, b
  <2>4. SubSeq(all, a + 1, b) \in Seq(S) /\ ToSet(SubSeq(all, a + 1, b)) \subseteq S
    BY <1>1, <2>3, SubSeqWithin
  <2>. QED
    BY <2>1, <2>4 DEF S
<1>. QED
  BY <1>2, <1>3

\* What of a search is on a page of a listing.
LEMMA ListingIs ==
  ASSUME NEW rows, TypedItems(rows), NEW V, NEW o, Plain(o), NoneIsNoOrder,
Paged(o), NEW list, IsListing(list), NEW n,
         NEW total, total = Cardinality(Matching(V, o, rows)), n \in 1..PagesOf(list, total)
  PROVE  LET all == Found(V, Shown(o, list, n), rows)  page == Listing(V, o, list, n, rows)
             cut(m) == CutOf(list, total, m)  leads(m) == LeadingCut(list, total, m) IN
         /\ ListsOnce(all, Matching(V, o, rows)) /\ Len(all) = total
         /\ Joined(page.leading, page.remaining) = SubSeq(all, cut(n - 1) + 1, cut(n))
         /\ page.leading = SubSeq(all, leads(n - 1) + 1, leads(n))
         /\ page.pages = PagesOf(list, total)
<1>. DEFINE p == Shown(o, list, n)
            all == Found(V, p, rows)
            S == Matching(V, o, rows)
            found == ListItems(V, p, rows)
            a == CutOf(list, total, n - 1)
            b == CutOf(list, total, n)
            parts == SplitCategoryLeadingItems(found.items, list, n)
            page == Listing(V, o, list, n, rows)
<1>0. ListsOnce(all, S)
  BY ShownIs, FoundAlike
<1>1. all \in Seq(S) /\ total \in Nat /\ Len(all) = total
  BY <1>0 DEF ListsOnce
<1>2. /\ page.leading = parts.leading /\ page.remaining = parts.remaining
      /\ page.pages = IF list.paged THEN ListTotalPages(found.total, list.size) ELSE 1
  BY DEF Listing, Shown
<1>3. /\ SameSearch(p, o) /\ p.limit = list.size /\ p.all = ~list.paged
      /\ p.page = IF list.paged THEN n ELSE 1
  BY ShownIs
<1>4. n \in Nat \ {0} /\ n \in 1..PagesOf(list, total) /\ PagesOf(list, total) \in Nat
  <2>1. n \in 1..PagesOf(list, total)
    OBVIOUS
  <2>2. PagesOf(list, total) \in Nat
    BY <1>1, CutsAre
  <2>. QED
    BY <2>1, <2>2
<1>5. /\ a \in Nat /\ b \in Nat /\ a <= b /\ b <= total
      /\ list.paged => a = (n - 1) * list.size
  <2>1. n - 1 \in 0..PagesOf(list, total) /\ n \in 0..PagesOf(list, total)
    BY <1>4
  <2>. QED
    BY <1>1, <1>4, <2>1, CutsAre
<1>6. found.total = total
  BY <1>1, ListItemsAre
<1>7. found.items = SubSeq(all, a + 1, b) /\ a = IF list.paged THEN (n - 1) * list.size ELSE 0
  <2>1. CASE list.paged
    <3>1. p.all = FALSE /\ p.page = n /\ p.limit = list.size
      BY <1>3, <2>1
    <3>2. found.items = SubSeq(all, (n - 1) * list.size + 1, Least2(n * list.size, total))
      <4>. HIDE DEF p
      <4>1. found.items = SubSeq(all, (p.page - 1) * p.limit + 1, Least2(p.page * p.limit, Len(all)))
        BY <1>3, <3>1, ListItemsAre
      <4>. QED
        BY <1>1, <3>1, <4>1
    <3>3. b = Least2(n * list.size, total)
      BY <2>1 DEF CutOf
    <3>. QED
      BY <1>5, <2>1, <3>2, <3>3
  <2>2. CASE ~list.paged
    <3>1. n = 1
      BY <1>4, <2>2 DEF PagesOf
    <3>2. a = 0 /\ b = total
      BY <2>2, <3>1 DEF CutOf
    <3>3. found.items = all
      <4>1. p.all = TRUE
        BY <1>3, <2>2
      <4>. HIDE DEF p
      <4>. QED
        BY <1>3, <4>1, ListItemsAre
    <3>4. SubSeq(all, 1, Len(all)) = all
      BY <1>1, SubSeqSame
    <3>. QED
      BY <1>1, <2>2, <3>2, <3>3, <3>4
  <2>. QED
    BY <2>1, <2>2 DEF IsListing
<1>. HIDE DEF all, p, found, S, page
<1>8. /\ Joined(parts.leading, parts.remaining) = SubSeq(all, a + 1, b)
      /\ parts.leading = SubSeq(all, Least2(a, list.leading) + 1, Least2(b, list.leading))
  <2>. HIDE DEF a, b
  <2>1. b <= Len(all)
    BY <1>1, <1>5
  <2>2. StartsAt(list, n, a)
    BY <1>7 DEF StartsAt
  <2>3. a \in Nat /\ b \in Nat /\ a <= b /\ n \in Nat \ {0} /\ all \in Seq(S)
    BY <1>1, <1>4, <1>5
  <2>. DEFINE these == SplitCategoryLeadingItems(SubSeq(all, a + 1, b), list, n)
  <2>4. /\ Joined(these.leading, these.remaining) = SubSeq(all, a + 1, b)
        /\ these.leading = SubSeq(all, Least2(a, list.leading) + 1, Least2(b, list.leading))
    BY <2>1, <2>2, <2>3, SplitIs
  <2>5. parts = these
    BY <1>7
  <2>. HIDE DEF parts, these
  <2>. QED
    BY <2>4, <2>5
<1>9. Least2(a, list.leading) = LeadingCut(list, total, n - 1) /\ Least2(b, list.leading) = LeadingCut(list, total, n)
  BY DEF LeadingCut
<1>10. page.pages = PagesOf(list, total)
  BY <1>2, <1>6 DEF PagesOf
<1>. HIDE DEF parts
<1>. QED
  BY <1>0, <1>1, <1>2, <1>8, <1>9, <1>10 DEF all, page, S, p

----------------------------------------------------------------------------
\* All pages of a listing

Agree(l, m, a, b) == \A n \in (a + 1)..b : l[n] = m[n]

LEMMA SamePieces ==
  ASSUME NEW T, NEW l \in Seq(T), NEW m \in Seq(T), Len(l) = Len(m), NEW a \in Nat, NEW b \in Nat, b <= Len(l),
         Agree(l, m, a, b)
  PROVE  SubSeq(l, a + 1, b) = SubSeq(m, a + 1, b)
<1>. DEFINE p == SubSeq(l, a + 1, b)
            q == SubSeq(m, a + 1, b)
<1>1. p \in Seq(T) /\ q \in Seq(T) /\ Len(p) = (IF a <= b THEN b - a ELSE 0) /\ Len(q) = Len(p)
  BY SubSeqIs
<1>2. (\A n \in 1..Len(p) : p[n] = l[a + n]) /\ \A n \in 1..Len(q) : q[n] = m[a + n]
  BY SubSeqIs
<1>. HIDE DEF p, q
<1>3. \A n \in 1..Len(p) : a + n \in (a + 1)..b
  BY <1>1
<1>4. p = q
  BY <1>1, <1>2, <1>3, SameSeq DEF Agree
<1>. QED
  BY <1>4 DEF p, q

\* What is in the listing is on one of its pages.
LEMMA PagePlace ==
  ASSUME NEW P \in Nat \ {0}, NEW cut, cut[0] = 0, \A n \in 0..P : cut[n] \in Nat,
         \A n \in 1..P : cut[n - 1] <= cut[n], NEW m \in 1..cut[P]
  PROVE  /\ \E n \in 1..P : cut[n - 1] < m /\ m <= cut[n]
         /\ \A i, j \in 1..P : cut[i - 1] < m /\ m <= cut[i] /\ cut[j - 1] < m /\ m <= cut[j] => i = j
<1>. DEFINE far == {n \in 0..P : m <= cut[n]}
<1>0. P \in 0..P /\ cut[P] \in Nat /\ m \in Nat
  OBVIOUS
<1>1. far \subseteq Nat /\ far # {}
  BY <1>0
<1>2. PICK n \in far : \A k \in far : ~(k < n)
  <2>. HIDE DEF far
  <2>. QED
    BY <1>1, Least
<1>3. n \in 1..P /\ n - 1 \in 0..P /\ n - 1 < n /\ m <= cut[n]
  BY <1>2
<1>4. n - 1 \notin far
  BY <1>2, <1>3
<1>5. cut[n - 1] < m
  BY <1>0, <1>3, <1>4
<1>6. ASSUME NEW i \in 0..P PROVE \A j \in i..P : cut[i] <= cut[j]
  <2>. DEFINE bad == {j \in i..P : ~(cut[i] <= cut[j])}
  <2>1. ASSUME bad # {} PROVE FALSE
    <3>1. bad \subseteq Nat
      OBVIOUS
    <3>2. PICK j \in bad : \A k \in bad : ~(k < j)
      <4>. HIDE DEF bad
      <4>. QED
        BY <2>1, <3>1, Least
    <3>3. j # i /\ j \in i..P
      BY <3>2
    <3>4. j \in 1..P /\ j - 1 \in i..P /\ j - 1 < j /\ j - 1 \in 0..P /\ j \in 0..P
      BY <3>3
    <3>5. cut[i] <= cut[j - 1]
      BY <3>2, <3>4
    <3>6. cut[i] \in Nat /\ cut[j - 1] \in Nat /\ cut[j] \in Nat /\ cut[j - 1] <= cut[j]
      BY <3>4
    <3>. QED
      BY <3>2, <3>5, <3>6
  <2>. QED
    BY <2>1
<1>7. ASSUME NEW i \in 1..P, NEW j \in 1..P, i < j, m <= cut[i], cut[j - 1] < m PROVE FALSE
  <2>1. i \in 0..P /\ j - 1 \in i..P /\ j - 1 \in 0..P
    BY <1>7
  <2>2. cut[i] <= cut[j - 1] /\ cut[i] \in Nat /\ cut[j - 1] \in Nat
    BY <1>6, <2>1
  <2>. QED
    BY <1>0, <1>7, <2>2
<1>8. ASSUME NEW i \in 1..P, NEW j \in 1..P, cut[i - 1] < m, m <= cut[i], cut[j - 1] < m, m <= cut[j] PROVE i = j
  <2>1. ~(i < j) /\ ~(j < i)
    BY <1>7, <1>8
  <2>. QED
    BY <2>1
<1>. QED
  BY <1>3, <1>5, <1>8

LEMMA WholeIs ==
  ASSUME NEW rows, TypedItems(rows), NEW V, NEW o, Plain(o), NoneIsNoOrder, Paged(o), NEW list, IsListing(list)
  PROVE  Whole([n \in 1..Cardinality(Ids("item", rows)) + 1 |-> Listing(V, o, list, n, rows)], o, list, V, rows)
<1>. DEFINE N == 1..Cardinality(Ids("item", rows)) + 1
            S == Matching(V, o, rows)
            total == Cardinality(S)
            P == PagesOf(list, total)
            page == [n \in N |-> Listing(V, o, list, n, rows)]
            these(n) == Found(V, Shown(o, list, n), rows)
            all == Found(V, [o EXCEPT !.all = TRUE], rows)
            cut == [n \in 0..P |-> CutOf(list, total, n)]
            leads == [n \in 0..P |-> LeadingCut(list, total, n)]
            on(m) == CHOOSE n \in 1..P : cut[n - 1] < m /\ m <= cut[n]
            mix == [m \in 1..total |-> these(on(m))[m]]
            pieces == [n \in 1..P |-> SubSeq(mix, cut[n - 1] + 1, cut[n])]
            heads == [n \in 1..P |-> SubSeq(mix, leads[n - 1] + 1, leads[n])]
<1>1. total \in Nat /\ total <= Cardinality(Ids("item", rows)) /\ Cardinality(Ids("item", rows)) \in Nat
  BY FoundLists, FS_Subset, FS_CardinalityType
<1>2. /\ P \in Nat \ {0} /\ P <= total + 1
      /\ CutOf(list, total, 0) = 0 /\ CutOf(list, total, P) = total
      /\ \A n \in 0..P : CutOf(list, total, n) \in Nat /\ CutOf(list, total, n) <= total
      /\ \A n \in 1..P : CutOf(list, total, n - 1) <= CutOf(list, total, n)
  <2>. HIDE DEF total
  <2>. QED
    BY <1>1, CutsAre
<1>3. ListItems(V, [o EXCEPT !.all = TRUE], rows).items = all
  BY AllIs, ListItemsAre
<1>4. ASSUME NEW n
      PROVE  /\ ListsOnce(these(n), S) /\ ListsOnce(all, S)
             /\ Len(these(n)) = Len(all) /\ Alike(these(n), all, o, rows)
  BY ShownIs, AllIs, FoundAlike
<1>5. all \in Seq(S) /\ Len(all) = total /\ (\A x \in S : \E n \in 1..total : all[n] = x)
      /\ \A m, n \in 1..total : all[m] = all[n] => m = n
  BY <1>4 DEF ListsOnce
<1>6. ASSUME NEW n PROVE these(n) \in Seq(S) /\ Len(these(n)) = total
  BY <1>4 DEF ListsOnce
<1>7. ASSUME NEW n \in 1..P
      PROVE  /\ Joined(Listing(V, o, list, n, rows).leading, Listing(V, o, list, n, rows).remaining) =
                  SubSeq(these(n), CutOf(list, total, n - 1) + 1, CutOf(list, total, n))
             /\ Listing(V, o, list, n, rows).leading =
                  SubSeq(these(n), LeadingCut(list, total, n - 1) + 1, LeadingCut(list, total, n))
             /\ Listing(V, o, list, n, rows).pages = P
  BY ListingIs
<1>8. \A n \in 1..P : n \in N /\ page[n] = Listing(V, o, list, n, rows)
  <2>. HIDE DEF total, P
  <2>1. 1..P \subseteq N
    BY <1>1, <1>2
  <2>. QED
    BY <2>1
<1>9. 1 \in 1..P /\ page[1].pages = P
  BY <1>2, <1>7, <1>8
<1>10. \A n \in 1..P : n \in 0..P /\ n - 1 \in 0..P
  BY <1>2
<1>. HIDE DEF P, all, these, total, page, S
<1>11. cut[0] = 0 /\ cut[P] = total /\ (\A n \in 0..P : cut[n] \in Nat /\ cut[n] <= total) /\ \A n \in 1..P : cut[n - 1] <= cut[n]
  BY <1>2, <1>10
<1>12. /\ leads[0] = 0 /\ leads[P] = Least2(total, list.leading)
       /\ (\A n \in 0..P : leads[n] \in Nat /\ leads[n] <= total)
       /\ \A n \in 1..P : leads[n - 1] <= leads[n] /\ leads[n] <= cut[n] /\ (leads[n - 1] < leads[n] => leads[n - 1] = cut[n - 1])
  <2>1. list.leading \in Nat
    BY DEF IsListing
  <2>2. \A n \in 0..P : leads[n] = Least2(cut[n], list.leading)
    BY DEF LeadingCut
  <2>3. 0 \in 0..P /\ P \in 0..P
    BY <1>2
  <2>. HIDE DEF leads, cut
  <2>4. leads[0] = 0 /\ leads[P] = Least2(total, list.leading)
    BY <1>11, <2>1, <2>2, <2>3 DEF Least2
  <2>5. \A n \in 0..P : leads[n] \in Nat /\ leads[n] <= total
    BY <1>1, <1>11, <2>1, <2>2 DEF Least2
  <2>6. ASSUME NEW n \in 1..P
        PROVE  leads[n - 1] <= leads[n] /\ leads[n] <= cut[n] /\ (leads[n - 1] < leads[n] => leads[n - 1] = cut[n - 1])
    <3>1. cut[n - 1] \in Nat /\ cut[n] \in Nat /\ cut[n - 1] <= cut[n]
      BY <1>10, <1>11
    <3>2. leads[n - 1] = Least2(cut[n - 1], list.leading) /\ leads[n] = Least2(cut[n], list.leading)
      BY <1>10, <2>2
    <3>. QED
      BY <2>1, <3>1, <3>2 DEF Least2
  <2>. QED
    BY <2>4, <2>5, <2>6
<1>13. /\ \A n \in 1..P : cut[n - 1] = CutOf(list, total, n - 1) /\ cut[n] = CutOf(list, total, n)
       /\ \A n \in 1..P : leads[n - 1] = LeadingCut(list, total, n - 1) /\ leads[n] = LeadingCut(list, total, n)
  BY <1>10
<1>. HIDE DEF cut, leads
<1>14. ASSUME NEW m \in 1..total
       PROVE  on(m) \in 1..P /\ \A n \in 1..P : cut[n - 1] < m /\ m <= cut[n] => on(m) = n
  <2>1. /\ \E n \in 1..P : cut[n - 1] < m /\ m <= cut[n]
        /\ \A i, j \in 1..P : cut[i - 1] < m /\ m <= cut[i] /\ cut[j - 1] < m /\ m <= cut[j] => i = j
    BY <1>2, <1>11, PagePlace
  <2>. QED
    BY <2>1
<1>. HIDE DEF on
<1>15. \A m \in 1..total : mix[m] = these(on(m))[m]
  OBVIOUS
<1>16. ASSUME NEW m \in 1..total
       PROVE  mix[m] \in S /\ SortKey(mix[m], o, rows) = SortKey(all[m], o, rows)
  <2>1. these(on(m)) \in Seq(S) /\ Len(these(on(m))) = total /\ Alike(these(on(m)), all, o, rows)
    BY <1>4, <1>6
  <2>2. these(on(m))[m] \in S
    BY <2>1
  <2>. QED
    BY <1>15, <2>1, <2>2 DEF Alike
<1>17. mix \in Seq(S) /\ Len(mix) = total
  BY <1>1, <1>16
<1>. HIDE DEF mix
<1>18. ASSUME NEW n \in 1..P, NEW m \in (cut[n - 1] + 1)..cut[n] PROVE these(n)[m] = mix[m]
  <2>1. cut[n - 1] \in Nat /\ cut[n] \in Nat /\ cut[n] <= total
    BY <1>10, <1>11
  <2>2. m \in 1..total /\ cut[n - 1] < m /\ m <= cut[n]
    BY <1>1, <2>1
  <2>. QED
    BY <1>14, <1>15, <2>2
<1>19. [n \in 1..P |-> page[n].leading \o page[n].remaining] = pieces
  <2>1. ASSUME NEW n \in 1..P PROVE page[n].leading \o page[n].remaining = SubSeq(mix, cut[n - 1] + 1, cut[n])
    <3>1. Joined(page[n].leading, page[n].remaining) = SubSeq(these(n), cut[n - 1] + 1, cut[n])
      BY <1>7, <1>8, <1>13
    <3>2. cut[n - 1] \in Nat /\ cut[n] \in Nat /\ cut[n] <= total
      BY <1>10, <1>11
    <3>3. SubSeq(these(n), cut[n - 1] + 1, cut[n]) = SubSeq(mix, cut[n - 1] + 1, cut[n])
      <4>. DEFINE l == these(n)
      <4>1. l \in Seq(S) /\ Len(l) = Len(mix) /\ cut[n] <= Len(l) /\ Agree(l, mix, cut[n - 1], cut[n])
        BY <1>6, <1>17, <1>18, <3>2 DEF Agree
      <4>. HIDE DEF l
      <4>2. SubSeq(l, cut[n - 1] + 1, cut[n]) = SubSeq(mix, cut[n - 1] + 1, cut[n])
        BY <1>17, <3>2, <4>1, SamePieces
      <4>. QED
        BY <4>2 DEF l
    <3>. QED
      BY <3>1, <3>3 DEF Joined
  <2>. QED
    BY <2>1
<1>20. [n \in 1..P |-> page[n].leading] = heads
  <2>1. ASSUME NEW n \in 1..P PROVE page[n].leading = SubSeq(mix, leads[n - 1] + 1, leads[n])
    <3>1. page[n].leading = SubSeq(these(n), leads[n - 1] + 1, leads[n])
      BY <1>7, <1>8, <1>13
    <3>2. leads[n - 1] \in Nat /\ leads[n] \in Nat /\ leads[n] <= total /\ cut[n - 1] \in Nat /\ cut[n] \in Nat
      BY <1>10, <1>11, <1>12
    <3>3. ASSUME NEW m \in (leads[n - 1] + 1)..leads[n] PROVE these(n)[m] = mix[m]
      <4>1. leads[n - 1] < leads[n] /\ leads[n] <= cut[n]
        BY <1>12, <3>2
      <4>2. leads[n - 1] = cut[n - 1]
        BY <1>12, <4>1
      <4>3. m \in (cut[n - 1] + 1)..cut[n]
        BY <3>2, <4>1, <4>2
      <4>. QED
        BY <1>18, <4>3
    <3>4. SubSeq(these(n), leads[n - 1] + 1, leads[n]) = SubSeq(mix, leads[n - 1] + 1, leads[n])
      <4>. DEFINE l == these(n)
      <4>1. l \in Seq(S) /\ Len(l) = Len(mix) /\ leads[n] <= Len(l) /\ Agree(l, mix, leads[n - 1], leads[n])
        BY <1>6, <1>17, <3>2, <3>3 DEF Agree
      <4>. HIDE DEF l
      <4>2. SubSeq(l, leads[n - 1] + 1, leads[n]) = SubSeq(mix, leads[n - 1] + 1, leads[n])
        <5>1. mix \in Seq(S) /\ leads[n - 1] \in Nat /\ leads[n] \in Nat
          BY <1>17, <3>2
        <5>. QED
          BY <4>1, <5>1, SamePieces
      <4>. QED
        BY <4>2 DEF l
    <3>. QED
      BY <3>1, <3>4
  <2>. QED
    BY <2>1
<1>21. FlattenSeq(pieces) = SubSeq(mix, 1, cut[P])
  BY <1>2, <1>11, <1>17, PiecesJoin
<1>22. FlattenSeq(heads) = SubSeq(mix, 1, leads[P])
  <2>1. leads[0] = 0 /\ (\A n \in 0..P : leads[n] \in Nat /\ leads[n] <= Len(mix)) /\ \A n \in 1..P : leads[n - 1] <= leads[n]
    BY <1>12, <1>17
  <2>. QED
    BY <1>2, <1>17, <2>1, PiecesJoin
<1>23. SubSeq(mix, 1, total) = mix
  BY <1>17, SubSeqSame
<1>. HIDE DEF pieces, heads
<1>24. FlattenSeq([n \in 1..P |-> page[n].leading \o page[n].remaining]) = mix
  BY <1>11, <1>19, <1>21, <1>23
<1>25. FlattenSeq([n \in 1..P |-> page[n].leading]) = SubSeq(mix, 1, IF list.leading < total THEN list.leading ELSE total)
  <2>1. Least2(total, list.leading) = IF list.leading < total THEN list.leading ELSE total
    BY <1>1 DEF Least2, IsListing
  <2>. QED
    BY <1>12, <1>20, <1>22, <2>1
<1>26. ToSet(mix) \subseteq ToSet(all)
  <2>. SUFFICES ASSUME NEW m \in DOMAIN mix PROVE mix[m] \in ToSet(all)
    BY DEF ToSet
  <2>1. mix[m] \in S
    BY <1>16, <1>17
  <2>. QED
    BY <1>5, <2>1 DEF ToSet
<1>27. ASSUME NEW n \in 1..total, Alone(all[n], V, o, rows), NEW m \in 1..total PROVE mix[m] = all[n] <=> m = n
  <2>1. all[n] \in S /\ all[m] \in S
    BY <1>5
  <2>2. \A j \in S : SortKey(j, o, rows) = SortKey(all[n], o, rows) => j = all[n]
    BY <1>27 DEF Alone, S
  <2>3. m = n => mix[m] = all[n]
    BY <1>16, <2>2
  <2>4. mix[m] = all[n] => m = n
    BY <1>5, <1>16, <2>1, <2>2
  <2>. QED
    BY <2>3, <2>4
<1>. DEFINE pages == [n \in 1..page[1].pages |-> page[n]]
<1>28. /\ [n \in DOMAIN pages |-> pages[n].leading \o pages[n].remaining] = [n \in 1..P |-> page[n].leading \o page[n].remaining]
       /\ [n \in DOMAIN pages |-> pages[n].leading] = [n \in 1..P |-> page[n].leading]
  BY <1>9
<1>29. Whole(page, o, list, V, rows)
  <2>. HIDE DEF pages
  <2>. DEFINE joined == FlattenSeq([n \in DOMAIN pages |-> pages[n].leading \o pages[n].remaining])
  <2>1. joined = mix /\ FlattenSeq([n \in DOMAIN pages |-> pages[n].leading]) =
                          SubSeq(mix, 1, IF list.leading < total THEN list.leading ELSE total)
    BY <1>24, <1>25, <1>28
  <2>. HIDE DEF joined
  <2>2. InPlace(mix, all, V, o, rows)
    BY <1>5, <1>16, <1>17, <1>26, <1>27 DEF InPlace
  <2>3. /\ InPlace(joined, all, V, o, rows)
        /\ FlattenSeq([n \in DOMAIN pages |-> pages[n].leading]) =
             SubSeq(joined, 1, IF list.leading < Len(all) THEN list.leading ELSE Len(all))
    BY <1>5, <2>1, <2>2
  <2>. QED
    BY <1>3, <2>3 DEF Whole, pages, joined
<1>. QED
  BY <1>29 DEF page

----------------------------------------------------------------------------
\* The rows that listings are made of

LEMMA TheIs ==
  ASSUME NEW what, NEW x, NEW rows, x \in Ids(what, rows)
  PROVE  \E r \in rows : r[1] = what /\ r[2] = x /\ The(what, x, rows) = r[3]
<1>1. Of(what, x, rows) # {}
  BY DEF Ids, Of
<1>. QED
  BY <1>1 DEF The, Of

LEMMA TypedItemsAre ==
  ASSUME NEW rows, Typed(rows)
  PROVE  TypedItems(rows)
<1>1. ASSUME NEW i \in Ids("item", rows) PROVE IsItem(i, The("item", i, rows))
  <2>1. PICK r \in rows : r[1] = "item" /\ r[2] = i /\ The("item", i, rows) = r[3]
    BY TheIs
  <2>. QED
    BY <2>1 DEF Typed, TypedRow, Sorted, IsItem
<1>. QED
  BY <1>1 DEF TypedItems

\* What one gets by taking step again and again.
Iterates(T, step, x, f) == f \in [Nat -> T] /\ f[0] = x /\ \A n \in Nat : f[n + 1] = step[f[n]]
LEMMA Iteration ==
  ASSUME NEW T, NEW step \in [T -> T], NEW x \in T
  PROVE  \E f : Iterates(T, step, x, f)
<1>. DEFINE InitialPart(n, g) == g \in [0..n -> T] /\ g[0] = x /\ \A m \in 0..n : m + 1 \in 0..n => g[m + 1] = step[g[m]]
<1>1. \A n \in Nat : \E g : InitialPart(n, g)
  <2>. DEFINE S == {n \in Nat : \A g : ~InitialPart(n, g)}
  <2>1. ASSUME S # {} PROVE FALSE
    <3>1. PICK n \in S : \A m \in S : ~(m < n)
      <4>. HIDE DEF InitialPart
      <4>. QED
        BY <2>1, Least
    <3>2. n # 0
      <4>1. InitialPart(0, [m \in 0..0 |-> x])
        OBVIOUS
      <4>. QED
        BY <4>1
    <3>3. n \in Nat /\ n - 1 \in Nat /\ n - 1 < n
      BY <3>2
    <3>4. PICK g : InitialPart(n - 1, g)
      <4>. HIDE DEF InitialPart
      <4>. QED
        BY <3>1, <3>3
    <3>5. InitialPart(n, [m \in 0..n |-> IF m = n THEN step[g[n - 1]] ELSE g[m]])
      BY <3>3, <3>4
    <3>. QED
      BY <3>5
  <2>. HIDE DEF InitialPart
  <2>. QED
    BY <2>1
<1>2. ASSUME NEW n \in Nat, NEW k \in Nat, NEW g, NEW h, InitialPart(n, g), InitialPart(k, h)
      PROVE  \A m \in Nat : m <= n /\ m <= k => g[m] = h[m]
  <2>. DEFINE S == {m \in Nat : m <= n /\ m <= k /\ g[m] # h[m]}
  <2>1. ASSUME S # {} PROVE FALSE
    <3>1. PICK m \in S : \A j \in S : ~(j < m)
      BY <2>1, Least
    <3>2. m # 0
      BY <1>2
    <3>3. m - 1 \in 0..n /\ m - 1 \in 0..k /\ (m - 1) + 1 \in 0..n /\ (m - 1) + 1 \in 0..k /\ (m - 1) + 1 = m /\ m - 1 \notin S
      BY <3>1, <3>2
    <3>. QED
      BY <1>2, <3>3
  <2>. QED
    BY <2>1
<1>. DEFINE upTo(n) == CHOOSE g : InitialPart(n, g)
<1>3. \A n \in Nat : InitialPart(n, upTo(n))
  <2>. HIDE DEF InitialPart
  <2>. QED
    BY <1>1
<1>. DEFINE f == [n \in Nat |-> upTo(n)[n]]
<1>. HIDE DEF upTo
<1>4. f \in [Nat -> T] /\ f[0] = x
  BY <1>3
<1>5. ASSUME NEW n \in Nat PROVE f[n + 1] = step[f[n]]
  <2>1. upTo(n + 1)[n] = upTo(n)[n]
    <3>1. n + 1 \in Nat /\ n <= n + 1 /\ n <= n
      OBVIOUS
    <3>. HIDE DEF InitialPart
    <3>. QED
      BY <1>2, <1>3, <3>1
  <2>2. InitialPart(n + 1, upTo(n + 1)) /\ n \in 0..n + 1 /\ n + 1 \in 0..n + 1
    BY <1>3
  <2>. QED
    BY <2>1, <2>2
<1>. HIDE DEF f
<1>. QED
  BY <1>4, <1>5 DEF Iterates

LEMMA Iterated ==
  ASSUME NEW f, NEW S, f[0] \in S, \A n \in Nat \ {0} : f[n - 1] \in S => f[n] \in S
  PROVE  \A n \in Nat : f[n] \in S
<1>. DEFINE bad == {n \in Nat : f[n] \notin S}
<1>1. ASSUME bad # {} PROVE FALSE
  <2>0. bad \subseteq Nat
    OBVIOUS
  <2>1. PICK n \in bad : \A m \in bad : ~(m < n)
    <3>. HIDE DEF bad
    <3>. QED
      BY <1>1, <2>0, Least
  <2>2. n \in Nat \ {0}
    BY <2>1
  <2>3. n - 1 \in Nat /\ n - 1 < n
    BY <2>2
  <2>4. f[n - 1] \in S
    BY <2>1, <2>3
  <2>. QED
    BY <2>1, <2>2, <2>4
<1>. QED
  BY <1>1

LEMMA SettingsThere ==
  ASSUME NEW rows, NEW c \in Ids("category", rows)
  PROVE  SettingsOf(c, rows) \in Ids("category", rows)
<1>. DEFINE C == Ids("category", rows)
            row(d) == The("category", d, rows)
            above(d) == IF row(d).inherits /\ row(d).parent # None /\ Has("category", row(d).parent, rows)
                        THEN row(d).parent ELSE d
            Body(f) == [n \in Nat |-> IF n = 0 THEN c ELSE above(f[n - 1])]
            up == CHOOSE f : f = Body(f)
<1>1. SettingsOf(c, rows) = up[Cardinality(Category)]
  BY DEF SettingsOf
<1>2. ASSUME NEW d \in C PROVE above(d) \in C
  BY DEF Has, Ids
<1>. DEFINE step == [d \in C |-> above(d)]
<1>3. step \in [C -> C] /\ \A d \in C : step[d] = above(d)
  BY <1>2
<1>. HIDE DEF C, step, above
<1>4. PICK f : Iterates(C, step, c, f)
  BY <1>3, Iteration DEF C
<1>5. f = Body(f)
  <2>1. f \in [Nat -> C] /\ f[0] = c /\ \A n \in Nat : f[n + 1] = step[f[n]]
    BY <1>4 DEF Iterates
  <2>2. ASSUME NEW n \in Nat PROVE f[n] = IF n = 0 THEN c ELSE above(f[n - 1])
    <3>1. CASE n = 0
      BY <2>1, <3>1
    <3>2. CASE n # 0
      <4>1. n - 1 \in Nat /\ (n - 1) + 1 = n
        BY <3>2
      <4>2. f[(n - 1) + 1] = step[f[n - 1]] /\ f[n - 1] \in C
        BY <2>1, <4>1
      <4>. QED
        BY <1>3, <3>2, <4>1, <4>2
    <3>. QED
      BY <3>1, <3>2
  <2>. QED
    BY <2>1, <2>2
<1>6. up = Body(up)
  <2>. HIDE DEF Body
  <2>. QED
    BY <1>5, Zenon
<1>. HIDE DEF up
<1>7. up[0] = c /\ \A n \in Nat \ {0} : up[n] = above(up[n - 1])
  BY <1>6
<1>. HIDE DEF Body
<1>8. \A n \in Nat : up[n] \in C
  <2>1. up[0] \in C /\ \A n \in Nat \ {0} : up[n - 1] \in C => up[n] \in C
    BY <1>2, <1>7 DEF C
  <2>. QED
    BY <2>1, Iterated
<1>9. Cardinality(Category) \in Nat
  <2>1. IsFiniteSet(Category)
    BY FS_Subset, ContentIdsAssumption
  <2>. QED
    BY <2>1, FS_CardinalityType
<1>. QED
  BY <1>1, <1>8, <1>9 DEF C

LEMMA ListingsAre ==
  ASSUME NEW rows, Typed(rows)
  PROVE  /\ \A c \in Ids("category", rows) : IsListing(ResolveCategoryListingSettings(c, rows))
         /\ IsListing(FeaturedListing(rows))
<1>1. ASSUME NEW list \in Listings PROVE IsListing(ListingSettings(list))
  <2>1. DOMAIN list = {"size", "paged", "leading", "related"} /\ list.size \in Int /\ list.leading \in Int /\ list.paged \in BOOLEAN
    BY DEF Listings
  <2>2. NormalizeCategoryListPageSize(list.size) \in Nat \ {0} /\ NormalizeCategoryLeadingArticles(list.leading) \in Nat
    BY <2>1, ListingAssumption DEF NormalizeCategoryListPageSize, NormalizeCategoryLeadingArticles
  <2>. QED
    BY <2>1, <2>2 DEF ListingSettings, IsListing
<1>2. ASSUME NEW c \in Ids("category", rows) PROVE IsListing(ResolveCategoryListingSettings(c, rows))
  <2>1. SettingsOf(c, rows) \in Ids("category", rows)
    BY SettingsThere
  <2>2. PICK r \in rows : r[1] = "category" /\ The("category", SettingsOf(c, rows), rows) = r[3]
    BY <2>1, TheIs
  <2>3. The("category", SettingsOf(c, rows), rows).list \in Listings
    BY <2>2 DEF Typed, TypedRow
  <2>. QED
    BY <1>1, <2>3 DEF ResolveCategoryListingSettings
<1>3. IsListing(FeaturedListing(rows))
  <2>. DEFINE default == [size |-> DefaultPageSize, paged |-> TRUE, leading |-> 0, related |-> "inherit"]
  <2>1. CASE Has("settings", "featured", rows)
    <3>1. "featured" \in Ids("settings", rows)
      BY <2>1 DEF Has, Ids
    <3>2. PICK r \in rows : r[1] = "settings" /\ The("settings", "featured", rows) = r[3]
      BY <3>1, TheIs
    <3>3. The("settings", "featured", rows) \in Listings
      BY <3>2 DEF Typed, TypedRow
    <3>. QED
      BY <1>1, <2>1, <3>3 DEF FeaturedListing
  <2>2. CASE ~Has("settings", "featured", rows)
    <3>1. default \in Listings
      BY ListingAssumption DEF Listings
    <3>. QED
      BY <1>1, <2>2, <3>1 DEF FeaturedListing
  <2>. QED
    BY <2>1, <2>2
<1>. QED
  BY <1>2, <1>3

----------------------------------------------------------------------------
LEMMA PagedPlain ==
  ASSUME NoneIsNoOrder, NEW x
  PROVE  /\ Paged([ListOptions EXCEPT !.categories = x]) /\ Plain([ListOptions EXCEPT !.categories = x])
         /\ Paged([ListOptions EXCEPT !.featured = x]) /\ Plain([ListOptions EXCEPT !.featured = x])
<1>1. Paged([ListOptions EXCEPT !.categories = x]) /\ Paged([ListOptions EXCEPT !.featured = x])
  BY DEF Paged
<1>. QED
  BY <1>1 DEF Plain, ListOptions

LEMMA PagesPart ==
  ASSUME NEW rows, Typed(rows), NoneIsNoOrder, NEW V
  PROVE  LET N == 1..Cardinality(Ids("item", rows)) + 1 IN
    /\ \A c \in Active("category", rows) :
         Whole([n \in N |-> CategoryPage(c, V, n, rows)], [ListOptions EXCEPT !.categories = CategoryDescendantIDs(c, rows)],
               ResolveCategoryListingSettings(c, rows), V, rows)
    /\ Whole([n \in N |-> FeaturedPage(V, n, rows)], [ListOptions EXCEPT !.featured = TRUE],
             FeaturedListing(rows), V, rows)
<1>. DEFINE N == 1..Cardinality(Ids("item", rows)) + 1
<1>1. TypedItems(rows)
  BY TypedItemsAre
<1>2. ASSUME NEW c \in Active("category", rows)
      PROVE  Whole([n \in N |-> CategoryPage(c, V, n, rows)],
                   [ListOptions EXCEPT !.categories = CategoryDescendantIDs(c, rows)],
                   ResolveCategoryListingSettings(c, rows), V, rows)
  <2>. DEFINE o == [ListOptions EXCEPT !.categories = CategoryDescendantIDs(c, rows)]
              list == ResolveCategoryListingSettings(c, rows)
  <2>1. Paged(o) /\ Plain(o)
    BY PagedPlain
  <2>2. IsListing(list)
    BY ListingsAre DEF Active
  <2>. HIDE DEF o, list
  <2>3. Whole([n \in N |-> Listing(V, o, list, n, rows)], o, list, V, rows)
    BY <1>1, <2>1, <2>2, WholeIs
  <2>. QED
    BY <2>3 DEF CategoryPage, o, list
<1>3. Whole([n \in N |-> FeaturedPage(V, n, rows)], [ListOptions EXCEPT !.featured = TRUE], FeaturedListing(rows), V, rows)
  <2>. DEFINE o == [ListOptions EXCEPT !.featured = TRUE]
              list == FeaturedListing(rows)
  <2>1. Paged(o) /\ Plain(o)
    BY PagedPlain
  <2>2. IsListing(list)
    BY ListingsAre
  <2>. HIDE DEF o, list
  <2>3. Whole([n \in N |-> Listing(V, o, list, n, rows)], o, list, V, rows)
    BY <1>1, <2>1, <2>2, WholeIs
  <2>. QED
    BY <2>3 DEF FeaturedPage, o, list
<1>. QED
  BY <1>2, <1>3

----------------------------------------------------------------------------
\* What lists lead to

\* Whoever is in groups that are active sees what is listed for him.
LEMMA OpensAre ==
  ASSUME NEW V, NEW rows, V \subseteq Active("group", rows)
  PROVE  Opens(V, rows) = VisibleItems(V, rows)
<1>1. ASSUME NEW i \in VisibleItems(V, rows) PROVE CanViewContent(V, Linked("sees", i, rows), rows)
  BY DEF VisibleItems, Listed, CanViewContent
<1>. QED
  BY <1>1 DEF Opens, VisibleItems, ItemBySlug, LoadVisibleItemByID

\* A page of a list that is in order.
Asking(o) == Plain(o) /\ o.page \in Nat \ {0} /\ o.limit \in Nat \ {0} /\ o.all \in BOOLEAN

LEMMA ListVisible ==
  ASSUME NEW V, NEW rows, Typed(rows), NoneIsNoOrder, NEW o, Asking(o)
  PROVE  \E T : /\ T \subseteq VisibleItems(V, rows) /\ ListItems(V, o, rows).items \in Seq(T)
                /\ ToSet(ListItems(V, o, rows).items) \subseteq VisibleItems(V, rows)
<1>1. SameSearch(o, o) /\ Plain(o) /\ TypedItems(rows)
  BY TypedItemsAre DEF SameSearch, Asking
<1>2. ListItems(V, o, rows).items \in Seq(Matching(V, o, rows)) /\ ToSet(ListItems(V, o, rows).items) \subseteq Matching(V, o, rows)
  <2>1. o.page \in Nat \ {0} /\ o.limit \in Nat \ {0} /\ o.all \in BOOLEAN
    BY DEF Asking
  <2>. QED
    BY <1>1, <2>1, ListedWithin
<1>3. Matching(V, o, rows) \subseteq VisibleItems(V, rows)
  BY DEF Matching
<1>. QED
  BY <1>2, <1>3

LEMMA AskingIs ==
  /\ Asking(ListOptions)
  /\ \A m \in Nat \ {0} : /\ Asking([ListOptions EXCEPT !.limit = m]) /\ Asking([ListOptions EXCEPT !.page = m])
                          /\ Asking([ListOptions EXCEPT !.limit = m, !.sort = "sort"])
                          /\ Asking([ListOptions EXCEPT !.limit = m, !.featured = TRUE])
  /\ \A x : /\ Asking([ListOptions EXCEPT !.categories = x]) /\ Asking([ListOptions EXCEPT !.query = x])
            /\ Asking([ListOptions EXCEPT !.filters = x])
  /\ \A x : \A m \in Nat \ {0} :
       /\ Asking([ListOptions EXCEPT !.tag = x, !.page = m]) /\ Asking([ListOptions EXCEPT !.author = x, !.page = m])
       /\ Asking([[ListOptions EXCEPT !.categories = x] EXCEPT !.limit = m]) /\ Asking([[ListOptions EXCEPT !.tag = x] EXCEPT !.limit = m])
       /\ Asking([[ListOptions EXCEPT !.author = x] EXCEPT !.limit = m]) /\ Asking([[ListOptions EXCEPT !.featured = x] EXCEPT !.limit = m])
  /\ \A x : \A n, m \in Nat \ {0} : \A b \in BOOLEAN :
       /\ Asking([[ListOptions EXCEPT !.categories = x] EXCEPT !.page = n, !.limit = m, !.all = b])
       /\ Asking([[ListOptions EXCEPT !.featured = x] EXCEPT !.page = n, !.limit = m, !.all = b])
BY DEF Asking, Plain, ListOptions

\* The options of a listing.
ListsBy(o) == \E x : o \in {[ListOptions EXCEPT !.categories = x], [ListOptions EXCEPT !.featured = x]}

LEMMA ListingSeqs ==
  ASSUME NEW V, NEW rows, Typed(rows), NoneIsNoOrder, NEW o, ListsBy(o),
         NEW list, IsListing(list), NEW n \in Nat \ {0}
  PROVE  \E T \in SUBSET VisibleItems(V, rows) :
           Listing(V, o, list, n, rows).leading \in Seq(T) /\ Listing(V, o, list, n, rows).remaining \in Seq(T)
<1>. DEFINE p == Shown(o, list, n)
            items == ListItems(V, p, rows).items
            parts == SplitCategoryLeadingItems(items, list, n)
            left == list.leading - (IF list.paged THEN (n - 1) * list.size ELSE 0)
            first == IF left < 0 THEN 0 ELSE IF left > Len(items) THEN Len(items) ELSE left
<1>0. PICK x : o \in {[ListOptions EXCEPT !.categories = x], [ListOptions EXCEPT !.featured = x]}
  BY DEF ListsBy
<1>1. Asking(p)
  <2>. DEFINE page == IF list.paged THEN n ELSE 1
              b == ~list.paged
  <2>1. page \in Nat \ {0} /\ list.size \in Nat \ {0} /\ b \in BOOLEAN
    BY DEF IsListing
  <2>2. p = [o EXCEPT !.page = page, !.limit = list.size, !.all = b]
    BY DEF Shown
  <2>. HIDE DEF page, b, p
  <2>. QED
    BY <1>0, <2>1, <2>2, AskingIs
<1>2. PICK T : T \subseteq VisibleItems(V, rows) /\ items \in Seq(T)
  <2>. HIDE DEF p
  <2>. QED
    BY <1>1, ListVisible
<1>3. /\ Listing(V, o, list, n, rows).leading = parts.leading
      /\ Listing(V, o, list, n, rows).remaining = parts.remaining
  BY DEF Listing, Shown
<1>. HIDE DEF p, items
<1>4. parts.leading = SubSeq(items, 1, first) /\ parts.remaining = SubSeq(items, first + 1, Len(items))
  BY DEF SplitCategoryLeadingItems
<1>5. left \in Int
  BY DEF IsListing
<1>. HIDE DEF left
<1>6. Len(items) \in Nat /\ first \in Nat /\ first <= Len(items)
  BY <1>2, <1>5
<1>. HIDE DEF first
<1>7. /\ ToSet(SubSeq(items, 0 + 1, first)) \subseteq T /\ ToSet(SubSeq(items, first + 1, Len(items))) \subseteq T
      /\ SubSeq(items, 0 + 1, first) \in Seq(T) /\ SubSeq(items, first + 1, Len(items)) \in Seq(T)
  BY <1>2, <1>6, SubSeqWithin
<1>. HIDE DEF parts
<1>8. parts.leading \in Seq(T) /\ parts.remaining \in Seq(T)
  <2>1. 0 + 1 = 1
    OBVIOUS
  <2>. QED
    BY <1>4, <1>7, <2>1
<1>9. Listing(V, o, list, n, rows).leading \in Seq(T) /\ Listing(V, o, list, n, rows).remaining \in Seq(T)
  BY <1>3, <1>8, Zenon
<1>10. T \in SUBSET VisibleItems(V, rows)
  BY <1>2
<1>. QED
  BY <1>9, <1>10, Zenon

LEMMA ListingVisible ==
  ASSUME NEW V, NEW rows, Typed(rows), NoneIsNoOrder, NEW o, ListsBy(o),
         NEW list, IsListing(list), NEW n \in Nat \ {0}
  PROVE  ToSet(Listing(V, o, list, n, rows).leading) \cup ToSet(Listing(V, o, list, n, rows).remaining)
           \subseteq VisibleItems(V, rows)
<1>1. PICK T \in SUBSET VisibleItems(V, rows) :
        Listing(V, o, list, n, rows).leading \in Seq(T) /\ Listing(V, o, list, n, rows).remaining \in Seq(T)
  BY ListingSeqs
<1>. DEFINE a == Listing(V, o, list, n, rows).leading
            b == Listing(V, o, list, n, rows).remaining
<1>. HIDE DEF a, b
<1>2. a \in Seq(T) /\ b \in Seq(T)
  BY <1>1 DEF a, b
<1>3. ToSet(a) \subseteq T /\ ToSet(b) \subseteq T
  BY <1>2 DEF ToSet
<1>. QED
  BY <1>1, <1>3 DEF a, b

----------------------------------------------------------------------------
\* Where the links come from

LEMMA ListShown ==
  ASSUME NEW V, NEW rows, Typed(rows), NoneIsNoOrder, NEW o, Asking(o)
  PROVE  ToSet(ListItems(V, o, rows).items) \subseteq VisibleItems(V, rows)
BY ListVisible

LEMMA PagesShown ==
  ASSUME NEW V, NEW rows, Typed(rows), NoneIsNoOrder, NEW n \in Nat \ {0}
  PROVE  /\ \A c \in Ids("category", rows) :
              ToSet(CategoryPage(c, V, n, rows).leading) \cup ToSet(CategoryPage(c, V, n, rows).remaining) \subseteq VisibleItems(V, rows)
         /\ ToSet(FeaturedPage(V, n, rows).leading) \cup ToSet(FeaturedPage(V, n, rows).remaining) \subseteq VisibleItems(V, rows)
         /\ \A t : ToSet(TagPage(t, V, n, rows).items) \subseteq VisibleItems(V, rows)
         /\ \A u : ToSet(AuthorPage(u, V, n, rows).items) \subseteq VisibleItems(V, rows)
         /\ ToSet(ApiItems(V, n, rows)) \subseteq VisibleItems(V, rows)
<1>1. ASSUME NEW c \in Ids("category", rows)
      PROVE  ToSet(CategoryPage(c, V, n, rows).leading) \cup ToSet(CategoryPage(c, V, n, rows).remaining) \subseteq VisibleItems(V, rows)
  <2>. DEFINE o == [ListOptions EXCEPT !.categories = CategoryDescendantIDs(c, rows)]
              list == ResolveCategoryListingSettings(c, rows)
  <2>1. IsListing(list)
    BY ListingsAre
  <2>. HIDE DEF list
  <2>2. ToSet(Listing(V, o, list, n, rows).leading) \cup ToSet(Listing(V, o, list, n, rows).remaining) \subseteq VisibleItems(V, rows)
    BY <2>1, ListingVisible DEF ListsBy
  <2>. QED
    BY <2>2 DEF CategoryPage, list
<1>2. ToSet(FeaturedPage(V, n, rows).leading) \cup ToSet(FeaturedPage(V, n, rows).remaining) \subseteq VisibleItems(V, rows)
  <2>. DEFINE o == [ListOptions EXCEPT !.featured = TRUE]
              list == FeaturedListing(rows)
  <2>1. IsListing(list)
    BY ListingsAre
  <2>. HIDE DEF list
  <2>2. ToSet(Listing(V, o, list, n, rows).leading) \cup ToSet(Listing(V, o, list, n, rows).remaining) \subseteq VisibleItems(V, rows)
    BY <2>1, ListingVisible DEF ListsBy
  <2>. QED
    BY <2>2 DEF FeaturedPage, list
<1>3. ASSUME NEW t PROVE ToSet(TagPage(t, V, n, rows).items) \subseteq VisibleItems(V, rows)
  BY AskingIs, ListShown DEF TagPage
<1>4. ASSUME NEW u PROVE ToSet(AuthorPage(u, V, n, rows).items) \subseteq VisibleItems(V, rows)
  BY AskingIs, ListShown DEF AuthorPage
<1>5. ToSet(ApiItems(V, n, rows)) \subseteq VisibleItems(V, rows)
  BY AskingIs, ListShown DEF ApiItems
<1>. QED
  BY <1>1, <1>2, <1>3, <1>4, <1>5

LEMMA ListsShown ==
  ASSUME NEW V, NEW rows, Typed(rows), NoneIsNoOrder
  PROVE  /\ \A o \in FeedOptions(rows) : ToSet(Feed(o, V, rows)) \subseteq VisibleItems(V, rows)
         /\ \A o \in Searches(rows) : ToSet(ListItems(V, o, rows).items) \subseteq VisibleItems(V, rows)
         /\ \A c : ToSet(ApiCategoryItems(c, V, rows)) \subseteq VisibleItems(V, rows)
         /\ ToSet(IndexPage(V, rows).items) \subseteq VisibleItems(V, rows)
         /\ ToSet(IndexPage(V, rows).featured) \subseteq VisibleItems(V, rows)
<1>0. ToSet(<<>>) = {} /\ 25 \in Nat \ {0} /\ 12 \in Nat \ {0} /\ 6 \in Nat \ {0}
  BY DEF ToSet
<1>1. ASSUME NEW o \in FeedOptions(rows) PROVE ToSet(Feed(o, V, rows)) \subseteq VisibleItems(V, rows)
  <2>1. Asking([o EXCEPT !.limit = 25])
    <3>1. CASE o = ListOptions
      BY <1>0, <3>1, AskingIs, Zenon
    <3>2. CASE o \in {[ListOptions EXCEPT !.categories = {c}] : c \in Active("category", rows)}
      BY <1>0, <3>2, AskingIs, Zenon
    <3>3. CASE o \in {[ListOptions EXCEPT !.tag = t] : t \in Ids("tag", rows)}
      BY <1>0, <3>3, AskingIs, Zenon
    <3>4. CASE o \in {[ListOptions EXCEPT !.author = u] : u \in Active("user", rows)}
      BY <1>0, <3>4, AskingIs, Zenon
    <3>. QED
      BY <3>1, <3>2, <3>3, <3>4 DEF FeedOptions
  <2>2. ToSet(ListItems(V, [o EXCEPT !.limit = 25], rows).items) \subseteq VisibleItems(V, rows)
    BY <2>1, ListShown
  <2>. QED
    BY <1>0, <2>2 DEF Feed
<1>2. ASSUME NEW o \in Searches(rows) PROVE ToSet(ListItems(V, o, rows).items) \subseteq VisibleItems(V, rows)
  <2>1. Asking(o)
    <3>1. CASE o \in {[ListOptions EXCEPT !.query = t] : t \in Text}
      BY <3>1, AskingIs, Zenon
    <3>2. CASE o \in {[ListOptions EXCEPT !.filters = f :> t] : f \in Active("field", rows), t \in Text}
      <4>1. PICK f, t : o = [ListOptions EXCEPT !.filters = f :> t]
        BY <3>2
      <4>. DEFINE x == f :> t
      <4>2. o = [ListOptions EXCEPT !.filters = x]
        BY <4>1
      <4>. HIDE DEF x
      <4>. QED
        BY <4>2, AskingIs, Zenon
    <3>. QED
      BY <3>1, <3>2 DEF Searches
  <2>. QED
    BY <2>1, ListShown
<1>3. ASSUME NEW c PROVE ToSet(ApiCategoryItems(c, V, rows)) \subseteq VisibleItems(V, rows)
  BY <1>0, AskingIs, ListShown DEF ApiCategoryItems
<1>4. ToSet(IndexPage(V, rows).items) \subseteq VisibleItems(V, rows)
  <2>1. Asking([ListOptions EXCEPT !.limit = 12, !.sort = "sort"])
    BY <1>0, AskingIs, Zenon
  <2>. QED
    BY <2>1, ListShown DEF IndexPage
<1>5. ToSet(IndexPage(V, rows).featured) \subseteq VisibleItems(V, rows)
  <2>1. Asking([ListOptions EXCEPT !.limit = 6, !.featured = TRUE])
    BY <1>0, AskingIs, Zenon
  <2>. QED
    BY <2>1, ListShown DEF IndexPage
<1>. QED
  BY <1>1, <1>2, <1>3, <1>4, <1>5

LEMMA RelatedShown ==
  ASSUME NEW V, NEW rows, NEW i
  PROVE  /\ RelatedItems(i, V, rows) \subseteq VisibleItems(V, rows)
         /\ ItemPage(i, V, rows).related \subseteq VisibleItems(V, rows)
         /\ ItemTranslations(i, V, rows) \subseteq VisibleItems(V, rows)
<1>1. RelatedItems(i, V, rows) \subseteq VisibleItems(V, rows)
  BY DEF RelatedItems
<1>. QED
  BY <1>1 DEF ItemPage, ItemTranslations

LEMMA BlocksShown ==
  ASSUME NEW V, NEW rows, Typed(rows), NoneIsNoOrder, NEW b \in Blocks(rows)
  PROVE  BlockItems(b[1], b[2], V, rows) \subseteq VisibleItems(V, rows)
<1>. DEFINE listed(o) == ToSet(ListItems(V, [o EXCEPT !.limit = 5], rows).items)
            x == b[2]
<1>1. /\ listed(ListOptions) \subseteq VisibleItems(V, rows)
      /\ listed([ListOptions EXCEPT !.featured = TRUE]) \subseteq VisibleItems(V, rows)
      /\ listed([ListOptions EXCEPT !.categories = {x}]) \subseteq VisibleItems(V, rows)
      /\ listed([ListOptions EXCEPT !.tag = x]) \subseteq VisibleItems(V, rows)
      /\ listed([ListOptions EXCEPT !.author = x]) \subseteq VisibleItems(V, rows)
  <2>0. 5 \in Nat \ {0}
    OBVIOUS
  <2>1. Asking([ListOptions EXCEPT !.limit = 5]) /\ Asking([[ListOptions EXCEPT !.featured = TRUE] EXCEPT !.limit = 5])
    BY <2>0, AskingIs, Zenon
  <2>2. Asking([[ListOptions EXCEPT !.categories = {x}] EXCEPT !.limit = 5]) /\ Asking([[ListOptions EXCEPT !.tag = x] EXCEPT !.limit = 5])
        /\ Asking([[ListOptions EXCEPT !.author = x] EXCEPT !.limit = 5])
    BY <2>0, AskingIs, Zenon
  <2>. QED
    BY <2>1, <2>2, ListShown, Zenon
<1>2. PopularItems(V, 5, rows) \subseteq VisibleItems(V, rows) /\ RelatedItems(x, V, rows) \subseteq VisibleItems(V, rows)
  BY RelatedShown DEF PopularItems
<1>3. b[1] \in {"latest", "featured", "popular", "category", "tag", "author", "related"}
  BY DEF Blocks
<1>. HIDE DEF listed
<1>. QED
  BY <1>1, <1>2, <1>3 DEF BlockItems, listed

LEMMA LinksShown ==
  ASSUME NEW V, NEW rows, Typed(rows), NoneIsNoOrder
  PROVE  Links(V, rows) \subseteq VisibleItems(V, rows)
<1>1. \A size \in {1, ListOptions.limit} : \A n \in Pages(size, rows) : n \in Nat \ {0}
  <2>1. Cardinality(Ids("item", rows)) \in Nat
    <3>1. IsFiniteSet(Ids("item", rows))
      BY TypedItemsAre, FS_Subset, ContentIdsAssumption DEF TypedItems, IsItem
    <3>. QED
      BY <3>1, FS_CardinalityType
  <2>2. ASSUME NEW size \in {1, ListOptions.limit}
        PROVE  ListTotalPages(Cardinality(Ids("item", rows)), size) \in Nat
    BY <2>1, TotalPagesAre DEF ListOptions
  <2>. QED
    BY <2>2 DEF Pages
<1>2. ASSUME NEW l \in Shelves(V, rows) PROVE ToSet(l.leading) \cup ToSet(l.remaining) \subseteq VisibleItems(V, rows)
  BY <1>1, PagesShown DEF Browsable, Shelves
<1>3. ASSUME NEW l \in Lists(V, rows) PROVE ToSet(l) \subseteq VisibleItems(V, rows)
  <2>1. CASE l \in {TagPage(t, V, n, rows).items : t \in Ids("tag", rows), n \in Pages(ListOptions.limit, rows)}
    BY <1>1, <2>1, PagesShown
  <2>2. CASE l \in {AuthorPage(u, V, n, rows).items : u \in Active("user", rows), n \in Pages(ListOptions.limit, rows)}
    BY <1>1, <2>2, PagesShown
  <2>3. CASE l \in {ApiItems(V, n, rows) : n \in Pages(ListOptions.limit, rows)}
    BY <1>1, <2>3, PagesShown
  <2>4. CASE l \in {Feed(opts, V, rows) : opts \in FeedOptions(rows)} \cup {ListItems(V, opts, rows).items : opts \in Searches(rows)}
                   \cup {ApiCategoryItems(c, V, rows) : c \in Ids("category", rows)} \cup {IndexPage(V, rows).items, IndexPage(V, rows).featured}
    BY <2>4, ListsShown
  <2>. QED
    BY <2>1, <2>2, <2>3, <2>4 DEF Lists
<1>4. FromShelves(V, rows) \subseteq VisibleItems(V, rows)
  BY <1>2 DEF FromShelves
<1>5. FromLists(V, rows) \subseteq VisibleItems(V, rows)
  BY <1>3 DEF FromLists
<1>6. FromBlocks(V, rows) \subseteq VisibleItems(V, rows)
  BY BlocksShown DEF FromBlocks
<1>7. FromItems(V, rows) \subseteq VisibleItems(V, rows)
  BY RelatedShown DEF FromItems
<1>. QED
  BY <1>4, <1>5, <1>6, <1>7 DEF Links

----------------------------------------------------------------------------
\* What opens is in reach

LEMMA InSubSeq ==
  ASSUME NEW T, NEW l \in Seq(T), NEW a \in Nat, NEW b \in Nat, a <= b, b <= Len(l), NEW k \in Nat, a < k, k <= b
  PROVE  l[k] \in ToSet(SubSeq(l, a + 1, b))
<1>. DEFINE s == SubSeq(l, a + 1, b)
<1>1. s \in Seq(T) /\ Len(s) = b - a /\ \A n \in 1..Len(s) : s[n] = l[a + n]
  BY SubSeqIs
<1>. HIDE DEF s
<1>2. k - a \in 1..(b - a) /\ a + (k - a) = k
  OBVIOUS
<1>3. s[k - a] = l[k] /\ k - a \in DOMAIN s
  BY <1>1, <1>2
<1>4. l[k] \in ToSet(s)
  BY <1>3 DEF ToSet
<1>. QED
  BY <1>4 DEF s

\* On which page the k-th is.
LEMMA PageOf ==
  ASSUME NEW k \in Nat \ {0}, NEW size \in Nat \ {0}
  PROVE  \E n \in 1..k : (n - 1) * size \in Nat /\ (n - 1) * size < k /\ n * size \in Nat /\ k <= n * size
<1>. DEFINE q == (k + size - 1) \div size
<1>1. q \in Int /\ q * size <= k + size - 1 /\ k + size - 1 < q * size + size
  OBVIOUS
<1>2. q > 0
  BY <1>1
<1>. HIDE DEF q
<1>3. q * size \in Nat /\ (q - 1) * size = q * size - size /\ (q - 1) * size \in Nat
  BY <1>1, <1>2
<1>4. q <= k
  BY <1>1, <1>2
<1>. QED
  BY <1>1, <1>2, <1>3, <1>4

\* What is in one place on one page of a search is there on all of them, if nothing is equal to it.
LEMMA AlonesPlace ==
  ASSUME NEW rows, TypedItems(rows), NEW V, NEW o, Plain(o), NoneIsNoOrder,
         NEW p, SameSearch(p, o), NEW q, SameSearch(q, o),
         NEW k \in 1..Len(Found(V, p, rows)), Found(V, p, rows) = Found(V, q, rows) \/ Alone(Found(V, p, rows)[k], V, o, rows)
  PROVE  Found(V, q, rows)[k] = Found(V, p, rows)[k]
<1>. DEFINE l == Found(V, p, rows)
            m == Found(V, q, rows)
            S == Matching(V, o, rows)
<1>1. ListsOnce(l, S) /\ ListsOnce(m, S) /\ Len(l) = Len(m) /\ Alike(l, m, o, rows)
  BY FoundAlike
<1>2. l = m \/ Alone(l[k], V, o, rows)
  OBVIOUS
<1>. HIDE DEF l, m
<1>3. k \in 1..Len(m) /\ k \in 1..Len(l) /\ l \in Seq(S) /\ m \in Seq(S)
  BY <1>1 DEF ListsOnce, l
<1>4. m[k] \in S /\ SortKey(m[k], o, rows) = SortKey(l[k], o, rows)
  BY <1>1, <1>3 DEF Alike
<1>5. m[k] = l[k]
  BY <1>2, <1>4 DEF Alone
<1>. QED
  BY <1>5 DEF l, m

LEMMA ApiReaches ==
  ASSUME NEW V, NEW rows, Typed(rows), NoneIsNoOrder, NEW i \in VisibleItems(V, rows),
         ListItems(V, ListOptions, rows).total <= ListOptions.limit \/ Alone(i, V, ListOptions, rows)
  PROVE  \E n \in Pages(ListOptions.limit, rows) : i \in ToSet(ApiItems(V, n, rows))
<1>. DEFINE o == ListOptions
            S == Matching(V, o, rows)
            all == Found(V, o, rows)
<1>0. ListItems(V, o, rows).total <= 20 \/ Alone(i, V, o, rows)
  BY DEF ListOptions
<1>1. i \in S
  BY DEF Matching, ListOptions, HasFields
<1>2. Plain(o) /\ SameSearch(o, o) /\ TypedItems(rows)
  BY TypedItemsAre DEF Plain, SameSearch, ListOptions
<1>3. /\ all \in Seq(S) /\ Len(all) = Cardinality(S) /\ (\A x \in S : \E n \in 1..Len(all) : all[n] = x)
      /\ S \subseteq Ids("item", rows) /\ IsFiniteSet(Ids("item", rows))
  BY <1>2, FoundLists DEF ListsOnce
<1>4. Len(all) \in Nat /\ Cardinality(Ids("item", rows)) \in Nat /\ Len(all) <= Cardinality(Ids("item", rows))
  BY <1>3, FS_Subset, FS_CardinalityType
<1>5. ListItems(V, o, rows).total = Len(all)
  BY ListItemsAre
<1>. HIDE DEF S, all, o
<1>6. PICK k \in 1..Len(all) : all[k] = i
  BY <1>1, <1>3
<1>7. k \in Nat \ {0}
  BY <1>4
<1>8. PICK n \in 1..k : (n - 1) * 20 \in Nat /\ (n - 1) * 20 < k /\ n * 20 \in Nat /\ k <= n * 20
  <2>1. 20 \in Nat \ {0}
    OBVIOUS
  <2>. QED
    BY <1>7, <2>1, PageOf, Zenon
<1>9. n \in Pages(ListOptions.limit, rows)
  <2>. DEFINE total == Cardinality(Ids("item", rows))
  <2>1. total # 0 /\ (n - 1) * 20 < total
    BY <1>4, <1>7, <1>8
  <2>2. n <= (total + 20 - 1) \div 20
    BY <1>4, <1>7, <2>1
  <2>3. ListTotalPages(total, ListOptions.limit) = (total + 20 - 1) \div 20
    BY <2>1 DEF ListTotalPages, ListOptions
  <2>. QED
    BY <1>4, <1>7, <2>2, <2>3 DEF Pages
<1>. DEFINE p == [ListOptions EXCEPT !.page = n]
            these == Found(V, p, rows)
            b == Least2(n * 20, Len(all))
<1>10. SameSearch(p, o) /\ p.page = n /\ p.limit = 20 /\ p.all = FALSE /\ (n = 1 => p = o)
  <2>1. SameSearch(p, o) /\ p.page = n /\ p.limit = 20 /\ p.all = FALSE
    BY DEF SameSearch, ListOptions, o
  <2>2. n = 1 => p = [o EXCEPT !.page = o.page]
    BY DEF ListOptions, o
  <2>3. [o EXCEPT !.page = o.page] = o
    BY DEF ListOptions, o
  <2>. QED
    BY <2>1, <2>2, <2>3
<1>11. /\ these \in Seq(S) /\ Len(these) = Len(all)
  <2>. HIDE DEF p
  <2>1. ListsOnce(these, S) /\ Len(these) = Len(Found(V, o, rows))
    BY <1>2, <1>10, FoundAlike DEF S
  <2>. QED
    BY <2>1 DEF ListsOnce, all
<1>12. these = all \/ Alone(i, V, o, rows)
  <2>1. CASE Alone(i, V, o, rows)
    BY <2>1
  <2>2. CASE ListItems(V, o, rows).total <= 20
    <3>1. n = 1
      BY <1>4, <1>5, <1>7, <1>8, <2>2
    <3>2. p = o
      BY <1>10, <3>1
    <3>. HIDE DEF p
    <3>. QED
      BY <3>2 DEF all
  <2>. QED
    BY <1>0, <2>1, <2>2
<1>13. these[k] = i
  <2>. HIDE DEF p
  <2>. QED
    BY <1>2, <1>6, <1>10, <1>12, AlonesPlace DEF all
<1>14. ListItems(V, p, rows).items = SubSeq(these, (n - 1) * 20 + 1, b)
  <2>. HIDE DEF p
  <2>1. ListItems(V, p, rows).items = SubSeq(these, (p.page - 1) * p.limit + 1, Least2(p.page * p.limit, Len(these)))
    BY <1>10, ListItemsAre
  <2>. QED
    BY <1>10, <1>11, <2>1
<1>. HIDE DEF p, these
<1>15. b \in Nat /\ b <= Len(these) /\ k <= b /\ (n - 1) * 20 <= b
  BY <1>4, <1>7, <1>8, <1>11 DEF Least2
<1>. HIDE DEF b
<1>16. these[k] \in ToSet(SubSeq(these, (n - 1) * 20 + 1, b))
  <2>. DEFINE a == (n - 1) * 20
  <2>1. a \in Nat /\ a < k /\ a <= b /\ k \in Nat
    BY <1>7, <1>8, <1>15
  <2>. HIDE DEF a
  <2>2. these[k] \in ToSet(SubSeq(these, a + 1, b))
    BY <1>11, <1>15, <2>1, InSubSeq
  <2>. QED
    BY <2>2 DEF a
<1>17. i \in ToSet(ApiItems(V, n, rows))
  BY <1>13, <1>14, <1>16 DEF ApiItems, p
<1>. QED
  BY <1>9, <1>17

LEMMA JoinedHas ==
  ASSUME NEW T, NEW p \in Seq(T), NEW q \in Seq(T), NEW x \in ToSet(Joined(p, q))
  PROVE  x \in ToSet(p) \cup ToSet(q)
<1>1. PICK n \in DOMAIN (p \o q) : x = (p \o q)[n]
  BY DEF ToSet, Joined
<1>2. n \in 1..(Len(p) + Len(q)) /\ Len(p) \in Nat /\ Len(q) \in Nat
  OBVIOUS
<1>3. CASE n <= Len(p)
  <2>1. n \in DOMAIN p /\ x = p[n]
    BY <1>1, <1>2, <1>3
  <2>. QED
    BY <2>1 DEF ToSet
<1>4. CASE ~(n <= Len(p))
  <2>1. n - Len(p) \in DOMAIN q /\ x = q[n - Len(p)]
    BY <1>1, <1>2, <1>4
  <2>. QED
    BY <2>1 DEF ToSet
<1>. QED
  BY <1>3, <1>4

LEMMA ShelfReaches ==
  ASSUME NEW V, NEW rows, Typed(rows), NoneIsNoOrder, NEW d \in Active("category", rows),
         NEW i \in VisibleItems(V, rows), The("item", i, rows).category \in CategoryDescendantIDs(d, rows),
         \/ CategoryPage(d, V, 1, rows).pages = 1
         \/ Alone(i, V, [ListOptions EXCEPT !.categories = CategoryDescendantIDs(d, rows)], rows)
  PROVE  \E n \in 1..CategoryPage(d, V, 1, rows).pages :
           i \in ToSet(CategoryPage(d, V, n, rows).leading) \cup ToSet(CategoryPage(d, V, n, rows).remaining)
<1>. DEFINE o == [ListOptions EXCEPT !.categories = CategoryDescendantIDs(d, rows)]
            list == ResolveCategoryListingSettings(d, rows)
            S == Matching(V, o, rows)
            total == Cardinality(S)
            these(n) == Found(V, Shown(o, list, n), rows)
            P == PagesOf(list, total)
            page(n) == Listing(V, o, list, n, rows)
<1>0. CategoryPage(d, V, 1, rows).pages = 1 \/ Alone(i, V, o, rows)
  OBVIOUS
<1>1. i \in S
  BY DEF Matching, ListOptions, HasFields
<1>2. Plain(o) /\ Paged(o) /\ TypedItems(rows)
  BY PagedPlain, TypedItemsAre
<1>3. IsListing(list)
  BY ListingsAre DEF Active
<1>5. \A n : CategoryPage(d, V, n, rows) = page(n)
  BY DEF CategoryPage
<1>6. ASSUME NEW n \in Nat \ {0}
      PROVE  \E T : page(n).leading \in Seq(T) /\ page(n).remaining \in Seq(T)
  <2>1. \E T \in SUBSET VisibleItems(V, rows) : page(n).leading \in Seq(T) /\ page(n).remaining \in Seq(T)
    <3>1. ListsBy(o)
      BY DEF ListsBy
    <3>. HIDE DEF list, o
    <3>. QED
      BY <1>3, <3>1, ListingSeqs
  <2>. QED
    BY <2>1, Zenon
<1>. HIDE DEF o, list
<1>7. ASSUME NEW n PROVE SameSearch(Shown(o, list, n), o)
  BY <1>2, ShownIs
<1>8. total \in Nat
  BY <1>2, FoundLists DEF ListsOnce
<1>9. ASSUME NEW n PROVE ListsOnce(these(n), S)
  BY <1>2, <1>7, FoundAlike
<1>10. ASSUME NEW n PROVE these(n) \in Seq(S) /\ Len(these(n)) = total /\ \A x \in S : \E k \in 1..total : these(n)[k] = x
  BY <1>9 DEF ListsOnce
<1>11. ASSUME NEW n \in 1..P
       PROVE  /\ Joined(page(n).leading, page(n).remaining) = SubSeq(these(n), CutOf(list, total, n - 1) + 1, CutOf(list, total, n))
              /\ page(n).pages = P
  BY <1>2, <1>3, ListingIs
<1>12. PICK k \in 1..total : these(1)[k] = i
  BY <1>1, <1>10
<1>13. /\ P \in Nat \ {0} /\ CutOf(list, total, 0) = 0 /\ CutOf(list, total, P) = total
       /\ \A n \in 0..P : CutOf(list, total, n) \in Nat /\ CutOf(list, total, n) <= total
       /\ \A n \in 1..P : CutOf(list, total, n - 1) <= CutOf(list, total, n)
  <2>. HIDE DEF total
  <2>. QED
    BY <1>3, <1>8, CutsAre
<1>. HIDE DEF total, page, S, P
<1>14. page(1).pages = P
  BY <1>11, <1>13
<1>15. PICK n \in 1..P : CutOf(list, total, n - 1) < k /\ k <= CutOf(list, total, n)
  <2>. DEFINE cut == [n \in 0..P |-> CutOf(list, total, n)]
  <2>1. \A n \in 1..P : n \in 0..P /\ n - 1 \in 0..P
    BY <1>13
  <2>2. cut[0] = 0 /\ cut[P] = total /\ (\A n \in 0..P : cut[n] \in Nat) /\ \A n \in 1..P : cut[n - 1] <= cut[n]
    BY <1>13, <2>1
  <2>3. \A n \in 1..P : cut[n - 1] = CutOf(list, total, n - 1) /\ cut[n] = CutOf(list, total, n)
    BY <2>1
  <2>. HIDE DEF cut
  <2>4. \E n \in 1..P : cut[n - 1] < k /\ k <= cut[n]
    BY <1>12, <1>13, <2>2, PagePlace
  <2>. QED
    BY <2>3, <2>4
<1>16. n \in Nat \ {0} /\ n - 1 \in 0..P /\ n \in 0..P
  BY <1>13
<1>17. these(n)[k] = i
  <2>1. n = 1 \/ Alone(i, V, o, rows)
    BY <1>0, <1>5, <1>13, <1>14
  <2>. DEFINE p == Shown(o, list, 1)
              q == Shown(o, list, n)
  <2>2. SameSearch(p, o) /\ SameSearch(q, o) /\ (n = 1 => p = q)
    BY <1>7
  <2>3. k \in 1..Len(Found(V, p, rows)) /\ Found(V, p, rows)[k] = i
    BY <1>10, <1>12
  <2>. HIDE DEF p, q
  <2>4. Found(V, p, rows) = Found(V, q, rows) \/ Alone(Found(V, p, rows)[k], V, o, rows)
    BY <2>1, <2>2, <2>3
  <2>5. Found(V, q, rows)[k] = i
    BY <1>2, <2>2, <2>3, <2>4, AlonesPlace
  <2>. QED
    BY <2>5 DEF q
<1>18. these(n)[k] \in ToSet(SubSeq(these(n), CutOf(list, total, n - 1) + 1, CutOf(list, total, n)))
  <2>. DEFINE a == CutOf(list, total, n - 1)
              b == CutOf(list, total, n)
              l == these(n)
  <2>1. a \in Nat /\ b \in Nat /\ a < k /\ k <= b /\ a <= b /\ b <= total /\ k \in Nat
    BY <1>8, <1>12, <1>13, <1>15, <1>16
  <2>2. l \in Seq(S) /\ Len(l) = total
    BY <1>10
  <2>. HIDE DEF a, b, l
  <2>3. l[k] \in ToSet(SubSeq(l, a + 1, b))
    BY <2>1, <2>2, InSubSeq
  <2>. QED
    BY <2>3 DEF a, b, l
<1>19. i \in ToSet(Joined(page(n).leading, page(n).remaining))
  BY <1>11, <1>17, <1>18
<1>20. PICK T : page(n).leading \in Seq(T) /\ page(n).remaining \in Seq(T)
  BY <1>6, <1>16 DEF page
<1>21. i \in ToSet(page(n).leading) \cup ToSet(page(n).remaining)
  BY <1>19, <1>20, JoinedHas
<1>. QED
  BY <1>5, <1>14, <1>21

LEMMA CloudCounts ==
  ASSUME NEW V, NEW rows, Typed(rows), NoneIsNoOrder, NEW t \in Ids("tag", rows), t # None
  PROVE  TagCloud(V, rows)[t] = TagPage(t, V, 1, rows).total
<1>. DEFINE o == [ListOptions EXCEPT !.tag = t, !.page = 1]
            S == {i \in Ids("item", rows) : The("item", i, rows).status = "published" /\ Listed(V, i, rows)
                                             /\ t \in Linked("tagged", i, rows)}
<1>1. Plain(o) /\ SameSearch(o, o) /\ TypedItems(rows)
  BY TypedItemsAre DEF Plain, SameSearch, ListOptions
<1>2. TagPage(t, V, 1, rows).total = Len(Found(V, o, rows))
  BY <1>1, ListItemsAre DEF TagPage
<1>3. Len(Found(V, o, rows)) = Cardinality(Matching(V, o, rows))
  BY <1>1, FoundLists DEF ListsOnce
<1>4. Matching(V, o, rows) = S
  BY DEF Matching, VisibleItems, ListOptions, HasFields
<1>. QED
  BY <1>2, <1>3, <1>4 DEF TagCloud

LEMMA SitemapShown ==
  ASSUME NEW V, NEW rows, Typed(rows), NoneIsNoOrder
  PROVE  ToSet(Sitemap(rows)) \subseteq VisibleItems(V, rows)
<1>2. Asking([ListOptions EXCEPT !.limit = 5000])
  BY DEF Asking, Plain, ListOptions
<1>3. ToSet(Sitemap(rows)) \subseteq VisibleItems({}, rows)
  BY <1>2, ListShown DEF Sitemap
<1>4. VisibleItems({}, rows) \subseteq VisibleItems(V, rows)
  BY DEF VisibleItems, Listed
<1>. QED
  BY <1>3, <1>4

LEMMA LinksLead ==
  ASSUME NEW V, NEW rows, Typed(rows), NoneIsNoOrder, V \subseteq Active("group", rows)
  PROVE  /\ Links(V, rows) \subseteq Opens(V, rows)
         /\ \A i \in Opens(V, rows) : Reachable(i, V, rows)
         /\ \A t \in Ids("tag", rows) \ {None} : TagCloud(V, rows)[t] = TagPage(t, V, 1, rows).total
         /\ ToSet(Sitemap(rows)) \subseteq Opens(V, rows)
<1>1. Opens(V, rows) = VisibleItems(V, rows)
  BY OpensAre
<1>2. ASSUME NEW i \in VisibleItems(V, rows) PROVE Reachable(i, V, rows)
  <2>. DEFINE shelf(d) == [ListOptions EXCEPT !.categories = CategoryDescendantIDs(d, rows)]
  <2>1. ASSUME ListItems(V, ListOptions, rows).total <= ListOptions.limit \/ Alone(i, V, ListOptions, rows)
        PROVE  \E n \in Pages(ListOptions.limit, rows) : i \in ToSet(ApiItems(V, n, rows))
    BY <2>1, ApiReaches
  <2>2. ASSUME NEW d \in Active("category", rows), The("item", i, rows).category \in DescendantSet(d, Active("category", rows), rows),
               CategoryPage(d, V, 1, rows).pages = 1 \/ Alone(i, V, shelf(d), rows)
        PROVE  \E n \in 1..CategoryPage(d, V, 1, rows).pages :
                 i \in ToSet(CategoryPage(d, V, n, rows).leading) \cup ToSet(CategoryPage(d, V, n, rows).remaining)
    BY <2>2, ShelfReaches DEF CategoryDescendantIDs
  <2>. QED
    BY <2>1, <2>2 DEF Reachable
<1>. QED
  BY <1>1, <1>2, LinksShown, CloudCounts, SitemapShown

----------------------------------------------------------------------------
\* Steps keep the types of the rows

LEMMA NeatSteps ==
  /\ Neat(Return)
  /\ \A op : NeatWhere(op) => Neat(Where(op))
  /\ \A op : NeatCall(op) => Neat(Call(op)) /\ Neat(Catch(<<Call(op)>>))
  /\ \A s : Fits(AreNeat, s) <=> Neat(s)
BY DEF Neat, Return, Where, Call, Catch, Fits, AreNeat

LEMMA NeatOne ==
  /\ AreSteps(AreNeat, <<>>) /\ AreSteps(AreNeat, <<Return>>)
  /\ \A s : Neat(s) => AreSteps(AreNeat, <<s>>)
  /\ \A op : NeatWhere(op) => AreSteps(AreNeat, <<Where(op)>>)
  /\ \A op : NeatCall(op) => AreSteps(AreNeat, <<Call(op)>>)
<1>1. \A s : Neat(s) => AreSteps(AreNeat, <<s>>)
  BY OneStep, NeatSteps
<1>. QED
  BY <1>1, NeatSteps, EmptySteps

LEMMA TypedSets ==
  /\ Typed({})
  /\ \A rows, what, x : Typed(rows) => Typed(Of(what, x, rows))
  /\ \A S, T : Typed(S) /\ Typed(T) => Typed(S \cup T)
  /\ \A S, T : T \subseteq S /\ Typed(S) => Typed(T)
  /\ \A T : Typed(Nameless(T))
<1>1. ASSUME NEW T
      PROVE  Typed(Nameless(T))
  <2>1. \A r \in Nameless(T) : r[1] = "tag"
    BY DEF Nameless
  <2>. QED
    BY <2>1 DEF Typed, TypedRow
<1>. QED
  BY <1>1, OfIs DEF Typed

\* Rows of which nothing is asked.
LEMMA OtherTyped ==
  /\ \A r : r[1] \notin {"item", "revision", "category", "settings"} => TypedRow(r)
  /\ \A what, x, row : what \notin {"item", "revision", "category", "settings"} => TypedRow(<<what, x, row>>)
  /\ \A x, row : x \in Item /\ Sorted(row) => TypedRow(<<"item", x, row>>)
<1>1. \A r : r[1] \notin {"item", "revision", "category", "settings"} => TypedRow(r)
  BY DEF TypedRow
<1>2. \A what, x, row : <<what, x, row>>[1] = what /\ <<what, x, row>>[2] = x /\ <<what, x, row>>[3] = row
  OBVIOUS
<1>. QED
  BY <1>1, <1>2 DEF TypedRow

LEMMA WheresNeat ==
  /\ \A what, x, row, read : TypedRow(<<what, x, row>>) /\ Typed(read) => NeatWhere(<<"put", what, x, row, read>>)
  /\ \A x, column, v : column \notin {"sort", "place"} \/ v \in Int => NeatWhere(<<"set", "item", x, column, v>>)
  /\ \A x, v : NeatWhere(<<"set", "category", x, "sort", v>>)
  /\ \A what \in {"comment", "field"} : \A x, column, v : NeatWhere(<<"set", what, x, column, v>>)
  /\ \A what, x : NeatWhere(<<"delete", what, x>>) /\ NeatWhere(<<"tryDelete", what, x>>)
  /\ \A what, x, Y : NeatWhere(<<"unlink", what, x, Y>>)
  /\ \A i, read : Typed(read) => NeatWhere(<<"linkTags", i, read>>)
  /\ \A x, G : NeatWhere(<<"linkGroups", x, G>>)
  /\ \A I, g : NeatWhere(<<"regroup", I, g>>)
  /\ \A i, v : NeatWhere(<<"decide", i, v>>)
  /\ \A x : NeatWhere(<<"deleteComments", x>>) /\ NeatWhere(<<"untag", x>>) /\ NeatWhere(<<"deleteFields", x>>)
BY DEF NeatWhere

LEMMA PutNeat ==
  ASSUME NEW what, NEW x, NEW row, NEW read, TypedRow(<<what, x, row>>), Typed(read)
  PROVE  AreSteps(AreNeat, <<Where(<<"put", what, x, row, read>>)>>)
BY WheresNeat, NeatOne

LEMMA ReplaceNeat ==
  ASSUME NEW x, NEW G
  PROVE  /\ Typed(G) => AreSteps(AreNeat, ReplaceTags(x, G))
         /\ AreSteps(AreNeat, ReplaceGroups(x, G))
         /\ AreSteps(AreNeat, ReplaceFormGroups(x, G))
<1>1. ASSUME Typed(G)
      PROVE  AreSteps(AreNeat, ReplaceTags(x, G))
  <2>. DEFINE T == {t[2] : t \in G}
  <2>1. AreSteps(AreNeat, <<Where(<<"linkTags", x, G>>)>>) /\ AreSteps(AreNeat, <<Where(<<"unlink", "tagged", x, T>>)>>)
    BY <1>1, NeatOne, WheresNeat
  <2>2. AreSteps(AreNeat, When(G # {}, <<Where(<<"linkTags", x, G>>)>>))
    BY <2>1, WhenSteps
  <2>. QED
    BY <2>1, <2>2, ConcatSteps DEF ReplaceTags
<1>2. AreSteps(AreNeat, ReplaceGroups(x, G))
  <2>1. AreSteps(AreNeat, <<Where(<<"linkGroups", x, G>>)>>) /\ AreSteps(AreNeat, <<Where(<<"unlink", "sees", x, G>>)>>)
    BY NeatOne, WheresNeat
  <2>2. AreSteps(AreNeat, When(G # {}, <<Where(<<"linkGroups", x, G>>)>>))
    BY <2>1, WhenSteps
  <2>. QED
    BY <2>1, <2>2, ConcatSteps DEF ReplaceGroups
<1>. QED
  BY <1>1, <1>2, NeatOne DEF ReplaceFormGroups

\* Numbers a moved list gives are positions in it.
LEMMA MisnumberedAre ==
  ASSUME NEW list, NEW N \in Nat, DOMAIN list = 1..N, NEW sort
  PROVE  LET at == Misnumbered(list, sort) IN
         /\ \E n \in Nat : DOMAIN at = 1..n
         /\ \A j \in DOMAIN at : at[j] \in Nat
<1>. DEFINE wrong == {k \in DOMAIN list : sort[list[k]] # k - 1}
            key == [k \in wrong |-> k]
            before(x) == {y \in wrong : key[y] < key[x] \/ (key[y] = key[x] /\ y < x)}
            at == [n \in 1..Cardinality(wrong) |-> CHOOSE x \in wrong : Cardinality(before(x)) = n - 1]
<1>1. Misnumbered(list, sort) = at
  BY DEF Misnumbered, Ordered
<1>2. IsFiniteSet(wrong) /\ wrong \subseteq 1..N
  <2>1. IsFiniteSet(1..N)
    BY FS_Interval
  <2>2. wrong \subseteq 1..N
    OBVIOUS
  <2>. QED
    BY <2>1, <2>2, FS_Subset
<1>. DEFINE R == {p \in wrong \X wrong : p[1] < p[2]}
<1>3. \A k \in wrong : k \in Nat
  BY <1>2
<1>4. ASSUME NEW x \in wrong PROVE before(x) = Below(R, wrong, x)
  <2>. HIDE DEF wrong
  <2>1. \A y \in wrong : key[y] = y /\ y \in Nat
    BY <1>3
  <2>2. x \in Nat /\ key[x] = x
    BY <2>1
  <2>3. \A y \in wrong : y \in before(x) <=> y < x
    BY <2>1, <2>2
  <2>4. before(x) \subseteq wrong /\ Below(R, wrong, x) \subseteq wrong /\ \A y \in wrong : y \in Below(R, wrong, x) <=> y < x
    BY DEF Below
  <2>. HIDE DEF before
  <2>. QED
    BY <2>3, <2>4
<1>5. Orders(R, wrong)
  <2>. HIDE DEF wrong
  <2>. QED
    BY <1>3 DEF Orders
<1>. HIDE DEF wrong, before, R
<1>6. Cardinality(wrong) \in Nat /\ \A n \in 1..Cardinality(wrong) : \E x \in wrong : Cardinality(before(x)) = n - 1
  <2>1. \A x \in wrong : Cardinality(before(x)) = Cardinality(Below(R, wrong, x))
    BY <1>4
  <2>2. Cardinality(wrong) \in Nat /\ \A n \in 1..Cardinality(wrong) : \E x \in wrong : Cardinality(Below(R, wrong, x)) = n - 1
    <3>1. IsFiniteSet(wrong)
      BY <1>2
    <3>. QED
      BY <1>5, <3>1, RanksAre
  <2>. QED
    BY <2>1, <2>2
<1>7. \A n \in 1..Cardinality(wrong) : at[n] \in wrong
  BY <1>6
<1>. QED
  BY <1>1, <1>3, <1>6, <1>7

LEMMA ReorderNeat ==
  ASSUME NEW what, NEW column, \A y, v : v \in Int => NeatWhere(<<"set", what, y, column, v>>),
         NEW x, NEW d, NEW S, IsFiniteSet(S), NEW rows
  PROVE  AreSteps(AreNeat, Reorder(what, x, d, S, column, rows))
<1>. DEFINE sort == Column(what, column, rows)
            number(y, m) == Where(<<"set", what, y, column, m>>)
            list == Ordered(S, sort)
            new == Moved(list, x, d)
            at == Misnumbered(new, sort)
            steps == [j \in DOMAIN at |-> number(new[at[j]], at[j] - 1)]
<1>1. Reorder(what, x, d, S, column, rows) \in {<<>>, steps}
  BY DEF Reorder, Renumber
<1>2. DOMAIN new = 1..Cardinality(S) /\ Cardinality(S) \in Nat
  <2>1. DOMAIN new = DOMAIN list
    BY DEF Moved
  <2>. QED
    BY <2>1, OrderedIs
<1>3. \A y, m : m \in Int => Fits(AreNeat, number(y, m))
  BY NeatSteps
<1>. HIDE DEF sort, list, new, number
<1>4. PICK n \in Nat : DOMAIN at = 1..n
  BY <1>2, MisnumberedAre
<1>5. \A j \in DOMAIN at : at[j] \in Nat
  BY <1>2, MisnumberedAre
<1>. HIDE DEF at
<1>6. \A j \in DOMAIN at : at[j] - 1 \in Int
  BY <1>5
<1>7. AreSteps(AreNeat, steps)
  BY <1>3, <1>4, <1>6, NumberedSteps
<1>. HIDE DEF steps
<1>. QED
  BY <1>1, <1>7, EmptySteps

LEMMA MovesNeat ==
  ASSUME NEW x, NEW g, NEW d, NEW rows
  PROVE  /\ AreSteps(AreNeat, ItemReorder(x, d, rows))
         /\ AreSteps(AreNeat, ItemFeaturedReorder(x, d, rows))
         /\ AreSteps(AreNeat, CategoryReorder(x, d, rows))
         /\ AreSteps(AreNeat, FieldReorder(x, g, d, rows))
<1>1. \A column \in {"sort", "place"} : \A y, v : v \in Int => NeatWhere(<<"set", "item", y, column, v>>)
  BY WheresNeat
<1>2. AreSteps(AreNeat, Reorder("item", x, d, Beside("item", x, "category", rows), "sort", rows))
  BY <1>1, ReorderNeat, DataFinite
<1>3. AreSteps(AreNeat, Reorder("item", x, d, Beside("item", x, "featured", rows), "place", rows))
  BY <1>1, ReorderNeat, DataFinite
<1>4. AreSteps(AreNeat, Reorder("category", x, d, Beside("category", x, "parent", rows), "sort", rows))
  BY WheresNeat, ReorderNeat, DataFinite
<1>5. AreSteps(AreNeat, Reorder("field", x, d, FieldsOf(g, rows), "sort", rows))
  BY WheresNeat, ReorderNeat, DataFinite
<1>6. AreSteps(AreNeat, ItemFeaturedReorder(x, d, rows))
  BY <1>3, NeatOne, WhenSteps DEF ItemFeaturedReorder
<1>. QED
  BY <1>2, <1>4, <1>5, <1>6, NeatOne DEF ItemReorder, CategoryReorder, FieldReorder

LEMMA ItemsSorted ==
  ASSUME NEW rows, Typed(rows), NEW i, Has("item", i, rows)
  PROVE  i \in Item /\ Sorted(The("item", i, rows))
<1>1. i \in Ids("item", rows)
  BY DEF Has, Ids
<1>2. PICK r \in rows : r[1] = "item" /\ r[2] = i /\ The("item", i, rows) = r[3]
  BY <1>1, TheIs
<1>. QED
  BY <1>2 DEF Typed, TypedRow

LEMMA ColumnsNeat ==
  ASSUME NEW i, NEW v, NEW rows
  PROVE  /\ \A column \in {"status", "category"} : AreSteps(AreNeat, <<Where(<<"set", "item", i, column, v>>)>>)
         /\ AreSteps(AreNeat, <<Where(<<"set", "comment", i, "approved", v>>)>>)
         /\ AreSteps(AreNeat, TrashItem(i, rows))
         /\ AreSteps(AreNeat, RestoreItem(i, rows))
         /\ AreSteps(AreNeat, EnsurePreviewToken(i, rows))
<1>1. \A column \in {"status", "category", "token"} : \A u : NeatWhere(<<"set", "item", i, column, u>>)
  BY WheresNeat
<1>2. \A column \in {"status", "category", "token"} : \A u : AreSteps(AreNeat, <<Where(<<"set", "item", i, column, u>>)>>)
  BY <1>1, NeatOne
<1>3. AreSteps(AreNeat, <<Where(<<"set", "comment", i, "approved", v>>)>>)
  BY WheresNeat, NeatOne
<1>4. AreSteps(AreNeat, TrashItem(i, rows)) /\ AreSteps(AreNeat, RestoreItem(i, rows))
  BY <1>2, NeatOne DEF TrashItem, RestoreItem
<1>5. AreSteps(AreNeat, EnsurePreviewToken(i, rows))
  BY <1>2, NeatOne, WhenSteps DEF EnsurePreviewToken
<1>. QED
  BY <1>2, <1>3, <1>4, <1>5

LEMMA TagsNeat ==
  ASSUME NEW t
  PROVE  AreSteps(AreNeat, TagForm(t)) /\ AreSteps(AreNeat, TagDelete(t))
<1>1. AreSteps(AreNeat, TagForm(t))
  BY PutNeat, OtherTyped, TypedSets DEF TagForm
<1>2. Fits(AreNeat, Where(<<"untag", t>>)) /\ Fits(AreNeat, DeleteOf("tag", t))
  BY WheresNeat, NeatSteps DEF DeleteOf
<1>. QED
  BY <1>1, <1>2, TwoSteps DEF TagDelete

LEMMA CategoriesNeat ==
  ASSUME NEW c, NEW form, NEW rows, Typed(rows)
  PROVE  /\ form.list \in Listings => AreSteps(AreNeat, CategoryForm(c, form, rows))
         /\ form \in Listings => AreSteps(AreNeat, FeaturedCategoryForm(form))
         /\ AreSteps(AreNeat, CategoryDelete(c, rows))
<1>1. ASSUME form.list \in Listings
      PROVE  AreSteps(AreNeat, CategoryForm(c, form, rows))
  <2>. DEFINE row == [status |-> form.status, parent |-> form.parent, inherits |-> form.inherits,
                      fields |-> form.fields, sort |-> form.sort, list |-> form.list,
                      slug |-> ResolveCategorySlug(c, form, rows)]
              offered == form.parent = None \/ form.parent \in ParentOptions(c, rows)
              put == <<Where(<<"put", "category", c, row, Of("sees", c, rows)>>)>>
  <2>1. CategoryForm(c, form, rows) = When(offered, put \o ReplaceFormGroups(c, form.groups))
    BY DEF CategoryForm
  <2>2. "list" \in DOMAIN row /\ row.list \in Listings
    BY <1>1
  <2>. HIDE DEF row, offered
  <2>3. TypedRow(<<"category", c, row>>)
    BY <2>2 DEF TypedRow
  <2>4. AreSteps(AreNeat, put)
    BY <2>3, PutNeat, TypedSets
  <2>. HIDE DEF put
  <2>5. AreSteps(AreNeat, put \o ReplaceFormGroups(c, form.groups))
    BY <2>4, ReplaceNeat, ConcatSteps
  <2>. QED
    BY <2>1, <2>5, WhenSteps
<1>2. ASSUME form \in Listings
      PROVE  AreSteps(AreNeat, FeaturedCategoryForm(form))
  <2>1. TypedRow(<<"settings", "featured", form>>)
    BY <1>2 DEF TypedRow
  <2>. QED
    BY <2>1, PutNeat, TypedSets DEF FeaturedCategoryForm
<1>3. AreSteps(AreNeat, CategoryDelete(c, rows))
  <2>1. Fits(AreNeat, TryDelete("sees", c)) /\ Fits(AreNeat, DeleteOf("category", c))
    BY WheresNeat, NeatSteps DEF DeleteOf, TryDelete
  <2>2. AreSteps(AreNeat, <<TryDelete("sees", c), DeleteOf("category", c)>>)
    BY <2>1, TwoSteps
  <2>. QED
    BY <2>2, WhenSteps DEF CategoryDelete
<1>. QED
  BY <1>1, <1>2, <1>3

LEMMA ToggleNeat ==
  ASSUME NEW what \in {"category", "field", "group", "user"}, NEW x, NEW rows, Typed(rows)
  PROVE  AreSteps(AreNeat, Toggle(what, x, rows))
<1>. DEFINE old == The(what, x, rows)
            row == [old EXCEPT !.status = IF @ = "active" THEN "inactive" ELSE "active"]
<1>1. Toggle(what, x, rows) = When(Has(what, x, rows), <<Where(<<"put", what, x, row, {}>>)>>)
  BY DEF Toggle
<1>2. "list" \in DOMAIN old => "list" \in DOMAIN row /\ row.list = old.list
  <2>. HIDE DEF old
  <2>. QED
    OBVIOUS
<1>. HIDE DEF row
<1>3. ASSUME Has(what, x, rows)
      PROVE  TypedRow(<<what, x, row>>)
  <2>1. x \in Ids(what, rows)
    BY <1>3 DEF Has, Ids
  <2>2. PICK r \in rows : r[1] = what /\ r[2] = x /\ old = r[3]
    BY <2>1, TheIs
  <2>3. CASE what = "category"
    <3>1. "list" \in DOMAIN old /\ old.list \in Listings
      BY <2>2, <2>3 DEF Typed, TypedRow
    <3>. HIDE DEF old
    <3>. QED
      BY <1>2, <2>3, <3>1 DEF TypedRow
  <2>4. CASE what # "category"
    BY <2>4, OtherTyped
  <2>. QED
    BY <2>3, <2>4
<1>4. Has(what, x, rows) => AreSteps(AreNeat, <<Where(<<"put", what, x, row, {}>>)>>)
  BY <1>3, PutNeat, TypedSets
<1>. QED
  BY <1>1, <1>4, WhenSteps

LEMMA FieldsNeat ==
  ASSUME NEW g, NEW f, NEW s, NEW n, NEW rows, Typed(rows)
  PROVE  /\ AreSteps(AreNeat, FieldGroupForm(g, rows))
         /\ AreSteps(AreNeat, FieldGroupDelete(g))
         /\ AreSteps(AreNeat, FieldForm(f, g, s, n))
<1>1. AreSteps(AreNeat, FieldGroupForm(g, rows))
  <2>. DEFINE read == UNION {Of("field", h, rows) : h \in FieldsOf(g, rows)}
  <2>1. read \subseteq rows
    BY OfIs
  <2>. HIDE DEF read
  <2>2. Typed(read)
    BY <2>1, TypedSets
  <2>3. AreSteps(AreNeat, <<Where(<<"put", "fieldgroup", g, "named", read>>)>>)
    BY <2>2, OtherTyped, PutNeat
  <2>. QED
    BY <2>3 DEF FieldGroupForm, read
<1>2. AreSteps(AreNeat, FieldGroupDelete(g))
  <2>1. Fits(AreNeat, Where(<<"deleteFields", g>>)) /\ Fits(AreNeat, DeleteOf("fieldgroup", g))
    BY WheresNeat, NeatSteps DEF DeleteOf
  <2>. QED
    BY <2>1, TwoSteps DEF FieldGroupDelete
<1>3. AreSteps(AreNeat, FieldForm(f, g, s, n))
  BY PutNeat, OtherTyped, TypedSets DEF FieldForm
<1>. QED
  BY <1>1, <1>2, <1>3

LEMMA LinkNeat ==
  ASSUME NEW i, NEW j, NEW rows
  PROVE  AreSteps(AreNeat, LinkTranslation(i, j, rows))
<1>1. \E g : LinkTranslation(i, j, rows) \in {<<>>, <<Return>>, <<Where(<<"regroup", {i, j}, g>>)>>}
  BY DEF LinkTranslation
<1>2. \A g : AreSteps(AreNeat, <<Where(<<"regroup", {i, j}, g>>)>>)
  BY WheresNeat, NeatOne
<1>. QED
  BY <1>1, <1>2, NeatOne

LEMMA PruneNeat ==
  ASSUME NEW i, NEW rows
  PROVE  AreSteps(AreNeat, Prune(i, rows))
<1>. DEFINE old == {r \in Of("revision", i, rows) : Cardinality({n \in Numbers(i, rows) : n > r[3]}) >= MaxRevisions}
<1>1. Prune(i, rows) = When(old # {}, <<Delete(old)>>)
  BY DEF Prune
<1>. HIDE DEF old
<1>2. Neat(Delete(old))
  BY StatementsAre, TypedSets DEF Neat
<1>. QED
  BY <1>1, <1>2, NeatOne, WhenSteps

LEMMA DeleteItemNeat ==
  ASSUME NEW i
  PROVE  AreSteps(AreNeat, DeleteItem(i))
<1>. DEFINE a == TryDelete("indexed", i)
            b == TryDelete("sees", i)
            c == TryDelete("tagged", i)
            d == TryDelete("value", i)
            e == TryDelete("revision", i)
            f == Where(<<"deleteComments", i>>)
            g == DeleteOf("item", i)
<1>1. DeleteItem(i) = <<a, b, c, d, e, f, g>>
  BY DEF DeleteItem
<1>2. \A s \in {a, b, c, d, e, f, g} : Fits(AreNeat, s)
  BY WheresNeat, NeatSteps DEF DeleteOf, TryDelete
<1>. HIDE DEF a, b, c, d, e, f, g
<1>. DEFINE l == <<a, b, c, d, e, f, g>>
<1>3. l \in Seq({a, b, c, d, e, f, g}) /\ \A n \in DOMAIN l : l[n] \in {a, b, c, d, e, f, g}
  OBVIOUS
<1>. HIDE DEF l
<1>4. AreSteps(AreNeat, l)
  BY <1>2, <1>3 DEF AreSteps
<1>. QED
  BY <1>1, <1>4 DEF l

LEMMA BulkNeat ==
  ASSUME NEW op, op[1] \in BulkAction, NEW i, NEW rows
  PROVE  /\ \A I : AreSteps(AreNeat, Bulk(op, I))
         /\ AreSteps(AreNeat, BulkOne(op, i, rows))
<1>1. \A I : AreSteps(AreNeat, Bulk(op, I))
  <2>1. \A j : NeatCall(<<"bulk", op, j>>)
    BY DEF NeatCall
  <2>2. \A J : NeatCall(<<"bulkItems", op, J>>)
    BY DEF NeatCall, Handled, Handler, TypedOp
  <2>. QED
    BY <2>1, <2>2, NeatSteps, BulkSteps
<1>2. AreSteps(AreNeat, BulkOne(op, i, rows))
  <2>1. CASE op[1] = "status"
    BY <2>1, ColumnsNeat DEF BulkOne
  <2>2. CASE op[1] = "trash"
    BY <2>2, ColumnsNeat DEF BulkOne
  <2>3. CASE op[1] = "restore"
    BY <2>3, ColumnsNeat DEF BulkOne
  <2>4. CASE op[1] = "decide"
    BY <2>4, WheresNeat, NeatOne DEF BulkOne
  <2>5. CASE op[1] = "delete"
    BY <2>5, DeleteItemNeat DEF BulkOne
  <2>6. CASE op[1] = "category"
    BY <2>6, ColumnsNeat DEF BulkOne
  <2>7. CASE op[1] = "tags"
    <3>1. AreSteps(AreNeat, ReplaceTags(i, Nameless(op[2])))
      BY TypedSets, ReplaceNeat
    <3>2. BulkOne(op, i, rows) = When(Has("item", i, rows) /\ op[2] # {}, ReplaceTags(i, Nameless(op[2])))
      BY <2>7 DEF BulkOne
    <3>. QED
      BY <3>1, <3>2, WhenSteps
  <2>. QED
    BY <2>1, <2>2, <2>3, <2>4, <2>5, <2>6, <2>7 DEF BulkAction
<1>. QED
  BY <1>1, <1>2

----------------------------------------------------------------------------
\* Items

LEMMA ValueNeat ==
  ASSUME NEW i, NEW f, NEW v, NEW S
  PROVE  /\ Neat(CreateValue(i, f, v))
         /\ Neat(Write(S, {<<"value", i, f, v>>})) /\ Neat(Write(S, {}))
<1>. DEFINE row == <<"value", i, f, v>>
<1>1. row[1] = "value"
  OBVIOUS
<1>. HIDE DEF row
<1>2. Typed({row})
  BY <1>1, OtherTyped DEF Typed
<1>3. Neat(Insert(row, ValueOf(i, f))) /\ Neat(Write(S, {row})) /\ Neat(Write(S, {}))
  BY <1>2, TypedSets, StatementsAre DEF Neat
<1>. QED
  BY <1>3 DEF CreateValue, row

LEMMA SaveValueNeat ==
  ASSUME NEW i, NEW f, NEW v, NEW rows
  PROVE  AreSteps(AreNeat, SaveValue(i, f, v, rows))
<1>. DEFINE create == CreateValue(i, f, v)
            none == Write(ValueOf(i, f), {})
            one == Write(ValueOf(i, f), {<<"value", i, f, v>>})
<1>1. SaveValue(i, f, v, rows) \in {<<>>, <<create>>, <<none>>, <<one>>}
  BY DEF SaveValue, When
<1>2. Neat(create) /\ Neat(none) /\ Neat(one)
  BY ValueNeat
<1>. HIDE DEF create, none, one
<1>. QED
  BY <1>1, <1>2, NeatOne

LEMMA CreateEachNeat ==
  ASSUME NEW i, NEW V, IsFiniteSet(V)
  PROVE  AreSteps(AreNeat, CreateValues(i, V))
<1>. DEFINE s == SetToSeq(V)
            f == [n \in DOMAIN s |-> CreateValue(i, s[n][1], s[n][2])]
<1>1. CreateValues(i, V) = f
  BY DEF CreateValues, Each
<1>2. \A n \in DOMAIN f : Fits(AreNeat, f[n])
  BY ValueNeat, NeatSteps
<1>3. DOMAIN f = DOMAIN s /\ f = [n \in DOMAIN f |-> f[n]]
  OBVIOUS
<1>. HIDE DEF f
<1>4. AreSteps(AreNeat, f)
  BY <1>2, <1>3, EachSteps
<1>. QED
  BY <1>1, <1>4

LEMMA CallsNeat ==
  /\ \A i, f, v : NeatCall(<<"saveValue", i, f, v>>)
  /\ \A i, text : NeatCall(<<"index", i, text>>)
  /\ \A i, j : NeatCall(<<"link", i, j>>) /\ NeatCall(<<"copyValues", i, j>>)
  /\ \A i : NeatCall(<<"revise", i>>) /\ NeatCall(<<"prune", i>>)
  /\ \A i, form, row, read : i \in Item /\ form.sort \in Int /\ Sorted(row) /\ Typed(read) => NeatCall(<<"saveItem", i, form, row, read>>)
  /\ \A i, snap : Sorted(snap.row) /\ IsFiniteSet(snap.values) => NeatCall(<<"restoreFrom", i, snap>>)
BY DEF NeatCall

LEMMA SaveValuesNeat ==
  ASSUME NEW i, NEW form, NEW rows
  PROVE  AreSteps(AreNeat, SaveValues(i, form, rows))
<1>. DEFINE F == FieldsForCategory(form.category, rows)
            s == SetToSeq(F)
            f == [n \in DOMAIN s |-> Call(<<"saveValue", i, s[n], form.values[s[n]]>>)]
<1>1. SaveValues(i, form, rows) = f
  BY DEF SaveValues, Each
<1>2. \A g, v : Fits(AreNeat, Call(<<"saveValue", i, g, v>>))
  BY CallsNeat, NeatSteps
<1>3. DOMAIN f = DOMAIN s /\ f = [n \in DOMAIN f |-> f[n]] /\ \A n \in DOMAIN f : Fits(AreNeat, f[n])
  BY <1>2
<1>4. IsFiniteSet(F)
  BY DataFinite
<1>. HIDE DEF f, F
<1>5. AreSteps(AreNeat, f)
  BY <1>3, <1>4, EachSteps
<1>. QED
  BY <1>1, <1>5

LEMMA IndexNeat ==
  ASSUME NEW i, NEW text, NEW rows
  PROVE  AreSteps(AreNeat, UpsertSearchIndex(i, text, rows))
<1>. DEFINE row == <<"indexed", i, text, {v \in Values(i, rows) : Has("field", v[1], rows)}>>
            drop == DeleteOf("indexed", i)
            add == Link({row})
<1>1. UpsertSearchIndex(i, text, rows) = <<drop, add>>
  BY DEF UpsertSearchIndex
<1>2. row[1] = "indexed"
  OBVIOUS
<1>. HIDE DEF row
<1>3. Typed({row})
  BY <1>2, OtherTyped DEF Typed
<1>4. Neat(add)
  BY <1>3, StatementsAre DEF Neat
<1>5. Neat(drop)
  BY WheresNeat, NeatSteps DEF DeleteOf
<1>. HIDE DEF drop, add
<1>. QED
  BY <1>1, <1>4, <1>5, TwoSteps, NeatSteps

LEMMA LoadedTyped ==
  ASSUME NEW i, NEW with, NEW rows, Typed(rows)
  PROVE  Typed(Loaded(i, with, rows))
<1>. DEFINE tags == {r \in rows : r[1] = "tag" /\ r[2] \in Linked("tagged", i, rows)}
            linked == UNION {Of(what, i, rows) : what \in with}
<1>1. Loaded(i, with, rows) = CategoryRow(i, rows) \cup linked \cup tags
  BY DEF Loaded
<1>2. CategoryRow(i, rows) \subseteq rows
  BY OfIs DEF CategoryRow
<1>3. linked \subseteq rows
  BY OfIs
<1>4. tags \subseteq rows
  OBVIOUS
<1>. HIDE DEF linked, tags
<1>5. CategoryRow(i, rows) \cup linked \cup tags \subseteq rows
  BY <1>2, <1>3, <1>4
<1>. QED
  BY <1>1, <1>5, TypedSets

LEMMA NewItemSorted ==
  /\ Sorted(NewItem)
  /\ \A row, text, slug, category, author : Sorted(row) =>
       Sorted([NewItem EXCEPT !.text = text, !.slug = slug, !.category = category, !.sort = row.sort, !.author = author])
BY DEF Sorted, NewItem

LEMMA FeaturedSortIs ==
  ASSUME NEW i, NEW form, NEW row, Sorted(row), NEW rows, Typed(rows)
  PROVE  FeaturedSort(i, form, row, rows) \in Int
<1>. DEFINE others == {j \in Ids("item", rows) \ {i} : The("item", j, rows).featured}
<1>1. others \subseteq Item
  BY ItemsSorted DEF Ids, Has
<1>2. IsFiniteSet(Item)
  <2>1. Item \subseteq Item \cup Category
    OBVIOUS
  <2>. QED
    BY <2>1, ConstantsFinite, FS_Subset
<1>3. IsFiniteSet(others)
  BY <1>1, <1>2, FS_Subset
<1>4. Cardinality(others) \in Nat
  BY <1>3, FS_CardinalityType
<1>5. Has("item", i, rows) => The("item", i, rows).place \in Int
  BY ItemsSorted DEF Sorted
<1>6. row.place \in Int
  BY DEF Sorted
<1>. HIDE DEF others
<1>. QED
  BY <1>4, <1>5, <1>6 DEF FeaturedSort, others

LEMMA SaveItemNeat ==
  ASSUME NEW i \in Item, NEW form, form.sort \in Int, NEW row, Sorted(row), NEW read, Typed(read), NEW rows, Typed(rows)
  PROVE  AreSteps(AreNeat, SaveItem(i, form, row, read, rows))
<1>. DEFINE place == FeaturedSort(i, form, row, rows)
            slug == SlugFor(i, form, rows)
            category == CategoryOf(form, read)
            new == [row EXCEPT !.text = form.text, !.slug = slug, !.status = form.status,
                      !.featured = form.featured, !.place = place,
                      !.category = category, !.sort = form.sort, !.author = form.author]
            revise == When(row # NewItem, <<Call(<<"revise", i>>)>>)
            put == <<Where(<<"put", "item", i, new, read>>)>>
            groups == ReplaceFormGroups(i, form.groups)
            tags == ReplaceTags(i, Nameless(form.tags))
            values == SaveValues(i, form, rows)
            link == When(form.link # None, <<Call(<<"link", i, form.link>>)>>)
            index == <<Call(<<"index", i, form.text>>)>>
<1>1. SaveItem(i, form, row, read, rows) = revise \o put \o groups \o tags \o values \o link \o index
  BY DEF SaveItem
<1>2. Sorted(new)
  <2>1. place \in Int
    BY FeaturedSortIs
  <2>. HIDE DEF place, slug, category
  <2>. QED
    BY <2>1 DEF Sorted
<1>. HIDE DEF new
<1>3. AreSteps(AreNeat, revise) /\ AreSteps(AreNeat, link) /\ AreSteps(AreNeat, index)
  BY CallsNeat, NeatOne, WhenSteps
<1>4. AreSteps(AreNeat, put)
  BY <1>2, OtherTyped, PutNeat
<1>5. AreSteps(AreNeat, groups) /\ AreSteps(AreNeat, tags)
  BY ReplaceNeat, TypedSets
<1>6. AreSteps(AreNeat, values)
  BY SaveValuesNeat
<1>. HIDE DEF revise, put, groups, tags, values, link, index
<1>7. AreSteps(AreNeat, revise \o put \o groups)
  BY <1>3, <1>4, <1>5, ConcatSteps
<1>8. AreSteps(AreNeat, revise \o put \o groups \o tags \o values)
  BY <1>5, <1>6, <1>7, ConcatSteps
<1>9. AreSteps(AreNeat, revise \o put \o groups \o tags \o values \o link \o index)
  BY <1>3, <1>8, ConcatSteps
<1>. QED
  BY <1>1, <1>9

LEMMA FrontendNeat ==
  ASSUME NEW i \in Item, NEW form, NEW rows, Typed(rows)
  PROVE  AreSteps(AreNeat, FrontendForm(i, form, rows))
<1>. DEFINE known == Has("item", i, rows)
            row == IF known THEN The("item", i, rows) ELSE NewItem
            read == IF known THEN Loaded(i, {"tagged"}, rows) ELSE {}
            status == IF form.submit THEN "pending"
                      ELSE IF form.publish THEN (IF form.status = "published" THEN "published" ELSE "draft")
                      ELSE row.status
            slug == SlugFor(i, form, rows)
            category == CategoryOf(form, read)
            new == [row EXCEPT !.text = form.text, !.slug = slug, !.status = status,
                      !.featured = IF form.publish THEN form.featured ELSE @, !.category = category]
            put == <<Where(<<"put", "item", i, new, read>>)>>
            tags == ReplaceTags(i, Nameless(form.tags))
            values == SaveValues(i, form, rows)
<1>1. FrontendForm(i, form, rows) = put \o tags \o values
  BY DEF FrontendForm
<1>2. Typed(read)
  BY LoadedTyped, TypedSets
<1>3. Sorted(row)
  BY ItemsSorted, NewItemSorted
<1>. HIDE DEF row, status, slug, category
<1>4. Sorted(new)
  BY <1>3 DEF Sorted
<1>. HIDE DEF new, read
<1>5. AreSteps(AreNeat, put)
  BY <1>2, <1>4, OtherTyped, PutNeat
<1>6. AreSteps(AreNeat, tags) /\ AreSteps(AreNeat, values)
  BY ReplaceNeat, TypedSets, SaveValuesNeat
<1>. HIDE DEF put, tags, values
<1>7. AreSteps(AreNeat, put \o tags \o values)
  BY <1>5, <1>6, ConcatSteps
<1>. QED
  BY <1>1, <1>7

LEMMA CloneNeat ==
  ASSUME NEW i, NEW new \in Item, NEW rows, Typed(rows)
  PROVE  AreSteps(AreNeat, CloneItem(i, new, rows))
<1>. DEFINE old == The("item", i, rows)
            text == Copy[old.text]
            slug == UniqueItemSlug(new, text, rows)
            row == [NewItem EXCEPT !.text = text, !.slug = slug,
                      !.category = old.category, !.sort = old.sort, !.author = old.author]
            T == {r \in rows : r[1] = "tag" /\ r[2] \in Linked("tagged", i, rows)}
            G == Linked("sees", i, rows)
            put == <<Where(<<"put", "item", new, row, {}>>)>>
            tags == When(T # {}, ReplaceTags(new, T))
            groups == When(G # {}, ReplaceGroups(new, G))
            rest == <<Call(<<"copyValues", i, new>>), Call(<<"index", new, text>>)>>
<1>1. CloneItem(i, new, rows) = IF ~Has("item", i, rows) THEN <<Return>> ELSE put \o tags \o groups \o rest
  BY DEF CloneItem
<1>2. Typed(T)
  BY DEF Typed
<1>. HIDE DEF text, slug
<1>3. ASSUME Has("item", i, rows) PROVE Sorted(row)
  BY <1>3, ItemsSorted, NewItemSorted
<1>. HIDE DEF row, T, G
<1>4. Has("item", i, rows) => AreSteps(AreNeat, put)
  BY <1>3, OtherTyped, TypedSets, PutNeat
<1>5. AreSteps(AreNeat, tags) /\ AreSteps(AreNeat, groups)
  BY <1>2, ReplaceNeat, WhenSteps
<1>6. AreSteps(AreNeat, rest)
  BY CallsNeat, NeatSteps, TwoSteps
<1>. HIDE DEF put, tags, groups, rest
<1>7. Has("item", i, rows) => AreSteps(AreNeat, put \o tags \o groups \o rest)
  BY <1>4, <1>5, <1>6, ConcatSteps
<1>. QED
  BY <1>1, <1>7, NeatOne

LEMMA RestoreNeat ==
  ASSUME NEW i, NEW snap, Sorted(snap.row), IsFiniteSet(snap.values), NEW rows, Typed(rows)
  PROVE  AreSteps(AreNeat, RestoreFrom(i, snap, rows))
<1>. DEFINE old == The("item", i, rows)
            row == Restored(snap.row, old)
            put == <<Where(<<"put", "item", i, row, {}>>)>>
            tags == ReplaceTags(i, Nameless(snap.tags))
            groups == ReplaceGroups(i, snap.groups)
            drop == <<DeleteOf("value", i)>>
            values == CreateValues(i, snap.values)
<1>1. RestoreFrom(i, snap, rows)
      = IF ~Has("item", i, rows) THEN <<Return>> ELSE put \o tags \o groups \o drop \o values
  BY DEF RestoreFrom
<1>2. Has("item", i, rows) => Sorted(row)
  <2>. DEFINE kept == snap.row
  <2>1. {"sort", "place"} \subseteq DOMAIN kept /\ kept.sort \in Int /\ kept.place \in Int
    BY DEF Sorted
  <2>2. Has("item", i, rows) => {"sort", "place"} \subseteq DOMAIN old
    BY ItemsSorted DEF Sorted
  <2>. HIDE DEF kept, old
  <2>3. {"sort", "place"} \subseteq DOMAIN old => Sorted(Restored(kept, old))
    BY <2>1 DEF Sorted, Restored
  <2>. QED
    BY <2>2, <2>3 DEF kept
<1>. HIDE DEF row
<1>3. Has("item", i, rows) => AreSteps(AreNeat, put)
  BY <1>2, ItemsSorted, OtherTyped, TypedSets, PutNeat
<1>4. AreSteps(AreNeat, tags) /\ AreSteps(AreNeat, groups)
  BY ReplaceNeat, TypedSets
<1>5. AreSteps(AreNeat, drop)
  BY WheresNeat, NeatOne DEF DeleteOf
<1>6. AreSteps(AreNeat, values)
  BY CreateEachNeat
<1>. HIDE DEF put, tags, groups, drop, values
<1>7. Has("item", i, rows) => AreSteps(AreNeat, put \o tags \o groups)
  BY <1>3, <1>4, ConcatSteps
<1>8. Has("item", i, rows) => AreSteps(AreNeat, put \o tags \o groups \o drop \o values)
  BY <1>5, <1>6, <1>7, ConcatSteps
<1>. QED
  BY <1>1, <1>8, NeatOne

LEMMA ItemFormNeat ==
  ASSUME NEW i \in Item, NEW form, form.sort \in Int, NEW rows, Typed(rows)
  PROVE  AreSteps(AreNeat, ItemForm(i, form, rows))
<1>1. \A row, read : Sorted(row) /\ Typed(read) => AreSteps(AreNeat, <<Call(<<"saveItem", i, form, row, read>>)>>)
  BY CallsNeat, NeatOne
<1>2. Has("item", i, rows) => Sorted(The("item", i, rows))
  BY ItemsSorted
<1>. QED
  BY <1>1, <1>2, LoadedTyped, TypedSets, NewItemSorted DEF ItemForm

LEMMA RollbackNeat ==
  ASSUME NEW i, NEW n, NEW rows, Typed(rows)
  PROVE  AreSteps(AreNeat, Rollback(i, n, rows))
<1>. DEFINE found == {r \in Of("revision", i, rows) : r[3] = n}
            snap == (CHOOSE r \in found : TRUE)[4]
            revise == Call(<<"revise", i>>)
            restore == Call(<<"restoreFrom", i, snap>>)
<1>1. Rollback(i, n, rows) = IF ~Has("item", i, rows) \/ found = {} THEN <<Return>> ELSE <<revise, restore>>
  BY DEF Rollback
<1>2. ASSUME found # {}
      PROVE  AreSteps(AreNeat, <<revise, restore>>)
  <2>1. PICK r \in found : snap = r[4]
    BY <1>2
  <2>2. r \in rows /\ r[1] = "revision"
    BY <2>1, OfIs
  <2>3. Sorted(snap.row) /\ IsFiniteSet(snap.values)
    BY <2>1, <2>2 DEF Typed, TypedRow
  <2>. HIDE DEF snap
  <2>. QED
    BY <2>3, CallsNeat, NeatSteps, TwoSteps
<1>. QED
  BY <1>1, <1>2, NeatOne

LEMMA ReviseNeat ==
  ASSUME NEW i, NEW rows, Typed(rows)
  PROVE  AreSteps(AreNeat, CreateItemRevision(i, rows))
<1>. DEFINE next == 1 + FoldSet(LAMBDA m, n : IF m > n THEN m ELSE n, 0, Numbers(i, rows))
            row == <<"revision", i, next, Snapshot(i, rows)>>
            add == Link({row})
            prune == Call(<<"prune", i>>)
<1>1. CreateItemRevision(i, rows) = IF ~Has("item", i, rows) THEN <<Return>> ELSE <<add, prune>>
  BY DEF CreateItemRevision
<1>. HIDE DEF next
<1>2. row[1] = "revision" /\ row[4] = Snapshot(i, rows)
  OBVIOUS
<1>3. IsFiniteSet(Snapshot(i, rows).values)
  BY DataFinite DEF Snapshot
<1>. HIDE DEF row
<1>4. ASSUME Has("item", i, rows) PROVE Neat(add)
  <2>. DEFINE old == The("item", i, rows)
  <2>1. Sorted(old)
    BY <1>4, ItemsSorted
  <2>2. Snapshot(i, rows).row = Kept(old)
    BY DEF Snapshot
  <2>. HIDE DEF old
  <2>3. Sorted(Kept(old))
    BY <2>1 DEF Sorted, Kept
  <2>4. TypedRow(row)
    BY <1>2, <1>3, <2>2, <2>3 DEF TypedRow
  <2>5. Typed({row})
    BY <2>4 DEF Typed
  <2>. QED
    BY <2>5, StatementsAre DEF Neat
<1>5. Neat(prune)
  BY CallsNeat, NeatSteps
<1>. HIDE DEF add, prune
<1>6. Has("item", i, rows) => AreSteps(AreNeat, <<add, prune>>)
  BY <1>4, <1>5, TwoSteps, NeatSteps
<1>. QED
  BY <1>1, <1>6, NeatOne

LEMMA CommentNeat ==
  ASSUME NEW c, NEW i, NEW rows
  PROVE  AreSteps(AreNeat, CreateComment(c, i, rows))
<1>. DEFINE row == [item |-> i, approved |-> AutoApprove]
<1>1. CreateComment(c, i, rows) = IF ~Has("item", i, rows) THEN <<Return>> ELSE <<Where(<<"put", "comment", c, row, {}>>)>>
  BY DEF CreateComment
<1>. HIDE DEF row
<1>2. AreSteps(AreNeat, <<Where(<<"put", "comment", c, row, {}>>)>>)
  BY OtherTyped, TypedSets, PutNeat
<1>. QED
  BY <1>1, <1>2, NeatOne

----------------------------------------------------------------------------
\* All that is asked for

LEMMA NeatPlan ==
  ASSUME NEW op, NeatCall(op), NEW rows, Typed(rows), NEW c
  PROVE  AreSteps(AreNeat, Plan(op, rows, c))
<1>1. CASE op[1] = "bulk" /\ op[2][1] \in BulkAction
  <2>1. Plan(op, rows, c) = BulkOne(op[2], op[3], rows)
    BY <1>1 DEF Plan
  <2>. QED
    BY <1>1, <2>1, BulkNeat
<1>2. CASE op[1] = "saveItem" /\ op[2] \in Item /\ op[3].sort \in Int /\ Sorted(op[4]) /\ Typed(op[5])
  <2>1. Plan(op, rows, c) = SaveItem(op[2], op[3], op[4], op[5], rows)
    BY <1>2 DEF Plan
  <2>. QED
    BY <1>2, <2>1, SaveItemNeat
<1>3. CASE op[1] = "restoreFrom" /\ Sorted(op[3].row) /\ IsFiniteSet(op[3].values)
  <2>1. Plan(op, rows, c) = RestoreFrom(op[2], op[3], rows)
    BY <1>3 DEF Plan
  <2>. QED
    BY <1>3, <2>1, RestoreNeat
<1>4. CASE op[1] = "revise"
  BY <1>4, ReviseNeat DEF Plan
<1>5. CASE op[1] = "saveValue"
  BY <1>5, SaveValueNeat DEF Plan
<1>6. CASE op[1] = "copyValues"
  <2>1. Plan(op, rows, c) = CreateValues(op[3], Values(op[2], rows))
    BY <1>6 DEF Plan, CopyValues
  <2>2. IsFiniteSet(Values(op[2], rows))
    BY DataFinite
  <2>. QED
    BY <2>1, <2>2, CreateEachNeat
<1>7. CASE op[1] = "index"
  BY <1>7, IndexNeat DEF Plan
<1>8. CASE op[1] = "prune"
  BY <1>8, PruneNeat DEF Plan
<1>9. CASE op[1] = "link"
  BY <1>9, LinkNeat DEF Plan
<1>10. CASE Handled(op) /\ TypedOp(op)
  <2>1. CASE op[1] = "itemForm"
    <3>1. op[2] \in Item /\ op[3].sort \in Int
      BY <1>10, <2>1 DEF TypedOp
    <3>2. Plan(op, rows, c) = ItemForm(op[2], op[3], rows)
      BY <2>1 DEF Plan
    <3>. QED
      BY <3>1, <3>2, ItemFormNeat
  <2>2. CASE op[1] = "frontendForm"
    <3>1. op[2] \in Item
      BY <1>10, <2>2 DEF TypedOp
    <3>2. Plan(op, rows, c) = FrontendForm(op[2], op[3], rows)
      BY <2>2 DEF Plan
    <3>. QED
      BY <3>1, <3>2, FrontendNeat
  <2>3. CASE op[1] = "rollback"
    BY <2>3, RollbackNeat DEF Plan
  <2>4. CASE op[1] = "clone"
    <3>1. op[3] \in Item
      BY <1>10, <2>4 DEF TypedOp
    <3>2. Plan(op, rows, c) = CloneItem(op[2], op[3], rows)
      BY <2>4 DEF Plan
    <3>. QED
      BY <3>1, <3>2, CloneNeat
  <2>5. CASE op[1] = "deleteItem"
    BY <2>5, DeleteItemNeat DEF Plan
  <2>6. CASE op[1] = "emptyTrash"
    <3>1. \E I : Plan(op, rows, c) = Bulk(<<"delete">>, I)
      BY <2>6 DEF Plan, EmptyTrash
    <3>. QED
      BY <3>1, BulkNeat DEF BulkAction
  <2>7. CASE op[1] = "bulkItems"
    <3>1. Plan(op, rows, c) = Bulk(op[2], op[3])
      BY <2>7 DEF Plan
    <3>2. op[2][1] \in BulkAction
      BY <1>10, <2>7 DEF Handled
    <3>. QED
      BY <3>1, <3>2, BulkNeat
  <2>8. CASE op[1] = "submitReview"
    BY <2>8, ColumnsNeat DEF Plan
  <2>9. CASE op[1] = "itemMove"
    BY <2>9, MovesNeat DEF Plan
  <2>10. CASE op[1] = "featuredMove"
    BY <2>10, MovesNeat DEF Plan
  <2>11. CASE op[1] = "preview"
    BY <2>11, ColumnsNeat DEF Plan
  <2>12. CASE op[1] = "comment"
    BY <2>12, CommentNeat DEF Plan
  <2>13. CASE op[1] = "moderate"
    BY <2>13, ColumnsNeat DEF Plan
  <2>14. CASE op[1] = "commentDelete"
    BY <2>14, WheresNeat, NeatOne DEF Plan, DeleteOf
  <2>15. CASE op[1] = "tagForm"
    BY <2>15, TagsNeat DEF Plan
  <2>16. CASE op[1] = "tagDelete"
    BY <2>16, TagsNeat DEF Plan
  <2>17. CASE op[1] = "categoryForm"
    <3>1. Plan(op, rows, c) = CategoryForm(op[2], op[3], rows)
      BY <2>17 DEF Plan
    <3>2. op[3].list \in Listings
      BY <1>10, <2>17 DEF TypedOp
    <3>. QED
      BY <3>1, <3>2, CategoriesNeat
  <2>18. CASE op[1] = "featuredForm"
    <3>1. Plan(op, rows, c) = FeaturedCategoryForm(op[2])
      BY <2>18 DEF Plan
    <3>2. op[2] \in Listings
      BY <1>10, <2>18 DEF TypedOp
    <3>. QED
      BY <3>1, <3>2, CategoriesNeat
  <2>19. CASE op[1] = "categoryDelete"
    BY <2>19, CategoriesNeat DEF Plan
  <2>20. CASE op[1] = "categoryMove"
    BY <2>20, MovesNeat DEF Plan
  <2>21. CASE op[1] = "toggle"
    <3>1. Plan(op, rows, c) = Toggle(op[2], op[3], rows)
      BY <2>21 DEF Plan
    <3>2. op[2] \in {"category", "field", "group", "user"}
      BY <1>10, <2>21 DEF Handled
    <3>. QED
      BY <3>1, <3>2, ToggleNeat
  <2>22. CASE op[1] = "fieldGroupForm"
    BY <2>22, FieldsNeat DEF Plan
  <2>23. CASE op[1] = "fieldGroupDelete"
    BY <2>23, FieldsNeat DEF Plan
  <2>24. CASE op[1] = "fieldForm"
    BY <2>24, FieldsNeat DEF Plan
  <2>25. CASE op[1] = "fieldDelete"
    BY <2>25, WheresNeat, NeatOne DEF Plan, TryDelete
  <2>26. CASE op[1] = "fieldMove"
    BY <2>26, MovesNeat DEF Plan
  <2>27. op[1] \in Handler
    BY <1>10 DEF Handled
  <2>. QED
    BY <2>1, <2>2, <2>3, <2>4, <2>5, <2>6, <2>7, <2>8, <2>9, <2>10, <2>11, <2>12, <2>13, <2>14, <2>15, <2>16, <2>17,
       <2>18, <2>19, <2>20, <2>21, <2>22, <2>23, <2>24, <2>25, <2>26, <2>27 DEF Handler
<1>. QED
  BY <1>1, <1>2, <1>3, <1>4, <1>5, <1>6, <1>7, <1>8, <1>9, <1>10 DEF NeatCall

----------------------------------------------------------------------------
\* What the statements write

LEMMA PutTyped ==
  ASSUME NEW what, NEW x, NEW row, TypedRow(<<what, x, row>>), NEW read, Typed(read), NEW rows
  PROVE  Typed(Head(Put(what, x, row, read, rows)).add)
<1>. DEFINE back == {r \in read : r[1] \in {"tagged", "sees"} \/ ~Has(r[1], r[2], rows)}
            new == {<<what, x, row>>} \cup back
            write == Write(Of(what, x, rows), new)
<1>1. Head(Put(what, x, row, read, rows)) \in {Fails, write}
  BY DEF Put
<1>2. Typed({<<what, x, row>>}) /\ Typed(back)
  BY DEF Typed
<1>. HIDE DEF back
<1>3. Typed(new)
  BY <1>2, TypedSets
<1>. HIDE DEF new
<1>. QED
  BY <1>1, <1>3, StatementsAre, TypedSets

LEMMA SetTyped ==
  ASSUME NEW what, NEW x, NEW column, NEW v, NeatWhere(<<"set", what, x, column, v>>), NEW rows, Typed(rows)
  PROVE  Typed(Head(Set(what, x, column, v, rows)).add)
<1>. DEFINE old == The(what, x, rows)
            cell == [old EXCEPT ![column] = v]
            row == <<what, x, cell>>
            save == Save(Of(what, x, rows), row)
<1>1. Head(Set(what, x, column, v, rows)) = IF Has(what, x, rows) THEN save ELSE Statement
  BY DEF Set
<1>2. /\ what \in {"item", "category", "comment", "field"}
      /\ what = "item" /\ column \in {"sort", "place"} => v \in Int
      /\ what = "category" => column # "list"
  BY DEF NeatWhere
<1>3. ASSUME Has(what, x, rows)
      PROVE  TypedRow(row)
  <2>1. CASE what = "item"
    <3>1. x \in Item /\ Sorted(old)
      BY <1>3, <2>1, ItemsSorted
    <3>. HIDE DEF old
    <3>2. Sorted(cell)
      BY <1>2, <2>1, <3>1 DEF Sorted
    <3>. HIDE DEF cell
    <3>. QED
      BY <2>1, <3>1, <3>2, OtherTyped
  <2>2. CASE what = "category"
    <3>1. x \in Ids(what, rows)
      BY <1>3 DEF Has, Ids
    <3>2. PICK r \in rows : r[1] = what /\ r[2] = x /\ old = r[3]
      BY <3>1, TheIs
    <3>3. "list" \in DOMAIN old /\ old.list \in Listings
      BY <2>2, <3>2 DEF Typed, TypedRow
    <3>. HIDE DEF old
    <3>4. "list" \in DOMAIN cell /\ cell.list = old.list
      BY <1>2, <2>2, <3>3
    <3>. HIDE DEF cell
    <3>. QED
      BY <2>2, <3>3, <3>4 DEF TypedRow
  <2>3. CASE what \in {"comment", "field"}
    BY <2>3, OtherTyped
  <2>. QED
    BY <1>2, <2>1, <2>2, <2>3
<1>. HIDE DEF row
<1>4. Has(what, x, rows) => Typed({row})
  BY <1>3 DEF Typed
<1>. QED
  BY <1>1, <1>4, StatementsAre, TypedSets

LEMMA RegroupTyped ==
  ASSUME NEW I, NEW group, NEW rows, Typed(rows)
  PROVE  Typed(Head(Regroup(I, group, rows)).add)
<1>. DEFINE old == {r \in rows : r[1] = "item" /\ r[2] \in I}
            new == {<<"item", r[2], [r[3] EXCEPT !.group = group]>> : r \in old}
            write == Write(old, new)
<1>1. Head(Regroup(I, group, rows)) = write
  BY DEF Regroup
<1>2. ASSUME NEW r \in old
      PROVE  TypedRow(<<"item", r[2], [r[3] EXCEPT !.group = group]>>)
  <2>. DEFINE was == r[3]
              row == [was EXCEPT !.group = group]
  <2>1. r[2] \in Item /\ Sorted(was)
    BY <1>2 DEF Typed, TypedRow
  <2>. HIDE DEF was
  <2>2. Sorted(row)
    BY <2>1 DEF Sorted
  <2>. HIDE DEF row
  <2>3. TypedRow(<<"item", r[2], row>>)
    BY <2>1, <2>2, OtherTyped
  <2>. QED
    BY <2>3 DEF row, was
<1>. HIDE DEF old
<1>3. Typed(new)
  BY <1>2 DEF Typed
<1>. HIDE DEF new
<1>. QED
  BY <1>1, <1>3, StatementsAre

LEMMA LinksTyped ==
  ASSUME NEW x, NEW y, NEW G, NEW rows
  PROVE  /\ Typed(Head(LinkGroups(x, G, rows)).add)
         /\ Typed(y) => Typed(Head(LinkTags(x, y, rows)).add)
<1>1. Typed(Head(LinkGroups(x, G, rows)).add)
  <2>. DEFINE new == {<<"sees", x, g>> : g \in G}
  <2>1. Head(LinkGroups(x, G, rows)) \in {Fails, Link(new)}
    BY DEF LinkGroups
  <2>2. \A r \in new : r[1] = "sees"
    OBVIOUS
  <2>. HIDE DEF new
  <2>3. Typed(new)
    BY <2>2, OtherTyped DEF Typed
  <2>. QED
    BY <2>1, <2>3, StatementsAre, TypedSets
<1>2. ASSUME Typed(y)
      PROVE  Typed(Head(LinkTags(x, y, rows)).add)
  <2>. DEFINE missing == {t \in y : ~Has("tag", t[2], rows)}
              links == {<<"tagged", x, t[2]>> : t \in y}
              new == missing \cup links
  <2>1. Head(LinkTags(x, y, rows)) \in {Fails, Link(new)}
    BY DEF LinkTags
  <2>2. Typed(missing)
    BY <1>2 DEF Typed
  <2>3. \A r \in links : r[1] = "tagged"
    OBVIOUS
  <2>. HIDE DEF missing, links
  <2>4. Typed(links)
    BY <2>3, OtherTyped DEF Typed
  <2>5. Typed(new)
    BY <2>2, <2>4, TypedSets
  <2>. HIDE DEF new
  <2>. QED
    BY <2>1, <2>5, StatementsAre, TypedSets
<1>. QED
  BY <1>1, <1>2

LEMMA DropsTyped ==
  ASSUME NEW x, NEW y, NEW G, NEW rows
  PROVE  /\ Typed(Head(DeleteRows(x, y, rows)).add)
         /\ Typed(Ignored(DeleteRows(x, y, rows)[1]).add)
         /\ Typed(Head(Unlink(x, y, G, rows)).add)
         /\ Typed(Head(DeleteComments(x, rows)).add)
         /\ Typed(Head(Untag(x, rows)).add)
         /\ Typed(Head(DeleteFields(x, rows)).add)
<1>1. Typed(Head(DeleteRows(x, y, rows)).add) /\ Typed(Ignored(DeleteRows(x, y, rows)[1]).add)
  <2>. DEFINE s == Head(DeleteRows(x, y, rows))
  <2>1. DeleteRows(x, y, rows) = <<s>> /\ (s = Fails \/ s = Delete(Of(x, y, rows)))
    BY DeletesRows
  <2>. HIDE DEF s
  <2>2. s.add = {} /\ DeleteRows(x, y, rows)[1] = s
    BY <2>1, StatementsAre
  <2>3. Ignored(s).add = {}
    BY <2>1 DEF Ignored, Fails, Needing, Statement, Delete
  <2>. QED
    BY <2>2, <2>3, TypedSets DEF s
<1>2. \E S : Head(Unlink(x, y, G, rows)) = Delete(S)
  BY DEF Unlink
<1>3. \E S : Head(DeleteComments(x, rows)) = Ignored(Delete(S))
  BY DEF DeleteComments
<1>4. \E S : Head(Untag(x, rows)) = Ignored(Delete(S))
  BY DEF Untag
<1>5. \E S : Head(DeleteFields(x, rows)) = Ignored(Delete(S))
  BY DEF DeleteFields
<1>. QED
  BY <1>1, <1>2, <1>3, <1>4, <1>5, StatementsAre, TypedSets

LEMMA WheresTyped ==
  ASSUME NEW op, NeatWhere(op), NEW rows, Typed(rows), NEW c
  PROVE  Typed(Head(Plan(op, rows, c)).add)
<1>1. CASE op[1] = "put" /\ TypedRow(<<op[2], op[3], op[4]>>) /\ Typed(op[5])
  <2>1. Plan(op, rows, c) = Put(op[2], op[3], op[4], op[5], rows)
    BY <1>1 DEF Plan
  <2>. QED
    BY <1>1, <2>1, PutTyped
<1>2. CASE op[1] = "set"
  <2>1. Plan(op, rows, c) = Set(op[2], op[3], op[4], op[5], rows)
    BY <1>2 DEF Plan
  <2>2. NeatWhere(<<"set", op[2], op[3], op[4], op[5]>>)
    BY <1>2 DEF NeatWhere
  <2>. QED
    BY <2>1, <2>2, SetTyped
<1>3. CASE op[1] = "delete"
  BY <1>3, DropsTyped DEF Plan
<1>4. CASE op[1] = "tryDelete"
  <2>1. Head(Plan(op, rows, c)) = Ignored(DeleteRows(op[2], op[3], rows)[1])
    BY <1>4 DEF Plan
  <2>. QED
    BY <2>1, DropsTyped
<1>5. CASE op[1] = "unlink"
  BY <1>5, DropsTyped DEF Plan
<1>6. CASE op[1] = "linkTags" /\ Typed(op[3])
  <2>1. Plan(op, rows, c) = LinkTags(op[2], op[3], rows)
    BY <1>6 DEF Plan
  <2>. QED
    BY <1>6, <2>1, LinksTyped
<1>7. CASE op[1] = "linkGroups"
  BY <1>7, LinksTyped DEF Plan
<1>8. CASE op[1] = "regroup"
  BY <1>8, RegroupTyped DEF Plan
<1>9. CASE op[1] = "decide"
  <2>1. Plan(op, rows, c) = Decide(op[2], op[3], rows)
    BY <1>9 DEF Plan
  <2>2. \E v : Decide(op[2], op[3], rows) \in {Set("item", op[2], "status", v, rows), <<Statement>>}
    BY DEF Decide
  <2>3. Typed(Head(<<Statement>>).add)
    BY StatementsAre, TypedSets
  <2>4. \A v : Typed(Head(Set("item", op[2], "status", v, rows)).add)
    BY WheresNeat, SetTyped
  <2>. QED
    BY <2>1, <2>2, <2>3, <2>4
<1>10. CASE op[1] = "deleteComments"
  BY <1>10, DropsTyped DEF Plan
<1>11. CASE op[1] = "untag"
  BY <1>11, DropsTyped DEF Plan
<1>12. CASE op[1] = "deleteFields"
  BY <1>12, DropsTyped DEF Plan
<1>. QED
  BY <1>1, <1>2, <1>3, <1>4, <1>5, <1>6, <1>7, <1>8, <1>9, <1>10, <1>11, <1>12 DEF NeatWhere

LEMMA ResultTyped ==
  ASSUME NEW s, Typed(s.add), NEW rows, Typed(rows)
  PROVE  Typed(Result(s, rows))
BY DEF Typed, Result

----------------------------------------------------------------------------
\* The invariant: rows have the types the code gives them, and so has what requests still write
TypedInv ==
  /\ DOMAIN worker = Worker
  /\ Typed(db)
  /\ \A w \in Worker : Served(w) /\ AreSteps(AreNeat, worker[w].todo)

LEMMA TypedInit == Server!Init => TypedInv
<1>. SUFFICES ASSUME Server!Init PROVE TypedInv
  OBVIOUS
<1>1. DOMAIN worker = Worker /\ \A w \in Worker : worker[w] = Server!Idle
  BY DEF Server!Init
<1>2. \A w \in Worker : worker[w].todo = <<>>
  BY <1>1 DEF Server!Idle
<1>3. Typed(db)
  BY ContentDoesAssumption DEF Server!Init
<1>. QED
  BY <1>1, <1>2, <1>3, NeatOne DEF TypedInv, Served

LEMMA TypedOthers ==
  ASSUME TypedInv, NEW w \in Worker, (DOMAIN worker)' = Worker, \A v \in Worker : v # w => worker'[v] = worker[v],
         Served(w)', AreSteps(AreNeat, worker'[w].todo), Typed(db')
  PROVE  TypedInv'
<1>1. ASSUME NEW v \in Worker
      PROVE  Served(v)' /\ AreSteps(AreNeat, worker'[v].todo)
  <2>1. CASE v = w
    BY <2>1
  <2>2. CASE v # w
    <3>1. worker'[v] = worker[v] /\ Served(v) /\ AreSteps(AreNeat, worker[v].todo)
      BY <2>2 DEF TypedInv
    <3>. QED
      BY <3>1 DEF Served, Underway, Server!Idle
  <2>. QED
    BY <2>1, <2>2
<1>2. \A v \in Worker : AreSteps(AreNeat, worker[v].todo)' <=> AreSteps(AreNeat, worker'[v].todo)
  BY DEF AreSteps
<1>. QED
  BY <1>1, <1>2 DEF TypedInv, Typed

LEMMA TypedGoesOn ==
  ASSUME TypedInv, NEW w \in Worker, NEW o, NEW l, Underway(w, o, l),
         NEW steps, Server!Instead(w, steps), AreSteps(AreNeat, steps), Typed(db')
  PROVE  TypedInv'
<1>1. /\ (DOMAIN worker)' = Worker
      /\ \A v \in Worker : v # w => worker'[v] = worker[v]
      /\ worker'[w] = IF steps = <<>> THEN Server!Idle ELSE [op |-> o, todo |-> steps]
  BY InsteadDoes DEF TypedInv, Underway
<1>2. worker'[w].todo = steps
  BY <1>1 DEF Server!Idle
<1>3. Served(w)'
  <2>1. CASE steps = <<>>
    BY <1>1, <2>1 DEF Served, Server!Idle
  <2>2. CASE steps # <<>>
    <3>1. Underway(w, o, steps)'
      BY <1>1, <2>2 DEF Underway
    <3>. QED
      BY <3>1 DEF Served
  <2>. QED
    BY <2>1, <2>2
<1>. QED
  BY <1>1, <1>2, <1>3, TypedOthers

\* The steps of a request under way.
LEMMA NeatUnderway ==
  ASSUME TypedInv, NEW w \in Worker, NEW do, Server!At(w, do)
  PROVE  \E o, l : /\ Underway(w, o, l) /\ l # <<>> /\ Head(l).do = do
                   /\ Neat(Head(l)) /\ AreSteps(AreNeat, Tail(l))
                   /\ \A n \in DOMAIN Tail(l) : Neat(Tail(l)[n])
<1>1. PICK o, l : Underway(w, o, l)
  BY DEF TypedInv, Served, Server!At, Server!Busy
<1>2. Head(l).do = do /\ l # <<>> /\ worker[w].todo = l
  BY <1>1 DEF Server!At, Underway
<1>3. AreSteps(AreNeat, l)
  BY <1>2 DEF TypedInv
<1>4. Fits(AreNeat, Head(l)) /\ AreSteps(AreNeat, Tail(l))
  BY <1>2, <1>3, TailSteps
<1>5. \A n \in DOMAIN Tail(l) : Neat(Tail(l)[n])
  BY <1>4, NeatSteps DEF AreSteps
<1>. QED
  BY <1>1, <1>2, <1>4, <1>5, NeatSteps

LEMMA TypedBegin ==
  ASSUME TypedInv, NEW w \in Worker, Server!Begin(w)
  PROVE  TypedInv'
<1>1. PICK o \in Does[w] : worker' = [worker EXCEPT ![w] = [op |-> o, todo |-> <<Call(o)>>]]
  BY DEF Server!Begin, Server!Call, Call
<1>2. Typed(db')
  BY DEF Server!Begin, TypedInv
<1>. DEFINE l == <<Call(o)>>
<1>3. NeatCall(o)
  BY ContentDoesAssumption DEF NeatCall
<1>4. AreSteps(AreNeat, l)
  BY <1>3, NeatOne
<1>5. l # <<>>
  OBVIOUS
<1>6. worker' = [worker EXCEPT ![w] = [op |-> o, todo |-> l]]
  BY <1>1
<1>. HIDE DEF l
<1>7. /\ (DOMAIN worker)' = Worker
      /\ \A v \in Worker : v # w => worker'[v] = worker[v]
      /\ worker'[w] = [op |-> o, todo |-> l]
  BY <1>6 DEF TypedInv
<1>8. Served(w)' /\ worker'[w].todo = l
  <2>1. Underway(w, o, l)'
    BY <1>5, <1>7 DEF Underway
  <2>. QED
    BY <1>7, <2>1 DEF Served
<1>. QED
  BY <1>2, <1>4, <1>7, <1>8, TypedOthers

LEMMA TypedExpand ==
  ASSUME TypedInv, NEW w \in Worker, Server!Expand(w)
  PROVE  TypedInv'
<1>1. PICK o, l : Underway(w, o, l) /\ l # <<>> /\ Head(l).do = "call" /\ Neat(Head(l)) /\ AreSteps(AreNeat, Tail(l))
  BY NeatUnderway DEF Server!Expand
<1>. DEFINE plan == Plan(Head(l).op, db, cached)
<1>2. Server!Instead(w, plan \o Tail(l)) /\ db' = db
  BY <1>1 DEF Server!Expand, Server!Now, Server!Later, Underway
<1>3. NeatCall(Head(l).op)
  BY <1>1 DEF Neat
<1>4. Typed(db)
  BY DEF TypedInv
<1>5. AreSteps(AreNeat, plan)
  BY <1>3, <1>4, NeatPlan
<1>. HIDE DEF plan
<1>6. AreSteps(AreNeat, plan \o Tail(l)) /\ Typed(db')
  BY <1>1, <1>2, <1>4, <1>5, ConcatSteps
<1>. QED
  BY <1>1, <1>2, <1>6, TypedGoesOn

LEMMA TypedExecute ==
  ASSUME TypedInv, NEW w \in Worker, Server!Execute(w)
  PROVE  TypedInv'
<1>1. PICK o, l : /\ Underway(w, o, l) /\ l # <<>> /\ Head(l).do \in {"statement", "where"}
                  /\ Neat(Head(l)) /\ AreSteps(AreNeat, Tail(l))
  BY NeatUnderway DEF Server!Execute, Server!Executing
<1>. DEFINE sql == Server!Sql(w)
            s == Head(l)
<1>2. Server!Instead(w, Tail(l)) /\ db' = Result(sql, db)
  BY <1>1 DEF Server!Execute, Server!Effect, Result, Server!Proceed, Server!Later, Underway
<1>3. sql = IF s.do = "where" THEN Head(Plan(s.op, db, cached)) ELSE s
  BY <1>1 DEF Server!Sql, Server!At, Server!Now, Server!Busy, Server!Idle, Underway
<1>4. Typed(db)
  BY DEF TypedInv
<1>. HIDE DEF sql
<1>5. Typed(sql.add)
  <2>1. CASE s.do = "where"
    <3>1. NeatWhere(s.op)
      BY <1>1, <2>1 DEF Neat
    <3>. QED
      BY <1>3, <1>4, <2>1, <3>1, WheresTyped
  <2>2. CASE s.do = "statement"
    BY <1>1, <1>3, <2>2 DEF Neat
  <2>. QED
    BY <1>1, <2>1, <2>2
<1>6. Typed(db')
  BY <1>2, <1>4, <1>5, ResultTyped
<1>. QED
  BY <1>1, <1>2, <1>6, TypedGoesOn

LEMMA TypedFails ==
  ASSUME TypedInv, NEW w \in Worker, Server!Fail(w) \/ Server!GiveUp(w) \/ Server!Pass(w)
  PROVE  TypedInv'
<1>1. PICK o, l : Underway(w, o, l) /\ l # <<>> /\ AreSteps(AreNeat, Tail(l)) /\ \A n \in DOMAIN Tail(l) : Neat(Tail(l)[n])
  BY NeatUnderway DEF Server!Fail, Server!GiveUp, Server!Pass, Server!Executing
<1>2. Typed(db')
  BY DEF Server!Fail, Server!GiveUp, Server!Pass, TypedInv
<1>3. CASE Server!Errs(w)
  <2>1. PICK steps : /\ Server!Instead(w, steps)
                     /\ steps = <<>> \/ \E k \in DOMAIN Tail(l) : Tail(l)[k].do = "catch" /\ steps = Tail(l)[k].steps
    BY <1>1, <1>3 DEF Server!Errs, Server!Error, Server!Later, Underway
  <2>2. AreSteps(AreNeat, steps)
    <3>1. \A s : Neat(s) /\ s.do = "catch" => AreSteps(AreNeat, s.steps)
      BY NeatOne DEF Neat
    <3>. QED
      BY <1>1, <2>1, <3>1, NeatOne
  <2>. QED
    BY <1>1, <1>2, <2>1, <2>2, TypedGoesOn
<1>4. CASE ~Server!Errs(w)
  <2>1. Server!Proceed(w)
    BY <1>4 DEF Server!Fail, Server!GiveUp, Server!Pass
  <2>2. Server!Instead(w, Tail(l))
    BY <1>1, <2>1 DEF Server!Proceed, Server!Later, Underway
  <2>. QED
    BY <1>1, <1>2, <2>2, TypedGoesOn
<1>. QED
  BY <1>3, <1>4

LEMMA TypedCached ==
  ASSUME TypedInv, NEW w \in Worker
  PROVE  /\ ~Server!View(w) /\ ~Server!Look(w) /\ ~Server!ReadRows(w) /\ ~Server!Store(w) /\ ~Server!Invalidate(w)
         /\ ~Server!Omit(w)
<1>1. ASSUME NEW do \in {"resolve", "read", "fill", "forget", "overlook"}, Server!At(w, do)
      PROVE  FALSE
  <2>1. PICK o, l : Head(l).do = do /\ Neat(Head(l))
    BY <1>1, NeatUnderway
  <2>. QED
    BY <1>1, <2>1 DEF Neat
<1>2. ~Server!View(w)
  BY DEF Server!View, Key
<1>. QED
  BY <1>1, <1>2 DEF Server!Look, Server!ReadRows, Server!Store, Server!Invalidate, Server!Omit

LEMMA TypedStep ==
  ASSUME TypedInv, [Server!Next]_(Server!vars)
  PROVE  TypedInv'
<1>1. ASSUME NEW w \in Worker, Server!Begin(w) \/ Server!View(w) \/ Server!Step(w)
      PROVE  TypedInv'
  BY <1>1, TypedBegin, TypedExpand, TypedExecute, TypedFails, TypedCached DEF Server!Step
<1>2. CASE UNCHANGED Server!vars
  <2>1. worker' = worker /\ db' = db
    BY <1>2 DEF Server!vars
  <2>2. \A w \in Worker : Served(w)' /\ AreSteps(AreNeat, worker[w].todo)'
    BY <2>1 DEF TypedInv, Served, Underway, Server!Idle, AreSteps
  <2>. QED
    BY <2>1, <2>2 DEF TypedInv, Typed
<1>3. \A k \in Key : FALSE
  BY DEF Key
<1>. QED
  BY <1>1, <1>2, <1>3 DEF Server!Next

\* Whatever requests are under way, failed ones among them, the rows have the types the code
\* gives them.
LEMMA AlwaysTyped == Spec => []Typed(db)
<1>1. TypedInv => Typed(db)
  BY DEF TypedInv
<1>. QED
  BY <1>1, TypedInit, TypedStep, PTL DEF Spec, Server!Spec

----------------------------------------------------------------------------
\* What visitors are shown

\* Whatever requests are under way, failed ones among them, and however the database orders
\* equals: every link that a visitor is shown opens for him; what he may open is on the list of
\* the API and on the pages of its category and of those above it (on a list of one page; of
\* several, if nothing else on it is equal to it in the columns that it is ordered by); a tag
\* cloud counts what the page of the tag lists; and the site map has nothing that is not open to
\* him (internal/content, internal/api).
THEOREM ListsLeadOn == Spec => []LinksOpen
<1>1. NoneIsNoOrder
  BY ListingAssumption DEF NoneIsNoOrder
<1>2. Typed(db) => LinksOpen
  BY <1>1, LinksLead DEF LinksOpen
<1>. QED
  BY <1>2, AlwaysTyped, PTL

\* Whatever requests are under way, and however the database orders equals, on one page in one
\* way and on the next in another: the pages of a category or of what is featured are together as
\* long as the list and in the order of its columns; what nothing else is equal to in them is on
\* the pages once, at its place; and the first ones are leading, as many as the settings say,
\* wherever a page ends (ListItems, SplitCategoryLeadingItems; internal/content).
THEOREM PagesWhole == Spec => []PagesPartition
<1>1. NoneIsNoOrder
  BY ListingAssumption DEF NoneIsNoOrder
<1>2. Typed(db) => PagesPartition
  BY <1>1, PagesPart DEF PagesPartition
<1>. QED
  BY <1>2, AlwaysTyped, PTL

================================================================================
