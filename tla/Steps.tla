--------------------------------- MODULE Steps ---------------------------------
(***************************************************************************)
(* The steps a request is made of: statements of SQL, looks at a cache,    *)
(* invalidations, and the control between them.                            *)
(***************************************************************************)
EXTENDS Integers, FiniteSets, SequencesExt

\* A statement: rows go, rows come.  An update without rows to go is void.  A unique
\* index or a foreign key makes it fail where one of the rows in clash is there, or
\* none of a set in needs.  The handler may ignore that (~vital).
Statement == [do |-> "statement", drop |-> {}, add |-> {}, upsert |-> TRUE,
              clash |-> {}, needs |-> {}, vital |-> TRUE, sure |-> FALSE]
Delete(S) == [Statement EXCEPT !.drop = S]
Insert(row, S) == [Statement EXCEPT !.add = {row}, !.clash = S]
Link(S) == [Statement EXCEPT !.add = S]
Save(S, row) == [Statement EXCEPT !.drop = S, !.add = {row}]
Update(S, row) == [Save(S, row) EXCEPT !.upsert = FALSE]
Needing(N, s) == [s EXCEPT !.needs = N]
Unless(S, s) == [s EXCEPT !.clash = S]
Ignored(s) == [s EXCEPT !.vital = FALSE]
Memory(s) == [s EXCEPT !.sure = TRUE]   \* of what the process keeps, which cannot fail
Write(S, rows) == [Statement EXCEPT !.drop = S, !.add = rows]  \* or a transaction
Where(op) == [do |-> "where", op |-> op]       \* a statement whose WHERE the database answers

Call(op) == [do |-> "call", op |-> op]         \* read the database, go on as Plan says
Return == [do |-> "return"]                    \* an early return, with an error
Forget(K) == [do |-> "forget", keys |-> K]     \* drop what is cached
Overlook(K) == [do |-> "overlook", keys |-> K] \* here the code drops nothing
Catch(s) == [do |-> "catch", steps |-> s]      \* an error before this goes on with s
Resolve(k) == [do |-> "resolve", key |-> k]    \* look into the cache
Read(k) == [do |-> "read", key |-> k]
Fill(k, v) == [do |-> "fill", key |-> k, value |-> v]

\* The steps of a loop over a set.
ForEach(S, Body(_)) == LET s == SetToSeq(S) IN FlattenSeq([i \in DOMAIN s |-> Body(s[i])])
\* The same, where what is done for each is one step.
Each(S, Step(_)) == LET s == SetToSeq(S) IN [i \in DOMAIN s |-> Step(s[i])]
\* What is done with the row that a query finds, if it finds one.
TheFirst(S, Body(_)) == IF S = {} THEN <<>> ELSE Body(CHOOSE x \in S : TRUE)
When(b, steps) == IF b THEN steps ELSE <<>>

\* S in the order of its sorts, then of its ids: n-th is what n - 1 others come before.
Ordered(S, sort) ==
  LET before(x) == {y \in S : sort[y] < sort[x] \/ (sort[y] = sort[x] /\ y < x)}
  IN [n \in 1..Cardinality(S) |-> CHOOSE x \in S : Cardinality(before(x)) = n - 1]

\* list with x one place up (d = -1) or down; the list as it is if there is none.
Moved(list, x, d) ==
  LET k == CHOOSE i \in DOMAIN list : list[i] = x IN
  IF k + d \notin DOMAIN list THEN list
  ELSE [list EXCEPT ![k] = list[k + d], ![k + d] = x]

\* Where the numbers of a list are not those from 0 on, one place after the other.
Misnumbered(list, sort) ==
  LET wrong == {i \in DOMAIN list : sort[list[i]] # i - 1} IN Ordered(wrong, [i \in wrong |-> i])

\* The moved list is numbered from 0, where the numbers differ.
Renumber(list, x, d, sort, Number(_, _)) ==
  LET new == Moved(list, x, d)  at == Misnumbered(new, sort)
  IN IF new = list THEN <<>> ELSE [n \in DOMAIN at |-> Number(new[at[n]], at[n] - 1)]

================================================================================
