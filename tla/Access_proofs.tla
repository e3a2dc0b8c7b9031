----------------------------- MODULE Access_proofs -----------------------------
(***************************************************************************)
(* Proofs about Access, for any users, roles, groups and permissions, any  *)
(* number of goroutines and of failures: where the forms of roles and the  *)
(* restarts come one after the other, inheritance stays acyclic and the    *)
(* administrator whole, whatever is done to users and groups meanwhile;    *)
(* and, for any requests, a change that has ended shows in everybody's     *)
(* permissions and groups.                                                 *)
(***************************************************************************)
EXTENDS Access, FiniteSetTheorems, WellFoundedInduction, TLAPS

\* The forms of roles and the restarts of a site are the work of one goroutine, one after
\* another; all other requests may overlap each other and these.
OneForRoles(one) == \A w \in Worker \ {one} : \A op \in Does[w] : op[1] \notin {"roleForm", "boot"}

Acyclic(rows) == \A r \in Role : \A p \in Parents(r, rows) : r \notin Above(p, rows)
AcyclicAtStart == \A rows \in Start : Acyclic(rows)

\* A site that has been set up.
AdministratorActive == <<"role", Administrator, "active">>
AdministratorInactive == <<"role", Administrator, "inactive">>
AllowAll == <<"allow", Administrator, All>>
DenyAll == <<"deny", Administrator, All>>
Established ==
  \A rows \in Start : {AdministratorActive, AllowAll} \subseteq rows /\ {AdministratorInactive, DenyAll} \cap rows = {}

----------------------------------------------------------------------------
\* What may be among the steps of a request

\* A row that makes no role inherit, and nothing the administrator may or may not do.
IsGrant(row) == row[1] \in {"allow", "deny"} /\ row[2] = Administrator
Plain(row) ==
  row[1] # "inherits" /\ ~IsGrant(row) /\ (Established => row # AdministratorInactive)

StatementOk(s) ==
  /\ s.do = "statement"
  /\ \A row \in s.add : Plain(row)
  /\ \A row \in s.drop : ~IsGrant(row) /\ (Established /\ row = AdministratorActive => row \in s.add)
WhereOk(op) ==
  \/ op[1] \in {"tie", "tieAnyway"} /\ op[2] \in {"member", "holds", "gives"} /\ \A row \in op[4] : Plain(row)
  \/ op[1] = "save" /\ op[2] \in {"user", "group"} /\ \A row \in op[5] : Plain(row)

\* Parts of handlers; those that write grants and links are parts of role forms and restarts.
CallOk(mayRole, op) ==
  \/ op \in Request /\ (op[1] \in {"roleForm", "boot"} => mayRole)
  \/ op[1] \in {"gives", "member", "holds", "assigns", "hold", "grant", "role", "group", "flatten", "default",
                "everybody", "assign", "links", "keep"}
  \/ op[1] = "toggle" /\ op[2] = "role" /\ op[3] \notin System
  \/ op[1] = "append" /\ op[2] = Installer /\ op[3] \subseteq Perm
  \/ mayRole /\ op[1] = "grants" /\ op[3] \subseteq Perm /\ op[4] \subseteq Perm
  \/ mayRole /\ op[1] = "inherit" /\ op[2] \in Role /\ op[3] \subseteq Role
  \/ mayRole /\ op[1] \in {"seed", "seedGrants", "reset"} /\ op[2] \in System
  \/ mayRole /\ op[1] \in {"migrate", "wildcard"}

\* The grants of the administrator: none is All denied.
GrantStep(kind, p) ==
  Insert(<<kind, Administrator, p>>, {<<"allow", Administrator, p>>, <<"deny", Administrator, p>>})
AllowStep(p) == GrantStep("allow", p)
IsAllow(s) == \E p \in Perm : s = AllowStep(p)
IsDeny(s) == \E p \in Perm \ {All} : s = GrantStep("deny", p)
Wipe == Delete(Grants(Administrator))

SimpleOk(mayRole, s) ==
  \/ s.do = "call" /\ CallOk(mayRole, s.op)
  \/ s.do = "where" /\ WhereOk(s.op)
  \/ StatementOk(s)
  \/ mayRole /\ (IsAllow(s) \/ IsDeny(s))
  \/ s.do \in {"return", "forget", "overlook", "resolve", "read", "fill"}
SimpleList(mayRole, l) == \E S : l \in Seq(S) /\ \A s \in S : SimpleOk(mayRole, s)
StepOk(mayRole, s) ==
  \/ SimpleOk(mayRole, s)
  \/ s.do = "catch" /\ SimpleList(mayRole, s.steps)
ListOk(mayRole, l) == \E S : l \in Seq(S) /\ \A s \in S : StepOk(mayRole, s)

\* A list that begins with what makes c inherit from roles that are not below it.
IsLink(c, s, rows) ==
  \E p \in Role : c \notin Above(p, rows) /\ s = Insert(<<"inherits", c, p>>, {<<"inherits", c, p>>})
LinksFirst(l, c, n, rows) ==
  \A i \in DOMAIN l :
    \/ StepOk(TRUE, l[i]) /\ (i <= n => l[i].do = "statement")
    \/ i <= n /\ IsLink(c, l[i], rows)
LinkList(l, rows) == \E S : l \in Seq(S) /\ \E c \in Role : \E n \in Nat : LinksFirst(l, c, n, rows)

\* A list that, from step i to step k, allows the administrator this and that, and then everything.
Restores(l, i, k) ==
  /\ k \in DOMAIN l /\ i <= k /\ l[k] = AllowStep(All)
  /\ \A j \in i..k : IsAllow(l[j])
  /\ \A j, m \in i..k : l[j] = l[m] => j = m
WipeList(l) ==
  /\ \E S : l \in Seq(S)
  /\ l # <<>> /\ Head(l) = Wipe
  /\ ListOk(TRUE, Tail(l)) /\ \E k \in Nat : Restores(l, 2, k)

Well(mayRole, l, rows) == ListOk(mayRole, l) \/ (mayRole /\ (LinkList(l, rows) \/ WipeList(l)))

Mending(l, rows) == \E k \in Nat : Restores(l, 1, k) /\ \A j \in 1..k : l[j].clash \cap rows = {}

----------------------------------------------------------------------------
\* Lists

LEMMA ListIs ==
  ASSUME NEW may, NEW l, NEW S, l \in Seq(S), \A s \in S : StepOk(may, s)
  PROVE  ListOk(may, l)
BY DEF ListOk

LEMMA SimpleIs ==
  ASSUME NEW may, NEW l, NEW S, l \in Seq(S), \A s \in S : SimpleOk(may, s)
  PROVE  SimpleList(may, l)
BY DEF SimpleList

LEMMA ListEmpty ==
  ASSUME NEW may
  PROVE  ListOk(may, <<>>)
<1>. DEFINE S == {}
<1>1. <<>> \in Seq(S) /\ \A s \in S : StepOk(may, s)
  OBVIOUS
<1>. HIDE DEF S
<1>. QED
  BY <1>1, ListIs

LEMMA ListOf ==
  ASSUME NEW may, NEW a, StepOk(may, a)
  PROVE  ListOk(may, <<a>>)
<1>. DEFINE S == {a}
<1>1. <<a>> \in Seq(S) /\ \A s \in S : StepOk(may, s)
  OBVIOUS
<1>. HIDE DEF S
<1>. QED
  BY <1>1, ListIs

LEMMA ListOfTwo ==
  ASSUME NEW may, NEW a, NEW b, StepOk(may, a), StepOk(may, b)
  PROVE  ListOk(may, <<a, b>>)
<1>. DEFINE S == {a, b}
<1>1. <<a, b>> \in Seq(S) /\ \A s \in S : StepOk(may, s)
  OBVIOUS
<1>. HIDE DEF S
<1>. QED
  BY <1>1, ListIs

LEMMA ListOfThree ==
  ASSUME NEW may, NEW a, NEW b, NEW c, StepOk(may, a), StepOk(may, b), StepOk(may, c)
  PROVE  ListOk(may, <<a, b, c>>)
<1>. DEFINE S == {a, b, c}
<1>1. <<a, b, c>> \in Seq(S) /\ \A s \in S : StepOk(may, s)
  OBVIOUS
<1>. HIDE DEF S
<1>. QED
  BY <1>1, ListIs

LEMMA ListOfFour ==
  ASSUME NEW may, NEW a, NEW b, NEW c, NEW d,
         StepOk(may, a), StepOk(may, b), StepOk(may, c), StepOk(may, d)
  PROVE  ListOk(may, <<a, b, c, d>>)
<1>. DEFINE S == {a, b, c, d}
<1>1. <<a, b, c, d>> \in Seq(S) /\ \A s \in S : StepOk(may, s)
  OBVIOUS
<1>. HIDE DEF S
<1>. QED
  BY <1>1, ListIs

LEMMA ListOfFive ==
  ASSUME NEW may, NEW a, NEW b, NEW c, NEW d, NEW e,
         StepOk(may, a), StepOk(may, b), StepOk(may, c), StepOk(may, d), StepOk(may, e)
  PROVE  ListOk(may, <<a, b, c, d, e>>)
<1>. DEFINE S == {a, b, c, d, e}
<1>1. <<a, b, c, d, e>> \in Seq(S) /\ \A s \in S : StepOk(may, s)
  OBVIOUS
<1>. HIDE DEF S
<1>. QED
  BY <1>1, ListIs

LEMMA SimpleOf ==
  ASSUME NEW may, NEW a, SimpleOk(may, a)
  PROVE  SimpleList(may, <<a>>)
<1>. DEFINE S == {a}
<1>1. <<a>> \in Seq(S) /\ \A s \in S : SimpleOk(may, s)
  OBVIOUS
<1>. HIDE DEF S
<1>. QED
  BY <1>1, SimpleIs

LEMMA SimpleOfTwo ==
  ASSUME NEW may, NEW a, NEW b, SimpleOk(may, a), SimpleOk(may, b)
  PROVE  SimpleList(may, <<a, b>>)
<1>. DEFINE S == {a, b}
<1>1. <<a, b>> \in Seq(S) /\ \A s \in S : SimpleOk(may, s)
  OBVIOUS
<1>. HIDE DEF S
<1>. QED
  BY <1>1, SimpleIs

LEMMA SimpleConcat ==
  ASSUME NEW may, NEW l, NEW m, SimpleList(may, l), SimpleList(may, m)
  PROVE  SimpleList(may, l \o m)
<1>1. PICK S : l \in Seq(S) /\ \A s \in S : SimpleOk(may, s)
  BY DEF SimpleList
<1>2. PICK T : m \in Seq(T) /\ \A s \in T : SimpleOk(may, s)
  BY DEF SimpleList
<1>3. l \o m \in Seq(S \cup T)
  <2>1. l \in Seq(S \cup T) /\ m \in Seq(S \cup T)
    BY <1>1, <1>2
  <2>. QED
    BY <2>1
<1>. QED
  BY <1>1, <1>2, <1>3 DEF SimpleList

LEMMA ListConcat ==
  ASSUME NEW may, NEW l, NEW m, ListOk(may, l), ListOk(may, m)
  PROVE  ListOk(may, l \o m)
<1>1. PICK S : l \in Seq(S) /\ \A s \in S : StepOk(may, s)
  BY DEF ListOk
<1>2. PICK T : m \in Seq(T) /\ \A s \in T : StepOk(may, s)
  BY DEF ListOk
<1>3. l \o m \in Seq(S \cup T)
  <2>1. l \in Seq(S \cup T) /\ m \in Seq(S \cup T)
    BY <1>1, <1>2
  <2>. QED
    BY <2>1
<1>. QED
  BY <1>1, <1>2, <1>3 DEF ListOk

LEMMA ListWhen ==
  ASSUME NEW may, NEW b, NEW l, b => ListOk(may, l)
  PROVE  ListOk(may, When(b, l))
BY ListEmpty DEF When

LEMMA ListTail ==
  ASSUME NEW may, NEW l, ListOk(may, l), l # <<>>
  PROVE  StepOk(may, Head(l)) /\ ListOk(may, Tail(l))
<1>1. PICK S : l \in Seq(S) /\ \A s \in S : StepOk(may, s)
  BY DEF ListOk
<1>2. Head(l) \in S /\ Tail(l) \in Seq(S)
  BY <1>1
<1>. QED
  BY <1>1, <1>2 DEF ListOk

LEMMA ListAt ==
  ASSUME NEW may, NEW l, ListOk(may, l), NEW i \in DOMAIN l
  PROVE  StepOk(may, l[i])
BY DEF ListOk

LEMMA SimpleIsList ==
  ASSUME NEW may, NEW l, SimpleList(may, l)
  PROVE  ListOk(may, l)
BY DEF SimpleList, ListOk, StepOk

\* The elements of a finite set, in some order, each once.
LEMMA SetToSeqIs ==
  ASSUME NEW S, IsFiniteSet(S)
  PROVE  /\ SetToSeq(S) \in Seq(S)
         /\ \A i, j \in DOMAIN SetToSeq(S) : SetToSeq(S)[i] = SetToSeq(S)[j] => i = j
         /\ \A x \in S : \E i \in DOMAIN SetToSeq(S) : SetToSeq(S)[i] = x
<1>. DEFINE n == Cardinality(S)
            s == SetToSeq(S)
<1>1. n \in Nat /\ ExistsBijection(1..n, S)
  BY FS_CardinalityType
<1>2. \E f \in [1..n -> S] : IsInjective(f)
  BY <1>1 DEF ExistsBijection, Bijection, Injection
<1>3. s \in [1..n -> S] /\ IsInjective(s)
  BY <1>2 DEF SetToSeq
<1>4. s \in Injection(1..n, S)
  BY <1>3 DEF Injection
<1>5. Cardinality(1..n) = n
  BY <1>1, FS_Interval
<1>6. s \in Surjection(1..n, S)
  BY <1>1, <1>4, <1>5, FS_Injection
<1>. HIDE DEF s
<1>7. s \in Seq(S)
  BY <1>1, <1>3
<1>8. DOMAIN s = 1..n
  BY <1>3
<1>. QED
  BY <1>3, <1>6, <1>7, <1>8 DEF IsInjective, Surjection, s

\* The steps of a loop, where each of them is as it may be.
LEMMA EachOk ==
  ASSUME NEW may, NEW S, IsFiniteSet(S), NEW f, DOMAIN f = DOMAIN SetToSeq(S), f = [i \in DOMAIN f |-> f[i]],
         \A i \in DOMAIN f : StepOk(may, f[i])
  PROVE  ListOk(may, f)
<1>. DEFINE T == {f[i] : i \in DOMAIN f}
            s == SetToSeq(S)
<1>1. s \in Seq(S)
  BY SetToSeqIs
<1>. HIDE DEF s
<1>2. DOMAIN f = 1..Len(s) /\ Len(s) \in Nat
  BY <1>1 DEF s
<1>3. f \in Seq(T)
  BY <1>2
<1>. QED
  BY <1>3 DEF ListOk

----------------------------------------------------------------------------
\* Steps

LEMMA CallStep ==
  ASSUME NEW may, NEW op, CallOk(may, op)
  PROVE  SimpleOk(may, Call(op)) /\ StepOk(may, Call(op))
BY DEF Call, SimpleOk, StepOk

LEMMA WhereStep ==
  ASSUME NEW may, NEW op, WhereOk(op)
  PROVE  StepOk(may, Where(op))
BY DEF Where, SimpleOk, StepOk

LEMMA StatementStep ==
  ASSUME NEW may, NEW s, StatementOk(s)
  PROVE  StepOk(may, s)
BY DEF SimpleOk, StepOk

LEMMA OtherStep ==
  ASSUME NEW may, NEW K
  PROVE  /\ SimpleOk(may, Return) /\ StepOk(may, Return)
         /\ StepOk(may, Forget(K)) /\ StepOk(may, Overlook(K)) /\ StepOk(may, Resolve(K))
         /\ StepOk(may, Read(K))
BY DEF Return, Forget, Overlook, Resolve, Read, SimpleOk, StepOk

LEMMA NothingStep ==
  ASSUME NEW may
  PROVE  StepOk(may, Other) /\ StepOk(may, Ignored(Other))
<1>1. StatementOk(Other) /\ StatementOk(Ignored(Other))
  BY DEF Other, Statement, Ignored, StatementOk
<1>. QED
  BY <1>1, StatementStep

LEMMA DeleteStep ==
  ASSUME NEW may, NEW S, \A row \in S : ~IsGrant(row) /\ row # AdministratorActive
  PROVE  StatementOk(Delete(S)) /\ StepOk(may, Delete(S))
<1>1. StatementOk(Delete(S))
  BY DEF Delete, Statement, StatementOk
<1>. QED
  BY <1>1, StatementStep

LEMMA ExpungeStep ==
  ASSUME NEW may, NEW S, NEW T, \A row \in S : ~IsGrant(row) /\ row # AdministratorActive
  PROVE  StepOk(may, Unless(T, Delete(S)))
<1>1. StatementOk(Unless(T, Delete(S)))
  BY DEF Delete, Statement, Unless, StatementOk
<1>. QED
  BY <1>1, StatementStep

LEMMA InsertStep ==
  ASSUME NEW may, NEW row, NEW S, Plain(row)
  PROVE  StepOk(may, Insert(row, S))
<1>1. StatementOk(Insert(row, S))
  BY DEF Insert, Statement, StatementOk
<1>. QED
  BY <1>1, StatementStep

LEMMA SaveStep ==
  ASSUME NEW may, NEW S, NEW row, Plain(row),
         \A old \in S : ~IsGrant(old) /\ (Established /\ old = AdministratorActive => old = row)
  PROVE  StepOk(may, Save(S, row))
<1>1. StatementOk(Save(S, row))
  BY DEF Save, Statement, StatementOk
<1>. QED
  BY <1>1, StatementStep

LEMMA LinksAre ==
  ASSUME NEW what, NEW X, NEW Y, what \notin {"allow", "deny", "role"}
  PROVE  \A row \in Links(what, X, Y) : ~IsGrant(row) /\ row # AdministratorActive
BY DEF Links, IsGrant, AdministratorActive

LEMMA DeleteLinks ==
  ASSUME NEW may, NEW what, NEW X, NEW Y, what \notin {"allow", "deny", "role"}
  PROVE  StepOk(may, Delete(Links(what, X, Y)))
BY LinksAre, DeleteStep

\* A row that says in what status x is.
LEMMA StatusPlain ==
  ASSUME NEW what, NEW x, NEW s, what \in {"user", "group", "role"},
         Established /\ what = "role" /\ x = Administrator => s # "inactive"
  PROVE  Plain(<<what, x, s>>)
BY DEF Plain, IsGrant, AdministratorInactive

LEMMA StatusOld ==
  ASSUME NEW what, NEW x, what \in {"user", "group", "role"}
  PROVE  \A old \in AnyStatus(what, x) :
           ~IsGrant(old) /\ (old = AdministratorActive => what = "role" /\ x = Administrator)
BY DEF AnyStatus, IsGrant, AdministratorActive

LEMMA SaveStatus ==
  ASSUME NEW may, NEW what, NEW x, NEW s, what \in {"user", "group", "role"},
         Established /\ what = "role" /\ x = Administrator => s = "active"
  PROVE  StepOk(may, Save(AnyStatus(what, x), <<what, x, s>>))
<1>1. Plain(<<what, x, s>>)
  BY StatusPlain
<1>2. \A old \in AnyStatus(what, x) : ~IsGrant(old) /\ (Established /\ old = AdministratorActive => old = <<what, x, s>>)
  BY StatusOld DEF AdministratorActive
<1>. QED
  BY <1>1, <1>2, SaveStep

\* What the rows may not hold.
RowsOk(rows) == Established => AdministratorActive \in rows /\ AdministratorInactive \notin rows

LEMMA ReadRow ==
  ASSUME NEW rows, RowsOk(rows), NEW what, NEW x, what \in {"user", "group", "role"}
  PROVE  \A row \in rows \cap AnyStatus(what, x) : Plain(row)
BY DEF RowsOk, AnyStatus, Plain, IsGrant

LEMMA AssociationStep ==
  ASSUME NEW may, NEW rows, RowsOk(rows), NEW what, what \in {"member", "holds", "gives"}, NEW x, NEW Y,
         NEW kind, kind \in {"user", "group", "role"}
  PROVE  StepOk(may, Association(what, x, rows \cap UNION {AnyStatus(kind, y) : y \in Y}))
<1>. DEFINE read == rows \cap UNION {AnyStatus(kind, y) : y \in Y}
<1>1. \A row \in read : Plain(row)
  BY ReadRow
<1>. HIDE DEF read
<1>2. WhereOk(<<"tie", what, x, read>>)
  BY <1>1 DEF WhereOk
<1>. QED
  BY <1>2, WhereStep DEF Association, read

LEMMA AssociationOne ==
  ASSUME NEW may, NEW rows, RowsOk(rows), NEW what, what \in {"member", "holds", "gives"}, NEW x, NEW y,
         NEW kind, kind \in {"user", "group", "role"}
  PROVE  /\ StepOk(may, Association(what, x, rows \cap AnyStatus(kind, y)))
         /\ StepOk(may, Where(<<"tieAnyway", what, x, rows \cap AnyStatus(kind, y)>>))
<1>. DEFINE read == rows \cap AnyStatus(kind, y)
<1>1. \A row \in read : Plain(row)
  BY ReadRow
<1>. HIDE DEF read
<1>2. WhereOk(<<"tie", what, x, read>>) /\ WhereOk(<<"tieAnyway", what, x, read>>)
  BY <1>1 DEF WhereOk
<1>. QED
  BY <1>2, WhereStep DEF Association, read

LEMMA JoinsAre ==
  /\ JoinsOf("user") = {"member", "holds"} /\ JoinsOf("group") = {"gives"} /\ JoinsOf("role") = {}
  /\ Joins["member"] = <<"user", "group">> /\ Joins["holds"] = <<"user", "role">> /\ Joins["gives"] = <<"group", "role">>
BY DEF JoinsOf, Joins

LEMMA SaveLoadedOk ==
  ASSUME NEW may, NEW rows, RowsOk(rows), NEW what, what \in {"user", "group"}, NEW x, NEW s
  PROVE  StepOk(may, SaveLoaded(what, x, s, rows))
<1>. DEFINE read == Preload(what, x, rows)
<1>1. \A row \in read : row \in rows /\ row[1] \in {"group", "role"}
  <2>1. \A j \in JoinsOf(what) : Joins[j][2] \in {"group", "role"}
    BY JoinsAre
  <2>2. \A kind, y : \A row \in AnyStatus(kind, y) : row[1] = kind
    BY DEF AnyStatus
  <2>. QED
    BY <2>1, <2>2 DEF Preload
<1>2. \A row \in read : Plain(row)
  BY <1>1 DEF RowsOk, Plain, IsGrant
<1>. HIDE DEF read
<1>3. WhereOk(<<"save", what, x, s, read>>)
  BY <1>2 DEF WhereOk
<1>. QED
  BY <1>3, WhereStep DEF SaveLoaded, read

LEMMA ReplaceOk ==
  ASSUME NEW may, NEW rows, RowsOk(rows), NEW what, what \in {"member", "holds", "gives"}, NEW x, NEW Y, NEW new
  PROVE  ListOk(may, Replace(what, x, Y, new, rows))
<1>1. Joins[what][2] \in {"user", "group", "role"}
  BY DEF Joins
<1>. DEFINE kind == Joins[what][2]
            first == Association(what, x, rows \cap UNION {AnyStatus(kind, y) : y \in new})
<1>2. StepOk(may, first)
  BY <1>1, AssociationStep
<1>. HIDE DEF first
<1>3. ListOk(may, When(new # {}, <<first>>))
  BY <1>2, ListOf, ListWhen
<1>4. ListOk(may, <<Delete(Links(what, {x}, Y \ new))>>)
  BY DeleteLinks, ListOf
<1>. QED
  BY <1>3, <1>4, ListConcat DEF Replace, first

LEMMA ToggleOk ==
  ASSUME NEW may, NEW rows, NEW what, NEW x, what \in {"user", "group"} \/ (what = "role" /\ x \notin System)
  PROVE  ListOk(may, Toggle(what, x, rows))
<1>. DEFINE s == IF Is(x, what, rows) THEN "inactive" ELSE "active"
<1>1. StepOk(may, Save(AnyStatus(what, x), <<what, x, s>>))
  BY SaveStatus, AccessRolesAssumption
<1>. QED
  BY <1>1, ListOf DEF Toggle

----------------------------------------------------------------------------
\* The grants of a role

LEMMA GrantsOfOther ==
  ASSUME NEW may, NEW r, r # Administrator, NEW A \in SUBSET Perm, NEW D \in SUBSET Perm
  PROVE  ListOk(may, SaveRolePermissions(r, A, D))
<1>. DEFINE one(kind, p) == Insert(<<kind, r, p>>, {<<"allow", r, p>>, <<"deny", r, p>>})
            a == SetToSeq(A)
            d == SetToSeq(D)
            allow == [i \in DOMAIN a |-> one("allow", a[i])]
            deny == [i \in DOMAIN d |-> IF d[i] \in A THEN Return ELSE one("deny", d[i])]
<1>1. ASSUME NEW kind \in {"allow", "deny"}, NEW p
      PROVE  StepOk(may, one(kind, p))
  <2>1. Plain(<<kind, r, p>>)
    BY DEF Plain, IsGrant, AdministratorInactive
  <2>. QED
    BY <2>1, InsertStep
<1>2. IsFiniteSet(A) /\ IsFiniteSet(D)
  BY AccessFiniteAssumption, FS_Subset
<1>. HIDE DEF one
<1>3. ListOk(may, allow)
  <2>1. \A i \in DOMAIN allow : StepOk(may, allow[i])
    BY <1>1
  <2>. QED
    BY <1>2, <2>1, EachOk
<1>4. ListOk(may, deny)
  <2>1. \A i \in DOMAIN deny : StepOk(may, deny[i])
    BY <1>1, OtherStep
  <2>. QED
    BY <1>2, <2>1, EachOk
<1>5. ListOk(may, <<Delete(Grants(r))>>)
  <2>1. \A row \in Grants(r) : ~IsGrant(row) /\ row # AdministratorActive
    BY DEF Grants, Links, IsGrant, AdministratorActive
  <2>. QED
    BY <2>1, DeleteStep, ListOf
<1>6. SaveRolePermissions(r, A, D) = <<Delete(Grants(r))>> \o allow \o deny
  BY DEF SaveRolePermissions, Each, one
<1>. HIDE DEF allow, deny
<1>. QED
  BY <1>3, <1>4, <1>5, <1>6, ListConcat

\* The administrator has every grant taken, and gets All back before anything can fail.
LEMMA GrantsOfAdministrator ==
  ASSUME NEW A \in SUBSET Perm, NEW D \in SUBSET Perm, All \in A
  PROVE  WipeList(SaveRolePermissions(Administrator, A, D))
<1>. DEFINE a == SetToSeq(A)
            d == SetToSeq(D)
            allow == [i \in DOMAIN a |-> GrantStep("allow", a[i])]
            deny == [i \in DOMAIN d |-> IF d[i] \in A THEN Return ELSE GrantStep("deny", d[i])]
            list == SaveRolePermissions(Administrator, A, D)
<1>1. IsFiniteSet(A) /\ IsFiniteSet(D)
  BY AccessFiniteAssumption, FS_Subset
<1>2. /\ a \in Seq(A) /\ \A i, j \in DOMAIN a : a[i] = a[j] => i = j
      /\ \E i \in DOMAIN a : a[i] = All
  BY <1>1, SetToSeqIs
<1>3. d \in Seq(D)
  BY <1>1, SetToSeqIs
<1>4. list = <<Wipe>> \o allow \o deny
  BY DEF SaveRolePermissions, Each, GrantStep, Wipe
<1>. HIDE DEF a, d, list
<1>5. /\ DOMAIN allow = DOMAIN a /\ DOMAIN a = 1..Len(a) /\ Len(a) \in Nat
      /\ \A i \in DOMAIN a : a[i] \in Perm /\ allow[i] = AllowStep(a[i])
  BY <1>2 DEF AllowStep
<1>6. \A i \in DOMAIN a : IsAllow(allow[i])
  BY <1>5 DEF IsAllow
<1>7. ListOk(TRUE, allow)
  <2>1. \A i \in DOMAIN allow : StepOk(TRUE, allow[i])
    BY <1>5, <1>6 DEF StepOk, SimpleOk
  <2>. QED
    BY <1>1, <2>1, EachOk DEF a
<1>8. ListOk(TRUE, deny)
  <2>1. \A i \in DOMAIN d : d[i] \in Perm /\ (d[i] \notin A => d[i] # All)
    BY <1>3
  <2>2. \A i \in DOMAIN deny : deny[i] = Return \/ IsDeny(deny[i])
    BY <2>1 DEF IsDeny
  <2>3. \A i \in DOMAIN deny : StepOk(TRUE, deny[i])
    BY <2>2, OtherStep DEF StepOk, SimpleOk
  <2>. QED
    BY <1>1, <2>3, EachOk DEF d
<1>9. \A p, q : AllowStep(p) = AllowStep(q) => p = q
  <2>. SUFFICES ASSUME NEW p, NEW q, AllowStep(p) = AllowStep(q) PROVE p = q
    OBVIOUS
  <2>1. AllowStep(p).add = {<<"allow", Administrator, p>>} /\ AllowStep(q).add = {<<"allow", Administrator, q>>}
    BY DEF AllowStep, GrantStep, Insert, Statement
  <2>2. <<"allow", Administrator, p>> = <<"allow", Administrator, q>>
    BY <2>1
  <2>. QED
    BY <2>2
<1>10. PICK n \in DOMAIN a : a[n] = All
  BY <1>2
<1>. HIDE DEF allow, deny
<1>11. PICK S, T : allow \in Seq(S) /\ deny \in Seq(T)
  BY <1>7, <1>8 DEF ListOk
<1>12. /\ Head(list) = Wipe /\ list # <<>> /\ Tail(list) = allow \o deny
       /\ list \in Seq({Wipe} \cup S \cup T)
  <2>. DEFINE U == {Wipe} \cup S \cup T
  <2>1. <<Wipe>> \in Seq(U) /\ allow \in Seq(U) /\ deny \in Seq(U)
    BY <1>11
  <2>. HIDE DEF U
  <2>. QED
    BY <1>4, <2>1 DEF U
<1>13. /\ Len(allow) = Len(a) /\ n \in 1..Len(a) /\ n + 1 \in DOMAIN list
       /\ \A i \in 2..n + 1 : i - 1 \in DOMAIN a /\ list[i] = allow[i - 1]
  <2>1. Len(allow) = Len(a) /\ n \in 1..Len(a)
    BY <1>5, <1>10, <1>11
  <2>2. allow \o deny \in Seq(S \cup T) /\ Len(allow \o deny) >= Len(a)
        /\ \A i \in 1..Len(a) : (allow \o deny)[i] = allow[i]
    <3>1. allow \in Seq(S \cup T) /\ deny \in Seq(S \cup T)
      BY <1>11
    <3>. QED
      BY <1>5, <2>1, <3>1
  <2>. DEFINE rest == allow \o deny
  <2>. HIDE DEF rest
  <2>3. list = <<Wipe>> \o rest
    <3>. DEFINE U == {Wipe} \cup S \cup T
    <3>1. <<Wipe>> \in Seq(U) /\ allow \in Seq(U) /\ deny \in Seq(U)
      BY <1>11
    <3>. HIDE DEF U
    <3>. QED
      BY <1>4, <3>1 DEF rest
  <2>4. Len(list) = Len(rest) + 1 /\ \A i \in 2..Len(list) : list[i] = rest[i - 1]
    <3>. DEFINE U == {Wipe} \cup S \cup T
    <3>1. <<Wipe>> \in Seq(U) /\ Len(<<Wipe>>) = 1
      OBVIOUS
    <3>2. rest \in Seq(U)
      BY <2>2 DEF rest
    <3>. HIDE DEF U
    <3>. QED
      BY <2>3, <3>1, <3>2
  <2>. QED
    BY <1>5, <1>12, <2>1, <2>2, <2>4 DEF rest
<1>14. Restores(list, 2, n + 1)
  <2>1. 2 <= n + 1 /\ list[n + 1] = AllowStep(All)
    BY <1>5, <1>10, <1>13
  <2>2. \A j \in 2..n + 1 : IsAllow(list[j])
    BY <1>6, <1>13
  <2>3. ASSUME NEW j \in 2..n + 1, NEW m \in 2..n + 1, list[j] = list[m]
        PROVE  j = m
    <3>1. list[j] = AllowStep(a[j - 1]) /\ list[m] = AllowStep(a[m - 1]) /\ j - 1 \in DOMAIN a /\ m - 1 \in DOMAIN a
      BY <1>5, <1>13
    <3>2. a[j - 1] = a[m - 1]
      BY <1>9, <2>3, <3>1
    <3>3. j - 1 = m - 1
      BY <1>2, <3>1, <3>2
    <3>. QED
      BY <3>3
  <2>. QED
    BY <1>13, <2>1, <2>2, <2>3 DEF Restores
<1>15. ListOk(TRUE, Tail(list)) /\ n + 1 \in Nat
  <2>1. ListOk(TRUE, allow \o deny)
    BY <1>7, <1>8, ListConcat
  <2>2. ListOk(TRUE, Tail(list))
    BY <1>12, <2>1
  <2>3. n + 1 \in Nat
    BY <1>5, <1>10
  <2>. QED
    BY <2>2, <2>3
<1>. QED
  BY <1>12, <1>14, <1>15 DEF WipeList, list

\* A list may be put before what is to come later.
LEMMA WellConcat ==
  ASSUME NEW may, NEW rows, NEW l, NEW m, Well(may, l, rows), ListOk(may, m), may \in BOOLEAN
  PROVE  Well(may, l \o m, rows)
<1>1. PICK T : m \in Seq(T) /\ \A s \in T : StepOk(may, s)
  BY DEF ListOk
<1>2. CASE ListOk(may, l)
  BY <1>2, ListConcat DEF Well
<1>3. CASE may /\ LinkList(l, rows)
  <2>0. PICK S : l \in Seq(S)
    BY <1>3 DEF LinkList
  <2>1. PICK c \in Role, n \in Nat : LinksFirst(l, c, n, rows)
    BY <1>3 DEF LinkList
  <2>2. l \o m \in Seq(S \cup T)
    <3>1. l \in Seq(S \cup T) /\ m \in Seq(S \cup T)
      BY <1>1, <2>0, <2>1
    <3>. QED
      BY <3>1
  <2>. DEFINE k == IF n <= Len(l) THEN n ELSE Len(l)
  <2>3. k \in Nat
    BY <2>0, <2>1
  <2>4. ASSUME NEW i \in DOMAIN (l \o m)
        PROVE  \/ StepOk(TRUE, (l \o m)[i]) /\ (i <= k => (l \o m)[i].do = "statement")
               \/ i <= k /\ IsLink(c, (l \o m)[i], rows)
    <3>1. CASE i <= Len(l)
      <4>1. (l \o m)[i] = l[i] /\ i \in DOMAIN l /\ (i <= n => i <= k) /\ (i <= k => i <= n)
        BY <1>1, <2>0, <2>1, <3>1
      <4>. QED
        BY <2>1, <4>1 DEF LinksFirst
    <3>2. CASE i > Len(l)
      <4>1. (l \o m)[i] = m[i - Len(l)] /\ i - Len(l) \in DOMAIN m /\ ~(i <= k)
        BY <1>1, <2>0, <2>1, <3>2
      <4>2. StepOk(may, m[i - Len(l)])
        BY <1>1, <4>1
      <4>. QED
        BY <1>3, <4>1, <4>2
    <3>3. i <= Len(l) \/ i > Len(l)
      <4>1. i \in Nat /\ Len(l) \in Nat
        BY <1>1, <2>0
      <4>. QED
        BY <4>1
    <3>. QED
      BY <3>1, <3>2, <3>3
  <2>5. LinkList(l \o m, rows)
    BY <2>2, <2>3, <2>4 DEF LinkList, LinksFirst
  <2>. QED
    BY <1>3, <2>5 DEF Well
<1>4. CASE may /\ WipeList(l)
  <2>1. PICK k \in Nat : Restores(l, 2, k)
    BY <1>4 DEF WipeList
  <2>2. l # <<>> /\ Head(l) = Wipe /\ ListOk(TRUE, Tail(l))
    BY <1>4 DEF WipeList
  <2>3. PICK S : l \in Seq(S)
    BY <1>4 DEF WipeList
  <2>4. l \in Seq(S \cup T) /\ m \in Seq(S \cup T)
    BY <1>1, <2>3
  <2>5. /\ l \o m \in Seq(S \cup T) /\ l \o m # <<>> /\ Head(l \o m) = Wipe
        /\ Tail(l \o m) = Tail(l) \o m
        /\ \A i \in DOMAIN l : i \in DOMAIN (l \o m) /\ (l \o m)[i] = l[i]
        /\ DOMAIN l = 1..Len(l) /\ Len(l) \in Nat
    BY <2>2, <2>4
  <2>6. Restores(l \o m, 2, k)
    <3>1. \A i \in 2..k : i \in DOMAIN l
      BY <2>1, <2>5 DEF Restores
    <3>. QED
      BY <2>1, <2>5, <3>1 DEF Restores
  <2>7. ListOk(TRUE, Tail(l \o m))
    BY <1>4, <2>2, <2>5, ListConcat
  <2>8. WipeList(l \o m)
    BY <2>5, <2>6, <2>7 DEF WipeList
  <2>. QED
    BY <1>4, <2>8 DEF Well
<1>. QED
  BY <1>2, <1>3, <1>4 DEF Well
----------------------------------------------------------------------------
\* Handlers

LEMMA SystemFinite == IsFiniteSet(System) /\ IsFiniteSet(DOMAIN Defaults)
BY AccessFiniteAssumption, AccessRolesAssumption, AccessGroupsAssumption, FS_Subset

LEMMA RoleFormOk ==
  ASSUME NEW rows, RowsOk(rows), NEW r \in Role, NEW s \in Status, NEW A \in SUBSET Perm, NEW D \in SUBSET Perm,
         NEW P \in SUBSET Role
  PROVE  ListOk(TRUE, RoleForm(r, s, A, D, P, rows))
<1>. DEFINE status == IF r \notin System THEN s ELSE IF Is(r, "role", rows) THEN "active" ELSE "inactive"
            save == Save(AnyStatus("role", r), <<"role", r, status>>)
            grants == Call(<<"grants", r, A, D>>)
            inherit == Call(<<"inherit", r, P>>)
<1>1. Established /\ r = Administrator => status = "active"
  BY AccessRolesAssumption DEF RowsOk, Is, AdministratorActive
<1>. HIDE DEF status
<1>2. StepOk(TRUE, save)
  <2>1. "role" \in {"user", "group", "role"}
    OBVIOUS
  <2>2. Established /\ "role" = "role" /\ r = Administrator => status = "active"
    BY <1>1
  <2>3. ASSUME NEW may PROVE StepOk(may, save)
    BY <2>1, <2>2, SaveStatus
  <2>. QED
    BY <2>3
<1>3. StepOk(TRUE, grants) /\ StepOk(TRUE, inherit)
  BY CallStep DEF CallOk
<1>. HIDE DEF save, grants, inherit
<1>4. ListOk(TRUE, <<save, grants, inherit, Other, Forget(Key)>>)
  BY <1>2, <1>3, NothingStep, OtherStep, ListOfFive
<1>5. RoleForm(r, s, A, D, P, rows) = When(r \in System => Exists(r, "role", rows), <<save, grants, inherit, Other, Forget(Key)>>)
  BY DEF RoleForm, save, grants, inherit, status
<1>. QED
  BY <1>4, <1>5, ListWhen

LEMMA GrantsFormOk ==
  ASSUME NEW rows, NEW r, NEW A \in SUBSET Perm, NEW D \in SUBSET Perm
  PROVE  Well(TRUE, GrantsForm(r, A, D, rows), rows)
<1>. DEFINE listed == {p \in Perm : p # All \/ {<<"allow", r, p>>, <<"deny", r, p>>} \cap rows # {}}
            wildcard == IF r = Administrator THEN {All} ELSE {}
            allows == (A \cap listed) \cup wildcard
            denies == D \cap listed
<1>1. All \in Perm
  BY AccessRolesAssumption
<1>2. GrantsForm(r, A, D, rows) = SaveRolePermissions(r, allows, denies)
  BY DEF GrantsForm
<1>3. allows \in SUBSET Perm /\ denies \in SUBSET Perm /\ (r = Administrator => All \in allows)
  BY <1>1
<1>. HIDE DEF allows, denies
<1>. QED
  BY <1>2, <1>3, GrantsOfAdministrator, GrantsOfOther DEF Well

\* The grants a built-in role comes with.
LEMMA BuiltInOk ==
  ASSUME NEW rows, NEW r \in System
  PROVE  Well(TRUE, SaveRolePermissions(r, BuiltIn[r].allows, {}), rows)
<1>1. BuiltIn[r].allows \in SUBSET Perm /\ {} \in SUBSET Perm
  BY AccessRolesAssumption
<1>2. r = Administrator => All \in BuiltIn[r].allows
  BY AccessRolesAssumption
<1>. QED
  BY <1>1, <1>2, GrantsOfAdministrator, GrantsOfOther DEF Well

LEMMA SeedOk ==
  ASSUME NEW rows, NEW r \in System
  PROVE  /\ ListOk(TRUE, Seed(r)) /\ Well(TRUE, SeedPermissions(r, rows), rows) /\ Well(TRUE, Reset(r, rows), rows)
<1>1. r \in Role /\ BuiltIn[r].parents \subseteq Role
  BY AccessRolesAssumption
<1>2. CallOk(TRUE, <<"inherit", r, BuiltIn[r].parents>>) /\ CallOk(TRUE, <<"seedGrants", r>>)
  BY <1>1 DEF CallOk
<1>3. ListOk(TRUE, Seed(r))
  BY <1>2, CallStep, ListOfTwo DEF Seed
<1>4. Well(TRUE, SeedPermissions(r, rows), rows)
  BY BuiltInOk, ListEmpty DEF SeedPermissions, When, Well
<1>5. ListOk(TRUE, <<Call(<<"inherit", r, {p \in BuiltIn[r].parents : Exists(p, "role", rows)}>>)>>)
  <2>. DEFINE P == {p \in BuiltIn[r].parents : Exists(p, "role", rows)}
  <2>1. P \subseteq Role
    BY <1>1
  <2>. HIDE DEF P
  <2>2. CallOk(TRUE, <<"inherit", r, P>>)
    BY <1>1, <2>1 DEF CallOk
  <2>. QED
    BY <2>2, CallStep, ListOf DEF P
<1>6. Well(TRUE, Reset(r, rows), rows)
  BY <1>5, BuiltInOk, WellConcat DEF Reset
<1>. QED
  BY <1>3, <1>4, <1>6

LEMMA AppendOk ==
  ASSUME NEW may \in BOOLEAN, NEW rows, NEW r, NEW P \in SUBSET Perm,
         r = Administrator => may /\ All \in P
  PROVE  Well(may, AppendAllows(r, P, rows), rows)
<1>. DEFINE A == Linked("allow", r, Perm, rows) \cup P
            D == Linked("deny", r, Perm, rows) \ P
<1>1. A \in SUBSET Perm /\ D \in SUBSET Perm /\ P \subseteq A
  BY DEF Linked
<1>2. AppendAllows(r, P, rows) = SaveRolePermissions(r, A, D)
  BY DEF AppendAllows
<1>. HIDE DEF A, D
<1>. QED
  BY <1>1, <1>2, GrantsOfAdministrator, GrantsOfOther DEF Well

LEMMA WildcardOk ==
  ASSUME NEW rows
  PROVE  Well(TRUE, Wildcard(rows), rows)
<1>1. {All} \in SUBSET Perm
  BY AccessRolesAssumption
<1>2. Well(TRUE, AppendAllows(Administrator, {All}, rows), rows)
  BY <1>1, AppendOk
<1>. QED
  BY <1>2, ListEmpty DEF Wildcard, When, Well

\* The links of c: those it has go, then each of the new ones comes, which all lead to roles
\* that c is not above.
LEMMA InheritOk ==
  ASSUME NEW rows, NEW c \in Role, NEW P \in SUBSET Role
  PROVE  Well(TRUE, SaveRoleInheritance(c, P, rows), rows)
<1>1. CASE \E p \in P : c \in Above(p, rows)
  BY <1>1, OtherStep, ListOf DEF SaveRoleInheritance, Well
<1>2. CASE \A p \in P : c \notin Above(p, rows)
  <2>. DEFINE s == SetToSeq(P)
              new == [i \in DOMAIN s |-> Insert(<<"inherits", c, s[i]>>, {<<"inherits", c, s[i]>>})]
              old == Delete(Links("inherits", {c}, Role))
              list == <<old>> \o new
  <2>1. s \in Seq(P)
    BY AccessFiniteAssumption, FS_Subset, SetToSeqIs
  <2>. HIDE DEF s
  <2>2. DOMAIN new = 1..Len(s) /\ Len(s) \in Nat
    BY <2>1
  <2>3. \A i \in DOMAIN new : IsLink(c, new[i], rows)
    <3>1. \A i \in DOMAIN s : s[i] \in P
      BY <2>1
    <3>. QED
      BY <1>2, <3>1 DEF IsLink
  <2>4. StepOk(TRUE, old) /\ old.do = "statement"
    BY DeleteLinks DEF Delete, Statement
  <2>5. \E S : new \in Seq(S)
    <3>1. new = [i \in DOMAIN new |-> new[i]]
      OBVIOUS
    <3>. HIDE DEF new
    <3>2. new \in Seq({new[i] : i \in DOMAIN new})
      BY <2>2, <3>1
    <3>. QED
      BY <3>2
  <2>6. SaveRoleInheritance(c, P, rows) = list
    BY <1>2 DEF SaveRoleInheritance, Each, s
  <2>. HIDE DEF new, old
  <2>7. PICK S : new \in Seq(S)
    BY <2>5
  <2>8. list \in Seq({old} \cup S)
    <3>. DEFINE U == {old} \cup S
    <3>1. <<old>> \in Seq(U) /\ new \in Seq(U)
      BY <2>7
    <3>. HIDE DEF U
    <3>. QED
      BY <3>1 DEF U
  <2>9. \A i \in DOMAIN list : i <= Len(list) /\ (list[i] = old \/ IsLink(c, list[i], rows))
    <3>. DEFINE U == {old} \cup S
    <3>1. <<old>> \in Seq(U) /\ new \in Seq(U)
      BY <2>7
    <3>. HIDE DEF U
    <3>. QED
      BY <2>3, <3>1
  <2>10. LinkList(list, rows)
    <3>. HIDE DEF list
    <3>1. Len(list) \in Nat
      BY <2>8
    <3>. QED
      BY <2>4, <2>8, <2>9, <3>1 DEF LinkList, LinksFirst
  <2>. QED
    BY <2>6, <2>10 DEF Well
<1>. QED
  BY <1>1, <1>2

LEMMA RoleDeleteOk ==
  ASSUME NEW may, NEW rows, NEW r
  PROVE  ListOk(may, RoleDelete(r, rows))
<1>1. CASE r \in System \/ ~Exists(r, "role", rows)
  BY <1>1, ListEmpty DEF RoleDelete
<1>2. CASE r \notin System /\ Exists(r, "role", rows)
  <2>. DEFINE a == Delete(Links("gives", Group, {r}))
              b == Delete(Links("holds", User, {r}))
              c == Delete(Grants(r))
              d == Delete(Links("inherits", {r}, Role) \cup Links("inherits", Role, {r}))
              e == Ignored(Other)
              f == Expunge("role", r, Links("gives", Group, {r}) \cup Links("holds", User, {r}))
              g == Forget(Key)
  <2>1. StepOk(may, a) /\ StepOk(may, b)
    BY DeleteLinks
  <2>2. StepOk(may, c)
    <3>1. r # Administrator
      BY <1>2, AccessRolesAssumption
    <3>2. \A row \in Grants(r) : ~IsGrant(row) /\ row # AdministratorActive
      BY <3>1 DEF Grants, Links, IsGrant, AdministratorActive
    <3>. QED
      BY <3>2, DeleteStep
  <2>3. StepOk(may, d)
    <3>1. \A row \in Links("inherits", {r}, Role) \cup Links("inherits", Role, {r}) :
            ~IsGrant(row) /\ row # AdministratorActive
      BY LinksAre
    <3>. QED
      BY <3>1, DeleteStep
  <2>4. StepOk(may, e) /\ StepOk(may, g)
    BY NothingStep, OtherStep
  <2>5. StepOk(may, f)
    <3>1. \A row \in AnyStatus("role", r) : ~IsGrant(row) /\ row # AdministratorActive
      <4>1. r # Administrator /\ "role" \in {"user", "group", "role"}
        BY <1>2, AccessRolesAssumption
      <4>. QED
        BY <4>1, StatusOld
    <3>. QED
      BY <3>1, ExpungeStep DEF Expunge
  <2>6. RoleDelete(r, rows) = <<a, b, c, d, e, f, g>>
    BY <1>2 DEF RoleDelete
  <2>. HIDE DEF a, b, c, d, e, f, g
  <2>. DEFINE S == {a, b, c, d, e, f, g}
  <2>7. <<a, b, c, d, e, f, g>> \in Seq(S) /\ \A s \in S : StepOk(may, s)
    BY <2>1, <2>2, <2>3, <2>4, <2>5
  <2>. HIDE DEF S
  <2>. QED
    BY <2>6, <2>7, ListIs
<1>. QED
  BY <1>1, <1>2

LEMMA RoleToggleOk ==
  ASSUME NEW may, NEW rows, NEW r
  PROVE  ListOk(may, RoleToggle(r, rows))
<1>1. r \notin System => CallOk(may, <<"toggle", "role", r>>)
  BY DEF CallOk
<1>. QED
  BY <1>1, CallStep, OtherStep, ListOfTwo, ListEmpty DEF RoleToggle

LEMMA GroupFormOk ==
  ASSUME NEW may, NEW rows, RowsOk(rows), NEW g, NEW s, NEW R
  PROVE  ListOk(may, GroupForm(g, s, R, rows))
<1>1. "group" \in {"user", "group"}
  OBVIOUS
<1>2. StepOk(may, SaveLoaded("group", g, s, rows))
  BY <1>1, SaveLoadedOk
<1>3. CallOk(may, <<"gives", g, R>>)
  BY DEF CallOk
<1>. QED
  BY <1>2, <1>3, CallStep, OtherStep, ListOfThree DEF GroupForm

LEMMA GroupDeleteOk ==
  ASSUME NEW may, NEW rows, NEW g
  PROVE  ListOk(may, GroupDelete(g, rows))
<1>1. "group" \in {"user", "group", "role"} /\ "group" # "role"
  OBVIOUS
<1>2. \A row \in AnyStatus("group", g) : ~IsGrant(row) /\ row # AdministratorActive
  BY <1>1, StatusOld
<1>. DEFINE a == Delete(Links("gives", {g}, Role))
            b == Delete(Links("member", User, {g}))
            c == Expunge("group", g, Links("gives", {g}, Role) \cup Links("member", User, {g}))
            d == Forget(Key)
<1>3. StepOk(may, a) /\ StepOk(may, b) /\ StepOk(may, d)
  BY DeleteLinks, OtherStep
<1>4. StepOk(may, c)
  BY <1>2, ExpungeStep DEF Expunge
<1>5. GroupDelete(g, rows) = <<>> \/ GroupDelete(g, rows) = <<a, b, c, d>>
  BY DEF GroupDelete
<1>. HIDE DEF a, b, c, d
<1>6. ListOk(may, <<a, b, c, d>>)
  BY <1>3, <1>4, ListOfFour
<1>. QED
  BY <1>5, <1>6, ListEmpty

LEMMA GroupToggleOk ==
  ASSUME NEW may, NEW rows, NEW g
  PROVE  ListOk(may, GroupToggle(g, rows))
<1>1. ListOk(may, Toggle("group", g, rows))
  BY ToggleOk
<1>. QED
  BY <1>1, OtherStep, ListOfTwo, ListConcat, ListEmpty DEF GroupToggle

LEMMA NewUserOk ==
  ASSUME NEW may, NEW rows, RowsOk(rows), NEW u
  PROVE  ListOk(may, NewUser(u, rows))
<1>. DEFINE G == {g \in {Public, Registered} : Exists(g, "group", rows)}
            s == SetToSeq(G)
            ties == [i \in DOMAIN s |-> Where(<<"tieAnyway", "member", u, rows \cap AnyStatus("group", s[i])>>)]
            new == Insert(<<"user", u, "active">>, AnyStatus("user", u))
<1>1. IsFiniteSet(G)
  <2>1. IsFiniteSet({Public, Registered}) /\ G \subseteq {Public, Registered}
    <3>1. IsFiniteSet({Public} \cup {Registered})
      BY FS_AddElement, FS_Singleton
    <3>2. {Public} \cup {Registered} = {Public, Registered}
      OBVIOUS
    <3>. QED
      BY <3>1, <3>2
  <2>. QED
    BY <2>1, FS_Subset
<1>2. "user" \in {"user", "group", "role"} /\ "group" \in {"user", "group", "role"} /\ "member" \in {"member", "holds", "gives"}
  OBVIOUS
<1>3. Plain(<<"user", u, "active">>)
  BY <1>2, StatusPlain
<1>4. ListOk(may, <<new>>)
  BY <1>3, InsertStep, ListOf
<1>5. NewUser(u, rows) = <<new>> \o ties
  BY DEF NewUser, Each
<1>. HIDE DEF G, s, new
<1>6. \A i \in DOMAIN ties : StepOk(may, ties[i])
  BY <1>2, AssociationOne
<1>7. ListOk(may, ties)
  BY <1>1, <1>6, EachOk DEF s
<1>. QED
  BY <1>4, <1>5, <1>7, ListConcat

LEMMA UserFormOk ==
  ASSUME NEW may, NEW rows, RowsOk(rows), NEW u, NEW a, NEW s, NEW G, NEW R, NEW c
  PROVE  ListOk(may, UserForm(u, a, s, G, R, rows, c))
<1>. DEFINE can(p) == May(p, a, rows, c)
            there == Exists(u, "user", rows)
            status == IF can(Security) THEN s ELSE IF Is(u, "user", rows) THEN "active" ELSE "inactive"
            save == SaveLoaded("user", u, status, rows)
            account == IF ~there THEN NewUser(u, rows) ELSE When(can(Profiles) \/ can(Security), <<save>>)
            assigns == Call(<<"assigns", a, G, R>>)
            set == Call(<<"links", u, G, R>>)
            keep == Call(<<"keep", u>>)
            none == Call(<<"links", u, {}, {}>>)
            links == IF can(Members) THEN <<assigns, set>> ELSE IF there THEN <<keep>> ELSE <<none>>
<1>1. StepOk(may, save)
  <2>1. "user" \in {"user", "group"}
    OBVIOUS
  <2>. HIDE DEF status
  <2>. QED
    BY <2>1, SaveLoadedOk
<1>2. StepOk(may, assigns) /\ StepOk(may, set) /\ StepOk(may, keep) /\ StepOk(may, none)
  <2>1. /\ CallOk(may, <<"assigns", a, G, R>>) /\ CallOk(may, <<"links", u, G, R>>)
        /\ CallOk(may, <<"keep", u>>) /\ CallOk(may, <<"links", u, {}, {}>>)
    BY DEF CallOk
  <2>. QED
    BY <2>1, CallStep
<1>3. UserForm(u, a, s, G, R, rows, c) =
        When(can(Profiles) \/ (there /\ (can(Members) \/ can(Security))),
             account \o links \o <<Forget(Of({u})), Other>>)
  BY DEF UserForm
<1>. HIDE DEF save, assigns, set, keep, none, can, there
<1>4. ListOk(may, account)
  BY <1>1, NewUserOk, ListOf, ListWhen
<1>5. ListOk(may, links)
  BY <1>2, ListOf, ListOfTwo
<1>6. ListOk(may, <<Forget(Of({u})), Other>>)
  BY NothingStep, OtherStep, ListOfTwo
<1>. HIDE DEF account, links
<1>. QED
  BY <1>3, <1>4, <1>5, <1>6, ListConcat, ListWhen

LEMMA UserButtonsOk ==
  ASSUME NEW may, NEW rows, NEW u, NEW a, NEW c
  PROVE  ListOk(may, UserToggle(u, a, rows, c)) /\ ListOk(may, UserDelete(u, a, rows, c))
<1>1. ListOk(may, Toggle("user", u, rows))
  BY ToggleOk
<1>2. ListOk(may, UserToggle(u, a, rows, c))
  BY <1>1, OtherStep, ListOf, ListConcat, ListWhen DEF UserToggle
<1>3. "user" \in {"user", "group", "role"} /\ "user" # "role"
  OBVIOUS
<1>4. \A row \in AnyStatus("user", u) : ~IsGrant(row) /\ row # AdministratorActive
  BY <1>3, StatusOld
<1>5. StepOk(may, Expunge("user", u, Links("member", {u}, Group) \cup Links("holds", {u}, Role)))
  BY <1>4, ExpungeStep DEF Expunge
<1>6. StepOk(may, Delete(Links("member", {u}, Group))) /\ StepOk(may, Delete(Links("holds", {u}, Role)))
  BY DeleteLinks
<1>7. ListOk(may, UserDelete(u, a, rows, c))
  BY <1>5, <1>6, NothingStep, OtherStep, ListOfFive, ListWhen DEF UserDelete
<1>. QED
  BY <1>2, <1>7

LEMMA MembershipOk ==
  ASSUME NEW may, NEW rows, RowsOk(rows), NEW u, NEW g
  PROVE  /\ ListOk(may, AssignAdmin(u, rows)) /\ ListOk(may, Assign(u, g, rows))
         /\ ListOk(may, Login(u, rows)) /\ ListOk(may, Everybody(rows))
<1>1. ASSUME NEW v, NEW h
      PROVE  StepOk(may, Association("member", v, rows \cap AnyStatus("group", h)))
  <2>1. "group" \in {"user", "group", "role"} /\ "member" \in {"member", "holds", "gives"}
    OBVIOUS
  <2>. QED
    BY <2>1, AssociationOne
<1>2. ListOk(may, Assign(u, g, rows))
  BY <1>1, OtherStep, ListOfTwo DEF Assign
<1>3. ListOk(may, Login(u, rows))
  BY <1>1, OtherStep, ListOfTwo, ListWhen DEF Login
<1>4. ListOk(may, AssignAdmin(u, rows))
  <2>. DEFINE G == {h \in DOMAIN Defaults : Defaults[h] = Administrator /\ Exists(h, "group", rows)}
              s == SetToSeq(G)
              calls == [i \in DOMAIN s |-> Call(<<"assign", u, s[i]>>)]
  <2>1. IsFiniteSet(G)
    BY SystemFinite, FS_Subset
  <2>2. AssignAdmin(u, rows) = When(Exists(u, "user", rows), calls)
    BY DEF AssignAdmin, Each
  <2>. HIDE DEF G, s
  <2>3. \A h : CallOk(may, <<"assign", u, h>>)
    BY DEF CallOk
  <2>4. \A i \in DOMAIN calls : StepOk(may, calls[i])
    BY <2>3, CallStep
  <2>5. ListOk(may, calls)
    BY <2>1, <2>4, EachOk DEF s
  <2>. QED
    BY <2>2, <2>5, ListWhen
<1>5. ListOk(may, Everybody(rows))
  <2>. DEFINE U == {v \in User : Exists(v, "user", rows) /\ <<"member", v, Public>> \notin rows}
              s == SetToSeq(U)
              ties == [i \in DOMAIN s |-> Association("member", s[i], rows \cap AnyStatus("group", Public))]
  <2>1. IsFiniteSet(U)
    BY AccessFiniteAssumption, FS_Subset
  <2>2. Everybody(rows) = ties
    BY DEF Everybody, Each
  <2>. HIDE DEF U, s
  <2>3. \A i \in DOMAIN ties : StepOk(may, ties[i])
    BY <1>1
  <2>4. ListOk(may, ties)
    BY <2>1, <2>3, EachOk DEF s
  <2>. QED
    BY <2>2, <2>4
<1>. QED
  BY <1>2, <1>3, <1>4, <1>5

LEMMA InstallerOk ==
  ASSUME NEW may, NEW rows, NEW u, NEW c
  PROVE  /\ ListOk(may, Grant(u, rows, c)) /\ ListOk(may, AssignUserRole(u, Installer, rows))
         /\ ListOk(may, <<Resolve(<<"permissions", u>>), Call(<<"grant", u>>)>>)
<1>1. {Extension} \subseteq Perm => CallOk(may, <<"append", Installer, {Extension}>>)
  BY DEF CallOk
<1>2. CallOk(may, <<"role", Installer>>) /\ CallOk(may, <<"hold", u>>) /\ CallOk(may, <<"grant", u>>)
  BY DEF CallOk
<1>3. ListOk(may, Grant(u, rows, c))
  BY <1>1, <1>2, CallStep, OtherStep, ListOfFive, ListWhen, AccessRolesAssumption DEF Grant
<1>4. ListOk(may, AssignUserRole(u, Installer, rows))
  <2>. DEFINE s == Needing({AnyStatus("user", u), AnyStatus("role", Installer)},
                           Insert(<<"holds", u, Installer>>, {<<"holds", u, Installer>>}))
  <2>1. StatementOk(s)
    BY DEF Needing, Insert, Statement, StatementOk, Plain, IsGrant, AdministratorInactive
  <2>. HIDE DEF s
  <2>2. ListOk(may, <<s>>)
    BY <2>1, StatementStep, ListOf
  <2>. QED
    BY <2>2, ListWhen DEF AssignUserRole, s
<1>5. ListOk(may, <<Resolve(<<"permissions", u>>), Call(<<"grant", u>>)>>)
  BY <1>2, CallStep, OtherStep, ListOfTwo
<1>. QED
  BY <1>3, <1>4, <1>5

LEMMA EnsureOk ==
  ASSUME NEW may, NEW rows, RowsOk(rows), NEW x
  PROVE  /\ ListOk(may, EnsureRole(x, rows)) /\ ListOk(may, EnsureGroup(x, rows))
         /\ ListOk(may, Flatten(x, rows)) /\ ListOk(may, Default(x))
<1>1. Plain(<<"role", x, "active">>) /\ Plain(<<"group", x, "active">>)
  BY DEF Plain, IsGrant, AdministratorInactive
<1>2. ListOk(may, EnsureRole(x, rows)) /\ ListOk(may, EnsureGroup(x, rows))
  BY <1>1, InsertStep, NothingStep, ListOf DEF EnsureRole, EnsureGroup
<1>3. ListOk(may, Flatten(x, rows))
  BY ReplaceOk, ListWhen DEF Flatten
<1>4. CallOk(may, <<"group", x>>) /\ CallOk(may, <<"flatten", x>>)
  BY DEF CallOk
<1>5. ListOk(may, Default(x))
  BY <1>4, CallStep, ListOfTwo DEF Default
<1>. QED
  BY <1>2, <1>3, <1>5

\* A loop that makes one call for each.
Calls(S, tag) == [i \in DOMAIN SetToSeq(S) |-> Call(<<tag, SetToSeq(S)[i]>>)]

LEMMA CallsOk ==
  ASSUME NEW S, IsFiniteSet(S), NEW tag, \A x \in S : CallOk(TRUE, <<tag, x>>)
  PROVE  ListOk(TRUE, Calls(S, tag))
<1>. DEFINE s == SetToSeq(S)
            calls == [i \in DOMAIN s |-> Call(<<tag, s[i]>>)]
<1>1. s \in Seq(S)
  BY SetToSeqIs
<1>2. Calls(S, tag) = calls
  BY DEF Calls
<1>. HIDE DEF s
<1>3. \A i \in DOMAIN s : s[i] \in S
  BY <1>1
<1>4. \A i \in DOMAIN calls : StepOk(TRUE, calls[i])
  BY <1>3, CallStep
<1>5. ListOk(TRUE, calls)
  BY <1>4, EachOk DEF s
<1>. QED
  BY <1>2, <1>5

LEMMA MigrateOk ==
  ASSUME NEW rows
  PROVE  ListOk(TRUE, Migrate(rows))
<1>. DEFINE R == {r \in System : Exists(r, "role", rows)}
            resets == Calls(R, "reset")
            first == <<Insert(<<"revision", 1, "done">>, {})>>
            second == <<Call(<<"wildcard">>), Insert(<<"revision", 2, "done">>, {})>>
<1>1. IsFiniteSet(R)
  BY SystemFinite, FS_Subset
<1>2. \A r \in R : CallOk(TRUE, <<"reset", r>>)
  BY DEF CallOk
<1>. HIDE DEF R
<1>3. ListOk(TRUE, resets)
  BY <1>1, <1>2, CallsOk
<1>4. \A n : Plain(<<"revision", n, "done">>)
  BY DEF Plain, IsGrant, AdministratorInactive
<1>5. CallOk(TRUE, <<"wildcard">>)
  BY DEF CallOk
<1>6. ListOk(TRUE, first) /\ ListOk(TRUE, second)
  BY <1>4, <1>5, InsertStep, CallStep, ListOf, ListOfTwo
<1>7. Migrate(rows) = When(~\E n \in {1, 2} : <<"revision", n, "done">> \in rows, resets \o first)
                      \o When(<<"revision", 2, "done">> \notin rows, second)
  BY DEF Migrate, R, Each, Calls
<1>. HIDE DEF resets, first, second
<1>. QED
  BY <1>3, <1>6, <1>7, ListConcat, ListWhen

LEMMA BootOk == ListOk(TRUE, Boot)
<1>. DEFINE roles == Calls(System, "role")
            seeds == Calls(System, "seed")
            flatten == Calls(DOMAIN Defaults, "flatten")
            defaults == Calls(DOMAIN Defaults, "default")
            migrate == <<Call(<<"migrate">>), Call(<<"wildcard">>)>>
            groups == <<Call(<<"group", Public>>), Call(<<"group", Registered>>), Call(<<"everybody">>)>>
<1>1. /\ \A r \in System : CallOk(TRUE, <<"role", r>>) /\ CallOk(TRUE, <<"seed", r>>)
      /\ \A g \in DOMAIN Defaults : CallOk(TRUE, <<"flatten", g>>) /\ CallOk(TRUE, <<"default", g>>)
      /\ CallOk(TRUE, <<"migrate">>) /\ CallOk(TRUE, <<"wildcard">>) /\ CallOk(TRUE, <<"everybody">>)
      /\ \A g : CallOk(TRUE, <<"group", g>>)
  BY DEF CallOk
<1>2. ListOk(TRUE, roles) /\ ListOk(TRUE, seeds) /\ ListOk(TRUE, flatten) /\ ListOk(TRUE, defaults)
  BY <1>1, SystemFinite, CallsOk
<1>3. ListOk(TRUE, migrate) /\ ListOk(TRUE, groups)
  BY <1>1, CallStep, ListOfTwo, ListOfThree
<1>4. ListOk(TRUE, <<Catch(migrate \o <<Return>>)>>)
  <2>1. SimpleOk(TRUE, Call(<<"migrate">>)) /\ SimpleOk(TRUE, Call(<<"wildcard">>)) /\ SimpleOk(TRUE, Return)
    BY <1>1, CallStep, OtherStep
  <2>2. SimpleList(TRUE, migrate \o <<Return>>)
    <3>1. SimpleList(TRUE, migrate) /\ SimpleList(TRUE, <<Return>>)
      BY <2>1, SimpleOf, SimpleOfTwo
    <3>. HIDE DEF migrate
    <3>. QED
      BY <3>1, SimpleConcat
  <2>3. StepOk(TRUE, Catch(migrate \o <<Return>>))
    BY <2>2 DEF Catch, StepOk
  <2>. QED
    BY <2>3, ListOf
<1>. DEFINE caught == <<Catch(migrate \o <<Return>>)>>
<1>5. Boot = <<Forget(Key)>> \o (roles \o seeds \o flatten) \o caught \o migrate \o defaults \o groups
  BY DEF Boot, SeedDefaults, Each, Calls
<1>6. ListOk(TRUE, <<Forget(Key)>>)
  BY OtherStep, ListOf
<1>. HIDE DEF roles, seeds, flatten, defaults, groups, migrate, caught
<1>7. ListOk(TRUE, roles \o seeds \o flatten)
  BY <1>2, ListConcat
<1>8. ListOk(TRUE, caught)
  BY <1>4 DEF caught
<1>9. ListOk(TRUE, <<Forget(Key)>> \o (roles \o seeds \o flatten))
  BY <1>6, <1>7, ListConcat
<1>10. ListOk(TRUE, <<Forget(Key)>> \o (roles \o seeds \o flatten) \o caught)
  BY <1>8, <1>9, ListConcat
<1>11. ListOk(TRUE, <<Forget(Key)>> \o (roles \o seeds \o flatten) \o caught \o migrate)
  BY <1>3, <1>10, ListConcat
<1>12. ListOk(TRUE, <<Forget(Key)>> \o (roles \o seeds \o flatten) \o caught \o migrate \o defaults)
  BY <1>2, <1>11, ListConcat
<1>. QED
  BY <1>3, <1>5, <1>12, ListConcat

----------------------------------------------------------------------------
\* What the database is asked for

\* The first word of a request, and what a role form is made of.
LEMMA RequestIs ==
  ASSUME NEW op \in Request
  PROVE  /\ op[1] \in {"roleForm", "userForm", "groupForm", "roleDelete", "roleToggle", "groupDelete", "groupToggle",
                      "userToggle", "userDelete", "assignAdmin", "login", "install", "boot"}
         /\ op[1] = "roleForm" => op[2] \in Role /\ op[3] \in Status /\ op[4] \in SUBSET Perm
                                  /\ op[5] \in SUBSET Perm /\ op[6] \in SUBSET Role
<1>1. CASE op \in ({"roleForm"} \X Role \X Status \X (SUBSET Perm) \X (SUBSET Perm) \X (SUBSET Role))
  BY <1>1
<1>2. CASE op \in ({"userForm"} \X User \X User \X Status \X (SUBSET Group) \X (SUBSET Role))
  BY <1>2
<1>3. CASE op \in ({"groupForm"} \X Group \X Status \X (SUBSET Role))
  BY <1>3
<1>4. CASE \/ op \in ({"roleDelete", "roleToggle"} \X Role) \/ op \in ({"groupDelete", "groupToggle"} \X Group)
            \/ op \in ({"assignAdmin", "login", "install"} \X User) \/ op = <<"boot">>
  BY <1>4
<1>5. CASE op \in ({"userToggle", "userDelete"} \X User \X User)
  BY <1>5
<1>. QED
  BY <1>1, <1>2, <1>3, <1>4, <1>5 DEF Request

\* The handlers.
LEMMA RequestOk ==
  ASSUME NEW may \in BOOLEAN, NEW rows, RowsOk(rows), NEW op \in Request, op[1] \in {"roleForm", "boot"} => may, NEW c
  PROVE  ListOk(may, Plan(op, rows, c))
<1>1. CASE op[1] = "roleForm"
  <2>1. ListOk(TRUE, RoleForm(op[2], op[3], op[4], op[5], op[6], rows))
    BY <1>1, RequestIs, RoleFormOk
  <2>2. may = TRUE /\ Plan(op, rows, c) = RoleForm(op[2], op[3], op[4], op[5], op[6], rows)
    BY <1>1 DEF Plan
  <2>. QED
    BY <2>1, <2>2
<1>2. CASE op[1] = "boot"
  BY <1>2, BootOk DEF Plan
<1>3. CASE op[1] = "roleDelete"
  BY <1>3, RoleDeleteOk DEF Plan
<1>4. CASE op[1] = "roleToggle"
  BY <1>4, RoleToggleOk DEF Plan
<1>5. CASE op[1] = "groupForm"
  BY <1>5, GroupFormOk DEF Plan
<1>6. CASE op[1] = "groupDelete"
  BY <1>6, GroupDeleteOk DEF Plan
<1>7. CASE op[1] = "groupToggle"
  BY <1>7, GroupToggleOk DEF Plan
<1>8. CASE op[1] = "userForm"
  BY <1>8, UserFormOk DEF Plan
<1>9. CASE op[1] \in {"userToggle", "userDelete"}
  BY <1>9, UserButtonsOk DEF Plan
<1>10. CASE op[1] \in {"assignAdmin", "login"}
  BY <1>10, MembershipOk DEF Plan
<1>11. CASE op[1] = "install"
  BY <1>11, InstallerOk DEF Plan
<1>. QED
  BY RequestIs, <1>1, <1>2, <1>3, <1>4, <1>5, <1>6, <1>7, <1>8, <1>9, <1>10, <1>11

\* The parts that neither grant the administrator anything nor make roles inherit.
LEMMA PartOk ==
  ASSUME NEW may \in BOOLEAN, NEW rows, RowsOk(rows), NEW op, NEW c,
         \/ op[1] \in {"gives", "member", "holds", "assigns", "hold", "grant", "role", "group", "flatten", "default",
                        "everybody", "assign", "links", "keep"}
         \/ op[1] = "toggle" /\ op[2] = "role" /\ op[3] \notin System
  PROVE  ListOk(may, Plan(op, rows, c))
<1>0. "gives" \in {"member", "holds", "gives"} /\ "member" \in {"member", "holds", "gives"}
      /\ "holds" \in {"member", "holds", "gives"}
  OBVIOUS
<1>1. CASE op[1] = "gives"
  BY <1>0, <1>1, ReplaceOk DEF Plan
<1>2. CASE op[1] = "member"
  BY <1>0, <1>2, ReplaceOk DEF Plan
<1>3. CASE op[1] = "holds"
  BY <1>0, <1>3, ReplaceOk DEF Plan
<1>4. CASE op[1] = "assigns"
  <2>1. ListOk(may, <<Return>>) /\ ListOk(may, <<>>)
    BY OtherStep, ListOf, ListEmpty
  <2>2. Plan(op, rows, c) \in {<<>>, <<Return>>}
    BY <1>4 DEF Plan, MayAssign
  <2>. QED
    BY <2>1, <2>2
<1>9. CASE op[1] \in {"links", "keep"}
  <2>1. ASSUME NEW u, NEW G, NEW R
        PROVE  ListOk(may, SetLinks(u, G, R))
    <3>1. CallOk(may, <<"member", u, G>>) /\ CallOk(may, <<"holds", u, R>>)
      BY DEF CallOk
    <3>. QED
      BY <3>1, CallStep, ListOfTwo DEF SetLinks
  <2>2. \/ Plan(op, rows, c) = SetLinks(op[2], op[3], op[4])
        \/ Plan(op, rows, c) = KeepLinks(op[2], rows)
    BY <1>9 DEF Plan
  <2>. QED
    BY <2>1, <2>2 DEF KeepLinks
<1>5. CASE op[1] \in {"hold", "grant"}
  BY <1>5, InstallerOk DEF Plan
<1>6. CASE op[1] \in {"role", "group", "flatten", "default"}
  BY <1>6, EnsureOk DEF Plan
<1>7. CASE op[1] \in {"everybody", "assign"}
  BY <1>7, MembershipOk DEF Plan
<1>8. CASE op[1] = "toggle" /\ op[2] = "role" /\ op[3] \notin System
  <2>1. ListOk(may, Toggle(op[2], op[3], rows))
    BY <1>8, ToggleOk
  <2>2. Plan(op, rows, c) = When(Exists(op[3], op[2], rows), Toggle(op[2], op[3], rows))
    BY <1>8 DEF Plan
  <2>. QED
    BY <2>1, <2>2, ListWhen
<1>. QED
  BY <1>1, <1>2, <1>3, <1>4, <1>5, <1>6, <1>7, <1>8, <1>9

LEMMA PlanOk ==
  ASSUME NEW may \in BOOLEAN, NEW rows, RowsOk(rows), NEW op, CallOk(may, op), NEW c
  PROVE  Well(may, Plan(op, rows, c), rows)
<1>. DEFINE asked == op \in Request /\ (op[1] \in {"roleForm", "boot"} => may)
            part == \/ op[1] \in {"gives", "member", "holds", "assigns", "hold", "grant", "role", "group", "flatten",
                                  "default", "everybody", "assign", "links", "keep"}
                    \/ op[1] = "toggle" /\ op[2] = "role" /\ op[3] \notin System
            append == op[1] = "append" /\ op[2] = Installer /\ op[3] \subseteq Perm
            grants == may /\ op[1] = "grants" /\ op[3] \subseteq Perm /\ op[4] \subseteq Perm
            inherit == may /\ op[1] = "inherit" /\ op[2] \in Role /\ op[3] \subseteq Role
            builtIn == may /\ op[1] \in {"seed", "seedGrants", "reset"} /\ op[2] \in System
            migrate == may /\ op[1] \in {"migrate", "wildcard"}
<1>1. CASE asked
  BY <1>1, RequestOk DEF Well
<1>2. CASE part
  BY <1>2, PartOk DEF Well
<1>3. CASE append
  <2>1. op[3] \in SUBSET Perm /\ Installer # Administrator
    BY <1>3, AccessRolesAssumption
  <2>2. Well(may, AppendAllows(op[2], op[3], rows), rows)
    BY <1>3, <2>1, AppendOk
  <2>. QED
    BY <1>3, <2>2 DEF Plan
<1>4. CASE grants
  <2>1. Well(TRUE, GrantsForm(op[2], op[3], op[4], rows), rows)
    BY <1>4, GrantsFormOk
  <2>2. may = TRUE
    BY <1>4
  <2>. QED
    BY <1>4, <2>1, <2>2 DEF Plan
<1>5. CASE inherit
  <2>1. Well(TRUE, SaveRoleInheritance(op[2], op[3], rows), rows)
    BY <1>5, InheritOk
  <2>2. may = TRUE
    BY <1>5
  <2>. QED
    BY <1>5, <2>1, <2>2 DEF Plan
<1>6. CASE builtIn
  <2>1. ListOk(TRUE, Seed(op[2])) /\ Well(TRUE, SeedPermissions(op[2], rows), rows) /\ Well(TRUE, Reset(op[2], rows), rows)
    BY <1>6, SeedOk
  <2>2. may = TRUE
    BY <1>6
  <2>. QED
    BY <1>6, <2>1, <2>2 DEF Plan, Well
<1>7. CASE migrate
  <2>1. Well(TRUE, Wildcard(rows), rows) /\ ListOk(TRUE, Migrate(rows))
    BY WildcardOk, MigrateOk
  <2>2. may = TRUE
    BY <1>7
  <2>. QED
    BY <1>7, <2>1, <2>2 DEF Plan, Well
<1>8. asked \/ part \/ append \/ grants \/ inherit \/ builtIn \/ migrate
  BY Zenon DEF CallOk
<1>. HIDE DEF asked, part, append, grants, inherit, builtIn, migrate
<1>. QED
  BY <1>1, <1>2, <1>3, <1>4, <1>5, <1>6, <1>7, <1>8

----------------------------------------------------------------------------
\* Inheritance

Closed(S, rows) == \A x \in S : Parents(x, rows) \subseteq S

LEMMA AboveIs ==
  ASSUME NEW rows, NEW r \in Role
  PROVE  /\ Above(r, rows) \subseteq Role /\ r \in Above(r, rows) /\ Closed(Above(r, rows), rows)
         /\ \A S \in SUBSET Role : r \in S /\ Closed(S, rows) => Above(r, rows) \subseteq S
<1>1. Above(r, rows) \subseteq Role /\ r \in Above(r, rows)
  BY DEF Above
<1>2. \A S \in SUBSET Role : r \in S /\ Closed(S, rows) => Above(r, rows) \subseteq S
  BY DEF Above, Closed
<1>3. ASSUME NEW x \in Above(r, rows), NEW p \in Parents(x, rows)
      PROVE  p \in Above(r, rows)
  <2>1. ASSUME NEW S \in SUBSET Role, r \in S, Closed(S, rows)
        PROVE  p \in S
    BY <1>2, <2>1 DEF Closed
  <2>2. p \in Role
    BY DEF Parents, Linked
  <2>. QED
    BY <2>1, <2>2 DEF Above, Closed
<1>. QED
  BY <1>1, <1>2, <1>3 DEF Closed

\* What is above a role that is above r is above r.
LEMMA AboveOn ==
  ASSUME NEW rows, NEW r \in Role, NEW q \in Above(r, rows)
  PROVE  Above(q, rows) \subseteq Above(r, rows)
BY AboveIs

\* Fewer links lead to fewer roles.
Fewer(new, rows) == \A x \in Role : Parents(x, new) \subseteq Parents(x, rows)

LEMMA AboveFewer ==
  ASSUME NEW rows, NEW new, Fewer(new, rows), NEW r \in Role
  PROVE  Above(r, new) \subseteq Above(r, rows)
<1>1. Closed(Above(r, rows), new)
  BY AboveIs DEF Fewer, Closed
<1>. QED
  BY <1>1, AboveIs

LEMMA AcyclicFewer ==
  ASSUME NEW rows, NEW new, Fewer(new, rows), Acyclic(rows)
  PROVE  Acyclic(new)
<1>. SUFFICES ASSUME NEW r \in Role, NEW p \in Parents(r, new) PROVE r \notin Above(p, new)
  BY DEF Acyclic
<1>1. p \in Role /\ p \in Parents(r, rows)
  BY DEF Fewer, Parents, Linked
<1>. QED
  BY <1>1, AboveFewer DEF Acyclic

\* c also inherits from p.
OneMore(new, rows, c, p) ==
  \A x \in Role : Parents(x, new) \subseteq IF x = c THEN Parents(x, rows) \cup {p} ELSE Parents(x, rows)

\* That does not change what is above roles which c is not above.
LEMMA AboveOther ==
  ASSUME NEW rows, NEW new, NEW c \in Role, NEW p \in Role, OneMore(new, rows, c, p),
         NEW r \in Role, c \notin Above(r, rows)
  PROVE  Above(r, new) \subseteq Above(r, rows)
<1>1. Closed(Above(r, rows), new)
  BY AboveIs DEF OneMore, Closed
<1>. QED
  BY <1>1, AboveIs

\* A link to a role that c is not above closes no circle.
LEMMA AcyclicMore ==
  ASSUME NEW rows, NEW new, NEW c \in Role, NEW p \in Role, OneMore(new, rows, c, p), Acyclic(rows),
         c \notin Above(p, rows)
  PROVE  Acyclic(new)
<1>. SUFFICES ASSUME NEW r \in Role, NEW q \in Parents(r, new), r \in Above(q, new) PROVE FALSE
  BY DEF Acyclic
<1>1. q \in Role
  BY DEF Parents, Linked
<1>2. CASE q \in Parents(r, rows)
  <2>1. r \notin Above(q, rows)
    BY <1>2 DEF Acyclic
  <2>2. c \in Above(q, rows)
    BY <1>1, <2>1, AboveOther
  <2>. DEFINE S == Above(q, rows) \cup Above(p, rows)
  <2>3. q \in S /\ S \in SUBSET Role /\ Closed(S, new)
    BY <1>1, AboveIs DEF Closed, OneMore
  <2>4. r \in S
    BY <1>1, <2>3, AboveIs
  <2>5. r \in Above(p, rows)
    BY <2>1, <2>4
  <2>6. q \in Above(p, rows)
    BY <1>2, <2>5, AboveIs DEF Closed
  <2>. QED
    BY <2>2, <2>6, AboveOn
<1>3. CASE q \notin Parents(r, rows)
  <2>1. r = c /\ q = p
    BY <1>3 DEF OneMore
  <2>. QED
    BY <2>1, AboveOther
<1>. QED
  BY <1>2, <1>3

----------------------------------------------------------------------------
\* What a statement does

After(s, rows) == (rows \ s.drop) \cup s.add

\* No role inherits that did not, the grants of the administrator stay, and the administrator stays active.
Mild(rows, new) ==
  /\ Fewer(new, rows)
  /\ \A kind \in {"allow", "deny"}, p \in Perm : <<kind, Administrator, p>> \in new <=> <<kind, Administrator, p>> \in rows
  /\ RowsOk(rows) => RowsOk(new)

LEMMA MildNot ==
  ASSUME NEW rows
  PROVE  Mild(rows, rows)
BY DEF Mild, Fewer

LEMMA StatementMild ==
  ASSUME NEW s, StatementOk(s), NEW rows
  PROVE  Mild(rows, After(s, rows))
<1>1. ASSUME NEW row \in s.add
      PROVE  row[1] # "inherits" /\ ~IsGrant(row) /\ (Established => row # AdministratorInactive)
  BY DEF StatementOk, Plain
<1>2. Fewer(After(s, rows), rows)
  <2>1. \A x, y : <<"inherits", x, y>> \in After(s, rows) => <<"inherits", x, y>> \in rows
    BY <1>1 DEF After
  <2>. QED
    BY <2>1 DEF Fewer, Parents, Linked
<1>3. ASSUME NEW kind \in {"allow", "deny"}, NEW p \in Perm
      PROVE  <<kind, Administrator, p>> \in After(s, rows) <=> <<kind, Administrator, p>> \in rows
  <2>. DEFINE row == <<kind, Administrator, p>>
  <2>1. IsGrant(row)
    BY DEF IsGrant
  <2>. HIDE DEF row
  <2>2. row \notin s.add /\ row \notin s.drop
    BY <2>1 DEF StatementOk, Plain
  <2>3. row \in After(s, rows) <=> row \in rows
    BY <2>2 DEF After
  <2>. QED
    BY <2>3 DEF row
<1>4. ASSUME RowsOk(rows), Established
      PROVE  AdministratorActive \in After(s, rows) /\ AdministratorInactive \notin After(s, rows)
  <2>1. AdministratorActive \in After(s, rows)
    BY <1>4 DEF RowsOk, After, StatementOk
  <2>2. AdministratorInactive \notin After(s, rows)
    BY <1>1, <1>4 DEF RowsOk, After
  <2>. QED
    BY <2>1, <2>2
<1>. QED
  BY <1>2, <1>3, <1>4 DEF Mild, RowsOk

\* What Append inserts is a link, and rows as they were read.
LEMMA TieOk ==
  ASSUME NEW op, WhereOk(op), op[1] \in {"tie", "tieAnyway"}, NEW rows, NEW c
  PROVE  StatementOk(Head(Plan(op, rows, c)))
<1>. DEFINE tie == Tie(op[2], op[3], op[4], rows)
<1>1. Joins[op[2]][2] \in {"user", "group", "role"}
  BY DEF WhereOk, Joins
<1>2. StatementOk(tie)
  <2>1. tie.do = "statement" /\ tie.drop = {}
    BY DEF Tie, Needing, Link, Statement
  <2>2. \A row \in tie.add : row \in op[4] \/ \E y : row = <<op[2], op[3], y>>
    BY DEF Tie, Tied, Needing, Link, Statement
  <2>3. op[2] \in {"member", "holds", "gives"} /\ \A row \in op[4] : Plain(row)
    BY DEF WhereOk
  <2>4. \A y : Plain(<<op[2], op[3], y>>)
    BY <2>3 DEF Plain, IsGrant, AdministratorInactive
  <2>. HIDE DEF tie
  <2>. QED
    BY <2>1, <2>2, <2>3, <2>4 DEF StatementOk
<1>3. StatementOk(Ignored(tie))
  <2>1. \A N, A : LET t == Needing(N, Link(A)) IN
                   Ignored(t).do = t.do /\ Ignored(t).add = t.add /\ Ignored(t).drop = t.drop
    BY DEF Ignored, Needing, Link, Statement
  <2>2. Ignored(tie).do = tie.do /\ Ignored(tie).add = tie.add /\ Ignored(tie).drop = tie.drop
    BY <2>1 DEF Tie
  <2>. QED
    BY <1>2, <2>2 DEF StatementOk
<1>4. CASE op[1] = "tie"
  <2>1. Plan(op, rows, c) = <<tie>>
    BY <1>4 DEF Plan
  <2>. HIDE DEF tie
  <2>. QED
    BY <1>2, <2>1
<1>5. CASE op[1] = "tieAnyway"
  <2>1. Plan(op, rows, c) = <<Ignored(tie)>>
    BY <1>5 DEF Plan
  <2>. HIDE DEF tie
  <2>. QED
    BY <1>3, <2>1
<1>. QED
  BY <1>4, <1>5

\* So it is with what Save writes along with a user or a group.
LEMMA SaveLinkedOk ==
  ASSUME NEW what, what \in {"user", "group"}, NEW x, NEW s, NEW read, \A row \in read : Plain(row), NEW rows
  PROVE  StatementOk(SaveLinked(what, x, s, read, rows))
<1>. DEFINE save == SaveLinked(what, x, s, read, rows)
            join(j) == Tied(j, x, {row \in read : row[1] = Joins[j][2]}, rows)
<1>1. /\ save.do = "statement" /\ save.drop = AnyStatus(what, x)
      /\ save.add = {<<what, x, s>>} \cup UNION {join(j) : j \in JoinsOf(what)}
  BY DEF SaveLinked, Write, Statement
<1>. HIDE DEF save
<1>2. ASSUME NEW j \in JoinsOf(what), NEW row \in join(j)
      PROVE  Plain(row)
  <2>1. j \in {"member", "holds", "gives"}
    BY JoinsAre
  <2>2. row \in read \/ \E y : row = <<j, x, y>>
    BY <1>2 DEF Tied
  <2>3. \A y : Plain(<<j, x, y>>)
    BY <2>1 DEF Plain, IsGrant, AdministratorInactive
  <2>. QED
    BY <2>2, <2>3
<1>. HIDE DEF join
<1>3. what # "role" /\ what \in {"user", "group", "role"}
  OBVIOUS
<1>4. Plain(<<what, x, s>>)
  BY <1>3, StatusPlain
<1>5. \A row \in save.add : Plain(row)
  BY <1>1, <1>2, <1>4
<1>6. \A row \in save.drop : ~IsGrant(row) /\ row # AdministratorActive
  BY <1>1, <1>3, StatusOld
<1>. QED
  BY <1>1, <1>5, <1>6 DEF StatementOk, save

LEMMA WhereDoes ==
  ASSUME NEW op, WhereOk(op), NEW rows, NEW c
  PROVE  StatementOk(Head(Plan(op, rows, c)))
<1>1. CASE op[1] \in {"tie", "tieAnyway"}
  BY <1>1, TieOk
<1>2. CASE op[1] = "save"
  <2>. DEFINE save == SaveLinked(op[2], op[3], op[4], op[5], rows)
  <2>1. StatementOk(save)
    BY <1>2, SaveLinkedOk DEF WhereOk
  <2>2. Plan(op, rows, c) = <<save>>
    BY <1>2 DEF Plan
  <2>. HIDE DEF save
  <2>. QED
    BY <2>1, <2>2
<1>. QED
  BY <1>1, <1>2 DEF WhereOk

\* A grant of the administrator is one more row, and no other.
LEMMA GrantDoes ==
  ASSUME NEW kind \in {"allow", "deny"}, NEW p, NEW rows
  PROVE  LET s == GrantStep(kind, p) IN
         /\ After(s, rows) = rows \cup {<<kind, Administrator, p>>}
         /\ s.do = "statement" /\ s.upsert /\ s.needs = {} /\ s.add = {<<kind, Administrator, p>>}
         /\ s.clash = {<<"allow", Administrator, p>>, <<"deny", Administrator, p>>}
         /\ Fewer(After(s, rows), rows) /\ (RowsOk(rows) => RowsOk(After(s, rows)))
<1>. DEFINE s == GrantStep(kind, p)
<1>1. /\ After(s, rows) = rows \cup {<<kind, Administrator, p>>}
      /\ s.do = "statement" /\ s.upsert /\ s.needs = {} /\ s.add = {<<kind, Administrator, p>>}
      /\ s.clash = {<<"allow", Administrator, p>>, <<"deny", Administrator, p>>}
  BY DEF GrantStep, Insert, Statement, After
<1>. HIDE DEF s
<1>2. Fewer(After(s, rows), rows)
  BY <1>1 DEF Fewer, Parents, Linked
<1>3. RowsOk(rows) => RowsOk(After(s, rows))
  BY <1>1 DEF RowsOk, AdministratorInactive
<1>. QED
  BY <1>1, <1>2, <1>3 DEF s

LEMMA WipeDoes ==
  ASSUME NEW rows
  PROVE  /\ After(Wipe, rows) = rows \ Grants(Administrator)
         /\ Wipe.do = "statement" /\ Wipe.upsert /\ Wipe.add = {}
         /\ Fewer(After(Wipe, rows), rows) /\ (RowsOk(rows) => RowsOk(After(Wipe, rows)))
<1>1. /\ After(Wipe, rows) = rows \ Grants(Administrator)
      /\ Wipe.do = "statement" /\ Wipe.upsert /\ Wipe.add = {}
  BY DEF Wipe, Delete, Statement, After
<1>2. Fewer(After(Wipe, rows), rows)
  BY <1>1 DEF Fewer, Parents, Linked
<1>3. AdministratorActive \notin Grants(Administrator)
  BY DEF Grants, Links, AdministratorActive
<1>4. RowsOk(rows) => RowsOk(After(Wipe, rows))
  BY <1>1, <1>3 DEF RowsOk
<1>. QED
  BY <1>1, <1>2, <1>4

LEMMA LinkDoes ==
  ASSUME NEW c \in Role, NEW p \in Role, NEW rows
  PROVE  LET s == Insert(<<"inherits", c, p>>, {<<"inherits", c, p>>}) IN
         /\ After(s, rows) = rows \cup {<<"inherits", c, p>>}
         /\ s.do = "statement" /\ s.upsert /\ s.add = {<<"inherits", c, p>>}
         /\ OneMore(After(s, rows), rows, c, p) /\ (RowsOk(rows) => RowsOk(After(s, rows)))
<1>. DEFINE s == Insert(<<"inherits", c, p>>, {<<"inherits", c, p>>})
<1>1. /\ After(s, rows) = rows \cup {<<"inherits", c, p>>}
      /\ s.do = "statement" /\ s.upsert /\ s.add = {<<"inherits", c, p>>}
  BY DEF Insert, Statement, After
<1>. HIDE DEF s
<1>2. OneMore(After(s, rows), rows, c, p)
  BY <1>1 DEF OneMore, Parents, Linked
<1>3. RowsOk(rows) => RowsOk(After(s, rows))
  BY <1>1 DEF RowsOk, AdministratorInactive
<1>. QED
  BY <1>1, <1>2, <1>3 DEF s

----------------------------------------------------------------------------
\* The steps to come, while the rows change

LEMMA NotLink ==
  ASSUME NEW c \in Role, NEW s, NEW rows, IsLink(c, s, rows)
  PROVE  ~StepOk(TRUE, s) /\ s.do = "statement"
<1>1. PICK p \in Role : s = Insert(<<"inherits", c, p>>, {<<"inherits", c, p>>})
  BY DEF IsLink
<1>2. s.do = "statement" /\ s.add = {<<"inherits", c, p>>}
  BY <1>1, LinkDoes
<1>3. ~StatementOk(s)
  BY <1>2 DEF StatementOk, Plain
<1>4. ASSUME NEW q, NEW kind \in {"allow", "deny"}
      PROVE  s # GrantStep(kind, q)
  <2>1. GrantStep(kind, q).add = {<<kind, Administrator, q>>}
    BY GrantDoes
  <2>2. <<kind, Administrator, q>> # <<"inherits", c, p>>
    OBVIOUS
  <2>. QED
    BY <1>2, <2>1, <2>2
<1>5. ~IsAllow(s) /\ ~IsDeny(s)
  BY <1>4 DEF IsAllow, IsDeny, AllowStep
<1>. QED
  BY <1>2, <1>3, <1>5 DEF StepOk, SimpleOk

LEMMA NotPlain ==
  ASSUME NEW s, IsAllow(s)
  PROVE  ~StatementOk(s) /\ s.do = "statement" /\ s.upsert /\ s.needs = {}
<1>1. PICK p \in Perm : s = GrantStep("allow", p)
  BY DEF IsAllow, AllowStep
<1>2. s.add = {<<"allow", Administrator, p>>} /\ s.do = "statement" /\ s.upsert /\ s.needs = {}
  BY <1>1, GrantDoes
<1>. QED
  BY <1>2 DEF StatementOk, Plain, IsGrant

\* What is left to do is a sequence.
LEMMA WellSeq ==
  ASSUME NEW may, NEW l, NEW rows, Well(may, l, rows)
  PROVE  \E S : l \in Seq(S)
BY DEF Well, ListOk, LinkList, WipeList

\* Until links and grants are written, nothing but statements is done for them.
LEMMA NoStatement ==
  ASSUME NEW may \in BOOLEAN, NEW l, NEW rows, Well(may, l, rows), l # <<>>, Head(l).do # "statement"
  PROVE  ListOk(may, l)
<1>1. CASE may /\ LinkList(l, rows)
  <2>1. PICK S : l \in Seq(S)
    BY <1>1 DEF LinkList
  <2>2. PICK c \in Role, n \in Nat : LinksFirst(l, c, n, rows)
    BY <1>1 DEF LinkList
  <2>3. 1 \in DOMAIN l /\ Head(l) = l[1] /\ DOMAIN l = 1..Len(l) /\ Len(l) \in Nat
    BY <2>1
  <2>4. n = 0
    <3>. SUFFICES ASSUME n # 0 PROVE FALSE
      OBVIOUS
    <3>1. 1 <= n
      BY <2>2
    <3>. QED
      BY <2>2, <2>3, <3>1, NotLink DEF LinksFirst
  <2>5. ASSUME NEW i \in DOMAIN l
        PROVE  StepOk(TRUE, l[i])
    <3>1. ~(i <= 0)
      BY <2>3
    <3>. QED
      BY <2>2, <2>4, <3>1 DEF LinksFirst
  <2>. DEFINE T == {l[i] : i \in DOMAIN l}
  <2>6. l \in Seq(T)
    BY <2>1
  <2>7. \A s \in T : StepOk(TRUE, s)
    BY <2>5
  <2>. HIDE DEF T
  <2>8. ListOk(TRUE, l)
    BY <2>6, <2>7 DEF ListOk
  <2>9. may = TRUE
    BY <1>1
  <2>. QED
    BY <2>8, <2>9
<1>2. CASE may /\ WipeList(l)
  BY <1>2, WipeDoes DEF WipeList
<1>. QED
  BY <1>1, <1>2 DEF Well

LEMMA StatementSorts ==
  ASSUME NEW may \in BOOLEAN, NEW l, NEW rows, Well(may, l, rows), l # <<>>, Head(l).do = "statement"
  PROVE  \/ StatementOk(Head(l))
         \/ may /\ \/ IsAllow(Head(l)) \/ IsDeny(Head(l)) \/ WipeList(l)
                   \/ \E c \in Role : IsLink(c, Head(l), rows)
<1>0. \A b \in BOOLEAN : StepOk(b, Head(l)) => StatementOk(Head(l)) \/ (b /\ (IsAllow(Head(l)) \/ IsDeny(Head(l))))
  BY DEF StepOk, SimpleOk
<1>1. CASE ListOk(may, l)
  BY <1>0, <1>1, ListTail
<1>2. CASE may /\ LinkList(l, rows)
  <2>1. PICK S : l \in Seq(S)
    BY <1>2 DEF LinkList
  <2>2. 1 \in DOMAIN l /\ Head(l) = l[1]
    BY <2>1
  <2>3. StepOk(TRUE, Head(l)) \/ \E c \in Role : IsLink(c, Head(l), rows)
    BY <1>2, <2>2 DEF LinkList, LinksFirst
  <2>. QED
    BY <1>0, <1>2, <2>3
<1>. QED
  BY <1>1, <1>2 DEF Well

\* What catches an error is no part of links and grants.
LEMMA CaughtOk ==
  ASSUME NEW may \in BOOLEAN, NEW l, NEW rows, Well(may, l, rows), l # <<>>,
         NEW i \in DOMAIN Tail(l), Tail(l)[i].do = "catch"
  PROVE  ListOk(may, Tail(l)[i].steps)
<1>0. PICK S : l \in Seq(S)
  BY WellSeq
<1>1. i + 1 \in DOMAIN l /\ Tail(l)[i] = l[i + 1]
  BY <1>0
<1>2. \A b \in BOOLEAN : StepOk(b, Tail(l)[i]) => ListOk(b, Tail(l)[i].steps)
  BY SimpleIsList DEF StepOk, SimpleOk, StatementOk, IsAllow, IsDeny, AllowStep, GrantStep, Insert, Statement
<1>3. CASE ListOk(may, l)
  BY <1>1, <1>2, <1>3, ListAt
<1>4. CASE may /\ LinkList(l, rows)
  <2>1. StepOk(TRUE, l[i + 1]) \/ \E c \in Role : IsLink(c, l[i + 1], rows)
    BY <1>1, <1>4 DEF LinkList, LinksFirst
  <2>2. StepOk(TRUE, l[i + 1])
    BY <1>1, <2>1, NotLink
  <2>. QED
    BY <1>1, <1>2, <1>4, <2>2
<1>5. CASE may /\ WipeList(l)
  <2>1. StepOk(TRUE, Tail(l)[i])
    BY <1>5, ListAt DEF WipeList
  <2>. QED
    BY <1>2, <1>5, <2>1
<1>. QED
  BY <1>3, <1>4, <1>5 DEF Well

\* Links of a role stay lawful where it does not get above more roles.
LEMMA LinkStays ==
  ASSUME NEW rows, NEW new, NEW c \in Role, \A p \in Role : c \notin Above(p, rows) => c \notin Above(p, new)
  PROVE  \A s : IsLink(c, s, rows) => IsLink(c, s, new)
BY DEF IsLink

LEMMA FewerStays ==
  ASSUME NEW rows, NEW new, Fewer(new, rows), NEW c \in Role
  PROVE  \A p \in Role : c \notin Above(p, rows) => c \notin Above(p, new)
BY AboveFewer

LEMMA WellStays ==
  ASSUME NEW may, NEW l, NEW rows, NEW new, Well(may, l, rows), Fewer(new, rows)
  PROVE  Well(may, l, new)
<1>1. LinkList(l, rows) => LinkList(l, new)
  <2>. SUFFICES ASSUME LinkList(l, rows) PROVE LinkList(l, new)
    OBVIOUS
  <2>1. PICK c \in Role, n \in Nat : LinksFirst(l, c, n, rows)
    BY DEF LinkList
  <2>2. \A s : IsLink(c, s, rows) => IsLink(c, s, new)
    BY FewerStays, LinkStays
  <2>. QED
    BY <2>1, <2>2 DEF LinkList, LinksFirst
<1>. QED
  BY <1>1 DEF Well

LEMMA LinkTail ==
  ASSUME NEW l, NEW S, l \in Seq(S), l # <<>>, NEW rows, NEW new, NEW c \in Role, NEW n \in Nat,
         LinksFirst(l, c, n, rows),
         \A p \in Role : c \notin Above(p, rows) => c \notin Above(p, new)
  PROVE  LinkList(Tail(l), new)
<1>. DEFINE k == IF n = 0 THEN 0 ELSE n - 1
<1>1. k \in Nat
  OBVIOUS
<1>2. \A s : IsLink(c, s, rows) => IsLink(c, s, new)
  BY LinkStays
<1>3. Tail(l) \in Seq(S) /\ \A i \in DOMAIN Tail(l) : i \in Nat /\ i > 0 /\ i + 1 \in DOMAIN l /\ Tail(l)[i] = l[i + 1]
  OBVIOUS
<1>4. ASSUME NEW i \in DOMAIN Tail(l)
      PROVE  \/ StepOk(TRUE, Tail(l)[i]) /\ (i <= k => Tail(l)[i].do = "statement")
             \/ i <= k /\ IsLink(c, Tail(l)[i], new)
  <2>1. i + 1 <= n <=> i <= k
    BY <1>3
  <2>. QED
    BY <1>2, <1>3, <2>1 DEF LinksFirst
<1>. QED
  BY <1>1, <1>3, <1>4 DEF LinkList, LinksFirst

\* The rest of the steps, after one that lets no role inherit.
LEMMA RestOk ==
  ASSUME NEW may, NEW l, NEW rows, NEW new, Well(may, l, rows), l # <<>>, Fewer(new, rows)
  PROVE  Well(may, Tail(l), new)
<1>1. CASE ListOk(may, l)
  BY <1>1, ListTail DEF Well
<1>2. CASE may /\ LinkList(l, rows)
  <2>1. PICK S : l \in Seq(S)
    BY <1>2 DEF LinkList
  <2>2. PICK c \in Role, n \in Nat : LinksFirst(l, c, n, rows)
    BY <1>2 DEF LinkList
  <2>3. LinkList(Tail(l), new)
    BY <2>1, <2>2, FewerStays, LinkTail
  <2>. QED
    BY <1>2, <2>3 DEF Well
<1>3. CASE may /\ WipeList(l)
  <2>1. ListOk(TRUE, Tail(l))
    BY <1>3 DEF WipeList
  <2>2. may /\ ListOk(TRUE, Tail(l)) => ListOk(may, Tail(l))
    BY DEF ListOk, StepOk, SimpleList, SimpleOk, CallOk
  <2>. QED
    BY <1>3, <2>1, <2>2 DEF Well
<1>. QED
  BY <1>1, <1>2, <1>3 DEF Well

\* And after a link: it leads to a role that c is not above, so c gets above no more roles.
LEMMA RestLinked ==
  ASSUME NEW l, NEW rows, Well(TRUE, l, rows), l # <<>>, NEW c \in Role, IsLink(c, Head(l), rows)
  PROVE  Well(TRUE, Tail(l), After(Head(l), rows))
<1>. DEFINE new == After(Head(l), rows)
<1>1. ~StepOk(TRUE, Head(l)) /\ ~ListOk(TRUE, l)
  BY NotLink, ListTail
<1>2. ~WipeList(l)
  <2>1. Wipe.add = {}
    BY WipeDoes
  <2>2. Head(l).add # {}
    BY LinkDoes DEF IsLink
  <2>. QED
    BY <2>1, <2>2 DEF WipeList
<1>3. LinkList(l, rows)
  BY <1>1, <1>2 DEF Well
<1>4. PICK S : l \in Seq(S)
  BY <1>3 DEF LinkList
<1>5. PICK d \in Role, n \in Nat : LinksFirst(l, d, n, rows)
  BY <1>3 DEF LinkList
<1>6. IsLink(d, Head(l), rows)
  <2>1. 1 \in DOMAIN l /\ Head(l) = l[1]
    BY <1>4
  <2>. QED
    BY <1>1, <1>5, <2>1 DEF LinksFirst
<1>7. PICK p \in Role : Head(l) = Insert(<<"inherits", d, p>>, {<<"inherits", d, p>>})
  BY <1>6 DEF IsLink
<1>8. OneMore(new, rows, d, p)
  BY <1>7, LinkDoes
<1>. HIDE DEF new
<1>9. \A r \in Role : d \notin Above(r, rows) => d \notin Above(r, new)
  BY <1>8, AboveOther
<1>10. LinkList(Tail(l), new)
  BY <1>4, <1>5, <1>9, LinkTail
<1>. QED
  BY <1>10 DEF Well, new

----------------------------------------------------------------------------
\* Everything is allowed again

LEMMA MendingHead ==
  ASSUME NEW l, NEW S, l \in Seq(S), NEW rows, Mending(l, rows)
  PROVE  l # <<>> /\ IsAllow(Head(l)) /\ Head(l).clash \cap rows = {}
<1>1. PICK k \in Nat : Restores(l, 1, k) /\ \A j \in 1..k : l[j].clash \cap rows = {}
  BY DEF Mending
<1>2. l # <<>> /\ Head(l) = l[1] /\ 1 \in 1..k
  BY <1>1 DEF Restores
<1>. QED
  BY <1>1, <1>2 DEF Restores

LEMMA NotMending ==
  ASSUME NEW rows
  PROVE  ~Mending(<<>>, rows)
BY DEF Mending, Restores

\* Where the administrator is given no grant by others, those to come can still be given.
LEMMA MendingStays ==
  ASSUME NEW l, NEW rows, NEW new, Mending(l, rows), Mild(rows, new)
  PROVE  Mending(l, new)
<1>1. PICK k \in Nat : Restores(l, 1, k) /\ \A j \in 1..k : l[j].clash \cap rows = {}
  BY DEF Mending
<1>2. ASSUME NEW j \in 1..k
      PROVE  l[j].clash \cap new = {}
  <2>1. PICK p \in Perm : l[j] = GrantStep("allow", p)
    BY <1>1 DEF Restores, IsAllow, AllowStep
  <2>2. l[j].clash = {<<"allow", Administrator, p>>, <<"deny", Administrator, p>>}
    BY <2>1, GrantDoes
  <2>3. l[j].clash \cap rows = {}
    BY <1>1
  <2>. QED
    BY <2>2, <2>3 DEF Mild
<1>. QED
  BY <1>1, <1>2 DEF Mending

\* One grant less to come, or everything allowed.
LEMMA MendingGoes ==
  ASSUME NEW l, NEW S, l \in Seq(S), NEW rows, Mending(l, rows)
  PROVE  AllowAll \in After(Head(l), rows) \/ Mending(Tail(l), After(Head(l), rows))
<1>. DEFINE new == After(Head(l), rows)
<1>1. PICK k \in Nat : Restores(l, 1, k) /\ \A j \in 1..k : l[j].clash \cap rows = {}
  BY DEF Mending
<1>2. l # <<>> /\ Head(l) = l[1] /\ 1 \in 1..k /\ k \in 1..Len(l) /\ Len(l) \in Nat
  BY <1>1 DEF Restores
<1>3. PICK p \in Perm : l[1] = GrantStep("allow", p)
  BY <1>1, <1>2 DEF Restores, IsAllow, AllowStep
<1>4. new = rows \cup {<<"allow", Administrator, p>>}
  BY <1>2, <1>3, GrantDoes
<1>. HIDE DEF new
<1>5. CASE k = 1
  <2>1. l[1] = GrantStep("allow", All)
    BY <1>1, <1>5 DEF Restores, AllowStep
  <2>2. new = rows \cup {<<"allow", Administrator, All>>}
    BY <1>2, <2>1, GrantDoes DEF new
  <2>. QED
    BY <2>2 DEF AllowAll, new
<1>6. CASE k # 1
  <2>1. Tail(l) \in Seq(S) /\ k - 1 \in DOMAIN Tail(l) /\ k - 1 \in Nat /\ 1 <= k - 1
        /\ \A j \in 1..k - 1 : j + 1 \in 1..k /\ j + 1 # 1 /\ Tail(l)[j] = l[j + 1]
    BY <1>2, <1>6
  <2>2. Restores(Tail(l), 1, k - 1)
    <3>1. Tail(l)[k - 1] = AllowStep(All)
      <4>1. k - 1 + 1 = k /\ k - 1 \in 1..k - 1
        BY <2>1
      <4>. QED
        BY <1>1, <2>1, <4>1 DEF Restores
    <3>2. \A j \in 1..k - 1 : IsAllow(Tail(l)[j])
      BY <1>1, <2>1 DEF Restores
    <3>3. ASSUME NEW j \in 1..k - 1, NEW m \in 1..k - 1, Tail(l)[j] = Tail(l)[m]
          PROVE  j = m
      <4>1. l[j + 1] = l[m + 1] /\ j + 1 \in 1..k /\ m + 1 \in 1..k
        BY <2>1, <3>3
      <4>2. j + 1 = m + 1
        BY <1>1, <4>1 DEF Restores
      <4>. QED
        BY <4>2
    <3>. QED
      BY <2>1, <3>1, <3>2, <3>3 DEF Restores
  <2>3. ASSUME NEW j \in 1..k - 1
        PROVE  Tail(l)[j].clash \cap new = {}
    <3>1. PICK q \in Perm : Tail(l)[j] = GrantStep("allow", q)
      BY <2>2 DEF Restores, IsAllow, AllowStep
    <3>2. q # p
      <4>1. l[j + 1] # l[1]
        BY <1>1, <1>2, <2>1 DEF Restores
      <4>. QED
        BY <1>3, <2>1, <3>1, <4>1
    <3>3. Tail(l)[j].clash = {<<"allow", Administrator, q>>, <<"deny", Administrator, q>>}
      BY <3>1, GrantDoes
    <3>4. Tail(l)[j].clash \cap rows = {}
      BY <1>1, <2>1
    <3>5. <<"allow", Administrator, q>> # <<"allow", Administrator, p>> /\ <<"deny", Administrator, q>> # <<"allow", Administrator, p>>
      BY <3>2
    <3>6. <<"allow", Administrator, p>> \notin Tail(l)[j].clash
      BY <3>3, <3>5
    <3>. QED
      BY <1>4, <3>4, <3>6
  <2>4. Mending(Tail(l), new)
    BY <2>1, <2>2, <2>3 DEF Mending
  <2>. QED
    BY <2>4 DEF new
<1>. QED
  BY <1>5, <1>6

\* Once all grants of the administrator have gone, nothing keeps the new ones from coming.
LEMMA WipeMends ==
  ASSUME NEW l, WipeList(l), NEW rows
  PROVE  Mending(Tail(l), After(Head(l), rows))
<1>. DEFINE new == After(Head(l), rows)
<1>1. Head(l) = Wipe /\ l # <<>>
  BY DEF WipeList
<1>2. PICK S : l \in Seq(S)
  BY DEF WipeList
<1>3. PICK k \in Nat : Restores(l, 2, k)
  BY DEF WipeList
<1>4. new = rows \ Grants(Administrator)
  BY <1>1, WipeDoes
<1>. HIDE DEF new
<1>5. Tail(l) \in Seq(S) /\ k - 1 \in DOMAIN Tail(l) /\ k - 1 \in Nat /\ 1 <= k - 1
      /\ \A j \in 1..k - 1 : j + 1 \in 2..k /\ Tail(l)[j] = l[j + 1]
  BY <1>1, <1>2, <1>3 DEF Restores
<1>6. Restores(Tail(l), 1, k - 1)
  <2>1. Tail(l)[k - 1] = AllowStep(All)
    <3>1. k - 1 + 1 = k /\ k - 1 \in 1..k - 1
      BY <1>5
    <3>. QED
      BY <1>3, <1>5, <3>1 DEF Restores
  <2>2. \A j \in 1..k - 1 : IsAllow(Tail(l)[j])
    BY <1>3, <1>5 DEF Restores
  <2>3. ASSUME NEW j \in 1..k - 1, NEW m \in 1..k - 1, Tail(l)[j] = Tail(l)[m]
        PROVE  j = m
    <3>1. l[j + 1] = l[m + 1] /\ j + 1 \in 2..k /\ m + 1 \in 2..k
      BY <1>5, <2>3
    <3>2. j + 1 = m + 1
      BY <1>3, <3>1 DEF Restores
    <3>. QED
      BY <3>2
  <2>. QED
    BY <1>5, <2>1, <2>2, <2>3 DEF Restores
<1>7. ASSUME NEW j \in 1..k - 1
      PROVE  Tail(l)[j].clash \cap new = {}
  <2>1. PICK q \in Perm : Tail(l)[j] = GrantStep("allow", q)
    BY <1>6 DEF Restores, IsAllow, AllowStep
  <2>2. Tail(l)[j].clash = {<<"allow", Administrator, q>>, <<"deny", Administrator, q>>}
    BY <2>1, GrantDoes
  <2>3. Tail(l)[j].clash \subseteq Grants(Administrator)
    <3>1. <<"allow", Administrator, q>> \in Links("allow", {Administrator}, Perm)
          /\ <<"deny", Administrator, q>> \in Links("deny", {Administrator}, Perm)
      BY DEF Links
    <3>. QED
      BY <2>2, <3>1 DEF Grants
  <2>. QED
    BY <1>4, <2>3
<1>8. Mending(Tail(l), new)
  BY <1>5, <1>6, <1>7 DEF Mending
<1>. QED
  BY <1>8 DEF new

----------------------------------------------------------------------------
\* The invariant

Sound(rows) ==
  /\ AcyclicAtStart => Acyclic(rows)
  /\ RowsOk(rows)
  /\ Established => DenyAll \notin rows

\* Who only looks into the cache has nothing else to do.
Looks(o, l) == o \in Key => \A i \in DOMAIN l : l[i].do \in {"read", "fill"}

Under(one, w, o, l) ==
  worker[w] = [op |-> o, todo |-> l] /\ l # <<>> /\ Well(w = one, l, db) /\ Looks(o, l)
Held(one, w) == worker[w] = Site!Idle \/ \E o, l : Under(one, w, o, l)
Kept(one) == Established /\ faults = 0 => AllowAll \in db \/ Mending(worker[one].todo, db)
Inv(one) ==
  /\ DOMAIN worker = Worker
  /\ faults \in Nat
  /\ Sound(db)
  /\ Kept(one)
  /\ \A w \in Worker : Held(one, w)

LEMMA InitInv ==
  ASSUME NEW one \in Worker, Site!Init
  PROVE  Inv(one)
<1>1. DOMAIN worker = Worker /\ \A w \in Worker : worker[w] = Site!Idle
  BY DEF Site!Init
<1>2. db \in Start /\ faults = 0
  BY DEF Site!Init
<1>3. Sound(db)
  BY <1>2 DEF Sound, RowsOk, AcyclicAtStart, Established
<1>4. Kept(one)
  BY <1>2 DEF Kept, Established
<1>. QED
  BY <1>1, <1>2, <1>3, <1>4 DEF Inv, Held

\* A request goes on with other steps.
LEMMA InsteadDoes ==
  ASSUME NEW w \in Worker, DOMAIN worker = Worker, NEW o, NEW l, worker[w] = [op |-> o, todo |-> l],
         NEW steps, Site!Instead(w, steps)
  PROVE  /\ (DOMAIN worker)' = Worker
         /\ \A v \in Worker : v # w => worker'[v] = worker[v]
         /\ worker'[w] = IF steps = <<>> THEN Site!Idle ELSE [op |-> o, todo |-> steps]
         /\ worker'[w].todo = steps
<1>. DEFINE new == IF steps = <<>> THEN Site!Idle ELSE [worker[w] EXCEPT !.todo = steps]
<1>1. worker' = [worker EXCEPT ![w] = new]
  BY DEF Site!Instead
<1>2. new = IF steps = <<>> THEN Site!Idle ELSE [op |-> o, todo |-> steps]
  OBVIOUS
<1>. HIDE DEF new
<1>3. /\ (DOMAIN worker)' = Worker
      /\ \A v \in Worker : v # w => worker'[v] = worker[v]
      /\ worker'[w] = IF steps = <<>> THEN Site!Idle ELSE [op |-> o, todo |-> steps]
  BY <1>1, <1>2
<1>. QED
  BY <1>3 DEF Site!Idle

LEMMA Goes ==
  ASSUME NEW one \in Worker, Inv(one), NEW w \in Worker, NEW o, NEW l, Under(one, w, o, l),
         NEW steps, Site!Instead(w, steps), faults' \in Nat, Sound(db'),
         \A v \in Worker \ {w} : \A m : Well(v = one, m, db) => Well(v = one, m, db'),
         steps # <<>> => Well(w = one, steps, db') /\ Looks(o, steps),
         Established /\ faults' = 0 =>
           AllowAll \in db' \/ Mending(IF w = one THEN steps ELSE worker[one].todo, db')
  PROVE  Inv(one)'
<1>1. /\ (DOMAIN worker)' = Worker
      /\ \A v \in Worker : v # w => worker'[v] = worker[v]
      /\ worker'[w] = IF steps = <<>> THEN Site!Idle ELSE [op |-> o, todo |-> steps]
      /\ worker'[w].todo = steps
  BY InsteadDoes DEF Inv, Under
<1>2. ASSUME NEW v \in Worker
      PROVE  Held(one, v)'
  <2>1. CASE v = w
    BY <1>1, <2>1 DEF Held, Under, Site!Idle
  <2>2. CASE v # w
    <3>1. worker'[v] = worker[v] /\ v \in Worker \ {w}
      BY <1>1, <2>2
    <3>2. Held(one, v)
      BY DEF Inv
    <3>. QED
      BY <3>1, <3>2 DEF Held, Under, Site!Idle
  <2>. QED
    BY <2>1, <2>2
<1>3. Kept(one)'
  BY <1>1 DEF Kept
<1>4. faults' \in Nat /\ Sound(db') /\ (DOMAIN worker)' = Worker
  BY <1>1
<1>. QED
  BY <1>2, <1>3, <1>4 DEF Inv

\* A request that does not give the administrator his grants back goes on, and the rows stay.
LEMMA GoesOn ==
  ASSUME NEW one \in Worker, Inv(one), NEW w \in Worker, NEW o, NEW l, Under(one, w, o, l),
         NEW steps, Site!Instead(w, steps), faults' \in Nat, faults' = 0 => faults = 0, db' = db,
         w = one /\ faults' = 0 => ~Mending(l, db),
         steps # <<>> => Well(w = one, steps, db) /\ Looks(o, steps)
  PROVE  Inv(one)'
<1>1. Sound(db')
  BY DEF Inv
<1>2. Established /\ faults' = 0 =>
        AllowAll \in db' \/ Mending(IF w = one THEN steps ELSE worker[one].todo, db')
  BY DEF Inv, Kept, Under
<1>. QED
  BY <1>1, <1>2, Goes

\* A request begins.
LEMMA Starts ==
  ASSUME NEW one \in Worker, Inv(one), NEW w \in Worker, ~Site!Busy(w), NEW o, NEW l, l # <<>>,
         worker' = [worker EXCEPT ![w] = [op |-> o, todo |-> l]], Well(w = one, l, db), Looks(o, l),
         db' = db, faults' = faults
  PROVE  Inv(one)'
<1>. DEFINE new == [op |-> o, todo |-> l]
<1>. HIDE DEF new
<1>1. /\ (DOMAIN worker)' = Worker
      /\ \A v \in Worker : v # w => worker'[v] = worker[v]
      /\ worker'[w] = new
  BY DEF Inv, new
<1>2. ASSUME NEW v \in Worker
      PROVE  Held(one, v)'
  <2>1. CASE v = w
    BY <1>1, <2>1 DEF Held, Under, new
  <2>2. CASE v # w
    <3>1. worker'[v] = worker[v]
      BY <1>1, <2>2
    <3>2. Held(one, v)
      BY DEF Inv
    <3>. QED
      BY <3>1, <3>2 DEF Held, Under, Site!Idle
  <2>. QED
    BY <2>1, <2>2
<1>3. Kept(one)'
  <2>1. worker[w].todo = <<>>
    BY DEF Site!Busy, Site!Idle
  <2>2. ~Mending(worker[w].todo, db)
    BY <2>1, NotMending
  <2>. QED
    BY <1>1, <2>2 DEF Inv, Kept
<1>4. faults' \in Nat /\ Sound(db')
  BY DEF Inv
<1>. QED
  BY <1>1, <1>2, <1>3, <1>4 DEF Inv

LEMMA Begins ==
  ASSUME NEW one \in Worker, OneForRoles(one), Inv(one), NEW w \in Worker, Site!Begin(w)
  PROVE  Inv(one)'
<1>1. PICK o \in Does[w] \ Key : worker' = [worker EXCEPT ![w] = [op |-> o, todo |-> <<Call(o)>>]]
  BY DEF Site!Begin, Site!Call, Call
<1>2. db' = db /\ faults' = faults /\ ~Site!Busy(w)
  BY DEF Site!Begin
<1>3. o \in Request /\ (o[1] \in {"roleForm", "boot"} => w = one)
  BY <1>1, AccessDoesAssumption DEF OneForRoles
<1>4. CallOk(w = one, o)
  BY <1>3 DEF CallOk
<1>5. Well(w = one, <<Call(o)>>, db)
  <2>1. ASSUME NEW may, CallOk(may, o)
        PROVE  ListOk(may, <<Call(o)>>)
    BY <2>1, CallStep, ListOf
  <2>. QED
    BY <1>4, <2>1 DEF Well
<1>6. Looks(o, <<Call(o)>>)
  BY <1>1 DEF Looks
<1>. QED
  BY <1>1, <1>2, <1>5, <1>6, Starts

LEMMA Views ==
  ASSUME NEW one \in Worker, Inv(one), NEW w \in Worker, Site!View(w)
  PROVE  Inv(one)'
<1>1. PICK k \in Key : worker' = [worker EXCEPT ![w] = [op |-> k, todo |-> <<Read(k)>>]]
  BY DEF Site!View, Site!Read, Read
<1>2. db' = db /\ faults' = faults /\ ~Site!Busy(w)
  BY DEF Site!View
<1>3. Well(w = one, <<Read(k)>>, db)
  <2>1. ASSUME NEW may PROVE ListOk(may, <<Read(k)>>)
    BY OtherStep, ListOf
  <2>. QED
    BY <2>1 DEF Well
<1>4. Looks(k, <<Read(k)>>)
  BY DEF Looks, Read
<1>. QED
  BY <1>1, <1>2, <1>3, <1>4, Starts

----------------------------------------------------------------------------
\* Steps that leave the rows as they are

LEMMA AtIs ==
  ASSUME NEW one \in Worker, Inv(one), NEW w \in Worker, NEW do, Site!At(w, do)
  PROVE  \E o, l : Under(one, w, o, l) /\ Head(l).do = do
<1>1. PICK o, l : Under(one, w, o, l)
  BY DEF Inv, Held, Site!At, Site!Busy
<1>2. Head(l).do = do
  BY <1>1 DEF Site!At, Under
<1>. QED
  BY <1>1, <1>2

\* Who does more than look into the cache may do whatever comes.
LEMMA LooksNot ==
  ASSUME NEW one, NEW w, NEW o, NEW l, Under(one, w, o, l), Head(l).do \notin {"read", "fill"}
  PROVE  \A m : Looks(o, m)
<1>1. PICK S : l \in Seq(S)
  BY WellSeq DEF Under
<1>2. 1 \in DOMAIN l /\ Head(l) = l[1]
  BY <1>1 DEF Under
<1>. QED
  BY <1>2 DEF Looks, Under

LEMMA LooksTail ==
  ASSUME NEW one, NEW w, NEW o, NEW l, Under(one, w, o, l)
  PROVE  Looks(o, Tail(l))
<1>1. PICK S : l \in Seq(S)
  BY WellSeq DEF Under
<1>2. \A i \in DOMAIN Tail(l) : i + 1 \in DOMAIN l /\ Tail(l)[i] = l[i + 1]
  BY <1>1 DEF Under
<1>. QED
  BY <1>2 DEF Looks, Under

LEMMA MendingDoes ==
  ASSUME NEW one, NEW w, NEW o, NEW l, Under(one, w, o, l), Mending(l, db)
  PROVE  /\ IsAllow(Head(l)) /\ ~StatementOk(Head(l)) /\ Head(l).do = "statement" /\ Head(l).upsert
         /\ Head(l).needs = {} /\ Head(l).clash \cap db = {}
<1>1. PICK S : l \in Seq(S)
  BY WellSeq DEF Under
<1>. QED
  BY <1>1, MendingHead, NotPlain

\* The steps that come after one which is skipped.
LEMMA WellTail ==
  ASSUME NEW one, NEW w, NEW o, NEW l, Under(one, w, o, l)
  PROVE  Well(w = one, Tail(l), db)
BY MildNot, RestOk DEF Under, Mild

LEMMA Proceeds ==
  ASSUME NEW one \in Worker, Inv(one), NEW w \in Worker, NEW o, NEW l, Under(one, w, o, l),
         Site!Proceed(w), faults' \in Nat, faults' = 0 => faults = 0, db' = db, w = one /\ faults' = 0 => ~Mending(l, db)
  PROVE  Inv(one)'
<1>1. Site!Instead(w, Tail(l))
  BY DEF Site!Proceed, Site!Later, Under
<1>. QED
  BY <1>1, WellTail, LooksTail, GoesOn

LEMMA Errors ==
  ASSUME NEW one \in Worker, Inv(one), NEW w \in Worker, NEW o, NEW l, Under(one, w, o, l),
         Head(l).do \notin {"read", "fill"},
         Site!Error(w), faults' \in Nat, faults' = 0 => faults = 0, db' = db, w = one /\ faults' = 0 => ~Mending(l, db)
  PROVE  Inv(one)'
<1>1. PICK steps : /\ Site!Instead(w, steps)
                   /\ steps = <<>> \/ \E i \in DOMAIN Tail(l) : Tail(l)[i].do = "catch" /\ steps = Tail(l)[i].steps
  BY DEF Site!Error, Site!Later, Under
<1>2. steps # <<>> => ListOk(w = one, steps)
  <2>. DEFINE may == w = one
  <2>1. may \in BOOLEAN /\ Well(may, l, db) /\ l # <<>>
    BY DEF Under
  <2>. HIDE DEF may
  <2>2. steps # <<>> => ListOk(may, steps)
    BY <1>1, <2>1, CaughtOk
  <2>. QED
    BY <2>2 DEF may
<1>3. steps # <<>> => Well(w = one, steps, db) /\ Looks(o, steps)
  BY <1>2, LooksNot DEF Well
<1>. QED
  BY <1>1, <1>3, GoesOn

LEMMA Expands ==
  ASSUME NEW one \in Worker, Inv(one), NEW w \in Worker, Site!Expand(w)
  PROVE  Inv(one)'
<1>1. PICK o, l : Under(one, w, o, l) /\ Head(l).do = "call"
  BY AtIs DEF Site!Expand
<1>2. db' = db /\ faults' = faults /\ faults \in Nat /\ RowsOk(db)
  BY DEF Site!Expand, Inv, Sound
<1>. DEFINE may == w = one
            plan == Plan(Head(l).op, db, cached)
<1>3. Site!Instead(w, plan \o Tail(l))
  BY <1>1 DEF Site!Expand, Site!Now, Site!Later, Under
<1>4. may \in BOOLEAN /\ Well(may, l, db) /\ l # <<>>
  BY <1>1 DEF Under
<1>. HIDE DEF may
<1>5. ListOk(may, l)
  BY <1>1, <1>4, NoStatement
<1>6. ListOk(may, Tail(l)) /\ StepOk(may, Head(l))
  BY <1>4, <1>5, ListTail
<1>7. CallOk(may, Head(l).op)
  BY <1>1, <1>6 DEF StepOk, SimpleOk, StatementOk, IsAllow, IsDeny, AllowStep, GrantStep, Insert, Statement
<1>8. Well(may, plan, db)
  BY <1>2, <1>4, <1>7, PlanOk
<1>. HIDE DEF plan
<1>9. Well(may, plan \o Tail(l), db)
  BY <1>4, <1>6, <1>8, WellConcat
<1>10. Looks(o, plan \o Tail(l))
  BY <1>1, LooksNot
<1>11. ~Mending(l, db)
  BY <1>1, MendingDoes
<1>. QED
  BY <1>1, <1>2, <1>3, <1>9, <1>10, <1>11, GoesOn DEF may

LEMMA CacheSteps ==
  ASSUME NEW one \in Worker, Inv(one), NEW w \in Worker,
         Site!Pass(w) \/ Site!Store(w) \/ Site!Invalidate(w) \/ Site!Omit(w)
  PROVE  Inv(one)'
<1>1. PICK do \in {"catch", "fill", "forget", "overlook"} : Site!At(w, do)
  BY DEF Site!Pass, Site!Store, Site!Invalidate, Site!Omit
<1>2. PICK o, l : Under(one, w, o, l) /\ Head(l).do = do
  BY <1>1, AtIs
<1>3. Site!Proceed(w) /\ db' = db /\ faults' = faults /\ faults \in Nat
  BY DEF Site!Pass, Site!Store, Site!Invalidate, Site!Omit, Inv
<1>4. ~Mending(l, db)
  BY <1>1, <1>2, MendingDoes
<1>. QED
  BY <1>2, <1>3, <1>4, Proceeds

LEMMA GivesUp ==
  ASSUME NEW one \in Worker, Inv(one), NEW w \in Worker, Site!GiveUp(w)
  PROVE  Inv(one)'
<1>1. PICK o, l : Under(one, w, o, l) /\ Head(l).do = "return"
  BY AtIs DEF Site!GiveUp
<1>2. Site!Error(w) /\ db' = db /\ faults' = faults /\ faults \in Nat
  BY DEF Site!GiveUp, Site!Errs, Inv
<1>3. ~Mending(l, db)
  BY <1>1, MendingDoes
<1>. QED
  BY <1>1, <1>2, <1>3, Errors

LEMMA LookSteps ==
  ASSUME NEW one \in Worker, Inv(one), NEW w \in Worker, Site!Look(w)
  PROVE  Inv(one)'
<1>1. PICK o, l : Under(one, w, o, l) /\ Head(l).do = "resolve"
  BY AtIs DEF Site!Look
<1>2. db' = db /\ faults' = faults /\ faults \in Nat
  BY DEF Site!Look, Inv
<1>. DEFINE k == Head(l).key
            first == When(cached[k] = None, <<Read(k)>>)
<1>3. Site!Instead(w, first \o Tail(l))
  BY <1>1 DEF Site!Look, Site!Now, Site!Later, Site!When, When, Site!Read, Read, Under
<1>4. ASSUME NEW may \in BOOLEAN, Well(may, l, db)
      PROVE  Well(may, first \o Tail(l), db)
  <2>1. ListOk(may, l) /\ l # <<>>
    BY <1>1, <1>4, NoStatement DEF Under
  <2>2. ListOk(may, first)
    BY OtherStep, ListOf, ListWhen
  <2>. HIDE DEF first
  <2>. QED
    BY <2>1, <2>2, ListTail, ListConcat DEF Well
<1>. HIDE DEF first
<1>5. Well(w = one, first \o Tail(l), db)
  <2>1. (w = one) \in BOOLEAN /\ Well(w = one, l, db)
    BY <1>1 DEF Under
  <2>. QED
    BY <1>4, <2>1
<1>6. Looks(o, first \o Tail(l))
  BY <1>1, LooksNot
<1>7. ~Mending(l, db)
  BY <1>1, MendingDoes
<1>. QED
  BY <1>1, <1>2, <1>3, <1>5, <1>6, <1>7, GoesOn

LEMMA ReadSteps ==
  ASSUME NEW one \in Worker, Inv(one), NEW w \in Worker, Site!ReadRows(w)
  PROVE  Inv(one)'
<1>1. PICK o, l : Under(one, w, o, l) /\ Head(l).do = "read"
  BY AtIs DEF Site!ReadRows
<1>2. db' = db /\ faults' = faults /\ faults \in Nat
  BY DEF Site!ReadRows, Inv
<1>. DEFINE k == Head(l).key
            fill == Fill(k, Derive(k, db))
<1>3. Site!Instead(w, <<fill>> \o Tail(l))
  BY <1>1 DEF Site!ReadRows, Site!Now, Site!Later, Site!Fill, Fill, Under
<1>4. fill.do = "fill"
  BY DEF Fill
<1>. HIDE DEF fill
<1>5. ASSUME NEW may \in BOOLEAN, Well(may, l, db)
      PROVE  Well(may, <<fill>> \o Tail(l), db)
  <2>1. ListOk(may, l) /\ l # <<>>
    BY <1>1, <1>5, NoStatement DEF Under
  <2>2. ListOk(may, <<fill>>)
    BY <1>4, ListOf DEF StepOk, SimpleOk
  <2>. QED
    BY <2>1, <2>2, ListTail, ListConcat DEF Well
<1>6. Well(w = one, <<fill>> \o Tail(l), db)
  <2>1. (w = one) \in BOOLEAN /\ Well(w = one, l, db)
    BY <1>1 DEF Under
  <2>. QED
    BY <1>5, <2>1
<1>7. Looks(o, <<fill>> \o Tail(l))
  <2>1. PICK S : l \in Seq(S)
    BY <1>1, WellSeq DEF Under
  <2>2. l # <<>> /\ Looks(o, Tail(l))
    BY <1>1, LooksTail DEF Under
  <2>. DEFINE rest == Tail(l)
              T == S \cup {fill}
  <2>3. rest \in Seq(T) /\ <<fill>> \in Seq(T)
    BY <2>1, <2>2
  <2>. HIDE DEF rest, T
  <2>4. ASSUME NEW i \in DOMAIN (<<fill>> \o rest)
        PROVE  (<<fill>> \o rest)[i] = fill \/ \E j \in DOMAIN rest : (<<fill>> \o rest)[i] = rest[j]
    <3>1. i \in 1..Len(rest) + 1 /\ (i # 1 => (<<fill>> \o rest)[i] = rest[i - 1] /\ i - 1 \in DOMAIN rest)
          /\ (i = 1 => (<<fill>> \o rest)[i] = fill)
      BY <2>3
    <3>. QED
      BY <3>1
  <2>5. Looks(o, <<fill>> \o rest)
    BY <1>4, <2>2, <2>4 DEF Looks, rest
  <2>. QED
    BY <2>5 DEF rest
<1>8. ~Mending(l, db)
  BY <1>1, MendingDoes
<1>. QED
  BY <1>1, <1>2, <1>3, <1>6, <1>7, <1>8, GoesOn

----------------------------------------------------------------------------
\* Statements

\* The statement w executes is one that leaves the administrator alone, or comes of a role form or
\* a restart.
LEMMA SqlSorts ==
  ASSUME NEW one \in Worker, NEW w \in Worker, NEW o, NEW l, Under(one, w, o, l), Site!Executing(w)
  PROVE  /\ Head(l).do \in {"statement", "where"}
         /\ Head(l).do = "statement" => Site!Sql(w) = Head(l)
         /\ \/ StatementOk(Site!Sql(w)) /\ ~Mending(l, db)
            \/ /\ w = one /\ Site!Sql(w) = Head(l)
               /\ \/ IsAllow(Head(l)) \/ IsDeny(Head(l)) \/ WipeList(l)
                  \/ \E c \in Role : IsLink(c, Head(l), db)
<1>. DEFINE may == w = one
<1>1. may \in BOOLEAN /\ Well(may, l, db) /\ l # <<>>
  BY DEF Under
<1>2. Head(l).do \in {"statement", "where"}
  BY DEF Site!Executing, Site!At, Under
<1>3. CASE Head(l).do = "statement"
  <2>1. Site!Sql(w) = Head(l)
    BY <1>3 DEF Site!Sql, Site!At, Site!Now, Under
  <2>. HIDE DEF may
  <2>2. \/ StatementOk(Head(l))
        \/ may /\ \/ IsAllow(Head(l)) \/ IsDeny(Head(l)) \/ WipeList(l)
                  \/ \E c \in Role : IsLink(c, Head(l), db)
    BY <1>1, <1>3, StatementSorts
  <2>3. StatementOk(Head(l)) => ~Mending(l, db)
    BY MendingDoes
  <2>. QED
    BY <1>3, <2>1, <2>2, <2>3 DEF may
<1>4. CASE Head(l).do = "where"
  <2>1. Site!Sql(w) = Head(Plan(Head(l).op, db, cached))
    BY <1>4 DEF Site!Sql, Site!At, Site!Now, Site!Executing, Under
  <2>. HIDE DEF may
  <2>2. StepOk(may, Head(l))
    BY <1>1, <1>4, NoStatement, ListTail
  <2>3. WhereOk(Head(l).op)
    BY <1>4, <2>2 DEF StepOk, SimpleOk, StatementOk, IsAllow, IsDeny, AllowStep, GrantStep, Insert, Statement
  <2>4. StatementOk(Site!Sql(w))
    BY <2>1, <2>3, WhereDoes
  <2>5. ~Mending(l, db)
    BY <1>4, MendingDoes
  <2>. QED
    BY <1>4, <2>4, <2>5
<1>. QED
  BY <1>2, <1>3, <1>4

LEMMA SoundMild ==
  ASSUME NEW rows, NEW new, Sound(rows), Mild(rows, new)
  PROVE  Sound(new)
<1>1. All \in Perm
  BY AccessRolesAssumption
<1>2. Established => DenyAll \notin new
  BY <1>1 DEF Sound, Mild, DenyAll
<1>3. AcyclicAtStart => Acyclic(new)
  BY AcyclicFewer DEF Sound, Mild
<1>. QED
  BY <1>2, <1>3 DEF Sound, Mild

\* One of the statements of a role form or a restart.
RoleStatement(l, rows) ==
  IsAllow(Head(l)) \/ IsDeny(Head(l)) \/ WipeList(l) \/ \E c \in Role : IsLink(c, Head(l), rows)

LEMMA RoleSound ==
  ASSUME NEW l, NEW rows, Sound(rows), RoleStatement(l, rows)
  PROVE  Sound(After(Head(l), rows)) /\ Head(l).upsert
<1>. DEFINE new == After(Head(l), rows)
<1>1. CASE IsAllow(Head(l)) \/ IsDeny(Head(l))
  <2>1. PICK kind \in {"allow", "deny"} : \E p \in Perm : Head(l) = GrantStep(kind, p) /\ (kind = "deny" => p # All)
    <3>1. CASE IsAllow(Head(l))
      <4>1. PICK p \in Perm : Head(l) = GrantStep("allow", p)
        BY <3>1 DEF IsAllow, AllowStep
      <4>2. "allow" \in {"allow", "deny"} /\ "allow" # "deny"
        OBVIOUS
      <4>. QED
        BY <4>1, <4>2
    <3>2. CASE IsDeny(Head(l))
      <4>1. PICK p \in Perm \ {All} : Head(l) = GrantStep("deny", p)
        BY <3>2 DEF IsDeny
      <4>2. "deny" \in {"allow", "deny"} /\ p # All
        OBVIOUS
      <4>. QED
        BY <4>1, <4>2
    <3>. QED
      BY <1>1, <3>1, <3>2
  <2>2. PICK p \in Perm : Head(l) = GrantStep(kind, p) /\ (kind = "deny" => p # All)
    BY <2>1
  <2>3. /\ new = rows \cup {<<kind, Administrator, p>>} /\ Head(l).upsert
        /\ Fewer(new, rows) /\ (RowsOk(rows) => RowsOk(new))
    <3>. DEFINE s == GrantStep(kind, p)
    <3>1. After(s, rows) = rows \cup {<<kind, Administrator, p>>} /\ s.upsert
      BY GrantDoes
    <3>2. Fewer(After(s, rows), rows) /\ (RowsOk(rows) => RowsOk(After(s, rows)))
      BY GrantDoes
    <3>3. Head(l) = s
      BY <2>2
    <3>. HIDE DEF s
    <3>. QED
      BY <3>1, <3>2, <3>3
  <2>4. DenyAll # <<kind, Administrator, p>>
    BY <2>2 DEF DenyAll
  <2>. HIDE DEF new
  <2>5. Sound(new)
    BY <2>3, <2>4, AcyclicFewer DEF Sound
  <2>. QED
    BY <2>3, <2>5 DEF new
<1>2. CASE WipeList(l)
  <2>1. /\ new = rows \ Grants(Administrator) /\ Head(l).upsert
        /\ Fewer(new, rows) /\ (RowsOk(rows) => RowsOk(new))
    BY <1>2, WipeDoes DEF WipeList
  <2>. HIDE DEF new
  <2>2. Sound(new)
    BY <2>1, AcyclicFewer DEF Sound
  <2>. QED
    BY <2>1, <2>2 DEF new
<1>3. CASE \E c \in Role : IsLink(c, Head(l), rows)
  <2>1. PICK c \in Role : IsLink(c, Head(l), rows)
    BY <1>3
  <2>2. PICK p \in Role : c \notin Above(p, rows) /\ Head(l) = Insert(<<"inherits", c, p>>, {<<"inherits", c, p>>})
    BY <2>1 DEF IsLink
  <2>3. /\ new = rows \cup {<<"inherits", c, p>>} /\ Head(l).upsert
        /\ OneMore(new, rows, c, p) /\ (RowsOk(rows) => RowsOk(new))
    BY <2>2, LinkDoes
  <2>4. DenyAll # <<"inherits", c, p>>
    BY DEF DenyAll
  <2>. HIDE DEF new
  <2>5. Acyclic(rows) => Acyclic(new)
    BY <2>2, <2>3, AcyclicMore
  <2>6. Sound(new)
    BY <2>3, <2>4, <2>5 DEF Sound
  <2>. QED
    BY <2>3, <2>6 DEF new
<1>. QED
  BY <1>1, <1>2, <1>3 DEF RoleStatement

\* What is left of a role form or a restart after it.
LEMMA RoleRest ==
  ASSUME NEW l, NEW rows, Well(TRUE, l, rows), l # <<>>, RoleStatement(l, rows)
  PROVE  Well(TRUE, Tail(l), After(Head(l), rows))
<1>1. CASE IsAllow(Head(l)) \/ IsDeny(Head(l))
  <2>1. PICK kind \in {"allow", "deny"} : \E p \in Perm : Head(l) = GrantStep(kind, p)
    BY <1>1 DEF IsAllow, IsDeny, AllowStep
  <2>2. Fewer(After(Head(l), rows), rows)
    BY <2>1, GrantDoes
  <2>. QED
    BY <2>2, RestOk
<1>2. CASE WipeList(l)
  <2>1. Fewer(After(Head(l), rows), rows)
    BY <1>2, WipeDoes DEF WipeList
  <2>. QED
    BY <2>1, RestOk
<1>3. CASE \E c \in Role : IsLink(c, Head(l), rows)
  BY <1>3, RestLinked
<1>. QED
  BY <1>1, <1>2, <1>3 DEF RoleStatement

\* And the administrator may do everything, or is about to be allowed to.
LEMMA RoleKept ==
  ASSUME NEW l, NEW S, l \in Seq(S), NEW rows, RoleStatement(l, rows), AllowAll \in rows \/ Mending(l, rows)
  PROVE  AllowAll \in After(Head(l), rows) \/ Mending(Tail(l), After(Head(l), rows))
<1>1. CASE Mending(l, rows)
  BY <1>1, MendingGoes
<1>2. CASE WipeList(l)
  BY <1>2, WipeMends
<1>3. CASE AllowAll \in rows /\ (IsAllow(Head(l)) \/ IsDeny(Head(l)))
  <2>1. PICK kind \in {"allow", "deny"} : \E p \in Perm : Head(l) = GrantStep(kind, p)
    BY <1>3 DEF IsAllow, IsDeny, AllowStep
  <2>2. rows \subseteq After(Head(l), rows)
    <3>1. PICK p \in Perm : Head(l) = GrantStep(kind, p)
      BY <2>1
    <3>2. After(Head(l), rows) = rows \cup {<<kind, Administrator, p>>}
      BY <3>1, GrantDoes
    <3>. QED
      BY <3>2
  <2>. QED
    BY <1>3, <2>2
<1>4. CASE AllowAll \in rows /\ \E c \in Role : IsLink(c, Head(l), rows)
  <2>1. rows \subseteq After(Head(l), rows)
    <3>1. PICK c \in Role : \E p \in Role : Head(l) = Insert(<<"inherits", c, p>>, {<<"inherits", c, p>>})
      BY <1>4 DEF IsLink
    <3>2. PICK p \in Role : Head(l) = Insert(<<"inherits", c, p>>, {<<"inherits", c, p>>})
      BY <3>1
    <3>3. After(Head(l), rows) = rows \cup {<<"inherits", c, p>>}
      BY <3>2, LinkDoes
    <3>. QED
      BY <3>3
  <2>. QED
    BY <1>4, <2>1
<1>. QED
  BY <1>1, <1>2, <1>3, <1>4 DEF RoleStatement

LEMMA Executes ==
  ASSUME NEW one \in Worker, Inv(one), NEW w \in Worker, Site!Execute(w)
  PROVE  Inv(one)'
<1>. DEFINE sql == Site!Sql(w)
<1>1. PICK o, l : Under(one, w, o, l)
  BY AtIs DEF Site!Execute, Site!Executing
<1>2. Site!Executing(w) /\ db' = Site!Effect(sql) /\ faults' = faults /\ faults \in Nat /\ Sound(db)
  BY DEF Site!Execute, Inv
<1>3. Site!Instead(w, Tail(l))
  BY <1>1 DEF Site!Execute, Site!Proceed, Site!Later, Under
<1>4. db' = IF sql.upsert \/ db \cap sql.drop # {} THEN After(sql, db) ELSE db
  BY <1>2 DEF Site!Effect, After
<1>5. Looks(o, Tail(l))
  BY <1>1, LooksTail
<1>6. PICK S : l \in Seq(S)
  BY <1>1, WellSeq DEF Under
<1>7. CASE StatementOk(sql) /\ ~Mending(l, db)
  <2>1. Mild(db, db')
    BY <1>4, <1>7, MildNot, StatementMild
  <2>2. Sound(db')
    BY <1>2, <2>1, SoundMild
  <2>3. \A v \in Worker \ {w} : \A m : Well(v = one, m, db) => Well(v = one, m, db')
    BY <2>1, WellStays DEF Mild
  <2>4. Well(w = one, Tail(l), db')
    BY <1>1, <2>1, RestOk DEF Under, Mild
  <2>5. Established /\ faults' = 0 => AllowAll \in db' \/ Mending(IF w = one THEN Tail(l) ELSE worker[one].todo, db')
    <3>. SUFFICES ASSUME Established, faults = 0
                  PROVE  AllowAll \in db' \/ (w # one /\ Mending(worker[one].todo, db'))
      BY <1>2
    <3>1. AllowAll \in db \/ Mending(worker[one].todo, db)
      BY DEF Inv, Kept
    <3>2. CASE AllowAll \in db
      <4>1. All \in Perm
        BY AccessRolesAssumption
      <4>. QED
        BY <2>1, <3>2, <4>1 DEF Mild, AllowAll
    <3>3. CASE Mending(worker[one].todo, db)
      <4>1. w # one
        BY <1>1, <1>7, <3>3 DEF Under
      <4>. QED
        BY <2>1, <3>3, <4>1, MendingStays
    <3>. QED
      BY <3>1, <3>2, <3>3
  <2>. QED
    BY <1>1, <1>2, <1>3, <1>5, <2>2, <2>3, <2>4, <2>5, Goes
<1>8. CASE w = one /\ sql = Head(l) /\ RoleStatement(l, db)
  <2>. DEFINE new == After(Head(l), db)
  <2>1. Sound(new) /\ Head(l).upsert
    BY <1>2, <1>8, RoleSound
  <2>2. db' = new
    BY <1>4, <1>8, <2>1
  <2>3. \A v \in Worker \ {w} : \A m : Well(v = one, m, db) => Well(v = one, m, db')
    BY <1>8 DEF Well
  <2>4. Well(TRUE, Tail(l), new)
    <3>1. (w = one) = TRUE
      BY <1>8
    <3>2. Well(TRUE, l, db) /\ l # <<>>
      BY <1>1, <3>1 DEF Under
    <3>. QED
      BY <1>8, <3>2, RoleRest
  <2>5. Well(w = one, Tail(l), db')
    <3>1. (w = one) = TRUE
      BY <1>8
    <3>. QED
      BY <2>2, <2>4, <3>1
  <2>6. Established /\ faults' = 0 => AllowAll \in db' \/ Mending(IF w = one THEN Tail(l) ELSE worker[one].todo, db')
    <3>. SUFFICES ASSUME Established, faults = 0 PROVE AllowAll \in new \/ Mending(Tail(l), new)
      BY <1>2, <1>8, <2>2
    <3>1. AllowAll \in db \/ Mending(l, db)
      BY <1>1, <1>8 DEF Inv, Kept, Under
    <3>. QED
      BY <1>6, <1>8, <3>1, RoleKept
  <2>7. Sound(db')
    BY <2>1, <2>2
  <2>. HIDE DEF new
  <2>. QED
    BY <1>1, <1>2, <1>3, <1>5, <2>3, <2>5, <2>6, <2>7, Goes
<1>. QED
  BY <1>1, <1>2, <1>7, <1>8, SqlSorts DEF RoleStatement

LEMMA Fails ==
  ASSUME NEW one \in Worker, Inv(one), NEW w \in Worker, Site!Fail(w)
  PROVE  Inv(one)'
<1>1. PICK o, l : Under(one, w, o, l)
  BY AtIs DEF Site!Fail, Site!Executing
<1>2. Site!Executing(w) /\ db' = db /\ faults \in Nat
  BY DEF Site!Fail, Inv
<1>3. faults' \in Nat /\ (faults' = 0 => faults = 0 /\ ~Site!Allowed(Site!Sql(w)))
  BY <1>2 DEF Site!Fail
<1>4. w = one /\ faults' = 0 => ~Mending(l, db)
  <2>. SUFFICES ASSUME Mending(l, db) PROVE Site!Allowed(Site!Sql(w))
    BY <1>3
  <2>1. Site!Sql(w) = Head(l) /\ Head(l).needs = {} /\ Head(l).clash \cap db = {}
    BY <1>1, <1>2, MendingDoes, SqlSorts
  <2>. QED
    BY <2>1 DEF Site!Allowed
<1>5. CASE Site!Sql(w).vital
  <2>1. Site!Error(w)
    BY <1>5 DEF Site!Fail, Site!Errs
  <2>2. Head(l).do \notin {"read", "fill"}
    BY <1>1, <1>2, SqlSorts
  <2>. QED
    BY <1>1, <1>2, <1>3, <1>4, <2>1, <2>2, Errors
<1>6. CASE ~Site!Sql(w).vital
  <2>1. Site!Proceed(w)
    BY <1>6 DEF Site!Fail
  <2>. QED
    BY <1>1, <1>2, <1>3, <1>4, <2>1, Proceeds
<1>. QED
  BY <1>5, <1>6

LEMMA StepInv ==
  ASSUME NEW one \in Worker, OneForRoles(one)
  PROVE  Inv(one) /\ [Site!Next]_(Site!vars) => Inv(one)'
<1>. SUFFICES ASSUME Inv(one), [Site!Next]_(Site!vars) PROVE Inv(one)'
  OBVIOUS
<1>1. ASSUME NEW w \in Worker, Site!Begin(w) \/ Site!View(w) \/ Site!Step(w)
      PROVE  Inv(one)'
  BY <1>1, Begins, Views, Expands, Executes, Fails, GivesUp, CacheSteps, LookSteps, ReadSteps DEF Site!Step
<1>2. ASSUME UNCHANGED <<db, worker, faults>>
      PROVE  Inv(one)'
  BY <1>2 DEF Inv, Held, Kept, Under, Site!Idle
<1>3. ASSUME NEW k \in Key, Site!Evict(k)
      PROVE  Inv(one)'
  BY <1>2, <1>3 DEF Site!Evict
<1>4. CASE UNCHANGED Site!vars
  BY <1>2, <1>4 DEF Site!vars
<1>. QED
  BY <1>1, <1>3, <1>4 DEF Site!Next

----------------------------------------------------------------------------
\* Theorems

\* Role forms and restarts that come one after the other, failed ones among them, never let a role
\* inherit from itself, whatever is done to users, groups, memberships and other roles at the same
\* time, where no role did at the start (wouldCycle, saveRoleInheritance).
THEOREM NoCircle == (\E one \in Worker : OneForRoles(one)) /\ AcyclicAtStart => (Spec => []InheritanceAcyclic)
<1>. SUFFICES ASSUME \E one \in Worker : OneForRoles(one), AcyclicAtStart PROVE Spec => []InheritanceAcyclic
  OBVIOUS
<1>1. PICK one \in Worker : OneForRoles(one)
  OBVIOUS
<1>2. Site!Init => Inv(one)
  BY InitInv
<1>3. Inv(one) /\ [Site!Next]_(Site!vars) => Inv(one)'
  BY <1>1, StepInv
<1>4. Inv(one) => InheritanceAcyclic
  BY DEF Inv, Sound, Acyclic, InheritanceAcyclic
<1>. QED
  BY <1>2, <1>3, <1>4, PTL DEF Spec, Site!Spec

\* On a site that has been set up, whatever role forms, restarts, migrations, deletions and
\* installations of extensions do, the built-in administrator is active and is allowed everything
\* once no change is under way and no statement has failed (saveRolePermissions, roleForm,
\* ensureAdministratorWildcardGrant).
THEOREM AdministratorKept == (\E one \in Worker : OneForRoles(one)) /\ Established => (Spec => []AdministratorWhole)
<1>. SUFFICES ASSUME \E one \in Worker : OneForRoles(one), Established PROVE Spec => []AdministratorWhole
  OBVIOUS
<1>1. PICK one \in Worker : OneForRoles(one)
  OBVIOUS
<1>2. Site!Init => Inv(one)
  BY InitInv
<1>3. Inv(one) /\ [Site!Next]_(Site!vars) => Inv(one)'
  BY <1>1, StepInv
<1>4. Inv(one) => AdministratorWhole
  <2>. SUFFICES ASSUME Inv(one), Site!Quiet, faults = 0 PROVE Is(Administrator, "role", db) /\ AllowAll \in db /\ DenyAll \notin db
    BY DEF AdministratorWhole, AllowAll, DenyAll
  <2>1. ~Mending(worker[one].todo, db)
    <3>1. CASE worker[one] = Site!Idle
      BY <3>1, NotMending DEF Site!Idle
    <3>2. CASE worker[one] # Site!Idle
      <4>1. PICK o, l : Under(one, one, o, l)
        BY <3>2 DEF Inv, Held
      <4>2. o \in Key
        BY <3>2, <4>1 DEF Site!Quiet, Site!Changing, Site!Busy, Under
      <4>3. PICK S : l \in Seq(S)
        BY <4>1, WellSeq DEF Under
      <4>4. Head(l).do \in {"read", "fill"}
        BY <4>1, <4>2, <4>3 DEF Under, Looks
      <4>. QED
        BY <4>1, <4>4, MendingDoes DEF Under
    <3>. QED
      BY <3>1, <3>2
  <2>. QED
    BY <2>1 DEF Inv, Kept, Sound, RowsOk, Is, AdministratorActive
<1>. QED
  BY <1>2, <1>3, <1>4, PTL DEF Spec, Site!Spec

----------------------------------------------------------------------------
\* What is cached of users, roles and groups

\* The databases a behaviour begins with have no links to what is not there, as their foreign
\* keys see to.
Consistent(rows) ==
  /\ \A u \in User, g \in Group : <<"member", u, g>> \in rows => Exists(u, "user", rows) /\ Exists(g, "group", rows)
  /\ \A u \in User, r \in Role : <<"holds", u, r>> \in rows => Exists(u, "user", rows) /\ Exists(r, "role", rows)
  /\ \A g \in Group, r \in Role : <<"gives", g, r>> \in rows => Exists(g, "group", rows) /\ Exists(r, "role", rows)
ConsistentAtStart == \A rows \in Start : Consistent(rows)

----------------------------------------------------------------------------
\* What a row may change

Concerns(row, k) ==
  \/ row[1] \in {"user", "member", "holds"} /\ k[2] = row[2]
  \/ row[1] \in {"role", "allow", "deny", "inherits", "gives"} /\ k \in Permissions
  \/ row[1] = "group"

\* Rows that concern nothing but keys in K.
Within(K, S) == \A row \in S : \A k \in Key : Concerns(row, k) => k \in K

\* What does not differ.
Spares(K, rows, new) == \A k \in Key \ K : Derive(k, new) = Derive(k, rows)

LEMMA KeyIs ==
  ASSUME NEW k \in Key
  PROVE  k[2] \in User /\ k \in Of({k[2]}) /\ (k \in Permissions <=> k[1] = "permissions") /\ (k \in Viewer <=> k[1] = "groups")
BY DEF Key, Permissions, Viewer, Of

LEMMA OfIs ==
  ASSUME NEW u, NEW k \in Key
  PROVE  k \in Of({u}) <=> k[2] = u
BY DEF Key, Permissions, Viewer, Of

\* What is derived does not change while no row does that it rests on.
LEMMA DeriveSame ==
  ASSUME NEW rows, NEW new, NEW k \in Key,
         \A row : Concerns(row, k) => (row \in new <=> row \in rows)
  PROVE  Derive(k, new) = Derive(k, rows)
<1>. DEFINE u == k[2]
<1>1. /\ Is(u, "user", new) <=> Is(u, "user", rows)
      /\ \A g : Is(g, "group", new) <=> Is(g, "group", rows)
      /\ \A x : <<"member", u, x>> \in new <=> <<"member", u, x>> \in rows
      /\ \A x : <<"holds", u, x>> \in new <=> <<"holds", u, x>> \in rows
  BY DEF Concerns, Is
<1>. HIDE DEF u
<1>2. GroupsOf(u, new) = GroupsOf(u, rows)
  BY <1>1 DEF GroupsOf
<1>3. CASE k \in Permissions
  <2>1. /\ \A r : Is(r, "role", new) <=> Is(r, "role", rows)
        /\ \A g, r : <<"gives", g, r>> \in new <=> <<"gives", g, r>> \in rows
    BY <1>3 DEF Concerns, Is
  <2>2. RolesOf(u, new) = RolesOf(u, rows)
    BY <1>1, <2>1 DEF RolesOf
  <2>3. RoleTables(new) = RoleTables(rows)
    BY <1>3 DEF Concerns, RoleTables
  <2>4. Effective(u, new) = Effective(u, rows)
    BY <2>2, <2>3 DEF Effective
  <2>. QED
    BY <1>3, <2>4 DEF Derive, u
<1>4. CASE k \notin Permissions
  BY <1>2, <1>4 DEF Derive, u
<1>. QED
  BY <1>3, <1>4

LEMMA SparesRows ==
  ASSUME NEW K, NEW rows, NEW new, NEW S, Within(K, S),
         \A row : row \notin S => (row \in new <=> row \in rows)
  PROVE  Spares(K, rows, new)
<1>. SUFFICES ASSUME NEW k \in Key \ K PROVE Derive(k, new) = Derive(k, rows)
  BY DEF Spares
<1>1. \A row : Concerns(row, k) => (row \in new <=> row \in rows)
  BY DEF Within
<1>. QED
  BY <1>1, DeriveSame

----------------------------------------------------------------------------
\* What a statement may do to the rows

Thing == {"user", "group", "role"}
LinksOf(what, x) ==
  CASE what = "user" -> Links("member", {x}, Group) \cup Links("holds", {x}, Role)
    [] what = "group" -> Links("member", User, {x}) \cup Links("gives", {x}, Role)
    [] what = "role" -> Links("holds", User, {x}) \cup Links("gives", Group, {x})

\* What goes comes back with another status, or nothing is linked to it.
DropsLoose(s) ==
  \A what \in Thing : \A x :
    \/ AnyStatus(what, x) \cap s.drop = {}
    \/ AnyStatus(what, x) \cap s.add # {}
    \/ LinksOf(what, x) \subseteq s.clash
\* What is linked is there.
AddsTied(s) ==
  \/ \A row \in s.add : row[1] \notin {"member", "holds", "gives"}
  \/ /\ s.drop = {}
     /\ \A row \in s.add : row[1] \in {"member", "holds", "gives"} =>
          {AnyStatus(Joins[row[1]][1], row[2]), AnyStatus(Joins[row[1]][2], row[3])} \subseteq s.needs
StatementFit(K, s) ==
  s.do = "statement" /\ Within(K, s.add \cup s.drop) /\ DropsLoose(s) /\ AddsTied(s)

Result(s, rows) == IF s.upsert \/ rows \cap s.drop # {} THEN (rows \ s.drop) \cup s.add ELSE rows
Possible(s, rows) == s.clash \cap rows = {} /\ \A N \in s.needs : N \cap rows # {}

LEMMA StatementSpares ==
  ASSUME NEW K, NEW s, StatementFit(K, s), NEW rows
  PROVE  Spares(K, rows, Result(s, rows))
<1>. DEFINE S == s.add \cup s.drop
<1>1. Within(K, S) /\ \A row : row \notin S => (row \in Result(s, rows) <=> row \in rows)
  BY DEF StatementFit, Result
<1>. HIDE DEF S
<1>. QED
  BY <1>1, SparesRows

LEMMA ThereIs ==
  ASSUME NEW what, NEW x, NEW rows
  PROVE  Exists(x, what, rows) <=> AnyStatus(what, x) \cap rows # {}
BY DEF Exists, AnyStatus

\* What is linked to stays.
LEMMA LinkedStays ==
  ASSUME NEW s, NEW rows, DropsLoose(s), Possible(s, rows), NEW what \in Thing, NEW x, Exists(x, what, rows),
         LinksOf(what, x) \cap rows # {} \/ s.drop = {}
  PROVE  Exists(x, what, Result(s, rows))
<1>1. AnyStatus(what, x) \cap rows # {}
  BY ThereIs
<1>2. \/ AnyStatus(what, x) \cap s.drop = {}
      \/ AnyStatus(what, x) \cap s.add # {}
  BY DEF DropsLoose, Possible
<1>3. AnyStatus(what, x) \cap Result(s, rows) # {}
  BY <1>1, <1>2 DEF Result
<1>. QED
  BY <1>3, ThereIs

LEMMA LinkedIs ==
  /\ \A u \in User, g \in Group : <<"member", u, g>> \in LinksOf("user", u) \cap LinksOf("group", g)
  /\ \A u \in User, r \in Role : <<"holds", u, r>> \in LinksOf("user", u) \cap LinksOf("role", r)
  /\ \A g \in Group, r \in Role : <<"gives", g, r>> \in LinksOf("group", g) \cap LinksOf("role", r)
BY DEF LinksOf, Links

LEMMA StatementConsistent ==
  ASSUME NEW s, NEW rows, Consistent(rows), Possible(s, rows), DropsLoose(s), AddsTied(s)
  PROVE  Consistent(Result(s, rows))
<1>. DEFINE new == Result(s, rows)
<1>1. \A row : row \in new => row \in rows \/ row \in s.add
  BY DEF Result
<1>2. ASSUME NEW what, NEW x, NEW y, <<what, x, y>> \in new, what \in {"member", "holds", "gives"},
             NEW one, NEW other, one \in Thing, other \in Thing, Joins[what] = <<one, other>>,
             <<what, x, y>> \in LinksOf(one, x) \cap LinksOf(other, y),
             <<what, x, y>> \in rows => Exists(x, one, rows) /\ Exists(y, other, rows)
      PROVE  Exists(x, one, new) /\ Exists(y, other, new)
  <2>1. CASE <<what, x, y>> \in rows
    BY <1>2, <2>1, LinkedStays
  <2>2. CASE <<what, x, y>> \notin rows
    <3>1. s.drop = {} /\ {AnyStatus(one, x), AnyStatus(other, y)} \subseteq s.needs
      BY <1>1, <1>2, <2>2 DEF AddsTied
    <3>2. Exists(x, one, rows) /\ Exists(y, other, rows)
      BY <3>1, ThereIs DEF Possible
    <3>. QED
      BY <1>2, <3>1, <3>2, LinkedStays
  <2>. QED
    BY <2>1, <2>2
<1>. HIDE DEF new
<1>3. Joins["member"] = <<"user", "group">> /\ Joins["holds"] = <<"user", "role">> /\ Joins["gives"] = <<"group", "role">>
  BY DEF Joins
<1>4. "user" \in Thing /\ "group" \in Thing /\ "role" \in Thing
  BY DEF Thing
<1>5. \A u \in User, g \in Group : <<"member", u, g>> \in new => Exists(u, "user", new) /\ Exists(g, "group", new)
  BY <1>2, <1>3, <1>4, LinkedIs DEF Consistent
<1>6. \A u \in User, r \in Role : <<"holds", u, r>> \in new => Exists(u, "user", new) /\ Exists(r, "role", new)
  BY <1>2, <1>3, <1>4, LinkedIs DEF Consistent
<1>7. \A g \in Group, r \in Role : <<"gives", g, r>> \in new => Exists(g, "group", new) /\ Exists(r, "role", new)
  BY <1>2, <1>3, <1>4, LinkedIs DEF Consistent
<1>. QED
  BY <1>5, <1>6, <1>7 DEF Consistent, new

\* An association is made when the database is asked: what it links to is made anew where it has
\* gone in between.
TieFit(K, op) ==
  /\ op[1] \in {"tie", "tieAnyway"} /\ op[2] \in {"member", "holds", "gives"}
  /\ \A row \in op[4] : row \in AnyStatus(Joins[op[2]][2], row[2])
  /\ \A k \in Key : op[2] = "gives" \/ k[2] = op[3] => k \in K
LinkedFit(K, op) ==
  /\ op[1] = "save" /\ op[2] \in {"user", "group"} /\ op[4] \in Status
  /\ \A row \in op[5] : row \in AnyStatus(row[1], row[2])
  /\ \A k \in Key : op[2] = "group" \/ k[2] = op[3] => k \in K
WhereFit(K, op) == TieFit(K, op) \/ LinkedFit(K, op)

LEMMA TieIs ==
  ASSUME NEW rows, NEW c, NEW op, op[1] \in {"tie", "tieAnyway"}
  PROVE  LET s == Head(Plan(op, rows, c)) IN
         /\ s.drop = {} /\ s.add = Tied(op[2], op[3], op[4], rows)
         /\ s.needs = {AnyStatus(Joins[op[2]][1], op[3])}
         /\ Result(s, rows) = rows \cup Tied(op[2], op[3], op[4], rows)
<1>. DEFINE tie == Tie(op[2], op[3], op[4], rows)
<1>1. /\ tie.drop = {} /\ tie.add = Tied(op[2], op[3], op[4], rows) /\ tie.upsert = TRUE
      /\ tie.needs = {AnyStatus(Joins[op[2]][1], op[3])}
  BY DEF Tie, Needing, Link, Statement
<1>2. /\ Ignored(tie).drop = {} /\ Ignored(tie).add = Tied(op[2], op[3], op[4], rows) /\ Ignored(tie).upsert = TRUE
      /\ Ignored(tie).needs = {AnyStatus(Joins[op[2]][1], op[3])}
  BY DEF Tie, Needing, Link, Statement, Ignored
<1>3. CASE op[1] = "tie"
  <2>1. Plan(op, rows, c) = <<tie>>
    BY <1>3 DEF Plan
  <2>. HIDE DEF tie
  <2>. QED
    BY <1>1, <2>1 DEF Result
<1>4. CASE op[1] = "tieAnyway"
  <2>1. Plan(op, rows, c) = <<Ignored(tie)>>
    BY <1>4 DEF Plan
  <2>. DEFINE other == Ignored(tie)
  <2>. HIDE DEF other
  <2>. QED
    BY <1>2, <2>1 DEF Result, other
<1>. QED
  BY <1>3, <1>4

LEMMA TiedRows ==
  ASSUME NEW what \in {"member", "holds", "gives"}, NEW x, NEW read, NEW rows,
         \A row \in read : row \in AnyStatus(Joins[what][2], row[2])
  PROVE  /\ \A row \in Tied(what, x, read, rows) :
              \/ \E old \in read : row = <<what, x, old[2]>>
              \/ /\ row \in read /\ row \in AnyStatus(Joins[what][2], row[2])
                 /\ row[1] = Joins[what][2] /\ ~Exists(row[2], Joins[what][2], rows)
         /\ Joins[what][2] \in {"group", "role"}
<1>1. Joins[what][2] \in {"group", "role"}
  BY DEF Joins
<1>2. \A row \in read : row[1] = Joins[what][2]
  BY DEF AnyStatus
<1>. QED
  BY <1>1, <1>2 DEF Tied

LEMMA TieConsistent ==
  ASSUME NEW rows, Consistent(rows), NEW what \in {"member", "holds", "gives"}, NEW x, NEW read,
         \A row \in read : row \in AnyStatus(Joins[what][2], row[2]),
         Exists(x, Joins[what][1], rows)
  PROVE  Consistent(rows \cup Tied(what, x, read, rows))
<1>. DEFINE new == rows \cup Tied(what, x, read, rows)
<1>1. \A y, kind : Exists(y, kind, rows) => Exists(y, kind, new)
  BY DEF Exists
<1>2. ASSUME NEW other \in {"member", "holds", "gives"}, NEW y, NEW z, <<other, y, z>> \in new, <<other, y, z>> \notin rows
      PROVE  other = what /\ y = x /\ Exists(x, Joins[what][1], new) /\ Exists(z, Joins[what][2], new)
  <2>1. PICK old \in read : <<other, y, z>> = <<what, x, old[2]>>
    BY <1>2, TiedRows
  <2>2. other = what /\ y = x /\ z = old[2]
    BY <2>1
  <2>3. Exists(z, Joins[what][2], new)
    <3>1. CASE Exists(z, Joins[what][2], rows)
      BY <1>1, <3>1
    <3>2. CASE ~Exists(z, Joins[what][2], rows)
      <4>1. old \in new /\ old \in AnyStatus(Joins[what][2], z)
        BY <2>2, <3>2 DEF Tied
      <4>. QED
        BY <4>1, ThereIs
    <3>. QED
      BY <3>1, <3>2
  <2>. QED
    BY <1>1, <2>2, <2>3
<1>. HIDE DEF new
<1>3. Joins["member"] = <<"user", "group">> /\ Joins["holds"] = <<"user", "role">> /\ Joins["gives"] = <<"group", "role">>
  BY DEF Joins
<1>4. \A u \in User, g \in Group : <<"member", u, g>> \in new => Exists(u, "user", new) /\ Exists(g, "group", new)
  BY <1>1, <1>2, <1>3 DEF Consistent
<1>5. \A u \in User, r \in Role : <<"holds", u, r>> \in new => Exists(u, "user", new) /\ Exists(r, "role", new)
  BY <1>1, <1>2, <1>3 DEF Consistent
<1>6. \A g \in Group, r \in Role : <<"gives", g, r>> \in new => Exists(g, "group", new) /\ Exists(r, "role", new)
  BY <1>1, <1>2, <1>3 DEF Consistent
<1>. QED
  BY <1>4, <1>5, <1>6 DEF Consistent, new

\* Nobody but x is linked to what has just been made anew.
LEMMA TieSpares ==
  ASSUME NEW rows, Consistent(rows), NEW what \in {"member", "holds"}, NEW x, NEW read,
         \A row \in read : row \in AnyStatus(Joins[what][2], row[2]), NEW k \in Key, k[2] # x
  PROVE  Derive(k, rows \cup Tied(what, x, read, rows)) = Derive(k, rows)
<1>. DEFINE new == rows \cup Tied(what, x, read, rows)
            u == k[2]
<1>1. u \in User
  BY KeyIs
<1>2. \A row : row \in new /\ row \notin rows =>
        \/ row[1] = what /\ row[2] = x
        \/ row[1] = Joins[what][2] /\ ~Exists(row[2], Joins[what][2], rows)
  BY TiedRows
<1>3. \A row : row \in rows => row \in new
  OBVIOUS
<1>. HIDE DEF new, u
<1>4. /\ Is(u, "user", new) <=> Is(u, "user", rows)
      /\ \A y : <<"member", u, y>> \in new <=> <<"member", u, y>> \in rows
      /\ \A y : <<"holds", u, y>> \in new <=> <<"holds", u, y>> \in rows
      /\ \A y, z : <<"gives", y, z>> \in new <=> <<"gives", y, z>> \in rows
  BY <1>2, <1>3 DEF Is, Joins, u
<1>5. \A g \in Group : <<"member", u, g>> \in rows => (Is(g, "group", new) <=> Is(g, "group", rows))
  BY <1>1, <1>2, <1>3 DEF Is, Joins, Consistent
<1>6. /\ \A r \in Role : <<"holds", u, r>> \in rows => (Is(r, "role", new) <=> Is(r, "role", rows))
      /\ \A r \in Role, g \in Group : <<"gives", g, r>> \in rows => (Is(r, "role", new) <=> Is(r, "role", rows))
  BY <1>1, <1>2, <1>3 DEF Is, Joins, Consistent
<1>7. RoleTables(new) = RoleTables(rows)
  BY <1>2, <1>3 DEF RoleTables, Joins
<1>8. GroupsOf(u, new) = GroupsOf(u, rows)
  BY <1>4, <1>5 DEF GroupsOf
<1>9. RolesOf(u, new) = RolesOf(u, rows)
  BY <1>4, <1>5, <1>6 DEF RolesOf
<1>10. Effective(u, new) = Effective(u, rows)
  BY <1>7, <1>9 DEF Effective
<1>. QED
  BY <1>8, <1>10 DEF Derive, new, u

----------------------------------------------------------------------------
\* What may be among the steps of a request which later sees to the keys in K

\* What is saved along with a user or a group: first its own row, then one kind of links after
\* the other.
SavedRow(what, x, s, rows) == (rows \ AnyStatus(what, x)) \cup {<<what, x, s>>}
OfKind(j, read) == {row \in read : row[1] = Joins[j][2]}
WithLinks(j, x, read, rows) == rows \cup Tied(j, x, OfKind(j, read), rows)

LEMMA TiedSame ==
  ASSUME NEW j, NEW x, NEW read, NEW rows, NEW new,
         \A y : Exists(y, Joins[j][2], new) <=> Exists(y, Joins[j][2], rows)
  PROVE  Tied(j, x, read, new) = Tied(j, x, read, rows)
BY DEF Tied

LEMMA SaveLinkedIs ==
  ASSUME NEW rows, NEW x, NEW s, NEW read, \A row \in read : row \in AnyStatus(row[1], row[2])
  PROVE  /\ Result(SaveLinked("group", x, s, read, rows), rows) = WithLinks("gives", x, read, SavedRow("group", x, s, rows))
         /\ Result(SaveLinked("user", x, s, read, rows), rows) =
              WithLinks("holds", x, read, WithLinks("member", x, read, SavedRow("user", x, s, rows)))
<1>. DEFINE add(what) == {<<what, x, s>>} \cup UNION {Tied(j, x, OfKind(j, read), rows) : j \in JoinsOf(what)}
<1>1. ASSUME NEW what
      PROVE  Result(SaveLinked(what, x, s, read, rows), rows) = (rows \ AnyStatus(what, x)) \cup add(what)
  <2>. DEFINE save == SaveLinked(what, x, s, read, rows)
  <2>1. save.upsert = TRUE /\ save.drop = AnyStatus(what, x) /\ save.add = add(what)
    BY DEF SaveLinked, Write, Statement, OfKind
  <2>. HIDE DEF save, add
  <2>2. Result(save, rows) = (rows \ AnyStatus(what, x)) \cup add(what)
    BY <2>1 DEF Result
  <2>. QED
    BY <2>2 DEF save
<1>2. ASSUME NEW what, NEW kind, kind # what
      PROVE  \A y : Exists(y, kind, SavedRow(what, x, s, rows)) <=> Exists(y, kind, rows)
  BY <1>2 DEF Exists, SavedRow, AnyStatus
<1>3. Joins["gives"][2] = "role" /\ Joins["member"][2] = "group" /\ Joins["holds"][2] = "role"
  BY DEF Joins
<1>4. Result(SaveLinked("group", x, s, read, rows), rows) = WithLinks("gives", x, read, SavedRow("group", x, s, rows))
  <2>. DEFINE saved == SavedRow("group", x, s, rows)
              gives == Tied("gives", x, OfKind("gives", read), rows)
  <2>1. Tied("gives", x, OfKind("gives", read), saved) = gives
    BY <1>2, <1>3, TiedSame
  <2>2. add("group") = {<<"group", x, s>>} \cup gives
    BY JoinsAre
  <2>. HIDE DEF gives
  <2>3. WithLinks("gives", x, read, saved) = (rows \ AnyStatus("group", x)) \cup ({<<"group", x, s>>} \cup gives)
    BY <2>1 DEF WithLinks, SavedRow
  <2>. HIDE DEF saved, add
  <2>. QED
    BY <1>1, <2>2, <2>3 DEF saved
<1>5. Result(SaveLinked("user", x, s, read, rows), rows) =
        WithLinks("holds", x, read, WithLinks("member", x, read, SavedRow("user", x, s, rows)))
  <2>. DEFINE saved == SavedRow("user", x, s, rows)
              member == Tied("member", x, OfKind("member", read), rows)
              holds == Tied("holds", x, OfKind("holds", read), rows)
              joined == saved \cup member
  <2>1. Tied("member", x, OfKind("member", read), saved) = member
    BY <1>2, <1>3, TiedSame
  <2>2. \A y : Exists(y, "role", saved) <=> Exists(y, "role", rows)
    BY <1>2
  <2>3. \A row \in member : row[1] \in {"member", "group"}
    BY <1>3 DEF Tied, OfKind
  <2>4. add("user") = {<<"user", x, s>>} \cup (member \cup holds)
    BY JoinsAre
  <2>. HIDE DEF member, holds, saved
  <2>5. \A y : Exists(y, "role", joined) <=> Exists(y, "role", rows)
    BY <2>2, <2>3 DEF Exists
  <2>. HIDE DEF joined
  <2>6. Tied("holds", x, OfKind("holds", read), joined) = holds
    <3>1. \A y : Exists(y, Joins["holds"][2], joined) <=> Exists(y, Joins["holds"][2], rows)
      BY <1>3, <2>5
    <3>. QED
      BY <3>1, TiedSame DEF holds
  <2>7. WithLinks("member", x, read, saved) = joined
    BY <2>1 DEF WithLinks, joined
  <2>8. WithLinks("holds", x, read, joined) = joined \cup holds
    BY <2>6 DEF WithLinks
  <2>9. joined \cup holds = (rows \ AnyStatus("user", x)) \cup ({<<"user", x, s>>} \cup (member \cup holds))
    BY DEF joined, saved, SavedRow
  <2>. HIDE DEF add
  <2>. QED
    BY <1>1, <2>4, <2>7, <2>8, <2>9 DEF saved
<1>. QED
  BY <1>4, <1>5

LEMMA SavedRowDoes ==
  ASSUME NEW rows, Consistent(rows), NEW what, what \in {"user", "group"}, NEW x, NEW s \in Status
  PROVE  /\ Consistent(SavedRow(what, x, s, rows)) /\ Exists(x, what, SavedRow(what, x, s, rows))
         /\ what = "user" => \A k \in Key : k[2] # x => Derive(k, SavedRow(what, x, s, rows)) = Derive(k, rows)
<1>. DEFINE new == SavedRow(what, x, s, rows)
<1>1. Exists(x, what, new)
  BY DEF SavedRow, Exists
<1>2. \A row : row \notin AnyStatus(what, x) => (row \in new <=> row \in rows)
  BY DEF SavedRow, AnyStatus
<1>3. \A y, kind : Exists(y, kind, rows) => Exists(y, kind, new)
  BY <1>1, <1>2 DEF Exists, AnyStatus
<1>. HIDE DEF new
<1>4. Consistent(new)
  BY <1>2, <1>3 DEF Consistent, AnyStatus
<1>5. ASSUME what = "user", NEW k \in Key, k[2] # x
      PROVE  Derive(k, new) = Derive(k, rows)
  <2>1. \A row : Concerns(row, k) => (row \in new <=> row \in rows)
    BY <1>2, <1>5 DEF Concerns, AnyStatus
  <2>. QED
    BY <2>1, DeriveSame
<1>. QED
  BY <1>1, <1>4, <1>5 DEF new

LEMMA WithLinksDoes ==
  ASSUME NEW rows, Consistent(rows), NEW j \in {"member", "holds", "gives"}, NEW x, Exists(x, Joins[j][1], rows),
         NEW read, \A row \in read : row \in AnyStatus(row[1], row[2])
  PROVE  /\ Consistent(WithLinks(j, x, read, rows))
         /\ Exists(x, Joins[j][1], WithLinks(j, x, read, rows))
         /\ j # "gives" => \A k \in Key : k[2] # x => Derive(k, WithLinks(j, x, read, rows)) = Derive(k, rows)
<1>1. \A row \in OfKind(j, read) : row \in AnyStatus(Joins[j][2], row[2])
  BY DEF OfKind
<1>. QED
  BY <1>1, TieConsistent, TieSpares DEF WithLinks, Exists

LEMMA SaveLinkedDoes ==
  ASSUME NEW K, NEW op, LinkedFit(K, op), NEW rows, Consistent(rows), NEW c
  PROVE  LET new == Result(Head(Plan(op, rows, c)), rows) IN Consistent(new) /\ Spares(K, rows, new)
<1>. DEFINE what == op[2]
            x == op[3]
            s == op[4]
            read == op[5]
            save == SaveLinked(what, x, s, read, rows)
            saved == SavedRow(what, x, s, rows)
<1>1. /\ op[1] = "save" /\ what \in {"user", "group"} /\ s \in Status
      /\ \A row \in read : row \in AnyStatus(row[1], row[2])
      /\ \A k \in Key : what = "group" \/ k[2] = x => k \in K
  BY DEF LinkedFit
<1>2. Head(Plan(op, rows, c)) = save
  <2>1. Plan(op, rows, c) = <<save>>
    BY <1>1 DEF Plan
  <2>. HIDE DEF save
  <2>. QED
    BY <2>1
<1>. HIDE DEF what, x, s, read
<1>3. /\ Consistent(saved) /\ Exists(x, what, saved)
      /\ what = "user" => \A k \in Key : k[2] # x => Derive(k, saved) = Derive(k, rows)
  BY <1>1, SavedRowDoes
<1>. HIDE DEF saved
<1>4. CASE what = "group"
  <2>1. Result(save, rows) = WithLinks("gives", x, read, saved)
    BY <1>1, <1>4, SaveLinkedIs DEF saved
  <2>2. Consistent(Result(save, rows))
    <3>1. Joins["gives"][1] = "group" /\ "gives" \in {"member", "holds", "gives"}
      BY JoinsAre
    <3>. QED
      BY <1>1, <1>3, <1>4, <2>1, <3>1, WithLinksDoes
  <2>3. Spares(K, rows, Result(save, rows))
    BY <1>1, <1>4 DEF Spares
  <2>. QED
    BY <1>2, <2>2, <2>3
<1>5. CASE what = "user"
  <2>. DEFINE joined == WithLinks("member", x, read, saved)
              new == WithLinks("holds", x, read, joined)
  <2>1. Result(save, rows) = new
    BY <1>1, <1>5, SaveLinkedIs DEF saved
  <2>2. /\ Joins["member"][1] = "user" /\ "member" \in {"member", "holds", "gives"} /\ "member" # "gives"
        /\ Joins["holds"][1] = "user" /\ "holds" \in {"member", "holds", "gives"} /\ "holds" # "gives"
    BY JoinsAre
  <2>3. /\ Consistent(joined) /\ Exists(x, "user", joined)
        /\ \A k \in Key : k[2] # x => Derive(k, joined) = Derive(k, saved)
    BY <1>1, <1>3, <1>5, <2>2, WithLinksDoes
  <2>. HIDE DEF joined
  <2>4. /\ Consistent(new) /\ \A k \in Key : k[2] # x => Derive(k, new) = Derive(k, joined)
    BY <1>1, <2>2, <2>3, WithLinksDoes
  <2>. HIDE DEF new
  <2>5. Spares(K, rows, new)
    BY <1>1, <1>3, <1>5, <2>3, <2>4 DEF Spares
  <2>. QED
    BY <1>2, <2>1, <2>4, <2>5
<1>. QED
  BY <1>1, <1>4, <1>5

\* Handlers, and parts of handlers, that see to all that they change themselves.
Whole(op) == (op \in Request /\ op # <<"boot">>) \/ op[1] \in {"assign", "assigns", "grant"}
Part(K, op) ==
  \/ op[1] \in {"member", "holds", "hold", "links", "keep"} /\ \A k \in Key : k[2] = op[2] => k \in K
  \/ op[1] = "role" /\ Permissions \subseteq K
  \/ op[1] = "append" /\ op[3] \subseteq Perm /\ Permissions \subseteq K
  \/ /\ Key \subseteq K
     /\ \/ op[1] \in {"gives", "flatten", "default", "group", "everybody", "migrate", "wildcard"}
        \/ op[1] = "grants" /\ op[3] \subseteq Perm /\ op[4] \subseteq Perm
        \/ op[1] = "inherit" /\ op[3] \subseteq Role
        \/ op[1] \in {"seed", "seedGrants", "reset"} /\ op[2] \in System
        \/ op[1] = "toggle" /\ op[2] = "role"

Fit(K, s) ==
  \/ s.do = "call" /\ (Whole(s.op) \/ Part(K, s.op))
  \/ s.do = "where" /\ WhereFit(K, s.op)
  \/ StatementFit(K, s)
  \/ s.do \in {"return", "forget", "overlook", "resolve", "read"}
FitList(K, l) == \E S : l \in Seq(S) /\ \A s \in S : Fit(K, s)

\* A start may be followed by errors which it catches.
FitCatch(s) == s.do = "catch" /\ FitList(Key, s.steps)
BootList(l) == \E S : l \in Seq(S) /\ \A s \in S : Fit(Key, s) \/ FitCatch(s)

Ends(s, k) == s.do \in {"forget", "overlook"} /\ k \in s.keys
EndedIn(l) == {k \in Key : \E i \in DOMAIN l : Ends(l[i], k)}
EndedAfter(l, i) == {k \in Key : \E j \in DOMAIN l : j > i /\ Ends(l[j], k)}
\* A list that sees to all that it changes.
Covered(l) == (\E S : l \in Seq(S)) /\ \A i \in DOMAIN l : Fit(EndedAfter(l, i), l[i])

LEMMA FitMore ==
  ASSUME NEW K, NEW L, K \cap Key \subseteq L, NEW s, Fit(K, s)
  PROVE  Fit(L, s)
<1>1. ASSUME NEW S, Within(K, S) PROVE Within(L, S)
  BY <1>1 DEF Within
<1>2. Permissions \subseteq Key
  BY DEF Key
<1>3. StatementFit(K, s) => StatementFit(L, s)
  BY <1>1 DEF StatementFit
<1>4. \A op : Part(K, op) => Part(L, op)
  BY <1>2 DEF Part
<1>5. \A op : WhereFit(K, op) => WhereFit(L, op)
  BY DEF WhereFit, TieFit, LinkedFit
<1>. QED
  BY <1>3, <1>4, <1>5 DEF Fit

LEMMA FitIs ==
  ASSUME NEW K, NEW l, NEW S, l \in Seq(S), \A s \in S : Fit(K, s)
  PROVE  FitList(K, l)
BY DEF FitList

LEMMA FitEmpty ==
  ASSUME NEW K
  PROVE  FitList(K, <<>>)
<1>. DEFINE S == {}
<1>1. <<>> \in Seq(S) /\ \A s \in S : Fit(K, s)
  OBVIOUS
<1>. HIDE DEF S
<1>. QED
  BY <1>1, FitIs

LEMMA FitOf ==
  ASSUME NEW K, NEW a, Fit(K, a)
  PROVE  FitList(K, <<a>>)
<1>. DEFINE S == {a}
<1>1. <<a>> \in Seq(S) /\ \A s \in S : Fit(K, s)
  OBVIOUS
<1>. HIDE DEF S
<1>. QED
  BY <1>1, FitIs

LEMMA FitOfTwo ==
  ASSUME NEW K, NEW a, NEW b, Fit(K, a), Fit(K, b)
  PROVE  FitList(K, <<a, b>>)
<1>. DEFINE S == {a, b}
<1>1. <<a, b>> \in Seq(S) /\ \A s \in S : Fit(K, s)
  OBVIOUS
<1>. HIDE DEF S
<1>. QED
  BY <1>1, FitIs

LEMMA FitOfThree ==
  ASSUME NEW K, NEW a, NEW b, NEW c, Fit(K, a), Fit(K, b), Fit(K, c)
  PROVE  FitList(K, <<a, b, c>>)
<1>. DEFINE S == {a, b, c}
<1>1. <<a, b, c>> \in Seq(S) /\ \A s \in S : Fit(K, s)
  OBVIOUS
<1>. HIDE DEF S
<1>. QED
  BY <1>1, FitIs

LEMMA FitConcat ==
  ASSUME NEW K, NEW l, NEW m, FitList(K, l), FitList(K, m)
  PROVE  FitList(K, l \o m)
<1>1. PICK S : l \in Seq(S) /\ \A s \in S : Fit(K, s)
  BY DEF FitList
<1>2. PICK T : m \in Seq(T) /\ \A s \in T : Fit(K, s)
  BY DEF FitList
<1>3. l \o m \in Seq(S \cup T)
  <2>1. l \in Seq(S \cup T) /\ m \in Seq(S \cup T)
    BY <1>1, <1>2
  <2>. QED
    BY <2>1
<1>. QED
  BY <1>1, <1>2, <1>3 DEF FitList

LEMMA FitWhen ==
  ASSUME NEW K, NEW b, NEW l, b => FitList(K, l)
  PROVE  FitList(K, When(b, l))
BY FitEmpty DEF When

\* A loop over a set.
LEMMA FitEach ==
  ASSUME NEW K, NEW S, IsFiniteSet(S), NEW f, DOMAIN f = DOMAIN SetToSeq(S), f = [i \in DOMAIN f |-> f[i]],
         \A i \in DOMAIN f : Fit(K, f[i])
  PROVE  FitList(K, f)
<1>. DEFINE T == {f[i] : i \in DOMAIN f}
            s == SetToSeq(S)
<1>1. s \in Seq(S)
  BY SetToSeqIs
<1>. HIDE DEF s
<1>2. DOMAIN f = 1..Len(s) /\ Len(s) \in Nat
  BY <1>1 DEF s
<1>3. f \in Seq(T)
  BY <1>2
<1>. QED
  BY <1>3 DEF FitList

----------------------------------------------------------------------------
\* Lists that see to what they change

\* Where a step of two lists one after the other is.
LEMMA ConcatAt ==
  ASSUME NEW a, NEW b, NEW S, NEW T, a \in Seq(S), b \in Seq(T)
  PROVE  /\ a \o b \in Seq(S \cup T)
         /\ \A i \in DOMAIN a : i \in DOMAIN (a \o b) /\ (a \o b)[i] = a[i]
         /\ \A i \in DOMAIN b : Len(a) + i \in DOMAIN (a \o b) /\ (a \o b)[Len(a) + i] = b[i]
         /\ \A i \in DOMAIN (a \o b) : i \in DOMAIN a \/ (i - Len(a) \in DOMAIN b /\ (a \o b)[i] = b[i - Len(a)])
         /\ \A i \in DOMAIN a : i \in Nat /\ i <= Len(a)
         /\ \A i \in DOMAIN b : i \in Nat /\ i > 0
         /\ Len(a) \in Nat
<1>. DEFINE U == S \cup T
<1>1. a \in Seq(U) /\ b \in Seq(U)
  OBVIOUS
<1>. HIDE DEF U
<1>2. a \o b \in Seq(U) /\ Len(a \o b) = Len(a) + Len(b) /\ Len(a) \in Nat /\ Len(b) \in Nat
  BY <1>1
<1>3. DOMAIN a = 1..Len(a) /\ DOMAIN b = 1..Len(b) /\ DOMAIN (a \o b) = 1..Len(a) + Len(b)
  BY <1>1, <1>2
<1>4. \A i \in 1..Len(a) + Len(b) : (a \o b)[i] = IF i <= Len(a) THEN a[i] ELSE b[i - Len(a)]
  BY <1>1
<1>. HIDE <1>1
<1>5. \A i \in DOMAIN a : i \in DOMAIN (a \o b) /\ (a \o b)[i] = a[i] /\ i \in Nat /\ i <= Len(a)
  BY <1>2, <1>3, <1>4
<1>6. ASSUME NEW i \in DOMAIN b
      PROVE  Len(a) + i \in DOMAIN (a \o b) /\ (a \o b)[Len(a) + i] = b[i] /\ i \in Nat /\ i > 0
  <2>1. i \in Nat /\ i > 0 /\ i <= Len(b) /\ Len(a) + i \in 1..Len(a) + Len(b) /\ Len(a) + i - Len(a) = i
        /\ ~(Len(a) + i <= Len(a))
    BY <1>2, <1>3
  <2>. QED
    BY <1>3, <1>4, <2>1
<1>7. ASSUME NEW i \in DOMAIN (a \o b), i \notin DOMAIN a
      PROVE  i - Len(a) \in DOMAIN b /\ (a \o b)[i] = b[i - Len(a)]
  BY <1>2, <1>3, <1>4, <1>7
<1>8. a \o b \in Seq(S \cup T)
  BY <1>2 DEF U
<1>. QED
  BY <1>2, <1>5, <1>6, <1>7, <1>8

LEMMA EndedConcat ==
  ASSUME NEW a, NEW b, NEW S, NEW T, a \in Seq(S), b \in Seq(T)
  PROVE  /\ EndedIn(a) \cup EndedIn(b) \subseteq EndedIn(a \o b)
         /\ \A i \in DOMAIN a : EndedAfter(a, i) \cup EndedIn(b) \subseteq EndedAfter(a \o b, i)
         /\ \A i \in DOMAIN b : EndedAfter(b, i) \subseteq EndedAfter(a \o b, Len(a) + i)
<1>. DEFINE m == a \o b
<1>0. /\ \A i \in DOMAIN a : i \in DOMAIN m /\ m[i] = a[i] /\ i \in Nat /\ i <= Len(a)
      /\ \A i \in DOMAIN b : Len(a) + i \in DOMAIN m /\ m[Len(a) + i] = b[i] /\ i \in Nat /\ i > 0
      /\ Len(a) \in Nat
  BY ConcatAt
<1>. HIDE DEF m
<1>1. EndedIn(a) \cup EndedIn(b) \subseteq EndedIn(m)
  BY <1>0 DEF EndedIn
<1>2. ASSUME NEW i \in DOMAIN a, NEW k \in EndedAfter(a, i)
      PROVE  k \in EndedAfter(m, i)
  BY <1>0 DEF EndedAfter
<1>3. ASSUME NEW i \in DOMAIN a, NEW k \in EndedIn(b)
      PROVE  k \in EndedAfter(m, i)
  <2>1. PICK j \in DOMAIN b : Ends(b[j], k)
    BY DEF EndedIn
  <2>2. Len(a) + j > i
    BY <1>0
  <2>. QED
    BY <2>1, <2>2, <1>0 DEF EndedAfter, EndedIn
<1>4. ASSUME NEW i \in DOMAIN b, NEW k \in EndedAfter(b, i)
      PROVE  k \in EndedAfter(m, Len(a) + i)
  <2>1. PICK j \in DOMAIN b : j > i /\ Ends(b[j], k)
    BY DEF EndedAfter
  <2>2. Len(a) + j > Len(a) + i
    BY <2>1, <1>0
  <2>. QED
    BY <2>1, <2>2, <1>0 DEF EndedAfter
<1>. QED
  BY <1>1, <1>2, <1>3, <1>4 DEF m

\* A list followed by one that sees to what it changes.
LEMMA CoveredBefore ==
  ASSUME NEW K, NEW a, NEW b, FitList(K, a), Covered(b), K \cap Key \subseteq EndedIn(b)
  PROVE  Covered(a \o b)
<1>1. PICK S : a \in Seq(S) /\ \A s \in S : Fit(K, s)
  BY DEF FitList
<1>2. PICK T : b \in Seq(T)
  BY DEF Covered
<1>3. ASSUME NEW i \in DOMAIN a
      PROVE  Fit(EndedAfter(a \o b, i), a[i])
  <2>1. K \cap Key \subseteq EndedAfter(a \o b, i)
    BY <1>1, <1>2, EndedConcat
  <2>2. Fit(K, a[i])
    BY <1>1
  <2>. QED
    BY <2>1, <2>2, FitMore
<1>4. ASSUME NEW i \in DOMAIN b
      PROVE  Fit(EndedAfter(a \o b, Len(a) + i), b[i])
  <2>1. EndedAfter(b, i) \subseteq EndedAfter(a \o b, Len(a) + i)
    BY <1>1, <1>2, EndedConcat
  <2>2. Fit(EndedAfter(b, i), b[i])
    BY DEF Covered
  <2>. QED
    BY <2>1, <2>2, FitMore
<1>5. ASSUME NEW i \in DOMAIN (a \o b)
      PROVE  Fit(EndedAfter(a \o b, i), (a \o b)[i])
  <2>1. CASE i \in DOMAIN a
    BY <1>1, <1>2, <1>3, <2>1, ConcatAt
  <2>2. CASE i \notin DOMAIN a
    <3>1. i - Len(a) \in DOMAIN b /\ (a \o b)[i] = b[i - Len(a)] /\ Len(a) + (i - Len(a)) = i
      BY <1>1, <1>2, <2>2, ConcatAt
    <3>. QED
      BY <1>4, <3>1
  <2>. QED
    BY <2>1, <2>2
<1>6. a \o b \in Seq(S \cup T)
  BY <1>1, <1>2, ConcatAt
<1>. QED
  BY <1>5, <1>6 DEF Covered

LEMMA CoveredBoth ==
  ASSUME NEW a, NEW b, Covered(a), Covered(b)
  PROVE  Covered(a \o b)
<1>1. PICK S : a \in Seq(S)
  BY DEF Covered
<1>2. PICK T : b \in Seq(T)
  BY DEF Covered
<1>3. ASSUME NEW i \in DOMAIN a
      PROVE  Fit(EndedAfter(a \o b, i), a[i])
  <2>1. EndedAfter(a, i) \subseteq EndedAfter(a \o b, i)
    BY <1>1, <1>2, EndedConcat
  <2>2. Fit(EndedAfter(a, i), a[i])
    BY DEF Covered
  <2>. QED
    BY <2>1, <2>2, FitMore
<1>4. ASSUME NEW i \in DOMAIN b
      PROVE  Fit(EndedAfter(a \o b, Len(a) + i), b[i])
  <2>1. EndedAfter(b, i) \subseteq EndedAfter(a \o b, Len(a) + i)
    BY <1>1, <1>2, EndedConcat
  <2>2. Fit(EndedAfter(b, i), b[i])
    BY DEF Covered
  <2>. QED
    BY <2>1, <2>2, FitMore
<1>5. ASSUME NEW i \in DOMAIN (a \o b)
      PROVE  Fit(EndedAfter(a \o b, i), (a \o b)[i])
  <2>1. CASE i \in DOMAIN a
    BY <1>1, <1>2, <1>3, <2>1, ConcatAt
  <2>2. CASE i \notin DOMAIN a
    <3>1. i - Len(a) \in DOMAIN b /\ (a \o b)[i] = b[i - Len(a)] /\ Len(a) + (i - Len(a)) = i
      BY <1>1, <1>2, <2>2, ConcatAt
    <3>. QED
      BY <1>4, <3>1
  <2>. QED
    BY <2>1, <2>2
<1>6. a \o b \in Seq(S \cup T)
  BY <1>1, <1>2, ConcatAt
<1>. QED
  BY <1>5, <1>6 DEF Covered

\* A list of steps that change nothing there is a key for.
LEMMA CoveredFit ==
  ASSUME NEW l, FitList({}, l)
  PROVE  Covered(l)
BY FitMore DEF FitList, Covered

LEMMA CoveredIsFit ==
  ASSUME NEW l, Covered(l)
  PROVE  FitList(Key, l)
<1>1. PICK S : l \in Seq(S)
  BY DEF Covered
<1>. DEFINE T == {l[i] : i \in DOMAIN l}
<1>2. l \in Seq(T)
  BY <1>1
<1>3. \A i \in DOMAIN l : Fit(Key, l[i])
  <2>. SUFFICES ASSUME NEW i \in DOMAIN l PROVE Fit(Key, l[i])
    OBVIOUS
  <2>1. EndedAfter(l, i) \cap Key \subseteq Key /\ Fit(EndedAfter(l, i), l[i])
    BY DEF Covered
  <2>. QED
    BY <2>1, FitMore
<1>. QED
  BY <1>2, <1>3 DEF FitList

LEMMA CoveredTail ==
  ASSUME NEW l, Covered(l), l # <<>>
  PROVE  Fit(EndedIn(Tail(l)), Head(l)) /\ Covered(Tail(l))
<1>1. PICK S : l \in Seq(S)
  BY DEF Covered
<1>2. /\ 1 \in DOMAIN l /\ Head(l) = l[1] /\ Tail(l) \in Seq(S)
      /\ \A i \in DOMAIN Tail(l) : i \in Nat /\ i + 1 \in DOMAIN l /\ Tail(l)[i] = l[i + 1]
      /\ \A i \in DOMAIN l : i \in Nat /\ (i > 1 => i - 1 \in DOMAIN Tail(l) /\ Tail(l)[i - 1] = l[i])
  BY <1>1
<1>3. EndedAfter(l, 1) \subseteq EndedIn(Tail(l))
  BY <1>2 DEF EndedAfter, EndedIn
<1>4. ASSUME NEW i \in DOMAIN Tail(l)
      PROVE  EndedAfter(l, i + 1) \subseteq EndedAfter(Tail(l), i)
  <2>1. ASSUME NEW k \in EndedAfter(l, i + 1)
        PROVE  k \in EndedAfter(Tail(l), i)
    <3>1. PICK j \in DOMAIN l : j > i + 1 /\ Ends(l[j], k)
      BY DEF EndedAfter
    <3>2. j > 1 /\ j - 1 > i
      BY <1>2, <3>1
    <3>. QED
      BY <1>2, <3>1, <3>2 DEF EndedAfter
  <2>. QED
    BY <2>1
<1>5. Fit(EndedIn(Tail(l)), Head(l))
  <2>1. Fit(EndedAfter(l, 1), Head(l))
    BY <1>2 DEF Covered
  <2>. QED
    BY <1>3, <2>1, FitMore
<1>6. ASSUME NEW i \in DOMAIN Tail(l)
      PROVE  Fit(EndedAfter(Tail(l), i), Tail(l)[i])
  <2>1. Fit(EndedAfter(l, i + 1), Tail(l)[i])
    BY <1>2 DEF Covered
  <2>2. EndedAfter(l, i + 1) \cap Key \subseteq EndedAfter(Tail(l), i)
    BY <1>4
  <2>. QED
    BY <2>1, <2>2, FitMore
<1>. QED
  BY <1>2, <1>5, <1>6 DEF Covered

----------------------------------------------------------------------------
\* The steps of handlers

LEMMA SimpleFit ==
  ASSUME NEW K, NEW L
  PROVE  /\ Fit(K, Return) /\ Fit(K, Forget(L)) /\ Fit(K, Overlook(L)) /\ Fit(K, Resolve(L)) /\ Fit(K, Read(L))
         /\ Fit(K, Other) /\ Fit(K, Ignored(Other))
<1>1. StatementFit(K, Other) /\ StatementFit(K, Ignored(Other))
  BY DEF Other, Statement, Ignored, StatementFit, Within, DropsLoose, AddsTied
<1>. QED
  BY <1>1 DEF Return, Forget, Overlook, Resolve, Read, Fit

LEMMA CallFit ==
  ASSUME NEW K, NEW op, Whole(op) \/ Part(K, op)
  PROVE  Fit(K, Call(op))
BY DEF Call, Fit

\* A statement that neither takes a user, a group or a role away nor links one to another.
LEMMA StatementIs ==
  ASSUME NEW K, NEW s, s.do = "statement", Within(K, s.add \cup s.drop),
         \A row \in s.drop : row[1] \notin Thing, \A row \in s.add : row[1] \notin {"member", "holds", "gives"}
  PROVE  Fit(K, s)
<1>1. \A what \in Thing : \A x : AnyStatus(what, x) \cap s.drop = {}
  BY DEF AnyStatus
<1>. QED
  BY <1>1 DEF Fit, StatementFit, DropsLoose, AddsTied

LEMMA InsertFit ==
  ASSUME NEW K, NEW row, NEW S, \A k \in Key : Concerns(row, k) => k \in K, row[1] \notin {"member", "holds", "gives"}
  PROVE  Fit(K, Insert(row, S))
<1>. DEFINE s == Insert(row, S)
<1>1. s.do = "statement" /\ s.add = {row} /\ s.drop = {}
  BY DEF Insert, Statement
<1>. HIDE DEF s
<1>2. Within(K, s.add \cup s.drop)
  BY <1>1 DEF Within
<1>. QED
  BY <1>1, <1>2, StatementIs DEF s

LEMMA DeleteFit ==
  ASSUME NEW K, NEW S, Within(K, S), \A row \in S : row[1] \notin Thing
  PROVE  Fit(K, Delete(S))
<1>. DEFINE s == Delete(S)
<1>1. s.do = "statement" /\ s.add = {} /\ s.drop = S
  BY DEF Delete, Statement
<1>. HIDE DEF s
<1>. QED
  BY <1>1, StatementIs DEF s

LEMMA LinksFit ==
  ASSUME NEW K, NEW what, NEW X, NEW Y, what \notin Thing,
         \A x \in X, y \in Y, k \in Key : Concerns(<<what, x, y>>, k) => k \in K
  PROVE  Fit(K, Delete(Links(what, X, Y)))
<1>1. Within(K, Links(what, X, Y)) /\ \A row \in Links(what, X, Y) : row[1] \notin Thing
  BY DEF Within, Links
<1>. QED
  BY <1>1, DeleteFit

LEMMA AllFit ==
  ASSUME NEW S
  PROVE  Within(Key, S)
BY DEF Within

\* The row that says in what status x is.
LEMMA SaveFit ==
  ASSUME NEW K, NEW what \in Thing, NEW x, NEW s \in Status, \A k \in Key : \A y : Concerns(<<what, x, y>>, k) => k \in K
  PROVE  Fit(K, Save(AnyStatus(what, x), <<what, x, s>>))
<1>. DEFINE save == Save(AnyStatus(what, x), <<what, x, s>>)
<1>1. save.do = "statement" /\ save.add = {<<what, x, s>>} /\ save.drop = AnyStatus(what, x)
  BY DEF Save, Statement
<1>. HIDE DEF save
<1>2. Within(K, save.add \cup save.drop)
  BY <1>1 DEF Within, AnyStatus
<1>3. DropsLoose(save)
  <2>. SUFFICES ASSUME NEW other \in Thing, NEW y, AnyStatus(other, y) \cap save.drop # {}
                PROVE  AnyStatus(other, y) \cap save.add # {}
    BY DEF DropsLoose
  <2>1. other = what /\ y = x
    BY <1>1 DEF AnyStatus
  <2>2. <<what, x, s>> \in AnyStatus(what, x)
    BY DEF AnyStatus
  <2>. QED
    BY <1>1, <2>1, <2>2
<1>4. AddsTied(save)
  BY <1>1 DEF AddsTied, Thing
<1>. QED
  BY <1>1, <1>2, <1>3, <1>4 DEF Fit, StatementFit, save

LEMMA ExpungeFit ==
  ASSUME NEW K, NEW what \in Thing, NEW x, NEW joins, LinksOf(what, x) \subseteq joins,
         \A k \in Key : \A y : Concerns(<<what, x, y>>, k) => k \in K
  PROVE  Fit(K, Expunge(what, x, joins))
<1>. DEFINE s == Expunge(what, x, joins)
<1>1. s.do = "statement" /\ s.add = {} /\ s.drop = AnyStatus(what, x) /\ s.clash = joins
  BY DEF Expunge, Unless, Delete, Statement
<1>. HIDE DEF s
<1>2. Within(K, s.add \cup s.drop)
  BY <1>1 DEF Within, AnyStatus
<1>3. DropsLoose(s)
  <2>. SUFFICES ASSUME NEW other \in Thing, NEW y, AnyStatus(other, y) \cap s.drop # {} PROVE LinksOf(other, y) \subseteq s.clash
    BY DEF DropsLoose
  <2>1. other = what /\ y = x
    BY <1>1 DEF AnyStatus
  <2>. QED
    BY <1>1, <2>1
<1>4. AddsTied(s)
  BY <1>1 DEF AddsTied
<1>. QED
  BY <1>1, <1>2, <1>3, <1>4 DEF Fit, StatementFit, s

LEMMA AssociationFit ==
  ASSUME NEW K, NEW what \in {"member", "holds", "gives"}, NEW x, NEW read, NEW Y,
         read \subseteq UNION {AnyStatus(Joins[what][2], y) : y \in Y},
         \A k \in Key : what = "gives" \/ k[2] = x => k \in K
  PROVE  Fit(K, Association(what, x, read)) /\ Fit(K, Where(<<"tieAnyway", what, x, read>>))
<1>1. \A row \in read : row \in AnyStatus(Joins[what][2], row[2])
  BY DEF AnyStatus
<1>2. WhereFit(K, <<"tie", what, x, read>>) /\ WhereFit(K, <<"tieAnyway", what, x, read>>)
  BY <1>1 DEF WhereFit, TieFit
<1>. QED
  BY <1>2 DEF Fit, Association, Where

LEMMA AssociationOfOne ==
  ASSUME NEW K, NEW rows, NEW x, NEW g, \A k \in Key : k[2] = x => k \in K
  PROVE  /\ Fit(K, Association("member", x, rows \cap AnyStatus("group", g)))
         /\ Fit(K, Where(<<"tieAnyway", "member", x, rows \cap AnyStatus("group", g)>>))
<1>. DEFINE read == rows \cap AnyStatus("group", g)
<1>1. read \subseteq UNION {AnyStatus(Joins["member"][2], y) : y \in {g}}
  BY DEF Joins
<1>2. "member" \in {"member", "holds", "gives"} /\ "member" # "gives"
  OBVIOUS
<1>. HIDE DEF read
<1>3. Fit(K, Association("member", x, read)) /\ Fit(K, Where(<<"tieAnyway", "member", x, read>>))
  BY <1>1, <1>2, AssociationFit
<1>. QED
  BY <1>3 DEF read

LEMMA SaveLoadedFit ==
  ASSUME NEW K, NEW rows, NEW what, what \in {"user", "group"}, NEW x, NEW s \in Status,
         \A k \in Key : what = "group" \/ k[2] = x => k \in K
  PROVE  Fit(K, SaveLoaded(what, x, s, rows))
<1>. DEFINE read == Preload(what, x, rows)
<1>1. \A row \in read : row \in AnyStatus(row[1], row[2])
  <2>1. \A kind, y : \A row \in AnyStatus(kind, y) : row[1] = kind
    BY DEF AnyStatus
  <2>2. \A row \in read : \E kind : row \in AnyStatus(kind, row[2])
    BY DEF Preload
  <2>. QED
    BY <2>1, <2>2
<1>. HIDE DEF read
<1>2. LinkedFit(K, <<"save", what, x, s, read>>)
  BY <1>1 DEF LinkedFit
<1>. QED
  BY <1>2 DEF Fit, WhereFit, SaveLoaded, Where, read

LEMMA ReplaceFit ==
  ASSUME NEW K, NEW rows, NEW what \in {"member", "holds", "gives"}, NEW x, NEW Y, NEW new,
         \A k \in Key : what = "gives" \/ k[2] = x => k \in K
  PROVE  FitList(K, Replace(what, x, Y, new, rows))
<1>. DEFINE read == rows \cap UNION {AnyStatus(Joins[what][2], y) : y \in new}
            first == Association(what, x, read)
<1>1. Fit(K, first)
  <2>1. read \subseteq UNION {AnyStatus(Joins[what][2], y) : y \in new}
    OBVIOUS
  <2>. HIDE DEF read
  <2>. QED
    BY <2>1, AssociationFit
<1>. HIDE DEF first
<1>2. FitList(K, When(new # {}, <<first>>))
  BY <1>1, FitOf, FitWhen
<1>3. Fit(K, Delete(Links(what, {x}, Y \ new)))
  <2>1. what \notin Thing
    BY DEF Thing
  <2>2. \A y \in {x}, z \in Y \ new, k \in Key : Concerns(<<what, y, z>>, k) => k \in K
    BY DEF Concerns
  <2>. QED
    BY <2>1, <2>2, LinksFit
<1>4. FitList(K, <<Delete(Links(what, {x}, Y \ new))>>)
  BY <1>3, FitOf
<1>. QED
  BY <1>2, <1>4, FitConcat DEF Replace, first

LEMMA ToggleFit ==
  ASSUME NEW K, NEW rows, NEW what \in Thing, NEW x, \A k \in Key : \A y : Concerns(<<what, x, y>>, k) => k \in K
  PROVE  FitList(K, Toggle(what, x, rows))
<1>. DEFINE s == IF Is(x, what, rows) THEN "inactive" ELSE "active"
<1>1. s \in Status
  BY DEF Status
<1>2. Toggle(what, x, rows) = <<Save(AnyStatus(what, x), <<what, x, s>>)>>
  BY DEF Toggle
<1>. HIDE DEF s
<1>. QED
  BY <1>1, <1>2, SaveFit, FitOf

LEMMA GrantsFit ==
  ASSUME NEW K, Permissions \subseteq K, NEW r, NEW A \in SUBSET Perm, NEW D \in SUBSET Perm
  PROVE  FitList(K, SaveRolePermissions(r, A, D))
<1>. DEFINE one(kind, p) == Insert(<<kind, r, p>>, {<<"allow", r, p>>, <<"deny", r, p>>})
            a == SetToSeq(A)
            d == SetToSeq(D)
            allow == [i \in DOMAIN a |-> one("allow", a[i])]
            deny == [i \in DOMAIN d |-> IF d[i] \in A THEN Return ELSE one("deny", d[i])]
            wipe == Delete(Grants(r))
<1>1. IsFiniteSet(A) /\ IsFiniteSet(D)
  BY AccessFiniteAssumption, FS_Subset
<1>2. SaveRolePermissions(r, A, D) = <<wipe>> \o allow \o deny
  BY DEF SaveRolePermissions, Each
<1>3. ASSUME NEW kind \in {"allow", "deny"}, NEW p
      PROVE  Fit(K, one(kind, p))
  <2>1. \A k \in Key : Concerns(<<kind, r, p>>, k) => k \in K
    BY DEF Concerns
  <2>. QED
    BY <2>1, InsertFit
<1>4. Fit(K, Return)
  BY SimpleFit
<1>5. Fit(K, wipe)
  <2>1. Within(K, Grants(r)) /\ \A row \in Grants(r) : row[1] \notin Thing
    BY DEF Within, Grants, Links, Concerns, Thing
  <2>. QED
    BY <2>1, DeleteFit
<1>. HIDE DEF one, wipe, a, d
<1>6. \A i \in DOMAIN allow : Fit(K, allow[i])
  BY <1>3
<1>7. \A i \in DOMAIN deny : Fit(K, deny[i])
  BY <1>3, <1>4
<1>8. FitList(K, allow)
  BY <1>1, <1>6, FitEach DEF a
<1>9. FitList(K, deny)
  BY <1>1, <1>7, FitEach DEF d
<1>. HIDE DEF allow, deny
<1>. QED
  BY <1>2, <1>5, <1>8, <1>9, FitOf, FitConcat

LEMMA InheritFit ==
  ASSUME NEW rows, NEW r, NEW P \in SUBSET Role
  PROVE  FitList(Key, SaveRoleInheritance(r, P, rows))
<1>. DEFINE p == SetToSeq(P)
            links == [i \in DOMAIN p |-> Insert(<<"inherits", r, p[i]>>, {<<"inherits", r, p[i]>>})]
            wipe == Delete(Links("inherits", {r}, Role))
<1>1. IsFiniteSet(P)
  BY AccessFiniteAssumption, FS_Subset
<1>2. SaveRoleInheritance(r, P, rows) \in {<<Return>>, <<wipe>> \o links}
  BY DEF SaveRoleInheritance, Each
<1>3. \A q : Fit(Key, Insert(<<"inherits", r, q>>, {<<"inherits", r, q>>}))
  BY InsertFit
<1>4. Fit(Key, wipe)
  BY LinksFit DEF Thing
<1>. HIDE DEF p, wipe
<1>5. \A i \in DOMAIN links : Fit(Key, links[i])
  BY <1>3
<1>6. FitList(Key, links)
  BY <1>1, <1>5, FitEach DEF p
<1>. HIDE DEF links
<1>. QED
  BY <1>2, <1>4, <1>6, SimpleFit, FitOf, FitConcat

\* The rows of a user concern nobody else.
LEMMA UserRows ==
  ASSUME NEW u
  PROVE  /\ \A k \in Key : \A y : Concerns(<<"user", u, y>>, k) => k \in Of({u})
         /\ Within(Of({u}), Links("member", {u}, Group)) /\ Within(Of({u}), Links("holds", {u}, Role))
<1>1. \A k \in Key : k[2] = u => k \in Of({u})
  BY OfIs
<1>2. \A k \in Key : \A y : Concerns(<<"user", u, y>>, k) => k \in Of({u})
  BY <1>1 DEF Concerns
<1>3. Within(Of({u}), Links("member", {u}, Group)) /\ Within(Of({u}), Links("holds", {u}, Role))
  BY <1>1 DEF Concerns, Within, Links
<1>. QED
  BY <1>2, <1>3

LEMMA EndedIs ==
  ASSUME NEW K, NEW L, NEW a
  PROVE  /\ K \cap Key \subseteq EndedIn(<<Forget(K)>>)
         /\ K \cap Key \subseteq EndedIn(<<Forget(K), a>>)
         /\ K \cap Key \subseteq EndedIn(<<Overlook(K)>>)
         /\ (K \cup L) \cap Key \subseteq EndedIn(<<Forget(K), Overlook(L)>>)
<1>1. \A k \in K : Ends(Forget(K), k) /\ Ends(Overlook(K), k)
  BY DEF Ends, Forget, Overlook
<1>2. \A k \in L : Ends(Overlook(L), k)
  BY DEF Ends, Overlook
<1>. DEFINE f == Forget(K)
            o == Overlook(K)
            p == Overlook(L)
<1>3. /\ \A k \in K : Ends(f, k) /\ Ends(o, k)
      /\ \A k \in L : Ends(p, k)
  BY <1>1, <1>2
<1>. HIDE DEF f, o, p
<1>4. K \cap Key \subseteq EndedIn(<<f>>) /\ K \cap Key \subseteq EndedIn(<<o>>)
  <2>1. 1 \in DOMAIN <<f>> /\ 1 \in DOMAIN <<o>> /\ <<f>>[1] = f /\ <<o>>[1] = o
    OBVIOUS
  <2>. QED
    BY <1>3, <2>1 DEF EndedIn
<1>5. K \cap Key \subseteq EndedIn(<<f, a>>)
  <2>1. 1 \in DOMAIN <<f, a>> /\ <<f, a>>[1] = f
    OBVIOUS
  <2>. QED
    BY <1>3, <2>1 DEF EndedIn
<1>6. (K \cup L) \cap Key \subseteq EndedIn(<<f, p>>)
  <2>1. 1 \in DOMAIN <<f, p>> /\ <<f, p>>[1] = f /\ 2 \in DOMAIN <<f, p>> /\ <<f, p>>[2] = p
    OBVIOUS
  <2>. QED
    BY <1>3, <2>1 DEF EndedIn
<1>. QED
  BY <1>4, <1>5, <1>6 DEF f, o, p

\* What a list ends with sees to what comes before.
LEMMA ForgetAfter ==
  ASSUME NEW K, NEW a, FitList(K, a)
  PROVE  /\ Covered(a \o <<Forget(K)>>) /\ Covered(a \o <<Forget(K), Other>>) /\ Covered(a \o <<Overlook(K)>>)
         /\ \A L, M : L \cup M = K => Covered(a \o <<Forget(L), Overlook(M)>>)
<1>1. ASSUME NEW b, FitList({}, b), K \cap Key \subseteq EndedIn(b)
      PROVE  Covered(a \o b)
  BY <1>1, CoveredFit, CoveredBefore
<1>2. Covered(a \o <<Forget(K)>>)
  BY <1>1, SimpleFit, FitOf, EndedIs
<1>3. Covered(a \o <<Forget(K), Other>>)
  BY <1>1, SimpleFit, FitOfTwo, EndedIs
<1>4. Covered(a \o <<Overlook(K)>>)
  BY <1>1, SimpleFit, FitOf, EndedIs
<1>5. ASSUME NEW L, NEW M, L \cup M = K
      PROVE  Covered(a \o <<Forget(L), Overlook(M)>>)
  <2>. DEFINE b == <<Forget(L), Overlook(M)>>
  <2>1. FitList({}, b) /\ (L \cup M) \cap Key \subseteq EndedIn(b)
    BY SimpleFit, FitOfTwo, EndedIs
  <2>. HIDE DEF b
  <2>2. Covered(a \o b)
    BY <1>1, <1>5, <2>1
  <2>. QED
    BY <2>2 DEF b
<1>. QED
  BY <1>2, <1>3, <1>4, <1>5

LEMMA CoveredEmpty == Covered(<<>>)
BY FitEmpty, CoveredFit

LEMMA CoveredWhen ==
  ASSUME NEW b, NEW l, b => Covered(l)
  PROVE  Covered(When(b, l))
BY CoveredEmpty DEF When

----------------------------------------------------------------------------
\* Handlers

LEMMA RoleHandlers ==
  ASSUME NEW rows, NEW r, NEW s \in Status, NEW A \in SUBSET Perm, NEW D \in SUBSET Perm, NEW P \in SUBSET Role
  PROVE  Covered(RoleForm(r, s, A, D, P, rows)) /\ Covered(RoleDelete(r, rows)) /\ Covered(RoleToggle(r, rows))
<1>1. Covered(RoleForm(r, s, A, D, P, rows))
  <2>. DEFINE status == IF r \notin System THEN s ELSE IF Is(r, "role", rows) THEN "active" ELSE "inactive"
              save == Save(AnyStatus("role", r), <<"role", r, status>>)
              grants == Call(<<"grants", r, A, D>>)
              inherit == Call(<<"inherit", r, P>>)
              forget == Forget(Key)
  <2>1. Fit(Key, save)
    <3>1. status \in Status /\ "role" \in Thing
      BY DEF Status, Thing
    <3>. HIDE DEF status
    <3>. QED
      BY <3>1, SaveFit
  <2>2. Fit(Key, grants) /\ Fit(Key, inherit)
    <3>1. Part(Key, <<"grants", r, A, D>>) /\ Part(Key, <<"inherit", r, P>>)
      BY DEF Part
    <3>. QED
      BY <3>1, CallFit
  <2>3. RoleForm(r, s, A, D, P, rows) = When(r \in System => Exists(r, "role", rows), <<save, grants, inherit, Other, forget>>)
    BY DEF RoleForm
  <2>4. Fit(Key, Other)
    BY SimpleFit
  <2>. DEFINE first == <<save, grants>>
              second == <<inherit, Other>>
  <2>. HIDE DEF save, grants, inherit
  <2>5. FitList(Key, first) /\ FitList(Key, second)
    BY <2>1, <2>2, <2>4, FitOfTwo
  <2>6. <<save, grants, inherit, Other, forget>> = (first \o second) \o <<forget>>
    OBVIOUS
  <2>. HIDE DEF first, second
  <2>7. Covered((first \o second) \o <<forget>>)
    BY <2>5, FitConcat, ForgetAfter
  <2>. QED
    BY <2>3, <2>6, <2>7, CoveredWhen
<1>2. Covered(RoleDelete(r, rows))
  <2>. DEFINE a == Delete(Links("gives", Group, {r}))
              b == Delete(Links("holds", User, {r}))
              c == Delete(Grants(r))
              d == Delete(Links("inherits", {r}, Role) \cup Links("inherits", Role, {r}))
              e == Ignored(Other)
              f == Expunge("role", r, Links("gives", Group, {r}) \cup Links("holds", User, {r}))
              g == Forget(Key)
  <2>1. Fit(Key, a) /\ Fit(Key, b) /\ Fit(Key, c) /\ Fit(Key, d)
    <3>1. /\ \A row \in Links("gives", Group, {r}) : row[1] \notin Thing
          /\ \A row \in Links("holds", User, {r}) : row[1] \notin Thing
          /\ \A row \in Grants(r) : row[1] \notin Thing
          /\ \A row \in Links("inherits", {r}, Role) \cup Links("inherits", Role, {r}) : row[1] \notin Thing
      BY DEF Links, Grants, Thing
    <3>. QED
      BY <3>1, AllFit, DeleteFit
  <2>2. Fit(Key, e)
    BY SimpleFit
  <2>3. Fit(Key, f)
    <3>1. LinksOf("role", r) \subseteq Links("gives", Group, {r}) \cup Links("holds", User, {r}) /\ "role" \in Thing
      BY DEF LinksOf, Thing
    <3>. QED
      BY <3>1, ExpungeFit
  <2>4. RoleDelete(r, rows) \in {<<>>, <<a, b, c, d, e, f, g>>}
    BY DEF RoleDelete
  <2>. DEFINE first == <<a, b, c>>
              second == <<d, e, f>>
  <2>. HIDE DEF a, b, c, d, e, f
  <2>5. FitList(Key, first) /\ FitList(Key, second)
    BY <2>1, <2>2, <2>3, FitOfThree
  <2>6. <<a, b, c, d, e, f, g>> = (first \o second) \o <<g>>
    OBVIOUS
  <2>. HIDE DEF first, second
  <2>7. Covered((first \o second) \o <<g>>)
    BY <2>5, FitConcat, ForgetAfter
  <2>. QED
    BY <2>4, <2>6, <2>7, CoveredEmpty
<1>3. Covered(RoleToggle(r, rows))
  <2>. DEFINE a == Call(<<"toggle", "role", r>>)
  <2>1. Part(Key, <<"toggle", "role", r>>)
    BY DEF Part
  <2>2. FitList(Key, <<a>>)
    BY <2>1, CallFit, FitOf
  <2>3. RoleToggle(r, rows) \in {<<>>, <<a>> \o <<Forget(Key)>>}
    BY DEF RoleToggle
  <2>. HIDE DEF a
  <2>. QED
    BY <2>2, <2>3, ForgetAfter, CoveredEmpty
<1>. QED
  BY <1>1, <1>2, <1>3

LEMMA GroupHandlers ==
  ASSUME NEW rows, NEW g, NEW s \in Status, NEW R
  PROVE  Covered(GroupForm(g, s, R, rows)) /\ Covered(GroupDelete(g, rows)) /\ Covered(GroupToggle(g, rows))
<1>0. "group" \in Thing
  BY DEF Thing
<1>1. Covered(GroupForm(g, s, R, rows))
  <2>. DEFINE a == SaveLoaded("group", g, s, rows)
              b == Call(<<"gives", g, R>>)
  <2>1. Part(Key, <<"gives", g, R>>)
    BY DEF Part
  <2>2. FitList(Key, <<a, b>>)
    BY <2>1, SaveLoadedFit, CallFit, FitOfTwo
  <2>3. GroupForm(g, s, R, rows) = <<a, b>> \o <<Forget(Key)>>
    BY DEF GroupForm
  <2>. HIDE DEF a, b
  <2>. QED
    BY <2>2, <2>3, ForgetAfter
<1>2. Covered(GroupDelete(g, rows))
  <2>. DEFINE a == Delete(Links("gives", {g}, Role))
              b == Delete(Links("member", User, {g}))
              c == Expunge("group", g, Links("gives", {g}, Role) \cup Links("member", User, {g}))
  <2>1. Fit(Key, a) /\ Fit(Key, b)
    BY LinksFit DEF Thing
  <2>2. Fit(Key, c)
    <3>1. LinksOf("group", g) \subseteq Links("gives", {g}, Role) \cup Links("member", User, {g})
      BY DEF LinksOf
    <3>. QED
      BY <1>0, <3>1, ExpungeFit
  <2>3. FitList(Key, <<a, b, c>>)
    BY <2>1, <2>2, FitOfThree
  <2>4. GroupDelete(g, rows) \in {<<>>, <<a, b, c>> \o <<Forget(Key)>>}
    BY DEF GroupDelete
  <2>. HIDE DEF a, b, c
  <2>. QED
    BY <2>3, <2>4, ForgetAfter, CoveredEmpty
<1>3. Covered(GroupToggle(g, rows))
  <2>. DEFINE a == Toggle("group", g, rows)
  <2>1. FitList(Key, a)
    BY <1>0, ToggleFit
  <2>2. GroupToggle(g, rows) \in {<<>>, a \o <<Forget(Viewer), Overlook(Permissions)>>}
    BY DEF GroupToggle
  <2>3. Viewer \cup Permissions = Key
    BY DEF Key
  <2>. HIDE DEF a
  <2>. QED
    BY <2>1, <2>2, <2>3, ForgetAfter, CoveredEmpty
<1>. QED
  BY <1>1, <1>2, <1>3

LEMMA UserHandlers ==
  ASSUME NEW rows, NEW u, NEW a, NEW s \in Status, NEW G, NEW R, NEW c
  PROVE  /\ Covered(UserForm(u, a, s, G, R, rows, c)) /\ Covered(UserToggle(u, a, rows, c))
         /\ Covered(UserDelete(u, a, rows, c))
<1>. DEFINE K == Of({u})
<1>0. "user" \in Thing /\ \A k \in Key : \A y : Concerns(<<"user", u, y>>, k) => k \in K
  BY UserRows DEF Thing
<1>1. \A k \in Key : k[2] = u => k \in K
  BY OfIs
<1>2. Within(K, Links("member", {u}, Group)) /\ Within(K, Links("holds", {u}, Role))
  BY UserRows
<1>3. FitList(K, Toggle("user", u, rows))
  <2>. HIDE DEF K
  <2>. QED
    BY <1>0, ToggleFit
<1>4. Covered(UserForm(u, a, s, G, R, rows, c))
  <2>. DEFINE can(p) == May(p, a, rows, c)
              there == Exists(u, "user", rows)
              status == IF can(Security) THEN s ELSE IF Is(u, "user", rows) THEN "active" ELSE "inactive"
              save == SaveLoaded("user", u, status, rows)
              account == IF ~there THEN NewUser(u, rows) ELSE When(can(Profiles) \/ can(Security), <<save>>)
              assigns == Call(<<"assigns", a, G, R>>)
              set == Call(<<"links", u, G, R>>)
              keep == Call(<<"keep", u>>)
              none == Call(<<"links", u, {}, {}>>)
              links == IF can(Members) THEN <<assigns, set>> ELSE IF there THEN <<keep>> ELSE <<none>>
              groups == {g \in {Public, Registered} : Exists(g, "group", rows)}
              q == SetToSeq(groups)
              ties == [i \in DOMAIN q |-> Where(<<"tieAnyway", "member", u, rows \cap AnyStatus("group", q[i])>>)]
              new == Insert(<<"user", u, "active">>, AnyStatus("user", u))
  <2>1. IsFiniteSet(groups)
    <3>1. IsFiniteSet({Public} \cup {Registered}) /\ groups \subseteq {Public} \cup {Registered}
      BY FS_AddElement, FS_Singleton
    <3>. QED
      BY <3>1, FS_Subset
  <2>2. FitList(K, <<new>>)
    <3>1. Fit(K, new)
      BY <1>0, InsertFit
    <3>. QED
      BY <3>1, FitOf
  <2>3. NewUser(u, rows) = <<new>> \o ties
    BY DEF NewUser, Each
  <2>4. Fit(K, save)
    <3>1. status \in Status /\ "user" \in {"user", "group"} /\ "user" # "group"
      BY DEF Status
    <3>. HIDE DEF K, status
    <3>. QED
      BY <1>1, <3>1, SaveLoadedFit
  <2>5. Fit(K, assigns) /\ Fit(K, set) /\ Fit(K, keep) /\ Fit(K, none)
    <3>1. Whole(<<"assigns", a, G, R>>)
      BY DEF Whole
    <3>2. Part(K, <<"links", u, G, R>>) /\ Part(K, <<"keep", u>>) /\ Part(K, <<"links", u, {}, {}>>)
      BY <1>1 DEF Part
    <3>. QED
      BY <3>1, <3>2, CallFit
  <2>6. UserForm(u, a, s, G, R, rows, c) =
          When(can(Profiles) \/ (there /\ (can(Members) \/ can(Security))),
               account \o links \o <<Forget(K), Other>>)
    BY DEF UserForm, K
  <2>. HIDE DEF groups, q, new, K, save, assigns, set, keep, none, can, there
  <2>7. \A i \in DOMAIN ties : Fit(K, ties[i])
    BY <1>1, AssociationOfOne
  <2>8. FitList(K, ties)
    BY <2>1, <2>7, FitEach DEF q
  <2>. HIDE DEF ties
  <2>9. FitList(K, NewUser(u, rows))
    BY <2>2, <2>3, <2>8, FitConcat
  <2>10. FitList(K, account)
    BY <2>4, <2>9, FitOf, FitWhen
  <2>11. FitList(K, links)
    BY <2>5, FitOf, FitOfTwo
  <2>. HIDE DEF account, links
  <2>12. Covered((account \o links) \o <<Forget(K), Other>>)
    BY <2>10, <2>11, FitConcat, ForgetAfter
  <2>. QED
    BY <2>6, <2>12, CoveredWhen
<1>5. Covered(UserToggle(u, a, rows, c))
  BY <1>3, ForgetAfter, CoveredWhen DEF UserToggle
<1>6. Covered(UserDelete(u, a, rows, c))
  <2>. DEFINE d == Delete(Links("member", {u}, Group))
              e == Delete(Links("holds", {u}, Role))
              f == Expunge("user", u, Links("member", {u}, Group) \cup Links("holds", {u}, Role))
  <2>1. Fit(K, d) /\ Fit(K, e)
    <3>1. /\ \A row \in Links("member", {u}, Group) : row[1] \notin Thing
          /\ \A row \in Links("holds", {u}, Role) : row[1] \notin Thing
      BY DEF Links, Thing
    <3>. HIDE DEF K
    <3>. QED
      BY <1>2, <3>1, DeleteFit
  <2>2. Fit(K, f)
    <3>1. LinksOf("user", u) \subseteq Links("member", {u}, Group) \cup Links("holds", {u}, Role)
      BY DEF LinksOf
    <3>. HIDE DEF K
    <3>. QED
      BY <1>0, <3>1, ExpungeFit
  <2>3. UserDelete(u, a, rows, c) = When(FullWrite(a, rows, c), <<d, e, Other, f, Overlook(K)>>)
    BY DEF UserDelete
  <2>. HIDE DEF d, e, f
  <2>. DEFINE first == <<d, e>>
              second == <<Other, f>>
  <2>. HIDE DEF K
  <2>4. FitList(K, first) /\ FitList(K, second)
    BY <2>1, <2>2, SimpleFit, FitOfTwo
  <2>5. <<d, e, Other, f, Overlook(K)>> = (first \o second) \o <<Overlook(K)>>
    OBVIOUS
  <2>. HIDE DEF first, second
  <2>6. Covered((first \o second) \o <<Overlook(K)>>)
    BY <2>4, FitConcat, ForgetAfter
  <2>. QED
    BY <2>3, <2>5, <2>6, CoveredWhen
<1>. QED
  BY <1>4, <1>5, <1>6

\* A loop that makes one call for each.
LEMMA CallsFit ==
  ASSUME NEW K, NEW S, IsFiniteSet(S), NEW tag, \A x \in S : Fit(K, Call(<<tag, x>>))
  PROVE  FitList(K, Calls(S, tag))
<1>. DEFINE s == SetToSeq(S)
            calls == [i \in DOMAIN s |-> Call(<<tag, s[i]>>)]
<1>1. s \in Seq(S)
  BY SetToSeqIs
<1>2. Calls(S, tag) = calls
  BY DEF Calls
<1>. HIDE DEF s
<1>3. \A i \in DOMAIN s : s[i] \in S
  BY <1>1
<1>4. \A i \in DOMAIN calls : Fit(K, calls[i])
  BY <1>3
<1>5. FitList(K, calls)
  BY <1>4, FitEach DEF s
<1>. QED
  BY <1>2, <1>5

LEMMA MemberHandlers ==
  ASSUME NEW rows, NEW u, NEW g, NEW c
  PROVE  /\ Covered(AssignAdmin(u, rows)) /\ Covered(Assign(u, g, rows)) /\ Covered(Login(u, rows))
         /\ Covered(<<Resolve(<<"permissions", u>>), Call(<<"grant", u>>)>>) /\ Covered(Grant(u, rows, c))
<1>1. \A k \in Key : k[2] = u => k \in Of({u})
  BY OfIs
<1>2. \A h : FitList(Of({u}), <<Association("member", u, rows \cap AnyStatus("group", h))>>)
  BY <1>1, AssociationOfOne, FitOf
<1>3. Covered(Assign(u, g, rows))
  <2>. DEFINE a == Association("member", u, rows \cap AnyStatus("group", g))
  <2>1. FitList(Of({u}), <<a>>)
    BY <1>2
  <2>2. Assign(u, g, rows) = <<a>> \o <<Forget(Of({u}))>>
    BY DEF Assign
  <2>. HIDE DEF a
  <2>. QED
    BY <2>1, <2>2, ForgetAfter
<1>4. Covered(Login(u, rows))
  <2>. DEFINE a == Association("member", u, rows \cap AnyStatus("group", Registered))
              all == <<a, Overlook(Of({u}))>>
  <2>1. FitList(Of({u}), <<a>>)
    BY <1>2
  <2>2. all = <<a>> \o <<Overlook(Of({u}))>>
    OBVIOUS
  <2>3. \E b : Login(u, rows) = When(b, all)
    BY DEF Login
  <2>. HIDE DEF a
  <2>4. Covered(all)
    BY <2>1, <2>2, ForgetAfter
  <2>. HIDE DEF all
  <2>. QED
    BY <2>3, <2>4, CoveredWhen
<1>5. Covered(AssignAdmin(u, rows))
  <2>. DEFINE G == {h \in DOMAIN Defaults : Defaults[h] = Administrator /\ Exists(h, "group", rows)}
              s == SetToSeq(G)
              calls == [i \in DOMAIN s |-> Call(<<"assign", u, s[i]>>)]
  <2>1. IsFiniteSet(G)
    BY SystemFinite, FS_Subset
  <2>2. AssignAdmin(u, rows) = When(Exists(u, "user", rows), calls)
    BY DEF AssignAdmin, Each
  <2>. HIDE DEF G, s
  <2>3. \A h : Whole(<<"assign", u, h>>)
    BY DEF Whole
  <2>4. \A i \in DOMAIN calls : Fit({}, calls[i])
    BY <2>3, CallFit
  <2>5. FitList({}, calls)
    BY <2>1, <2>4, FitEach DEF s
  <2>. HIDE DEF calls
  <2>. QED
    BY <2>2, <2>5, CoveredFit, CoveredWhen
<1>6. Covered(<<Resolve(<<"permissions", u>>), Call(<<"grant", u>>)>>)
  <2>1. Whole(<<"grant", u>>)
    BY DEF Whole
  <2>. QED
    BY <2>1, SimpleFit, CallFit, FitOfTwo, CoveredFit
<1>7. Covered(Grant(u, rows, c))
  <2>. DEFINE K == Of({u}) \cup Permissions
              a == Call(<<"role", Installer>>)
              b == Call(<<"append", Installer, {Extension}>>)
              d == Call(<<"hold", u>>)
              e == Forget(Of({u}))
              f == Overlook(Permissions)
  <2>1. Part(K, <<"role", Installer>>) /\ Part(K, <<"append", Installer, {Extension}>>) /\ Part(K, <<"hold", u>>)
    BY <1>1, AccessRolesAssumption DEF Part
  <2>2. FitList(K, <<a, b, d>>)
    <3>. HIDE DEF K
    <3>. QED
      BY <2>1, CallFit, FitOfThree
  <2>3. \E p : Grant(u, rows, c) = When(p, <<a, b, d, e, f>>)
    BY DEF Grant
  <2>4. <<a, b, d, e, f>> = <<a, b, d>> \o <<e, f>>
    <3>. HIDE DEF a, b, d, e, f
    <3>. QED
      OBVIOUS
  <2>. DEFINE first == <<a, b, d>>
  <2>. HIDE DEF first
  <2>5. Covered(first \o <<e, f>>)
    BY <2>2, ForgetAfter DEF first
  <2>. HIDE DEF a, b, d, e, f
  <2>. QED
    BY <2>3, <2>4, <2>5, CoveredWhen DEF first
<1>. QED
  BY <1>3, <1>4, <1>5, <1>6, <1>7

\* The status that a form sets is one of the statuses.
LEMMA StatusAsked ==
  ASSUME NEW op \in Request
  PROVE  (op[1] = "userForm" => op[4] \in Status) /\ (op[1] = "groupForm" => op[3] \in Status)
<1>1. CASE op \in ({"userForm"} \X User \X User \X Status \X (SUBSET Group) \X (SUBSET Role))
  BY <1>1
<1>2. CASE op \in ({"groupForm"} \X Group \X Status \X (SUBSET Role))
  BY <1>2
<1>3. CASE op \in ({"roleForm"} \X Role \X Status \X (SUBSET Perm) \X (SUBSET Perm) \X (SUBSET Role))
  BY <1>3
<1>4. CASE \/ op \in ({"roleDelete", "roleToggle"} \X Role) \/ op \in ({"groupDelete", "groupToggle"} \X Group)
            \/ op \in ({"assignAdmin", "login", "install"} \X User) \/ op = <<"boot">>
  BY <1>4
<1>5. CASE op \in ({"userToggle", "userDelete"} \X User \X User)
  BY <1>5
<1>. QED
  BY <1>1, <1>2, <1>3, <1>4, <1>5 DEF Request

LEMMA SomeStatus == "active" \in Status /\ {} \in SUBSET Perm /\ {} \in SUBSET Role
BY DEF Status

LEMMA WholeCovered ==
  ASSUME NEW rows, NEW c, NEW op, Whole(op)
  PROVE  Covered(Plan(op, rows, c))
<1>1. CASE op[1] = "assign"
  BY <1>1, MemberHandlers DEF Plan
<1>2. CASE op[1] = "assigns"
  <2>1. Plan(op, rows, c) \in {<<>>, <<Return>>}
    BY <1>2 DEF Plan, MayAssign
  <2>. QED
    BY <2>1, CoveredEmpty, SimpleFit, FitOf, CoveredFit
<1>3. CASE op[1] = "grant"
  BY <1>3, MemberHandlers DEF Plan
<1>4. CASE op \in Request /\ op # <<"boot">>
  <2>1. op[1] # "boot"
    <3>1. \A x \in Request : x[1] = "boot" => x = <<"boot">>
      BY DEF Request
    <3>. QED
      BY <1>4, <3>1
  <2>2. CASE op[1] = "roleForm"
    <3>1. /\ op[3] \in Status /\ op[4] \in SUBSET Perm /\ op[5] \in SUBSET Perm /\ op[6] \in SUBSET Role
      BY <1>4, <2>2, RequestIs
    <3>2. Covered(RoleForm(op[2], op[3], op[4], op[5], op[6], rows))
      BY <3>1, RoleHandlers
    <3>. QED
      BY <2>2, <3>2 DEF Plan
  <2>3. CASE op[1] = "roleDelete"
    <3>1. Covered(RoleDelete(op[2], rows))
      BY SomeStatus, RoleHandlers
    <3>. QED
      BY <2>3, <3>1 DEF Plan
  <2>4. CASE op[1] = "roleToggle"
    <3>1. Covered(RoleToggle(op[2], rows))
      BY SomeStatus, RoleHandlers
    <3>. QED
      BY <2>4, <3>1 DEF Plan
  <2>5. CASE op[1] = "groupForm"
    <3>1. Covered(GroupForm(op[2], op[3], op[4], rows))
      BY <1>4, <2>5, StatusAsked, GroupHandlers
    <3>. QED
      BY <2>5, <3>1 DEF Plan
  <2>6. CASE op[1] = "groupDelete"
    <3>1. Covered(GroupDelete(op[2], rows))
      BY SomeStatus, GroupHandlers
    <3>. QED
      BY <2>6, <3>1 DEF Plan
  <2>7. CASE op[1] = "groupToggle"
    <3>1. Covered(GroupToggle(op[2], rows))
      BY SomeStatus, GroupHandlers
    <3>. QED
      BY <2>7, <3>1 DEF Plan
  <2>8. CASE op[1] = "userForm"
    <3>1. Covered(UserForm(op[2], op[3], op[4], op[5], op[6], rows, c))
      BY <1>4, <2>8, StatusAsked, UserHandlers
    <3>. QED
      BY <2>8, <3>1 DEF Plan
  <2>9. CASE op[1] = "userToggle"
    <3>1. Covered(UserToggle(op[2], op[3], rows, c))
      BY SomeStatus, UserHandlers
    <3>. QED
      BY <2>9, <3>1 DEF Plan
  <2>10. CASE op[1] = "userDelete"
    <3>1. Covered(UserDelete(op[2], op[3], rows, c))
      BY SomeStatus, UserHandlers
    <3>. QED
      BY <2>10, <3>1 DEF Plan
  <2>11. CASE op[1] = "assignAdmin"
    BY <2>11, MemberHandlers DEF Plan
  <2>12. CASE op[1] = "login"
    BY <2>12, MemberHandlers DEF Plan
  <2>13. CASE op[1] = "install"
    BY <2>13, MemberHandlers DEF Plan
  <2>. QED
    BY <1>4, RequestIs, <2>1, <2>2, <2>3, <2>4, <2>5, <2>6, <2>7, <2>8, <2>9, <2>10, <2>11, <2>12, <2>13
<1>. QED
  BY <1>1, <1>2, <1>3, <1>4 DEF Whole

----------------------------------------------------------------------------
\* Parts of handlers

LEMMA AppendFit ==
  ASSUME NEW K, Permissions \subseteq K, NEW rows, NEW r, NEW P \in SUBSET Perm
  PROVE  FitList(K, AppendAllows(r, P, rows))
<1>1. Linked("allow", r, Perm, rows) \cup P \in SUBSET Perm /\ Linked("deny", r, Perm, rows) \ P \in SUBSET Perm
  BY DEF Linked
<1>. QED
  BY <1>1, GrantsFit DEF AppendAllows

LEMMA HoldFit ==
  ASSUME NEW K, NEW rows, NEW u, \A k \in Key : k[2] = u => k \in K
  PROVE  FitList(K, AssignUserRole(u, Installer, rows))
<1>. DEFINE s == Needing({AnyStatus("user", u), AnyStatus("role", Installer)},
                         Insert(<<"holds", u, Installer>>, {<<"holds", u, Installer>>}))
<1>1. /\ s.do = "statement" /\ s.add = {<<"holds", u, Installer>>} /\ s.drop = {}
      /\ s.needs = {AnyStatus("user", u), AnyStatus("role", Installer)}
  BY DEF Needing, Insert, Statement
<1>. HIDE DEF s
<1>2. Within(K, s.add \cup s.drop)
  BY <1>1 DEF Within, Concerns
<1>3. DropsLoose(s)
  BY <1>1 DEF DropsLoose
<1>4. AddsTied(s)
  <2>1. Joins["holds"] = <<"user", "role">>
    BY DEF Joins
  <2>. QED
    BY <1>1, <2>1 DEF AddsTied
<1>5. Fit(K, s)
  BY <1>1, <1>2, <1>3, <1>4 DEF Fit, StatementFit
<1>. QED
  BY <1>5, FitOf, FitWhen DEF AssignUserRole, s

LEMMA EnsureFit ==
  ASSUME NEW rows, NEW x
  PROVE  /\ \A K : Permissions \subseteq K => FitList(K, EnsureRole(x, rows))
         /\ FitList(Key, EnsureGroup(x, rows))
<1>1. ASSUME NEW K, Permissions \subseteq K
      PROVE  FitList(K, EnsureRole(x, rows))
  <2>1. \A k \in Key : Concerns(<<"role", x, "active">>, k) => k \in K
    BY <1>1 DEF Concerns
  <2>. QED
    BY <2>1, InsertFit, SimpleFit, FitOf DEF EnsureRole
<1>2. FitList(Key, EnsureGroup(x, rows))
  BY InsertFit, SimpleFit, FitOf DEF EnsureGroup
<1>. QED
  BY <1>1, <1>2

LEMMA StartFit ==
  ASSUME NEW rows, NEW x
  PROVE  /\ FitList(Key, Flatten(x, rows)) /\ FitList(Key, Default(x)) /\ FitList(Key, Everybody(rows))
         /\ FitList(Key, Migrate(rows)) /\ FitList(Key, Wildcard(rows))
<1>1. FitList(Key, Flatten(x, rows))
  <2>1. "gives" \in {"member", "holds", "gives"}
    OBVIOUS
  <2>. QED
    BY <2>1, ReplaceFit, FitWhen DEF Flatten
<1>2. FitList(Key, Default(x))
  <2>1. Part(Key, <<"group", x>>) /\ Part(Key, <<"flatten", x>>)
    BY DEF Part
  <2>. QED
    BY <2>1, CallFit, FitOfTwo DEF Default
<1>3. FitList(Key, Everybody(rows))
  <2>. DEFINE U == {v \in User : Exists(v, "user", rows) /\ <<"member", v, Public>> \notin rows}
              s == SetToSeq(U)
              ties == [i \in DOMAIN s |-> Association("member", s[i], rows \cap AnyStatus("group", Public))]
  <2>1. IsFiniteSet(U)
    BY AccessFiniteAssumption, FS_Subset
  <2>2. Everybody(rows) = ties
    BY DEF Everybody, Each
  <2>. HIDE DEF U, s
  <2>3. \A i \in DOMAIN ties : Fit(Key, ties[i])
    BY AssociationOfOne
  <2>4. FitList(Key, ties)
    BY <2>1, <2>3, FitEach DEF s
  <2>. QED
    BY <2>2, <2>4
<1>4. FitList(Key, Migrate(rows))
  <2>. DEFINE R == {r \in System : Exists(r, "role", rows)}
              resets == Calls(R, "reset")
              first == <<Insert(<<"revision", 1, "done">>, {})>>
              second == <<Call(<<"wildcard">>), Insert(<<"revision", 2, "done">>, {})>>
  <2>1. IsFiniteSet(R)
    BY SystemFinite, FS_Subset
  <2>2. \A r \in R : Fit(Key, Call(<<"reset", r>>))
    BY CallFit DEF Part
  <2>. HIDE DEF R
  <2>3. FitList(Key, resets)
    BY <2>1, <2>2, CallsFit
  <2>4. \A n : Fit(Key, Insert(<<"revision", n, "done">>, {}))
    BY InsertFit
  <2>5. Fit(Key, Call(<<"wildcard">>))
    BY CallFit DEF Part
  <2>6. FitList(Key, first) /\ FitList(Key, second)
    BY <2>4, <2>5, FitOf, FitOfTwo
  <2>7. Migrate(rows) = When(~\E n \in {1, 2} : <<"revision", n, "done">> \in rows, resets \o first)
                        \o When(<<"revision", 2, "done">> \notin rows, second)
    BY DEF Migrate, R, Each, Calls
  <2>. HIDE DEF resets, first, second
  <2>. QED
    BY <2>3, <2>6, <2>7, FitConcat, FitWhen
<1>5. FitList(Key, Wildcard(rows))
  <2>1. {All} \in SUBSET Perm /\ Permissions \subseteq Key
    BY AccessRolesAssumption DEF Key
  <2>. QED
    BY <2>1, AppendFit, FitWhen DEF Wildcard
<1>. QED
  BY <1>1, <1>2, <1>3, <1>4, <1>5

LEMMA SeedFit ==
  ASSUME NEW rows, NEW r \in System
  PROVE  FitList(Key, Seed(r)) /\ FitList(Key, SeedPermissions(r, rows)) /\ FitList(Key, Reset(r, rows))
<1>1. /\ BuiltIn[r].allows \in SUBSET Perm /\ {} \in SUBSET Perm
      /\ BuiltIn[r].parents \subseteq Role
  BY AccessRolesAssumption
<1>2. Permissions \subseteq Key
  BY DEF Key
<1>3. FitList(Key, SaveRolePermissions(r, BuiltIn[r].allows, {}))
  BY <1>1, <1>2, GrantsFit
<1>4. FitList(Key, Seed(r))
  <2>1. Part(Key, <<"inherit", r, BuiltIn[r].parents>>) /\ Part(Key, <<"seedGrants", r>>)
    BY <1>1 DEF Part
  <2>. QED
    BY <2>1, CallFit, FitOfTwo DEF Seed
<1>5. FitList(Key, SeedPermissions(r, rows))
  BY <1>3, FitWhen DEF SeedPermissions
<1>6. FitList(Key, Reset(r, rows))
  <2>. DEFINE P == {p \in BuiltIn[r].parents : Exists(p, "role", rows)}
  <2>1. P \subseteq Role
    BY <1>1
  <2>. HIDE DEF P
  <2>2. Part(Key, <<"inherit", r, P>>)
    BY <2>1 DEF Part
  <2>3. FitList(Key, <<Call(<<"inherit", r, P>>)>>)
    BY <2>2, CallFit, FitOf
  <2>. QED
    BY <1>3, <2>3, FitConcat DEF Reset, P
<1>. QED
  BY <1>4, <1>5, <1>6

LEMMA PartFit ==
  ASSUME NEW rows, NEW c, NEW K, NEW op, Part(K, op)
  PROVE  FitList(K, Plan(op, rows, c))
<1>0. "gives" \in {"member", "holds", "gives"} /\ "member" \in {"member", "holds", "gives"}
      /\ "holds" \in {"member", "holds", "gives"} /\ "role" \in Thing
  BY DEF Thing
<1>1. CASE op[1] = "member" /\ \A k \in Key : k[2] = op[2] => k \in K
  BY <1>0, <1>1, ReplaceFit DEF Plan
<1>2. CASE op[1] = "holds" /\ \A k \in Key : k[2] = op[2] => k \in K
  BY <1>0, <1>2, ReplaceFit DEF Plan
<1>3. CASE op[1] = "hold" /\ \A k \in Key : k[2] = op[2] => k \in K
  BY <1>3, HoldFit DEF Plan
<1>7. CASE op[1] \in {"links", "keep"} /\ \A k \in Key : k[2] = op[2] => k \in K
  <2>1. ASSUME NEW G, NEW R
        PROVE  FitList(K, SetLinks(op[2], G, R))
    <3>1. Part(K, <<"member", op[2], G>>) /\ Part(K, <<"holds", op[2], R>>)
      BY <1>7 DEF Part
    <3>. QED
      BY <3>1, CallFit, FitOfTwo DEF SetLinks
  <2>2. \/ Plan(op, rows, c) = SetLinks(op[2], op[3], op[4])
        \/ Plan(op, rows, c) = KeepLinks(op[2], rows)
    BY <1>7 DEF Plan
  <2>. QED
    BY <2>1, <2>2 DEF KeepLinks
<1>4. CASE op[1] = "role" /\ Permissions \subseteq K
  BY <1>4, EnsureFit DEF Plan
<1>5. CASE op[1] = "append" /\ op[3] \subseteq Perm /\ Permissions \subseteq K
  BY <1>5, AppendFit DEF Plan
<1>6. CASE Key \subseteq K
  <2>0. \A l : FitList(Key, l) => FitList(K, l)
    BY <1>6, FitMore DEF FitList
  <2>1. CASE op[1] = "gives"
    BY <1>0, <1>6, <2>1, ReplaceFit DEF Plan
  <2>2. CASE op[1] \in {"flatten", "default", "everybody", "migrate", "wildcard"}
    BY <2>0, <2>2, StartFit DEF Plan
  <2>3. CASE op[1] = "group"
    BY <2>0, <2>3, EnsureFit DEF Plan
  <2>4. CASE op[1] = "grants" /\ op[3] \subseteq Perm /\ op[4] \subseteq Perm
    <3>. DEFINE r == op[2]
                listed == {p \in Perm : p # All \/ {<<"allow", r, p>>, <<"deny", r, p>>} \cap rows # {}}
                wildcard == IF r = Administrator THEN {All} ELSE {}
                allows == (op[3] \cap listed) \cup wildcard
                denies == op[4] \cap listed
    <3>1. GrantsForm(r, op[3], op[4], rows) = SaveRolePermissions(r, allows, denies)
      BY DEF GrantsForm
    <3>2. allows \in SUBSET Perm /\ denies \in SUBSET Perm /\ Permissions \subseteq Key
      BY AccessRolesAssumption DEF Key
    <3>. HIDE DEF allows, denies
    <3>3. FitList(Key, GrantsForm(r, op[3], op[4], rows))
      BY <3>1, <3>2, GrantsFit
    <3>. QED
      BY <2>0, <2>4, <3>3 DEF Plan
  <2>5. CASE op[1] = "inherit" /\ op[3] \subseteq Role
    <3>1. FitList(Key, SaveRoleInheritance(op[2], op[3], rows))
      BY <2>5, InheritFit
    <3>. QED
      BY <2>0, <2>5, <3>1 DEF Plan
  <2>6. CASE op[1] \in {"seed", "seedGrants", "reset"} /\ op[2] \in System
    <3>1. FitList(Key, Seed(op[2])) /\ FitList(Key, SeedPermissions(op[2], rows)) /\ FitList(Key, Reset(op[2], rows))
      BY <2>6, SeedFit
    <3>. QED
      BY <2>0, <2>6, <3>1 DEF Plan
  <2>7. CASE op[1] = "toggle" /\ op[2] = "role"
    <3>1. FitList(Key, Toggle("role", op[3], rows))
      BY <1>0, ToggleFit
    <3>2. FitList(Key, When(Exists(op[3], "role", rows), Toggle("role", op[3], rows)))
      BY <3>1, FitWhen
    <3>. QED
      BY <2>0, <2>7, <3>2 DEF Plan
  <2>8. \/ op[1] \in {"gives", "flatten", "default", "group", "everybody", "migrate", "wildcard"}
        \/ op[1] = "grants" /\ op[3] \subseteq Perm /\ op[4] \subseteq Perm
        \/ op[1] = "inherit" /\ op[3] \subseteq Role
        \/ op[1] \in {"seed", "seedGrants", "reset"} /\ op[2] \in System
        \/ op[1] = "toggle" /\ op[2] = "role"
        \/ op[1] \in {"member", "holds", "hold", "role"}
        \/ op[1] \in {"links", "keep"} /\ \A k \in Key : k[2] = op[2] => k \in K
        \/ op[1] = "append" /\ op[3] \subseteq Perm
    BY DEF Part
  <2>9. Permissions \subseteq K
    BY <1>6 DEF Key
  <2>. QED
    BY <1>1, <1>2, <1>3, <1>4, <1>5, <1>6, <1>7, <2>1, <2>2, <2>3, <2>4, <2>5, <2>6, <2>7, <2>8, <2>9
<1>. QED
  BY <1>1, <1>2, <1>3, <1>4, <1>5, <1>6, <1>7 DEF Part

----------------------------------------------------------------------------
\* A start

LEMMA BootIs ==
  ASSUME NEW l, FitList(Key, l)
  PROVE  BootList(l)
BY DEF FitList, BootList

LEMMA BootConcat ==
  ASSUME NEW l, NEW m, BootList(l), BootList(m)
  PROVE  BootList(l \o m)
<1>1. PICK S : l \in Seq(S) /\ \A s \in S : Fit(Key, s) \/ FitCatch(s)
  BY DEF BootList
<1>2. PICK T : m \in Seq(T) /\ \A s \in T : Fit(Key, s) \/ FitCatch(s)
  BY DEF BootList
<1>3. l \o m \in Seq(S \cup T)
  <2>1. l \in Seq(S \cup T) /\ m \in Seq(S \cup T)
    BY <1>1, <1>2
  <2>. QED
    BY <2>1
<1>. QED
  BY <1>1, <1>2, <1>3 DEF BootList

LEMMA BootFlat ==
  ASSUME NEW a, NEW b, NEW c, BootList(a), BootList(b), BootList(c)
  PROVE  (a \o b) \o c = a \o (b \o c)
<1>1. PICK A, B, C : a \in Seq(A) /\ b \in Seq(B) /\ c \in Seq(C)
  BY DEF BootList
<1>. DEFINE U == (A \cup B) \cup C
<1>2. a \in Seq(U) /\ b \in Seq(U) /\ c \in Seq(U)
  BY <1>1
<1>. HIDE DEF U
<1>. QED
  BY <1>2

LEMMA BootTail ==
  ASSUME NEW l, BootList(l), l # <<>>
  PROVE  /\ Fit(Key, Head(l)) \/ FitCatch(Head(l))
         /\ BootList(Tail(l))
         /\ \A i \in DOMAIN Tail(l) : Fit(Key, Tail(l)[i]) \/ FitCatch(Tail(l)[i])
<1>1. PICK S : l \in Seq(S) /\ \A s \in S : Fit(Key, s) \/ FitCatch(s)
  BY DEF BootList
<1>2. Head(l) \in S /\ Tail(l) \in Seq(S)
  BY <1>1
<1>3. \A i \in DOMAIN Tail(l) : Tail(l)[i] \in S
  BY <1>2
<1>. QED
  BY <1>1, <1>2, <1>3 DEF BootList

LEMMA BootStarts == BootList(Boot) /\ Boot # <<>> /\ Head(Boot) = Forget(Key)
<1>. DEFINE roles == Calls(System, "role")
            seeds == Calls(System, "seed")
            flatten == Calls(DOMAIN Defaults, "flatten")
            defaults == Calls(DOMAIN Defaults, "default")
            migrate == <<Call(<<"migrate">>), Call(<<"wildcard">>)>>
            groups == <<Call(<<"group", Public>>), Call(<<"group", Registered>>), Call(<<"everybody">>)>>
            caught == <<Catch(migrate \o <<Return>>)>>
            forget == Forget(Key)
            rest == (roles \o seeds \o flatten) \o caught \o migrate \o defaults \o groups
<1>1. /\ \A r \in System : Part(Key, <<"role", r>>) /\ Part(Key, <<"seed", r>>)
      /\ \A g : Part(Key, <<"flatten", g>>) /\ Part(Key, <<"default", g>>) /\ Part(Key, <<"group", g>>)
      /\ Part(Key, <<"migrate">>) /\ Part(Key, <<"wildcard">>) /\ Part(Key, <<"everybody">>)
  BY DEF Part, Key
<1>2. FitList(Key, roles) /\ FitList(Key, seeds) /\ FitList(Key, flatten) /\ FitList(Key, defaults)
  BY <1>1, SystemFinite, CallFit, CallsFit
<1>3. FitList(Key, migrate) /\ FitList(Key, groups)
  BY <1>1, CallFit, FitOfTwo, FitOfThree
<1>4. BootList(caught)
  <2>1. FitList(Key, <<Return>>)
    BY SimpleFit, FitOf
  <2>. DEFINE c == Catch(migrate \o <<Return>>)
  <2>2. FitCatch(c)
    <3>. HIDE DEF migrate
    <3>. QED
      BY <1>3, <2>1, FitConcat DEF FitCatch, Catch
  <2>. DEFINE S == {c}
  <2>. HIDE DEF c
  <2>3. <<c>> \in Seq(S) /\ \A s \in S : FitCatch(s)
    BY <2>2
  <2>. HIDE DEF S
  <2>4. BootList(<<c>>)
    BY <2>3 DEF BootList
  <2>. QED
    BY <2>4 DEF c
<1>5. Boot = <<forget>> \o (roles \o seeds \o flatten) \o caught \o migrate \o defaults \o groups
  BY DEF Boot, SeedDefaults, Each, Calls
<1>6. FitList(Key, <<forget>>)
  BY SimpleFit, FitOf
<1>. HIDE DEF roles, seeds, flatten, defaults, groups, migrate, caught, forget, rest
<1>7. BootList(<<forget>>) /\ BootList(roles \o seeds \o flatten) /\ BootList(migrate) /\ BootList(defaults) /\ BootList(groups)
  BY <1>2, <1>3, <1>6, FitConcat, BootIs
<1>8. BootList(rest)
  <2>1. BootList((roles \o seeds \o flatten) \o caught)
    BY <1>4, <1>7, BootConcat
  <2>2. BootList((roles \o seeds \o flatten) \o caught \o migrate)
    BY <1>7, <2>1, BootConcat
  <2>3. BootList((roles \o seeds \o flatten) \o caught \o migrate \o defaults)
    BY <1>7, <2>2, BootConcat
  <2>. QED
    BY <1>7, <2>3, BootConcat DEF rest
<1>9. PICK T : rest \in Seq(T)
  BY <1>8 DEF BootList
<1>10. Boot = <<forget>> \o rest
  <2>. DEFINE all == roles \o seeds \o flatten
              p == all \o caught
              q == p \o migrate
              r == q \o defaults
  <2>1. BootList(<<forget>>) /\ BootList(all) /\ BootList(caught) /\ BootList(migrate) /\ BootList(defaults) /\ BootList(groups)
    BY <1>4, <1>7
  <2>2. Boot = ((((<<forget>> \o all) \o caught) \o migrate) \o defaults) \o groups /\ rest = r \o groups
    BY <1>5 DEF rest
  <2>. HIDE DEF all
  <2>3. (<<forget>> \o all) \o caught = <<forget>> \o p /\ BootList(p)
    BY <2>1, BootConcat, BootFlat
  <2>. HIDE DEF p
  <2>4. (<<forget>> \o p) \o migrate = <<forget>> \o q /\ BootList(q)
    BY <2>1, <2>3, BootConcat, BootFlat
  <2>. HIDE DEF q
  <2>5. (<<forget>> \o q) \o defaults = <<forget>> \o r /\ BootList(r)
    BY <2>1, <2>4, BootConcat, BootFlat
  <2>. HIDE DEF r
  <2>6. (<<forget>> \o r) \o groups = <<forget>> \o rest
    BY <2>1, <2>2, <2>5, BootFlat
  <2>. QED
    BY <2>2, <2>3, <2>4, <2>5, <2>6
<1>11. Head(Boot) = forget /\ Boot # <<>>
  <2>. DEFINE U == {forget} \cup T
  <2>1. <<forget>> \in Seq(U) /\ rest \in Seq(U)
    BY <1>9
  <2>. HIDE DEF U
  <2>2. <<forget>> \o rest \in Seq(U) /\ Len(<<forget>> \o rest) = 1 + Len(rest) /\ Len(rest) \in Nat
        /\ (<<forget>> \o rest)[1] = forget
    BY <2>1
  <2>3. Head(<<forget>> \o rest) = forget /\ <<forget>> \o rest # <<>>
    BY <2>2
  <2>. QED
    BY <1>10, <2>3
<1>. QED
  BY <1>7, <1>8, <1>10, <1>11, BootConcat DEF forget

----------------------------------------------------------------------------
\* The invariant

\* Until a start is over, nothing is cached that is not doubtful.
Emptied == \A k \in Key \ doubtful : cached[k] = None

Orderly(empty, l) ==
  \/ Covered(l)
  \/ BootList(l) /\ (empty \/ (l # <<>> /\ Head(l) = Forget(Key)))
Shape(empty, o, l) ==
  \/ o \in Key /\ \E k, v : l = <<Read(k)>> \/ l = <<Fill(k, v)>>
  \/ /\ o \notin Key
     /\ \/ l = <<Call(<<"boot">>)>>
        \/ Orderly(empty, l)
        \/ \E k, v, m : l = <<Fill(k, v)>> \o m /\ Orderly(empty, m)

Underway(w, o, l) == worker[w] = [op |-> o, todo |-> l] /\ l # <<>> /\ Shape(Emptied, o, l)
Served(w) == worker[w] = Site!Idle \/ \E o, l : Underway(w, o, l)

\* Some change will see to k.
Tends(w, k) == Site!Changing(w) /\ k \in EndedIn(worker[w].todo)
CurrentIn(k, c, rows) == c[k] \in {None, Derive(k, rows)}
Tended == \A k \in Key \ doubtful : CurrentIn(k, cached, db) \/ \E w \in Worker : Tends(w, k)

\* What is about to be cached is what the database says.
Fresh == \A k \in Key \ doubtful, w \in Worker : k \in Site!Filling(w) => Site!Now(w).value = Derive(k, db)

CacheInv ==
  /\ Consistent(db)
  /\ DOMAIN worker = Worker
  /\ cached = [k \in Key |-> cached[k]]
  /\ \A w \in Worker : Served(w)
  /\ Tended
  /\ Fresh

LEMMA CacheInit ==
  ASSUME ConsistentAtStart, Site!Init
  PROVE  CacheInv
<1>1. db \in Start /\ cached = [k \in Key |-> None] /\ worker = [w \in Worker |-> Site!Idle]
  BY DEF Site!Init
<1>2. \A w \in Worker : worker[w] = Site!Idle
  BY <1>1
<1>3. \A w \in Worker : Site!Filling(w) = {}
  BY <1>2 DEF Site!Filling, Site!At, Site!Busy
<1>4. \A k \in Key : CurrentIn(k, cached, db)
  BY <1>1 DEF CurrentIn
<1>5. cached = [k \in Key |-> cached[k]] /\ DOMAIN worker = Worker
  BY <1>1
<1>. QED
  BY <1>1, <1>2, <1>3, <1>4, <1>5 DEF CacheInv, ConsistentAtStart, Served, Tended, Fresh

----------------------------------------------------------------------------
\* Steps that remain

LEMMA FitSorts ==
  ASSUME NEW K, NEW s, Fit(K, s) \/ FitCatch(s)
  PROVE  s.do \in {"call", "where", "statement", "return", "forget", "overlook", "resolve", "read", "catch"}
BY DEF Fit, FitCatch, StatementFit

LEMMA OrderlyMore ==
  ASSUME NEW e, NEW f, e => f, NEW o, NEW l, Shape(e, o, l)
  PROVE  Shape(f, o, l)
BY DEF Shape, Orderly

LEMMA OrderlySeq ==
  ASSUME NEW e, NEW l, Orderly(e, l)
  PROVE  (\E S : l \in Seq(S)) /\ BootList(l)
BY CoveredIsFit, BootIs DEF Orderly, Covered, BootList

LEMMA ShapeSeq ==
  ASSUME NEW e, NEW o, NEW l, Shape(e, o, l)
  PROVE  \E S : l \in Seq(S)
<1>1. CASE \E k, v : l = <<Read(k)>> \/ l = <<Fill(k, v)>> \/ l = <<Call(<<"boot">>)>>
  <2>1. \A a : <<a>> \in Seq({a})
    OBVIOUS
  <2>. QED
    BY <1>1, <2>1
<1>2. CASE Orderly(e, l)
  BY <1>2, OrderlySeq
<1>3. CASE \E k, v, m : l = <<Fill(k, v)>> \o m /\ Orderly(e, m)
  <2>1. PICK k, v, m : l = <<Fill(k, v)>> \o m /\ Orderly(e, m)
    BY <1>3
  <2>2. PICK S : m \in Seq(S)
    BY <2>1, OrderlySeq
  <2>. DEFINE a == Fill(k, v)
  <2>. HIDE DEF a
  <2>3. <<a>> \o m \in Seq({a} \cup S)
    <3>. DEFINE T == {a} \cup S
    <3>1. <<a>> \in Seq(T) /\ m \in Seq(T)
      BY <2>2
    <3>. HIDE DEF T
    <3>2. <<a>> \o m \in Seq(T)
      BY <3>1
    <3>. QED
      BY <3>2 DEF T
  <2>. QED
    BY <2>1, <2>3 DEF a
<1>. QED
  BY <1>1, <1>2, <1>3 DEF Shape

\* What follows a first step.
LEMMA FirstIs ==
  ASSUME NEW a, NEW m, \E S : m \in Seq(S)
  PROVE  <<a>> \o m # <<>> /\ Head(<<a>> \o m) = a /\ Tail(<<a>> \o m) = m
<1>1. PICK S : m \in Seq(S)
  OBVIOUS
<1>. DEFINE T == {a} \cup S
            l == <<a>> \o m
<1>2. <<a>> \in Seq(T) /\ m \in Seq(T)
  BY <1>1
<1>. HIDE DEF T
<1>3. /\ l \in Seq(T) /\ Len(l) = Len(m) + 1 /\ Len(m) \in Nat /\ l[1] = a
      /\ \A i \in 1..Len(m) : l[i + 1] = m[i]
  BY <1>2
<1>. HIDE DEF l
<1>4. l # <<>> /\ Head(l) = a
  BY <1>3
<1>5. Tail(l) = m
  <2>1. Tail(l) \in Seq(T) /\ Len(Tail(l)) = Len(m) /\ \A i \in 1..Len(m) : Tail(l)[i] = m[i]
    BY <1>3
  <2>. QED
    BY <1>2, <2>1
<1>. QED
  BY <1>4, <1>5 DEF l

\* A list of steps is what its first step and the others make.
LEMMA EndedTail ==
  ASSUME NEW l, \E S : l \in Seq(S), l # <<>>
  PROVE  \A k \in EndedIn(l) : k \in EndedIn(Tail(l)) \/ Ends(Head(l), k)
<1>1. PICK S : l \in Seq(S)
  OBVIOUS
<1>2. /\ Head(l) = l[1]
      /\ \A i \in DOMAIN l : i = 1 \/ (i - 1 \in DOMAIN Tail(l) /\ Tail(l)[i - 1] = l[i])
  BY <1>1
<1>. QED
  BY <1>2 DEF EndedIn

\* What has to be done where no value is stored.
LEMMA OrderlyTail ==
  ASSUME NEW e, NEW l, l # <<>>, Orderly(e, l)
  PROVE  /\ Head(l).do # "fill"
         /\ BootList(Tail(l)) /\ \A i \in DOMAIN Tail(l) : Fit(Key, Tail(l)[i]) \/ FitCatch(Tail(l)[i])
         /\ e \/ Head(l) # Forget(Key) => Orderly(e, Tail(l))
         /\ Head(l).do = "catch" => e
         /\ \/ Fit(EndedIn(Tail(l)), Head(l)) /\ Covered(Tail(l))
            \/ e /\ (Fit(Key, Head(l)) \/ FitCatch(Head(l)))
            \/ Head(l) = Forget(Key)
<1>1. BootList(l)
  BY OrderlySeq
<1>2. /\ Fit(Key, Head(l)) \/ FitCatch(Head(l))
      /\ BootList(Tail(l)) /\ \A i \in DOMAIN Tail(l) : Fit(Key, Tail(l)[i]) \/ FitCatch(Tail(l)[i])
  BY <1>1, BootTail
<1>3. Head(l).do # "fill"
  BY <1>2, FitSorts
<1>4. CASE Covered(l)
  <2>1. Fit(EndedIn(Tail(l)), Head(l)) /\ Covered(Tail(l))
    BY <1>4, CoveredTail
  <2>2. Head(l).do # "catch"
    BY <2>1 DEF Fit, StatementFit
  <2>. QED
    BY <1>2, <1>3, <2>1, <2>2 DEF Orderly
<1>5. CASE e
  BY <1>2, <1>3, <1>5 DEF Orderly
<1>6. CASE Head(l) = Forget(Key) /\ ~e /\ ~Covered(l)
  <2>1. Head(l).do # "catch"
    BY <1>6 DEF Forget
  <2>. QED
    BY <1>2, <1>3, <1>6, <2>1
<1>. QED
  BY <1>4, <1>5, <1>6 DEF Orderly

----------------------------------------------------------------------------
\* Requests come and go on

LEMMA UnderwayIs ==
  ASSUME CacheInv, NEW w \in Worker, NEW do, Site!At(w, do)
  PROVE  \E o, l : Underway(w, o, l) /\ Head(l).do = do
<1>1. PICK o, l : Underway(w, o, l)
  BY DEF CacheInv, Served, Site!At, Site!Busy
<1>2. Head(l).do = do
  BY <1>1 DEF Site!At, Underway
<1>. QED
  BY <1>1, <1>2

LEMMA ChangingIs ==
  ASSUME NEW w, NEW o, NEW l, Underway(w, o, l)
  PROVE  Site!Changing(w) <=> o \notin Key
BY DEF Underway, Site!Changing, Site!Busy, Site!Idle

\* A request that changes something has more to do than to look.
LEMMA Changes ==
  ASSUME NEW w, NEW o, NEW l, Underway(w, o, l), Head(l).do \notin {"read", "fill"}
  PROVE  o \notin Key /\ (l = <<Call(<<"boot">>)>> \/ Orderly(Emptied, l))
<1>1. \A k, v : Head(<<Read(k)>>).do = "read" /\ Head(<<Fill(k, v)>>).do = "fill"
  BY DEF Read, Fill
<1>2. ASSUME NEW k, NEW v, NEW m, l = <<Fill(k, v)>> \o m, Orderly(Emptied, m)
      PROVE  FALSE
  <2>1. Head(l) = Fill(k, v)
    BY <1>2, OrderlySeq, FirstIs
  <2>. QED
    BY <2>1 DEF Fill
<1>. QED
  BY <1>1, <1>2 DEF Underway, Shape

LEMMA Reads ==
  ASSUME NEW w, NEW o, NEW l, Underway(w, o, l), Head(l).do = "read"
  PROVE  \/ o \in Key /\ Tail(l) = <<>>
         \/ o \notin Key /\ Orderly(Emptied, l)
<1>1. \A k, v : Tail(<<Read(k)>>) = <<>> /\ Head(<<Fill(k, v)>>).do = "fill" /\ Head(<<Call(<<"boot">>)>>).do = "call"
  BY DEF Fill, Call
<1>2. ASSUME NEW k, NEW v, NEW m, l = <<Fill(k, v)>> \o m, Orderly(Emptied, m)
      PROVE  FALSE
  <2>1. Head(l) = Fill(k, v)
    BY <1>2, OrderlySeq, FirstIs
  <2>. QED
    BY <2>1 DEF Fill
<1>. QED
  BY <1>1, <1>2 DEF Underway, Shape

LEMMA Stores ==
  ASSUME NEW w, NEW o, NEW l, Underway(w, o, l), Head(l).do = "fill"
  PROVE  \/ o \in Key /\ Tail(l) = <<>>
         \/ o \notin Key /\ Orderly(Emptied, Tail(l))
<1>1. \A k, v : Head(<<Read(k)>>).do = "read" /\ Tail(<<Fill(k, v)>>) = <<>> /\ Head(<<Call(<<"boot">>)>>).do = "call"
  BY DEF Read, Call
<1>2. ~Orderly(Emptied, l)
  BY OrderlyTail DEF Underway
<1>3. ASSUME NEW k, NEW v, NEW m, l = <<Fill(k, v)>> \o m, Orderly(Emptied, m)
      PROVE  Orderly(Emptied, Tail(l))
  BY <1>3, OrderlySeq, FirstIs
<1>. QED
  BY <1>1, <1>2, <1>3 DEF Underway, Shape

LEMMA Moves ==
  ASSUME CacheInv, NEW w \in Worker, NEW o, NEW l, Underway(w, o, l), NEW steps, Site!Instead(w, steps),
         Emptied /\ (\E u \in Worker : Site!Changing(u)) => Emptied',
         steps # <<>> => Shape(Emptied', o, steps),
         Consistent(db'), cached' = [k \in Key |-> cached'[k]],
         \A k \in Key \ doubtful' :
           \/ CurrentIn(k, cached', db')
           \/ o \notin Key /\ k \in EndedIn(steps)
           \/ \E u \in Worker \ {w} : Tends(u, k),
         \A k \in Key \ doubtful' : steps # <<>> /\ Head(steps).do = "fill" /\ Head(steps).key = k =>
           Head(steps).value = Derive(k, db'),
         \A k \in Key \ doubtful', u \in Worker \ {w} : k \in Site!Filling(u) => Site!Now(u).value = Derive(k, db')
  PROVE  CacheInv'
<1>1. /\ (DOMAIN worker)' = Worker
      /\ \A v \in Worker : v # w => worker'[v] = worker[v]
      /\ worker'[w] = IF steps = <<>> THEN Site!Idle ELSE [op |-> o, todo |-> steps]
  BY InsteadDoes DEF CacheInv, Underway
<1>2. ASSUME NEW v \in Worker
      PROVE  Served(v)'
  <2>1. CASE v = w
    BY <1>1, <2>1 DEF Served, Underway, Site!Idle
  <2>2. CASE v # w /\ worker[v] = Site!Idle
    BY <1>1, <2>2 DEF Served, Site!Idle
  <2>3. CASE v # w /\ worker[v] # Site!Idle
    <3>1. PICK p, m : Underway(v, p, m)
      BY <2>3 DEF CacheInv, Served
    <3>2. Shape(Emptied', p, m)
      <4>1. CASE p \in Key
        BY <3>1, <4>1 DEF Underway, Shape
      <4>2. CASE p \notin Key
        <5>1. Emptied => Emptied'
          BY <3>1, <4>2, ChangingIs
        <5>2. Shape(Emptied, p, m)
          BY <3>1 DEF Underway
        <5>. HIDE DEF Emptied
        <5>. QED
          BY <5>1, <5>2, OrderlyMore
      <4>. QED
        BY <4>1, <4>2
    <3>3. worker'[v] = [op |-> p, todo |-> m] /\ m # <<>>
      BY <1>1, <2>3, <3>1 DEF Underway
    <3>. QED
      BY <3>2, <3>3 DEF Served, Underway
  <2>. QED
    BY <2>1, <2>2, <2>3
<1>3. ASSUME NEW k \in Key \ doubtful'
      PROVE  CurrentIn(k, cached', db') \/ \E u \in Worker : Tends(u, k)'
  <2>1. CASE CurrentIn(k, cached', db')
    BY <2>1
  <2>2. CASE o \notin Key /\ k \in EndedIn(steps)
    <3>1. steps # <<>>
      BY <2>2 DEF EndedIn
    <3>2. worker'[w] = [op |-> o, todo |-> steps]
      BY <1>1, <3>1
    <3>3. Tends(w, k)'
      BY <2>2, <3>1, <3>2 DEF Tends, Site!Changing, Site!Busy, Site!Idle
    <3>. QED
      BY <3>3
  <2>3. CASE \E u \in Worker \ {w} : Tends(u, k)
    <3>1. PICK u \in Worker \ {w} : Tends(u, k)
      BY <2>3
    <3>2. worker'[u] = worker[u]
      BY <1>1
    <3>3. Tends(u, k)'
      BY <3>1, <3>2 DEF Tends, Site!Changing, Site!Busy, Site!Idle
    <3>. QED
      BY <3>3
  <2>. QED
    BY <2>1, <2>2, <2>3
<1>4. ASSUME NEW k \in Key \ doubtful', NEW v \in Worker, (k \in Site!Filling(v))'
      PROVE  (Site!Now(v).value = Derive(k, db))'
  <2>1. CASE v = w
    <3>1. steps # <<>> /\ Head(steps).do = "fill" /\ Head(steps).key = k
      BY <1>1, <1>4, <2>1 DEF Site!Filling, Site!At, Site!Busy, Site!Now, Site!Idle
    <3>2. Head(steps).value = Derive(k, db')
      BY <3>1
    <3>. QED
      BY <1>1, <2>1, <3>1, <3>2 DEF Site!Now
  <2>2. CASE v # w
    <3>1. worker'[v] = worker[v]
      BY <1>1, <2>2
    <3>2. k \in Site!Filling(v)
      BY <1>4, <3>1 DEF Site!Filling, Site!At, Site!Busy, Site!Now, Site!Idle
    <3>3. Site!Now(v).value = Derive(k, db')
      BY <2>2, <3>2
    <3>. QED
      BY <3>1, <3>3 DEF Site!Now
  <2>. QED
    BY <2>1, <2>2
<1>5. Tended'
  BY <1>3 DEF Tended
<1>6. Fresh'
  BY <1>4 DEF Fresh
<1>. QED
  BY <1>1, <1>2, <1>5, <1>6 DEF CacheInv

\* A request goes on, and neither the rows nor the caches change.
LEMMA KeepsOn ==
  ASSUME CacheInv, NEW w \in Worker, NEW o, NEW l, Underway(w, o, l), NEW steps, Site!Instead(w, steps),
         db' = db, cached' = cached, doubtful \subseteq doubtful',
         steps # <<>> => Shape(Emptied, o, steps),
         \A k \in Key \ doubtful' : o \notin Key /\ k \in EndedIn(l) => k \in EndedIn(steps) \/ CurrentIn(k, cached, db),
         steps # <<>> /\ Head(steps).do = "fill" => Head(steps).value = Derive(Head(steps).key, db)
  PROVE  CacheInv'
<1>1. Emptied => Emptied'
  BY DEF Emptied
<1>2. steps # <<>> => Shape(Emptied', o, steps)
  <2>. HIDE DEF Emptied
  <2>. QED
    BY <1>1, OrderlyMore
<1>3. Consistent(db') /\ cached' = [k \in Key |-> cached'[k]]
  BY DEF CacheInv
<1>4. ASSUME NEW k \in Key \ doubtful'
      PROVE  \/ CurrentIn(k, cached', db')
             \/ o \notin Key /\ k \in EndedIn(steps)
             \/ \E u \in Worker \ {w} : Tends(u, k)
  <2>1. CurrentIn(k, cached, db) \/ \E u \in Worker : Tends(u, k)
    BY DEF CacheInv, Tended
  <2>2. Tends(w, k) => o \notin Key /\ k \in EndedIn(l)
    BY ChangingIs DEF Tends, Underway
  <2>. QED
    BY <2>1, <2>2
<1>5. \A k \in Key \ doubtful' : steps # <<>> /\ Head(steps).do = "fill" /\ Head(steps).key = k =>
        Head(steps).value = Derive(k, db')
  OBVIOUS
<1>6. \A k \in Key \ doubtful', u \in Worker \ {w} : k \in Site!Filling(u) => Site!Now(u).value = Derive(k, db')
  BY DEF CacheInv, Fresh
<1>. QED
  BY <1>1, <1>2, <1>3, <1>4, <1>5, <1>6, Moves

LEMMA Arrives ==
  ASSUME CacheInv, NEW w \in Worker, ~Site!Busy(w), NEW o, NEW l, l # <<>>,
         worker' = [worker EXCEPT ![w] = [op |-> o, todo |-> l]], Shape(Emptied, o, l), Head(l).do # "fill",
         db' = db, cached' = cached, doubtful' = doubtful
  PROVE  CacheInv'
<1>. DEFINE new == [op |-> o, todo |-> l]
<1>. HIDE DEF new
<1>1. /\ (DOMAIN worker)' = Worker
      /\ \A v \in Worker : v # w => worker'[v] = worker[v]
      /\ worker'[w] = new
  BY DEF CacheInv, new
<1>2. Emptied' <=> Emptied
  BY DEF Emptied
<1>3. ASSUME NEW v \in Worker
      PROVE  Served(v)'
  <2>1. CASE v = w
    <3>1. Shape(Emptied', o, l)
      BY <1>2
    <3>. QED
      BY <1>1, <2>1, <3>1 DEF Served, Underway, new
  <2>2. CASE v # w
    <3>1. worker'[v] = worker[v] /\ Served(v)
      BY <1>1, <2>2 DEF CacheInv
    <3>. QED
      BY <1>2, <3>1 DEF Served, Underway, Site!Idle
  <2>. QED
    BY <2>1, <2>2
<1>4. ASSUME NEW k \in Key \ doubtful'
      PROVE  CurrentIn(k, cached', db') \/ \E u \in Worker : Tends(u, k)'
  <2>1. CurrentIn(k, cached, db) \/ \E u \in Worker : Tends(u, k)
    BY DEF CacheInv, Tended
  <2>2. ASSUME NEW u \in Worker, Tends(u, k)
        PROVE  Tends(u, k)'
    <3>1. u # w
      BY <2>2 DEF Tends, Site!Changing
    <3>2. worker'[u] = worker[u]
      BY <1>1, <3>1
    <3>. QED
      BY <2>2, <3>2 DEF Tends, Site!Changing, Site!Busy, Site!Idle
  <2>. QED
    BY <2>1, <2>2
<1>5. ASSUME NEW k \in Key \ doubtful', NEW v \in Worker, (k \in Site!Filling(v))'
      PROVE  (Site!Now(v).value = Derive(k, db))'
  <2>1. v # w
    BY <1>1, <1>5 DEF Site!Filling, Site!At, new
  <2>2. worker'[v] = worker[v]
    BY <1>1, <2>1
  <2>3. k \in Site!Filling(v)
    BY <1>5, <2>2 DEF Site!Filling, Site!At, Site!Busy, Site!Now, Site!Idle
  <2>4. Site!Now(v).value = Derive(k, db)
    BY <2>3 DEF CacheInv, Fresh
  <2>. QED
    BY <2>2, <2>4 DEF Site!Now
<1>6. Tended'
  BY <1>4 DEF Tended
<1>7. Fresh'
  BY <1>5 DEF Fresh
<1>8. Consistent(db') /\ cached' = [k \in Key |-> cached'[k]]
  BY DEF CacheInv
<1>. QED
  BY <1>1, <1>3, <1>6, <1>7, <1>8 DEF CacheInv

LEMMA BeginKeeps ==
  ASSUME CacheInv, NEW w \in Worker, Site!Begin(w)
  PROVE  CacheInv'
<1>1. PICK o \in Does[w] \ Key : worker' = [worker EXCEPT ![w] = [op |-> o, todo |-> <<Call(o)>>]]
  BY DEF Site!Begin, Site!Call, Call
<1>2. db' = db /\ cached' = cached /\ doubtful' = doubtful /\ ~Site!Busy(w)
  BY DEF Site!Begin
<1>3. o \in Request /\ o \notin Key
  BY <1>1, AccessDoesAssumption
<1>4. Shape(Emptied, o, <<Call(o)>>)
  <2>1. CASE o = <<"boot">>
    BY <1>3, <2>1 DEF Shape
  <2>2. CASE o # <<"boot">>
    <3>1. Whole(o)
      BY <1>3, <2>2 DEF Whole
    <3>2. Covered(<<Call(o)>>)
      BY <3>1, CallFit, FitOf, CoveredFit
    <3>. QED
      BY <1>3, <3>2 DEF Shape, Orderly
  <2>. QED
    BY <2>1, <2>2
<1>5. <<Call(o)>> # <<>> /\ Head(<<Call(o)>>).do # "fill"
  BY DEF Call
<1>. QED
  BY <1>1, <1>2, <1>4, <1>5, Arrives

LEMMA ViewKeeps ==
  ASSUME CacheInv, NEW w \in Worker, Site!View(w)
  PROVE  CacheInv'
<1>1. PICK k \in Key : worker' = [worker EXCEPT ![w] = [op |-> k, todo |-> <<Read(k)>>]]
  BY DEF Site!View, Site!Read, Read
<1>2. db' = db /\ cached' = cached /\ doubtful' = doubtful /\ ~Site!Busy(w)
  BY DEF Site!View
<1>3. Shape(Emptied, k, <<Read(k)>>)
  BY DEF Shape
<1>4. <<Read(k)>> # <<>> /\ Head(<<Read(k)>>).do # "fill"
  BY DEF Read
<1>. QED
  BY <1>1, <1>2, <1>3, <1>4, Arrives

----------------------------------------------------------------------------
\* Steps that leave the rows and the caches as they are

LEMMA OrderlyConcat ==
  ASSUME NEW e, NEW a, NEW l, l # <<>>, Orderly(e, l), Head(l).do # "forget",
         \/ Covered(a)
         \/ FitList(EndedIn(Tail(l)), a) /\ Covered(Tail(l))
         \/ e /\ BootList(a)
  PROVE  Orderly(e, a \o Tail(l)) /\ EndedIn(Tail(l)) \subseteq EndedIn(a \o Tail(l))
<1>1. Orderly(e, Tail(l)) /\ BootList(Tail(l)) /\ Head(l) # Forget(Key)
  BY OrderlyTail DEF Forget
<1>2. BootList(a)
  BY CoveredIsFit, BootIs, FitMore DEF FitList
<1>3. EndedIn(Tail(l)) \subseteq EndedIn(a \o Tail(l))
  <2>1. PICK S, T : a \in Seq(S) /\ Tail(l) \in Seq(T)
    BY <1>1, <1>2 DEF BootList
  <2>. QED
    BY <2>1, EndedConcat
<1>4. BootList(a \o Tail(l))
  BY <1>1, <1>2, BootConcat
<1>5. CASE e
  BY <1>3, <1>4, <1>5 DEF Orderly
<1>6. CASE ~e
  <2>1. Covered(Tail(l))
    BY <1>6, OrderlyTail, <1>1
  <2>2. Covered(a \o Tail(l))
    <3>1. CASE Covered(a)
      BY <2>1, <3>1, CoveredBoth
    <3>2. CASE FitList(EndedIn(Tail(l)), a)
      BY <2>1, <3>2, CoveredBefore
    <3>. QED
      BY <1>6, <3>1, <3>2
  <2>. QED
    BY <1>3, <2>2 DEF Orderly
<1>. QED
  BY <1>5, <1>6

LEMMA ExpandKeeps ==
  ASSUME CacheInv, NEW w \in Worker, Site!Expand(w)
  PROVE  CacheInv'
<1>1. PICK o, l : Underway(w, o, l) /\ Head(l).do = "call"
  BY UnderwayIs DEF Site!Expand
<1>2. db' = db /\ cached' = cached /\ doubtful' = doubtful
  BY DEF Site!Expand
<1>. DEFINE op == Head(l).op
            plan == Plan(op, db, cached)
<1>3. Site!Instead(w, plan \o Tail(l))
  BY <1>1 DEF Site!Expand, Site!Now, Site!Later, Underway
<1>4. o \notin Key /\ l # <<>> /\ (l = <<Call(<<"boot">>)>> \/ Orderly(Emptied, l)) /\ \E S : l \in Seq(S)
  BY <1>1, Changes, ShapeSeq DEF Underway
<1>5. EndedIn(l) \subseteq EndedIn(Tail(l))
  BY <1>1, <1>4, EndedTail DEF Ends
<1>. HIDE DEF Emptied
<1>6. CASE l = <<Call(<<"boot">>)>>
  <2>1. op[1] = "boot" /\ Tail(l) = <<>>
    BY <1>6 DEF Call
  <2>2. plan = Boot
    <3>. HIDE DEF op
    <3>. QED
      BY <2>1 DEF Plan
  <2>3. PICK S : Boot \in Seq(S)
    BY BootStarts DEF BootList
  <2>4. plan \o Tail(l) = Boot
    <3>1. Boot \o <<>> = Boot
      BY <2>3
    <3>. HIDE DEF plan
    <3>. QED
      BY <2>1, <2>2, <3>1
  <2>5. Shape(Emptied, o, Boot)
    BY <1>4, BootStarts DEF Shape, Orderly
  <2>6. Head(Boot).do # "fill"
    BY BootStarts DEF Forget
  <2>7. EndedIn(l) \subseteq EndedIn(Boot)
    <3>1. EndedIn(Tail(l)) = {}
      BY <2>1 DEF EndedIn
    <3>. QED
      BY <1>5, <3>1
  <2>. HIDE DEF plan
  <2>. QED
    BY <1>1, <1>2, <1>3, <2>4, <2>5, <2>6, <2>7, KeepsOn
<1>7. CASE Orderly(Emptied, l)
  <2>1. ASSUME NEW K, Fit(K, Head(l))
        PROVE  Whole(op) \/ Part(K, op)
    BY <1>1, <2>1 DEF Fit, StatementFit
  <2>2. ASSUME NEW K, Fit(K, Head(l))
        PROVE  Covered(plan) \/ FitList(K, plan)
    BY <2>1, <2>2, WholeCovered, PartFit
  <2>3. \/ Fit(EndedIn(Tail(l)), Head(l)) /\ Covered(Tail(l))
        \/ Emptied /\ Fit(Key, Head(l))
    <3>1. Head(l) # Forget(Key) /\ ~FitCatch(Head(l))
      BY <1>1 DEF Forget, FitCatch
    <3>. HIDE DEF op, plan
    <3>. QED
      BY <1>4, <1>7, <3>1, OrderlyTail
  <2>4. \/ Covered(plan)
        \/ FitList(EndedIn(Tail(l)), plan) /\ Covered(Tail(l))
        \/ Emptied /\ BootList(plan)
    BY <2>2, <2>3, BootIs
  <2>. HIDE DEF plan
  <2>5. Orderly(Emptied, plan \o Tail(l)) /\ EndedIn(Tail(l)) \subseteq EndedIn(plan \o Tail(l))
    BY <1>1, <1>4, <1>7, <2>4, OrderlyConcat
  <2>6. plan \o Tail(l) # <<>> => Shape(Emptied, o, plan \o Tail(l)) /\ Head(plan \o Tail(l)).do # "fill"
    BY <1>4, <2>5, OrderlyTail DEF Shape
  <2>. QED
    BY <1>1, <1>2, <1>3, <1>5, <2>5, <2>6, KeepsOn
<1>. QED
  BY <1>4, <1>6, <1>7

\* A request goes on with its next step.
LEMMA ProceedKeeps ==
  ASSUME CacheInv, NEW w \in Worker, NEW o, NEW l, Underway(w, o, l), Head(l).do \notin {"read", "fill", "forget"},
         Site!Proceed(w), db' = db, cached' = cached, doubtful \subseteq doubtful',
         \A k \in Key \ doubtful' : Ends(Head(l), k) => CurrentIn(k, cached, db)
  PROVE  CacheInv'
<1>1. Site!Instead(w, Tail(l))
  BY DEF Site!Proceed, Site!Later, Underway
<1>2. o \notin Key /\ l # <<>> /\ (l = <<Call(<<"boot">>)>> \/ Orderly(Emptied, l)) /\ \E S : l \in Seq(S)
  BY Changes, ShapeSeq DEF Underway
<1>3. \A k \in Key \ doubtful' : k \in EndedIn(l) => k \in EndedIn(Tail(l)) \/ CurrentIn(k, cached, db)
  BY <1>2, EndedTail
<1>. HIDE DEF Emptied
<1>4. Tail(l) # <<>> => Orderly(Emptied, Tail(l))
  <2>1. CASE l = <<Call(<<"boot">>)>>
    BY <2>1
  <2>2. CASE Orderly(Emptied, l)
    BY <1>2, <2>2, OrderlyTail DEF Forget
  <2>. QED
    BY <1>2, <2>1, <2>2
<1>5. Tail(l) # <<>> => Shape(Emptied, o, Tail(l)) /\ Head(Tail(l)).do # "fill"
  BY <1>2, <1>4, OrderlyTail DEF Shape
<1>. QED
  BY <1>1, <1>3, <1>5, KeepsOn

\* An error leaves in doubt what is not up to date.
LEMMA ErrorKeeps ==
  ASSUME CacheInv, NEW w \in Worker, NEW o, NEW l, Underway(w, o, l), Head(l).do \notin {"read", "fill", "forget"},
         Site!Errs(w), db' = db, cached' = cached
  PROVE  CacheInv'
<1>1. PICK steps : /\ Site!Instead(w, steps)
                   /\ steps = <<>> \/ \E i \in DOMAIN Tail(l) : Tail(l)[i].do = "catch" /\ steps = Tail(l)[i].steps
  BY DEF Site!Errs, Site!Error, Site!Later, Underway
<1>2. o \notin Key /\ l # <<>> /\ (l = <<Call(<<"boot">>)>> \/ Orderly(Emptied, l))
  BY Changes DEF Underway
<1>3. doubtful' = doubtful \cup Site!Doubted
  BY DEF Site!Errs
<1>4. \A k \in Key \ doubtful' : CurrentIn(k, cached, db)
  BY <1>3 DEF Site!Doubted, Site!Current, CurrentIn
<1>. HIDE DEF Emptied
<1>5. steps # <<>> => Emptied /\ FitList(Key, steps)
  <2>. SUFFICES ASSUME steps # <<>> PROVE Emptied /\ FitList(Key, steps)
    OBVIOUS
  <2>1. PICK i \in DOMAIN Tail(l) : Tail(l)[i].do = "catch" /\ steps = Tail(l)[i].steps
    BY <1>1
  <2>2. Orderly(Emptied, l)
    <3>1. DOMAIN Tail(<<Call(<<"boot">>)>>) = {}
      OBVIOUS
    <3>. QED
      BY <1>2, <2>1, <3>1
  <2>3. ~Covered(Tail(l))
    <3>. SUFFICES ASSUME Covered(Tail(l)) PROVE FALSE
      OBVIOUS
    <3>1. Fit(EndedAfter(Tail(l), i), Tail(l)[i])
      BY DEF Covered
    <3>. QED
      BY <2>1, <3>1 DEF Fit, StatementFit
  <2>4. Emptied
    <3>1. Head(l) # Forget(Key)
      BY DEF Forget
    <3>2. \/ Fit(EndedIn(Tail(l)), Head(l)) /\ Covered(Tail(l))
          \/ Emptied /\ (Fit(Key, Head(l)) \/ FitCatch(Head(l)))
          \/ Head(l) = Forget(Key)
      BY <1>2, <2>2, OrderlyTail
    <3>. QED
      BY <2>3, <3>1, <3>2
  <2>5. Fit(Key, Tail(l)[i]) \/ FitCatch(Tail(l)[i])
    BY <1>2, <2>2, OrderlyTail
  <2>6. FitCatch(Tail(l)[i])
    BY <2>1, <2>5 DEF Fit, StatementFit
  <2>. QED
    BY <2>1, <2>4, <2>6 DEF FitCatch
<1>6. steps # <<>> => Orderly(Emptied, steps)
  BY <1>5, BootIs DEF Orderly
<1>7. steps # <<>> => Shape(Emptied, o, steps) /\ Head(steps).do # "fill"
  BY <1>2, <1>6, OrderlyTail DEF Shape
<1>. QED
  BY <1>1, <1>3, <1>4, <1>7, KeepsOn

LEMMA LookKeeps ==
  ASSUME CacheInv, NEW w \in Worker, Site!Look(w)
  PROVE  CacheInv'
<1>1. PICK o, l : Underway(w, o, l) /\ Head(l).do = "resolve"
  BY UnderwayIs DEF Site!Look
<1>2. db' = db /\ cached' = cached /\ doubtful' = doubtful
  BY DEF Site!Look
<1>. DEFINE k == Head(l).key
            read == When(cached[k] = None, <<Read(k)>>)
<1>3. Site!Instead(w, read \o Tail(l))
  BY <1>1 DEF Site!Look, Site!Now, Site!Later, Site!When, When, Site!Read, Read, Underway
<1>4. o \notin Key /\ l # <<>> /\ (l = <<Call(<<"boot">>)>> \/ Orderly(Emptied, l)) /\ \E S : l \in Seq(S)
  BY <1>1, Changes, ShapeSeq DEF Underway
<1>5. EndedIn(l) \subseteq EndedIn(Tail(l))
  BY <1>1, <1>4, EndedTail DEF Ends
<1>. HIDE DEF Emptied
<1>6. Orderly(Emptied, l)
  BY <1>1, <1>4 DEF Call
<1>7. Covered(read)
  BY SimpleFit, FitOf, CoveredFit, CoveredWhen
<1>. HIDE DEF read
<1>8. Orderly(Emptied, read \o Tail(l)) /\ EndedIn(Tail(l)) \subseteq EndedIn(read \o Tail(l))
  BY <1>1, <1>4, <1>6, <1>7, OrderlyConcat
<1>9. read \o Tail(l) # <<>> => Shape(Emptied, o, read \o Tail(l)) /\ Head(read \o Tail(l)).do # "fill"
  BY <1>4, <1>8, OrderlyTail DEF Shape
<1>. QED
  BY <1>1, <1>2, <1>3, <1>5, <1>8, <1>9, KeepsOn

LEMMA ReadKeeps ==
  ASSUME CacheInv, NEW w \in Worker, Site!ReadRows(w)
  PROVE  CacheInv'
<1>1. PICK o, l : Underway(w, o, l) /\ Head(l).do = "read"
  BY UnderwayIs DEF Site!ReadRows
<1>2. db' = db /\ cached' = cached /\ doubtful' = doubtful
  BY DEF Site!ReadRows
<1>. DEFINE k == Head(l).key
            v == Derive(k, db)
            fill == Fill(k, v)
<1>3. Site!Instead(w, <<fill>> \o Tail(l))
  BY <1>1 DEF Site!ReadRows, Site!Now, Site!Later, Site!Fill, Fill, Underway
<1>4. l # <<>> /\ \E S : l \in Seq(S)
  BY <1>1, ShapeSeq DEF Underway
<1>5. EndedIn(l) \subseteq EndedIn(Tail(l)) /\ \E S : Tail(l) \in Seq(S)
  BY <1>1, <1>4, EndedTail DEF Ends
<1>6. <<fill>> \o Tail(l) # <<>> /\ Head(<<fill>> \o Tail(l)) = fill
  BY <1>5, FirstIs
<1>7. fill.key = k /\ fill.value = v
  BY DEF Fill
<1>8. EndedIn(Tail(l)) \subseteq EndedIn(<<fill>> \o Tail(l))
  <2>1. <<fill>> \in Seq({fill})
    OBVIOUS
  <2>. HIDE DEF fill
  <2>. QED
    BY <1>5, <2>1, EndedConcat
<1>. HIDE DEF Emptied, v
<1>9. Shape(Emptied, o, <<fill>> \o Tail(l))
  <2>1. CASE o \in Key /\ Tail(l) = <<>>
    <3>1. <<fill>> \o <<>> = <<fill>>
      OBVIOUS
    <3>. QED
      BY <2>1, <3>1 DEF Shape
  <2>2. CASE o \notin Key /\ Orderly(Emptied, l)
    <3>1. Orderly(Emptied, Tail(l))
      BY <1>1, <1>4, <2>2, OrderlyTail DEF Forget
    <3>. QED
      BY <2>2, <3>1 DEF Shape
  <2>. QED
    BY <1>1, <2>1, <2>2, Reads
<1>. HIDE DEF fill, k
<1>10. Head(<<fill>> \o Tail(l)).value = Derive(Head(<<fill>> \o Tail(l)).key, db)
  BY <1>6, <1>7 DEF v
<1>. DEFINE steps == <<fill>> \o Tail(l)
<1>. HIDE DEF steps
<1>11. /\ Site!Instead(w, steps) /\ Shape(Emptied, o, steps) /\ EndedIn(l) \subseteq EndedIn(steps)
       /\ Head(steps).value = Derive(Head(steps).key, db)
  BY <1>3, <1>5, <1>8, <1>9, <1>10 DEF steps
<1>. QED
  BY <1>1, <1>2, <1>11, KeepsOn

LEMMA QuietSteps ==
  ASSUME CacheInv, NEW w \in Worker, Site!Pass(w) \/ Site!GiveUp(w) \/ Site!Fail(w) \/ Site!Omit(w)
  PROVE  CacheInv'
<1>1. CASE Site!Pass(w)
  <2>1. PICK o, l : Underway(w, o, l) /\ Head(l).do = "catch"
    BY <1>1, UnderwayIs DEF Site!Pass
  <2>2. Site!Proceed(w) /\ db' = db /\ cached' = cached /\ doubtful' = doubtful
    BY <1>1 DEF Site!Pass
  <2>. QED
    BY <2>1, <2>2, ProceedKeeps DEF Ends
<1>2. CASE Site!GiveUp(w)
  <2>1. PICK o, l : Underway(w, o, l) /\ Head(l).do = "return"
    BY <1>2, UnderwayIs DEF Site!GiveUp
  <2>2. Site!Errs(w) /\ db' = db /\ cached' = cached
    BY <1>2 DEF Site!GiveUp
  <2>. QED
    BY <2>1, <2>2, ErrorKeeps
<1>3. CASE Site!Fail(w)
  <2>1. PICK o, l : Underway(w, o, l) /\ Head(l).do \in {"statement", "where"}
    BY <1>3, UnderwayIs DEF Site!Fail, Site!Executing
  <2>2. db' = db /\ cached' = cached
    BY <1>3 DEF Site!Fail
  <2>3. CASE Site!Errs(w)
    BY <2>1, <2>2, <2>3, ErrorKeeps
  <2>4. CASE Site!Proceed(w) /\ doubtful' = doubtful
    BY <2>1, <2>2, <2>4, ProceedKeeps DEF Ends
  <2>. QED
    BY <1>3, <2>3, <2>4 DEF Site!Fail
<1>4. CASE Site!Omit(w)
  <2>1. PICK o, l : Underway(w, o, l) /\ Head(l).do = "overlook"
    BY <1>4, UnderwayIs DEF Site!Omit
  <2>2. /\ Site!Proceed(w) /\ db' = db /\ cached' = cached
        /\ doubtful' = doubtful \cup (Head(l).keys \cap Site!Doubted)
    BY <1>4, <2>1 DEF Site!Omit, Site!Now, Underway
  <2>3. \A k \in Key \ doubtful' : Ends(Head(l), k) => CurrentIn(k, cached, db)
    BY <2>2 DEF Ends, Site!Doubted, Site!Current, CurrentIn
  <2>. QED
    BY <2>1, <2>2, <2>3, ProceedKeeps
<1>. QED
  BY <1>1, <1>2, <1>3, <1>4

----------------------------------------------------------------------------
\* Steps that change what is cached

LEMMA StoreKeeps ==
  ASSUME CacheInv, NEW w \in Worker, Site!Store(w)
  PROVE  CacheInv'
<1>1. PICK o, l : Underway(w, o, l) /\ Head(l).do = "fill"
  BY UnderwayIs DEF Site!Store
<1>. DEFINE x == Head(l).key
            v == Head(l).value
<1>2. /\ Site!Instead(w, Tail(l)) /\ db' = db
      /\ cached' = [cached EXCEPT ![x] = v]
      /\ doubtful' = IF \E u \in Worker : Site!Changing(u) THEN doubtful \cup Site!Filling(w) ELSE doubtful
  BY <1>1 DEF Site!Store, Site!Proceed, Site!Later, Site!Now, Underway
<1>3. Site!Filling(w) = {x} /\ Site!Now(w).value = v
  BY <1>1 DEF Site!Filling, Site!At, Site!Now, Site!Busy, Site!Idle, Underway
<1>4. l # <<>> /\ \E S : l \in Seq(S)
  BY <1>1, ShapeSeq DEF Underway
<1>5. EndedIn(l) \subseteq EndedIn(Tail(l))
  BY <1>1, <1>4, EndedTail DEF Ends
<1>. HIDE DEF x, v
<1>6. /\ cached' = [k \in Key |-> cached'[k]] /\ \A k \in Key : k # x => cached'[k] = cached[k]
      /\ x \in Key => cached'[x] = v
  BY <1>2 DEF CacheInv
<1>7. Emptied /\ (\E u \in Worker : Site!Changing(u)) => Emptied'
  BY <1>2, <1>3, <1>6 DEF Emptied
<1>8. Tail(l) # <<>> => Shape(Emptied', o, Tail(l)) /\ Head(Tail(l)).do # "fill"
  <2>. SUFFICES ASSUME Tail(l) # <<>> PROVE Shape(Emptied', o, Tail(l)) /\ Head(Tail(l)).do # "fill"
    OBVIOUS
  <2>1. o \notin Key /\ Orderly(Emptied, Tail(l))
    BY <1>1, Stores
  <2>2. Emptied => Emptied'
    BY <1>1, <1>7, <2>1, ChangingIs
  <2>. HIDE DEF Emptied
  <2>3. Shape(Emptied, o, Tail(l)) /\ Head(Tail(l)).do # "fill"
    BY <2>1, OrderlyTail DEF Shape
  <2>. QED
    BY <2>2, <2>3, OrderlyMore
<1>9. ASSUME NEW k \in Key \ doubtful'
      PROVE  \/ CurrentIn(k, cached', db')
             \/ o \notin Key /\ k \in EndedIn(Tail(l))
             \/ \E u \in Worker \ {w} : Tends(u, k)
  <2>1. k \in Key \ doubtful
    BY <1>2
  <2>2. CASE k = x
    <3>1. v = Derive(k, db)
      BY <1>3, <2>1, <2>2 DEF CacheInv, Fresh
    <3>. QED
      BY <1>2, <1>6, <2>1, <2>2, <3>1 DEF CurrentIn
  <2>3. CASE k # x
    <3>1. CurrentIn(k, cached, db) \/ \E u \in Worker : Tends(u, k)
      BY <2>1 DEF CacheInv, Tended
    <3>2. Tends(w, k) => o \notin Key /\ k \in EndedIn(Tail(l))
      BY <1>1, <1>5, ChangingIs DEF Tends, Underway
    <3>3. CurrentIn(k, cached, db) => CurrentIn(k, cached', db')
      BY <1>2, <1>6, <2>1, <2>3 DEF CurrentIn
    <3>. QED
      BY <3>1, <3>2, <3>3
  <2>. QED
    BY <2>2, <2>3
<1>10. \A k \in Key \ doubtful', u \in Worker \ {w} : k \in Site!Filling(u) => Site!Now(u).value = Derive(k, db')
  BY <1>2 DEF CacheInv, Fresh
<1>11. Consistent(db')
  BY <1>2 DEF CacheInv
<1>. HIDE DEF Emptied
<1>. QED
  BY <1>1, <1>2, <1>6, <1>7, <1>8, <1>9, <1>10, <1>11, Moves

LEMMA InvalidateKeeps ==
  ASSUME CacheInv, NEW w \in Worker, Site!Invalidate(w)
  PROVE  CacheInv'
<1>1. PICK o, l : Underway(w, o, l) /\ Head(l).do = "forget"
  BY UnderwayIs DEF Site!Invalidate
<1>. DEFINE K == Head(l).keys
<1>2. /\ Site!Instead(w, Tail(l)) /\ db' = db
      /\ cached' = [k \in Key |-> IF k \in K THEN None ELSE cached[k]]
      /\ doubtful' = (doubtful \ K) \cup UNION {Site!Filling(u) \cap K : u \in Worker}
  BY <1>1 DEF Site!Invalidate, Site!Proceed, Site!Later, Site!Now, Underway
<1>3. o \notin Key /\ l # <<>> /\ (l = <<Call(<<"boot">>)>> \/ Orderly(Emptied, l)) /\ \E S : l \in Seq(S)
  BY <1>1, Changes, ShapeSeq DEF Underway
<1>4. Orderly(Emptied, l)
  BY <1>1, <1>3 DEF Call
<1>5. \A k \in EndedIn(l) : k \in EndedIn(Tail(l)) \/ k \in K
  BY <1>3, EndedTail DEF Ends
<1>6. Emptied => Emptied'
  BY <1>2 DEF Emptied
<1>7. Head(l) = Forget(Key) => Emptied'
  <2>. SUFFICES ASSUME Head(l) = Forget(Key) PROVE Emptied'
    OBVIOUS
  <2>1. K = Key
    BY DEF Forget
  <2>. HIDE DEF K
  <2>. QED
    BY <1>2, <2>1 DEF Emptied
<1>. HIDE DEF Emptied, K
<1>8. Orderly(Emptied', Tail(l))
  <2>1. CASE Head(l) = Forget(Key)
    BY <1>3, <1>4, <1>7, <2>1, OrderlyTail DEF Orderly
  <2>2. CASE Head(l) # Forget(Key)
    <3>1. Orderly(Emptied, Tail(l))
      BY <1>3, <1>4, <2>2, OrderlyTail
    <3>. QED
      BY <1>6, <3>1 DEF Orderly
  <2>. QED
    BY <2>1, <2>2
<1>9. Tail(l) # <<>> => Shape(Emptied', o, Tail(l)) /\ Head(Tail(l)).do # "fill"
  BY <1>3, <1>8, OrderlyTail DEF Shape
<1>10. ASSUME NEW k \in Key \ doubtful'
       PROVE  \/ CurrentIn(k, cached', db')
              \/ o \notin Key /\ k \in EndedIn(Tail(l))
              \/ \E u \in Worker \ {w} : Tends(u, k)
  <2>1. CASE k \in K
    BY <1>2, <2>1 DEF CurrentIn
  <2>2. CASE k \notin K
    <3>1. k \in Key \ doubtful /\ cached'[k] = cached[k]
      BY <1>2, <2>2
    <3>2. CurrentIn(k, cached, db) \/ \E u \in Worker : Tends(u, k)
      BY <3>1 DEF CacheInv, Tended
    <3>3. Tends(w, k) => k \in EndedIn(Tail(l))
      BY <1>1, <1>5, <2>2 DEF Tends, Underway
    <3>. QED
      BY <1>2, <1>3, <3>1, <3>2, <3>3 DEF CurrentIn
  <2>. QED
    BY <2>1, <2>2
<1>11. \A k \in Key \ doubtful', u \in Worker \ {w} : k \in Site!Filling(u) => Site!Now(u).value = Derive(k, db')
  BY <1>2 DEF CacheInv, Fresh
<1>12. Consistent(db') /\ cached' = [k \in Key |-> cached'[k]]
  BY <1>2 DEF CacheInv
<1>. QED
  BY <1>1, <1>2, <1>6, <1>9, <1>10, <1>11, <1>12, Moves

LEMMA EvictKeeps ==
  ASSUME CacheInv, NEW x \in Key, Site!Evict(x)
  PROVE  CacheInv'
<1>1. cached' = [cached EXCEPT ![x] = None] /\ db' = db /\ worker' = worker /\ doubtful' = doubtful
  BY DEF Site!Evict
<1>2. cached' = [k \in Key |-> cached'[k]] /\ \A k \in Key : cached'[k] = None \/ cached'[k] = cached[k]
  BY <1>1 DEF CacheInv
<1>3. Emptied => Emptied'
  BY <1>1, <1>2 DEF Emptied
<1>4. ASSUME NEW v \in Worker
      PROVE  Served(v)'
  <2>1. CASE worker[v] = Site!Idle
    BY <1>1, <2>1 DEF Served, Site!Idle
  <2>2. CASE worker[v] # Site!Idle
    <3>1. PICK p, m : Underway(v, p, m)
      BY <2>2 DEF CacheInv, Served
    <3>. HIDE DEF Emptied
    <3>2. Shape(Emptied', p, m)
      BY <1>3, <3>1, OrderlyMore DEF Underway
    <3>. QED
      BY <1>1, <3>1, <3>2 DEF Served, Underway
  <2>. QED
    BY <2>1, <2>2
<1>5. Tended'
  <2>1. \A u, k : Tends(u, k) <=> Tends(u, k)'
    BY <1>1 DEF Tends, Site!Changing, Site!Busy, Site!Idle
  <2>2. \A k \in Key : CurrentIn(k, cached, db) => CurrentIn(k, cached', db')
    BY <1>1, <1>2 DEF CurrentIn
  <2>. QED
    BY <1>1, <2>1, <2>2 DEF CacheInv, Tended
<1>6. Fresh'
  BY <1>1 DEF CacheInv, Fresh, Site!Filling, Site!At, Site!Busy, Site!Now, Site!Idle
<1>7. Consistent(db') /\ (DOMAIN worker)' = Worker
  BY <1>1 DEF CacheInv
<1>. QED
  BY <1>2, <1>4, <1>5, <1>6, <1>7 DEF CacheInv

----------------------------------------------------------------------------
\* Statements

LEMMA RowsChange ==
  ASSUME NEW rows, Consistent(rows), NEW c, NEW K, NEW s, Fit(K, s), s.do \in {"statement", "where"},
         NEW q, q = IF s.do = "where" THEN Head(Plan(s.op, rows, c)) ELSE s, Possible(q, rows)
  PROVE  Consistent(Result(q, rows)) /\ Spares(K, rows, Result(q, rows))
<1>1. CASE s.do = "statement"
  <2>1. q = s /\ StatementFit(K, s)
    BY <1>1 DEF Fit
  <2>2. DropsLoose(q) /\ AddsTied(q)
    BY <2>1 DEF StatementFit
  <2>. QED
    BY <2>1, <2>2, StatementSpares, StatementConsistent
<1>2. CASE s.do = "where"
  <2>. DEFINE op == s.op
              what == op[2]
              x == op[3]
              read == op[4]
              new == rows \cup Tied(what, x, read, rows)
  <2>1. WhereFit(K, op) /\ q = Head(Plan(op, rows, c))
    BY <1>2 DEF Fit, StatementFit
  <2>. HIDE DEF op
  <2>0. CASE LinkedFit(K, op)
    BY <2>0, <2>1, SaveLinkedDoes
  <2>9. CASE TieFit(K, op)
    <3>2. /\ op[1] \in {"tie", "tieAnyway"} /\ what \in {"member", "holds", "gives"}
          /\ \A row \in read : row \in AnyStatus(Joins[what][2], row[2])
          /\ \A k \in Key : what = "gives" \/ k[2] = x => k \in K
      BY <2>9 DEF TieFit
    <3>3. q.needs = {AnyStatus(Joins[what][1], x)} /\ Result(q, rows) = new
      BY <2>1, <3>2, TieIs
    <3>4. Exists(x, Joins[what][1], rows)
      BY <3>3, ThereIs DEF Possible
    <3>. HIDE DEF what, x, read
    <3>5. Consistent(new)
      BY <3>2, <3>4, TieConsistent
    <3>6. ASSUME NEW k \in Key \ K
          PROVE  Derive(k, new) = Derive(k, rows)
      <4>1. what \in {"member", "holds"} /\ k[2] # x
        BY <3>2
      <4>. QED
        BY <3>2, <4>1, TieSpares
    <3>. QED
      BY <3>3, <3>5, <3>6 DEF Spares
  <2>. QED
    BY <2>0, <2>1, <2>9 DEF WhereFit
<1>. QED
  BY <1>1, <1>2

LEMMA ExecuteKeeps ==
  ASSUME CacheInv, NEW w \in Worker, Site!Execute(w)
  PROVE  CacheInv'
<1>1. PICK o, l : Underway(w, o, l) /\ Head(l).do \in {"statement", "where"}
  BY UnderwayIs DEF Site!Execute, Site!Executing
<1>. DEFINE sql == Site!Sql(w)
<1>2. /\ Site!Instead(w, Tail(l)) /\ cached' = cached /\ Possible(sql, db) /\ db' = Result(sql, db)
      /\ doubtful' = IF db' = db THEN doubtful ELSE doubtful \cup UNION {Site!Filling(u) : u \in Worker}
  BY <1>1 DEF Site!Execute, Site!Allowed, Possible, Site!Effect, Result, Site!Proceed, Site!Later, Underway
<1>3. sql = IF Head(l).do = "where" THEN Head(Plan(Head(l).op, db, cached)) ELSE Head(l)
  BY <1>1 DEF Site!Sql, Site!At, Site!Now, Site!Busy, Site!Idle, Underway
<1>. HIDE DEF sql
<1>4. o \notin Key /\ l # <<>> /\ Orderly(Emptied, l) /\ \E S : l \in Seq(S)
  BY <1>1, Changes, ShapeSeq DEF Underway, Call
<1>5. EndedIn(l) \subseteq EndedIn(Tail(l))
  BY <1>1, <1>4, EndedTail DEF Ends
<1>6. Emptied => Emptied'
  BY <1>2 DEF Emptied
<1>7. Emptied => \A k \in Key \ doubtful : CurrentIn(k, cached, db) /\ CurrentIn(k, cached', db')
  BY <1>2 DEF Emptied, CurrentIn
<1>. HIDE DEF Emptied
<1>8. Head(l) # Forget(Key) /\ ~FitCatch(Head(l))
  BY <1>1 DEF Forget, FitCatch
<1>9. Fit(EndedIn(Tail(l)), Head(l)) \/ (Emptied /\ Fit(Key, Head(l)))
  BY <1>4, <1>8, OrderlyTail
<1>10. Orderly(Emptied, Tail(l))
  BY <1>4, <1>8, OrderlyTail
<1>11. Tail(l) # <<>> => Shape(Emptied', o, Tail(l)) /\ Head(Tail(l)).do # "fill"
  BY <1>4, <1>6, <1>10, OrderlyTail DEF Shape, Orderly
<1>12. Consistent(db') /\ (Emptied \/ Spares(EndedIn(Tail(l)), db, db'))
  <2>1. Consistent(db)
    BY DEF CacheInv
  <2>. QED
    BY <1>1, <1>2, <1>3, <1>9, <2>1, RowsChange
<1>13. ASSUME NEW k \in Key \ doubtful'
       PROVE  \/ CurrentIn(k, cached', db')
              \/ o \notin Key /\ k \in EndedIn(Tail(l))
              \/ \E u \in Worker \ {w} : Tends(u, k)
  <2>1. k \in Key \ doubtful
    BY <1>2
  <2>2. CASE Emptied
    BY <1>7, <2>1, <2>2
  <2>3. CASE k \in EndedIn(Tail(l))
    BY <1>4, <2>3
  <2>4. CASE ~Emptied /\ k \notin EndedIn(Tail(l))
    <3>1. Derive(k, db') = Derive(k, db)
      BY <1>12, <2>1, <2>4 DEF Spares
    <3>2. CurrentIn(k, cached, db) \/ \E u \in Worker : Tends(u, k)
      BY <2>1 DEF CacheInv, Tended
    <3>3. ~Tends(w, k)
      BY <1>1, <1>5, <2>4 DEF Tends, Underway
    <3>. QED
      BY <1>2, <3>1, <3>2, <3>3 DEF CurrentIn
  <2>. QED
    BY <2>2, <2>3, <2>4
<1>14. ASSUME NEW k \in Key \ doubtful', NEW u \in Worker \ {w}, k \in Site!Filling(u)
       PROVE  Site!Now(u).value = Derive(k, db')
  <2>1. db' = db /\ k \in Key \ doubtful
    BY <1>2, <1>14
  <2>. QED
    BY <1>14, <2>1 DEF CacheInv, Fresh
<1>15. cached' = [k \in Key |-> cached'[k]]
  BY <1>2 DEF CacheInv
<1>. QED
  BY <1>1, <1>2, <1>6, <1>11, <1>12, <1>13, <1>14, <1>15, Moves

LEMMA CacheStep ==
  ASSUME CacheInv, [Site!Next]_(Site!vars)
  PROVE  CacheInv'
<1>1. ASSUME NEW w \in Worker, Site!Begin(w) \/ Site!View(w) \/ Site!Step(w)
      PROVE  CacheInv'
  BY <1>1, BeginKeeps, ViewKeeps, ExpandKeeps, ExecuteKeeps, QuietSteps, LookKeeps, ReadKeeps, StoreKeeps, InvalidateKeeps
  DEF Site!Step
<1>2. CASE UNCHANGED Site!vars
  BY <1>2 DEF Site!vars, CacheInv, Served, Underway, Emptied, Tended, Tends, Fresh, Site!Changing, Site!Busy, Site!Idle,
     Site!Filling, Site!At, Site!Now
<1>. QED
  BY <1>1, <1>2, EvictKeeps DEF Site!Next

----------------------------------------------------------------------------
\* The theorem

\* Where the site begins with no links to what is not there, a change of users, roles or groups that
\* has ended shows, whatever else has been changed, looked at and evicted meanwhile and whatever has
\* failed: what is cached of anybody's permissions and groups is what the database says, except
\* where a view overlapped the change or a handler ended with an error, as the code has it
\* (InvalidateUser, InvalidateAllUsers, the handlers of users, roles and groups).
THEOREM PermissionsShown == ConsistentAtStart => (Spec => []PermissionsShow)
<1>. SUFFICES ASSUME ConsistentAtStart PROVE Spec => []PermissionsShow
  OBVIOUS
<1>1. Site!Init => CacheInv
  BY CacheInit
<1>2. CacheInv /\ [Site!Next]_(Site!vars) => CacheInv'
  BY CacheStep
<1>3. CacheInv => PermissionsShow
  <2>. SUFFICES ASSUME CacheInv, Site!Quiet, NEW k \in Key \ doubtful PROVE Site!Current(k)
    BY DEF PermissionsShow, Site!UpToDate
  <2>1. \A w \in Worker : ~Tends(w, k)
    BY DEF Site!Quiet, Tends
  <2>2. CurrentIn(k, cached, db)
    BY <2>1 DEF CacheInv, Tended
  <2>. QED
    BY <2>2 DEF CurrentIn, Site!Current
<1>. QED
  BY <1>1, <1>2, <1>3, PTL DEF Spec, Site!Spec

----------------------------------------------------------------------------
\* Recursion

\* What is so for some number is so for a least one: how facts about recursive functions are shown.
LEMMA Least ==
  ASSUME NEW S, S \subseteq Nat, S # {}
  PROVE  \E n \in S : \A m \in S : ~(m < n)
<1>. DEFINE R == {ss \in Nat \X Nat : ss[1] < ss[2]}
<1>1. IsWellFoundedOn(R, Nat)
  BY NatLessThanWellFounded DEF OpToRel
<1>. HIDE DEF R
<1>2. \E n \in S : \A m \in S : <<m, n>> \notin R
  BY <1>1, WFMin
<1>. QED
  BY <1>2 DEF R

\* What one gets by taking step again and again.
Iterates(T, step, x, f) == f \in [Nat -> T] /\ f[0] = x /\ \A n \in Nat : f[n + 1] = step[f[n]]
LEMMA Iteration ==
  ASSUME NEW T, NEW step \in [T -> T], NEW x \in T
  PROVE  \E f : Iterates(T, step, x, f)
<1>. DEFINE InitialPart(n, g) == g \in [0..n -> T] /\ g[0] = x /\ \A m \in 0..n : m + 1 \in 0..n => g[m + 1] = step[g[m]]
<1>1. \A n \in Nat : \E g : InitialPart(n, g)
  <2>. DEFINE S == {n \in Nat : \A g : ~InitialPart(n, g)}
  <2>1. ASSUME S # {} PROVE FALSE
    <3>1. PICK n \in S : \A m \in S : ~(m < n)
      <4>. HIDE DEF InitialPart
      <4>. QED
        BY <2>1, Least
    <3>2. n # 0
      <4>1. InitialPart(0, [m \in 0..0 |-> x])
        OBVIOUS
      <4>. QED
        BY <4>1
    <3>3. n \in Nat /\ n - 1 \in Nat /\ n - 1 < n
      BY <3>2
    <3>4. PICK g : InitialPart(n - 1, g)
      <4>. HIDE DEF InitialPart
      <4>. QED
        BY <3>1, <3>3
    <3>5. InitialPart(n, [m \in 0..n |-> IF m = n THEN step[g[n - 1]] ELSE g[m]])
      BY <3>3, <3>4
    <3>. QED
      BY <3>5
  <2>. HIDE DEF InitialPart
  <2>. QED
    BY <2>1
<1>2. ASSUME NEW n \in Nat, NEW k \in Nat, NEW g, NEW h, InitialPart(n, g), InitialPart(k, h)
      PROVE  \A m \in Nat : m <= n /\ m <= k => g[m] = h[m]
  <2>. DEFINE S == {m \in Nat : m <= n /\ m <= k /\ g[m] # h[m]}
  <2>1. ASSUME S # {} PROVE FALSE
    <3>1. PICK m \in S : \A j \in S : ~(j < m)
      BY <2>1, Least
    <3>2. m # 0
      BY <1>2
    <3>3. m - 1 \in 0..n /\ m - 1 \in 0..k /\ (m - 1) + 1 \in 0..n /\ (m - 1) + 1 \in 0..k /\ (m - 1) + 1 = m /\ m - 1 \notin S
      BY <3>1, <3>2
    <3>. QED
      BY <1>2, <3>3
  <2>. QED
    BY <2>1
<1>. DEFINE upTo(n) == CHOOSE g : InitialPart(n, g)
<1>3. \A n \in Nat : InitialPart(n, upTo(n))
  <2>. HIDE DEF InitialPart
  <2>. QED
    BY <1>1
<1>. DEFINE f == [n \in Nat |-> upTo(n)[n]]
<1>. HIDE DEF upTo
<1>4. f \in [Nat -> T] /\ f[0] = x
  BY <1>3
<1>5. ASSUME NEW n \in Nat PROVE f[n + 1] = step[f[n]]
  <2>1. upTo(n + 1)[n] = upTo(n)[n]
    <3>1. n + 1 \in Nat /\ n <= n + 1 /\ n <= n
      OBVIOUS
    <3>. HIDE DEF InitialPart
    <3>. QED
      BY <1>2, <1>3, <3>1
  <2>2. InitialPart(n + 1, upTo(n + 1)) /\ n \in 0..n + 1 /\ n + 1 \in 0..n + 1
    BY <1>3
  <2>. QED
    BY <2>1, <2>2
<1>. HIDE DEF f
<1>. QED
  BY <1>4, <1>5 DEF Iterates

----------------------------------------------------------------------------
\* What a role may do

\* The roles that p may come from to r, past no role that denies it and none in seen.
Onward(S, p, seen, rows) == \A x \in S : <<"deny", x, p>> \notin rows => Parents(x, rows) \ seen \subseteq S
Beyond(r, p, seen, rows) == {q \in Role : \A S \in SUBSET Role : r \in S /\ Onward(S, p, seen, rows) => q \in S}
Given(r, seen, rows) == {p \in Perm : \E q \in Beyond(r, p, seen, rows) : <<"allow", q, p>> \in rows}

LEMMA BeyondIs ==
  ASSUME NEW rows, NEW p, NEW seen, NEW r \in Role
  PROVE  /\ Beyond(r, p, seen, rows) \subseteq Role /\ r \in Beyond(r, p, seen, rows)
         /\ Onward(Beyond(r, p, seen, rows), p, seen, rows)
         /\ \A S \in SUBSET Role : r \in S /\ Onward(S, p, seen, rows) => Beyond(r, p, seen, rows) \subseteq S
<1>1. Beyond(r, p, seen, rows) \subseteq Role /\ r \in Beyond(r, p, seen, rows)
  BY DEF Beyond
<1>2. \A S \in SUBSET Role : r \in S /\ Onward(S, p, seen, rows) => Beyond(r, p, seen, rows) \subseteq S
  BY DEF Beyond
<1>3. ASSUME NEW x \in Beyond(r, p, seen, rows), <<"deny", x, p>> \notin rows, NEW y \in Parents(x, rows) \ seen,
             NEW S \in SUBSET Role, r \in S, Onward(S, p, seen, rows)
      PROVE  y \in S
  BY <1>2, <1>3 DEF Onward
<1>4. \A x : Parents(x, rows) \subseteq Role
  BY DEF Parents, Linked
<1>. QED
  BY <1>1, <1>2, <1>3, <1>4 DEF Onward, Beyond

\* The first step of a way.
Through(r, p, seen, rows) ==
  {q \in Role : <<"deny", r, p>> \notin rows /\ \E y \in Parents(r, rows) \ (seen \cup {r}) : q \in Beyond(y, p, seen \cup {r}, rows)}

LEMMA BeyondFirst ==
  ASSUME NEW rows, NEW p, NEW seen, NEW r \in Role
  PROVE  Beyond(r, p, seen, rows) = {r} \cup Through(r, p, seen, rows)
<1>. DEFINE T == {r} \cup Through(r, p, seen, rows)
<1>0. \A x : Parents(x, rows) \subseteq Role
  BY DEF Parents, Linked
<1>1. ASSUME NEW x \in T, <<"deny", x, p>> \notin rows, NEW z \in Parents(x, rows) \ seen, z # r
      PROVE  z \in Through(r, p, seen, rows)
  <2>1. CASE x = r
    BY <1>0, <1>1, <2>1, BeyondIs DEF Through
  <2>2. CASE x # r
    <3>1. PICK y \in Parents(r, rows) \ (seen \cup {r}) : x \in Beyond(y, p, seen \cup {r}, rows)
      BY <2>2 DEF Through
    <3>2. Onward(Beyond(y, p, seen \cup {r}, rows), p, seen \cup {r}, rows)
      BY <1>0, BeyondIs
    <3>3. z \in Beyond(y, p, seen \cup {r}, rows)
      BY <1>1, <3>1, <3>2 DEF Onward
    <3>. QED
      BY <1>0, <2>2, <3>1, <3>3 DEF Through
  <2>. QED
    BY <2>1, <2>2
<1>2. Beyond(r, p, seen, rows) \subseteq T
  <2>1. T \in SUBSET Role /\ r \in T
    BY DEF Through
  <2>2. Onward(T, p, seen, rows)
    BY <1>1 DEF Onward
  <2>. HIDE DEF T
  <2>. QED
    BY <2>1, <2>2, BeyondIs
<1>3. ASSUME NEW q \in Through(r, p, seen, rows) PROVE q \in Beyond(r, p, seen, rows)
  <2>1. PICK y \in Parents(r, rows) \ (seen \cup {r}) : <<"deny", r, p>> \notin rows /\ q \in Beyond(y, p, seen \cup {r}, rows)
    BY DEF Through
  <2>. DEFINE S == Beyond(r, p, seen, rows)
  <2>2. S \in SUBSET Role /\ r \in S /\ Onward(S, p, seen, rows)
    BY BeyondIs
  <2>. HIDE DEF S
  <2>3. y \in S /\ Onward(S, p, seen \cup {r}, rows)
    BY <2>1, <2>2 DEF Onward
  <2>. QED
    BY <1>0, <2>1, <2>2, <2>3, BeyondIs DEF S
<1>. QED
  BY <1>2, <1>3, BeyondIs

LEMMA GivenFirst ==
  ASSUME NEW rows, NEW seen \in SUBSET Role, NEW r \in Role \ seen
  PROVE  Given(r, seen, rows) =
           Linked("allow", r, Perm, rows)
           \cup ((UNION {Given(p, seen \cup {r}, rows) : p \in Parents(r, rows) \ (seen \cup {r})})
                 \ Linked("deny", r, Perm, rows))
<1>. DEFINE U == UNION {Given(p, seen \cup {r}, rows) : p \in Parents(r, rows) \ (seen \cup {r})}
<1>1. ASSUME NEW p \in Perm
      PROVE  p \in Given(r, seen, rows) <=> <<"allow", r, p>> \in rows \/ (<<"deny", r, p>> \notin rows /\ p \in U)
  <2>1. p \in Given(r, seen, rows) <=> \E q \in {r} \cup Through(r, p, seen, rows) : <<"allow", q, p>> \in rows
    BY BeyondFirst DEF Given
  <2>2. (\E q \in Through(r, p, seen, rows) : <<"allow", q, p>> \in rows) <=>
          /\ <<"deny", r, p>> \notin rows
          /\ \E y \in Parents(r, rows) \ (seen \cup {r}) : p \in Given(y, seen \cup {r}, rows)
    <3>1. \A y \in Parents(r, rows) : y \in Role /\ Beyond(y, p, seen \cup {r}, rows) \subseteq Role
      BY BeyondIs DEF Parents, Linked
    <3>. QED
      BY <3>1 DEF Through, Given
  <2>. QED
    BY <2>1, <2>2
<1>2. Given(r, seen, rows) \subseteq Perm /\ U \subseteq Perm
  BY DEF Given
<1>3. \A what : Linked(what, r, Perm, rows) = {p \in Perm : <<what, r, p>> \in rows}
  BY DEF Linked
<1>. HIDE DEF U
<1>4. Given(r, seen, rows) = Linked("allow", r, Perm, rows) \cup (U \ Linked("deny", r, Perm, rows))
  BY <1>1, <1>2, <1>3
<1>. QED
  BY <1>4 DEF U

\* The recursion is over ever more roles that have been seen, of finitely many.
LEMMA AllowedIs ==
  ASSUME NEW rows, NEW role \in Role
  PROVE  AllowedBy(role, rows) = Given(role, {}, rows)
<1>. DEFINE Gets(f, seen, r) == Linked("allow", r, Perm, rows)
                              \cup ((UNION {f[seen \cup {r}][p] : p \in Parents(r, rows) \ (seen \cup {r})})
                                    \ Linked("deny", r, Perm, rows))
<1>. DEFINE Body(f) == [seen \in SUBSET Role |-> [r \in Role \ seen |-> Gets(f, seen, r)]]
<1>. DEFINE given == [seen \in SUBSET Role |-> [r \in Role \ seen |-> Given(r, seen, rows)]]
<1>. DEFINE allows == CHOOSE f : f = Body(f)
<1>0. \A r : Parents(r, rows) \subseteq Role
  BY DEF Parents, Linked
<1>1. given = Body(given)
  <2>1. ASSUME NEW seen \in SUBSET Role, NEW r \in Role \ seen
        PROVE  Given(r, seen, rows) = Gets(given, seen, r)
    <3>1. \A p \in Parents(r, rows) \ (seen \cup {r}) : given[seen \cup {r}][p] = Given(p, seen \cup {r}, rows)
      BY <1>0
    <3>2. {given[seen \cup {r}][p] : p \in Parents(r, rows) \ (seen \cup {r})}
          = {Given(p, seen \cup {r}, rows) : p \in Parents(r, rows) \ (seen \cup {r})}
      BY <3>1
    <3>. QED
      BY <3>2, GivenFirst
  <2>. HIDE DEF Gets
  <2>. QED
    BY <2>1
<1>2. allows = Body(allows)
  <2>. HIDE DEF Body
  <2>. QED
    BY <1>1, Zenon
<1>3. AllowedBy(role, rows) = allows[{}][role]
  BY DEF AllowedBy
<1>. HIDE DEF allows
<1>4. ASSUME NEW seen \in SUBSET Role, NEW r \in Role \ seen
      PROVE  allows[seen][r] = Gets(allows, seen, r)
  <2>. HIDE DEF Gets
  <2>1. allows[seen] = [x \in Role \ seen |-> Gets(allows, seen, x)]
    BY <1>2
  <2>. QED
    BY <2>1
<1>. HIDE DEF Body
<1>. DEFINE Left(n) == \E seen \in SUBSET Role : Cardinality(Role \ seen) = n
                                                 /\ \E r \in Role \ seen : allows[seen][r] # Given(r, seen, rows)
<1>. DEFINE N == {n \in Nat : Left(n)}
<1>5. ASSUME N # {} PROVE FALSE
  <2>1. PICK n \in N : \A m \in N : ~(m < n)
    <3>. HIDE DEF Left
    <3>. QED
      BY <1>5, Least
  <2>2. PICK seen \in SUBSET Role : Cardinality(Role \ seen) = n
                                    /\ \E r \in Role \ seen : allows[seen][r] # Given(r, seen, rows)
    BY <2>1
  <2>3. PICK r \in Role \ seen : allows[seen][r] # Given(r, seen, rows)
    BY <2>2
  <2>. DEFINE more == seen \cup {r}
  <2>4. Cardinality(Role \ more) \in Nat /\ Cardinality(Role \ more) < n
    <3>1. IsFiniteSet(Role \ seen) /\ Role \ more = (Role \ seen) \ {r}
      BY AccessFiniteAssumption, FS_Subset
    <3>. DEFINE S == Role \ seen
    <3>2. Cardinality(S \ {r}) = Cardinality(S) - 1 /\ IsFiniteSet(S \ {r}) /\ Cardinality(S) \in Nat /\ Cardinality(S \ {r}) \in Nat
      <4>1. IsFiniteSet(S) /\ r \in S
        BY <3>1
      <4>. HIDE DEF S
      <4>. QED
        BY <4>1, FS_RemoveElement, FS_CardinalityType
    <3>. QED
      BY <2>2, <3>1, <3>2
  <2>5. \A y \in Role \ more : allows[more][y] = Given(y, more, rows)
    <3>1. more \in SUBSET Role /\ ~Left(Cardinality(Role \ more))
      BY <2>1, <2>4
    <3>. QED
      BY <3>1
  <2>6. {allows[more][p] : p \in Parents(r, rows) \ more} = {Given(p, more, rows) : p \in Parents(r, rows) \ more}
    BY <1>0, <2>5
  <2>7. allows[seen][r] = Gets(allows, seen, r)
    BY <1>4
  <2>8. Given(r, seen, rows) = Linked("allow", r, Perm, rows)
                               \cup ((UNION {Given(p, more, rows) : p \in Parents(r, rows) \ more})
                                     \ Linked("deny", r, Perm, rows))
    BY GivenFirst
  <2>. QED
    BY <2>3, <2>6, <2>7, <2>8
<1>6. Cardinality(Role \ {}) \in Nat /\ Role \ {} = Role
  BY AccessFiniteAssumption, FS_CardinalityType
<1>. QED
  BY <1>3, <1>5, <1>6

\* One round of the search.
LEMMA ReachesIs ==
  ASSUME NEW rows, NEW p, NEW r \in Role
  PROVE  Reaches(r, p, rows) = Beyond(r, p, {}, rows)
<1>. DEFINE Near(S) == S \cup UNION {Parents(q, rows) : q \in {x \in S : <<"deny", x, p>> \notin rows}}
<1>. DEFINE Body(f) == [n \in Nat |-> IF n = 0 THEN {r} ELSE Near(f[n - 1])]
<1>. DEFINE up == CHOOSE f : f = Body(f)
<1>. DEFINE B == Beyond(r, p, {}, rows)
<1>0. /\ \A x : Parents(x, rows) \subseteq Role
      /\ \A S : S \subseteq Role => Near(S) \subseteq Role /\ S \subseteq Near(S)
      /\ \A S : Near(S) = S <=> Onward(S, p, {}, rows)
      /\ \A S : S \subseteq B => Near(S) \subseteq B
  <2>1. \A x : Parents(x, rows) \subseteq Role
    BY DEF Parents, Linked
  <2>2. \A S : Near(S) = S <=> Onward(S, p, {}, rows)
    BY DEF Onward
  <2>3. Onward(B, p, {}, rows)
    BY BeyondIs
  <2>. HIDE DEF B
  <2>4. ASSUME NEW S, S \subseteq B PROVE Near(S) \subseteq B
    BY <2>3, <2>4 DEF Onward
  <2>5. \A S : S \subseteq Role => Near(S) \subseteq Role /\ S \subseteq Near(S)
    BY <2>1
  <2>. HIDE DEF Near
  <2>. QED
    BY <2>1, <2>2, <2>4, <2>5
<1>1. \E f : f = Body(f)
  <2>. DEFINE step == [S \in SUBSET Role |-> Near(S)]
  <2>1. step \in [SUBSET Role -> SUBSET Role] /\ {r} \in SUBSET Role
    BY <1>0
  <2>. HIDE DEF step, Near, Body, B
  <2>2. PICK f : Iterates(SUBSET Role, step, {r}, f)
    BY <2>1, Iteration
  <2>3. ASSUME NEW n \in Nat, n # 0 PROVE f[n] = Near(f[n - 1])
    <3>1. n - 1 \in Nat /\ (n - 1) + 1 = n
      BY <2>3
    <3>. QED
      BY <2>2, <3>1 DEF step, Iterates
  <2>. QED
    BY <2>2, <2>3 DEF Body, Iterates
<1>2. up = Body(up)
  <2>. HIDE DEF Body
  <2>. QED
    BY <1>1, Zenon
<1>3. Reaches(r, p, rows) = up[Cardinality(Role)]
  BY DEF Reaches
<1>. HIDE DEF up, B, Near
<1>4. up[0] = {r} /\ \A n \in Nat : n # 0 => up[n] = Near(up[n - 1])
  BY <1>2
<1>. HIDE DEF Body
<1>5. \A n \in Nat : up[n] \subseteq B
  <2>. DEFINE N == {n \in Nat : ~(up[n] \subseteq B)}
  <2>1. ASSUME N # {} PROVE FALSE
    <3>1. PICK n \in N : \A m \in N : ~(m < n)
      BY <2>1, Least
    <3>2. n # 0
      BY <1>4, BeyondIs DEF B
    <3>3. up[n - 1] \subseteq B
      BY <3>1, <3>2
    <3>. QED
      BY <1>0, <1>4, <3>2, <3>3
  <2>. QED
    BY <2>1
<1>6. B \subseteq Role /\ IsFiniteSet(Role) /\ \A S : S \subseteq Role => IsFiniteSet(S) /\ Cardinality(S) \in Nat
                                                                 /\ Cardinality(S) <= Cardinality(Role)
  BY BeyondIs, AccessFiniteAssumption, FS_Subset, FS_CardinalityType DEF B
<1>7. \A n \in Nat : Onward(up[n], p, {}, rows) \/ Cardinality(up[n]) > n
  <2>. DEFINE N == {n \in Nat : ~(Onward(up[n], p, {}, rows) \/ Cardinality(up[n]) > n)}
  <2>1. ASSUME N # {} PROVE FALSE
    <3>1. PICK n \in N : \A m \in N : ~(m < n)
      BY <2>1, Least
    <3>2. n # 0
      <4>1. Cardinality({r}) = 1
        BY FS_Singleton
      <4>. QED
        BY <1>4, <4>1
    <3>3. n - 1 \in Nat /\ up[n] = Near(up[n - 1]) /\ (Onward(up[n - 1], p, {}, rows) \/ Cardinality(up[n - 1]) > n - 1)
      BY <1>4, <3>1, <3>2
    <3>4. up[n] # up[n - 1] /\ ~Onward(up[n - 1], p, {}, rows)
      BY <1>0, <3>3
    <3>5. up[n - 1] \subseteq up[n] /\ up[n] \subseteq Role /\ up[n - 1] \subseteq Role
      BY <1>0, <1>5, <1>6, <3>3
    <3>6. Cardinality(up[n - 1]) < Cardinality(up[n])
      BY <1>6, <3>4, <3>5, FS_Subset
    <3>. QED
      BY <1>6, <3>3, <3>4, <3>5, <3>6
  <2>. QED
    BY <2>1
<1>8. Onward(up[Cardinality(Role)], p, {}, rows)
  <2>1. Cardinality(Role) \in Nat /\ up[Cardinality(Role)] \subseteq Role
    BY <1>5, <1>6
  <2>. QED
    BY <1>6, <1>7, <2>1
<1>9. \A n \in Nat : r \in up[n]
  <2>. DEFINE N == {n \in Nat : r \notin up[n]}
  <2>1. ASSUME N # {} PROVE FALSE
    <3>1. PICK n \in N : \A m \in N : ~(m < n)
      BY <2>1, Least
    <3>2. n # 0
      BY <1>4
    <3>3. r \in up[n - 1] /\ n - 1 \in Nat
      BY <3>1, <3>2
    <3>. QED
      BY <1>0, <1>4, <1>5, <1>6, <3>2, <3>3
  <2>. QED
    BY <2>1
<1>. QED
  <2>1. Cardinality(Role) \in Nat
    BY <1>6
  <2>. QED
    BY <1>3, <1>5, <1>6, <1>8, <1>9, <2>1, BeyondIs DEF B

\* However the ways through the inheritance meet, part or lead back, the recursive resolution
\* (resolveRoleEffective, src/internal/security/resolver.go) allows a role what some role allows
\* that it reaches past no role that denies it, whatever the tables hold.
THEOREM ResolutionReaches == Spec => []ResolutionIsReachability
<1>1. \A r \in Role : AllowedBy(r, db) = {p \in Perm : \E q \in Reaches(r, p, db) : <<"allow", q, p>> \in db}
  BY AllowedIs, ReachesIs DEF Given
<1>2. ResolutionIsReachability
  BY <1>1 DEF ResolutionIsReachability
<1>. QED
  BY <1>2, PTL

============================================================================
