------------------------------- MODULE Requests -------------------------------
(***************************************************************************)
(* Requests on the database of one site and on what is cached from it.     *)
(* The database is a set of rows.  A request is the list of the steps it   *)
(* still has to take: a statement, a look at a cache or an invalidation.   *)
(* No transaction and no lock spans two steps.  The modules that INSTANCE  *)
(* this one say which rows there are, what each handler does (Plan) and    *)
(* what is derived and cached (Derive).                                    *)
(***************************************************************************)
EXTENDS Naturals, Sequences, Steps

CONSTANTS Worker,      \* goroutines that serve requests
          None,
          Key,         \* what may be cached
          Start,       \* databases a behaviour may begin with
          Does,        \* Does[w]: the changes and views w is asked for
          MaxChanges, MaxFaults,   \* changes begun, statements failed (bounds)
          Plan(_, _, _),           \* Plan(op, db, cached): the steps op takes
          Derive(_, _),            \* Derive(k, db): what belongs under k
          Asked(_, _)              \* Asked(op, db): whether anyone has reason to ask for op

VARIABLES db, cached,
          worker,    \* the change or view under way, and its steps to come
          changes, faults,
          doubtful   \* history: keys that need not be up to date

vars == <<db, cached, worker, changes, faults, doubtful>>

----------------------------------------------------------------------------
Allowed(s) == s.clash \cap db = {} /\ \A N \in s.needs : N \cap db # {}
Effect(s) == IF s.upsert \/ db \cap s.drop # {} THEN (db \ s.drop) \cup s.add ELSE db

----------------------------------------------------------------------------

Idle == [op |-> None, todo |-> <<>>]
Busy(w) == worker[w] # Idle
Changing(w) == Busy(w) /\ worker[w].op \notin Key
At(w, l) == Busy(w) /\ Head(worker[w].todo).do = l
Now(w) == Head(worker[w].todo)
Executing(w) == At(w, "statement") \/ At(w, "where")
Sql(w) == IF At(w, "where") THEN Head(Plan(Now(w).op, db, cached)) ELSE Now(w)
Later(w) == Tail(worker[w].todo)

Instead(w, steps) ==
  worker' = [worker EXCEPT ![w] = IF steps = <<>> THEN Idle ELSE [@ EXCEPT !.todo = steps]]
Proceed(w) == Instead(w, Later(w))
\* The next step that catches errors goes on with steps of its own; without one the
\* request is over.
Error(w) ==
  LET s == Later(w)  caught == {i \in DOMAIN s : s[i].do = "catch"}
  IN \/ caught = {} /\ Instead(w, <<>>)
     \/ \E i \in caught : (\A j \in caught : i <= j) /\ Instead(w, s[i].steps)

Current(k) == cached[k] \in {None, Derive(k, db)}
Filling(w) == IF At(w, "fill") THEN {Now(w).key} ELSE {}

\* Without an invalidation, what is out of date now stays so, and so does what is
\* about to be stored.
Doubted == {k \in Key : ~Current(k)} \cup UNION {Filling(u) : u \in Worker}
Errs(w) == Error(w) /\ doubtful' = doubtful \cup Doubted

Init ==
  /\ db \in Start
  /\ cached = [k \in Key |-> None]
  /\ worker = [w \in Worker |-> Idle]
  /\ changes = 0
  /\ faults = 0
  /\ doubtful = {}

\* A request that changes something arrives.
Begin(w) ==
  /\ ~Busy(w) /\ changes < MaxChanges
  /\ \E op \in {o \in Does[w] \ Key : Asked(o, db)} :
       worker' = [worker EXCEPT ![w] = [op |-> op, todo |-> <<Call(op)>>]]
  /\ changes' = changes + 1
  /\ UNCHANGED <<db, cached, faults, doubtful>>

\* A request that only needs what is cached.
View(w) ==
  /\ ~Busy(w)
  /\ \E k \in Does[w] \cap Key :
       /\ cached[k] = None /\ Asked(k, db)
       /\ worker' = [worker EXCEPT ![w] = [op |-> k, todo |-> <<Read(k)>>]]
  /\ UNCHANGED <<db, cached, changes, faults, doubtful>>

Expand(w) ==
  /\ At(w, "call")
  /\ Instead(w, Plan(Now(w).op, db, cached) \o Later(w))
  /\ UNCHANGED <<db, cached, changes, faults, doubtful>>

\* What has been read by then and is not stored yet is doubtful.
Execute(w) ==
  /\ Executing(w) /\ Allowed(Sql(w))
  /\ db' = Effect(Sql(w))
  /\ doubtful' = IF db' = db THEN doubtful ELSE doubtful \cup UNION {Filling(u) : u \in Worker}
  /\ Proceed(w)
  /\ UNCHANGED <<cached, changes, faults>>

\* A statement fails: an index or a foreign key forbids it, or the database gives up.
Fail(w) ==
  /\ Executing(w)
  /\ IF ~Allowed(Sql(w)) THEN UNCHANGED faults
     ELSE ~Sql(w).sure /\ faults < MaxFaults /\ faults' = faults + 1
  /\ IF Sql(w).vital THEN Errs(w) ELSE Proceed(w) /\ UNCHANGED doubtful
  /\ UNCHANGED <<db, cached, changes>>

GiveUp(w) ==
  /\ At(w, "return")
  /\ Errs(w)
  /\ UNCHANGED <<db, cached, changes, faults>>

Pass(w) ==
  /\ At(w, "catch")
  /\ Proceed(w)
  /\ UNCHANGED <<db, cached, changes, faults, doubtful>>

Look(w) ==
  /\ At(w, "resolve")
  /\ LET k == Now(w).key IN Instead(w, When(cached[k] = None, <<Read(k)>>) \o Later(w))
  /\ UNCHANGED <<db, cached, changes, faults, doubtful>>

ReadRows(w) ==
  /\ At(w, "read")
  /\ LET k == Now(w).key IN Instead(w, <<Fill(k, Derive(k, db))>> \o Later(w))
  /\ UNCHANGED <<db, cached, changes, faults, doubtful>>

\* What was read goes into the cache, whatever has happened since.
Store(w) ==
  /\ At(w, "fill")
  /\ cached' = [cached EXCEPT ![Now(w).key] = Now(w).value]
  /\ doubtful' = IF \E u \in Worker : Changing(u) THEN doubtful \cup Filling(w) ELSE doubtful
  /\ Proceed(w)
  /\ UNCHANGED <<db, changes, faults>>

Invalidate(w) ==
  /\ At(w, "forget")
  /\ cached' = [k \in Key |-> IF k \in Now(w).keys THEN None ELSE cached[k]]
  /\ doubtful' = (doubtful \ Now(w).keys) \cup UNION {Filling(u) \cap Now(w).keys : u \in Worker}
  /\ Proceed(w)
  /\ UNCHANGED <<db, changes, faults>>

Omit(w) ==
  /\ At(w, "overlook")
  /\ doubtful' = doubtful \cup (Now(w).keys \cap Doubted)
  /\ Proceed(w)
  /\ UNCHANGED <<db, cached, changes, faults>>

\* Other entries push one out of its cache.
Evict(k) ==
  /\ cached[k] # None
  /\ cached' = [cached EXCEPT ![k] = None]
  /\ UNCHANGED <<db, worker, changes, faults, doubtful>>

Step(w) ==
  \/ Expand(w) \/ Execute(w) \/ Fail(w) \/ GiveUp(w) \/ Pass(w) \/ Look(w)
  \/ ReadRows(w) \/ Store(w) \/ Invalidate(w) \/ Omit(w)

Next ==
  \/ \E w \in Worker : Begin(w) \/ View(w) \/ Step(w)
  \/ \E k \in Key : Evict(k)

Spec == Init /\ [][Next]_vars

----------------------------------------------------------------------------

Quiet == \A w \in Worker : ~Changing(w)

\* Once the changes under way are over, what is cached is what the database says,
\* except where a view overlapped a change, a handler ended with an error, or the
\* code is known to drop nothing.
UpToDate == Quiet => \A k \in Key \ doubtful : Current(k)

=============================================================================
