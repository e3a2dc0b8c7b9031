----------------------------- MODULE SessionStore -----------------------------
(***************************************************************************)
(* One session of one site (src/internal/session, user, middleware): a     *)
(* file, and in front of it the memory of a Store.  Every request loads    *)
(* the session once, works on its own copy and writes the whole copy back. *)
(* The lock of a Store covers each of its calls; nothing covers a request, *)
(* and a reload of the application begins with new Stores while requests   *)
(* under way go on with the old ones.  One action is one call of a Store,  *)
(* or one access to the file within it.                                    *)
(***************************************************************************)
EXTENDS Integers

CONSTANTS Worker,      \* goroutines: requests of one browser
          Does,        \* Does[w]: the requests goroutine w serves
          Store,       \* session.Store objects that may be in use at once
          None, Torn,  \* no file, entry or store; a file that does not parse
          MaxAge,      \* config.SessionConfig.MaxAge
          MaxUpsets    \* reloads, restarts and failed file operations (a bound)

Request == {"get", "set", "login", "logout"}

ASSUME SessionDoesAssumption == Does \in [Worker -> SUBSET Request]
ASSUME SessionNoneAssumption == None \notin Worker \cup Store /\ Torn # None
ASSUME SessionBoundsAssumption ==
  /\ MaxAge \in Nat \ {0}
  /\ MaxUpsets \in Nat

VARIABLES
  file,     \* the session's file
  cache,    \* cache[s]: the session's entry in the LRU of s
  lock,     \* the mutex of s
  storeOf,  \* storeOf[c]: sessionMap of chain c
  chain,    \* the middleware chain that new requests get
  worker,
  known,    \* history: what the session holds, if one Store alone has written it
  until,    \* history: how long that is promised to last
  left,     \* history: how a logout has ended it, until somebody logs in
  upsets

disks == <<file, cache, lock>>
chains == <<storeOf, chain>>
history == <<known, until, left>>
vars == <<disks, chains, worker, history, upsets>>

----------------------------------------------------------------------------

\* Whether somebody is logged in, and whether there is a CSRF token; other values
\* decide nothing, and whether a request has changed one is left open.
Data == [user : BOOLEAN, token : BOOLEAN]
Empty == [user |-> FALSE, token |-> FALSE]

\* The time until expires_at, which is past at Expired.
Expired == -1
Time == Expired .. MaxAge
Half == MaxAge \div 2
Entry == [data : Data, expires : Time]
ASSUME SessionEntryAssumption == {None, Torn} \cap (Entry \cup Data) = {}
Chain == 0 .. MaxUpsets

Label == {"idle", "find", "create", "load", "remove", "act", "save", "fill", "delete"}

\* A request's user.Service: its copy of the session and its store; expires is for
\* the time of a write, next the way back from Save.
Goroutine == [pc : Label, op : Request \cup {"none"}, chain : Chain,
              store : Store \cup {None}, data : Data, expires : Time,
              next : {"act", "idle"}]
Idle == [pc |-> "idle", op |-> "none", chain |-> 0, store |-> None,
         data |-> Empty, expires |-> Expired, next |-> "idle"]

TypeOK ==
  /\ file \in Entry \cup {None, Torn}
  /\ cache \in [Store -> Entry \cup {None}]
  /\ lock \in [Store -> Worker \cup {None}]
  /\ storeOf \in [Chain -> Store \cup {None}]
  /\ chain \in Chain
  /\ worker \in [Worker -> Goroutine]
  /\ known \in Data \cup {None}
  /\ until \in Time
  /\ left \in {"no", "alone", "amid"}
  /\ upsets \in 0 .. MaxUpsets

Init ==
  /\ file = None
  /\ cache = [s \in Store |-> None]
  /\ lock = [s \in Store |-> None]
  /\ storeOf = [c \in Chain |-> None]
  /\ chain = 0
  /\ worker = [w \in Worker |-> Idle]
  /\ known = Empty
  /\ until = Expired
  /\ left = "no"
  /\ upsets = 0

----------------------------------------------------------------------------
\* Helpers

At(w, l) == worker[w].pc = l
Busy(w) == ~At(w, "idle")
Then(w, g) == worker' = [worker EXCEPT ![w] = g]
Return(w) == Then(w, Idle)

Mine(w) == worker[w].store
Entries(w) == cache[Mine(w)]

\* w may call its store; a call of one step takes and gives back the mutex.
Enters(w, l) == At(w, l) /\ lock[Mine(w)] = None
Remember(w, e) == cache' = [cache EXCEPT ![Mine(w)] = e]

Fresh(e) == e.expires # Expired
Upset == upsets < MaxUpsets /\ upsets' = upsets + 1

\* The store new requests get.
Current == storeOf[chain]

\* The file now holds d because the current store has seen to it, or, where
\* another one has touched it or a write has failed, nobody can tell.
Known(w, d) == known' = IF Mine(w) = Current THEN d ELSE None

\* The chains and stores somebody can still reach; the others are garbage, and a
\* store may be had again.
Used == {chain} \cup {worker[w].chain : w \in {x \in Worker : Busy(x)}}
Live == {worker[w].store : w \in Worker} \cup {storeOf[c] : c \in Used}
Collect ==
  /\ storeOf' = [c \in Chain |-> IF c \in Used THEN storeOf[c] ELSE None]
  /\ cache' = [s \in Store |-> IF s \in Live THEN cache[s] ELSE None]

----------------------------------------------------------------------------
\* A request begins: Chain.Session

Begin(w) ==
  /\ At(w, "idle")
  /\ \E op \in Does[w] : Then(w, [Idle EXCEPT !.pc = "find", !.op = op, !.chain = chain])
  /\ Collect
  /\ UNCHANGED <<file, lock, chain, history, upsets>>

\* SessionStore: the chain's map of stores is read under one lock ...
Find(w) ==
  LET s == storeOf[worker[w].chain] IN
  /\ At(w, "find")
  /\ Then(w, IF s = None THEN [worker[w] EXCEPT !.pc = "create"]
             ELSE [worker[w] EXCEPT !.pc = "load", !.store = s])
  /\ UNCHANGED <<disks, chains, history, upsets>>

\* ... and written under another: of two requests that find no store, each goes
\* on with its own, and the later one's stays in the map.
Create(w) ==
  /\ At(w, "create")
  /\ \E s \in Store \ Live :
       /\ storeOf' = [storeOf EXCEPT ![worker[w].chain] = s]
       /\ cache' = [cache EXCEPT ![s] = None]
       /\ Then(w, [worker[w] EXCEPT !.pc = "load", !.store = s])
  /\ UNCHANGED <<file, lock, chain, history, upsets>>

\* A request with its data: the CSRF middleware refuses a login without a token,
\* and gives any other request one.
Loaded(w, d) ==
  IF d.token THEN [worker[w] EXCEPT !.pc = "act", !.data = d]
  ELSE IF worker[w].op = "login" THEN Idle
  ELSE [worker[w] EXCEPT !.pc = "save", !.next = "act", !.data = [d EXCEPT !.token = TRUE]]

\* Store.Load.  A file that does not parse ends the request with an error.
Load(w) ==
  /\ Enters(w, "load")
  /\ \/ /\ Entries(w) # None /\ Fresh(Entries(w))
        /\ Then(w, Loaded(w, Entries(w).data))
        /\ UNCHANGED <<disks, history>>
     \/ /\ Entries(w) # None /\ ~Fresh(Entries(w))
        /\ Remember(w, None)
        /\ file' = None
        /\ Known(w, Empty)
        /\ Then(w, Loaded(w, Empty))
        /\ UNCHANGED <<lock, until, left>>
     \/ /\ Entries(w) = None /\ file \in {None, Torn}
        /\ Then(w, IF file = None THEN Loaded(w, Empty) ELSE Idle)
        /\ UNCHANGED <<disks, history>>
     \/ /\ Entries(w) = None /\ file \in Entry
        /\ IF Fresh(file)
           THEN Remember(w, file) /\ Then(w, Loaded(w, file.data)) /\ UNCHANGED lock
           ELSE /\ lock' = [lock EXCEPT ![Mine(w)] = w]
                /\ Then(w, [worker[w] EXCEPT !.pc = "remove"])
                /\ UNCHANGED cache
        /\ UNCHANGED <<file, history>>
  /\ UNCHANGED <<chains, upsets>>

\* Load removes an expired file, or what another store has put in its place.
Remove(w) ==
  /\ At(w, "remove")
  /\ file' = None
  /\ Known(w, Empty)
  /\ lock' = [lock EXCEPT ![Mine(w)] = None]
  /\ Then(w, Loaded(w, Empty))
  /\ UNCHANGED <<cache, chains, until, left, upsets>>

----------------------------------------------------------------------------
\* What a handler does with the session

Act(w) ==
  /\ At(w, "act")
  /\ \/ worker[w].op = "get" /\ Return(w)
     \/ /\ worker[w].op = "login"
        /\ Then(w, [worker[w] EXCEPT !.pc = "save", !.next = "idle", !.data.user = TRUE])
     \/ worker[w].op = "set" /\ Then(w, [worker[w] EXCEPT !.pc = "save", !.next = "idle"])
     \/ worker[w].op = "logout" /\ Then(w, [worker[w] EXCEPT !.pc = "delete"])
  /\ UNCHANGED <<disks, chains, history, upsets>>

\* After Save: on to the handler, or done.
Saved(w) ==
  IF worker[w].next = "idle" THEN Idle
  ELSE [worker[w] EXCEPT !.pc = "act", !.expires = Expired, !.next = "idle"]

\* A login that has been saved undoes a logout.
LoggedIn(w) ==
  left' = IF worker[w].op = "login" THEN "no" ELSE left

\* The session is unchanged, and has more than half of its time left.
Unchanged(w) == Entries(w) # None /\ Entries(w).data = worker[w].data
Spared(w) == Unchanged(w) /\ 2 * Entries(w).expires > MaxAge
Changes(w) == worker[w].op = "set"

\* os.WriteFile, first half: the file is truncated, or cannot be opened.
Open(w, age) ==
  \/ /\ file' = Torn
     /\ lock' = [lock EXCEPT ![Mine(w)] = w]
     /\ known' = None /\ until' = Expired
     /\ Then(w, [worker[w] EXCEPT !.pc = "fill", !.expires = age])
     /\ UNCHANGED <<left, upsets>>
  \/ Upset /\ Return(w) /\ UNCHANGED <<file, lock, history>>

\* Store.Save without a rewrite: success, which promises that the session lasts
\* for half its time and more.
Skip(w) ==
  /\ until' = IF Mine(w) = Current /\ until <= Half THEN Half + 1 ELSE until
  /\ Then(w, Saved(w))
  /\ LoggedIn(w)
  /\ UNCHANGED <<file, lock, known, upsets>>

\* Mutant: unchanged data are never written again.
SaveSkipsAlways(w) ==
  /\ Enters(w, "save")
  /\ \/ Unchanged(w) /\ Skip(w)
     \/ (~Unchanged(w) \/ Changes(w)) /\ Open(w, MaxAge)
  /\ UNCHANGED <<cache, chains>>

\* Store.Save, up to the opening of the file.
Save(w) ==
  /\ Enters(w, "save")
  /\ \/ Spared(w) /\ Skip(w)
     \/ (~Spared(w) \/ Changes(w)) /\ Open(w, MaxAge)
  /\ UNCHANGED <<cache, chains>>

\* os.WriteFile, second half.  A file that another store has removed since stays
\* away, also if it has been made again; over one that another store has written, the
\* end of a longer text may be left.  If the write fails, so does Save, and the file stays
\* truncated.
Fill(w) ==
  LET e == [data |-> worker[w].data, expires |-> worker[w].expires] IN
  /\ At(w, "fill")
  /\ lock' = [lock EXCEPT ![Mine(w)] = None]
  /\ \/ /\ file' \in (CASE file = None -> {None}
                        [] file = Torn -> IF Live \subseteq {Mine(w), None} THEN {e} ELSE {e, Torn}
                        [] OTHER -> {e, Torn, file})
        /\ Remember(w, e)
        /\ Known(w, IF file' = e THEN e.data ELSE None)
        /\ until' = e.expires
        /\ Then(w, Saved(w))
        /\ LoggedIn(w)
        /\ UNCHANGED upsets
     \/ /\ Upset
        /\ known' = None
        /\ Return(w)
        /\ UNCHANGED <<file, cache, until, left>>
  /\ UNCHANGED <<chains>>

\* No other request is under way, and new ones get the same store.
Alone(w) == Mine(w) = Current /\ \A u \in Worker \ {w} : ~Busy(u)

\* Mutant: the entry in memory stays.
DeleteFile(w) ==
  /\ Enters(w, "delete")
  /\ UNCHANGED cache
  /\ \/ /\ file' = None
        /\ Known(w, Empty)
        /\ left' = IF Alone(w) THEN "alone" ELSE "amid"
        /\ UNCHANGED upsets
     \/ Upset /\ known' = None /\ UNCHANGED <<file, left>>
  /\ Return(w)
  /\ UNCHANGED <<lock, chains, until>>

\* Store.Delete; the handler drops the error of os.Remove.
Delete(w) ==
  /\ Enters(w, "delete")
  /\ Remember(w, None)
  /\ \/ /\ file' = None
        /\ Known(w, Empty)
        /\ left' = IF Alone(w) THEN "alone" ELSE "amid"
        /\ UNCHANGED upsets
     \/ Upset /\ known' = None /\ UNCHANGED <<file, left>>
  /\ Return(w)
  /\ UNCHANGED <<lock, chains, until>>

----------------------------------------------------------------------------
\* Around the requests

\* Other sessions push this one out of a store's memory.
Evict(s) ==
  /\ cache[s] # None /\ lock[s] = None
  /\ cache' = [cache EXCEPT ![s] = None]
  /\ UNCHANGED <<file, lock, chains, worker, history, upsets>>

\* Time passes.
Older(t) == IF t = Expired THEN t ELSE t - 1
Aged(e) == IF e \in {None, Torn} THEN e ELSE [e EXCEPT !.expires = Older(@)]
Tick ==
  /\ file' = Aged(file)
  /\ cache' = [s \in Store |-> Aged(cache[s])]
  /\ worker' = [w \in Worker |-> IF At(w, "fill")
                                 THEN [worker[w] EXCEPT !.expires = Older(@)] ELSE worker[w]]
  /\ until' = Older(until)
  /\ UNCHANGED <<lock, chains, known, left, upsets>>

\* Server.Activate makes a new chain, with an empty map.
Reload ==
  /\ Upset
  /\ chain' = chain + 1
  /\ UNCHANGED <<disks, storeOf, worker, history>>

\* The process ends at any moment, and starts again.
Crash ==
  /\ Upset
  /\ cache' = [s \in Store |-> None]
  /\ lock' = [s \in Store |-> None]
  /\ storeOf' = [c \in Chain |-> None]
  /\ chain' = 0
  /\ worker' = [w \in Worker |-> Idle]
  /\ UNCHANGED <<file, history>>

----------------------------------------------------------------------------

Step(w) ==
  \/ Find(w) \/ Create(w) \/ Load(w) \/ Remove(w) \/ Act(w)
  \/ Save(w) \/ Fill(w) \/ Delete(w)

Next ==
  \/ \E w \in Worker : Begin(w) \/ Step(w)
  \/ \E s \in Store : Evict(s)
  \/ Tick \/ Reload \/ Crash

Spec == Init /\ [][Next]_vars

----------------------------------------------------------------------------
\* Properties

\* What a new request's Load would see.
Visible ==
  LET c == IF Current = None THEN None ELSE cache[Current] IN
  IF c # None THEN (IF Fresh(c) THEN c.data ELSE Empty)
  ELSE IF file \in {None, Torn} THEN file
  ELSE IF Fresh(file) THEN file.data ELSE Empty

\* A request loads what was saved last, for at least as long as Save has
\* promised and whether memory or the file answers: after evictions, expiries,
\* skipped rewrites, reloads and restarts.  Nobody can tell while a request of
\* an older Store, or a failed write, has touched the file since.
ReadBack ==
  known # None /\ (known = Empty \/ until # Expired) =>
    Visible = known \/ (known = Empty /\ Visible = None)

\* After a logout that leaves no other request under way, nobody is logged in until
\* somebody logs in, whatever stores and requests come and go.  (A logout by way of
\* an older store does not reach the memory of the current one.)
SomebodyIn == Visible \in Data /\ Visible.user
LogoutSticks == left = "alone" => ~SomebodyIn

=============================================================================
