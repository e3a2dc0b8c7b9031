-------------------------- MODULE SessionStore_proofs --------------------------
(***************************************************************************)
(* Proofs about SessionStore, for any number of goroutines and stores,     *)
(* whatever requests they serve, any age and any number of reloads,        *)
(* restarts and failed file operations.                                    *)
(***************************************************************************)
EXTENDS SessionStore, TLAPS

USE SessionDoesAssumption, SessionNoneAssumption, SessionEntryAssumption,
    SessionBoundsAssumption

----------------------------------------------------------------------------
\* The inductive invariant

\* Where a goroutine stands: it has a store once it has found one, and the mutex of
\* that store while it is in the middle of a call.
Calling == {"load", "remove", "act", "save", "fill", "delete"}
Station(w) ==
  /\ At(w, "idle") => Mine(w) = None /\ ~worker[w].data.user
  /\ worker[w].pc \in Calling => Mine(w) \in Store
  /\ worker[w].pc \in {"remove", "fill"} => lock[Mine(w)] = w
  /\ At(w, "remove") => Entries(w) = None
  /\ worker[w].chain <= chain
Stations == \A w \in Worker : Station(w)

\* No chain to come has a store.
Chains ==
  /\ chain <= upsets
  /\ \A c \in Chain : c > chain => storeOf[c] = None

\* Where somebody can tell what the session holds, the file holds it, for as long as
\* is promised, and the memory of the current store does not say otherwise.
FileIsKnown ==
  known # None =>
    /\ Current # None => cache[Current] \in {None, file}
    /\ file # Torn
    /\ file = None => known = Empty
    /\ file # None => file.data = known /\ until <= file.expires

\* After a logout that was alone, nobody is logged in: not by the file, not by the
\* memory of a store that a request can reach, not by the copy of a request, unless
\* it is a login.
NobodyIn ==
  left = "alone" =>
    /\ file \in Entry => ~file.data.user
    /\ \A s \in Live \ {None} : cache[s] # None => ~cache[s].data.user
    /\ \A w \in Worker : worker[w].op # "login" => ~worker[w].data.user

IInv == TypeOK /\ Stations /\ Chains /\ FileIsKnown /\ NobodyIn

----------------------------------------------------------------------------
\* Goroutines

LEMMA IdleIs ==
  /\ Idle \in Goroutine /\ Idle.pc = "idle" /\ Idle.store = None /\ Idle.chain = 0
  /\ Idle.op = "none" /\ ~Idle.data.user
<1>1. /\ Empty \in Data /\ 0 \in Chain /\ Expired \in Time
  BY DEF Empty, Data, Chain, Expired, Time
<1>2. /\ Idle \in Goroutine /\ Idle.pc = "idle" /\ Idle.store = None /\ Idle.chain = 0
      /\ Idle.op = "none" /\ Idle.data = Empty
  BY <1>1 DEF Idle, Goroutine, Label
<1>3. ~Empty.user
  BY DEF Empty
<1>. QED
  BY <1>2, <1>3

\* Where the step of a goroutine may take it.
Placed(g, w) ==
  /\ g \in Goroutine
  /\ g.pc = "idle" => g.store = None /\ ~g.data.user
  /\ g.pc # "idle" => Busy(w) /\ g.chain = worker[w].chain
  /\ g.pc \in Calling => g.store \in Store
  /\ g.store \in {None, Mine(w), storeOf[worker[w].chain]}
  /\ g.chain \in {0, worker[w].chain}

LEMMA IdlePlaced ==
  ASSUME IInv, NEW w \in Worker
  PROVE  Placed(Idle, w)
  BY IdleIs DEF Placed, Calling

\* The step of one goroutine: w is now at g, and has touched no store but its own, and
\* that one only while no other goroutine was in the middle of a call.
Moves(w, g) ==
  /\ Placed(g, w)
  /\ worker' = [worker EXCEPT ![w] = g]
  /\ UNCHANGED chains
  /\ \/ UNCHANGED upsets
     \/ Upset
  /\ lock' \in [Store -> Worker \cup {None}]
  /\ cache' \in [Store -> Entry \cup {None}]
  /\ \A s \in Store :
       s # Mine(w) \/ lock[s] \notin {None, w} => lock'[s] = lock[s] /\ cache'[s] = cache[s]
  /\ g.pc \in {"remove", "fill"} => lock'[g.store] = w
  /\ g.pc = "remove" => cache'[g.store] = None

\* A step brings nothing into reach that was not there.
LEMMA MoveReaches ==
  ASSUME IInv, NEW w \in Worker, NEW g, Moves(w, g)
  PROVE  /\ worker' \in [Worker -> Goroutine] /\ worker'[w] = g
         /\ \A u \in Worker \ {w} : worker'[u] = worker[u]
         /\ Used' \subseteq Used
         /\ Live' \subseteq Live \cup {None}
         /\ Current' = Current
<1>1. /\ worker' \in [Worker -> Goroutine] /\ worker'[w] = g
      /\ \A u \in Worker \ {w} : worker'[u] = worker[u]
  BY DEF IInv, TypeOK, Moves, Placed
<1>2. storeOf' = storeOf /\ chain' = chain
  BY DEF Moves, chains
<1>3. Used' \subseteq Used
  <2>1. ASSUME NEW u \in Worker, worker'[u].pc # "idle"
        PROVE  worker[u].pc # "idle" /\ worker'[u].chain = worker[u].chain
    BY <1>1, <2>1 DEF Moves, Placed, Busy, At
  <2>. QED
    BY <1>2, <2>1 DEF Used, Busy, At
<1>4. Live' \subseteq Live \cup {None}
  <2>1. ASSUME NEW u \in Worker PROVE worker'[u].store \in Live \cup {None}
    <3>1. CASE u # w
      BY <1>1, <3>1 DEF Live
    <3>2. CASE u = w /\ g.pc = "idle"
      BY <1>1, <3>2 DEF Moves, Placed
    <3>3. CASE u = w /\ g.pc # "idle"
      <4>1. worker[w].chain \in Used
        BY <3>3 DEF Moves, Placed, Used
      <4>. QED
        BY <1>1, <3>3, <4>1 DEF Moves, Placed, Live, Mine
    <3>. QED
      BY <3>1, <3>2, <3>3
  <2>. QED
    BY <1>2, <1>3, <2>1 DEF Live
<1>. QED
  BY <1>1, <1>2, <1>3, <1>4 DEF Current

LEMMA MoveKeeps ==
  ASSUME IInv, NEW w \in Worker, NEW g, Moves(w, g),
         file' \in Entry \cup {None, Torn}, known' \in Data \cup {None},
         until' \in Time, left' \in {"no", "alone", "amid"},
         FileIsKnown',
         left' = "alone" =>
           /\ file' \in Entry => ~file'.data.user
           /\ \A s \in Live' \ {None} : cache'[s] # None => ~cache'[s].data.user
           /\ \A u \in Worker : worker'[u].op # "login" => ~worker'[u].data.user
  PROVE  IInv'
<1>1. /\ worker' \in [Worker -> Goroutine] /\ worker'[w] = g
      /\ \A u \in Worker \ {w} : worker'[u] = worker[u]
  BY MoveReaches
<1>2. storeOf' = storeOf /\ chain' = chain
  BY DEF Moves, chains
<1>3. upsets' \in 0 .. MaxUpsets /\ upsets <= upsets'
  BY DEF IInv, TypeOK, Moves, Upset
<1>4. TypeOK'
  BY <1>1, <1>2, <1>3 DEF IInv, TypeOK, Moves
<1>5. chain \in Nat
  BY DEF IInv, TypeOK, Chain
<1>6. Chains'
  BY <1>2, <1>3, <1>5 DEF IInv, TypeOK, Chains
<1>7. ASSUME NEW u \in Worker PROVE Station(u)'
  <2>1. CASE u = w
    <3>1. worker[w].chain <= chain
      BY DEF IInv, Stations, Station
    <3>. QED
      BY <1>1, <1>2, <1>5, <2>1, <3>1
         DEF Moves, Placed, Station, At, Mine, Entries, Calling
  <2>2. CASE u # w
    <3>1. Station(u) /\ worker'[u] = worker[u]
      BY <1>1, <2>2 DEF IInv, Stations
    <3>2. ASSUME worker[u].pc \in {"remove", "fill"}
          PROVE  /\ lock'[worker[u].store] = lock[worker[u].store]
                 /\ cache'[worker[u].store] = cache[worker[u].store]
      <4>1. worker[u].store \in Store /\ lock[worker[u].store] = u
        BY <3>1, <3>2 DEF Station, Mine, Calling
      <4>. QED
        BY <2>2, <4>1 DEF Moves
    <3>. QED
      BY <1>2, <3>1, <3>2 DEF Station, At, Mine, Entries
  <2>. QED
    BY <2>1, <2>2
<1>8. Stations'
  BY <1>7 DEF Stations
<1>9. NobodyIn'
  BY DEF NobodyIn
<1>. QED
  BY <1>4, <1>6, <1>8, <1>9 DEF IInv

\* A step that touches neither a file nor what is known of it.
LEMMA QuietMove ==
  ASSUME IInv, NEW w \in Worker, NEW g, Moves(w, g), UNCHANGED <<file, cache, history>>,
         left = "alone" /\ g.op # "login" => ~g.data.user
  PROVE  IInv'
<1>1. FileIsKnown'
  BY MoveReaches DEF history, IInv, FileIsKnown
<1>2. ASSUME left' = "alone"
      PROVE  /\ file' \in Entry => ~file'.data.user
             /\ \A s \in Live' \ {None} : cache'[s] # None => ~cache'[s].data.user
             /\ \A u \in Worker : worker'[u].op # "login" => ~worker'[u].data.user
  <2>1. /\ file \in Entry => ~file.data.user
        /\ \A s \in Live \ {None} : cache[s] # None => ~cache[s].data.user
        /\ \A u \in Worker : worker[u].op # "login" => ~worker[u].data.user
    BY <1>2 DEF history, IInv, NobodyIn
  <2>2. \A u \in Worker : worker'[u].op # "login" => ~worker'[u].data.user
    BY <1>2, <2>1, MoveReaches DEF history
  <2>3. \A s \in Live' \ {None} : cache'[s] # None => ~cache'[s].data.user
    BY <2>1, MoveReaches
  <2>. QED
    BY <2>1, <2>2, <2>3
<1>. QED
  BY <1>1, <1>2, MoveKeeps DEF history, IInv, TypeOK

\* A goroutine that has a store, and calls it.
LEMMA Caller ==
  ASSUME IInv, NEW w \in Worker, worker[w].pc \in Calling
  PROVE  /\ Mine(w) \in Store /\ Mine(w) \in Live \ {None}
         /\ worker[w] \in Goroutine /\ Busy(w)
         /\ Entries(w) \in Entry \cup {None}
         /\ worker[w].store = Mine(w)
         /\ left = "alone" /\ Entries(w) # None => ~Entries(w).data.user
         /\ left = "alone" /\ file \in Entry => ~file.data.user
         /\ left = "alone" /\ worker[w].op # "login" => ~worker[w].data.user
<1>1. /\ Mine(w) \in Store /\ worker[w] \in Goroutine
      /\ cache \in [Store -> Entry \cup {None}]
  BY DEF IInv, TypeOK, Stations, Station
<1>2. Mine(w) \in Live \ {None}
  BY <1>1 DEF Live, Mine
<1>. QED
  BY <1>1, <1>2 DEF IInv, NobodyIn, Entries, Busy, At, Calling, Mine

\* A request with its data.
LEMMA LoadedIs ==
  ASSUME IInv, NEW w \in Worker, worker[w].pc \in {"load", "remove"}, NEW d \in Data,
         NEW g, g = Loaded(w, d)
  PROVE  /\ Placed(g, w) /\ g.pc \notin {"remove", "fill"}
         /\ g.data.user => d.user
<1>1. worker[w] \in Goroutine /\ worker[w].store = Mine(w) /\ Mine(w) \in Store /\ Busy(w)
  BY Caller DEF Calling
<1>2. CASE g = Idle
  BY <1>2, IdlePlaced, IdleIs
<1>3. CASE g = [worker[w] EXCEPT !.pc = "act", !.data = d]
  <2>1. /\ g \in Goroutine /\ g.pc = "act" /\ g.store = Mine(w) /\ g.chain = worker[w].chain
        /\ g.data = d
    BY <1>1, <1>3 DEF Goroutine, Label
  <2>. QED
    BY <1>1, <2>1 DEF Placed, Calling
<1>4. CASE g = [worker[w] EXCEPT !.pc = "save", !.next = "act", !.data = [d EXCEPT !.token = TRUE]]
  <2>1. PICK e : e = [d EXCEPT !.token = TRUE]
    OBVIOUS
  <2>2. e \in Data
    BY <2>1 DEF Data
  <2>3. e.user = d.user
    BY <2>1 DEF Data
  <2>4. /\ g \in Goroutine /\ g.pc = "save" /\ g.store = Mine(w) /\ g.chain = worker[w].chain
        /\ g.data = e
    BY <1>1, <1>4, <2>1, <2>2 DEF Goroutine, Label
  <2>. QED
    BY <1>1, <2>3, <2>4 DEF Placed, Calling
<1>. QED
  BY <1>2, <1>3, <1>4 DEF Loaded

LEMMA FindHolds ==
  ASSUME IInv, NEW w \in Worker, Find(w)
  PROVE  IInv'
<1>1. /\ worker[w].pc = "find" /\ UNCHANGED <<disks, chains, history, upsets>>
      /\ worker[w] \in Goroutine /\ Busy(w)
  BY DEF Find, At, IInv, TypeOK, Busy
<1>2. PICK s : s = storeOf[worker[w].chain]
  OBVIOUS
<1>3. s \in Store \cup {None}
  BY <1>1, <1>2 DEF IInv, TypeOK, Goroutine
<1>4. PICK g : g = IF s = None THEN [worker[w] EXCEPT !.pc = "create"]
                   ELSE [worker[w] EXCEPT !.pc = "load", !.store = s]
  OBVIOUS
<1>5. /\ g \in Goroutine /\ g.chain = worker[w].chain /\ g.op = worker[w].op
      /\ g.data = worker[w].data
      /\ \/ g.pc = "create" /\ g.store = worker[w].store
         \/ g.pc = "load" /\ g.store = s /\ s # None
  BY <1>1, <1>3, <1>4 DEF Goroutine, Label
<1>6. worker' = [worker EXCEPT ![w] = g]
  BY <1>2, <1>4 DEF Find, Then
<1>7. Placed(g, w)
  BY <1>1, <1>2, <1>3, <1>5 DEF Placed, Calling, Mine
<1>8. Moves(w, g)
  BY <1>1, <1>5, <1>6, <1>7 DEF Moves, disks, IInv, TypeOK
<1>9. left = "alone" /\ g.op # "login" => ~g.data.user
  BY <1>5 DEF IInv, NobodyIn
<1>. QED
  BY <1>1, <1>8, <1>9, QuietMove DEF disks

LEMMA ActHolds ==
  ASSUME IInv, NEW w \in Worker, Act(w)
  PROVE  IInv'
<1>1. /\ worker[w].pc = "act" /\ UNCHANGED <<disks, chains, history, upsets>>
  BY DEF Act, At
<1>2. /\ worker[w] \in Goroutine /\ worker[w].store = Mine(w) /\ Mine(w) \in Store /\ Busy(w)
      /\ left = "alone" /\ worker[w].op # "login" => ~worker[w].data.user
  BY <1>1, Caller DEF Calling
<1>3. ASSUME NEW g, worker' = [worker EXCEPT ![w] = g], Placed(g, w),
             g.pc \notin {"remove", "fill"}, left = "alone" /\ g.op # "login" => ~g.data.user
      PROVE  IInv'
  <2>1. Moves(w, g)
    BY <1>1, <1>3 DEF Moves, disks, IInv, TypeOK
  <2>. QED
    BY <1>1, <1>3, <2>1, QuietMove DEF disks
<1>4. CASE Return(w)
  BY <1>3, <1>4, IdlePlaced, IdleIs DEF Return, Then
<1>5. CASE /\ worker[w].op = "login"
           /\ Then(w, [worker[w] EXCEPT !.pc = "save", !.next = "idle", !.data.user = TRUE])
  <2>1. PICK g : g = [worker[w] EXCEPT !.pc = "save", !.next = "idle", !.data.user = TRUE]
    OBVIOUS
  <2>2. /\ g \in Goroutine /\ g.pc = "save" /\ g.store = Mine(w) /\ g.chain = worker[w].chain
        /\ g.op = "login"
    BY <1>2, <1>5, <2>1 DEF Goroutine, Label, Data
  <2>3. Placed(g, w)
    BY <1>2, <2>2 DEF Placed, Calling
  <2>. QED
    BY <1>3, <1>5, <2>1, <2>2, <2>3 DEF Then
<1>6. CASE Then(w, [worker[w] EXCEPT !.pc = "save", !.next = "idle"])
  <2>1. PICK g : g = [worker[w] EXCEPT !.pc = "save", !.next = "idle"]
    OBVIOUS
  <2>2. /\ g \in Goroutine /\ g.pc = "save" /\ g.store = Mine(w) /\ g.chain = worker[w].chain
        /\ g.op = worker[w].op /\ g.data = worker[w].data
    BY <1>2, <2>1 DEF Goroutine, Label
  <2>3. Placed(g, w)
    BY <1>2, <2>2 DEF Placed, Calling
  <2>. QED
    BY <1>2, <1>3, <1>6, <2>1, <2>2, <2>3 DEF Then
<1>7. CASE Then(w, [worker[w] EXCEPT !.pc = "delete"])
  <2>1. PICK g : g = [worker[w] EXCEPT !.pc = "delete"]
    OBVIOUS
  <2>2. /\ g \in Goroutine /\ g.pc = "delete" /\ g.store = Mine(w) /\ g.chain = worker[w].chain
        /\ g.op = worker[w].op /\ g.data = worker[w].data
    BY <1>2, <2>1 DEF Goroutine, Label
  <2>3. Placed(g, w)
    BY <1>2, <2>2 DEF Placed, Calling
  <2>. QED
    BY <1>2, <1>3, <1>7, <2>1, <2>2, <2>3 DEF Then
<1>. QED
  BY <1>4, <1>5, <1>6, <1>7 DEF Act

\* A step that changes the file, or the memory of its store.
LEMMA StoreMove ==
  ASSUME IInv, NEW w \in Worker, worker[w].pc \in Calling, NEW g, Moves(w, g),
         file' \in Entry \cup {None, Torn}, known' \in Data \cup {None},
         until' \in Time, left' \in {"no", "alone", "amid"},
         FileIsKnown',
         left' = "alone" =>
           /\ left = "alone"
           /\ file' \in Entry => ~file'.data.user
           /\ cache'[Mine(w)] # None => ~cache'[Mine(w)].data.user
           /\ g.op # "login" => ~g.data.user
  PROVE  IInv'
<1>1. ASSUME left' = "alone"
      PROVE  /\ file' \in Entry => ~file'.data.user
             /\ \A s \in Live' \ {None} : cache'[s] # None => ~cache'[s].data.user
             /\ \A u \in Worker : worker'[u].op # "login" => ~worker'[u].data.user
  <2>1. /\ \A s \in Live \ {None} : cache[s] # None => ~cache[s].data.user
        /\ \A u \in Worker : worker[u].op # "login" => ~worker[u].data.user
    BY <1>1 DEF IInv, NobodyIn
  <2>2. \A u \in Worker : worker'[u].op # "login" => ~worker'[u].data.user
    BY <1>1, <2>1, MoveReaches
  <2>3. ASSUME NEW s \in Live' \ {None}, cache'[s] # None PROVE ~cache'[s].data.user
    <3>1. s \in Live \ {None} /\ s \in Store
      <4>1. Live \subseteq Store \cup {None}
        BY DEF Live, Used, IInv, TypeOK, Goroutine
      <4>. QED
        BY <2>3, <4>1, MoveReaches
    <3>2. CASE s = Mine(w)
      BY <1>1, <2>3, <3>2
    <3>3. CASE s # Mine(w)
      BY <2>1, <2>3, <3>1, <3>3 DEF Moves
    <3>. QED
      BY <3>2, <3>3
  <2>. QED
    BY <1>1, <2>2, <2>3
<1>. QED
  BY <1>1, MoveKeeps

LEMMA LoadHolds ==
  ASSUME IInv, NEW w \in Worker, Load(w)
  PROVE  IInv'
<1>1. /\ worker[w].pc = "load" /\ lock[Mine(w)] = None /\ UNCHANGED <<chains, upsets>>
  BY DEF Load, Enters, At
<1>2. /\ worker[w].pc \in Calling
      /\ worker[w] \in Goroutine /\ worker[w].store = Mine(w) /\ Mine(w) \in Store /\ Busy(w)
      /\ Entries(w) \in Entry \cup {None}
      /\ left = "alone" /\ Entries(w) # None => ~Entries(w).data.user
      /\ left = "alone" /\ file \in Entry => ~file.data.user
  BY <1>1, Caller DEF Calling
<1>3. Empty \in Data /\ ~Empty.user
  <2>1. Empty \in Data
    BY DEF Empty, Data
  <2>2. ~Empty.user
    BY DEF Empty
  <2>. QED
    BY <2>1, <2>2
<1>4. Current' = Current
  BY <1>1 DEF Current, chains
<1>5. ASSUME NEW d \in Data, Then(w, Loaded(w, d)), UNCHANGED <<disks, history>>,
             left = "alone" => ~d.user
      PROVE  IInv'
  <2>1. PICK g : g = Loaded(w, d)
    OBVIOUS
  <2>2. Placed(g, w) /\ g.pc \notin {"remove", "fill"} /\ (g.data.user => d.user)
    BY <1>1, <2>1, LoadedIs
  <2>3. Moves(w, g)
    BY <1>1, <1>5, <2>1, <2>2 DEF Moves, Then, disks, IInv, TypeOK
  <2>. QED
    BY <1>5, <2>2, <2>3, QuietMove DEF disks
<1>6. CASE /\ Entries(w) # None /\ Fresh(Entries(w))
           /\ Then(w, Loaded(w, Entries(w).data))
           /\ UNCHANGED <<disks, history>>
  <2>1. Entries(w).data \in Data
    BY <1>2, <1>6 DEF Entry
  <2>. QED
    BY <1>2, <1>5, <1>6, <2>1
<1>7. CASE /\ Remember(w, None) /\ file' = None /\ Known(w, Empty)
           /\ Then(w, Loaded(w, Empty)) /\ UNCHANGED <<lock, until, left>>
  <2>1. PICK g : g = Loaded(w, Empty)
    OBVIOUS
  <2>2. Placed(g, w) /\ g.pc \notin {"remove", "fill"} /\ ~g.data.user
    BY <1>1, <1>3, <2>1, LoadedIs
  <2>3. /\ cache' \in [Store -> Entry \cup {None}] /\ cache'[Mine(w)] = None
        /\ \A s \in Store : s # Mine(w) => cache'[s] = cache[s]
    BY <1>2, <1>7 DEF Remember, IInv, TypeOK
  <2>4. Moves(w, g)
    BY <1>1, <1>7, <2>1, <2>2, <2>3 DEF Moves, Then, IInv, TypeOK
  <2>5. FileIsKnown'
    BY <1>4, <1>7, <2>3 DEF FileIsKnown, Known
  <2>. QED
    BY <1>2, <1>3, <1>7, <2>2, <2>3, <2>4, <2>5, StoreMove DEF Known, IInv, TypeOK
<1>8. CASE /\ Then(w, IF file = None THEN Loaded(w, Empty) ELSE Idle)
           /\ UNCHANGED <<disks, history>>
  <2>1. CASE file = None
    BY <1>3, <1>5, <1>8, <2>1
  <2>2. CASE file # None
    <3>1. Moves(w, Idle)
      BY <1>1, <1>8, <2>2, IdlePlaced, IdleIs DEF Moves, Then, disks, IInv, TypeOK
    <3>. QED
      BY <1>8, <3>1, IdleIs, QuietMove DEF disks
  <2>. QED
    BY <2>1, <2>2
<1>9. CASE /\ file \in Entry /\ Remember(w, file) /\ Then(w, Loaded(w, file.data))
           /\ UNCHANGED <<lock, file, history>>
  <2>1. PICK g : g = Loaded(w, file.data)
    OBVIOUS
  <2>2. file.data \in Data
    BY <1>9 DEF Entry
  <2>3. Placed(g, w) /\ g.pc \notin {"remove", "fill"} /\ (g.data.user => file.data.user)
    BY <1>1, <2>1, <2>2, LoadedIs
  <2>4. /\ cache' \in [Store -> Entry \cup {None}] /\ cache'[Mine(w)] = file
        /\ \A s \in Store : s # Mine(w) => cache'[s] = cache[s]
    BY <1>2, <1>9 DEF Remember, IInv, TypeOK
  <2>5. Moves(w, g)
    BY <1>1, <1>9, <2>1, <2>3, <2>4 DEF Moves, Then, IInv, TypeOK
  <2>6. FileIsKnown'
    <3>1. Current # None => Current \in Store
      BY DEF Current, IInv, TypeOK
    <3>. QED
      BY <1>4, <1>9, <2>4, <3>1 DEF FileIsKnown, IInv, history
  <2>. QED
    BY <1>2, <1>9, <2>3, <2>4, <2>5, <2>6, StoreMove DEF history, IInv, TypeOK
<1>10. CASE /\ Entries(w) = None /\ lock' = [lock EXCEPT ![Mine(w)] = w]
            /\ Then(w, [worker[w] EXCEPT !.pc = "remove"])
            /\ UNCHANGED <<cache, file, history>>
  <2>1. PICK g : g = [worker[w] EXCEPT !.pc = "remove"]
    OBVIOUS
  <2>2. /\ g \in Goroutine /\ g.pc = "remove" /\ g.store = Mine(w) /\ g.chain = worker[w].chain
        /\ g.op = worker[w].op /\ g.data = worker[w].data
    BY <1>2, <2>1 DEF Goroutine, Label
  <2>3. Placed(g, w)
    BY <1>2, <2>2 DEF Placed, Calling
  <2>4. /\ lock' \in [Store -> Worker \cup {None}] /\ lock'[Mine(w)] = w
        /\ \A s \in Store : s # Mine(w) => lock'[s] = lock[s]
    BY <1>2, <1>10 DEF IInv, TypeOK
  <2>5. Moves(w, g)
    BY <1>1, <1>2, <1>10, <2>1, <2>2, <2>3, <2>4 DEF Moves, Then, Entries, IInv, TypeOK
  <2>6. left = "alone" /\ g.op # "login" => ~g.data.user
    BY <1>2, <2>2, Caller
  <2>. QED
    BY <1>10, <2>5, <2>6, QuietMove
<1>. QED
  BY <1>6, <1>7, <1>8, <1>9, <1>10 DEF Load

LEMMA RemoveHolds ==
  ASSUME IInv, NEW w \in Worker, Remove(w)
  PROVE  IInv'
<1>1. /\ worker[w].pc = "remove" /\ UNCHANGED <<cache, chains, until, left, upsets>>
      /\ file' = None /\ Known(w, Empty) /\ lock' = [lock EXCEPT ![Mine(w)] = None]
  BY DEF Remove, At
<1>2. worker[w].pc \in Calling /\ Mine(w) \in Store
  BY <1>1, Caller DEF Calling
<1>3. lock[Mine(w)] = w /\ Entries(w) = None
  BY <1>1 DEF IInv, Stations, Station, At
<1>4. Empty \in Data /\ ~Empty.user
  <2>1. Empty \in Data
    BY DEF Empty, Data
  <2>2. ~Empty.user
    BY DEF Empty
  <2>. QED
    BY <2>1, <2>2
<1>5. PICK g : g = Loaded(w, Empty)
  OBVIOUS
<1>6. Placed(g, w) /\ g.pc \notin {"remove", "fill"} /\ ~g.data.user
  BY <1>1, <1>4, <1>5, LoadedIs
<1>7. /\ lock' \in [Store -> Worker \cup {None}]
      /\ \A s \in Store : s # Mine(w) => lock'[s] = lock[s]
  BY <1>1, <1>2 DEF IInv, TypeOK
<1>8. worker' = [worker EXCEPT ![w] = g]
  BY <1>5 DEF Remove, Then
<1>9. Moves(w, g)
  BY <1>1, <1>3, <1>6, <1>7, <1>8 DEF Moves, IInv, TypeOK
<1>10. FileIsKnown'
  <2>1. Current' = Current
    BY <1>1 DEF Current, chains
  <2>2. known' # None => Mine(w) = Current /\ known' = Empty
    BY <1>1 DEF Known
  <2>. QED
    BY <1>1, <1>3, <2>1, <2>2 DEF FileIsKnown, Entries
<1>. QED
  BY <1>1, <1>2, <1>3, <1>4, <1>6, <1>9, <1>10, StoreMove DEF Known, Entries, IInv, TypeOK

\* After a Save: on to the handler, or done.
LEMMA SavedIs ==
  ASSUME IInv, NEW w \in Worker, worker[w].pc \in Calling, NEW g, g = Saved(w)
  PROVE  /\ Placed(g, w) /\ g.pc \notin {"remove", "fill"}
         /\ g.data.user => g.op = worker[w].op /\ g.data = worker[w].data
<1>1. worker[w] \in Goroutine /\ worker[w].store = Mine(w) /\ Mine(w) \in Store /\ Busy(w)
  BY Caller
<1>2. CASE g = Idle
  BY <1>2, IdlePlaced, IdleIs
<1>3. CASE g = [worker[w] EXCEPT !.pc = "act", !.expires = Expired, !.next = "idle"]
  <2>1. Expired \in Time
    BY DEF Expired, Time
  <2>2. /\ g \in Goroutine /\ g.pc = "act" /\ g.store = Mine(w) /\ g.chain = worker[w].chain
        /\ g.data = worker[w].data /\ g.op = worker[w].op
    BY <1>1, <1>3, <2>1 DEF Goroutine, Label
  <2>. QED
    BY <1>1, <2>2 DEF Placed, Calling
<1>. QED
  BY <1>2, <1>3 DEF Saved

LEMMA SaveHolds ==
  ASSUME IInv, NEW w \in Worker, Save(w)
  PROVE  IInv'
<1>1. /\ worker[w].pc = "save" /\ lock[Mine(w)] = None /\ UNCHANGED <<cache, chains>>
  BY DEF Save, Enters, At
<1>2. /\ worker[w].pc \in Calling
      /\ worker[w] \in Goroutine /\ worker[w].store = Mine(w) /\ Mine(w) \in Store /\ Busy(w)
      /\ Entries(w) \in Entry \cup {None}
      /\ left = "alone" /\ Entries(w) # None => ~Entries(w).data.user
      /\ left = "alone" /\ worker[w].op # "login" => ~worker[w].data.user
  BY <1>1, Caller DEF Calling
<1>3. Current' = Current
  BY <1>1 DEF Current, chains
<1>4. MaxAge \in Nat /\ Half \in Nat /\ 2 * Half <= MaxAge /\ MaxAge <= 2 * Half + 1
  BY DEF Half
<1>5. ASSUME Spared(w), Skip(w) PROVE IInv'
  <2>1. PICK g : g = Saved(w)
    OBVIOUS
  <2>2. /\ Placed(g, w) /\ g.pc \notin {"remove", "fill"}
        /\ g.data.user => g.op = worker[w].op /\ g.data = worker[w].data
    BY <1>2, <2>1, SavedIs
  <2>3. Moves(w, g)
    BY <1>1, <1>5, <2>1, <2>2 DEF Moves, Skip, Then, IInv, TypeOK
  <2>4. Entries(w) \in Entry /\ 2 * Entries(w).expires > MaxAge
    BY <1>2, <1>5 DEF Spared, Unchanged
  <2>5. Entries(w).expires \in Time /\ Half + 1 <= Entries(w).expires /\ Half + 1 \in Time
    <3>1. Entries(w).expires \in Time
      BY <2>4 DEF Entry
    <3>. QED
      BY <1>4, <2>4, <3>1 DEF Time, Expired
  <2>6. until' \in Time
    BY <1>5, <2>5 DEF Skip, IInv, TypeOK
  <2>7. FileIsKnown'
    <3>1. CASE until' = until
      BY <1>1, <1>3, <1>5, <3>1 DEF Skip, IInv, FileIsKnown
    <3>2. CASE until' = Half + 1 /\ Mine(w) = Current
      <4>1. known # None => file = Entries(w)
        BY <1>2, <2>4, <3>2 DEF IInv, FileIsKnown, Entries
      <4>. QED
        BY <1>1, <1>3, <1>5, <2>5, <3>2, <4>1 DEF Skip, IInv, FileIsKnown
    <3>. QED
      BY <1>5, <3>1, <3>2 DEF Skip
  <2>8. left' = "alone" => left = "alone" /\ worker[w].op # "login"
    BY <1>5 DEF Skip, LoggedIn
  <2>9. left' \in {"no", "alone", "amid"}
    BY <1>5 DEF Skip, LoggedIn, IInv, TypeOK
  <2>10. UNCHANGED <<file, known>>
    BY <1>5 DEF Skip
  <2>. QED
    BY <1>1, <1>2, <2>2, <2>3, <2>6, <2>7, <2>8, <2>9, <2>10, StoreMove, Caller
       DEF Entries, IInv, TypeOK
<1>6. ASSUME /\ file' = Torn
             /\ lock' = [lock EXCEPT ![Mine(w)] = w]
             /\ known' = None /\ until' = Expired
             /\ Then(w, [worker[w] EXCEPT !.pc = "fill", !.expires = MaxAge])
             /\ UNCHANGED <<left, upsets>>
      PROVE  IInv'
  <2>1. PICK g : g = [worker[w] EXCEPT !.pc = "fill", !.expires = MaxAge]
    OBVIOUS
  <2>2. MaxAge \in Time /\ Expired \in Time
    BY DEF Time, Expired
  <2>3. /\ g \in Goroutine /\ g.pc = "fill" /\ g.store = Mine(w) /\ g.chain = worker[w].chain
        /\ g.op = worker[w].op /\ g.data = worker[w].data
    BY <1>2, <2>1, <2>2 DEF Goroutine, Label
  <2>4. Placed(g, w)
    BY <1>2, <2>3 DEF Placed, Calling
  <2>5. /\ lock' \in [Store -> Worker \cup {None}] /\ lock'[Mine(w)] = w
        /\ \A s \in Store : s # Mine(w) => lock'[s] = lock[s]
    BY <1>2, <1>6 DEF IInv, TypeOK
  <2>6. Moves(w, g)
    BY <1>1, <1>6, <2>1, <2>3, <2>4, <2>5 DEF Moves, Then, IInv, TypeOK
  <2>7. FileIsKnown'
    BY <1>6 DEF FileIsKnown
  <2>. QED
    BY <1>1, <1>2, <1>6, <2>2, <2>3, <2>6, <2>7, StoreMove DEF Entries, IInv, TypeOK
<1>7. ASSUME Upset, Return(w), UNCHANGED <<file, lock, history>>
      PROVE  IInv'
  <2>1. Moves(w, Idle)
    BY <1>1, <1>7, IdlePlaced, IdleIs DEF Moves, Return, Then, IInv, TypeOK
  <2>. QED
    BY <1>1, <1>7, <2>1, IdleIs, QuietMove
<1>. QED
  BY <1>5, <1>6, <1>7 DEF Save, Open

LEMMA FillHolds ==
  ASSUME IInv, NEW w \in Worker, Fill(w)
  PROVE  IInv'
<1>. DEFINE Outcomes(d) == CASE file = None -> {None}
                             [] file = Torn -> IF Live \subseteq {Mine(w), None} THEN {d} ELSE {d, Torn}
                             [] OTHER -> {d, Torn, file}
<1>1. /\ worker[w].pc = "fill" /\ lock' = [lock EXCEPT ![Mine(w)] = None] /\ UNCHANGED chains
  BY DEF Fill, At
<1>2. /\ worker[w].pc \in Calling
      /\ worker[w] \in Goroutine /\ worker[w].store = Mine(w) /\ Mine(w) \in Store /\ Busy(w)
      /\ left = "alone" /\ Entries(w) # None => ~Entries(w).data.user
      /\ left = "alone" /\ file \in Entry => ~file.data.user
      /\ left = "alone" /\ worker[w].op # "login" => ~worker[w].data.user
  BY <1>1, Caller DEF Calling
<1>3. lock[Mine(w)] = w
  BY <1>1 DEF IInv, Stations, Station
<1>4. Current' = Current
  BY <1>1 DEF Current, chains
<1>5. /\ lock' \in [Store -> Worker \cup {None}]
      /\ \A s \in Store : s # Mine(w) => lock'[s] = lock[s]
  BY <1>1, <1>2 DEF IInv, TypeOK
<1>6. PICK e : e = [data |-> worker[w].data, expires |-> worker[w].expires]
  OBVIOUS
<1>7. e \in Entry /\ e.data = worker[w].data /\ e.expires \in Time /\ e # None /\ e # Torn
  BY <1>2, <1>6 DEF Goroutine, Entry
<1>8. ASSUME /\ file' \in {file, e, Torn}
             /\ Remember(w, e)
             /\ Known(w, IF file' = e THEN e.data ELSE None)
             /\ until' = e.expires
             /\ Then(w, Saved(w))
             /\ LoggedIn(w)
             /\ UNCHANGED upsets
      PROVE  IInv'
  <2>1. PICK g : g = Saved(w)
    OBVIOUS
  <2>2. /\ Placed(g, w) /\ g.pc \notin {"remove", "fill"}
        /\ g.data.user => g.op = worker[w].op /\ g.data = worker[w].data
    BY <1>2, <2>1, SavedIs
  <2>3. /\ cache' \in [Store -> Entry \cup {None}] /\ cache'[Mine(w)] = e
        /\ \A s \in Store : s # Mine(w) => cache'[s] = cache[s]
    BY <1>2, <1>7, <1>8 DEF Remember, IInv, TypeOK
  <2>4. Moves(w, g)
    BY <1>1, <1>3, <1>5, <1>8, <2>1, <2>2, <2>3 DEF Moves, Then
  <2>5. known' # None => known' = e.data /\ file' = e /\ Mine(w) = Current
    BY <1>8 DEF Known
  <2>6. FileIsKnown'
    BY <1>4, <1>7, <1>8, <2>3, <2>5 DEF FileIsKnown, Time, Expired
  <2>7. file' \in Entry \cup {None, Torn} /\ known' \in Data \cup {None}
    <3>1. e.data \in Data
      BY <1>7 DEF Entry
    <3>2. file' \in Entry \cup {None, Torn}
      BY <1>7, <1>8 DEF IInv, TypeOK
    <3>. QED
      BY <2>5, <3>1, <3>2
  <2>8. left' = "alone" => left = "alone" /\ worker[w].op # "login"
    BY <1>8 DEF LoggedIn
  <2>9. left' \in {"no", "alone", "amid"}
    BY <1>8 DEF LoggedIn, IInv, TypeOK
  <2>10. left' = "alone" /\ file' \in Entry => ~file'.data.user
    <3>1. left' = "alone" => ~e.data.user
      BY <1>2, <1>7, <2>8
    <3>2. file' \in Entry => file' = e \/ file' = file
      BY <1>8
    <3>. QED
      BY <1>2, <2>8, <3>1, <3>2
  <2>. QED
    BY <1>2, <1>7, <1>8, <2>2, <2>3, <2>4, <2>6, <2>7, <2>8, <2>9, <2>10, StoreMove
<1>9. ASSUME Upset, known' = None, Return(w), UNCHANGED <<file, cache, until, left>>
      PROVE  IInv'
  <2>1. Moves(w, Idle)
    BY <1>1, <1>3, <1>5, <1>9, IdlePlaced, IdleIs DEF Moves, Return, Then, IInv, TypeOK
  <2>2. FileIsKnown'
    BY <1>9 DEF FileIsKnown
  <2>. QED
    BY <1>2, <1>9, <2>1, <2>2, IdleIs, StoreMove DEF Entries, IInv, TypeOK
<1>10. \/ /\ file' \in Outcomes(e)
          /\ Remember(w, e)
          /\ Known(w, IF file' = e THEN e.data ELSE None)
          /\ until' = e.expires
          /\ Then(w, Saved(w))
          /\ LoggedIn(w)
          /\ UNCHANGED upsets
       \/ Upset /\ known' = None /\ Return(w) /\ UNCHANGED <<file, cache, until, left>>
  BY <1>6, Zenon DEF Fill
<1>11. ASSUME file' \in Outcomes(e)
       PROVE  file' \in {file, e, Torn}
  <2>1. CASE file = None
    BY <1>11, <2>1, Zenon
  <2>2. CASE file = Torn
    BY <1>11, <2>2, Zenon
  <2>3. CASE file # None /\ file # Torn
    BY <1>11, <2>3, Zenon
  <2>. QED
    BY <2>1, <2>2, <2>3
<1>. QED
  BY <1>8, <1>9, <1>10, <1>11

LEMMA DeleteHolds ==
  ASSUME IInv, NEW w \in Worker, Delete(w)
  PROVE  IInv'
<1>1. /\ worker[w].pc = "delete" /\ lock[Mine(w)] = None /\ UNCHANGED <<lock, chains, until>>
      /\ Remember(w, None) /\ worker' = [worker EXCEPT ![w] = Idle]
  BY DEF Delete, Enters, At, Return, Then
<1>2. /\ worker[w].pc \in Calling /\ Mine(w) \in Store /\ Mine(w) # None
      /\ left = "alone" /\ file \in Entry => ~file.data.user
  BY <1>1, Caller DEF Calling
<1>3. /\ cache' \in [Store -> Entry \cup {None}] /\ cache'[Mine(w)] = None
      /\ \A s \in Store : s # Mine(w) => cache'[s] = cache[s]
  BY <1>1, <1>2 DEF Remember, IInv, TypeOK
<1>4. Moves(w, Idle)
  BY <1>1, <1>2, <1>3, IdlePlaced, IdleIs DEF Delete, Moves, IInv, TypeOK
<1>5. Current' = Current /\ Empty \in Data
  BY <1>1 DEF Current, chains, Empty, Data
<1>6. CASE /\ file' = None /\ Known(w, Empty)
           /\ left' = IF Alone(w) THEN "alone" ELSE "amid"
           /\ UNCHANGED upsets
  <2>1. FileIsKnown'
    BY <1>3, <1>5, <1>6 DEF FileIsKnown, Known
  <2>2. ASSUME left' = "alone"
        PROVE  /\ \A s \in Live' \ {None} : cache'[s] # None => ~cache'[s].data.user
               /\ \A u \in Worker : worker'[u].op # "login" => ~worker'[u].data.user
    <3>1. /\ Mine(w) = Current /\ \A u \in Worker \ {w} : worker[u].pc = "idle"
      BY <1>6, <2>2 DEF Alone, Busy, At
    <3>2. /\ worker'[w] = Idle /\ \A u \in Worker \ {w} : worker'[u] = worker[u]
          /\ storeOf' = storeOf /\ chain' = chain
      BY <1>1, <1>4, MoveReaches DEF chains
    <3>3. \A u \in Worker : /\ worker'[u].pc = "idle" /\ worker'[u].store = None
                            /\ ~worker'[u].data.user
      BY <3>1, <3>2, IdleIs DEF IInv, Stations, Station, At, Mine
    <3>4. Used' = {chain}
      BY <3>2, <3>3 DEF Used, Busy, At
    <3>5. Live' \subseteq {None, Mine(w)}
      BY <3>1, <3>2, <3>3, <3>4 DEF Live, Current
    <3>. QED
      BY <1>3, <3>3, <3>5
  <2>3. file' \in Entry \cup {None, Torn} /\ known' \in Data \cup {None}
        /\ until' \in Time /\ left' \in {"no", "alone", "amid"}
    BY <1>1, <1>5, <1>6 DEF Known, IInv, TypeOK
  <2>. QED
    BY <1>4, <1>6, <2>1, <2>2, <2>3, MoveKeeps
<1>7. CASE Upset /\ known' = None /\ UNCHANGED <<file, left>>
  <2>1. FileIsKnown'
    BY <1>7 DEF FileIsKnown
  <2>. QED
    BY <1>1, <1>2, <1>3, <1>4, <1>7, <2>1, IdleIs, StoreMove DEF IInv, TypeOK
<1>. QED
  BY <1>6, <1>7 DEF Delete

----------------------------------------------------------------------------
\* Requests that begin, stores that are made, and what goes on around the requests

LEMMA BeginHolds ==
  ASSUME IInv, NEW w \in Worker, Begin(w)
  PROVE  IInv'
<1>1. /\ worker[w].pc = "idle" /\ Collect /\ UNCHANGED <<file, lock, chain, history, upsets>>
  BY DEF Begin, At
<1>2. PICK op \in Does[w] : Then(w, [Idle EXCEPT !.pc = "find", !.op = op, !.chain = chain])
  BY DEF Begin
<1>3. PICK g : g = [Idle EXCEPT !.pc = "find", !.op = op, !.chain = chain]
  OBVIOUS
<1>4. /\ g \in Goroutine /\ g.pc = "find" /\ g.store = None /\ g.chain = chain
      /\ g.data = Idle.data
  BY <1>3, IdleIs DEF Goroutine, Label, Request, IInv, TypeOK
<1>5. /\ worker' \in [Worker -> Goroutine] /\ worker'[w] = g
      /\ \A u \in Worker \ {w} : worker'[u] = worker[u]
  BY <1>2, <1>3, <1>4 DEF Then, IInv, TypeOK
<1>6. chain \in Chain /\ chain \in Nat /\ chain' = chain
  BY <1>1 DEF IInv, TypeOK, Chain
<1>7. /\ storeOf' = [c \in Chain |-> IF c \in Used THEN storeOf[c] ELSE None]
      /\ cache' = [s \in Store |-> IF s \in Live THEN cache[s] ELSE None]
  BY <1>1 DEF Collect
<1>8. /\ storeOf' \in [Chain -> Store \cup {None}] /\ cache' \in [Store -> Entry \cup {None}]
      /\ \A c \in Chain : storeOf'[c] \in {storeOf[c], None}
      /\ \A s \in Store : cache'[s] \in {cache[s], None}
      /\ \A s \in Store : s \in Live => cache'[s] = cache[s]
  BY <1>7 DEF IInv, TypeOK
<1>9. Used' = Used
  <2>1. \A u \in Worker : worker'[u].pc # "idle" =>
          u = w \/ (worker[u].pc # "idle" /\ worker'[u].chain = worker[u].chain)
    BY <1>5
  <2>2. \A u \in Worker : worker[u].pc # "idle" =>
          worker'[u].pc # "idle" /\ worker'[u].chain = worker[u].chain
    BY <1>1, <1>5
  <2>. QED
    BY <1>4, <1>5, <1>6, <2>1, <2>2 DEF Used, Busy, At
<1>10. /\ Used \subseteq Chain /\ chain \in Used
  BY <1>6 DEF Used, IInv, TypeOK, Goroutine
<1>11. Live' \subseteq Live \cup {None} /\ Current' = Current
  <2>1. \A c \in Used : storeOf'[c] = storeOf[c]
    BY <1>7, <1>10
  <2>2. \A u \in Worker : worker'[u].store \in Live \cup {None}
    BY <1>4, <1>5 DEF Live
  <2>. QED
    BY <1>6, <1>9, <1>10, <2>1, <2>2 DEF Live, Current
<1>12. TypeOK'
  BY <1>1, <1>5, <1>8 DEF history, IInv, TypeOK
<1>13. ASSUME NEW u \in Worker PROVE Station(u)'
  <2>1. CASE u = w
    BY <1>1, <1>4, <1>5, <1>6, <2>1 DEF Station, At, Mine, Calling
  <2>2. CASE u # w
    <3>1. Station(u) /\ worker'[u] = worker[u]
      BY <1>5, <2>2 DEF IInv, Stations
    <3>2. worker[u].pc \in Calling => cache'[worker[u].store] \in {cache[worker[u].store], None}
      BY <1>8, <3>1 DEF Station, Mine
    <3>. QED
      BY <1>1, <1>6, <3>1, <3>2 DEF Station, At, Mine, Entries, Calling
  <2>. QED
    BY <2>1, <2>2
<1>14. Chains'
  BY <1>1, <1>6, <1>8 DEF IInv, Chains
<1>15. FileIsKnown'
  <2>1. Current # None => Current \in Store /\ Current \in Live
    BY <1>6, <1>10 DEF Current, Live, IInv, TypeOK
  <2>. QED
    BY <1>1, <1>8, <1>11, <2>1 DEF history, IInv, FileIsKnown
<1>16. NobodyIn'
  <2>1. Live \subseteq Store \cup {None}
    BY <1>10 DEF Live, IInv, TypeOK, Goroutine
  <2>. QED
    BY <1>1, <1>4, <1>5, <1>8, <1>11, <2>1, IdleIs DEF history, IInv, NobodyIn
<1>. QED
  BY <1>12, <1>13, <1>14, <1>15, <1>16 DEF IInv, Stations

LEMMA CreateHolds ==
  ASSUME IInv, NEW w \in Worker, Create(w)
  PROVE  IInv'
<1>1. /\ worker[w].pc = "create" /\ UNCHANGED <<file, lock, chain, history, upsets>>
  BY DEF Create, At
<1>2. PICK s \in Store \ Live :
        /\ storeOf' = [storeOf EXCEPT ![worker[w].chain] = s]
        /\ cache' = [cache EXCEPT ![s] = None]
        /\ Then(w, [worker[w] EXCEPT !.pc = "load", !.store = s])
  BY DEF Create
<1>3. PICK g : g = [worker[w] EXCEPT !.pc = "load", !.store = s]
  OBVIOUS
<1>4. worker[w] \in Goroutine /\ worker[w].chain \in Chain /\ s \in Store /\ s # None
  BY DEF IInv, TypeOK, Goroutine
<1>5. /\ g \in Goroutine /\ g.pc = "load" /\ g.store = s /\ g.chain = worker[w].chain
      /\ g.data = worker[w].data /\ g.op = worker[w].op
  BY <1>3, <1>4 DEF Goroutine, Label
<1>6. /\ worker' \in [Worker -> Goroutine] /\ worker'[w] = g
      /\ \A u \in Worker \ {w} : worker'[u] = worker[u]
  BY <1>2, <1>3, <1>5 DEF Then, IInv, TypeOK
<1>7. /\ storeOf' \in [Chain -> Store \cup {None}] /\ storeOf'[worker[w].chain] = s
      /\ \A c \in Chain : c # worker[w].chain => storeOf'[c] = storeOf[c]
  BY <1>2, <1>4 DEF IInv, TypeOK
<1>8. /\ cache' \in [Store -> Entry \cup {None}] /\ cache'[s] = None
      /\ \A x \in Store : x # s => cache'[x] = cache[x]
  BY <1>2, <1>4 DEF IInv, TypeOK
<1>9. worker[w].chain <= chain /\ chain' = chain /\ chain \in Chain /\ Chain \subseteq Nat
  BY <1>1 DEF IInv, TypeOK, Stations, Station, Chain
<1>10. TypeOK'
  BY <1>1, <1>6, <1>7, <1>8 DEF history, IInv, TypeOK
<1>11. ASSUME NEW u \in Worker PROVE Station(u)'
  <2>1. CASE u = w
    BY <1>4, <1>5, <1>6, <1>9, <2>1 DEF Station, At, Mine, Calling
  <2>2. CASE u # w
    <3>1. Station(u) /\ worker'[u] = worker[u]
      BY <1>6, <2>2 DEF IInv, Stations
    <3>2. worker[u].pc \in Calling => cache'[worker[u].store] \in {cache[worker[u].store], None}
      BY <1>8, <3>1 DEF Station, Mine
    <3>. QED
      BY <1>1, <1>9, <3>1, <3>2 DEF Station, At, Mine, Entries, Calling
  <2>. QED
    BY <2>1, <2>2
<1>12. Chains'
  BY <1>1, <1>4, <1>7, <1>9 DEF IInv, Chains
<1>13. Current' \in {Current, s} /\ Current \in Live /\ Current \in Store \cup {None}
  <2>1. Current \in Live
    BY DEF Current, Live, Used
  <2>2. Current' \in {Current, s}
    BY <1>7, <1>9 DEF Current
  <2>. QED
    BY <1>9, <2>1, <2>2 DEF Current, IInv, TypeOK
<1>14. FileIsKnown'
  BY <1>1, <1>8, <1>13 DEF history, IInv, FileIsKnown
<1>15. Used' = Used
  <2>1. \A u \in Worker : /\ worker'[u].pc # "idle" <=> worker[u].pc # "idle"
                          /\ worker'[u].chain = worker[u].chain
    BY <1>1, <1>5, <1>6
  <2>. QED
    BY <1>9, <2>1 DEF Used, Busy, At
<1>16. Live' \subseteq Live \cup {s} /\ Live \subseteq Store \cup {None}
  <2>1. Used \subseteq Chain
    BY <1>9 DEF Used, IInv, TypeOK, Goroutine
  <2>2. \A c \in Used : storeOf'[c] \in {storeOf[c], s}
    BY <1>7, <2>1
  <2>3. \A u \in Worker : worker'[u].store \in Live \cup {s}
    BY <1>5, <1>6 DEF Live
  <2>4. Live \subseteq Store \cup {None}
    BY <2>1 DEF Live, IInv, TypeOK, Goroutine
  <2>. QED
    BY <1>15, <2>2, <2>3, <2>4 DEF Live
<1>17. NobodyIn'
  BY <1>1, <1>5, <1>6, <1>8, <1>16 DEF history, IInv, NobodyIn
<1>. QED
  BY <1>10, <1>11, <1>12, <1>14, <1>17 DEF IInv, Stations

LEMMA EvictHolds ==
  ASSUME IInv, NEW s \in Store, Evict(s)
  PROVE  IInv'
<1>1. /\ UNCHANGED <<file, lock, chains, worker, history, upsets>>
      /\ cache' = [cache EXCEPT ![s] = None]
  BY DEF Evict, chains
<1>2. /\ cache' \in [Store -> Entry \cup {None}]
      /\ \A x \in Store : cache'[x] \in {cache[x], None}
  BY <1>1 DEF IInv, TypeOK
<1>3. Current' = Current /\ Live' = Live
  BY <1>1 DEF chains, Current, Live, Used, Busy, At
<1>4. TypeOK' /\ Chains'
  BY <1>1, <1>2 DEF chains, history, IInv, TypeOK, Chains
<1>5. ASSUME NEW u \in Worker PROVE Station(u)'
  BY <1>1, <1>2 DEF chains, IInv, Stations, Station, At, Mine, Entries, Calling
<1>6. Current \in Store \cup {None} /\ Live \subseteq Store \cup {None}
  BY DEF Current, Live, Used, IInv, TypeOK, Goroutine
<1>7. FileIsKnown'
  BY <1>1, <1>2, <1>3, <1>6 DEF history, IInv, FileIsKnown
<1>8. NobodyIn'
  BY <1>1, <1>2, <1>3, <1>6 DEF history, IInv, NobodyIn
<1>. QED
  BY <1>4, <1>5, <1>7, <1>8 DEF IInv, Stations

LEMMA AgedIs ==
  /\ \A t \in Time : Older(t) \in Time
  /\ \A t, u \in Time : t <= u => Older(t) <= Older(u)
  /\ \A e \in Entry : /\ Aged(e) \in Entry /\ Aged(e).data = e.data
                      /\ Aged(e).expires = Older(e.expires)
  /\ Aged(None) = None /\ Aged(Torn) = Torn
<1>1. /\ \A t \in Time : Older(t) \in Time
      /\ \A t, u \in Time : t <= u => Older(t) <= Older(u)
  BY DEF Time, Expired, Older
<1>2. ASSUME NEW e \in Entry
      PROVE  /\ Aged(e) \in Entry /\ Aged(e).data = e.data
             /\ Aged(e).expires = Older(e.expires)
  <2>1. Aged(e) = [e EXCEPT !.expires = Older(e.expires)]
    BY DEF Aged
  <2>. QED
    BY <1>1, <2>1 DEF Entry
<1>3. Aged(None) = None /\ Aged(Torn) = Torn
  BY DEF Aged
<1>. QED
  BY <1>1, <1>2, <1>3

LEMMA TickHolds ==
  ASSUME IInv, Tick
  PROVE  IInv'
<1>1. /\ file' = Aged(file) /\ until' = Older(until)
      /\ UNCHANGED <<lock, chains, known, left, upsets>>
  BY DEF Tick
<1>2. \A s \in Store : cache'[s] = Aged(cache[s])
  BY DEF Tick
<1>3. /\ file' \in Entry \cup {None, Torn}
      /\ file \in {None, Torn} => file' = file
      /\ file \in Entry => /\ file' \in Entry /\ file'.data = file.data
                           /\ file'.expires = Older(file.expires)
  BY <1>1, AgedIs DEF IInv, TypeOK
<1>4. /\ cache' \in [Store -> Entry \cup {None}]
      /\ \A s \in Store : /\ cache[s] = None <=> cache'[s] = None
                          /\ cache[s] # None => cache'[s].data = cache[s].data
  <2>1. ASSUME NEW s \in Store
        PROVE  /\ cache'[s] \in Entry \cup {None}
               /\ cache[s] = None <=> cache'[s] = None
               /\ cache[s] # None => cache'[s].data = cache[s].data
    <3>1. cache[s] \in Entry \cup {None}
      BY DEF IInv, TypeOK
    <3>. QED
      BY <1>2, <3>1, AgedIs
  <2>2. cache' = [s \in Store |-> Aged(cache[s])]
    BY DEF Tick
  <2>. QED
    BY <1>2, <2>1, <2>2
<1>5. ASSUME NEW w \in Worker
      PROVE  /\ worker'[w] \in Goroutine
             /\ worker'[w].pc = worker[w].pc /\ worker'[w].op = worker[w].op
             /\ worker'[w].chain = worker[w].chain /\ worker'[w].store = worker[w].store
             /\ worker'[w].data = worker[w].data
  <2>1. worker[w] \in Goroutine
    BY DEF IInv, TypeOK
  <2>2. CASE At(w, "fill")
    <3>1. worker'[w] = [worker[w] EXCEPT !.expires = Older(worker[w].expires)]
      BY <2>2 DEF Tick
    <3>2. worker[w].expires \in Time
      BY <2>1 DEF Goroutine
    <3>. QED
      BY <2>1, <3>1, <3>2, AgedIs DEF Goroutine
  <2>3. CASE ~At(w, "fill")
    BY <2>1, <2>3 DEF Tick
  <2>. QED
    BY <2>2, <2>3
<1>6. worker' \in [Worker -> Goroutine]
  <2>1. worker' = [w \in Worker |-> worker'[w]]
    BY DEF Tick
  <2>. QED
    BY <1>5, <2>1
<1>7. until \in Time /\ until' \in Time
  BY <1>1, AgedIs DEF IInv, TypeOK
<1>8. TypeOK' /\ Chains'
  BY <1>1, <1>3, <1>4, <1>6, <1>7 DEF chains, IInv, TypeOK, Chains
<1>9. ASSUME NEW u \in Worker PROVE Station(u)'
  <2>1. worker[u].pc \in Calling => worker[u].store \in Store
    BY DEF IInv, Stations, Station, Mine
  <2>. QED
    BY <1>1, <1>4, <1>5, <2>1
       DEF chains, IInv, Stations, Station, At, Mine, Entries, Calling
<1>10. Current' = Current /\ Live' = Live /\ Live \subseteq Store \cup {None}
  <2>1. Used' = Used
    BY <1>1, <1>5 DEF chains, Used, Busy, At
  <2>2. Used \subseteq Chain
    BY DEF Used, IInv, TypeOK, Goroutine
  <2>3. Live' = Live
    BY <1>1, <1>5, <2>1 DEF chains, Live
  <2>4. Live \subseteq Store \cup {None}
    BY <2>2 DEF Live, IInv, TypeOK, Goroutine
  <2>. QED
    BY <1>1, <2>3, <2>4 DEF chains, Current
<1>11. FileIsKnown'
  <2>1. SUFFICES ASSUME known # None
        PROVE  /\ Current # None => cache'[Current] \in {None, file'}
               /\ file' # Torn
               /\ file' = None => known = Empty
               /\ file' # None => file'.data = known /\ until' <= file'.expires
    BY <1>1, <1>10 DEF FileIsKnown
  <2>2. /\ Current # None => cache[Current] \in {None, file}
        /\ file # Torn
        /\ file = None => known = Empty
        /\ file # None => file.data = known /\ until <= file.expires
    BY <2>1 DEF IInv, FileIsKnown
  <2>3. Current # None => cache'[Current] \in {None, file'}
    <3>1. Current # None => Current \in Store
      BY DEF Current, IInv, TypeOK
    <3>. QED
      BY <1>1, <1>2, <2>2, <3>1, AgedIs
  <2>4. file \in Entry => Older(until) <= Older(file.expires)
    <3>1. file \in Entry => file.expires \in Time
      BY DEF Entry
    <3>. QED
      BY <1>7, <2>2, <3>1, AgedIs
  <2>. QED
    BY <1>1, <1>3, <2>2, <2>3, <2>4 DEF IInv, TypeOK
<1>12. NobodyIn'
  BY <1>1, <1>3, <1>4, <1>5, <1>10 DEF IInv, NobodyIn, TypeOK
<1>. QED
  BY <1>8, <1>9, <1>11, <1>12 DEF IInv, Stations

LEMMA ReloadHolds ==
  ASSUME IInv, Reload
  PROVE  IInv'
<1>1. /\ UNCHANGED <<file, cache, lock, storeOf, worker, history>>
      /\ upsets < MaxUpsets /\ upsets' = upsets + 1 /\ chain' = chain + 1
  BY DEF Reload, Upset, disks
<1>2. chain \in Nat /\ upsets \in Nat /\ chain <= upsets
  BY DEF IInv, TypeOK, Chain, Chains
<1>3. chain' \in Chain /\ upsets' \in 0 .. MaxUpsets
  BY <1>1, <1>2 DEF Chain
<1>4. TypeOK'
  BY <1>1, <1>3 DEF history, IInv, TypeOK
<1>5. Chains'
  BY <1>1, <1>2 DEF IInv, Chains, Chain
<1>6. ASSUME NEW u \in Worker PROVE Station(u)'
  <2>1. worker[u].chain \in Nat
    BY DEF IInv, TypeOK, Goroutine, Chain
  <2>. QED
    BY <1>1, <1>2, <2>1 DEF IInv, Stations, Station, At, Mine, Entries
<1>7. storeOf'[chain'] = None /\ Current' = None
  BY <1>1, <1>2, <1>3 DEF IInv, Chains, Current
<1>8. FileIsKnown'
  BY <1>1, <1>7 DEF history, IInv, FileIsKnown
<1>9. Live' \subseteq Live \cup {None}
  BY <1>1, <1>7 DEF Live, Used, Busy, At
<1>10. NobodyIn'
  BY <1>1, <1>9 DEF history, IInv, NobodyIn
<1>. QED
  BY <1>4, <1>5, <1>6, <1>8, <1>10 DEF IInv, Stations

LEMMA CrashHolds ==
  ASSUME IInv, Crash
  PROVE  IInv'
<1>1. /\ cache' = [s \in Store |-> None] /\ lock' = [s \in Store |-> None]
      /\ storeOf' = [c \in Chain |-> None] /\ chain' = 0 /\ worker' = [w \in Worker |-> Idle]
      /\ UNCHANGED <<file, history>> /\ upsets < MaxUpsets /\ upsets' = upsets + 1
  BY DEF Crash, Upset
<1>2. \A w \in Worker : worker'[w] = Idle
  BY <1>1
<1>3. upsets' \in 0 .. MaxUpsets /\ 0 \in Chain
  BY <1>1 DEF IInv, TypeOK, Chain
<1>4. TypeOK'
  BY <1>1, <1>3, IdleIs DEF history, IInv, TypeOK
<1>5. Chains'
  BY <1>1, <1>3 DEF Chains
<1>6. ASSUME NEW u \in Worker PROVE Station(u)'
  BY <1>1, <1>2, IdleIs DEF Station, At, Mine, Calling
<1>7. Current' = None
  BY <1>1, <1>3 DEF Current
<1>8. FileIsKnown'
  BY <1>1, <1>7 DEF history, IInv, FileIsKnown
<1>9. Live' \subseteq {None}
  <2>1. Used' = {0}
    BY <1>1, <1>2, IdleIs DEF Used, Busy, At
  <2>. QED
    BY <1>1, <1>2, <1>3, <2>1, IdleIs DEF Live
<1>10. NobodyIn'
  BY <1>1, <1>2, <1>9, IdleIs DEF history, IInv, NobodyIn
<1>. QED
  BY <1>4, <1>5, <1>6, <1>8, <1>10 DEF IInv, Stations

----------------------------------------------------------------------------
\* The theorems

LEMMA Start == Init => IInv
<1>. SUFFICES ASSUME Init PROVE IInv
  OBVIOUS
<1>1. /\ \A w \in Worker : worker[w] = Idle
      /\ \A c \in Chain : storeOf[c] = None
      /\ \A s \in Store : cache[s] = None
      /\ 0 \in Chain
  BY DEF Init, Chain
<1>2. TypeOK
  BY IdleIs DEF Init, TypeOK, Chain, Empty, Data, Expired, Time
<1>3. ASSUME NEW w \in Worker PROVE Station(w)
  BY <1>1, IdleIs DEF Init, Station, At, Mine, Calling
<1>4. Chains
  BY <1>1 DEF Init, Chains
<1>5. FileIsKnown
  BY <1>1 DEF Init, FileIsKnown, Current
<1>6. NobodyIn
  BY DEF Init, NobodyIn
<1>. QED
  BY <1>2, <1>3, <1>4, <1>5, <1>6 DEF IInv, Stations

LEMMA Inductive == Spec => []IInv
<1>1. IInv /\ [Next]_vars => IInv'
  <2>1. SUFFICES ASSUME IInv, [Next]_vars PROVE IInv'
    OBVIOUS
  <2>2. ASSUME NEW w \in Worker, Begin(w) PROVE IInv'
    BY <2>1, <2>2, BeginHolds
  <2>3. ASSUME NEW w \in Worker, Step(w) PROVE IInv'
    BY <2>1, <2>3, FindHolds, CreateHolds, LoadHolds, RemoveHolds, ActHolds, SaveHolds,
       FillHolds, DeleteHolds DEF Step
  <2>4. ASSUME NEW s \in Store, Evict(s) PROVE IInv'
    BY <2>1, <2>4, EvictHolds
  <2>5. ASSUME Tick \/ Reload \/ Crash PROVE IInv'
    BY <2>1, <2>5, TickHolds, ReloadHolds, CrashHolds
  <2>6. CASE UNCHANGED vars
    <3>1. Current' = Current /\ Live' = Live
      BY <2>6 DEF vars, chains, Current, Live, Used, Busy, At
    <3>2. FileIsKnown' /\ NobodyIn'
      BY <2>1, <2>6, <3>1 DEF vars, disks, chains, history, IInv, FileIsKnown, NobodyIn
    <3>3. Stations'
      BY <2>1, <2>6
         DEF vars, disks, chains, IInv, Stations, Station, At, Mine, Entries
    <3>. QED
      BY <2>1, <2>6, <3>2, <3>3 DEF vars, disks, chains, history, IInv, TypeOK, Chains
  <2>. QED
    BY <2>1, <2>2, <2>3, <2>4, <2>5, <2>6 DEF Next
<1>. QED
  BY Start, <1>1, PTL DEF Spec

\* What a load sees where somebody can tell what the session holds.
LEMMA KnownIsVisible ==
  ASSUME TypeOK, FileIsKnown
  PROVE  ReadBack
<1>. SUFFICES ASSUME known # None, known = Empty \/ until # Expired
     PROVE  Visible = known \/ (known = Empty /\ Visible = None)
  BY DEF ReadBack
<1>1. /\ Current # None => cache[Current] \in {None, file}
      /\ file # Torn
      /\ file = None => known = Empty
      /\ file # None => file.data = known /\ until <= file.expires
  BY DEF FileIsKnown
<1>2. file # None => file \in Entry
  BY <1>1 DEF TypeOK
<1>3. file # None => known = Empty \/ Fresh(file)
  <2>1. file # None => file.expires \in Time
    BY <1>2 DEF Entry
  <2>. QED
    BY <1>1, <2>1 DEF Fresh, Time, Expired, TypeOK
<1>4. Visible = IF file = None THEN None ELSE IF Fresh(file) THEN file.data ELSE Empty
  BY <1>1 DEF Visible
<1>. QED
  BY <1>1, <1>3, <1>4

\* Where nobody is logged in by the file or a reachable memory, nobody visibly is.
LEMMA NobodyVisible ==
  ASSUME TypeOK, NobodyIn
  PROVE  LogoutSticks
<1>. SUFFICES ASSUME left = "alone" PROVE ~SomebodyIn
  BY DEF LogoutSticks
<1>1. Current \in Live
  BY DEF Current, Live, Used
<1>2. /\ file \in Entry => ~file.data.user
      /\ Current # None /\ cache[Current] # None => ~cache[Current].data.user
  BY <1>1 DEF NobodyIn
<1>3. ~Empty.user
  BY DEF Empty
<1>4. None \notin Data /\ Torn \notin Data
  BY SessionEntryAssumption
<1>5. CASE Current # None /\ cache[Current] # None
  <2>1. Visible \in {cache[Current].data, Empty}
    BY <1>5 DEF Visible
  <2>. QED
    BY <1>2, <1>3, <1>5, <2>1 DEF SomebodyIn
<1>6. CASE ~(Current # None /\ cache[Current] # None)
  <2>1. Visible = IF file \in {None, Torn} THEN file
                  ELSE IF Fresh(file) THEN file.data ELSE Empty
    BY <1>6 DEF Visible
  <2>2. CASE file \in Entry
    BY <1>2, <1>3, <2>1, <2>2 DEF SomebodyIn
  <2>3. CASE file \in {None, Torn}
    <3>1. Visible = file
      BY <2>1, <2>3
    <3>. QED
      BY <1>4, <2>3, <3>1 DEF SomebodyIn
  <2>. QED
    BY <2>2, <2>3 DEF TypeOK
<1>. QED
  BY <1>5, <1>6

\* The file, the memories, the mutexes and the requests are of their kinds, whatever the
\* requests do and however often the application is reloaded or restarted.
THEOREM TypeCorrect == Spec => []TypeOK
<1>1. IInv => TypeOK
  BY DEF IInv
<1>. QED
  BY <1>1, Inductive, PTL

\* A request loads what was saved last, whether memory or the file answers, for any
\* number of requests and stores, across evictions, expiries, skipped rewrites, reloads,
\* restarts and failed writes.
THEOREM SavesLast == Spec => []ReadBack
<1>1. IInv => ReadBack
  BY KnownIsVisible DEF IInv
<1>. QED
  BY <1>1, Inductive, PTL

\* A logout that leaves no other request under way holds until somebody logs in, for any
\* number of requests and stores.
THEOREM LogoutsLast == Spec => []LogoutSticks
<1>1. IInv => LogoutSticks
  BY NobodyVisible DEF IInv
<1>. QED
  BY <1>1, Inductive, PTL

===============================================================================
