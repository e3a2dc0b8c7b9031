--------------------------- MODULE AppUpdate_proofs ---------------------------
(***************************************************************************)
(* Proofs about AppUpdate, for every set of versions, any number of        *)
(* goroutines, failures and crashes.                                       *)
(***************************************************************************)
EXTENDS AppUpdate, TLAPS

USE VersionAssumption, WorkerDoesAssumption, BoundsAssumption

----------------------------------------------------------------------------
\* Types

\* A start goes on to a swap only with a staged binary, and what it has swapped
\* in is there.
Staged ==
  /\ server \in {"clear", "demote", "promote"} => Has("latest")
  /\ server = "wipe" => Has("live")

\* The goroutines of a process end with it.
NoneWhileDown == server # "up" => worker = [w \in Worker |-> Idle]

Typed == TypeOK /\ Staged /\ NoneWhileDown

LEMMA IdleType == Idle \in Goroutine
  BY DEF Idle, Goroutine, Blank, State, MaybeVersion, Label, Operation

LEMMA LoadedType ==
  ASSUME TypeOK
  PROVE  Loaded \in State
  BY DEF TypeOK, Loaded, Blank, State, MaybeVersion

\* What a goroutine's step does to its record.
LEMMA GotoType ==
  ASSUME TypeOK, NEW w \in Worker, NEW l \in Label, Goto(w, l)
  PROVE  /\ worker' \in [Worker -> Goroutine]
         /\ worker'[w].pc = l
         /\ worker'[w].op = worker[w].op /\ worker'[w].then = worker[w].then
         /\ \A u \in Worker \ {w} : worker'[u] = worker[u]
<1>1. PICK g : g = [worker[w] EXCEPT !.pc = l]
  OBVIOUS
<1>2. worker' = [worker EXCEPT ![w] = g]
  BY <1>1 DEF Goto
<1>3. worker[w] \in Goroutine /\ worker \in [Worker -> Goroutine]
  BY DEF TypeOK
<1>4. g \in Goroutine /\ g.pc = l /\ g.op = worker[w].op /\ g.then = worker[w].then
  BY <1>1, <1>3 DEF Goroutine
<1>. QED
  BY <1>2, <1>3, <1>4

LEMMA ReturnType ==
  ASSUME TypeOK, NEW w \in Worker, Return(w)
  PROVE  /\ worker' \in [Worker -> Goroutine]
         /\ worker'[w] = Idle
         /\ \A u \in Worker \ {w} : worker'[u] = worker[u]
  BY IdleType DEF TypeOK, Return

LEMMA WriteType ==
  ASSUME TypeOK, NEW w \in Worker, NEW c \in State, NEW l \in {"idle", "reload", "schedule"},
         Write(w, c, l)
  PROVE  /\ worker' \in [Worker -> Goroutine]
         /\ worker'[w].pc = "truncate" /\ worker'[w].then = l
         /\ worker'[w].op = worker[w].op
         /\ \A u \in Worker \ {w} : worker'[u] = worker[u]
<1>1. PICK g : g = [worker[w] EXCEPT !.pc = "truncate", !.copy = c, !.then = l, !.got = NoVersion]
  OBVIOUS
<1>2. worker' = [worker EXCEPT ![w] = g]
  BY <1>1 DEF Write
<1>3. worker[w] \in Goroutine /\ worker \in [Worker -> Goroutine]
  BY DEF TypeOK
<1>4. g \in Goroutine /\ g.pc = "truncate" /\ g.then = l /\ g.op = worker[w].op
  BY <1>1, <1>3 DEF Goroutine, MaybeVersion, Label
<1>. QED
  BY <1>2, <1>3, <1>4

\* Begin names the operation and goes to its first step.
LEMMA BeginType ==
  ASSUME TypeOK, NEW w \in Worker, Begin(w)
  PROVE  /\ worker' \in [Worker -> Goroutine]
         /\ worker'[w].op \in Does[w]
         /\ worker'[w].pc \in {"find", "seek", "fetch"}
         /\ worker'[w].pc = "find" <=> worker'[w].op = "rollback"
         /\ worker'[w].pc = "seek" <=> worker'[w].op = "discard"
         /\ worker'[w].then = worker[w].then
         /\ worker'[w].op \in {"apply", "rollback"} => promise' = NoVersion
         /\ worker'[w].op \notin {"apply", "rollback"} => promise' = promise /\ clean' = clean
         /\ worker'[w].op = "apply" => clean' = FALSE
         /\ worker'[w].op = "rollback" /\ clean' => \A u \in Worker : ~Swapping(u)
         /\ clean' \in BOOLEAN
         /\ \A u \in Worker \ {w} : worker'[u] = worker[u]
<1>0. PICK b \in BOOLEAN : b = (\A u \in Worker : ~Swapping(u))
  BY Zenon
<1>1. PICK op \in Does[w] :
        /\ worker' = [worker EXCEPT ![w].op = op,
                        ![w].pc = CASE op = "rollback" -> "find"
                                    [] op = "discard" -> "seek"
                                    [] OTHER -> "fetch"]
        /\ promise' = IF op \in {"apply", "rollback"} THEN NoVersion ELSE promise
        /\ clean' = CASE op = "rollback" -> b
                      [] op = "apply" -> FALSE
                      [] OTHER -> clean
  BY <1>0, Zenon DEF Begin
<1>2. PICK l : l = CASE op = "rollback" -> "find" [] op = "discard" -> "seek" [] OTHER -> "fetch"
  OBVIOUS
<1>3. /\ l \in {"find", "seek", "fetch"}
      /\ l = "find" <=> op = "rollback"
      /\ l = "seek" <=> op = "discard"
  BY <1>2
<1>4. PICK g : g = [worker[w] EXCEPT !.op = op, !.pc = l]
  OBVIOUS
<1>5. worker' = [worker EXCEPT ![w] = g]
  BY <1>1, <1>2, <1>4
<1>6. worker[w] \in Goroutine /\ worker \in [Worker -> Goroutine] /\ op \in Operation
  BY DEF TypeOK
<1>7. g \in Goroutine /\ g.pc = l /\ g.op = op /\ g.then = worker[w].then
  BY <1>3, <1>4, <1>6 DEF Goroutine, Label
<1>8. worker'[w] = g /\ worker' \in [Worker -> Goroutine] /\ \A u \in Worker \ {w} : worker'[u] = worker[u]
  BY <1>5, <1>6, <1>7
<1>9. /\ op \notin {"apply", "rollback"} => clean' = clean
      /\ op = "apply" => clean' = FALSE
      /\ op = "rollback" => clean' = b
      /\ clean' \in BOOLEAN
  BY <1>1 DEF TypeOK
<1>10. op = "rollback" /\ clean' => \A u \in Worker : ~Swapping(u)
  BY <1>0, <1>9, Zenon
<1>. QED
  BY <1>1, <1>3, <1>7, <1>8, <1>9, <1>10

LEMMA FetchType ==
  ASSUME TypeOK, NEW w \in Worker, Fetch(w)
  PROVE  /\ worker' \in [Worker -> Goroutine]
         /\ worker'[w].pc = "load"
         /\ worker'[w].op = worker[w].op /\ worker'[w].then = worker[w].then
         /\ \A u \in Worker \ {w} : worker'[u] = worker[u]
<1>1. PICK v \in MaybeVersion : worker' = [worker EXCEPT ![w].pc = "load", ![w].got = v]
  BY DEF Fetch, TypeOK, MaybeVersion
<1>2. PICK g : g = [worker[w] EXCEPT !.pc = "load", !.got = v]
  OBVIOUS
<1>3. worker[w] \in Goroutine /\ worker \in [Worker -> Goroutine]
  BY DEF TypeOK
<1>4. g \in Goroutine /\ g.pc = "load" /\ g.op = worker[w].op /\ g.then = worker[w].then
  BY <1>2, <1>3 DEF Goroutine, Label
<1>. QED
  BY <1>1, <1>2, <1>3, <1>4

LEMMA LoadType ==
  ASSUME TypeOK, NEW w \in Worker, Load(w)
  PROVE  /\ worker' \in [Worker -> Goroutine]
         /\ worker'[w].pc = "truncate"
         /\ worker'[w].op = worker[w].op
         /\ worker'[w].then = "idle" \/ (worker'[w].then = "reload" /\ worker[w].op = "apply")
         /\ \A u \in Worker \ {w} : worker'[u] = worker[u]
<1>1. worker[w].got \in MaybeVersion
  BY DEF TypeOK, Goroutine
<1>2. PICK c : c = [Loaded EXCEPT !.latest = worker[w].got, !.available = worker[w].got > running]
  OBVIOUS
<1>3. c \in State
  <2>1. (worker[w].got > running) \in BOOLEAN
    OBVIOUS
  <2>2. PICK b \in BOOLEAN : b = (worker[w].got > running)
    BY <2>1, Zenon
  <2>3. c = [Loaded EXCEPT !.latest = worker[w].got, !.available = b]
    BY <1>2, <2>2, Zenon
  <2>. QED
    BY <1>1, <2>2, <2>3, LoadedType DEF State
<1>4. \/ Write(w, Loaded, "idle")
      \/ Write(w, c, IF worker[w].op = "apply" THEN "reload" ELSE "idle")
  BY <1>2 DEF Load
<1>. QED
  BY <1>3, <1>4, LoadedType, WriteType

\* After the write of the state file: done, or on to the rest.
LEMMA FillType ==
  ASSUME TypeOK, NEW w \in Worker, Fill(w)
  PROVE  /\ worker' \in [Worker -> Goroutine]
         /\ \/ worker'[w] = Idle
            \/ /\ worker'[w].pc = worker[w].then /\ worker[w].then # "idle"
               /\ worker'[w].op = worker[w].op /\ worker'[w].then = "idle"
         /\ \A u \in Worker \ {w} : worker'[u] = worker[u]
<1>1. CASE worker[w].then = "idle"
  BY <1>1, ReturnType DEF Fill
<1>2. CASE worker[w].then # "idle"
  <2>1. PICK g : g = [worker[w] EXCEPT !.pc = worker[w].then, !.copy = Blank, !.then = "idle"]
    OBVIOUS
  <2>2. worker' = [worker EXCEPT ![w] = g]
    BY <1>2, <2>1 DEF Fill
  <2>3. worker[w] \in Goroutine /\ worker \in [Worker -> Goroutine]
    BY DEF TypeOK
  <2>4. /\ g \in Goroutine /\ g.pc = worker[w].then /\ g.op = worker[w].op /\ g.then = "idle"
    BY <2>1, <2>3 DEF Goroutine, Label, Blank, State, MaybeVersion
  <2>. QED
    BY <1>2, <2>2, <2>3, <2>4
<1>. QED
  BY <1>1, <1>2

LEMMA StepTyped ==
  ASSUME Typed, NEW w \in Worker, Begin(w) \/ Step(w)
  PROVE  Typed'
<1> USE DEF Typed, Staged, NoneWhileDown
<1>0. /\ server = "up" /\ server' = "up"
      /\ UNCHANGED <<release, running, crashes>>
  BY DEF Begin, Step, Fetch, Load, Truncate, Fill, Reload, Download, Unstage, Stage, Schedule,
    Find, Unlink, Withdraw, Disown, SetAside, Revive, PutBack, Keep, Note, Discard, At, Elsewhere, Calm
<1>1. CASE Begin(w)
  BY <1>0, <1>1, BeginType DEF Begin, TypeOK, MaybeVersion
<1>2. CASE Fetch(w)
  BY <1>0, <1>2, FetchType DEF Fetch, TypeOK, Calm
<1>3. CASE Load(w)
  BY <1>0, <1>3, LoadType DEF Load, TypeOK, Calm
<1>4. CASE Truncate(w)
  <2>1. worker' \in [Worker -> Goroutine]
    BY <1>4, ReturnType, GotoType DEF Truncate, Label
  <2>. QED
    BY <1>0, <1>4, <2>1 DEF Truncate, TypeOK, Fault
<1>5. CASE Fill(w)
  <2>1. worker[w].copy \in State
    BY DEF TypeOK, Goroutine
  <2>. QED
    BY <1>0, <1>5, <2>1, FillType DEF Fill, TypeOK, Calm
<1>6. CASE Reload(w)
  BY <1>0, <1>6, ReturnType DEF Reload, TypeOK, Goroutine, Label, Calm
<1>7. CASE Download(w)
  <2>1. worker[w] \in Goroutine /\ worker[w].copy.latest \in MaybeVersion
    BY DEF TypeOK, Goroutine, State
  <2>2. worker' \in [Worker -> Goroutine]
    BY <1>7, <2>1, ReturnType DEF Download, TypeOK, Goroutine, Label
  <2>. QED
    BY <1>0, <1>7, <2>2 DEF Download, TypeOK, Calm
<1>8. CASE Unstage(w) \/ Find(w) \/ Unlink(w) \/ Withdraw(w) \/ Disown(w)
  <2>1. worker' \in [Worker -> Goroutine]
    BY <1>8, ReturnType, GotoType DEF Unstage, Find, Unlink, Withdraw, Disown, Label
  <2>2. file' \in [Name -> MaybeVersion] /\ faults' \in 0 .. MaxFaults
    BY <1>8 DEF Unstage, Find, Unlink, Withdraw, Disown, Removed, Remove, Fault, TypeOK, Calm, MaybeVersion, Name
  <2>3. clean' \in BOOLEAN
    BY <1>8 DEF Unstage, Find, Unlink, Withdraw, Disown, TypeOK, Calm
  <2>. QED
    BY <1>0, <1>8, <2>1, <2>2, <2>3 DEF Unstage, Find, Unlink, Withdraw, Disown, TypeOK, Calm
<1>9. CASE Stage(w)
  <2>1. worker[w].copy \in State /\ worker[w].got \in MaybeVersion
    BY DEF TypeOK, Goroutine
  <2>2. worker' \in [Worker -> Goroutine]
    BY <1>9, <2>1, ReturnType, WriteType DEF Stage
  <2>3. file' \in [Name -> MaybeVersion]
    BY <1>9, <2>1 DEF Stage, TypeOK, Name
  <2>. QED
    BY <1>0, <1>9, <2>2, <2>3 DEF Stage, TypeOK, Fault
<1>10. CASE Schedule(w)
  BY <1>0, <1>10, ReturnType DEF Schedule, TypeOK
<1>11. CASE SetAside(w) \/ Revive(w) \/ PutBack(w) \/ Keep(w)
  <2>1. worker' \in [Worker -> Goroutine]
    BY <1>11, ReturnType, GotoType DEF SetAside, Revive, PutBack, Keep, Label
  <2>2. file' \in [Name -> MaybeVersion]
    BY <1>11 DEF SetAside, Revive, PutBack, Keep, Rename, TypeOK, MaybeVersion, Name
  <2>3. faults' \in 0 .. MaxFaults
    BY <1>11 DEF SetAside, Revive, PutBack, Keep, TypeOK, Fault
  <2>. QED
    BY <1>0, <1>11, <2>1, <2>2, <2>3 DEF SetAside, Revive, PutBack, Keep, TypeOK
<1>12. CASE Note(w)
  BY <1>0, <1>12, LoadedType, WriteType DEF Note, TypeOK, Elsewhere, Name
<1>13. CASE Discard(w)
  <2>1. worker' \in [Worker -> Goroutine]
    BY <1>13, LoadedType, WriteType, ReturnType DEF Discard
  <2>2. file' \in [Name -> MaybeVersion]
    BY <1>13 DEF Discard, Remove, TypeOK, MaybeVersion, Name
  <2>. QED
    BY <1>0, <1>13, <2>1, <2>2 DEF Discard, TypeOK, Fault
<1>. QED
  BY <1>1, <1>2, <1>3, <1>4, <1>5, <1>6, <1>7, <1>8, <1>9, <1>10, <1>11, <1>12, <1>13 DEF Step

LEMMA ProcessTyped ==
  ASSUME Typed, Process \/ Crash \/ Publish
  PROVE  Typed'
<1> USE DEF Typed, Staged, NoneWhileDown
<1>1. CASE Boot
  BY <1>1 DEF Boot, TypeOK, Startup, Has, MaybeVersion, Name
<1>2. CASE Repair
  BY <1>2 DEF Repair, Starting, Rename, Fault, TypeOK, Startup, Has, MaybeVersion, Name
<1>3. CASE ClearPrevious
  BY <1>3 DEF ClearPrevious, Starting, Remove, Fault, TypeOK, Startup, Has, MaybeVersion, Name
<1>4. CASE Demote
  BY <1>4 DEF Demote, Starting, Rename, Fault, TypeOK, Startup, Has, MaybeVersion, Name
<1>5. CASE Promote
  BY <1>5 DEF Promote, Starting, Rename, Fault, TypeOK, Startup, Has, MaybeVersion, Name
<1>6. CASE Restore
  BY <1>6 DEF Restore, Starting, Rename, Fault, TypeOK, Startup, Has, MaybeVersion, Name
<1>7. Cleared \in State \cup {Torn}
  BY DEF Cleared, TypeOK, State
<1>8. CASE Reexec
  BY <1>7, <1>8 DEF Reexec, Starting, Forget, Fault, TypeOK, Startup, Has, MaybeVersion, Name
<1>9. CASE Serve
  BY <1>7, <1>9 DEF Serve, Starting, Forget, Fault, TypeOK
<1>10. CASE End /\ crashes' \in 0 .. MaxCrashes /\ state' \in {state, Torn}
  BY <1>10, IdleType DEF End, TypeOK
<1>11. CASE Publish
  BY <1>11 DEF Publish, TypeOK, Has
<1>. QED
  BY <1>1, <1>2, <1>3, <1>4, <1>5, <1>6, <1>8, <1>9, <1>10, <1>11 DEF Process, Exit, Crash, TypeOK

LEMMA AlwaysTyped == Spec => []Typed
<1>1. ASSUME Init PROVE Typed
  <2>1. file \in [Name -> MaybeVersion]
    <3>1. PICK p \in MaybeVersion, m \in MaybeVersion :
            file = [n \in Name |-> CASE n = "live" -> running [] n = "previous" -> p
                                     [] n = "mistaken" -> m [] OTHER -> NoVersion]
      BY <1>1 DEF Init
    <3>2. running \in MaybeVersion /\ NoVersion \in MaybeVersion
      BY <1>1 DEF Init, MaybeVersion
    <3>. QED
      BY <3>1, <3>2, Zenon
  <2>2. Blank \in State
    BY DEF Blank, State, MaybeVersion
  <2>3. worker \in [Worker -> Goroutine] /\ NoneWhileDown
    BY <1>1, IdleType DEF Init, NoneWhileDown
  <2>4. server = "down" /\ state = Blank /\ Staged
    BY <1>1 DEF Init, Staged
  <2>5. /\ release \in Version /\ running \in Version /\ promise \in MaybeVersion
        /\ exiting \in BOOLEAN /\ clean \in BOOLEAN
        /\ faults \in 0 .. MaxFaults /\ crashes \in 0 .. MaxCrashes
    <3>1. /\ release \in {v \in Version : v >= running} /\ running \in Version
          /\ promise = NoVersion /\ exiting = FALSE /\ clean = FALSE /\ faults = 0 /\ crashes = 0
      BY <1>1, Zenon DEF Init
    <3>2. release \in Version /\ running \in Version /\ promise \in MaybeVersion
      BY <3>1 DEF MaybeVersion
    <3>3. exiting \in BOOLEAN /\ clean \in BOOLEAN
      BY <3>1
    <3>4. faults \in 0 .. MaxFaults /\ crashes \in 0 .. MaxCrashes
      BY <3>1
    <3>. QED
      BY <3>2, <3>3, <3>4
  <2>. QED
    BY <2>1, <2>2, <2>3, <2>4, <2>5 DEF Typed, TypeOK
<1>2. Typed /\ [Next]_vars => Typed'
  <2>1. CASE UNCHANGED vars
    BY <2>1 DEF vars, Typed, TypeOK, Staged, NoneWhileDown, Has
  <2>. QED
    BY <2>1, StepTyped, ProcessTyped DEF Next
<1>. QED
  BY <1>1, <1>2, PTL DEF Spec


\* The variables keep their types, and a start is where its files allow it to be.
THEOREM TypeCorrect == Spec => []TypeOK
<1>1. Typed => TypeOK
  BY DEF Typed
<1>. QED
  BY <1>1, AlwaysTyped, PTL

----------------------------------------------------------------------------
\* Which steps an operation takes

\* Goroutine w returns, or goes to a label in L with its way back in N.
Moves(w, L, N) ==
  /\ \A u \in Worker \ {w} : worker'[u] = worker[u]
  /\ \/ worker'[w] = Idle
     \/ /\ worker'[w].op = worker[w].op
        /\ worker'[w].pc \in L /\ worker'[w].then \in N

LEMMA StepMoves ==
  ASSUME TypeOK, NEW w \in Worker, Step(w)
  PROVE  LET own == {worker[w].then} IN
         \/ Fetch(w) /\ Moves(w, {"load"}, own)
         \/ Load(w) /\ Moves(w, {"truncate"}, IF worker[w].op = "apply" THEN {"idle", "reload"} ELSE {"idle"})
         \/ Truncate(w) /\ Moves(w, {"fill"}, own)
         \/ Fill(w) /\ Moves(w, own \ {"idle"}, {"idle"})
         \/ Reload(w) /\ Moves(w, {"download"}, own)
         \/ Download(w) /\ Moves(w, {"unstage"}, own)
         \/ Unstage(w) /\ Moves(w, {"stage"}, own)
         \/ Stage(w) /\ Moves(w, {"truncate"}, {"schedule"})
         \/ Schedule(w) /\ Moves(w, {}, {})
         \/ Find(w) /\ Moves(w, {"unlink"}, own)
         \/ Unlink(w) /\ Moves(w, {"withdraw"}, own)
         \/ Withdraw(w) /\ Moves(w, {"disown"}, own)
         \/ Disown(w) /\ Moves(w, {"aside"}, own)
         \/ SetAside(w) /\ Moves(w, {"revive"}, own)
         \/ Revive(w) /\ Moves(w, {"keep", "putback"}, own)
         \/ PutBack(w) /\ Moves(w, {}, {})
         \/ Keep(w) /\ Moves(w, {"note"}, own)
         \/ Note(w) /\ Moves(w, {"truncate"}, {"schedule"})
         \/ Discard(w) /\ Moves(w, {"truncate"}, {"idle"})
<1>0. worker \in [Worker -> Goroutine] /\ worker[w] \in Goroutine
  BY DEF TypeOK
<1>1. ASSUME NEW l \in Label, Goto(w, l) PROVE Moves(w, {l}, {worker[w].then})
  BY <1>1, GotoType DEF Moves
<1>2. ASSUME Return(w), NEW L, NEW N PROVE Moves(w, L, N)
  BY <1>2, ReturnType DEF Moves
<1>3. CASE Fetch(w)
  BY <1>3, FetchType DEF Moves
<1>4. CASE Load(w)
  BY <1>4, LoadType DEF Moves
<1>5. CASE Truncate(w)
  BY <1>1, <1>2, <1>5 DEF Truncate, Label
<1>6. CASE Fill(w)
  BY <1>6, FillType DEF Moves
<1>7. CASE Reload(w)
  <2>1. ASSUME worker' = [worker EXCEPT ![w].pc = "download", ![w].copy = state]
        PROVE  Moves(w, {"download"}, {worker[w].then})
    <3>1. PICK g : g = [worker[w] EXCEPT !.pc = "download", !.copy = state]
      OBVIOUS
    <3>2. worker' = [worker EXCEPT ![w] = g] /\ g.pc = "download" /\ g.op = worker[w].op /\ g.then = worker[w].then
      BY <1>0, <2>1, <3>1 DEF Goroutine
    <3>. QED
      BY <1>0, <3>2 DEF Moves
  <2>. QED
    BY <1>2, <1>7, <2>1 DEF Reload
<1>8. CASE Download(w)
  <2>1. ASSUME worker' = [worker EXCEPT ![w].pc = "unstage", ![w].got = worker[w].copy.latest]
        PROVE  Moves(w, {"unstage"}, {worker[w].then})
    <3>1. PICK g : g = [worker[w] EXCEPT !.pc = "unstage", !.got = worker[w].copy.latest]
      OBVIOUS
    <3>2. worker' = [worker EXCEPT ![w] = g] /\ g.pc = "unstage" /\ g.op = worker[w].op /\ g.then = worker[w].then
      BY <1>0, <2>1, <3>1 DEF Goroutine
    <3>. QED
      BY <1>0, <3>2 DEF Moves
  <2>. QED
    BY <1>2, <1>8, <2>1 DEF Download
<1>9. CASE Unstage(w) \/ Find(w) \/ Unlink(w) \/ Withdraw(w) \/ Disown(w)
  <2>1. CASE Unstage(w)
    BY <1>1, <2>1 DEF Unstage, Label
  <2>2. CASE Find(w)
    BY <1>1, <1>2, <2>2 DEF Find, Label
  <2>3. CASE Unlink(w) \/ Withdraw(w) \/ Disown(w)
    BY <1>1, <2>3 DEF Unlink, Withdraw, Disown, Label
  <2>. QED
    BY <1>9, <2>1, <2>2, <2>3
<1>10. ASSUME NEW c \in State, NEW l \in {"idle", "reload", "schedule"}, Write(w, c, l)
       PROVE  Moves(w, {"truncate"}, {l})
  BY <1>10, WriteType DEF Moves
<1>11. CASE Stage(w)
  <2>1. worker[w].copy \in State
    BY <1>0 DEF Goroutine
  <2>. QED
    BY <1>2, <1>10, <1>11, <2>1 DEF Stage
<1>12. CASE Schedule(w) \/ PutBack(w)
  BY <1>2, <1>12 DEF Schedule, PutBack
<1>13. CASE SetAside(w) \/ Keep(w)
  BY <1>1, <1>2, <1>13 DEF SetAside, Keep, Label
<1>14. CASE Revive(w)
  <2>1. Goto(w, "keep") \/ Goto(w, "putback")
    BY <1>14 DEF Revive
  <2>. QED
    BY <1>1, <1>14, <2>1 DEF Label, Moves
<1>15. CASE Note(w) \/ Discard(w)
  BY <1>2, <1>10, <1>15, LoadedType DEF Note, Discard
<1>. QED
  BY <1>3, <1>4, <1>5, <1>6, <1>7, <1>8, <1>9, <1>11, <1>12, <1>13, <1>14, <1>15 DEF Step

\* A call's steps belong to its operation.
OwnSteps ==
  \A w \in Worker :
    LET g == worker[w] IN
    /\ g.pc = "idle" => g = Idle
    /\ g.op \in Does[w] \cup {"none"}
    /\ g.pc \in {"find", "unlink", "withdraw", "disown", "aside", "revive", "putback", "keep", "note"} => g.op = "rollback"
    /\ g.pc \in {"reload", "download", "unstage", "stage"} => g.op = "apply"
    /\ g.then = "reload" => g.op = "apply"

LEMMA StepOwn ==
  ASSUME TypeOK, OwnSteps, NEW w \in Worker, Begin(w) \/ Step(w)
  PROVE  OwnSteps'
<1>1. \A u \in Worker : u # w => worker'[u] = worker[u]
  BY BeginType, StepMoves DEF Moves
<1>2. /\ worker[w].pc = "idle" => worker[w].then = "idle"
      /\ worker[w].op \in Does[w] \cup {"none"}
      /\ worker[w].pc \in {"find", "unlink", "withdraw", "disown", "aside", "revive", "putback", "keep", "note"} => worker[w].op = "rollback"
      /\ worker[w].pc \in {"reload", "download", "unstage", "stage"} => worker[w].op = "apply"
      /\ worker[w].then = "reload" => worker[w].op = "apply"
      /\ worker[w].then \in {"idle", "reload", "schedule"}
  BY DEF OwnSteps, TypeOK, Goroutine, Idle
<1>3. SUFFICES LET g == worker'[w] IN
         /\ g.pc = "idle" => g = Idle
         /\ g.op \in Does[w] \cup {"none"}
         /\ g.pc \in {"find", "unlink", "withdraw", "disown", "aside", "revive", "putback", "keep", "note"} => g.op = "rollback"
         /\ g.pc \in {"reload", "download", "unstage", "stage"} => g.op = "apply"
         /\ g.then = "reload" => g.op = "apply"
  BY <1>1 DEF OwnSteps
<1>4. CASE worker'[w] = Idle
  BY <1>4 DEF Idle
<1>5. CASE Begin(w)
  BY <1>5, <1>2, BeginType DEF Begin, At
<1>6. CASE Step(w) /\ worker'[w] # Idle
  <2>1. worker'[w].op = worker[w].op
    BY <1>6, StepMoves DEF Moves
  <2>. QED
    BY <1>2, <1>6, <2>1, StepMoves DEF Moves, Reload, Download, Unstage, Find, Unlink, Withdraw, Disown, SetAside, Revive, Keep, At
<1>. QED
  BY <1>4, <1>5, <1>6

LEMMA ProcessOwn ==
  ASSUME OwnSteps, Process \/ Crash \/ Publish \/ UNCHANGED vars
  PROVE  OwnSteps'
<1>1. worker' = worker \/ worker' = [w \in Worker |-> Idle]
  BY DEF Process, Crash, Publish, Boot, Repair, ClearPrevious, Demote, Promote, Restore, Reexec,
    Serve, Exit, End, Starting, vars
<1>. QED
  BY <1>1 DEF OwnSteps, Idle

LEMMA AlwaysOwnSteps == Spec => []OwnSteps
<1>1. Init => OwnSteps
  BY DEF Init, OwnSteps, Idle
<1>2. Typed /\ OwnSteps /\ [Next]_vars => OwnSteps'
  BY StepOwn, ProcessOwn DEF Next, Typed
<1>. QED
  BY <1>1, <1>2, AlwaysTyped, PTL DEF Spec

----------------------------------------------------------------------------
\* The binary that runs stays on disk

\* At most one goroutine performs one of ops.
Sole(ops) ==
  \A u, w \in Worker : Does[u] \cap ops # {} /\ Does[w] \cap ops # {} => u = w

\* The running binary is under one of the names N.
Among(N) == \E n \in N : file[n] = running

\* Before and after a swap: where nothing that removes the temporary file would
\* find a binary to go on with, the temporary file may be the one.
Restful == Among({"live", "previous"}) \/ (file["tmp"] = running /\ ~Has("previous"))

\* Where it is as the steps of a rollback's swap are to be taken.
Swap == {"unlink", "withdraw", "disown", "aside", "revive", "putback", "keep"}
SwapKeeps ==
  \A w \in Worker :
    /\ worker[w].pc \in {"unlink", "withdraw", "disown", "aside"} => Has("previous") /\ Among({"live", "previous"})
    /\ worker[w].pc \in {"revive", "putback"} => Has("previous") /\ Among({"tmp", "previous"})
    /\ worker[w].pc = "putback" => faults > 0
    /\ worker[w].pc = "keep" => ~Has("previous") /\ Among({"tmp", "live"})

\* Where it is in each phase of the process.
PhaseKeeps ==
  /\ server = "down" => RunningKept
  /\ server \in {"repair", "clear", "demote", "skip"} => Among({"live"})
  /\ server \in {"promote", "wipe", "restore"} => Among({"previous"})
  /\ server = "up" /\ (\A w \in Worker : worker[w].pc \notin Swap) => Restful

\* A second failed operation may be the one that was to put the binary back.
KeptInv == faults <= 1 => SwapKeeps /\ PhaseKeeps

LEMMA AmongRunning ==
  ASSUME NEW N, Among(N), N \subseteq {"live", "previous", "tmp"}
  PROVE  RunningKept
  BY DEF Among, RunningKept

\* Only one goroutine is in a swap.
LEMMA SwapAlone ==
  ASSUME Sole({"rollback"}), OwnSteps, NEW w \in Worker, worker[w].op = "rollback"
  PROVE  \A u \in Worker \ {w} : worker[u].pc \notin Swap \cup {"find"}
<1>1. "rollback" \in Does[w]
  BY DEF OwnSteps
<1>2. ASSUME NEW u \in Worker \ {w}, worker[u].pc \in Swap \cup {"find"} PROVE FALSE
  <2>1. "rollback" \in Does[u]
    BY <1>2 DEF OwnSteps, Swap
  <2>. QED
    BY <1>1, <2>1 DEF Sole
<1>. QED
  BY <1>2

\* A step outside the swap that leaves the three files alone.
LEMMA QuietStep ==
  ASSUME Typed, KeptInv, NEW w \in Worker, server' = server, running' = running,
         \A u \in Worker \ {w} : worker'[u] = worker[u],
         worker[w].pc \notin Swap, worker'[w].pc \notin Swap,
         \A n \in {"live", "previous", "tmp"} : file'[n] = file[n],
         faults' \in {faults, faults + 1}, server = "up"
  PROVE  KeptInv'
<1>. SUFFICES ASSUME faults' <= 1 PROVE SwapKeeps' /\ PhaseKeeps'
  BY DEF KeptInv
<1>1. faults \in Nat
  BY DEF Typed, TypeOK
<1>2. SwapKeeps /\ PhaseKeeps /\ faults' >= faults
  BY <1>1 DEF KeptInv
<1>3. /\ \A N \in SUBSET {"live", "previous", "tmp"} : Among(N)' <=> Among(N)
      /\ Has("previous")' <=> Has("previous")
      /\ file'["tmp"] = file["tmp"]
  BY DEF Among, Has
<1>4. {"live", "previous"} \in SUBSET {"live", "previous", "tmp"}
      /\ {"tmp", "previous"} \in SUBSET {"live", "previous", "tmp"}
      /\ {"tmp", "live"} \in SUBSET {"live", "previous", "tmp"}
  OBVIOUS
<1>5. Among({"live", "previous"})' = Among({"live", "previous"})
      /\ Among({"tmp", "previous"})' = Among({"tmp", "previous"})
      /\ Among({"tmp", "live"})' = Among({"tmp", "live"})
  BY <1>3, <1>4 DEF Among
<1>6. SwapKeeps'
  <2>. SUFFICES ASSUME NEW u \in Worker
       PROVE /\ worker'[u].pc \in {"unlink", "withdraw", "disown", "aside"} => Has("previous")' /\ Among({"live", "previous"})'
             /\ worker'[u].pc \in {"revive", "putback"} => Has("previous")' /\ Among({"tmp", "previous"})'
             /\ worker'[u].pc = "putback" => faults' > 0
             /\ worker'[u].pc = "keep" => ~Has("previous")' /\ Among({"tmp", "live"})'
    BY DEF SwapKeeps
  <2>1. CASE u = w
    BY <2>1 DEF Swap
  <2>2. CASE u # w
    BY <1>1, <1>2, <1>3, <1>5, <2>2 DEF SwapKeeps
  <2>. QED
    BY <2>1, <2>2
<1>7. PhaseKeeps'
  <2>1. (\A u \in Worker : worker'[u].pc \notin Swap) => \A u \in Worker : worker[u].pc \notin Swap
    OBVIOUS
  <2>. QED
    BY <1>2, <1>3, <1>5, <2>1 DEF PhaseKeeps, Restful
<1>. QED
  BY <1>6, <1>7

\* A step of the swap, where nobody else is in one.
LEMMA SwapStep ==
  ASSUME NEW w \in Worker, server = "up", server' = "up", running' = running,
         \A u \in Worker \ {w} : worker'[u] = worker[u] /\ worker[u].pc \notin Swap,
         worker'[w].pc \in Swap \/ Restful',
         worker'[w].pc \in {"unlink", "withdraw", "disown", "aside"} => Has("previous")' /\ Among({"live", "previous"})',
         worker'[w].pc \in {"revive", "putback"} => Has("previous")' /\ Among({"tmp", "previous"})',
         worker'[w].pc = "putback" => faults' > 0,
         worker'[w].pc = "keep" => ~Has("previous")' /\ Among({"tmp", "live"})'
  PROVE  SwapKeeps' /\ PhaseKeeps'
<1>1. SwapKeeps'
  BY DEF SwapKeeps, Swap
<1>2. PhaseKeeps'
  BY DEF PhaseKeeps
<1>. QED
  BY <1>1, <1>2

LEMMA StepKept ==
  ASSUME Sole({"rollback"}), Typed, OwnSteps, KeptInv, NEW w \in Worker, Begin(w) \/ Step(w)
  PROVE  KeptInv'
<1>0. /\ server = "up" /\ server' = "up"
      /\ UNCHANGED <<release, running, crashes>>
  BY DEF Begin, Step, Fetch, Load, Truncate, Fill, Reload, Download, Unstage, Stage, Schedule,
    Find, Unlink, Withdraw, Disown, SetAside, Revive, PutBack, Keep, Note, Discard, At, Elsewhere, Calm
<1>1. /\ TypeOK /\ faults \in Nat /\ file \in [Name -> MaybeVersion]
      /\ running # NoVersion
  BY DEF Typed, TypeOK, NoVersion
<1>2. CASE Begin(w)
  <2>1. worker[w].pc \notin Swap /\ worker'[w].pc \notin Swap
    BY <1>1, <1>2, BeginType DEF Begin, At, Swap
  <2>2. UNCHANGED <<file, faults>> /\ \A u \in Worker \ {w} : worker'[u] = worker[u]
    BY <1>1, <1>2, BeginType DEF Begin
  <2>. QED
    BY <1>0, <2>1, <2>2, QuietStep
<1>3. CASE Step(w) /\ worker[w].pc \notin Swap \cup {"find"}
  <2>1. worker'[w].pc \notin Swap /\ \A u \in Worker \ {w} : worker'[u] = worker[u]
    <3>1. worker[w].then \in {"idle", "reload", "schedule"}
      BY <1>1 DEF TypeOK, Goroutine
    <3>. QED
      BY <1>1, <1>3, <3>1, StepMoves DEF Moves, Swap, Idle, Find, Unlink, Withdraw, Disown, SetAside, Revive, PutBack, Keep, At
  <2>2. \A n \in {"live", "previous", "tmp"} : file'[n] = file[n]
    BY <1>1, <1>3 DEF Step, Fetch, Load, Truncate, Fill, Reload, Download, Unstage, Stage, Schedule,
      Find, Unlink, Withdraw, Disown, SetAside, Revive, PutBack, Keep, Note, Discard, At, Removed, Remove, Name, Swap
  <2>3. faults' \in {faults, faults + 1}
    BY <1>3 DEF Step, Fetch, Load, Truncate, Fill, Reload, Download, Unstage, Stage, Schedule,
      Find, Unlink, Withdraw, Disown, SetAside, Revive, PutBack, Keep, Note, Discard, Calm, Fault, Removed
  <2>. QED
    BY <1>0, <1>3, <2>1, <2>2, <2>3, QuietStep DEF Swap
<1>4. CASE Step(w) /\ worker[w].pc \in Swap \cup {"find"}
  <2>1. worker[w].op = "rollback"
    BY <1>4 DEF OwnSteps, Swap
  <2>2. \A u \in Worker \ {w} : worker'[u] = worker[u] /\ worker[u].pc \notin Swap
    BY <1>1, <1>4, <2>1, SwapAlone, StepMoves DEF Moves
  <2>3. faults' \in {faults, faults + 1}
    BY <1>4 DEF Step, Fetch, Load, Truncate, Fill, Reload, Download, Unstage, Stage, Schedule,
      Find, Unlink, Withdraw, Disown, SetAside, Revive, PutBack, Keep, Note, Discard, Calm, Fault, Removed
  <2>4. SUFFICES ASSUME faults' <= 1 PROVE SwapKeeps' /\ PhaseKeeps'
    BY DEF KeptInv
  <2>5. SwapKeeps /\ PhaseKeeps
    BY <1>1, <2>3, <2>4 DEF KeptInv
  <2>6. CASE Find(w)
    <3>1. Restful
      BY <1>0, <2>2, <2>5, <2>6 DEF PhaseKeeps, Find, At, Swap
    <3>2. UNCHANGED file
      BY <2>6 DEF Find
    <3>3. (worker'[w].pc = "unlink" /\ Has("previous")) \/ worker'[w].pc = "idle"
      BY <1>1, <2>6, GotoType, ReturnType DEF Find, Label, Idle
    <3>. QED
      BY <1>0, <1>1, <2>2, <3>1, <3>2, <3>3, SwapStep DEF Restful, Among, Has, Swap
  <2>7. CASE Unlink(w) \/ Withdraw(w) \/ Disown(w)
    <3>1. Has("previous") /\ Among({"live", "previous"})
      BY <2>5, <2>7 DEF SwapKeeps, Unlink, Withdraw, Disown, At
    <3>2. worker'[w].pc \in {"withdraw", "disown", "aside"}
      BY <1>1, <2>7, GotoType DEF Unlink, Withdraw, Disown, Label
    <3>3. file'["live"] = file["live"] /\ file'["previous"] = file["previous"]
      BY <1>1, <2>7 DEF Unlink, Withdraw, Disown, Removed, Remove, Name
    <3>. QED
      BY <1>0, <2>2, <3>1, <3>2, <3>3, SwapStep DEF Among, Has, Swap
  <2>8. CASE SetAside(w)
    <3>1. Has("previous") /\ Among({"live", "previous"})
      BY <2>5, <2>8 DEF SwapKeeps, SetAside, At
    <3>2. CASE Rename("live", "tmp") /\ Goto(w, "revive")
      <4>1. worker'[w].pc = "revive"
        BY <1>1, <3>2, GotoType DEF Label
      <4>2. file'["tmp"] = file["live"] /\ file'["previous"] = file["previous"]
        BY <1>1, <3>2 DEF Rename, Name
      <4>. QED
        BY <1>0, <2>2, <3>1, <4>1, <4>2, SwapStep DEF Among, Has, Swap
    <3>3. CASE Return(w) /\ UNCHANGED file
      <4>1. worker'[w].pc = "idle"
        BY <1>1, <3>3, ReturnType DEF Idle
      <4>. QED
        BY <1>0, <2>2, <3>1, <3>3, <4>1, SwapStep DEF Restful, Among, Has, Swap
    <3>. QED
      BY <2>8, <3>2, <3>3 DEF SetAside
  <2>9. CASE Revive(w)
    <3>1. Has("previous") /\ Among({"tmp", "previous"})
      BY <2>5, <2>9 DEF SwapKeeps, Revive, At
    <3>2. CASE Rename("previous", "live") /\ Goto(w, "keep")
      <4>1. worker'[w].pc = "keep"
        BY <1>1, <3>2, GotoType DEF Label
      <4>2. file'["live"] = file["previous"] /\ file'["previous"] = NoVersion /\ file'["tmp"] = file["tmp"]
        BY <1>1, <3>2 DEF Rename, Name
      <4>. QED
        BY <1>0, <2>2, <3>1, <4>1, <4>2, SwapStep DEF Among, Has, Swap
    <3>3. CASE Fault /\ Goto(w, "putback") /\ UNCHANGED file
      <4>1. worker'[w].pc = "putback" /\ faults' > 0
        BY <1>1, <3>3, GotoType DEF Label, Fault
      <4>. QED
        BY <1>0, <2>2, <3>1, <3>3, <4>1, SwapStep DEF Among, Has, Swap
    <3>. QED
      BY <2>9, <3>1, <3>2, <3>3 DEF Revive
  <2>10. CASE PutBack(w)
    <3>1. Has("previous") /\ Among({"tmp", "previous"}) /\ faults > 0
      BY <2>5, <2>10 DEF SwapKeeps, PutBack, At
    <3>2. worker'[w].pc = "idle"
      BY <1>1, <2>10, ReturnType DEF PutBack, Idle
    <3>3. CASE Has("tmp") /\ Rename("tmp", "live")
      <4>1. file'["live"] = file["tmp"] /\ file'["previous"] = file["previous"]
        BY <1>1, <3>3 DEF Rename, Name
      <4>. QED
        BY <1>0, <2>2, <3>1, <3>2, <4>1, SwapStep DEF Restful, Among, Has, Swap
    <3>4. CASE ~Has("tmp") /\ UNCHANGED file
      BY <1>0, <1>1, <2>2, <3>1, <3>2, <3>4, SwapStep DEF Restful, Among, Has, Swap
    <3>5. CASE Fault
      BY <1>1, <2>4, <3>1, <3>5 DEF Fault
    <3>. QED
      BY <2>10, <3>3, <3>4, <3>5 DEF PutBack
  <2>11. CASE Keep(w)
    <3>1. ~Has("previous") /\ Among({"tmp", "live"})
      BY <2>5, <2>11 DEF SwapKeeps, Keep, At
    <3>2. worker'[w].pc = "note"
      BY <1>1, <2>11, GotoType DEF Keep, Label
    <3>3. CASE Rename("tmp", "previous")
      <4>1. file'["live"] = file["live"] /\ file'["previous"] = file["tmp"]
        BY <1>1, <3>3 DEF Rename, Name
      <4>. QED
        BY <1>0, <2>2, <3>1, <3>2, <4>1, SwapStep DEF Restful, Among, Has, Swap
    <3>4. CASE UNCHANGED file
      BY <1>0, <2>2, <3>1, <3>2, <3>4, SwapStep DEF Restful, Among, Has, Swap
    <3>. QED
      BY <2>11, <3>3, <3>4 DEF Keep
  <2>. QED
    BY <1>4, <2>6, <2>7, <2>8, <2>9, <2>10, <2>11
    DEF Step, Fetch, Load, Truncate, Fill, Reload, Download, Unstage, Stage, Schedule, Note,
      Discard, At, Swap
<1>. QED
  BY <1>2, <1>3, <1>4

LEMMA ProcessKept ==
  ASSUME Typed, KeptInv, Process \/ Crash \/ Publish
  PROVE  KeptInv'
<1>1. /\ TypeOK /\ faults \in Nat /\ file \in [Name -> MaybeVersion]
      /\ running # NoVersion
  BY DEF Typed, TypeOK, NoVersion
<1>2. faults' \in {faults, faults + 1}
  BY DEF Process, Crash, Publish, Boot, Repair, ClearPrevious, Demote, Promote, Restore, Reexec,
    Serve, Exit, End, Fault, Forget
<1>3. SUFFICES ASSUME faults' <= 1 PROVE SwapKeeps' /\ PhaseKeeps'
  BY DEF KeptInv
<1>4. SwapKeeps /\ PhaseKeeps
  BY <1>1, <1>2, <1>3 DEF KeptInv
<1>5. server # "up" => \A w \in Worker : worker[w].pc \notin Swap
  BY DEF Typed, NoneWhileDown, Idle, Swap
<1>6. server # "up" \/ Exit \/ Crash \/ Publish
  BY DEF Process, Boot, Repair, ClearPrevious, Demote, Promote, Restore, Reexec, Serve, Starting
<1>7. SwapKeeps'
  <2>1. CASE server # "up" /\ worker' = worker
    BY <1>5, <2>1 DEF SwapKeeps, Swap
  <2>2. CASE worker' = [w \in Worker |-> Idle]
    BY <2>2 DEF SwapKeeps, Idle
  <2>3. CASE Publish
    BY <1>4, <2>3 DEF Publish, SwapKeeps, Among, Has
  <2>. QED
    BY <1>6, <2>1, <2>2, <2>3 DEF Process, Boot, Repair, ClearPrevious, Demote, Promote, Restore,
      Reexec, Serve, Starting, Exit, Crash, End
<1>8. CASE Boot
  BY <1>7, <1>8 DEF Boot, PhaseKeeps, Among
<1>9. CASE Repair
  <2>1. file["live"] = running /\ file'["live"] = file["live"] /\ server' \in {"clear", "down", "skip"}
    BY <1>1, <1>4, <1>9 DEF Repair, Starting, Rename, Name, PhaseKeeps, Among
  <2>. QED
    BY <1>7, <1>9, <2>1 DEF Repair, PhaseKeeps, Among, RunningKept
<1>10. CASE ClearPrevious
  <2>1. file["live"] = running /\ file'["live"] = file["live"] /\ server' \in {"demote", "down"}
    BY <1>1, <1>4, <1>10 DEF ClearPrevious, Starting, Remove, Name, PhaseKeeps, Among
  <2>. QED
    BY <1>7, <1>10, <2>1 DEF ClearPrevious, PhaseKeeps, Among, RunningKept
<1>11. CASE Demote
  <2>1. file["live"] = running
    BY <1>4, <1>11 DEF Demote, Starting, PhaseKeeps, Among
  <2>2. (file'["previous"] = running /\ server' = "promote") \/ (file'["live"] = running /\ server' = "down")
    BY <1>1, <1>11, <2>1 DEF Demote, Rename, Name, Has
  <2>. QED
    BY <1>7, <1>11, <2>2 DEF Demote, PhaseKeeps, Among, RunningKept
<1>12. CASE Promote
  <2>1. file["previous"] = running /\ file'["previous"] = running /\ server' \in {"wipe", "restore"}
    BY <1>1, <1>4, <1>12 DEF Promote, Starting, Rename, Name, PhaseKeeps, Among
  <2>. QED
    BY <1>7, <1>12, <2>1 DEF Promote, PhaseKeeps, Among
<1>13. CASE Restore
  <2>1. file["previous"] = running
    BY <1>4, <1>13 DEF Restore, Starting, PhaseKeeps, Among
  <2>2. (file'["live"] = running \/ file'["previous"] = running) /\ server' = "down"
    BY <1>1, <1>13, <2>1 DEF Restore, Rename, Name
  <2>. QED
    BY <1>7, <1>13, <2>2 DEF Restore, PhaseKeeps, RunningKept
<1>14. CASE Reexec
  <2>1. file["previous"] = running
    BY <1>4, <1>14 DEF Reexec, Starting, PhaseKeeps, Among
  <2>2. \/ server' = "repair" /\ running' = file'["live"]
        \/ server' = "down" /\ running' = running /\ file'["previous"] = running
    BY <1>14, <2>1 DEF Reexec
  <2>. QED
    BY <1>7, <2>2 DEF PhaseKeeps, Among, RunningKept
<1>15. CASE Serve
  BY <1>4, <1>7, <1>15 DEF Serve, Starting, PhaseKeeps, Among, Restful
<1>16. CASE Exit \/ Crash
  <2>1. server' = "down" /\ file' = file /\ running' = running
    BY <1>16 DEF Exit, Crash, End
  <2>2. RunningKept
    <3>1. ASSUME NEW w \in Worker, worker[w].pc \in Swap
          PROVE  RunningKept
      BY <1>4, <3>1 DEF SwapKeeps, Swap, Among, RunningKept
    <3>2. CASE server = "up" /\ \A w \in Worker : worker[w].pc \notin Swap
      BY <1>4, <3>2 DEF PhaseKeeps, Restful, Among, RunningKept
    <3>3. CASE server # "up"
      BY <1>4, <3>3 DEF PhaseKeeps, Among, RunningKept, Typed, TypeOK, Startup
    <3>. QED
      BY <3>1, <3>2, <3>3
  <2>. QED
    BY <1>7, <2>1, <2>2 DEF PhaseKeeps, RunningKept
<1>17. CASE Publish
  BY <1>4, <1>7, <1>17 DEF Publish, PhaseKeeps, Among, Restful, RunningKept, Has
<1>. QED
  BY <1>8, <1>9, <1>10, <1>11, <1>12, <1>13, <1>14, <1>15, <1>16, <1>17 DEF Process

LEMMA KeptMeans ==
  ASSUME Typed, KeptInv, faults <= 1
  PROVE  RunningKept
<1>1. SwapKeeps /\ PhaseKeeps
  BY DEF KeptInv
<1>2. ASSUME NEW w \in Worker, worker[w].pc \in Swap
      PROVE  RunningKept
  BY <1>1, <1>2 DEF SwapKeeps, Swap, Among, RunningKept
<1>3. CASE server = "up" /\ \A w \in Worker : worker[w].pc \notin Swap
  BY <1>1, <1>3 DEF PhaseKeeps, Restful, Among, RunningKept
<1>4. CASE server # "up"
  BY <1>1, <1>4 DEF PhaseKeeps, Among, RunningKept, Typed, TypeOK, Startup
<1>. QED
  BY <1>2, <1>3, <1>4

\* The binary that runs is never lost, whatever crashes, updates and rollbacks come one
\* upon the other, where at most one goroutine rolls back and at most one operation on
\* files fails.  (Rollback begins by removing the temporary file, which holds the only copy
\* if the rename that was to put it back has failed after the one that was to
\* replace it.)
THEOREM BinaryKept == Sole({"rollback"}) => (Spec => [](faults <= 1 => RunningKept))
<1>. SUFFICES ASSUME Sole({"rollback"}) PROVE Spec => [](faults <= 1 => RunningKept)
  OBVIOUS
<1>1. Init => KeptInv
  <2>. SUFFICES ASSUME Init PROVE SwapKeeps /\ PhaseKeeps
    BY DEF KeptInv
  <2>1. server = "down" /\ worker = [w \in Worker |-> Idle] /\ file["live"] = running
    <3>1. PICK p, m \in MaybeVersion :
            file = [n \in Name |-> CASE n = "live" -> running [] n = "previous" -> p
                                     [] n = "mistaken" -> m [] OTHER -> NoVersion]
      BY DEF Init
    <3>2. file["live"] = running
      BY <3>1 DEF Name
    <3>. QED
      BY <3>2 DEF Init
  <2>. QED
    BY <2>1 DEF SwapKeeps, PhaseKeeps, RunningKept, Idle
<1>2. Typed /\ OwnSteps /\ KeptInv /\ [Next]_vars => KeptInv'
  <2>1. CASE UNCHANGED vars
    BY <2>1 DEF vars, KeptInv, SwapKeeps, PhaseKeeps, Among, Restful, RunningKept, Has
  <2>. QED
    BY <2>1, StepKept, ProcessKept DEF Next
<1>3. Typed /\ KeptInv => (faults <= 1 => RunningKept)
  BY KeptMeans
<1>. QED
  BY <1>1, <1>2, <1>3, AlwaysTyped, AlwaysOwnSteps, PTL DEF Spec

----------------------------------------------------------------------------
\* A rollback runs what it has restored

\* Nothing is staged, under either name.
Unstaged == ~Has("latest") /\ ~Has("mistaken")

\* The steps after the promise, which change no binary.
Announced == {"truncate", "fill", "schedule"}

\* A clean rollback is alone.
CleanInv ==
  clean => /\ \A w \in Worker : worker[w].op # "apply"
           /\ \A u, w \in Worker : worker[u].op = "rollback" /\ worker[w].op = "rollback" => u = w

\* From the removal of what was staged on, nobody stages; once the promise is
\* made, the live name keeps it until the next start.
SwapClears ==
  clean => \A w \in Worker :
    /\ worker[w].pc = "disown" => ~Has("latest")
    /\ worker[w].pc \in {"aside", "revive", "putback", "keep", "note"} => Unstaged
PromiseHolds ==
  promise # NoVersion /\ clean =>
    /\ file["live"] = promise
    /\ Unstaged
    /\ server \in {"down", "repair", "skip", "up"}
    /\ server \in {"repair", "skip"} => running = promise
    /\ \A w \in Worker : worker[w].op = "rollback" => worker[w].pc \in Announced
PromiseInv == CleanInv /\ SwapClears /\ PromiseHolds

\* Nobody else's operation starts, and a rollback that was not clean stays so.
LEMMA StepClean ==
  ASSUME TypeOK, CleanInv, NEW w \in Worker, Step(w)
  PROVE  /\ CleanInv' /\ (clean' => clean)
         /\ worker'[w].op \in {worker[w].op, "none"}
<1>1. worker'[w].op \in {worker[w].op, "none"}
  BY StepMoves DEF Moves, Idle
<1>2. \A u \in Worker \ {w} : worker'[u] = worker[u]
  BY StepMoves DEF Moves
<1>3. clean' => clean
  BY DEF Step, Fetch, Load, Truncate, Fill, Reload, Download, Unstage, Stage, Schedule,
    Find, Unlink, Withdraw, Disown, SetAside, Revive, PutBack, Keep, Note, Discard, Calm
<1>4. CleanInv'
  BY <1>1, <1>2, <1>3 DEF CleanInv
<1>. QED
  BY <1>1, <1>3, <1>4

LEMMA BeginPromise ==
  ASSUME Typed, OwnSteps, PromiseInv, NEW w \in Worker, Begin(w)
  PROVE  PromiseInv'
<1>0. At(w, "idle") /\ Elsewhere /\ UNCHANGED file
  BY Zenon DEF Begin
<1>1. /\ TypeOK /\ server = "up" /\ server' = "up" /\ running' = running /\ file' = file
      /\ worker'[w].pc \in {"find", "seek", "fetch"}
      /\ \A u \in Worker \ {w} : worker'[u] = worker[u]
      /\ worker[w].op = "none"
  <2>1. TypeOK /\ worker[w] = Idle
    BY <1>0 DEF Typed, At, OwnSteps
  <2>2. /\ worker'[w].pc \in {"find", "seek", "fetch"}
        /\ \A u \in Worker \ {w} : worker'[u] = worker[u]
    BY <2>1, BeginType
  <2>. QED
    BY <1>0, <2>1, <2>2 DEF At, Elsewhere, Idle
<1>2. CleanInv /\ SwapClears /\ PromiseHolds
  BY DEF PromiseInv
<1>3. CASE worker'[w].op = "apply"
  <2>1. clean' = FALSE
    BY <1>1, <1>3, BeginType
  <2>. QED
    BY <2>1 DEF PromiseInv, CleanInv, SwapClears, PromiseHolds
<1>4. CASE worker'[w].op = "rollback"
  <2>. SUFFICES ASSUME clean' PROVE CleanInv' /\ SwapClears' /\ PromiseHolds'
    BY DEF PromiseInv, CleanInv, SwapClears, PromiseHolds
  <2>1. (\A u \in Worker : ~Swapping(u)) /\ promise' = NoVersion
    BY <1>1, <1>4, BeginType
  <2>2. \A u \in Worker \ {w} : worker'[u].op \notin {"apply", "rollback"}
    BY <1>1, <2>1 DEF Swapping
  <2>3. CleanInv'
    BY <1>4, <2>2 DEF CleanInv
  <2>4. \A u \in Worker : worker'[u].pc \notin {"disown", "aside", "revive", "putback", "keep", "note"}
    BY <1>1, <2>1 DEF OwnSteps, Swapping
  <2>. QED
    BY <2>1, <2>3, <2>4 DEF SwapClears, PromiseHolds
<1>5. CASE worker'[w].op \notin {"apply", "rollback"}
  <2>1. promise' = promise /\ clean' = clean
    BY <1>1, <1>5, BeginType
  <2>2. CleanInv'
    BY <1>1, <1>2, <1>5, <2>1 DEF CleanInv
  <2>3. SwapClears'
    BY <1>1, <1>2, <2>1 DEF SwapClears, Unstaged, Has
  <2>4. PromiseHolds'
    BY <1>1, <1>2, <1>5, <2>1 DEF PromiseHolds, Unstaged, Has
  <2>. QED
    BY <2>2, <2>3, <2>4 DEF PromiseInv
<1>. QED
  BY <1>3, <1>4, <1>5

LEMMA StepPromise ==
  ASSUME Typed, OwnSteps, PromiseInv, NEW w \in Worker, Step(w)
  PROVE  PromiseInv'
<1>0. /\ server = "up" /\ server' = "up" /\ running' = running
  BY DEF Step, Fetch, Load, Truncate, Fill, Reload, Download, Unstage, Stage, Schedule,
    Find, Unlink, Withdraw, Disown, SetAside, Revive, PutBack, Keep, Note, Discard, At, Elsewhere, Calm
<1>1. /\ TypeOK /\ file \in [Name -> MaybeVersion] /\ promise \in MaybeVersion
      /\ \A u \in Worker \ {w} : worker'[u] = worker[u]
  BY StepMoves DEF Typed, TypeOK, Moves
<1>2. CleanInv /\ SwapClears /\ PromiseHolds
  BY DEF PromiseInv
<1>3. CleanInv' /\ (clean' => clean) /\ worker'[w].op \in {worker[w].op, "none"}
  BY <1>1, <1>2, StepClean
<1>4. CASE ~clean'
  BY <1>4 DEF PromiseInv, CleanInv, SwapClears, PromiseHolds
<1>5. SUFFICES ASSUME clean, clean' PROVE SwapClears' /\ PromiseHolds'
  BY <1>3, <1>4, Zenon DEF PromiseInv
<1>6. CASE Note(w)
  <2>1. worker[w].op = "rollback" /\ Unstaged
    BY <1>2, <1>5, <1>6 DEF OwnSteps, SwapClears, Note, At
  <2>2. /\ UNCHANGED file /\ promise' = file["live"]
        /\ worker'[w].pc = "truncate" /\ worker'[w].op = "rollback"
    BY <1>1, <1>6, <2>1, LoadedType, WriteType DEF Note
  <2>3. SwapClears'
    BY <1>1, <1>2, <1>5, <2>2 DEF SwapClears, Unstaged, Has
  <2>4. \A u \in Worker \ {w} : worker'[u].op # "rollback"
    BY <1>1, <1>2, <1>5, <2>1 DEF CleanInv
  <2>5. PromiseHolds'
    BY <1>0, <2>1, <2>2, <2>4 DEF PromiseHolds, Unstaged, Has, Announced
  <2>. QED
    BY <2>3, <2>5
<1>7. CASE Find(w) \/ Unlink(w) \/ Withdraw(w) \/ Disown(w)
  <2>1. worker[w].op = "rollback" /\ worker[w].pc \in {"find", "unlink", "withdraw", "disown"}
    BY <1>7 DEF OwnSteps, Find, Unlink, Withdraw, Disown, At
  <2>2. promise' = promise /\ promise = NoVersion
    BY <1>2, <1>5, <1>7, <2>1 DEF PromiseHolds, Find, Unlink, Withdraw, Disown, Calm, Announced
  <2>3. \A u \in Worker \ {w} : worker'[u].pc \notin {"disown", "aside", "revive", "putback", "keep", "note"}
    BY <1>1, <1>2, <1>5, <2>1 DEF CleanInv, OwnSteps
  <2>4. CASE Find(w) \/ Unlink(w)
    <3>1. worker'[w].pc \in {"unlink", "idle", "withdraw"}
      BY <1>1, <2>4, GotoType, ReturnType DEF Find, Unlink, Label, Idle
    <3>. QED
      BY <2>2, <2>3, <3>1 DEF SwapClears, PromiseHolds
  <2>5. CASE Withdraw(w)
    <3>1. worker'[w].pc = "disown" /\ file'["latest"] = NoVersion
      BY <1>1, <1>5, <2>5, GotoType DEF Withdraw, Label
    <3>. QED
      BY <2>2, <2>3, <3>1 DEF SwapClears, PromiseHolds, Has
  <2>6. CASE Disown(w)
    <3>1. worker'[w].pc = "aside" /\ file'["mistaken"] = NoVersion
      BY <1>1, <1>5, <2>6, GotoType DEF Disown, Label
    <3>2. file'["latest"] = NoVersion
      BY <1>1, <1>2, <1>5, <2>6 DEF SwapClears, Has, Disown, Removed, Remove, Name, At
    <3>. QED
      BY <2>2, <2>3, <3>1, <3>2 DEF SwapClears, PromiseHolds, Has, Unstaged
  <2>. QED
    BY <1>7, <2>4, <2>5, <2>6
<1>8. CASE SetAside(w) \/ Revive(w) \/ PutBack(w) \/ Keep(w)
  <2>1. worker[w].op = "rollback" /\ worker[w].pc \in {"aside", "revive", "putback", "keep"}
    BY <1>8 DEF OwnSteps, SetAside, Revive, PutBack, Keep, At
  <2>2. promise' = promise /\ promise = NoVersion
    BY <1>2, <1>5, <1>8, <2>1 DEF PromiseHolds, SetAside, Revive, PutBack, Keep, Announced
  <2>3. Unstaged /\ file'["latest"] = file["latest"] /\ file'["mistaken"] = file["mistaken"]
    BY <1>1, <1>2, <1>5, <1>8, <2>1 DEF SwapClears, SetAside, Revive, PutBack, Keep, Rename, Name
  <2>. QED
    BY <2>2, <2>3 DEF SwapClears, PromiseHolds, Unstaged, Has
<1>9. CASE Reload(w) \/ Download(w) \/ Unstage(w) \/ Stage(w)
  <2>1. worker[w].op = "apply"
    BY <1>9 DEF OwnSteps, Stage, Reload, Download, Unstage, At
  <2>. QED
    BY <1>2, <1>5, <2>1 DEF CleanInv
<1>10. CASE Fetch(w) \/ Load(w) \/ Truncate(w) \/ Fill(w) \/ Schedule(w) \/ Discard(w)
  <2>1. promise' = promise
    BY <1>10 DEF Fetch, Load, Truncate, Fill, Schedule, Discard, Calm
  <2>2. /\ file'["live"] = file["live"]
        /\ file'["latest"] \in {file["latest"], NoVersion}
        /\ file'["mistaken"] \in {file["mistaken"], NoVersion}
    BY <1>1, <1>10 DEF Fetch, Load, Truncate, Fill, Schedule, Discard, Calm, Remove, Name
  <2>3. worker[w].then \in {"idle", "reload", "schedule"}
    BY <1>1 DEF TypeOK, Goroutine
  <2>4. worker[w].pc \in {"fetch", "load", "truncate", "fill", "schedule", "seek"}
    BY <1>10 DEF Fetch, Load, Truncate, Fill, Schedule, Discard, At
  <2>5. worker[w].op # "apply"
    BY <1>2, <1>5 DEF CleanInv
  <2>6. \/ worker'[w] = Idle
        \/ /\ worker'[w].op = worker[w].op
           /\ worker'[w].pc \in {"load", "truncate", "fill", "schedule"}
           /\ worker'[w].pc = "load" => worker[w].pc \notin Announced
    BY <1>1, <1>10, <2>3, <2>5, StepMoves
    DEF Moves, OwnSteps, Announced, Step, Stage, Reload, Download, Unstage, At,
      Fetch, Load, Truncate, Fill, Schedule, Find, Unlink, Withdraw, Disown, SetAside, Revive,
      PutBack, Keep, Note, Discard
  <2>7. SwapClears'
    BY <1>1, <1>2, <1>5, <2>2, <2>6 DEF SwapClears, Unstaged, Has, Idle
  <2>8. PromiseHolds'
    BY <1>0, <1>1, <1>2, <1>5, <2>1, <2>2, <2>4, <2>6 DEF PromiseHolds, Unstaged, Has, Idle, Announced
  <2>. QED
    BY <2>7, <2>8
<1>. QED
  BY <1>6, <1>7, <1>8, <1>9, <1>10 DEF Step

LEMMA ProcessPromise ==
  ASSUME Typed, PromiseInv, Process \/ Crash \/ Publish \/ UNCHANGED vars
  PROVE  PromiseInv'
<1>1. /\ TypeOK /\ file \in [Name -> MaybeVersion] /\ promise' = promise /\ clean' = clean
      /\ CleanInv /\ SwapClears /\ PromiseHolds
  BY DEF Typed, TypeOK, PromiseInv, Process, Crash, Publish, Boot, Repair, ClearPrevious, Demote,
    Promote, Restore, Reexec, Serve, Exit, End, Starting, vars
<1>2. CASE worker' = [w \in Worker |-> Idle] /\ file' = file /\ server' = "down"
  BY <1>1, <1>2 DEF PromiseInv, CleanInv, SwapClears, PromiseHolds, Idle, Unstaged, Has
<1>3. CASE worker' = worker /\ file' = file /\ server' = server /\ running' = running
  BY <1>1, <1>3 DEF PromiseInv, CleanInv, SwapClears, PromiseHolds, Unstaged, Has
<1>4. CASE server # "up" /\ worker' = worker
  <2>1. worker' = [w \in Worker |-> Idle]
    BY <1>4 DEF Typed, NoneWhileDown
  <2>2. CleanInv' /\ SwapClears'
    BY <2>1 DEF CleanInv, SwapClears, Idle
  <2>3. ASSUME promise # NoVersion /\ clean, Boot \/ Repair \/ Serve
        PROVE  PromiseHolds'
    BY <1>1, <2>1, <2>3 DEF PromiseHolds, Boot, Repair, Serve, Starting, Idle, Unstaged, Has
  <2>4. ASSUME promise # NoVersion /\ clean
        PROVE  ~(ClearPrevious \/ Demote \/ Promote \/ Restore \/ Reexec)
    BY <1>1, <2>4 DEF PromiseHolds, ClearPrevious, Demote, Promote, Restore, Reexec, Starting
  <2>5. CASE ~(promise # NoVersion /\ clean)
    BY <1>1, <2>2, <2>5 DEF PromiseInv, PromiseHolds
  <2>6. CASE Boot \/ Repair \/ Serve \/ ClearPrevious \/ Demote \/ Promote \/ Restore \/ Reexec
    BY <2>2, <2>3, <2>4, <2>5, <2>6 DEF PromiseInv
  <2>. QED
    BY <1>2, <1>3, <2>6 DEF Process, Exit, Crash, End, Publish, vars
<1>. QED
  BY <1>2, <1>3, <1>4 DEF Process, Exit, Crash, End, Publish, vars, Boot, Repair, Serve,
    ClearPrevious, Demote, Promote, Restore, Reexec, Starting

\* What the next process runs after a Rollback is what Rollback restored, whichever other
\* operations fail and wherever the process ends, if the two removals of what was staged
\* succeeded and no apply or other rollback was under way or was begun meanwhile.  (An
\* Apply stages its binary after the removal, and what could not be removed
\* is swapped in by the next start.)
THEOREM RollbackKept == Spec => RollbackRuns
<1>1. Init => PromiseInv
  BY DEF Init, PromiseInv, CleanInv, SwapClears, PromiseHolds
<1>2. Typed /\ OwnSteps /\ PromiseInv /\ [Next]_vars => PromiseInv'
  BY BeginPromise, StepPromise, ProcessPromise DEF Next
<1>3. Spec => []PromiseInv
  BY <1>1, <1>2, AlwaysTyped, AlwaysOwnSteps, PTL DEF Spec
<1>4. PromiseInv /\ [Next]_vars
        => [server' = "up" /\ server # "up" /\ promise # NoVersion /\ clean => running = promise]_vars
  <2>. SUFFICES ASSUME PromiseInv, Next, server' = "up", server # "up", promise # NoVersion, clean
                PROVE  running = promise
    OBVIOUS
  <2>1. server = "skip"
    BY DEF Next, Begin, Step, Fetch, Load, Truncate, Fill, Reload, Download, Unstage, Stage,
      Schedule, Find, Unlink, Withdraw, Disown, SetAside, Revive, PutBack, Keep, Note, Discard, At, Process, Crash,
      Publish, Boot, Repair, ClearPrevious, Demote, Promote, Restore, Reexec, Serve, Exit, End, Starting
  <2>. QED
    BY <2>1 DEF PromiseInv, PromiseHolds
<1>. QED
  BY <1>3, <1>4, PTL DEF Spec, RollbackRuns

===============================================================================
