------------------------------ MODULE AppUpdate ------------------------------
(***************************************************************************)
(* Cannon updating its own binary (src/internal/appupdate).  An update is  *)
(* staged beside the running binary and swapped in by the next start, a    *)
(* rollback swaps the two binaries at once; both end the process, and      *)
(* systemd starts whatever file has the live name.  Nothing orders admin   *)
(* requests, the periodic check and the end of the process: one action is  *)
(* one rename, one removal or one access to the state file.                *)
(***************************************************************************)
EXTENDS Naturals

CONSTANTS Version,     \* released versions, a set of naturals
          Worker,      \* goroutines: admin requests and the checker
          Does,        \* Does[w]: the operations goroutine w performs
          MaxFaults,   \* file operations that may fail (a bound)
          MaxCrashes,  \* interrupted processes (a bound)
          Torn         \* a state file that does not parse

Operation == {"check", "apply", "rollback", "discard"}

ASSUME VersionAssumption == Version \subseteq Nat \ {0} /\ Version # {}
ASSUME WorkerDoesAssumption == Does \in [Worker -> SUBSET Operation]
ASSUME BoundsAssumption == MaxFaults \in Nat /\ MaxCrashes \in Nat

\* No file, no release.
NoVersion == 0

VARIABLES
  file,      \* the files beside the live binary: the version in each
  state,     \* cannon-update-state.json
  release,   \* the newest published release
  server,    \* where the process is: down, starting up (the step), or up
  running,   \* the version the process was started from; the last one if down
  exiting,   \* ScheduleRestart has been called
  worker,    \* the goroutines of the process
  promise,   \* history: the version a rollback says will run next
  clean,     \* history: that rollback met no apply and no other rollback, and
             \* could remove what was staged
  faults, crashes

vars == <<file, state, release, server, running, exiting, worker, promise,
          clean, faults, crashes>>

----------------------------------------------------------------------------

\* cannon, cannon.previous, cannon.latest, cannon.previous.latest (written by
\* older builds that took the renamed executable for the live one) and
\* cannon.rollback-tmp.
Name == {"live", "previous", "latest", "mistaken", "tmp"}
MaybeVersion == Version \cup {NoVersion}

\* The fields of State that decide what happens next; the others are for the
\* admin page, which asks the disk whether an update is staged.  A state file
\* that is being written is torn: os.WriteFile truncates it first.
State == [latest : MaybeVersion, available : BOOLEAN]
Blank == [latest |-> NoVersion, available |-> FALSE]
Loaded == IF state = Torn THEN Blank ELSE state

Startup == {"repair", "clear", "demote", "promote", "restore", "wipe", "skip"}
Label == {"idle", "fetch", "load", "truncate", "fill", "reload", "download",
          "unstage", "stage", "find", "unlink", "withdraw", "disown", "aside", "revive", "putback",
          "keep", "note", "seek", "schedule"}

\* copy is the goroutine's State, got what it fetched, then its way back from
\* SaveState.
Goroutine == [pc : Label, op : Operation \cup {"none"}, got : MaybeVersion,
              copy : State, then : {"idle", "reload", "schedule"}]
Idle == [pc |-> "idle", op |-> "none", got |-> NoVersion,
         copy |-> Blank, then |-> "idle"]

TypeOK ==
  /\ file \in [Name -> MaybeVersion]
  /\ state \in State \cup {Torn}
  /\ release \in Version
  /\ server \in {"down", "up"} \cup Startup
  /\ running \in Version
  /\ exiting \in BOOLEAN
  /\ worker \in [Worker -> Goroutine]
  /\ promise \in MaybeVersion
  /\ clean \in BOOLEAN
  /\ faults \in 0 .. MaxFaults
  /\ crashes \in 0 .. MaxCrashes

\* A fresh or an older installation, which may hold a previous binary and one
\* that an older build staged under the mistaken name.
Init ==
  /\ running \in Version
  /\ release \in {v \in Version : v >= running}
  /\ \E p, m \in MaybeVersion :
       /\ p = NoVersion \/ p < running
       /\ m = NoVersion \/ m \in (running + 1) .. release
       /\ file = [n \in Name |-> CASE n = "live" -> running
                                   [] n = "previous" -> p
                                   [] n = "mistaken" -> m
                                   [] OTHER -> NoVersion]
  /\ state = Blank
  /\ server = "down"
  /\ exiting = FALSE
  /\ worker = [w \in Worker |-> Idle]
  /\ promise = NoVersion
  /\ clean = FALSE
  /\ faults = 0
  /\ crashes = 0

----------------------------------------------------------------------------
\* Helpers

Has(n) == file[n] # NoVersion
Rename(a, b) == file' = [file EXCEPT ![b] = file[a], ![a] = NoVersion]
Remove(n) == file' = [file EXCEPT ![n] = NoVersion]

\* A file operation fails for a reason outside the model.
Fault == faults < MaxFaults /\ faults' = faults + 1

At(w, l) == worker[w].pc = l /\ server = "up"
Goto(w, l) == worker' = [worker EXCEPT ![w].pc = l]
Return(w) == worker' = [worker EXCEPT ![w] = Idle]

\* SaveState(c), then on to l.
Write(w, c, l) ==
  worker' = [worker EXCEPT ![w].pc = "truncate", ![w].copy = c, ![w].then = l,
                           ![w].got = NoVersion]

\* What a step of a goroutine leaves alone.
Elsewhere == UNCHANGED <<release, server, running, crashes>>
Calm == Elsewhere /\ UNCHANGED <<exiting, promise, clean, faults>>

----------------------------------------------------------------------------
\* Check and Apply

Swapping(w) == worker[w].op \in {"apply", "rollback"}

Begin(w) ==
  /\ At(w, "idle")
  /\ \E op \in Does[w] :
       /\ worker' = [worker EXCEPT ![w].op = op,
                       ![w].pc = CASE op = "rollback" -> "find"
                                   [] op = "discard" -> "seek"
                                   [] OTHER -> "fetch"]
       /\ promise' = IF op \in {"apply", "rollback"} THEN NoVersion ELSE promise
       /\ clean' = CASE op = "rollback" -> \A u \in Worker : ~Swapping(u)
                     [] op = "apply" -> FALSE
                     [] OTHER -> clean
  /\ Elsewhere
  /\ UNCHANGED <<file, state, exiting, faults>>

\* LatestInfo, which may fail.
Fetch(w) ==
  /\ At(w, "fetch")
  /\ \E v \in {release, NoVersion} :
       worker' = [worker EXCEPT ![w].pc = "load", ![w].got = v]
  /\ Calm /\ UNCHANGED <<file, state>>

\* Check: the release is available if it is newer than the running version.  A
\* failed fetch only records the error, and ends an Apply too.
Load(w) ==
  LET v == worker[w].got IN
  /\ At(w, "load")
  /\ IF v = NoVersion
     THEN Write(w, Loaded, "idle")
     ELSE Write(w, [Loaded EXCEPT !.latest = v, !.available = v > running],
                IF worker[w].op = "apply" THEN "reload" ELSE "idle")
  /\ Calm /\ UNCHANGED <<file, state>>

\* SaveState: os.WriteFile truncates the file, or cannot open it.
Truncate(w) ==
  /\ At(w, "truncate")
  /\ \/ state' = Torn /\ Goto(w, "fill") /\ UNCHANGED faults
     \/ Fault /\ Return(w) /\ UNCHANGED state
  /\ Elsewhere /\ UNCHANGED <<file, exiting, promise, clean>>

\* ... and writes it.  If another goroutine has written since the truncation,
\* the end of a longer text may be left over.
Fill(w) ==
  LET then == worker[w].then IN
  /\ At(w, "fill")
  /\ \/ state' = worker[w].copy
     \/ state # Torn /\ state' = Torn
  /\ IF then = "idle" THEN Return(w)
     ELSE worker' = [worker EXCEPT ![w].pc = then, ![w].copy = Blank, ![w].then = "idle"]
  /\ Calm /\ UNCHANGED file

\* Apply goes on from the state that Check has saved, unless somebody else has
\* saved a different one.
Reload(w) ==
  /\ At(w, "reload")
  /\ IF state = Torn \/ ~Loaded.available
     THEN Return(w)
     ELSE worker' = [worker EXCEPT ![w].pc = "download", ![w].copy = state]
  /\ Calm /\ UNCHANGED <<file, state>>

\* The download goes to a temporary file of its own, and is verified there.
Download(w) ==
  /\ At(w, "download")
  /\ \/ Return(w)
     \/ worker' = [worker EXCEPT ![w].pc = "unstage",
                                 ![w].got = worker[w].copy.latest]
  /\ Calm /\ UNCHANGED <<file, state>>

\* os.Remove, whose error is dropped: a file that is there may stay.
Removed(n) ==
  \/ Remove(n) /\ UNCHANGED faults
  \/ Has(n) /\ Fault /\ UNCHANGED file

\* os.Remove(staged), before the rename.
Unstage(w) ==
  /\ At(w, "unstage")
  /\ Removed("latest")
  /\ Goto(w, "stage")
  /\ Elsewhere /\ UNCHANGED <<state, exiting, promise, clean>>

Stage(w) ==
  /\ At(w, "stage")
  /\ \/ /\ file' = [file EXCEPT !["latest"] = worker[w].got]
        /\ Write(w, worker[w].copy, "schedule")
        /\ UNCHANGED faults
     \/ Fault /\ Return(w) /\ UNCHANGED file
  /\ Elsewhere /\ UNCHANGED <<state, exiting, promise, clean>>

\* ScheduleRestart, called by the handler of a successful apply or rollback.
Schedule(w) ==
  /\ At(w, "schedule")
  /\ exiting' = TRUE
  /\ Return(w)
  /\ Elsewhere
  /\ UNCHANGED <<file, state, promise, clean, faults>>

----------------------------------------------------------------------------
\* Rollback and DiscardStaged

Find(w) ==
  /\ At(w, "find")
  /\ IF Has("previous") THEN Goto(w, "unlink") ELSE Return(w)
  /\ Calm /\ UNCHANGED <<file, state>>

\* The three os.Remove calls before the swap: of what an earlier swap has left, ...
Unlink(w) ==
  /\ At(w, "unlink")
  /\ Removed("tmp")
  /\ Goto(w, "withdraw")
  /\ Elsewhere /\ UNCHANGED <<state, exiting, promise, clean>>

\* Mutant: the staged binary stays.
WithdrawNothing(w) ==
  /\ At(w, "withdraw")
  /\ Goto(w, "disown")
  /\ Calm /\ UNCHANGED <<file, state>>

\* ... of the staged binary, ...
Withdraw(w) ==
  /\ At(w, "withdraw")
  /\ Removed("latest")
  /\ clean' = (clean /\ file'["latest"] = NoVersion)
  /\ Goto(w, "disown")
  /\ Elsewhere /\ UNCHANGED <<state, exiting, promise>>

\* ... and of one that is staged under the mistaken name.
Disown(w) ==
  /\ At(w, "disown")
  /\ Removed("mistaken")
  /\ clean' = (clean /\ file'["mistaken"] = NoVersion)
  /\ Goto(w, "aside")
  /\ Elsewhere /\ UNCHANGED <<state, exiting, promise>>

\* live -> tmp.
SetAside(w) ==
  /\ At(w, "aside")
  /\ \/ Has("live") /\ Rename("live", "tmp") /\ Goto(w, "revive") /\ UNCHANGED faults
     \/ ~Has("live") /\ Return(w) /\ UNCHANGED <<file, faults>>
     \/ Fault /\ Return(w) /\ UNCHANGED file
  /\ Elsewhere /\ UNCHANGED <<state, exiting, promise, clean>>

\* previous -> live.
Revive(w) ==
  /\ At(w, "revive")
  /\ \/ Has("previous") /\ Rename("previous", "live") /\ Goto(w, "keep") /\ UNCHANGED faults
     \/ ~Has("previous") /\ Goto(w, "putback") /\ UNCHANGED <<file, faults>>
     \/ Fault /\ Goto(w, "putback") /\ UNCHANGED file
  /\ Elsewhere /\ UNCHANGED <<state, exiting, promise, clean>>

\* tmp -> live, after a failed Revive; the call fails in any case.
PutBack(w) ==
  /\ At(w, "putback")
  /\ \/ Has("tmp") /\ Rename("tmp", "live") /\ UNCHANGED faults
     \/ ~Has("tmp") /\ UNCHANGED <<file, faults>>
     \/ Fault /\ UNCHANGED file
  /\ Return(w)
  /\ Elsewhere /\ UNCHANGED <<state, exiting, promise, clean>>

\* Mutant: a deferred os.Remove(tmp) cleans up after a failure.
KeepCleansUp(w) ==
  /\ At(w, "keep")
  /\ \/ Has("tmp") /\ Rename("tmp", "previous") /\ UNCHANGED faults
     \/ Fault /\ Remove("tmp")
  /\ Goto(w, "note")
  /\ Elsewhere /\ UNCHANGED <<state, exiting, promise, clean>>

\* tmp -> previous; a failure is only logged.
Keep(w) ==
  /\ At(w, "keep")
  /\ \/ Has("tmp") /\ Rename("tmp", "previous") /\ UNCHANGED faults
     \/ ~Has("tmp") /\ UNCHANGED <<file, faults>>
     \/ Fault /\ UNCHANGED file
  /\ Goto(w, "note")
  /\ Elsewhere /\ UNCHANGED <<state, exiting, promise, clean>>

\* The rollback is prepared: from here on the restored binary is to run next.
Note(w) ==
  /\ At(w, "note")
  /\ Write(w, Loaded, "schedule")
  /\ promise' = file["live"]
  /\ Elsewhere /\ UNCHANGED <<file, state, exiting, clean, faults>>

\* DiscardStaged: the staged binary, under either name, is removed.
Discard(w) ==
  /\ At(w, "seek")
  /\ IF ~Has("latest") /\ ~Has("mistaken")
     THEN Return(w) /\ UNCHANGED <<file, faults>>
     ELSE \/ /\ Remove(IF Has("latest") THEN "latest" ELSE "mistaken")
             /\ Write(w, Loaded, "idle")
             /\ UNCHANGED faults
          \/ Fault /\ Return(w) /\ UNCHANGED file
  /\ Elsewhere /\ UNCHANGED <<state, exiting, promise, clean>>

----------------------------------------------------------------------------
\* The process: start, ApplyPendingAtStartup, end

Starting(l) == server = l /\ UNCHANGED <<release, worker, exiting, promise, clean, crashes>>

\* systemd starts the file with the live name.
Boot ==
  /\ server = "down"
  /\ Has("live")
  /\ running' = file["live"]
  /\ server' = "repair"
  /\ UNCHANGED <<file, state, release, exiting, worker, promise, clean, faults, crashes>>

\* A binary staged under the mistaken name gets the right one.  A failure of
\* any of these steps ends the process (log.Fatalf).
Repair ==
  /\ Starting("repair")
  /\ \/ /\ ~Has("latest") /\ Has("mistaken")
        /\ \/ Rename("mistaken", "latest") /\ server' = "clear" /\ UNCHANGED faults
           \/ Fault /\ server' = "down" /\ UNCHANGED file
     \/ /\ Has("latest") \/ ~Has("mistaken")
        /\ server' = IF Has("latest") THEN "clear" ELSE "skip"
        /\ UNCHANGED <<file, faults>>
  /\ UNCHANGED <<state, running>>

\* The old previous binary goes first.
ClearPrevious ==
  /\ Starting("clear")
  /\ \/ Remove("previous") /\ server' = "demote" /\ UNCHANGED faults
     \/ Has("previous") /\ Fault /\ server' = "down" /\ UNCHANGED file
  /\ UNCHANGED <<state, running>>

\* live -> previous.
Demote ==
  /\ Starting("demote")
  /\ \/ Has("live") /\ Rename("live", "previous") /\ server' = "promote" /\ UNCHANGED faults
     \/ ~Has("live") /\ server' = "promote" /\ UNCHANGED <<file, faults>>
     \/ Fault /\ server' = "down" /\ UNCHANGED file
  /\ UNCHANGED <<state, running>>

\* Mutant: the staged binary is copied, not renamed.
PromoteCopies ==
  /\ Starting("promote")
  /\ file' = [file EXCEPT !["live"] = file["latest"]]
  /\ server' = "wipe"
  /\ UNCHANGED <<state, running, faults>>

\* latest -> live.
Promote ==
  /\ Starting("promote")
  /\ \/ Rename("latest", "live") /\ server' = "wipe" /\ UNCHANGED faults
     \/ Fault /\ server' = "restore" /\ UNCHANGED file
  /\ UNCHANGED <<state, running>>

\* previous -> live, after a failed Promote; the start fails in any case.
Restore ==
  /\ Starting("restore")
  /\ \/ Has("previous") /\ Rename("previous", "live") /\ UNCHANGED faults
     \/ ~Has("previous") /\ UNCHANGED <<file, faults>>
     \/ Fault /\ UNCHANGED file
  /\ server' = "down"
  /\ UNCHANGED <<state, running>>

\* clearStagedState, whose errors are dropped.
Cleared == IF state = Torn THEN Torn ELSE [state EXCEPT !.available = FALSE]
Forget ==
  \/ state' = Cleared /\ UNCHANGED faults
  \/ Fault /\ UNCHANGED state

\* After a swap the process becomes the new binary, and starts over.
Reexec ==
  /\ Starting("wipe")
  /\ \/ Forget /\ running' = file["live"] /\ server' = "repair"
     \/ Fault /\ state' = Cleared /\ server' = "down" /\ UNCHANGED running
  /\ UNCHANGED file

\* Nothing was staged: the server listens.
Serve ==
  /\ Starting("skip")
  /\ Forget
  /\ server' = "up"
  /\ UNCHANGED <<file, running>>

\* The process ends, and its goroutines with it.
End ==
  /\ server' = "down"
  /\ exiting' = FALSE
  /\ worker' = [w \in Worker |-> Idle]
  /\ UNCHANGED <<file, release, running, promise, clean, faults>>

\* exitAfterRestart, one and a half seconds after ScheduleRestart, whatever
\* the other goroutines are doing.
Exit == server = "up" /\ exiting /\ End /\ UNCHANGED <<state, crashes>>

\* SIGTERM (main calls os.Exit at once), a kill or a loss of power at any
\* moment; one that interrupts clearStagedState leaves a torn state file.
Crash ==
  /\ server # "down"
  /\ crashes < MaxCrashes
  /\ crashes' = crashes + 1
  /\ state' \in {state} \cup (IF server \in {"wipe", "skip"} THEN {Torn} ELSE {})
  /\ End

Publish ==
  /\ \E v \in Version : v > release /\ release' = v
  /\ UNCHANGED <<file, state, server, running, exiting, worker, promise, clean, faults, crashes>>

----------------------------------------------------------------------------

Step(w) ==
  \/ Fetch(w) \/ Load(w) \/ Truncate(w) \/ Fill(w) \/ Reload(w)
  \/ Download(w) \/ Unstage(w) \/ Stage(w) \/ Schedule(w)
  \/ Find(w) \/ Unlink(w) \/ Withdraw(w) \/ Disown(w) \/ SetAside(w) \/ Revive(w) \/ PutBack(w) \/ Keep(w)
  \/ Note(w) \/ Discard(w)

Process ==
  \/ Boot \/ Repair \/ ClearPrevious \/ Demote \/ Promote \/ Restore
  \/ Reexec \/ Serve \/ Exit

Next ==
  \/ \E w \in Worker : Begin(w) \/ Step(w)
  \/ Process
  \/ Crash
  \/ Publish

Spec == Init /\ [][Next]_vars

\* Goroutines run; systemd restarts the process (Restart=always) and the timer
\* of exitAfterRestart fires.
FairSpec == Spec /\ WF_vars(Process) /\ \A w \in Worker : WF_vars(Step(w))

----------------------------------------------------------------------------
\* Properties

\* The binary that runs, or ran last, is on disk under a name an operator can
\* put back: no failed rename, interrupted swap or concurrent staging loses it.
RunningKept == \E n \in {"live", "previous", "tmp"} : file[n] = running

\* What the next process runs after a Rollback is what Rollback restored, unless it could
\* not remove what was staged, or an apply or another rollback was under way
\* or was asked for in the meantime.
RollbackRuns ==
  [][server' = "up" /\ server # "up" /\ promise # NoVersion /\ clean => running = promise]_vars

\* What the admin is told and the log says: "Rolled back to cannon.previous. Process is
\* restarting." (admin/crud_system_update.go:80), "rollback prepared; restarting to run ..."
\* (swap.go:147).
RollbackAnnounced ==
  [][server' = "up" /\ server # "up" /\ promise # NoVersion => running = promise]_vars

\* Whatever ends the process, systemd brings it back, unless it ended between
\* the two renames that swap the live binary.
ComesBack == server = "down" ~> server = "up" \/ (server = "down" /\ ~Has("live"))

=============================================================================
