-------------------------- MODULE ExtensionManager --------------------------
(***************************************************************************)
(* The extension process manager of one site                               *)
(* (src/internal/extensions/manager.go, update.go, install_binary.go and   *)
(* the admin handlers of src/internal/admin/crud_extensions.go that drive  *)
(* it).  Every HTTP request, admin action and Bootstrap worker is a        *)
(* goroutine; m.mu guards the maps runtimes and suppressed for the length  *)
(* of one map operation, a lock per extension name guards start(), and     *)
(* nothing guards the database row, the binary or the child process.  One  *)
(* action below is what a goroutine does between two such points.          *)
(***************************************************************************)
EXTENDS FiniteSets

CONSTANTS Ext,      \* extension names (also the binary's file name)
          Thread,   \* goroutines
          Pid,      \* child processes the server may ever create (a bound)
          None,     \* no process, no lock holder
          Does      \* Does[t]: the operations goroutine t performs

Operation == {"ensure", "start", "stop", "restart", "install", "toggle",
              "form", "delete", "update", "upload", "boot"}

ASSUME NoneAssumption == None \notin Pid \cup Thread
ASSUME DoesAssumption == Does \in [Thread -> SUBSET Operation]

VARIABLES
  row,         \* the extensions table: status and the installed flag
  binary,      \* extensions whose executable is in the extensions directory
  runtimes,    \* m.runtimes: the published process of each extension
  suppressed,  \* m.suppressed
  startLock,   \* m.starts[name]: the goroutine inside start()
  proc,        \* the child processes, from fork to Wait
  setup,       \* history: how often /install has run on the extension
  thread       \* the goroutines: program counter and local variables

vars == <<row, binary, runtimes, suppressed, startLock, proc, setup, thread>>

----------------------------------------------------------------------------

Row == [status : {"absent", "inactive", "active"}, installed : BOOLEAN]
Absent == [status |-> "absent", installed |-> FALSE]

\* cmd.ProcessState is nil until Wait returns, so a process that has exited
\* but has not been waited for is "exited", not "reaped".
Process == [ext : Ext \cup {None},
            state : {"unborn", "running", "exited", "reaped"}]
Unborn == [ext |-> None, state |-> "unborn"]
Unreaped(p) == proc[p].state \in {"running", "exited"}

\* Program counters.  A starter holds the start lock; from "await" on it also
\* owns a process that nobody else can see.  A killer owns a process that it
\* took out of m.runtimes.
Starting == {"await", "setup", "mark", "publish", "abort"}
InStart == {"inspect", "spawn"} \cup Starting
Killing == {"kill", "discard"}
Elsewhere == {"idle", "load", "save", "stop", "drop", "quiesce", "swap",
              "reload", "check", "lookup", "unsuppress", "acquire", "cleanup",
              "suppress", "query", "call", "record", "sync", "scan",
              "deactivate", "select", "gate", "place"}
Label == InStart \cup Killing \cup Elsewhere

\* seen is the goroutine's copy of the row, hold the process it owns.
Goroutine == [pc : Label, op : Operation \cup {"none"}, ext : Ext \cup {None},
              seen : Row, hold : Pid \cup {None}, wasRunning : BOOLEAN]
Idle == [pc |-> "idle", op |-> "none", ext |-> None, seen |-> Absent,
         hold |-> None, wasRunning |-> FALSE]

TypeOK ==
  /\ row \in [Ext -> Row]
  /\ binary \subseteq Ext
  /\ runtimes \in [Ext -> Pid \cup {None}]
  /\ suppressed \subseteq Ext
  /\ startLock \in [Ext -> Thread \cup {None}]
  /\ proc \in [Pid -> Process]
  /\ setup \in [Ext -> {"never", "once", "again"}]
  /\ thread \in [Thread -> Goroutine]

\* The manager as NewManager makes it: empty maps over whatever the database
\* and the extensions directory hold from earlier runs of the server.
Init ==
  /\ row \in [Ext -> {r \in Row : r.status = "absent" => ~r.installed}]
  /\ binary \in SUBSET Ext
  /\ runtimes = [e \in Ext |-> None]
  /\ suppressed = {}
  /\ startLock = [e \in Ext |-> None]
  /\ proc = [p \in Pid |-> Unborn]
  /\ setup = [e \in Ext |-> IF row[e].installed THEN "once" ELSE "never"]
  /\ thread = [t \in Thread |-> Idle]

----------------------------------------------------------------------------
\* Helpers

At(t, l) == thread[t].pc = l
Goto(t, l) == thread' = [thread EXCEPT ![t].pc = l]
Return(t) == thread' = [thread EXCEPT ![t] = Idle]

\* IsRunning and runtimeRunning: there is a runtime and its process has not
\* been waited for.  Only the goroutine that took a process out of m.runtimes,
\* or never put it in, waits for it, so a published runtime always passes.
IsRunning(e) == runtimes[e] # None /\ Unreaped(runtimes[e])

\* Process.Kill followed by cmd.Wait.
Reap(p) == proc' = [proc EXCEPT ![p].state = "reaped"]

\* A completed POST /install, as the extension sees it.
Installed(e) ==
  setup' = [setup EXCEPT ![e] = IF @ = "never" THEN "once" ELSE "again"]

SetRow(e, r) == row' = [row EXCEPT ![e] = r]

\* A call over the extension's socket is answered.  The transport is pooled by
\* socket path and its idle connections outlive the process they lead to being
\* taken out of m.runtimes, so the one that answers may be any that still runs.
Answers(e) == \E p \in Pid : proc[p] = [ext |-> e, state |-> "running"]

\* Where the caller goes once it has the row.
AfterLoad(op) ==
  CASE op = "ensure" -> "check"
    [] op = "start" -> "unsuppress"
    [] op \in {"stop", "restart", "delete"} -> "stop"
    [] op = "install" -> "query"
    [] op = "update" -> "quiesce"
    [] OTHER -> "save"

\* Where Stop's caller continues.
AfterStop(t) ==
  CASE thread[t].op = "restart" -> "unsuppress"
    [] thread[t].op = "delete" -> "drop"
    [] thread[t].op = "update" -> "swap"
    [] OTHER -> "idle"

\* Where start()'s caller continues: on success ensureActiveRuntime looks the
\* runtime up; on failure Start and Bootstrap call disableFailedExtension,
\* and Install only returns the error.
AfterStart(t) == IF thread[t].op = "ensure" THEN "lookup" ELSE "idle"
AfterFailedStart(t) == IF thread[t].op = "install" THEN "idle" ELSE "cleanup"

\* Continue at l, forgetting the local variables at the end of the call.
Continue(t, l) == IF l = "idle" THEN Return(t) ELSE Goto(t, l)

\* The same, giving up the process the goroutine owned.
Release(t, l) ==
  thread' = [thread EXCEPT ![t] =
               IF l = "idle" THEN Idle ELSE [@ EXCEPT !.pc = l, !.hold = None]]

Unlock(t) == startLock' = [startLock EXCEPT ![thread[t].ext] = None]

----------------------------------------------------------------------------
\* Requests and admin actions arriving, and their first database read

\* A request, an admin form post, an upload or a Bootstrap worker begins.
Begin(t) ==
  /\ At(t, "idle")
  /\ \E op \in Does[t], e \in Ext :
       thread' = [thread EXCEPT ![t] =
         [Idle EXCEPT !.op = op, !.ext = e,
                      !.pc = CASE op = "boot" -> "sync"
                               [] op = "upload" -> "place"
                               [] OTHER -> "load"]]
  /\ UNCHANGED <<row, binary, runtimes, suppressed, startLock, proc, setup>>

\* db.First: ensureActiveRuntime refuses a row that is not active, Install one
\* that is already installed, and every handler one that does not exist.
Refused(op, r) ==
  \/ r.status = "absent"
  \/ op = "ensure" /\ r.status # "active"
  \/ op = "install" /\ r.installed
Load(t) ==
  LET op == thread[t].op
      r == row[thread[t].ext]
  IN
  /\ At(t, "load")
  /\ IF Refused(op, r) THEN Return(t)
     ELSE thread' = [thread EXCEPT ![t].pc = AfterLoad(op), ![t].seen = r]
  /\ UNCHANGED <<row, binary, runtimes, suppressed, startLock, proc, setup>>

\* Mutant: the form's status is stored as posted.
SaveAnyStatus(t) ==
  /\ At(t, "save")
  /\ \E status \in {"inactive", "active", "paused"} :
       SetRow(thread[t].ext, [thread[t].seen EXCEPT !.status = status])
  /\ Return(t)
  /\ UNCHANGED <<binary, runtimes, suppressed, startLock, proc, setup>>

\* db.Save(&row) writes every column of the copy read earlier, the installed
\* flag included, and re-creates a row deleted since.  toggle flips the
\* status; the edit form sets any status and may ask for a restart.  Going
\* inactive continues as Stop, going active as Restart.  A save that fails
\* ends the call.
Save(t) ==
  LET old == thread[t].seen
      flip == IF old.status = "active" THEN "inactive" ELSE "active"
  IN
  /\ At(t, "save")
  /\ \/ Return(t) /\ UNCHANGED row
     \/ \E status \in {"inactive", "active"}, restart \in BOOLEAN :
          LET new == [old EXCEPT !.status = status] IN
          /\ thread[t].op = "toggle" => status = flip /\ ~restart
          /\ SetRow(thread[t].ext, new)
          /\ IF status # old.status \/ restart
             THEN thread' = [thread EXCEPT
                    ![t].pc = "stop", ![t].seen = new,
                    ![t].op = IF status = "inactive" /\ old.status = "active"
                              THEN "stop" ELSE "restart"]
             ELSE Return(t)
  /\ UNCHANGED <<binary, runtimes, suppressed, startLock, proc, setup>>

\* extensionDelete's db.Delete, after Stop; it may fail.
Drop(t) ==
  /\ At(t, "drop")
  /\ \/ SetRow(thread[t].ext, Absent)
     \/ UNCHANGED row
  /\ Return(t)
  /\ UNCHANGED <<binary, runtimes, suppressed, startLock, proc, setup>>

----------------------------------------------------------------------------
\* Stop, and the pieces of Restart, Update and ensureActiveRuntime around it

\* Mutant: the runtime stays in the map.
StopKeepsRuntime(t) ==
  LET e == thread[t].ext IN
  /\ At(t, "stop")
  /\ suppressed' = suppressed \cup {e}
  /\ IF runtimes[e] = None
     THEN Continue(t, AfterStop(t))
     ELSE thread' = [thread EXCEPT ![t].pc = "kill", ![t].hold = runtimes[e]]
  /\ UNCHANGED <<row, binary, runtimes, startLock, proc, setup>>

\* Stop under m.mu: take the runtime out of the map, if there is one, and
\* suppress the automatic start either way.
Stop(t) ==
  LET e == thread[t].ext IN
  /\ At(t, "stop")
  /\ suppressed' = suppressed \cup {e}
  /\ IF runtimes[e] = None
     THEN Continue(t, AfterStop(t)) /\ UNCHANGED runtimes
     ELSE /\ thread' = [thread EXCEPT ![t].pc = "kill", ![t].hold = runtimes[e]]
          /\ runtimes' = [runtimes EXCEPT ![e] = None]
  /\ UNCHANGED <<row, binary, startLock, proc, setup>>

\* Stop after m.mu is released: Kill and Wait.
Kill(t) ==
  /\ At(t, "kill")
  /\ Reap(thread[t].hold)
  /\ Release(t, AfterStop(t))
  /\ UNCHANGED <<row, binary, runtimes, suppressed, startLock, setup>>

\* Update: the check, the download and the checksum may fail (the call ends);
\* then the extension is stopped if it is running.
Quiesce(t) ==
  /\ At(t, "quiesce")
  /\ \/ Return(t)
     \/ thread' = [thread EXCEPT
          ![t].wasRunning = IsRunning(thread[t].ext),
          ![t].pc = IF IsRunning(thread[t].ext) THEN "stop" ELSE "swap"]
  /\ UNCHANGED <<row, binary, runtimes, suppressed, startLock, proc, setup>>

\* Update: the new binary is renamed into place and the version columns are
\* written.  Either may fail, which leaves the extension stopped.
Swap(t) ==
  LET restart == thread[t].seen.status = "active" \/ thread[t].wasRunning IN
  /\ At(t, "swap")
  /\ \/ /\ Return(t)
        /\ UNCHANGED binary
     \/ /\ binary' = binary \cup {thread[t].ext}
        /\ \/ Return(t)
           \/ restart /\ Goto(t, "reload")
  /\ UNCHANGED <<row, runtimes, suppressed, startLock, proc, setup>>

\* Update: the row is read again and started, whatever its status is by now.
Reload(t) ==
  LET e == thread[t].ext IN
  /\ At(t, "reload")
  /\ IF row[e].status = "absent" THEN Return(t)
     ELSE thread' = [thread EXCEPT ![t].pc = "unsuppress", ![t].seen = row[e]]
  /\ UNCHANGED <<row, binary, runtimes, suppressed, startLock, proc, setup>>

\* ensureActiveRuntime: start the process only if IsRunning says it is not up.
Check(t) ==
  /\ At(t, "check")
  /\ Goto(t, IF IsRunning(thread[t].ext) THEN "lookup" ELSE "unsuppress")
  /\ UNCHANGED <<row, binary, runtimes, suppressed, startLock, proc, setup>>

\* ensureActiveRuntime: hand out the published runtime, or fail without one.
Lookup(t) ==
  /\ At(t, "lookup")
  /\ Return(t)
  /\ UNCHANGED <<row, binary, runtimes, suppressed, startLock, proc, setup>>

----------------------------------------------------------------------------
\* Start and start()

\* Start clears the suppression before it waits for the start lock.
Unsuppress(t) ==
  /\ At(t, "unsuppress")
  /\ suppressed' = suppressed \ {thread[t].ext}
  /\ Goto(t, "acquire")
  /\ UNCHANGED <<row, binary, runtimes, startLock, proc, setup>>

\* Mutant: no lock per extension.
AcquireUnlocked(t) ==
  /\ At(t, "acquire")
  /\ startLock' = [startLock EXCEPT ![thread[t].ext] = t]
  /\ Goto(t, "inspect")
  /\ UNCHANGED <<row, binary, runtimes, suppressed, proc, setup>>

Acquire(t) ==
  LET e == thread[t].ext IN
  /\ At(t, "acquire")
  /\ startLock[e] = None
  /\ startLock' = [startLock EXCEPT ![e] = t]
  /\ Goto(t, "inspect")
  /\ UNCHANGED <<row, binary, runtimes, suppressed, proc, setup>>

\* Mutant: m.runtimes is not looked at again under the start lock.
InspectNothing(t) ==
  /\ At(t, "inspect")
  /\ Goto(t, "spawn")
  /\ UNCHANGED <<row, binary, runtimes, suppressed, startLock, proc, setup>>

\* Mutant: the early return of a running extension keeps the start lock.
InspectKeepsLock(t) ==
  /\ At(t, "inspect")
  /\ IF IsRunning(thread[t].ext)
     THEN Continue(t, AfterStart(t))
     ELSE Goto(t, "spawn")
  /\ UNCHANGED <<row, binary, runtimes, suppressed, startLock, proc, setup>>

\* A runtime that runs is only refreshed (an error of the refresh is dropped)
\* and the call succeeds.
Inspect(t) ==
  /\ At(t, "inspect")
  /\ IF IsRunning(thread[t].ext)
     THEN Unlock(t) /\ Continue(t, AfterStart(t))
     ELSE Goto(t, "spawn") /\ UNCHANGED startLock
  /\ UNCHANGED <<row, binary, runtimes, suppressed, proc, setup>>

\* ctx.Err and cmd.Start: without a binary the call fails, with one it may.
Spawn(t) ==
  LET e == thread[t].ext IN
  /\ At(t, "spawn")
  /\ \/ /\ Unlock(t)
        /\ Continue(t, AfterFailedStart(t))
        /\ UNCHANGED proc
     \/ /\ e \in binary
        /\ \E p \in Pid :
             /\ proc[p] = Unborn
             /\ proc' = [proc EXCEPT ![p] = [ext |-> e, state |-> "running"]]
             /\ thread' = [thread EXCEPT ![t].pc = "await", ![t].hold = p]
        /\ UNCHANGED startLock
  /\ UNCHANGED <<row, binary, runtimes, suppressed, setup>>

\* The socket appears within two seconds and the metadata calls are answered;
\* or the request is cancelled, the wait times out, or the metadata cannot be
\* fetched.
Await(t) ==
  /\ At(t, "await")
  /\ \/ /\ Answers(thread[t].ext)
        /\ Goto(t, IF thread[t].seen.installed THEN "publish" ELSE "setup")
     \/ Goto(t, "abort")
  /\ UNCHANGED <<row, binary, runtimes, suppressed, startLock, proc, setup>>

\* Mutant: the error of runInstall is dropped.
SetupUnchecked(t) ==
  /\ At(t, "setup")
  /\ \/ Answers(thread[t].ext) /\ Installed(thread[t].ext)
     \/ UNCHANGED setup
  /\ Goto(t, "mark")
  /\ UNCHANGED <<row, binary, runtimes, suppressed, startLock, proc>>

\* runInstall.  The answer may be lost after the extension has done the work.
Setup(t) ==
  /\ At(t, "setup")
  /\ \/ /\ Answers(thread[t].ext)
        /\ Installed(thread[t].ext)
        /\ Goto(t, "mark") \/ Goto(t, "abort")
     \/ Goto(t, "abort") /\ UNCHANGED setup
  /\ UNCHANGED <<row, binary, runtimes, suppressed, startLock, proc>>

\* markInstalled updates the one column of the row, if there still is a row.
MarkInstalled(e) ==
  SetRow(e, IF row[e].status = "absent" THEN row[e]
            ELSE [row[e] EXCEPT !.installed = TRUE])

Mark(t) ==
  /\ At(t, "mark")
  /\ \/ MarkInstalled(thread[t].ext) /\ Goto(t, "publish")
     \/ UNCHANGED row /\ Goto(t, "abort")
  /\ UNCHANGED <<binary, runtimes, suppressed, startLock, proc, setup>>

\* Mutant: a cancelled start returns without fail().
PublishForgets(t) ==
  LET e == thread[t].ext IN
  /\ At(t, "publish")
  /\ IF e \in suppressed
     THEN Release(t, AfterFailedStart(t)) /\ UNCHANGED runtimes
     ELSE /\ runtimes' = [runtimes EXCEPT ![e] = thread[t].hold]
          /\ Release(t, AfterStart(t))
  /\ Unlock(t)
  /\ UNCHANGED <<row, binary, suppressed, proc, setup>>

\* Mutant: a start is never cancelled.
PublishAlways(t) ==
  LET e == thread[t].ext IN
  /\ At(t, "publish")
  /\ runtimes' = [runtimes EXCEPT ![e] = thread[t].hold]
  /\ Release(t, AfterStart(t))
  /\ Unlock(t)
  /\ UNCHANGED <<row, binary, suppressed, proc, setup>>

\* Under m.mu: a Stop since Start's Unsuppress cancels the start, otherwise
\* the runtime goes into the map.
Publish(t) ==
  LET e == thread[t].ext IN
  /\ At(t, "publish")
  /\ IF e \in suppressed
     THEN Goto(t, "abort") /\ UNCHANGED <<runtimes, startLock>>
     ELSE /\ runtimes' = [runtimes EXCEPT ![e] = thread[t].hold]
          /\ Release(t, AfterStart(t))
          /\ Unlock(t)
  /\ UNCHANGED <<row, binary, suppressed, proc, setup>>

\* Mutant: fail() returns its error and leaves the process alone.
AbortUnreaped(t) ==
  /\ At(t, "abort")
  /\ Release(t, AfterFailedStart(t))
  /\ Unlock(t)
  /\ UNCHANGED <<row, binary, runtimes, suppressed, proc, setup>>

\* fail(): Kill and Wait, then the deferred unlock.
Abort(t) ==
  /\ At(t, "abort")
  /\ Reap(thread[t].hold)
  /\ Release(t, AfterFailedStart(t))
  /\ Unlock(t)
  /\ UNCHANGED <<row, binary, runtimes, suppressed, setup>>

\* disableFailedExtension, called without the start lock.  cleanupRuntime
\* takes out whatever runtime is published by now, kills it and waits for it.
Cleanup(t) ==
  LET e == thread[t].ext IN
  /\ At(t, "cleanup")
  /\ IF runtimes[e] = None
     THEN Goto(t, "suppress") /\ UNCHANGED runtimes
     ELSE /\ thread' = [thread EXCEPT ![t].pc = "discard",
                                      ![t].hold = runtimes[e]]
          /\ runtimes' = [runtimes EXCEPT ![e] = None]
  /\ UNCHANGED <<row, binary, suppressed, startLock, proc, setup>>

\* Mutant: cleanupRuntime drops the runtime without Kill and Wait.
DiscardUnreaped(t) ==
  /\ At(t, "discard")
  /\ Release(t, "suppress")
  /\ UNCHANGED <<row, binary, runtimes, suppressed, startLock, proc, setup>>

Discard(t) ==
  /\ At(t, "discard")
  /\ Reap(thread[t].hold)
  /\ Release(t, "suppress")
  /\ UNCHANGED <<row, binary, runtimes, suppressed, startLock, setup>>

Suppress(t) ==
  /\ At(t, "suppress")
  /\ suppressed' = suppressed \cup {thread[t].ext}
  /\ Return(t)
  /\ UNCHANGED <<row, binary, runtimes, startLock, proc, setup>>

----------------------------------------------------------------------------
\* Install on an extension that may already run

\* Install starts the extension without clearing the suppression, or goes on
\* to call /install on the running one.
Query(t) ==
  /\ At(t, "query")
  /\ Goto(t, IF IsRunning(thread[t].ext) THEN "call" ELSE "acquire")
  /\ UNCHANGED <<row, binary, runtimes, suppressed, startLock, proc, setup>>

\* runInstall over the extension's socket, whichever process answers there.
Call(t) ==
  LET e == thread[t].ext IN
  /\ At(t, "call")
  /\ \/ /\ Answers(e)
        /\ Installed(e)
        /\ Goto(t, "record") \/ Return(t)
     \/ Return(t) /\ UNCHANGED setup
  /\ UNCHANGED <<row, binary, runtimes, suppressed, startLock, proc>>

Record(t) ==
  /\ At(t, "record")
  /\ MarkInstalled(thread[t].ext) \/ UNCHANGED row
  /\ Return(t)
  /\ UNCHANGED <<binary, runtimes, suppressed, startLock, proc, setup>>

----------------------------------------------------------------------------
\* Uploads and Bootstrap, for one extension

\* SaveBinary: the upload is renamed into place, then syncDirectory runs.
Place(t) ==
  /\ At(t, "place")
  /\ \/ /\ binary' = binary \cup {thread[t].ext}
        /\ Goto(t, "sync")
     \/ Return(t) /\ UNCHANGED binary
  /\ UNCHANGED <<row, runtimes, suppressed, startLock, proc, setup>>

\* syncDirectory registers an executable that has no row, as inactive.
Sync(t) ==
  LET e == thread[t].ext IN
  /\ At(t, "sync")
  /\ IF e \in binary /\ row[e].status = "absent"
     THEN SetRow(e, [status |-> "inactive", installed |-> FALSE])
     ELSE UNCHANGED row
  /\ IF thread[t].op = "boot" THEN Goto(t, "scan") ELSE Return(t)
  /\ UNCHANGED <<binary, runtimes, suppressed, startLock, proc, setup>>

\* deactivateMissingBinaries suppresses an active row without a binary, then
\* writes its status.
Scan(t) ==
  LET e == thread[t].ext
      missing == row[e].status = "active" /\ e \notin binary
  IN
  /\ At(t, "scan")
  /\ suppressed' = IF missing THEN suppressed \cup {e} ELSE suppressed
  /\ Goto(t, IF missing THEN "deactivate" ELSE "select")
  /\ UNCHANGED <<row, binary, runtimes, startLock, proc, setup>>

Deactivate(t) ==
  LET e == thread[t].ext IN
  /\ At(t, "deactivate")
  /\ \/ /\ SetRow(e, IF row[e].status = "absent" THEN row[e]
                      ELSE [row[e] EXCEPT !.status = "inactive"])
        /\ Goto(t, "select")
     \/ Return(t) /\ UNCHANGED row
  /\ UNCHANGED <<binary, runtimes, suppressed, startLock, proc, setup>>

\* Bootstrap reads the active rows, and skips the suppressed ones.
Select(t) ==
  LET e == thread[t].ext IN
  /\ At(t, "select")
  /\ IF row[e].status = "active"
     THEN thread' = [thread EXCEPT ![t].pc = "gate", ![t].seen = row[e]]
     ELSE Return(t)
  /\ UNCHANGED <<row, binary, runtimes, suppressed, startLock, proc, setup>>

Gate(t) ==
  /\ At(t, "gate")
  /\ IF thread[t].ext \in suppressed THEN Return(t) ELSE Goto(t, "acquire")
  /\ UNCHANGED <<row, binary, runtimes, suppressed, startLock, proc, setup>>

----------------------------------------------------------------------------
\* The environment

\* An extension process dies.  Nothing in the server notices.
Exit(p) ==
  /\ proc[p].state = "running"
  /\ proc' = [proc EXCEPT ![p].state = "exited"]
  /\ UNCHANGED <<row, binary, runtimes, suppressed, startLock, setup, thread>>

\* The operator removes an executable from the extensions directory.
RemoveBinary(e) ==
  /\ e \in binary
  /\ binary' = binary \ {e}
  /\ UNCHANGED <<row, runtimes, suppressed, startLock, proc, setup, thread>>

----------------------------------------------------------------------------

\* Everything a goroutine does once it has begun.
Step(t) ==
  \/ Load(t) \/ Save(t) \/ Drop(t)
  \/ Stop(t) \/ Kill(t) \/ Quiesce(t) \/ Swap(t) \/ Reload(t)
  \/ Check(t) \/ Lookup(t)
  \/ Unsuppress(t) \/ Acquire(t) \/ Inspect(t) \/ Spawn(t) \/ Await(t)
  \/ Setup(t) \/ Mark(t) \/ Publish(t) \/ Abort(t)
  \/ Cleanup(t) \/ Discard(t) \/ Suppress(t)
  \/ Query(t) \/ Call(t) \/ Record(t)
  \/ Place(t) \/ Sync(t) \/ Scan(t) \/ Deactivate(t) \/ Select(t) \/ Gate(t)

Next ==
  \/ \E t \in Thread : Begin(t) \/ Step(t)
  \/ \E p \in Pid : Exit(p)
  \/ \E e \in Ext : RemoveBinary(e)

Spec == Init /\ [][Next]_vars

\* The Go scheduler runs every goroutine that can run, and a sync.Mutex hands
\* the lock to a waiter that has waited for a millisecond, so a goroutine that
\* waits for a start lock that is released again and again gets it.  Nobody is
\* obliged to send a request, and no process is obliged to exit.
Fairness == \A t \in Thread : WF_vars(Step(t)) /\ SF_vars(Acquire(t))

FairSpec == Spec /\ Fairness

----------------------------------------------------------------------------
\* Properties

\* The processes goroutine t can still kill and wait for, and those anybody can.
Holds(t, p) == thread[t].hold = p
Published(p) == \E e \in Ext : runtimes[e] = p

\* No child process is forgotten: until it has been waited for, it is in
\* m.runtimes, where Stop finds it, or in the hands of a goroutine that will
\* publish it or kill it (start's fail(), Stop, cleanupRuntime).
NothingLeaks ==
  \A p \in Pid : Unreaped(p) => Published(p) \/ \E t \in Thread : Holds(t, p)

\* Kill and Wait run once per process: no process is owned twice, and nobody
\* owns one that has been waited for.  A second cmd.Wait, or a Kill of a pid
\* the kernel has reused, needs two owners.
ExclusiveOwner ==
  \A p \in Pid :
    /\ ~Unreaped(p) => ~Published(p) /\ \A t \in Thread : ~Holds(t, p)
    /\ \A t \in Thread : Holds(t, p) =>
         ~Published(p) /\ \A u \in Thread : Holds(u, p) => u = t
    /\ \A e, f \in Ext : runtimes[e] = p /\ runtimes[f] = p => e = f

\* At most one process of an extension is on its way up or in service: a
\* second one would unlink the first one's socket.  Processes that a Stop or a
\* cleanup is about to kill do not count.
Serving(e, p) ==
  \/ runtimes[e] = p
  \/ \E t \in Thread : thread[t].pc \in Starting /\ thread[t].ext = e /\ Holds(t, p)
OneServing ==
  \A e \in Ext : \A p, q \in Pid : Serving(e, p) /\ Serving(e, q) => p = q

\* Requests reach an extension only after its /install has succeeded: neither
\* the published runtimes nor the installed column promise more than happened,
\* whatever stale row start() was given and whatever column Save wrote back.
SetupBeforeService ==
  \A e \in Ext :
    runtimes[e] # None \/ row[e].installed => setup[e] # "never"

\* start() never replaces a published runtime: a process leaves the map only
\* into the hands of the goroutine that will kill it.
NeverReplaced ==
  [][\A e \in Ext : runtimes[e] # None =>
       runtimes'[e] = runtimes[e] \/ runtimes'[e] = None]_vars

\* Every request, admin action and Bootstrap worker comes to an end: nobody
\* waits for ever on a start lock, and no failure path keeps one.
EveryCallReturns == \A t \in Thread : ~At(t, "idle") ~> At(t, "idle")

\* A stop sticks: an extension that is down and suppressed (stopped by an
\* admin, or given up after a failed start) stays so until somebody calls
\* Start.  A Bootstrap worker that had already read its row, a start that was
\* already on its way and an Install do not bring it back.
Stopped(e) == e \in suppressed /\ runtimes[e] = None
StopSticks ==
  [][\A e \in Ext : Stopped(e) =>
       \/ Stopped(e)'
       \/ \E t \in Thread : At(t, "unsuppress") /\ thread[t].ext = e]_vars

\* ensureActiveRuntime "starts the process if it is not already running"
\* (manager.go:750): it goes on to use the runtime only when the process is up.
RequestsRestartCrashed ==
  [][\A t \in Thread : At(t, "check") /\ thread'[t].pc = "lookup" =>
       proc[runtimes[thread[t].ext]].state = "running"]_vars

\* The manager implements ProcessSupervisor: a process is in service while it
\* is in m.runtimes, on its way up while start() holds it, and on its way down
\* in the hands of anybody else.
Phase(p) ==
  CASE proc[p].state \in {"unborn", "reaped"} -> proc[p].state
    [] Published(p) -> "serving"
    [] Unreaped(p) /\ ~Published(p) ->
         IF \E t \in Thread : Holds(t, p) /\ thread[t].pc \in Starting
         THEN "starting" ELSE "stopping"

Supervisor == INSTANCE ProcessSupervisor
  WITH phase <- [p \in Pid |-> Phase(p)], of <- [p \in Pid |-> proc[p].ext]

\* Safety half of the refinement, and the whole of it: no process is left on
\* its way up or down for ever.
Supervises == Supervisor!SupervisorSpec
SupervisesFairly == Supervisor!FairSupervisorSpec

=============================================================================
