------------------------- MODULE ProcessSupervisor -------------------------
(***************************************************************************)
(* What the extension manager promises about the child processes of a      *)
(* site, without its locks, maps, rows and goroutines: every process it    *)
(* forks is on its way up, in service, on its way down, or waited for.     *)
(* An extension never has two processes that are on their way up or in     *)
(* service, and a process on its way up or down does not stay there.       *)
(***************************************************************************)
CONSTANTS Ext, Pid, None

VARIABLES phase,  \* phase[p]: where process p is in its life
          of      \* of[p]: the extension that p runs

svars == <<phase, of>>

Phases == {"unborn", "starting", "serving", "stopping", "reaped"}

SupervisorTypeOK ==
  /\ phase \in [Pid -> Phases]
  /\ of \in [Pid -> Ext \cup {None}]

SupervisorInit ==
  /\ phase = [p \in Pid |-> "unborn"]
  /\ of = [p \in Pid |-> None]

Busy(e) == \E q \in Pid : of[q] = e /\ phase[q] \in {"starting", "serving"}

Fork(e, p) ==
  /\ phase[p] = "unborn"
  /\ ~Busy(e)
  /\ phase' = [phase EXCEPT ![p] = "starting"]
  /\ of' = [of EXCEPT ![p] = e]

Serve(p) ==
  /\ phase[p] = "starting"
  /\ phase' = [phase EXCEPT ![p] = "serving"]
  /\ UNCHANGED of

Retire(p) ==
  /\ phase[p] = "serving"
  /\ phase' = [phase EXCEPT ![p] = "stopping"]
  /\ UNCHANGED of

Wait(p) ==
  /\ phase[p] \in {"starting", "stopping"}
  /\ phase' = [phase EXCEPT ![p] = "reaped"]
  /\ UNCHANGED of

SupervisorNext ==
  \E p \in Pid : Serve(p) \/ Retire(p) \/ Wait(p) \/ \E e \in Ext : Fork(e, p)

SupervisorSpec == SupervisorInit /\ [][SupervisorNext]_svars

\* A process that is neither unborn, serving nor reaped moves on.
SupervisorFairness == \A p \in Pid : WF_svars(Serve(p) \/ Wait(p))

FairSupervisorSpec == SupervisorSpec /\ SupervisorFairness

=============================================================================
