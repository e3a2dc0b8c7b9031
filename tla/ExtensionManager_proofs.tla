----------------------- MODULE ExtensionManager_proofs -----------------------
(***************************************************************************)
(* Proofs about ExtensionManager, for every set of extensions, goroutines  *)
(* and processes, and every assignment of operations to goroutines.        *)
(*                                                                         *)
(* Every action of a goroutine t replaces thread[t] by one record.  The    *)
(* lemmas of the first part say which; those of the second part say what   *)
(* such a replacement does to the inductive invariant, by the kind of step *)
(* it is (outside start(), inside it, taking a process out of m.runtimes,  *)
(* waiting for one).  The theorems then have one line per action.          *)
(***************************************************************************)
EXTENDS ExtensionManager, TLAPS

USE NoneAssumption

----------------------------------------------------------------------------
\* Part 1: what an action does to the goroutine that takes it

\* Goroutine t goes to label l, owning h from now on; the others stay put.
\* Within a call it keeps working on the same extension.
Becomes(t, l, h) ==
  /\ thread' \in [Thread -> Goroutine]
  /\ thread'[t].pc = l
  /\ thread'[t].hold = h
  /\ \A u \in Thread : u # t => thread'[u] = thread[u]

SameCall(t) == thread'[t].pc # "idle" => thread'[t].ext = thread[t].ext

\* The parts of a goroutine's record have the types the record's type says.
LEMMA GoroutineFields ==
  ASSUME TypeOK, NEW t \in Thread
  PROVE  /\ thread[t] \in Goroutine
         /\ thread[t].pc \in Label
         /\ thread[t].op \in Operation \cup {"none"}
         /\ thread[t].ext \in Ext \cup {None}
         /\ thread[t].seen \in Row
         /\ thread[t].hold \in Pid \cup {None}
  BY DEF TypeOK, Goroutine

LEMMA IdleType == Idle \in Goroutine
  BY DEF Idle, Goroutine, Absent, Row, Label, Elsewhere

\* Goto moves the program counter only.
LEMMA GotoBecomes ==
  ASSUME TypeOK, NEW t \in Thread, NEW l \in Label, Goto(t, l)
  PROVE  /\ Becomes(t, l, thread[t].hold)
         /\ SameCall(t)
         /\ thread'[t].seen = thread[t].seen
  BY DEF TypeOK, Goto, Becomes, SameCall, Goroutine

\* A goroutine that moves on and changes what it owns.
LEMMA OwnerBecomes ==
  ASSUME TypeOK, NEW t \in Thread, NEW l \in Label, NEW h \in Pid \cup {None},
         thread' = [thread EXCEPT ![t].pc = l, ![t].hold = h]
  PROVE  /\ Becomes(t, l, h)
         /\ SameCall(t)
         /\ thread'[t].seen = thread[t].seen
  <1>1. thread[t] \in Goroutine /\ thread \in [Thread -> Goroutine]
    BY DEF TypeOK
  <1>2. PICK g : g = [thread[t] EXCEPT !.pc = l, !.hold = h]
    OBVIOUS
  <1>3. g \in Goroutine
    BY <1>1, <1>2 DEF Goroutine
  <1>4. /\ g.pc = l /\ g.hold = h
        /\ g.ext = thread[t].ext /\ g.seen = thread[t].seen
    BY <1>1, <1>2 DEF Goroutine
  <1>5. thread' = [thread EXCEPT ![t] = g]
    BY <1>2
  <1>6. /\ thread' \in [Thread -> Goroutine]
        /\ thread'[t] = g
        /\ \A u \in Thread : u # t => thread'[u] = thread[u]
    BY <1>1, <1>3, <1>5
  <1>. QED
    BY <1>4, <1>6 DEF Becomes, SameCall

\* Return clears the goroutine.
LEMMA ReturnBecomes ==
  ASSUME TypeOK, NEW t \in Thread, Return(t)
  PROVE  Becomes(t, "idle", None) /\ SameCall(t) /\ thread'[t] = Idle
  <1>1. thread' \in [Thread -> Goroutine]
    BY IdleType DEF TypeOK, Return
  <1>2. thread'[t] = Idle
    BY DEF TypeOK, Return
  <1>3. \A u \in Thread : u # t => thread'[u] = thread[u]
    BY DEF TypeOK, Return
  <1>. QED
    BY <1>1, <1>2, <1>3 DEF Becomes, SameCall, Idle

\* A goroutine without a process keeps none wherever it continues.
LEMMA ContinueBecomes ==
  ASSUME TypeOK, NEW t \in Thread, NEW l \in Label, Continue(t, l), thread[t].hold = None
  PROVE  /\ Becomes(t, l, None)
         /\ SameCall(t)
         /\ l # "idle" => thread'[t].seen = thread[t].seen
  BY GotoBecomes, ReturnBecomes DEF Continue

\* Release drops the process.
LEMMA ReleaseBecomes ==
  ASSUME TypeOK, NEW t \in Thread, NEW l \in Label, Release(t, l)
  PROVE  /\ Becomes(t, l, None)
         /\ SameCall(t)
         /\ l # "idle" => thread'[t].seen = thread[t].seen
  <1>1. CASE l = "idle"
    BY <1>1, ReturnBecomes DEF Release, Return
  <1>2. CASE l # "idle"
    <2>1. thread' = [thread EXCEPT ![t].pc = l, ![t].hold = None]
      BY <1>2 DEF Release
    <2>. QED
      BY <2>1, OwnerBecomes
  <1>. QED
    BY <1>1, <1>2

\* The places where the callers of Stop and start() continue are outside
\* start(), and own no process there.
LEMMA Continuations ==
  ASSUME NEW t
  PROVE  /\ AfterLoad(thread[t].op) \in Elsewhere
         /\ AfterStop(t) \in Elsewhere
         /\ AfterStart(t) \in Elsewhere
         /\ AfterFailedStart(t) \in Elsewhere
  BY DEF AfterLoad, AfterStop, AfterStart, AfterFailedStart, Elsewhere

----------------------------------------------------------------------------
\* Part 2: the inductive invariant, and the kinds of steps that preserve it

\* A call that has begun is about some extension.
Engaged == \A t \in Thread : thread[t].pc # "idle" => thread[t].ext \in Ext

\* A goroutine inside start() holds its extension's start lock.
LockHeld ==
  \A t \in Thread : thread[t].pc \in InStart => startLock[thread[t].ext] = t

\* A goroutine owns a process exactly between the steps that say so.
HoldMatches ==
  \A t \in Thread : thread[t].hold # None <=> thread[t].pc \in Starting \cup Killing

\* Once start() has found no runtime in service, there is none until it
\* publishes one itself: only the holder of the start lock does.
NoRuntimeYet ==
  \A t \in Thread : thread[t].pc \in {"spawn"} \cup Starting =>
    runtimes[thread[t].ext] = None

\* A process runs the extension of whoever owns it.
OwnExtension ==
  /\ \A e \in Ext : runtimes[e] # None => proc[runtimes[e]].ext = e
  /\ \A t \in Thread : thread[t].hold # None =>
       proc[thread[t].hold].ext = thread[t].ext

IInv ==
  /\ TypeOK
  /\ Engaged
  /\ LockHeld
  /\ HoldMatches
  /\ NoRuntimeYet
  /\ OwnExtension
  /\ NothingLeaks
  /\ ExclusiveOwner

\* A step outside start() that owns no process, before or after, and leaves
\* m.runtimes, the start locks and the processes alone.
LEMMA OutsideStep ==
  ASSUME IInv, TypeOK', NEW t \in Thread, NEW l \in Elsewhere,
         thread[t].pc \in Elsewhere, Becomes(t, l, None), Engaged',
         UNCHANGED <<runtimes, startLock, proc>>
  PROVE  IInv'
  <1>1. thread[t].pc \notin InStart \cup Killing /\ l \notin InStart \cup Killing
    BY DEF Elsewhere, InStart, Starting, Killing
  <1>2. \A u \in Thread : thread'[u].hold = thread[u].hold
    BY <1>1 DEF IInv, HoldMatches, Becomes, InStart
  <1>3. LockHeld'
    BY <1>1 DEF IInv, LockHeld, Becomes
  <1>4. HoldMatches'
    BY <1>1 DEF IInv, HoldMatches, Becomes, InStart
  <1>5. NoRuntimeYet'
    BY <1>1 DEF IInv, NoRuntimeYet, Becomes, InStart
  <1>6. OwnExtension'
    BY <1>1, <1>4 DEF IInv, OwnExtension, HoldMatches, Becomes, InStart
  <1>7. NothingLeaks' /\ ExclusiveOwner'
    BY <1>2 DEF IInv, NothingLeaks, ExclusiveOwner, Published, Holds, Unreaped
  <1>. QED
    BY <1>3, <1>4, <1>5, <1>6, <1>7 DEF IInv

\* A step of start() from one place where it owns its process to another.
LEMMA StartingStep ==
  ASSUME IInv, TypeOK', NEW t \in Thread, NEW l \in Starting,
         thread[t].pc \in Starting, Becomes(t, l, thread[t].hold), SameCall(t),
         UNCHANGED <<runtimes, startLock, proc>>
  PROVE  IInv'
  <1>1. thread[t].pc # "idle" /\ l # "idle" /\ l \in InStart /\ thread[t].pc \in InStart
    BY DEF Starting, InStart
  <1>2. \A u \in Thread : thread'[u].hold = thread[u].hold /\ thread'[u].ext = thread[u].ext
    BY <1>1 DEF Becomes, SameCall
  <1>3. Engaged' /\ LockHeld' /\ HoldMatches' /\ NoRuntimeYet'
    BY <1>1, <1>2 DEF IInv, Engaged, LockHeld, HoldMatches, NoRuntimeYet, Becomes
  <1>4. OwnExtension'
    BY <1>2 DEF IInv, OwnExtension
  <1>5. NothingLeaks' /\ ExclusiveOwner'
    BY <1>2 DEF IInv, NothingLeaks, ExclusiveOwner, Published, Holds, Unreaped
  <1>. QED
    BY <1>3, <1>4, <1>5 DEF IInv

\* Stop and cleanupRuntime take the runtime of an extension out of the map.
LEMMA TakeStep ==
  ASSUME IInv, TypeOK', NEW t \in Thread, NEW l \in Killing,
         thread[t].pc \in Elsewhere, thread[t].pc # "idle",
         runtimes[thread[t].ext] # None,
         Becomes(t, l, runtimes[thread[t].ext]), SameCall(t),
         runtimes' = [runtimes EXCEPT ![thread[t].ext] = None],
         UNCHANGED <<startLock, proc>>
  PROVE  IInv'
  <1>. DEFINE e == thread[t].ext
              p == runtimes[e]
  <1>1. thread[t].pc \notin InStart \cup Killing /\ l \notin InStart /\ l # "idle"
    BY DEF Elsewhere, InStart, Starting, Killing
  <1>2. e \in Ext /\ p \in Pid /\ thread[t].hold = None /\ thread'[t].ext = e
    BY <1>1 DEF IInv, TypeOK, Engaged, HoldMatches, Becomes, SameCall, InStart
  <1>3. runtimes'[e] = None /\ \A f \in Ext : f # e => runtimes'[f] = runtimes[f]
    BY <1>2 DEF IInv, TypeOK
  <1>4. Engaged' /\ LockHeld'
    BY <1>1, <1>2 DEF IInv, Engaged, LockHeld, Becomes
  <1>5. HoldMatches'
    BY <1>1, <1>2 DEF IInv, HoldMatches, Becomes
  <1>6. NoRuntimeYet'
    BY <1>1, <1>3, <1>4 DEF IInv, NoRuntimeYet, Becomes, InStart, Engaged, Starting
  <1>7. OwnExtension'
    BY <1>2, <1>3 DEF IInv, OwnExtension, Becomes
  <1>8. NothingLeaks'
    BY <1>2, <1>3 DEF IInv, NothingLeaks, Published, Holds, Unreaped, Becomes
  <1>9. ExclusiveOwner'
    BY <1>2, <1>3 DEF IInv, ExclusiveOwner, Published, Holds, Unreaped, Becomes
  <1>. QED
    BY <1>4, <1>5, <1>6, <1>7, <1>8, <1>9 DEF IInv

\* Kill and Wait, by the owner of the process.  start() gives the start lock
\* back in the same step (Abort), the others hold none.
LEMMA ReapStep ==
  ASSUME IInv, TypeOK', NEW t \in Thread, NEW l \in Elsewhere,
         thread[t].pc \in Killing \cup Starting,
         Becomes(t, l, None), SameCall(t), Reap(thread[t].hold), UNCHANGED runtimes,
         \/ thread[t].pc \in Killing /\ UNCHANGED startLock
         \/ thread[t].pc \in Starting /\ Unlock(t)
  PROVE  IInv'
  <1>. DEFINE p == thread[t].hold
  <1>1. l \notin InStart \cup Killing /\ thread[t].pc # "idle"
    BY DEF Elsewhere, InStart, Starting, Killing
  <1>2. p \in Pid /\ thread[t].ext \in Ext
    BY <1>1, GoroutineFields DEF IInv, HoldMatches, Engaged
  <1>3. /\ proc'[p].state = "reaped" /\ proc'[p].ext = proc[p].ext
        /\ \A q \in Pid : q # p => proc'[q] = proc[q]
    BY <1>2 DEF IInv, TypeOK, Process, Reap
  <1>4. Engaged'
    BY <1>1, <1>2 DEF IInv, Engaged, Becomes, SameCall
  <1>5. LockHeld'
    <2>1. CASE thread[t].pc \in Killing /\ UNCHANGED startLock
      BY <2>1, <1>1 DEF IInv, LockHeld, Becomes
    <2>2. CASE thread[t].pc \in Starting /\ Unlock(t)
      <3>1. \A u \in Thread : u # t /\ thread[u].pc \in InStart => thread[u].ext # thread[t].ext
        BY <2>2 DEF IInv, LockHeld, InStart
      <3>2. \A f \in Ext : f # thread[t].ext => startLock'[f] = startLock[f]
        BY <2>2 DEF IInv, TypeOK, Unlock
      <3>3. \A u \in Thread : thread[u].pc \in InStart => thread[u].ext \in Ext
        BY DEF IInv, Engaged, InStart, Starting
      <3>. QED
        BY <1>1, <3>1, <3>2, <3>3 DEF IInv, LockHeld, Becomes
    <2>. QED
      BY <2>1, <2>2
  <1>6. HoldMatches' /\ NoRuntimeYet'
    BY <1>1 DEF IInv, HoldMatches, NoRuntimeYet, Becomes, InStart
  <1>7. OwnExtension'
    <2>1. \A q \in Pid : proc'[q].ext = proc[q].ext
      BY <1>3
    <2>2. \A u \in Thread : thread'[u].hold # None => u # t /\ thread[u].hold \in Pid
      BY GoroutineFields DEF IInv, Becomes
    <2>3. \A f \in Ext : runtimes[f] # None => runtimes[f] \in Pid
      BY DEF IInv, TypeOK
    <2>. QED
      BY <2>1, <2>2, <2>3 DEF IInv, OwnExtension, Becomes
  <1>8. NothingLeaks'
    BY <1>2, <1>3 DEF IInv, NothingLeaks, Published, Holds, Unreaped, Becomes
  <1>9. ExclusiveOwner'
    BY <1>2, <1>3 DEF IInv, ExclusiveOwner, Published, Holds, Unreaped, Becomes
  <1>. QED
    BY <1>4, <1>5, <1>6, <1>7, <1>8, <1>9 DEF IInv

----------------------------------------------------------------------------
\* Part 3: every action preserves the invariant

\* The published runtime of an extension is never one that was waited for, so
\* IsRunning says only whether there is one.
LEMMA RunningIsPublished ==
  ASSUME IInv, NEW e \in Ext
  PROVE  IsRunning(e) <=> runtimes[e] # None
  BY DEF IInv, TypeOK, IsRunning, ExclusiveOwner, Published

\* An action that owns no process before it and after it, and writes none of
\* m.runtimes, the start locks and the processes.
Bystander(t) ==
  \/ Begin(t) \/ Load(t) \/ Save(t) \/ Drop(t) \/ Quiesce(t) \/ Swap(t)
  \/ Reload(t) \/ Check(t) \/ Lookup(t) \/ Unsuppress(t) \/ Suppress(t)
  \/ Query(t) \/ Call(t) \/ Record(t)
  \/ Place(t) \/ Sync(t) \/ Scan(t) \/ Deactivate(t) \/ Select(t) \/ Gate(t)

LEMMA ElsewhereHoldsNothing ==
  ASSUME IInv, NEW t \in Thread, thread[t].pc \in Elsewhere
  PROVE  thread[t].hold = None
  BY DEF IInv, HoldMatches, Elsewhere, Starting, Killing

LEMMA ElsewhereIsLabel == Elsewhere \subseteq Label
  BY DEF Label

\* Goto, Return and Continue between two places outside start().
LEMMA MoveOutside ==
  ASSUME IInv, NEW t \in Thread, thread[t].pc \in Elsewhere, thread[t].pc # "idle",
         NEW l \in Elsewhere,
         Goto(t, l) \/ Return(t) \/ Continue(t, l)
  PROVE  /\ thread' \in [Thread -> Goroutine]
         /\ \E m \in Elsewhere : Becomes(t, m, None)
         /\ Engaged'
  <1>. USE ElsewhereHoldsNothing, ElsewhereIsLabel DEF IInv
  <1>1. PICK m \in Elsewhere : Becomes(t, m, None) /\ SameCall(t)
    <2>1. CASE Goto(t, l)
      BY <2>1, GotoBecomes
    <2>2. CASE Return(t)
      BY <2>2, ReturnBecomes DEF Elsewhere
    <2>3. CASE Continue(t, l)
      BY <2>3, ContinueBecomes
    <2>. QED
      BY <2>1, <2>2, <2>3
  <1>. QED
    BY <1>1 DEF Becomes, Engaged, SameCall

\* The same for the actions that store what they read in the goroutine.
LEMMA StoreOutside ==
  ASSUME IInv, NEW t \in Thread, NEW g \in Goroutine,
         g.pc \in Elsewhere, g.hold = None, g.ext \in Ext,
         thread' = [thread EXCEPT ![t] = g]
  PROVE  /\ thread' \in [Thread -> Goroutine]
         /\ \E m \in Elsewhere : Becomes(t, m, None)
         /\ Engaged'
  BY DEF IInv, TypeOK, Becomes, Engaged

\* The same for the actions that read a row.
LEMMA ReadOutside ==
  ASSUME IInv, NEW t \in Thread, thread[t].pc \in Elsewhere, thread[t].pc # "idle",
         NEW l \in Elsewhere, NEW r \in Row,
         thread' = [thread EXCEPT ![t].pc = l, ![t].seen = r]
  PROVE  /\ thread' \in [Thread -> Goroutine]
         /\ \E m \in Elsewhere : Becomes(t, m, None)
         /\ Engaged'
  <1>1. /\ thread[t] \in Goroutine /\ thread[t].hold = None
        /\ thread[t].ext \in Ext /\ l \in Label
    BY ElsewhereHoldsNothing, ElsewhereIsLabel DEF IInv, TypeOK, Engaged
  <1>2. PICK g : g = [thread[t] EXCEPT !.pc = l, !.seen = r]
    OBVIOUS
  <1>3. g \in Goroutine
    BY <1>1, <1>2 DEF Goroutine
  <1>4. g.pc = l /\ g.hold = None /\ g.ext \in Ext
    BY <1>1, <1>2 DEF Goroutine
  <1>5. thread' = [thread EXCEPT ![t] = g]
    BY <1>2
  <1>. QED
    BY <1>3, <1>4, <1>5, StoreOutside

\* What a bystander's step does to the goroutine that takes it.
LEMMA BystanderMoves ==
  ASSUME IInv, NEW t \in Thread, Bystander(t)
  PROVE  /\ thread' \in [Thread -> Goroutine]
         /\ \E m \in Elsewhere : Becomes(t, m, None)
         /\ Engaged'
  <1>. USE ElsewhereHoldsNothing, ElsewhereIsLabel, GoroutineFields, MoveOutside DEF IInv, At
  <1>1. CASE Begin(t)
    <2>1. PICK op \in Does[t], e \in Ext, l \in Elsewhere :
            thread' = [thread EXCEPT ![t] = [Idle EXCEPT !.op = op, !.ext = e, !.pc = l]]
      BY <1>1 DEF Begin, Elsewhere
    <2>2. op \in Operation
      BY DoesAssumption
    <2>. DEFINE g == [Idle EXCEPT !.op = op, !.ext = e, !.pc = l]
    <2>3. g \in Goroutine /\ g.pc = l /\ g.hold = None /\ g.ext = e
      BY <2>2, IdleType, ElsewhereIsLabel DEF Goroutine, Idle
    <2>. QED
      BY <2>1, <2>3, StoreOutside
  <1>2. CASE Drop(t)
    BY <1>2 DEF Drop, Elsewhere
  <1>3. CASE Swap(t)
    BY <1>3 DEF Swap, Elsewhere
  <1>4. CASE Check(t)
    BY <1>4 DEF Check, Elsewhere
  <1>5. CASE Lookup(t)
    BY <1>5 DEF Lookup, Elsewhere
  <1>6. CASE Unsuppress(t)
    BY <1>6 DEF Unsuppress, Elsewhere
  <1>7. CASE Suppress(t)
    BY <1>7 DEF Suppress, Elsewhere
  <1>8. CASE Query(t)
    BY <1>8 DEF Query, Elsewhere
  <1>9. CASE Call(t)
    BY <1>9 DEF Call, Elsewhere
  <1>10. CASE Record(t)
    BY <1>10 DEF Record, Elsewhere
  <1>11. CASE Place(t)
    BY <1>11 DEF Place, Elsewhere
  <1>12. CASE Sync(t)
    BY <1>12 DEF Sync, Elsewhere
  <1>13. CASE Scan(t)
    BY <1>13 DEF Scan, Elsewhere
  <1>14. CASE Deactivate(t)
    BY <1>14 DEF Deactivate, Elsewhere
  <1>15. CASE Gate(t)
    BY <1>15 DEF Gate, Elsewhere
  <1>16. CASE Load(t)
    <2>. DEFINE e == thread[t].ext
    <2>1. /\ e \in Ext /\ row[e] \in Row
          /\ thread[t].pc \in Elsewhere /\ thread[t].pc # "idle"
      BY <1>16 DEF Load, Engaged, Elsewhere, TypeOK
    <2>2. CASE Refused(thread[t].op, row[e])
      <3>1. Return(t)
        BY <1>16, <2>2 DEF Load
      <3>2. "idle" \in Elsewhere
        BY DEF Elsewhere
      <3>. QED
        BY <2>1, <3>1, <3>2, MoveOutside
    <2>3. CASE ~(Refused(thread[t].op, row[e]))
      <3>1. thread' = [thread EXCEPT ![t].pc = AfterLoad(thread[t].op), ![t].seen = row[e]]
        BY <1>16, <2>3 DEF Load
      <3>2. AfterLoad(thread[t].op) \in Elsewhere
        BY Continuations
      <3>. HIDE DEF e
      <3>. QED
        BY <2>1, <3>1, <3>2, ReadOutside
    <2>. QED
      BY <2>2, <2>3
  <1>17. CASE Save(t)
    <2>. DEFINE e == thread[t].ext
                g(l, op, r) == [thread[t] EXCEPT !.pc = l, !.seen = r, !.op = op]
    <2>1. Return(t) \/ \E op \in Operation, r \in Row : thread' = [thread EXCEPT ![t] = g("stop", op, r)]
      <3>1. \A s \in {"inactive", "active"} : [thread[t].seen EXCEPT !.status = s] \in Row
        BY DEF Row
      <3>2. ASSUME ~Return(t)
            PROVE  \E op \in Operation, r \in Row : thread' = [thread EXCEPT ![t] = g("stop", op, r)]
        <4>1. PICK status \in {"inactive", "active"} :
                thread' = [thread EXCEPT
                  ![t].pc = "stop", ![t].seen = [thread[t].seen EXCEPT !.status = status],
                  ![t].op = IF status = "inactive" /\ thread[t].seen.status = "active"
                            THEN "stop" ELSE "restart"]
          BY <1>17, <3>2 DEF Save
        <4>2. PICK op \in Operation :
                thread' = [thread EXCEPT
                  ![t].pc = "stop", ![t].seen = [thread[t].seen EXCEPT !.status = status],
                  ![t].op = op]
          BY <4>1 DEF Operation
        <4>3. PICK r \in Row : r = [thread[t].seen EXCEPT !.status = status]
          BY <3>1
        <4>4. thread' = [thread EXCEPT ![t] = g("stop", op, r)]
          BY <4>2, <4>3
        <4>. HIDE DEF g
        <4>. QED
          BY <4>4
      <3>. QED
        BY <3>2
    <2>2. e \in Ext /\ thread[t].pc \in Elsewhere /\ thread[t].pc # "idle"
      BY <1>17 DEF Save, Engaged, Elsewhere
    <2>3. "stop" \in Elsewhere /\ "stop" \in Label /\ "idle" \in Elsewhere
      BY DEF Elsewhere, Label
    <2>4. ASSUME NEW op \in Operation, NEW r \in Row
          PROVE  /\ g("stop", op, r) \in Goroutine /\ g("stop", op, r).pc = "stop"
                 /\ g("stop", op, r).hold = None /\ g("stop", op, r).ext = e
      <3>1. thread[t] \in Goroutine /\ thread[t].hold = None
        BY <2>2, ElsewhereHoldsNothing DEF TypeOK
      <3>. QED
        BY <2>3, <3>1 DEF Goroutine
    <2>. QED
      <3>. HIDE DEF g
      <3>. QED
        BY <2>1, <2>2, <2>3, <2>4, StoreOutside
  <1>18. CASE Quiesce(t)
    <2>. DEFINE e == thread[t].ext
                g(l, w) == [thread[t] EXCEPT !.wasRunning = w, !.pc = l]
    <2>1. Return(t) \/ \E l \in Elsewhere, w \in BOOLEAN : thread' = [thread EXCEPT ![t] = g(l, w)]
      <3>1. CASE IsRunning(thread[t].ext)
        <4>1. IsRunning(thread[t].ext) = TRUE
          BY <3>1 DEF IsRunning
        <4>2. Return(t) \/ thread' = [thread EXCEPT ![t].wasRunning = TRUE, ![t].pc = "stop"]
          BY <1>18, <4>1 DEF Quiesce
        <4>3. ~Return(t) => thread' = [thread EXCEPT ![t] = g("stop", TRUE)]
          BY <4>2
        <4>4. "stop" \in Elsewhere
          BY DEF Elsewhere
        <4>. HIDE DEF g
        <4>. QED
          BY <4>3, <4>4
      <3>2. CASE ~IsRunning(thread[t].ext)
        <4>1. IsRunning(thread[t].ext) = FALSE
          BY <3>2 DEF IsRunning
        <4>2. Return(t) \/ thread' = [thread EXCEPT ![t].wasRunning = FALSE, ![t].pc = "swap"]
          BY <1>18, <4>1 DEF Quiesce
        <4>3. ~Return(t) => thread' = [thread EXCEPT ![t] = g("swap", FALSE)]
          BY <4>2
        <4>4. "swap" \in Elsewhere
          BY DEF Elsewhere
        <4>. HIDE DEF g
        <4>. QED
          BY <4>3, <4>4
      <3>. QED
        BY <3>1, <3>2
    <2>2. e \in Ext /\ thread[t].pc \in Elsewhere /\ thread[t].pc # "idle"
      BY <1>18 DEF Quiesce, Engaged, Elsewhere
    <2>3. \A l \in Elsewhere, w \in BOOLEAN :
            /\ g(l, w) \in Goroutine /\ g(l, w).pc = l
            /\ g(l, w).hold = None /\ g(l, w).ext = e
      BY <2>2 DEF Goroutine
    <2>. QED
      <3>. HIDE DEF g
      <3>1. CASE Return(t)
        BY <2>2, <3>1, MoveOutside
      <3>2. ASSUME NEW l \in Elsewhere, NEW w \in BOOLEAN,
                   thread' = [thread EXCEPT ![t] = g(l, w)]
            PROVE  /\ thread' \in [Thread -> Goroutine]
                   /\ \E m \in Elsewhere : Becomes(t, m, None)
                   /\ Engaged'
        BY <2>2, <2>3, <3>2, StoreOutside
      <3>. QED
        BY <2>1, <3>1, <3>2
  <1>19. CASE Reload(t)
    <2>. DEFINE e == thread[t].ext
    <2>1. /\ e \in Ext /\ row[e] \in Row
          /\ thread[t].pc \in Elsewhere /\ thread[t].pc # "idle"
      BY <1>19 DEF Reload, Engaged, Elsewhere, TypeOK
    <2>2. CASE row[e].status = "absent"
      <3>1. Return(t)
        BY <1>19, <2>2 DEF Reload
      <3>2. "idle" \in Elsewhere
        BY DEF Elsewhere
      <3>. QED
        BY <2>1, <3>1, <3>2, MoveOutside
    <2>3. CASE ~(row[e].status = "absent")
      <3>1. thread' = [thread EXCEPT ![t].pc = "unsuppress", ![t].seen = row[e]]
        BY <1>19, <2>3 DEF Reload
      <3>2. "unsuppress" \in Elsewhere
        BY DEF Elsewhere
      <3>. HIDE DEF e
      <3>. QED
        BY <2>1, <3>1, <3>2, ReadOutside
    <2>. QED
      BY <2>2, <2>3
  <1>20. CASE Select(t)
    <2>. DEFINE e == thread[t].ext
    <2>1. /\ e \in Ext /\ row[e] \in Row
          /\ thread[t].pc \in Elsewhere /\ thread[t].pc # "idle"
      BY <1>20 DEF Select, Engaged, Elsewhere, TypeOK
    <2>2. CASE row[e].status # "active"
      <3>1. Return(t)
        BY <1>20, <2>2 DEF Select
      <3>2. "idle" \in Elsewhere
        BY DEF Elsewhere
      <3>. QED
        BY <2>1, <3>1, <3>2, MoveOutside
    <2>3. CASE ~(row[e].status # "active")
      <3>1. thread' = [thread EXCEPT ![t].pc = "gate", ![t].seen = row[e]]
        BY <1>20, <2>3 DEF Select
      <3>2. "gate" \in Elsewhere
        BY DEF Elsewhere
      <3>. HIDE DEF e
      <3>. QED
        BY <2>1, <3>1, <3>2, ReadOutside
    <2>. QED
      BY <2>2, <2>3
  <1>. QED
    BY <1>1, <1>2, <1>3, <1>4, <1>5, <1>6, <1>7, <1>8, <1>9, <1>10, <1>11, <1>12, <1>13, <1>14, <1>15, <1>16, <1>17, <1>18, <1>19, <1>20 DEF Bystander

\* ... and to the shared state.
LEMMA BystanderTypes ==
  ASSUME IInv, NEW t \in Thread, Bystander(t)
  PROVE  /\ TypeOK'
         /\ UNCHANGED <<runtimes, startLock, proc>>
         /\ thread[t].pc \in Elsewhere
  <1>1. thread' \in [Thread -> Goroutine]
    BY BystanderMoves
  <1>2. UNCHANGED <<runtimes, startLock, proc>> /\ thread[t].pc \in Elsewhere
    BY DEF Bystander, Begin, Load, Save, Drop, Quiesce, Swap, Reload, Check, Lookup,
           Unsuppress, Suppress, Query, Call, Record, Place, Sync, Scan, Deactivate,
           Select, Gate, At, Elsewhere
  <1>3. thread[t].pc # "idle" => thread[t].ext \in Ext
    BY DEF IInv, Engaged
  <1>4. thread[t].seen \in Row /\ \A e \in Ext : row[e] \in Row
    BY GoroutineFields DEF IInv, TypeOK
  <1>5. row' \in [Ext -> Row]
    <2>1. \A r \in Row, v \in {"inactive", "active"} :
            [r EXCEPT !.status = v] \in Row /\ [r EXCEPT !.installed = TRUE] \in Row
      BY DEF Row
    <2>2. Absent \in Row /\ [status |-> "inactive", installed |-> FALSE] \in Row
      BY DEF Row, Absent
    <2>3. UNCHANGED row \/ \E r \in Row : row' = [row EXCEPT ![thread[t].ext] = r]
      <3>1. CASE Save(t)
        BY <3>1, <2>1, <1>4 DEF Save, SetRow
      <3>2. CASE Drop(t)
        BY <3>2, <2>2 DEF Drop, SetRow
      <3>3. CASE Record(t)
        BY <3>3, <2>1, <1>3, <1>4 DEF Record, MarkInstalled, SetRow, At
      <3>4. CASE Sync(t)
        BY <3>4, <2>2 DEF Sync, SetRow
      <3>5. CASE Deactivate(t)
        BY <3>5, <2>1, <1>3, <1>4 DEF Deactivate, SetRow, At
      <3>. QED
        BY <3>1, <3>2, <3>3, <3>4, <3>5
        DEF Bystander, Begin, Load, Quiesce, Swap, Reload, Check, Lookup, Unsuppress,
            Suppress, Query, Call, Place, Scan, Select, Gate
    <2>. QED
      BY <2>3 DEF IInv, TypeOK
  <1>6. binary' \subseteq Ext
    BY <1>3 DEF IInv, TypeOK, Bystander, Begin, Load, Save, Drop, Quiesce, Swap, Reload,
            Check, Lookup, Unsuppress, Suppress, Query, Call, Record, Place, Sync, Scan,
            Deactivate, Select, Gate, At
  <1>7. suppressed' \subseteq Ext
    BY <1>3 DEF IInv, TypeOK, Bystander, Begin, Load, Save, Drop, Quiesce, Swap, Reload,
            Check, Lookup, Unsuppress, Suppress, Query, Call, Record, Place, Sync, Scan,
            Deactivate, Select, Gate, At
  <1>8. setup' \in [Ext -> {"never", "once", "again"}]
    BY DEF IInv, TypeOK, Bystander, Begin, Load, Save, Drop, Quiesce, Swap, Reload,
            Check, Lookup, Unsuppress, Suppress, Query, Call, Record, Place, Sync, Scan,
            Deactivate, Select, Gate, Installed
  <1>. QED
    BY <1>1, <1>2, <1>5, <1>6, <1>7, <1>8 DEF IInv, TypeOK

LEMMA BystanderPreserves ==
  ASSUME IInv, NEW t \in Thread, Bystander(t)
  PROVE  IInv'
  BY BystanderMoves, BystanderTypes, OutsideStep

\* Stop and disableFailedExtension, up to the end of their critical sections.
LEMMA StopPreserves ==
  ASSUME IInv, NEW t \in Thread, Stop(t)
  PROVE  IInv'
  <1>. USE ElsewhereHoldsNothing, ElsewhereIsLabel, GoroutineFields DEF IInv, At
  <1>. DEFINE e == thread[t].ext
  <1>1. /\ thread[t].pc \in Elsewhere /\ thread[t].pc # "idle" /\ e \in Ext
        /\ suppressed' \subseteq Ext
    BY DEF Stop, Elsewhere, Engaged, TypeOK
  <1>2. CASE runtimes[e] = None
    <2>1. Continue(t, AfterStop(t)) /\ UNCHANGED <<runtimes, startLock, proc>>
      BY <1>2 DEF Stop
    <2>2. TypeOK'
      BY <1>1, <2>1, MoveOutside, Continuations DEF Stop, TypeOK
    <2>. QED
      BY <1>1, <2>1, <2>2, MoveOutside, Continuations, OutsideStep
  <1>3. CASE runtimes[e] # None
    <2>1. /\ thread' = [thread EXCEPT ![t].pc = "kill", ![t].hold = runtimes[e]]
          /\ runtimes' = [runtimes EXCEPT ![e] = None]
          /\ UNCHANGED <<row, binary, startLock, proc, setup>>
      BY <1>3 DEF Stop
    <2>2. "kill" \in Label /\ "kill" \in Killing /\ runtimes[e] \in Pid \cup {None}
      BY <1>1 DEF Label, Killing, TypeOK
    <2>3. Becomes(t, "kill", runtimes[e]) /\ SameCall(t)
      BY <1>1, <2>1, <2>2, OwnerBecomes
    <2>4. TypeOK'
      BY <1>1, <2>1, <2>3 DEF TypeOK, Becomes
    <2>. QED
      BY <1>1, <1>3, <2>1, <2>2, <2>3, <2>4, TakeStep
  <1>. QED
    BY <1>2, <1>3

LEMMA CleanupPreserves ==
  ASSUME IInv, NEW t \in Thread, Cleanup(t)
  PROVE  IInv'
  <1>. USE ElsewhereHoldsNothing, ElsewhereIsLabel, GoroutineFields DEF IInv, At
  <1>. DEFINE e == thread[t].ext
  <1>1. thread[t].pc \in Elsewhere /\ thread[t].pc # "idle" /\ e \in Ext
    BY DEF Cleanup, Elsewhere, Engaged, TypeOK
  <1>2. CASE runtimes[e] = None
    <2>1. Goto(t, "suppress") /\ UNCHANGED <<row, binary, suppressed, runtimes, startLock, proc, setup>>
      BY <1>2 DEF Cleanup
    <2>2. "suppress" \in Elsewhere
      BY DEF Elsewhere
    <2>3. TypeOK'
      BY <1>1, <2>1, <2>2, MoveOutside DEF TypeOK
    <2>. QED
      BY <1>1, <2>1, <2>2, <2>3, MoveOutside, OutsideStep
  <1>3. CASE runtimes[e] # None
    <2>1. /\ thread' = [thread EXCEPT ![t].pc = "discard", ![t].hold = runtimes[e]]
          /\ runtimes' = [runtimes EXCEPT ![e] = None]
          /\ UNCHANGED <<row, binary, suppressed, startLock, proc, setup>>
      BY <1>3 DEF Cleanup
    <2>2. "discard" \in Label /\ "discard" \in Killing /\ runtimes[e] \in Pid \cup {None}
      BY <1>1 DEF Label, Killing, TypeOK
    <2>3. Becomes(t, "discard", runtimes[e]) /\ SameCall(t)
      BY <1>1, <2>1, <2>2, OwnerBecomes
    <2>4. TypeOK'
      BY <1>1, <2>1, <2>3 DEF TypeOK, Becomes
    <2>. QED
      BY <1>1, <1>3, <2>1, <2>2, <2>3, <2>4, TakeStep
  <1>. QED
    BY <1>2, <1>3

\* The three places that kill and wait.
LEMMA ReapPreserves ==
  ASSUME IInv, NEW t \in Thread, Kill(t) \/ Discard(t) \/ Abort(t)
  PROVE  IInv'
  <1>. USE ElsewhereIsLabel, GoroutineFields, Continuations DEF IInv, At
  <1>1. PICK l \in Elsewhere :
          /\ Release(t, l) /\ Reap(thread[t].hold) /\ UNCHANGED <<row, binary, runtimes, suppressed, setup>>
          /\ \/ thread[t].pc \in Killing /\ UNCHANGED startLock
             \/ thread[t].pc \in Starting /\ Unlock(t)
    <2>1. CASE Kill(t)
      BY <2>1 DEF Kill, Killing
    <2>2. CASE Discard(t)
      BY <2>2 DEF Discard, Killing, Elsewhere
    <2>3. CASE Abort(t)
      BY <2>3 DEF Abort, Starting
    <2>. QED
      BY <2>1, <2>2, <2>3
  <1>2. Becomes(t, l, None) /\ SameCall(t)
    BY <1>1, ReleaseBecomes
  <1>3. proc' \in [Pid -> Process]
    <2>1. \A q \in Process : [q EXCEPT !.state = "reaped"] \in Process
      BY DEF Process
    <2>2. proc \in [Pid -> Process]
      BY DEF TypeOK
    <2>. QED
      BY <1>1, <2>1, <2>2 DEF Reap
  <1>4. startLock' \in [Ext -> Thread \cup {None}]
    BY <1>1 DEF Unlock, TypeOK
  <1>5. TypeOK'
    BY <1>1, <1>2, <1>3, <1>4 DEF TypeOK, Becomes
  <1>. QED
    BY <1>1, <1>2, <1>5, ReapStep

\* start() takes the lock.
LEMMA AcquirePreserves ==
  ASSUME IInv, NEW t \in Thread, Acquire(t)
  PROVE  IInv'
  <1>. DEFINE e == thread[t].ext
  <1>1. thread[t].pc = "acquire" /\ e \in Ext /\ startLock[e] = None /\ thread[t].hold = None
    BY ElsewhereHoldsNothing DEF Acquire, At, IInv, Engaged, Elsewhere
  <1>2. Becomes(t, "inspect", None) /\ SameCall(t)
    BY <1>1, GotoBecomes DEF Acquire, IInv, Label, InStart
  <1>3. /\ startLock' = [startLock EXCEPT ![e] = t]
        /\ UNCHANGED <<row, binary, runtimes, suppressed, proc, setup>>
    BY DEF Acquire
  <1>4. startLock' \in [Ext -> Thread \cup {None}] /\ startLock'[e] = t
        /\ \A f \in Ext : f # e => startLock'[f] = startLock[f]
    BY <1>1, <1>3 DEF IInv, TypeOK
  <1>5. TypeOK'
    BY <1>2, <1>3, <1>4 DEF IInv, TypeOK, Becomes
  <1>6. Engaged'
    BY <1>1, <1>2 DEF IInv, Engaged, Becomes, SameCall
  <1>7. LockHeld'
    <2>1. \A u \in Thread : thread[u].pc \in InStart => thread[u].ext \in Ext /\ thread[u].ext # e
      BY <1>1 DEF IInv, LockHeld, Engaged, InStart, Starting
    <2>. QED
      BY <1>2, <1>4, <2>1 DEF IInv, LockHeld, Becomes, SameCall
  <1>8. HoldMatches' /\ NoRuntimeYet'
    BY <1>1, <1>2, <1>3 DEF IInv, HoldMatches, NoRuntimeYet, Becomes, Starting, Killing
  <1>9. \A u \in Thread : thread'[u].hold = thread[u].hold /\ (u # t => thread'[u] = thread[u])
    BY <1>1, <1>2 DEF Becomes
  <1>10. OwnExtension'
    BY <1>1, <1>3, <1>9 DEF IInv, OwnExtension
  <1>11. NothingLeaks' /\ ExclusiveOwner'
    BY <1>3, <1>9 DEF IInv, NothingLeaks, ExclusiveOwner, Published, Holds, Unreaped
  <1>. QED
    BY <1>5, <1>6, <1>7, <1>8, <1>10, <1>11 DEF IInv

\* Leaving start() without a process: the runtime was up, or the fork failed.
LEMMA LeaveStart ==
  ASSUME IInv, NEW t \in Thread, thread[t].pc \in {"inspect", "spawn"},
         NEW l \in Elsewhere, Continue(t, l), Unlock(t),
         UNCHANGED <<row, binary, runtimes, suppressed, proc, setup>>
  PROVE  IInv'
  <1>. DEFINE e == thread[t].ext
  <1>1. e \in Ext /\ thread[t].hold = None /\ startLock[e] = t
    BY DEF IInv, Engaged, HoldMatches, LockHeld, Starting, Killing, InStart
  <1>2. Becomes(t, l, None) /\ SameCall(t)
    BY <1>1, ContinueBecomes, ElsewhereIsLabel DEF IInv
  <1>3. startLock' \in [Ext -> Thread \cup {None}]
        /\ \A f \in Ext : f # e => startLock'[f] = startLock[f]
    BY DEF IInv, TypeOK, Unlock
  <1>4. l \notin InStart \cup Killing
    BY DEF Elsewhere, InStart, Starting, Killing
  <1>5. TypeOK' /\ Engaged'
    BY <1>1, <1>2, <1>3 DEF IInv, TypeOK, Engaged, Becomes, SameCall
  <1>6. LockHeld'
    <2>1. \A u \in Thread : u # t /\ thread[u].pc \in InStart =>
            thread[u].ext \in Ext /\ thread[u].ext # e
      BY <1>1 DEF IInv, LockHeld, Engaged, InStart, Starting
    <2>. QED
      BY <1>2, <1>3, <1>4, <2>1 DEF IInv, LockHeld, Becomes
  <1>7. HoldMatches' /\ NoRuntimeYet'
    BY <1>1, <1>2, <1>4 DEF IInv, HoldMatches, NoRuntimeYet, Becomes, InStart
  <1>8. \A u \in Thread : thread'[u].hold = thread[u].hold /\ (u # t => thread'[u] = thread[u])
    BY <1>1, <1>2 DEF Becomes
  <1>9. OwnExtension'
    BY <1>1, <1>8 DEF IInv, OwnExtension
  <1>10. NothingLeaks' /\ ExclusiveOwner'
    BY <1>8 DEF IInv, NothingLeaks, ExclusiveOwner, Published, Holds, Unreaped
  <1>. QED
    BY <1>5, <1>6, <1>7, <1>9, <1>10 DEF IInv

LEMMA InspectPreserves ==
  ASSUME IInv, NEW t \in Thread, Inspect(t)
  PROVE  IInv'
  <1>. DEFINE e == thread[t].ext
  <1>1. thread[t].pc = "inspect" /\ e \in Ext /\ startLock[e] = t /\ thread[t].hold = None
    BY DEF Inspect, At, IInv, Engaged, LockHeld, HoldMatches, InStart, Starting, Killing
  <1>2. CASE IsRunning(e)
    BY <1>1, <1>2, LeaveStart, Continuations DEF Inspect
  <1>3. CASE ~IsRunning(e)
    <2>1. Goto(t, "spawn") /\ UNCHANGED <<row, binary, runtimes, suppressed, startLock, proc, setup>>
      BY <1>3 DEF Inspect
    <2>2. Becomes(t, "spawn", None) /\ SameCall(t)
      BY <1>1, <2>1, GotoBecomes DEF IInv, Label, InStart
    <2>3. runtimes[e] = None
      BY <1>1, <1>3, RunningIsPublished
    <2>4. TypeOK' /\ Engaged' /\ LockHeld'
      BY <1>1, <2>1, <2>2 DEF IInv, TypeOK, Engaged, LockHeld, Becomes, SameCall, InStart
    <2>5. HoldMatches' /\ NoRuntimeYet'
      BY <1>1, <2>1, <2>2, <2>3
      DEF IInv, HoldMatches, NoRuntimeYet, Becomes, SameCall, Starting, Killing
    <2>6. \A u \in Thread : thread'[u].hold = thread[u].hold /\ (u # t => thread'[u] = thread[u])
      BY <1>1, <2>2 DEF Becomes
    <2>7. OwnExtension'
      BY <1>1, <2>1, <2>6 DEF IInv, OwnExtension
    <2>8. NothingLeaks' /\ ExclusiveOwner'
      BY <2>1, <2>6 DEF IInv, NothingLeaks, ExclusiveOwner, Published, Holds, Unreaped
    <2>. QED
      BY <2>4, <2>5, <2>7, <2>8 DEF IInv
  <1>. QED
    BY <1>2, <1>3

\* fork: the new process is unborn, so nobody owns it yet.
LEMMA SpawnPreserves ==
  ASSUME IInv, NEW t \in Thread, Spawn(t)
  PROVE  IInv'
  <1>. DEFINE e == thread[t].ext
  <1>1. /\ thread[t].pc = "spawn" /\ e \in Ext /\ startLock[e] = t /\ thread[t].hold = None
        /\ runtimes[e] = None
    BY DEF Spawn, At, IInv, Engaged, LockHeld, HoldMatches, NoRuntimeYet, InStart, Starting, Killing
  <1>2. CASE Unlock(t) /\ Continue(t, AfterFailedStart(t)) /\ UNCHANGED proc
    BY <1>1, <1>2, LeaveStart, Continuations DEF Spawn
  <1>3. ASSUME NEW p \in Pid, proc[p] = Unborn,
               proc' = [proc EXCEPT ![p] = [ext |-> e, state |-> "running"]],
               thread' = [thread EXCEPT ![t].pc = "await", ![t].hold = p],
               UNCHANGED <<row, binary, runtimes, suppressed, startLock, setup>>
        PROVE  IInv'
    <2>1. ~Unreaped(p)
      BY <1>3 DEF Unreaped, Unborn
    <2>2. ~Published(p) /\ \A u \in Thread : thread[u].hold # p
      BY <2>1 DEF IInv, ExclusiveOwner, Holds
    <2>3. "await" \in Label
      BY DEF Label, InStart, Starting
    <2>4. Becomes(t, "await", p) /\ SameCall(t)
      BY <1>3, <2>3, OwnerBecomes DEF IInv
    <2>5. /\ proc'[p] = [ext |-> e, state |-> "running"]
          /\ \A q \in Pid : q # p => proc'[q] = proc[q]
          /\ proc' \in [Pid -> Process]
      BY <1>1, <1>3 DEF IInv, TypeOK, Process
    <2>6. TypeOK' /\ Engaged' /\ LockHeld'
      BY <1>1, <1>3, <2>4, <2>5
      DEF IInv, TypeOK, Engaged, LockHeld, Becomes, SameCall, InStart
    <2>7. HoldMatches'
      BY <1>1, <1>3, <2>4 DEF IInv, HoldMatches, Becomes, Starting
    <2>8. NoRuntimeYet'
      BY <1>1, <1>3, <2>4 DEF IInv, NoRuntimeYet, Becomes, SameCall, Starting
    <2>9. OwnExtension'
      <3>1. \A f \in Ext : runtimes[f] # None => runtimes[f] \in Pid /\ runtimes[f] # p
        BY <2>2 DEF IInv, TypeOK, Published
      <3>2. \A u \in Thread : u # t /\ thread[u].hold # None => thread[u].hold \in Pid /\ thread[u].hold # p
        BY <2>2, GoroutineFields DEF IInv
      <3>. QED
        BY <1>1, <1>3, <2>4, <2>5, <3>1, <3>2 DEF IInv, OwnExtension, Becomes, SameCall
    <2>10. NothingLeaks'
      BY <1>1, <1>3, <2>4, <2>5 DEF IInv, NothingLeaks, Published, Holds, Unreaped, Becomes
    <2>11. ExclusiveOwner'
      BY <1>1, <1>3, <2>2, <2>4, <2>5 DEF IInv, ExclusiveOwner, Published, Holds, Unreaped, Becomes
    <2>. QED
      BY <2>6, <2>7, <2>8, <2>9, <2>10, <2>11 DEF IInv
  <1>. QED
    BY <1>2, <1>3 DEF Spawn

\* The steps of start() that leave its process where it is.
LEMMA StartingPreserves ==
  ASSUME IInv, NEW t \in Thread,
         Await(t) \/ Setup(t) \/ Mark(t) \/ (Publish(t) /\ thread[t].ext \in suppressed)
  PROVE  IInv'
  <1>. USE GoroutineFields DEF IInv, At
  <1>1. PICK l \in Starting :
          Goto(t, l) /\ UNCHANGED <<runtimes, startLock, proc>> /\ thread[t].pc \in Starting
    BY DEF Await, Setup, Mark, Publish, Starting
  <1>2. l \in Label
    BY DEF Label, InStart
  <1>3. Becomes(t, l, thread[t].hold) /\ SameCall(t)
    BY <1>1, <1>2, GotoBecomes
  <1>4. row' \in [Ext -> Row]
    <2>1. \A r \in Row : [r EXCEPT !.installed = TRUE] \in Row
      BY DEF Row
    <2>2. thread[t].ext \in Ext
      BY <1>1 DEF Engaged, Starting
    <2>3. row' = row \/ \E r \in Row : row' = [row EXCEPT ![thread[t].ext] = r]
      BY <2>1, <2>2 DEF Await, Setup, Mark, Publish, MarkInstalled, SetRow, TypeOK
    <2>. QED
      BY <2>3 DEF TypeOK
  <1>5. setup' \in [Ext -> {"never", "once", "again"}] /\ UNCHANGED <<binary, suppressed>>
    BY DEF Await, Setup, Mark, Publish, Installed, TypeOK
  <1>6. TypeOK'
    BY <1>1, <1>3, <1>4, <1>5 DEF TypeOK, Becomes
  <1>. QED
    BY <1>1, <1>3, <1>6, StartingStep

\* start() publishes: the process changes hands from the goroutine to the map,
\* whose entry was empty.
LEMMA PublishPreserves ==
  ASSUME IInv, NEW t \in Thread, Publish(t)
  PROVE  IInv'
  <1>. DEFINE e == thread[t].ext
              p == thread[t].hold
  <1>1. CASE e \in suppressed
    BY <1>1, StartingPreserves
  <1>2. CASE e \notin suppressed
    <2>1. /\ thread[t].pc = "publish" /\ e \in Ext /\ startLock[e] = t /\ p \in Pid
          /\ runtimes[e] = None
      BY GoroutineFields
      DEF Publish, At, IInv, Engaged, LockHeld, HoldMatches, NoRuntimeYet, InStart, Starting
    <2>2. /\ runtimes' = [runtimes EXCEPT ![e] = p] /\ Release(t, AfterStart(t)) /\ Unlock(t)
          /\ UNCHANGED <<row, binary, suppressed, proc, setup>>
      BY <1>2 DEF Publish
    <2>3. PICK l \in Elsewhere : l = AfterStart(t)
      BY Continuations
    <2>4. Becomes(t, l, None) /\ SameCall(t) /\ l \notin InStart \cup Killing
      BY <2>2, <2>3, ReleaseBecomes, ElsewhereIsLabel DEF IInv, Elsewhere, InStart, Starting, Killing
    <2>5. /\ startLock' \in [Ext -> Thread \cup {None}]
          /\ \A f \in Ext : f # e => startLock'[f] = startLock[f]
      BY <2>2 DEF IInv, TypeOK, Unlock
    <2>6. /\ runtimes' \in [Ext -> Pid \cup {None}] /\ runtimes'[e] = p
          /\ \A f \in Ext : f # e => runtimes'[f] = runtimes[f]
      BY <2>1, <2>2 DEF IInv, TypeOK
    <2>7. TypeOK' /\ Engaged'
      BY <2>1, <2>2, <2>4, <2>5, <2>6 DEF IInv, TypeOK, Engaged, Becomes, SameCall
    <2>8. \A u \in Thread : u # t /\ thread[u].pc \in InStart =>
            thread[u].ext \in Ext /\ thread[u].ext # e
      BY <2>1 DEF IInv, LockHeld, Engaged, InStart, Starting
    <2>9. LockHeld'
      BY <2>4, <2>5, <2>8 DEF IInv, LockHeld, Becomes
    <2>10. HoldMatches'
      BY <2>4 DEF IInv, HoldMatches, Becomes, InStart
    <2>11. NoRuntimeYet'
      BY <2>4, <2>6, <2>8 DEF IInv, NoRuntimeYet, Becomes, InStart
    <2>12. OwnExtension'
      BY <2>1, <2>2, <2>4, <2>6 DEF IInv, OwnExtension, Becomes
    <2>13. NothingLeaks'
      BY <2>1, <2>2, <2>4, <2>6 DEF IInv, NothingLeaks, Published, Holds, Unreaped, Becomes
    <2>14. ExclusiveOwner'
      BY <2>1, <2>2, <2>4, <2>6 DEF IInv, ExclusiveOwner, Published, Holds, Unreaped, Becomes
    <2>. QED
      BY <2>7, <2>9, <2>10, <2>11, <2>12, <2>13, <2>14 DEF IInv
  <1>. QED
    BY <1>1, <1>2

LEMMA ExitPreserves ==
  ASSUME IInv, NEW p \in Pid, Exit(p)
  PROVE  IInv'
  <1>1. /\ proc'[p].state = "exited" /\ proc'[p].ext = proc[p].ext
        /\ \A q \in Pid : q # p => proc'[q] = proc[q]
        /\ proc' \in [Pid -> Process]
    <2>1. \A q \in Process : [q EXCEPT !.state = "exited"] \in Process
      BY DEF Process
    <2>. QED
      BY <2>1 DEF Exit, IInv, TypeOK, Process
  <1>2. UNCHANGED <<row, binary, runtimes, suppressed, startLock, setup, thread>>
        /\ proc[p].state = "running"
    BY DEF Exit
  <1>3. TypeOK' /\ Engaged' /\ LockHeld' /\ HoldMatches' /\ NoRuntimeYet'
    BY <1>1, <1>2 DEF IInv, TypeOK, Engaged, LockHeld, HoldMatches, NoRuntimeYet
  <1>4. \A q \in Pid : proc'[q].ext = proc[q].ext
    BY <1>1
  <1>5. OwnExtension'
    <2>1. \A u \in Thread : thread[u].hold # None => thread[u].hold \in Pid
      BY GoroutineFields DEF IInv
    <2>2. \A f \in Ext : runtimes[f] # None => runtimes[f] \in Pid
      BY DEF IInv, TypeOK
    <2>. QED
      BY <1>2, <1>4, <2>1, <2>2 DEF IInv, OwnExtension
  <1>6. \A q \in Pid : Unreaped(q)' <=> Unreaped(q)
    BY <1>1, <1>2 DEF Unreaped
  <1>7. NothingLeaks' /\ ExclusiveOwner'
    BY <1>2, <1>6 DEF IInv, NothingLeaks, ExclusiveOwner, Published, Holds
  <1>. QED
    BY <1>3, <1>5, <1>7 DEF IInv

----------------------------------------------------------------------------
\* Part 4: the theorems

\* The invariant is inductive, for any sets of extensions, goroutines and
\* processes.
THEOREM Inductive == Spec => []IInv
<1>1. Init => IInv
  <2>. SUFFICES ASSUME Init PROVE IInv
    OBVIOUS
  <2>1. TypeOK
    BY IdleType DEF Init, TypeOK, Process, Unborn
  <2>2. \A t \in Thread : thread[t].pc = "idle" /\ thread[t].hold = None
    BY DEF Init, Idle
  <2>3. \A p \in Pid : ~Unreaped(p)
    BY DEF Init, Unborn, Unreaped
  <2>4. Engaged /\ LockHeld /\ HoldMatches /\ NoRuntimeYet
    BY <2>2 DEF Engaged, LockHeld, HoldMatches, NoRuntimeYet, InStart, Starting, Killing
  <2>5. OwnExtension /\ NothingLeaks /\ ExclusiveOwner
    BY <2>2, <2>3 DEF Init, OwnExtension, NothingLeaks, ExclusiveOwner, Published, Holds
  <2>. QED
    BY <2>1, <2>4, <2>5 DEF IInv
<1>2. IInv /\ [Next]_vars => IInv'
  <2>. SUFFICES ASSUME IInv, [Next]_vars PROVE IInv'
    OBVIOUS
  <2>1. ASSUME NEW t \in Thread, Begin(t) \/ Step(t) PROVE IInv'
    BY <2>1, BystanderPreserves, StopPreserves, CleanupPreserves, ReapPreserves,
       AcquirePreserves, InspectPreserves, SpawnPreserves, StartingPreserves, PublishPreserves
    DEF Step, Bystander
  <2>2. ASSUME NEW p \in Pid, Exit(p) PROVE IInv'
    BY <2>2, ExitPreserves
  <2>3. ASSUME NEW e \in Ext, RemoveBinary(e) PROVE IInv'
    BY <2>3 DEF RemoveBinary, IInv, TypeOK, Engaged, LockHeld, HoldMatches, NoRuntimeYet,
                OwnExtension, NothingLeaks, ExclusiveOwner, Published, Holds, Unreaped
  <2>4. CASE UNCHANGED vars
    BY <2>4 DEF vars, IInv, TypeOK, Engaged, LockHeld, HoldMatches, NoRuntimeYet,
                OwnExtension, NothingLeaks, ExclusiveOwner, Published, Holds, Unreaped
  <2>. QED
    BY <2>1, <2>2, <2>3, <2>4 DEF Next
<1>. QED
  BY <1>1, <1>2, PTL DEF Spec

\* TypeOK, the first conjunct of IInv, always holds.
THEOREM TypeCorrect == Spec => []TypeOK
<1>1. IInv => TypeOK
  BY DEF IInv
<1>. QED
  BY <1>1, Inductive, PTL

\* No child process is forgotten: one that has not been waited for is in m.runtimes or in
\* the hands of a goroutine that starts, stops or reaps it.
THEOREM Ownership == Spec => []NothingLeaks
<1>1. IInv => NothingLeaks
  BY DEF IInv
<1>. QED
  BY <1>1, Inductive, PTL

\* No child process has two owners, which would wait for it or kill it twice.
THEOREM SoleOwner == Spec => []ExclusiveOwner
<1>1. IInv => ExclusiveOwner
  BY DEF IInv
<1>. QED
  BY <1>1, Inductive, PTL

\* At most one process of an extension is on its way up or in service: its
\* starter holds the start lock and has found no runtime.
THEOREM SingleService == Spec => []OneServing
<1>1. ASSUME IInv PROVE OneServing
  <2>. SUFFICES ASSUME NEW e \in Ext, NEW p \in Pid, NEW q \in Pid, Serving(e, p), Serving(e, q)
                PROVE  p = q
    BY DEF OneServing
  <2>1. \A t \in Thread : thread[t].pc \in Starting /\ thread[t].ext = e =>
          runtimes[e] = None /\ startLock[e] = t
    BY <1>1 DEF IInv, NoRuntimeYet, LockHeld, InStart
  <2>. QED
    BY <2>1 DEF Serving, Holds
<1>. QED
  BY <1>1, Inductive, PTL

\* start() never overwrites an entry of m.runtimes.
THEOREM Replacement == Spec => NeverReplaced
<1>1. ASSUME IInv, [Next]_vars
      PROVE  [\A e \in Ext : runtimes[e] # None =>
                runtimes'[e] = runtimes[e] \/ runtimes'[e] = None]_vars
  <2>. SUFFICES ASSUME NEW e \in Ext, runtimes[e] # None
                PROVE  runtimes'[e] = runtimes[e] \/ runtimes'[e] = None
    OBVIOUS
  <2>1. CASE \E t \in Thread : Publish(t)
    <3>1. PICK t \in Thread : Publish(t)
      BY <2>1
    <3>2. runtimes[thread[t].ext] = None /\ thread[t].ext # e
      BY <1>1, <3>1 DEF IInv, NoRuntimeYet, Publish, At, Starting
    <3>. QED
      BY <1>1, <3>1, <3>2 DEF Publish, IInv, TypeOK
  <2>2. CASE \E t \in Thread : Stop(t) \/ Cleanup(t)
    BY <1>1, <2>2 DEF Stop, Cleanup, IInv, TypeOK
  <2>3. CASE UNCHANGED runtimes
    BY <2>3
  <2>4. CASE \E t \in Thread : Step(t) \/ Begin(t)
    <3>1. PICK t \in Thread : Step(t) \/ Begin(t)
      BY <2>4
    <3>2. CASE Bystander(t)
      BY <1>1, <3>2, <2>3, BystanderTypes
    <3>3. CASE Kill(t) \/ Discard(t) \/ Abort(t)
      BY <3>3, <2>3 DEF Kill, Discard, Abort
    <3>4. CASE Acquire(t) \/ Inspect(t) \/ Spawn(t) \/ Await(t) \/ Setup(t) \/ Mark(t)
      BY <3>4, <2>3 DEF Acquire, Inspect, Spawn, Await, Setup, Mark
    <3>. QED
      BY <3>1, <3>2, <3>3, <3>4, <2>1, <2>2 DEF Step, Bystander
  <2>. QED
    BY <1>1, <2>3, <2>4 DEF Next, Exit, RemoveBinary, vars
<1>. QED
  BY <1>1, Inductive, PTL DEF Spec, NeverReplaced

\* A stopped extension comes back only by a Start.
THEOREM StopsStick == Spec => StopSticks
<1>1. ASSUME IInv, [Next]_vars
      PROVE  [\A e \in Ext : Stopped(e) =>
                \/ Stopped(e)'
                \/ \E t \in Thread : At(t, "unsuppress") /\ thread[t].ext = e]_vars
  <2>. SUFFICES ASSUME NEW e \in Ext, Stopped(e),
                       ~ \E t \in Thread : At(t, "unsuppress") /\ thread[t].ext = e
                PROVE  Stopped(e)'
    OBVIOUS
  <2>1. ASSUME NEW t \in Thread, Begin(t) \/ Step(t)
        PROVE  e \in suppressed'
    BY <2>1 DEF Stopped, At, Step, Begin, Load, Save, Drop, Stop, Kill, Quiesce, Swap, Reload,
       Check, Lookup, Unsuppress, Acquire, Inspect, Spawn, Await, Setup, Mark, Publish, Abort,
       Cleanup, Discard, Suppress, Query, Call, Record, Place, Sync, Scan, Deactivate,
       Select, Gate
  <2>2. ASSUME NEW t \in Thread, Begin(t) \/ Step(t)
        PROVE  runtimes'[e] = None
    <3>1. CASE Publish(t)
      BY <1>1, <3>1 DEF Publish, Stopped, IInv, TypeOK
    <3>2. CASE Stop(t) \/ Cleanup(t)
      BY <1>1, <3>2 DEF Stop, Cleanup, Stopped, IInv, TypeOK
    <3>3. CASE Bystander(t)
      BY <1>1, <3>3, BystanderTypes DEF Stopped
    <3>4. CASE Kill(t) \/ Discard(t) \/ Abort(t)
      BY <3>4 DEF Kill, Discard, Abort, Stopped
    <3>5. CASE Acquire(t) \/ Inspect(t) \/ Spawn(t) \/ Await(t) \/ Setup(t) \/ Mark(t)
      BY <3>5 DEF Acquire, Inspect, Spawn, Await, Setup, Mark, Stopped
    <3>. QED
      BY <2>2, <3>1, <3>2, <3>3, <3>4, <3>5 DEF Step, Bystander
  <2>. QED
    BY <1>1, <2>1, <2>2 DEF Next, Exit, RemoveBinary, vars, Stopped
<1>. QED
  BY <1>1, Inductive, PTL DEF Spec, StopSticks

----------------------------------------------------------------------------
\* Part 5: no service before setup

\* Besides the published runtimes and the rows, the copies of rows and the
\* places in start() and Install that rely on an /install that happened.
SetupInv ==
  /\ SetupBeforeService
  /\ \A t \in Thread :
       /\ thread[t].pc # "idle"
       /\ thread[t].seen.installed \/ thread[t].pc \in {"mark", "publish", "record"}
       => setup[thread[t].ext] # "never"

\* /install is never undone, so it is enough to look at what the step writes.
LEMMA LocalSetup ==
  ASSUME IInv, SetupInv, NEW t \in Thread,
         \A e \in Ext : setup[e] # "never" => setup'[e] # "never",
         \A u \in Thread : u # t => thread'[u] = thread[u],
         SetupBeforeService',
         /\ thread'[t].pc # "idle"
         /\ thread'[t].seen.installed \/ thread'[t].pc \in {"mark", "publish", "record"}
         => setup'[thread'[t].ext] # "never"
  PROVE  SetupInv'
  BY DEF IInv, Engaged, SetupInv

\* What a goroutine knows of its extension, when it neither reads the row nor
\* reaches one of the three places.
Plain(t) ==
  /\ \A u \in Thread : u # t => thread'[u] = thread[u]
  /\ thread'[t].pc # "idle" =>
       /\ thread'[t].ext = thread[t].ext
       /\ thread'[t].seen.installed => thread[t].seen.installed
       /\ thread'[t].pc \notin {"mark", "publish", "record"}

LEMMA PlainMove ==
  ASSUME IInv, NEW t \in Thread, NEW l \in Label \ {"mark", "publish", "record"},
         thread[t].pc # "idle",
         \/ Goto(t, l)
         \/ Return(t)
         \/ Continue(t, l) /\ thread[t].hold = None
         \/ Release(t, l)
  PROVE  Plain(t)
  <1>. USE DEF IInv, Plain
  <1>1. CASE Goto(t, l)
    BY <1>1, GotoBecomes DEF Becomes, SameCall
  <1>2. CASE Return(t)
    BY <1>2, ReturnBecomes DEF Becomes
  <1>3. CASE Continue(t, l) /\ thread[t].hold = None
    BY <1>3, ContinueBecomes DEF Becomes, SameCall
  <1>4. CASE Release(t, l)
    BY <1>4, ReleaseBecomes DEF Becomes, SameCall
  <1>. QED
    BY <1>1, <1>2, <1>3, <1>4

LEMMA PlainSetup ==
  ASSUME IInv, SetupInv, NEW t \in Thread, thread[t].pc # "idle", Plain(t),
         \A e \in Ext : setup[e] # "never" => setup'[e] # "never",
         SetupBeforeService'
  PROVE  SetupInv'
  BY LocalSetup DEF Plain, SetupInv, IInv, Engaged

\* Actions that write neither the rows, nor the runtimes, nor the history, and
\* read no row.
PlainAction(t) ==
  \/ Quiesce(t) \/ Swap(t) \/ Check(t) \/ Lookup(t) \/ Unsuppress(t) \/ Suppress(t)
  \/ Query(t) \/ Place(t) \/ Scan(t) \/ Gate(t)
  \/ Kill(t) \/ Discard(t) \/ Abort(t) \/ Acquire(t) \/ Inspect(t) \/ Spawn(t)

LEMMA PlainActions ==
  ASSUME IInv, SetupInv, NEW t \in Thread, PlainAction(t)
  PROVE  SetupInv'
  <1>. USE ElsewhereHoldsNothing, Continuations, PlainMove DEF At
  <1>1. thread[t].pc # "idle" /\ UNCHANGED <<row, runtimes, setup>>
    BY DEF PlainAction, Quiesce, Swap, Check, Lookup, Unsuppress, Suppress, Query, Place, Scan,
           Gate, Kill, Discard, Abort, Acquire, Inspect, Spawn
  <1>2. Elsewhere \ {"record"} \subseteq Label \ {"mark", "publish", "record"}
        /\ {"inspect", "spawn", "await"} \subseteq Label \ {"mark", "publish", "record"}
    BY DEF Label, Elsewhere, InStart, Starting
  <1>3. /\ AfterStop(t) \in Elsewhere \ {"record"}
        /\ AfterStart(t) \in Elsewhere \ {"record"}
        /\ AfterFailedStart(t) \in Elsewhere \ {"record"}
    BY DEF AfterStop, AfterStart, AfterFailedStart, Elsewhere
  <1>4. ASSUME Swap(t) PROVE Plain(t)
    BY <1>1, <1>2, <1>3, <1>4 DEF Swap, Elsewhere, IInv, HoldMatches, Starting, Killing
  <1>5. ASSUME Check(t) PROVE Plain(t)
    BY <1>1, <1>2, <1>3, <1>5 DEF Check, Elsewhere, IInv, HoldMatches, Starting, Killing
  <1>6. ASSUME Lookup(t) PROVE Plain(t)
    BY <1>1, <1>2, <1>3, <1>6 DEF Lookup, Elsewhere, IInv, HoldMatches, Starting, Killing
  <1>7. ASSUME Unsuppress(t) PROVE Plain(t)
    BY <1>1, <1>2, <1>3, <1>7 DEF Unsuppress, Elsewhere, IInv, HoldMatches, Starting, Killing
  <1>8. ASSUME Suppress(t) PROVE Plain(t)
    BY <1>1, <1>2, <1>3, <1>8 DEF Suppress, Elsewhere, IInv, HoldMatches, Starting, Killing
  <1>9. ASSUME Place(t) PROVE Plain(t)
    BY <1>1, <1>2, <1>3, <1>9 DEF Place, Elsewhere, IInv, HoldMatches, Starting, Killing
  <1>10. ASSUME Scan(t) PROVE Plain(t)
    BY <1>1, <1>2, <1>3, <1>10 DEF Scan, Elsewhere, IInv, HoldMatches, Starting, Killing
  <1>11. ASSUME Gate(t) PROVE Plain(t)
    BY <1>1, <1>2, <1>3, <1>11 DEF Gate, Elsewhere, IInv, HoldMatches, Starting, Killing
  <1>12. ASSUME Kill(t) PROVE Plain(t)
    BY <1>1, <1>2, <1>3, <1>12 DEF Kill, Elsewhere, IInv, HoldMatches, Starting, Killing
  <1>13. ASSUME Discard(t) PROVE Plain(t)
    BY <1>1, <1>2, <1>3, <1>13 DEF Discard, Elsewhere, IInv, HoldMatches, Starting, Killing
  <1>14. ASSUME Abort(t) PROVE Plain(t)
    BY <1>1, <1>2, <1>3, <1>14 DEF Abort, Elsewhere, IInv, HoldMatches, Starting, Killing
  <1>15. ASSUME Acquire(t) PROVE Plain(t)
    BY <1>1, <1>2, <1>3, <1>15 DEF Acquire, Elsewhere, IInv, HoldMatches, Starting, Killing
  <1>16. ASSUME Inspect(t) PROVE Plain(t)
    BY <1>1, <1>2, <1>3, <1>16 DEF Inspect, Elsewhere, IInv, HoldMatches, Starting, Killing
  <1>17. ASSUME Query(t) PROVE Plain(t)
    BY <1>1, <1>2, <1>17 DEF Query, Elsewhere
  <1>18. ASSUME Quiesce(t) PROVE Plain(t)
    BY <1>1, <1>2, <1>18 DEF Quiesce, Elsewhere, Plain, IInv, TypeOK, Goroutine
  <1>19. ASSUME Spawn(t) PROVE Plain(t)
    BY <1>1, <1>2, <1>3, <1>19 DEF Spawn, Elsewhere, Plain, IInv, TypeOK, HoldMatches, Starting, Killing, Goroutine
  <1>20. Plain(t)
    BY <1>4, <1>5, <1>6, <1>7, <1>8, <1>9, <1>10, <1>11, <1>12, <1>13, <1>14, <1>15, <1>16, <1>17, <1>18, <1>19 DEF PlainAction
  <1>. QED
    BY <1>1, <1>20, PlainSetup DEF SetupInv, SetupBeforeService

\* The rest, one by one.
LEMMA SetupPreserved ==
  ASSUME IInv, SetupInv, NEW t \in Thread, Begin(t) \/ Step(t)
  PROVE  SetupInv'
  <1>. USE GoroutineFields DEF At
  <1>0. IInv'
    BY BystanderPreserves, StopPreserves, CleanupPreserves, ReapPreserves,
       AcquirePreserves, InspectPreserves, SpawnPreserves, StartingPreserves, PublishPreserves
    DEF Step, Bystander
  <1>. DEFINE e == thread[t].ext
  <1>1. thread[t].pc # "idle" => e \in Ext /\ row[e] \in Row /\ (row[e].installed => setup[e] # "never")
    BY DEF IInv, Engaged, TypeOK, SetupInv, SetupBeforeService
  <1>2. CASE Begin(t)
    <2>1. PICK op \in Does[t], f \in Ext, l \in {"sync", "place", "load"} :
            thread' = [thread EXCEPT ![t] = [Idle EXCEPT !.op = op, !.ext = f, !.pc = l]]
      BY <1>2 DEF Begin
    <2>2. thread'[t].seen = Absent /\ thread'[t].pc \notin {"mark", "publish", "record"}
          /\ \A u \in Thread : u # t => thread'[u] = thread[u]
      BY <2>1 DEF IInv, TypeOK, Idle
    <2>3. UNCHANGED <<row, runtimes, setup>> /\ ~Absent.installed
      BY <1>2 DEF Begin, Absent
    <2>. QED
      BY <2>2, <2>3, LocalSetup DEF SetupInv, SetupBeforeService
  <1>3. CASE Load(t) \/ Reload(t) \/ Select(t)
    <2>1. /\ thread[t].pc # "idle" /\ UNCHANGED <<row, runtimes, setup>>
          /\ Return(t) \/ /\ thread'[t].seen = row[e]
                          /\ thread'[t].ext = e
                          /\ thread'[t].pc \notin {"mark", "publish", "record"}
                          /\ \A u \in Thread : u # t => thread'[u] = thread[u]
      BY <1>3 DEF Load, AfterLoad, Reload, Select, IInv, TypeOK, Goroutine
    <2>2. SetupBeforeService'
      BY <2>1 DEF SetupInv, SetupBeforeService
    <2>. QED
      BY <1>1, <2>1, <2>2, LocalSetup, ReturnBecomes DEF Becomes, IInv
  <1>4. CASE Save(t)
    <2>1. PICK r \in Row : /\ r.installed = thread[t].seen.installed
                           /\ row' = [row EXCEPT ![e] = r] \/ UNCHANGED row
                           /\ \/ Return(t)
                              \/ /\ thread'[t].seen = r
                                 /\ thread'[t].ext = e
                                 /\ thread'[t].pc = "stop"
                                 /\ \A u \in Thread : u # t => thread'[u] = thread[u]
      <3>1. \A v \in {"inactive", "active"} :
              [thread[t].seen EXCEPT !.status = v] \in Row
              /\ [thread[t].seen EXCEPT !.status = v].installed = thread[t].seen.installed
        BY DEF Row, IInv
      <3>2. CASE Return(t) /\ UNCHANGED row
        BY <3>2 DEF IInv
      <3>3. CASE ~(Return(t) /\ UNCHANGED row)
        <4>1. PICK v \in {"inactive", "active"}, restart \in BOOLEAN :
                LET new == [thread[t].seen EXCEPT !.status = v] IN
                /\ SetRow(e, new)
                /\ IF v # thread[t].seen.status \/ restart
                   THEN thread' = [thread EXCEPT
                          ![t].pc = "stop", ![t].seen = new,
                          ![t].op = IF v = "inactive" /\ thread[t].seen.status = "active"
                                    THEN "stop" ELSE "restart"]
                   ELSE Return(t)
          BY <1>4, <3>3 DEF Save
        <4>. DEFINE new == [thread[t].seen EXCEPT !.status = v]
        <4>2. \/ Return(t)
              \/ /\ thread'[t].seen = new
                 /\ thread'[t].ext = e
                 /\ thread'[t].pc = "stop"
                 /\ \A u \in Thread : u # t => thread'[u] = thread[u]
          BY <4>1 DEF IInv, TypeOK, Goroutine
        <4>. HIDE DEF new
        <4>3. row' = [row EXCEPT ![e] = new]
          BY <4>1 DEF SetRow, new
        <4>. QED
          BY <3>1, <4>2, <4>3 DEF new
      <3>. QED
        BY <3>2, <3>3
    <2>2. thread[t].pc # "idle" /\ UNCHANGED <<runtimes, setup>>
      BY <1>4 DEF Save
    <2>3. SetupBeforeService'
      BY <1>1, <2>1, <2>2 DEF SetupInv, SetupBeforeService, IInv, TypeOK
    <2>. QED
      BY <1>1, <2>1, <2>2, <2>3, LocalSetup, ReturnBecomes DEF Becomes, IInv, SetupInv
  <1>5. CASE Drop(t)
    <2>1. Plain(t) /\ thread[t].pc # "idle" /\ UNCHANGED <<runtimes, setup>>
      BY <1>5, ReturnBecomes DEF Drop, Plain, Becomes, IInv
    <2>2. SetupBeforeService'
      BY <1>1, <1>5, <2>1 DEF Drop, SetRow, Absent, SetupInv, SetupBeforeService, IInv, TypeOK
    <2>. QED
      BY <2>1, <2>2, PlainSetup
  <1>6. CASE Stop(t) \/ Cleanup(t)
    <2>1. thread[t].pc # "idle" /\ UNCHANGED <<row, setup>>
          /\ \A f \in Ext : runtimes'[f] # None => runtimes[f] # None
      BY <1>1, <1>6 DEF Stop, Cleanup, IInv, TypeOK
    <2>2. Plain(t)
      <3>1. CASE Goto(t, "suppress") \/ Continue(t, AfterStop(t))
        BY <3>1, <1>6, PlainMove, ElsewhereHoldsNothing
        DEF AfterStop, Label, Elsewhere, Stop, Cleanup
      <3>2. CASE \E l \in {"kill", "discard"} :
              thread' = [thread EXCEPT ![t].pc = l, ![t].hold = runtimes[e]]
        BY <3>2 DEF Plain, IInv, TypeOK, Goroutine
      <3>. QED
        BY <1>6, <3>1, <3>2 DEF Stop, Cleanup
    <2>3. SetupBeforeService'
      BY <2>1 DEF SetupInv, SetupBeforeService
    <2>. QED
      BY <2>1, <2>2, <2>3, PlainSetup
  <1>7. CASE Await(t)
    <2>1. thread[t].pc # "idle" /\ UNCHANGED <<row, runtimes, setup>>
      BY <1>7 DEF Await
    <2>2. CASE thread[t].seen.installed
      <3>1. Goto(t, "publish") \/ Goto(t, "abort")
        BY <1>7, <2>2 DEF Await
      <3>2. "publish" \in Label /\ "abort" \in Label
        BY DEF Label, InStart, Starting
      <3>3. setup[e] # "never"
        BY <2>1, <2>2 DEF SetupInv
      <3>. QED
        BY <2>1, <3>1, <3>2, <3>3, GotoBecomes, LocalSetup
        DEF Becomes, SameCall, IInv, SetupInv, SetupBeforeService
    <2>3. CASE ~thread[t].seen.installed
      <3>1. PICK l \in {"setup", "abort"} : Goto(t, l)
        BY <1>7, <2>3 DEF Await
      <3>2. Plain(t)
        BY <2>1, <3>1, PlainMove DEF Label, InStart, Starting
      <3>. QED
        BY <2>1, <3>2, PlainSetup DEF SetupInv, SetupBeforeService
    <2>. QED
      BY <2>2, <2>3
  <1>8. CASE Setup(t) \/ Call(t)
    <2>1. thread[t].pc # "idle" /\ UNCHANGED <<row, runtimes>>
      BY <1>8 DEF Setup, Call
    <2>2. \A f \in Ext : setup[f] # "never" => setup'[f] # "never"
      BY <1>8 DEF Setup, Call, Installed, IInv, TypeOK
    <2>3. SetupBeforeService'
      BY <2>1, <2>2 DEF SetupInv, SetupBeforeService
    <2>4. CASE Installed(e)
      <3>1. setup'[e] # "never"
        BY <1>1, <2>1, <2>4 DEF Installed, IInv, TypeOK
      <3>2. (\E l \in {"mark", "record", "abort"} : Goto(t, l)) \/ Return(t)
        BY <1>8 DEF Setup, Call
      <3>3. {"mark", "record", "abort"} \subseteq Label
        BY DEF Label, InStart, Starting, Elsewhere
      <3>. QED
        BY <2>2, <2>3, <3>1, <3>2, <3>3, GotoBecomes, ReturnBecomes, LocalSetup
        DEF Becomes, SameCall, IInv
    <2>5. CASE ~Installed(e)
      <3>1. Goto(t, "abort") \/ Return(t)
        BY <1>8, <2>5 DEF Setup, Call
      <3>2. Plain(t)
        BY <2>1, <3>1, PlainMove DEF Label, InStart, Starting
      <3>. QED
        BY <2>1, <2>2, <2>3, <3>2, PlainSetup
    <2>. QED
      BY <2>4, <2>5
  <1>9. CASE Mark(t) \/ Record(t)
    <2>1. /\ thread[t].pc # "idle" /\ UNCHANGED <<runtimes, setup>>
          /\ MarkInstalled(e) \/ UNCHANGED row
      BY <1>9 DEF Mark, Record
    <2>2. setup[e] # "never" /\ e \in Ext
      BY <1>1, <1>9 DEF SetupInv, Mark, Record
    <2>3. SetupBeforeService'
      <3>1. \A f \in Ext : f # e => row'[f] = row[f]
        BY <2>1 DEF MarkInstalled, SetRow, IInv, TypeOK
      <3>. QED
        BY <2>1, <2>2, <3>1 DEF SetupInv, SetupBeforeService
    <2>4. (\E l \in {"publish", "abort"} : Goto(t, l)) \/ Return(t)
      BY <1>9 DEF Mark, Record
    <2>5. {"publish", "abort"} \subseteq Label
      BY DEF Label, InStart, Starting
    <2>6. CASE Return(t)
      BY <2>1, <2>3, <2>6, ReturnBecomes, LocalSetup DEF Becomes, IInv
    <2>7. ASSUME NEW l \in {"publish", "abort"}, Goto(t, l) PROVE SetupInv'
      BY <2>1, <2>2, <2>3, <2>5, <2>7, GotoBecomes, LocalSetup DEF Becomes, SameCall, IInv
    <2>. QED
      BY <2>4, <2>6, <2>7
  <1>10. CASE Publish(t)
    <2>1. thread[t].pc # "idle" /\ UNCHANGED <<row, setup>> /\ setup[e] # "never"
      BY <1>10 DEF Publish, SetupInv
    <2>2. SetupBeforeService'
      BY <1>1, <1>10, <2>1 DEF SetupInv, SetupBeforeService, Publish, IInv, TypeOK
    <2>3. PICK l \in Label \ {"mark", "publish", "record"} : Goto(t, l) \/ Release(t, l)
      BY <1>10 DEF Publish, AfterStart, Label, InStart, Starting, Elsewhere
    <2>4. Plain(t)
      BY <2>1, <2>3, PlainMove
    <2>. QED
      BY <2>1, <2>2, <2>4, PlainSetup
  <1>11. CASE Sync(t) \/ Deactivate(t)
    <2>1. thread[t].pc # "idle" /\ UNCHANGED <<runtimes, setup>>
      BY <1>11 DEF Sync, Deactivate
    <2>2. \A f \in Ext : row'[f].installed => row[f].installed
      <3>1. UNCHANGED row \/ \E r \in Row : (r.installed => row[e].installed)
                                             /\ row' = [row EXCEPT ![e] = r]
        <4>1. CASE Sync(t)
          BY <4>1 DEF Sync, SetRow, Row
        <4>2. CASE Deactivate(t)
          <5>1. [row[e] EXCEPT !.status = "inactive"] \in Row
                /\ [row[e] EXCEPT !.status = "inactive"].installed = row[e].installed
            BY <1>1, <2>1 DEF Row
          <5>. QED
            BY <1>1, <2>1, <4>2, <5>1 DEF Deactivate, SetRow
        <4>. QED
          BY <1>11, <4>1, <4>2
      <3>. QED
        BY <1>1, <2>1, <3>1 DEF IInv, TypeOK
    <2>3. SetupBeforeService'
      BY <2>1, <2>2 DEF SetupInv, SetupBeforeService
    <2>4. PICK l \in {"scan", "select", "idle"} : Goto(t, l) \/ Return(t)
      BY <1>11 DEF Sync, Deactivate
    <2>5. Plain(t)
      BY <2>1, <2>4, PlainMove DEF Label, Elsewhere
    <2>. QED
      BY <2>1, <2>3, <2>5, PlainSetup
  <1>. QED
    BY <1>2, <1>3, <1>4, <1>5, <1>6, <1>7, <1>8, <1>9, <1>10, <1>11, PlainActions
    DEF Step, PlainAction

\* Requests reach an extension only after its /install.
THEOREM SetupFirst == Spec => []SetupBeforeService
<1>1. Init => SetupInv
  BY DEF Init, SetupInv, SetupBeforeService, Idle
<1>2. IInv /\ SetupInv /\ [Next]_vars => SetupInv'
  <2>. SUFFICES ASSUME IInv, SetupInv, [Next]_vars PROVE SetupInv'
    OBVIOUS
  <2>1. ASSUME NEW t \in Thread, Begin(t) \/ Step(t) PROVE SetupInv'
    BY <2>1, SetupPreserved
  <2>2. CASE (\E p \in Pid : Exit(p)) \/ (\E e \in Ext : RemoveBinary(e)) \/ UNCHANGED vars
    BY <2>2 DEF Exit, RemoveBinary, vars, SetupInv, SetupBeforeService
  <2>. QED
    BY <2>1, <2>2 DEF Next
<1>3. SetupInv => SetupBeforeService
  BY DEF SetupInv
<1>. QED
  BY <1>1, <1>2, <1>3, Inductive, PTL DEF Spec

----------------------------------------------------------------------------
\* Part 6: ExtensionManager implements ProcessSupervisor, step by step: a fork is a Fork,
\* publishing is Serve, taking a runtime out of the map is Retire, waiting for a process is
\* Wait, and every other action is a stutter.

\* The phase of a process, read off its one owner.
PhaseTable ==
  \A p \in Pid :
    /\ Phase(p) \in {"unborn", "starting", "serving", "stopping", "reaped"}
    /\ Phase(p) = "unborn" <=> proc[p].state = "unborn"
    /\ Phase(p) = "reaped" <=> proc[p].state = "reaped"
    /\ Phase(p) = "serving" <=> Published(p)
    /\ Phase(p) = "starting" <=> \E t \in Thread : Holds(t, p) /\ thread[t].pc \in Starting
    /\ Phase(p) = "stopping" <=> \E t \in Thread : Holds(t, p) /\ thread[t].pc \in Killing

LEMMA PhaseTableHolds == IInv => PhaseTable
<1>. SUFFICES ASSUME IInv, NEW p \in Pid
     PROVE  /\ Phase(p) \in {"unborn", "starting", "serving", "stopping", "reaped"}
            /\ Phase(p) = "unborn" <=> proc[p].state = "unborn"
            /\ Phase(p) = "reaped" <=> proc[p].state = "reaped"
            /\ Phase(p) = "serving" <=> Published(p)
            /\ Phase(p) = "starting" <=> \E t \in Thread : Holds(t, p) /\ thread[t].pc \in Starting
            /\ Phase(p) = "stopping" <=> \E t \in Thread : Holds(t, p) /\ thread[t].pc \in Killing
  BY DEF PhaseTable
<1>1. proc[p].state \in {"unborn", "running", "exited", "reaped"}
  BY DEF IInv, TypeOK, Process
<1>2. \A t \in Thread : Holds(t, p) => thread[t].pc \in Starting \cup Killing
  BY DEF IInv, HoldMatches, Holds
<1>3. Starting \cap Killing = {}
  BY DEF Starting, Killing
<1>4. CASE ~Unreaped(p)
  <2>1. ~Published(p) /\ \A t \in Thread : ~Holds(t, p)
    BY <1>4 DEF IInv, ExclusiveOwner
  <2>2. Phase(p) = proc[p].state /\ proc[p].state \in {"unborn", "reaped"}
    BY <1>1, <1>4, <2>1 DEF Phase, Unreaped
  <2>. QED
    BY <2>1, <2>2
<1>5. CASE Unreaped(p) /\ Published(p)
  <2>1. \A t \in Thread : ~Holds(t, p)
    BY <1>5 DEF IInv, ExclusiveOwner
  <2>2. Phase(p) = "serving" /\ proc[p].state \notin {"unborn", "reaped"}
    BY <1>5 DEF Phase, Unreaped
  <2>. QED
    BY <1>5, <2>1, <2>2
<1>6. CASE Unreaped(p) /\ ~Published(p)
  <2>1. PICK t \in Thread : Holds(t, p)
    BY <1>6 DEF IInv, NothingLeaks
  <2>2. \A u \in Thread : Holds(u, p) => u = t
    BY <2>1 DEF IInv, ExclusiveOwner
  <2>3. proc[p].state \notin {"unborn", "reaped"}
    BY <1>6 DEF Unreaped
  <2>4. CASE thread[t].pc \in Starting
    <3>1. Phase(p) = "starting"
      BY <1>6, <2>1, <2>3, <2>4 DEF Phase
    <3>. QED
      BY <1>3, <1>6, <2>1, <2>2, <2>3, <2>4, <3>1
  <2>5. CASE thread[t].pc \in Killing
    <3>1. ~ \E u \in Thread : Holds(u, p) /\ thread[u].pc \in Starting
      BY <1>3, <2>2, <2>5
    <3>2. Phase(p) = "stopping"
      BY <1>6, <2>3, <3>1 DEF Phase
    <3>. QED
      BY <1>6, <2>1, <2>3, <2>5, <3>1, <3>2
  <2>. QED
    BY <1>2, <2>1, <2>4, <2>5
<1>. QED
  BY <1>4, <1>5, <1>6

\* A step that moves no process from one owner to another is a stutter.
LEMMA Stutter ==
  ASSUME PhaseTable, PhaseTable',
         \A p \in Pid : proc'[p].ext = proc[p].ext,
         \A p \in Pid : proc'[p].state = proc[p].state
                        \/ {proc'[p].state, proc[p].state} \subseteq {"running", "exited"},
         \A p \in Pid : Published(p)' <=> Published(p),
         \A t \in Thread, p \in Pid :
           /\ Holds(t, p) /\ thread[t].pc \in Starting <=>
                Holds(t, p)' /\ thread'[t].pc \in Starting
           /\ Holds(t, p) /\ thread[t].pc \in Killing <=>
                Holds(t, p)' /\ thread'[t].pc \in Killing
  PROVE  UNCHANGED Supervisor!svars
  <1>1. ASSUME NEW p \in Pid PROVE Phase(p)' = Phase(p)
    BY DEF PhaseTable
  <1>. QED
    BY <1>1 DEF Supervisor!svars

----------------------------------------------------------------------------
\* What each action does in the abstract specification

\* The table before and after a step.
Tables == PhaseTable /\ PhaseTable'

LEMMA TablesHold ==
  ASSUME IInv, IInv'
  PROVE  Tables
  <1>1. (IInv => PhaseTable) /\ (IInv => PhaseTable)'
    BY PhaseTableHolds, PTL
  <1>. QED
    BY <1>1 DEF Tables

\* A goroutine that stays inside or outside the owning places, with the same
\* process or none, and touches neither the map nor the processes.
LEMMA QuietStutter ==
  ASSUME IInv, IInv', NEW t \in Thread, UNCHANGED <<runtimes, proc>>,
         \A u \in Thread : u # t => thread'[u] = thread[u],
         \/ thread[t].hold = None /\ thread'[t].hold = None
         \/ /\ thread'[t].hold = thread[t].hold
            /\ thread[t].pc \in Starting /\ thread'[t].pc \in Starting
  PROVE  UNCHANGED Supervisor!svars
  <1>1. PhaseTable /\ PhaseTable'
    BY TablesHold DEF Tables
  <1>2. \A u \in Thread, p \in Pid :
           /\ Holds(u, p) /\ thread[u].pc \in Starting <=>
                Holds(u, p)' /\ thread'[u].pc \in Starting
           /\ Holds(u, p) /\ thread[u].pc \in Killing <=>
                Holds(u, p)' /\ thread'[u].pc \in Killing
    BY DEF Holds, Starting, Killing
  <1>3. \A p \in Pid : Published(p)' <=> Published(p)
    BY DEF Published
  <1>. QED
    BY <1>1, <1>2, <1>3, Stutter

\* A step of one process p from one phase to another.
LEMMA OnePhase ==
  ASSUME Tables, NEW p \in Pid,
         \A q \in Pid : proc'[q].ext = proc[q].ext,
         \A q \in Pid : q # p => Phase(q)' = Phase(q),
         \/ Phase(p) = "starting" /\ Phase(p)' = "serving"
         \/ Phase(p) = "serving" /\ Phase(p)' = "stopping"
         \/ Phase(p) \in {"starting", "stopping"} /\ Phase(p)' = "reaped"
  PROVE  Supervisor!SupervisorNext
  <1>. DEFINE ph == [q \in Pid |-> Phase(q)]
  <1>1. ph' = [ph EXCEPT ![p] = Phase(p)']
    OBVIOUS
  <1>2. [q \in Pid |-> proc[q].ext]' = [q \in Pid |-> proc[q].ext]
    OBVIOUS
  <1>. QED
    BY <1>1, <1>2 DEF Supervisor!SupervisorNext, Supervisor!Serve, Supervisor!Retire, Supervisor!Wait

\* The phase of a process that keeps its owners and its state is unchanged.
LEMMA SamePhase ==
  ASSUME Tables, NEW q \in Pid,
         proc'[q].state = proc[q].state,
         Published(q)' <=> Published(q),
         \A u \in Thread :
           /\ Holds(u, q) /\ thread[u].pc \in Starting <=>
                Holds(u, q)' /\ thread'[u].pc \in Starting
           /\ Holds(u, q) /\ thread[u].pc \in Killing <=>
                Holds(u, q)' /\ thread'[u].pc \in Killing
  PROVE  Phase(q)' = Phase(q)
  BY DEF Tables, PhaseTable

LEMMA TakeRetires ==
  ASSUME IInv, IInv', NEW t \in Thread, Stop(t) \/ Cleanup(t)
  PROVE  Supervisor!SupervisorNext \/ UNCHANGED Supervisor!svars
  <1>. DEFINE e == thread[t].ext
  <1>. USE DEF At
  <1>0. thread[t].pc \in Elsewhere /\ thread[t].pc # "idle" /\ e \in Ext
    BY DEF Stop, Cleanup, Elsewhere, IInv, Engaged
  <1>1. thread[t].hold = None
    BY <1>0, ElsewhereHoldsNothing
  <1>2. CASE runtimes[e] = None
    <2>1. Goto(t, "suppress") \/ Continue(t, AfterStop(t))
      BY <1>2 DEF Stop, Cleanup
    <2>2. UNCHANGED <<runtimes, proc>>
      BY <1>2 DEF Stop, Cleanup
    <2>3. PICK m \in Elsewhere : Becomes(t, m, None)
      BY <1>0, <2>1, MoveOutside, Continuations DEF Elsewhere
    <2>. QED
      BY <1>1, <2>2, <2>3, QuietStutter DEF Becomes
  <1>3. CASE runtimes[e] # None
    <2>1. PICK p \in Pid : p = runtimes[e]
      BY <1>0, <1>3 DEF IInv, TypeOK
    <2>2. PICK l \in Killing :
            /\ thread' = [thread EXCEPT ![t].pc = l, ![t].hold = p]
            /\ runtimes' = [runtimes EXCEPT ![e] = None]
            /\ UNCHANGED proc
      BY <1>3, <2>1 DEF Stop, Cleanup, Killing
    <2>3. /\ thread'[t].pc = l /\ thread'[t].hold = p
          /\ \A u \in Thread : u # t => thread'[u] = thread[u]
      BY <2>2 DEF IInv, TypeOK, Goroutine
    <2>4. /\ runtimes'[e] = None
          /\ \A f \in Ext : f # e => runtimes'[f] = runtimes[f]
      BY <1>0, <2>2 DEF IInv, TypeOK
    <2>5. Tables
      BY TablesHold
    <2>6. Phase(p) = "serving"
      BY <1>0, <2>1, <2>5 DEF Tables, PhaseTable, Published
    <2>7. Phase(p)' = "stopping"
      BY <2>1, <2>3, <2>5 DEF Tables, PhaseTable, Holds
    <2>8. ASSUME NEW q \in Pid, q # p PROVE Phase(q)' = Phase(q)
      <3>1. Published(q)' <=> Published(q)
        BY <1>0, <2>1, <2>4, <2>8 DEF Published
      <3>2. \A u \in Thread : Holds(u, q)' <=> Holds(u, q)
        BY <1>1, <2>3, <2>8 DEF Holds
      <3>3. ~Holds(t, q)
        BY <1>1 DEF Holds
      <3>. QED
        BY <2>2, <2>3, <2>5, <3>1, <3>2, <3>3, SamePhase
    <2>. QED
      BY <2>2, <2>1, <2>5, <2>6, <2>7, <2>8, OnePhase
  <1>. QED
    BY <1>2, <1>3

LEMMA ReapWaits ==
  ASSUME IInv, IInv', NEW t \in Thread, Kill(t) \/ Discard(t) \/ Abort(t)
  PROVE  Supervisor!SupervisorNext
  <1>. USE DEF At
  <1>1. /\ thread[t].pc \in Starting \cup Killing /\ UNCHANGED runtimes /\ Reap(thread[t].hold)
        /\ \E l \in Elsewhere : Release(t, l)
    BY Continuations DEF Kill, Discard, Abort, Starting, Killing, Elsewhere
  <1>2. PICK p \in Pid : p = thread[t].hold
    BY <1>1, GoroutineFields DEF IInv, HoldMatches
  <1>3. PICK l \in Elsewhere : Becomes(t, l, None)
    BY <1>1, ReleaseBecomes, ElsewhereIsLabel DEF IInv
  <1>4. /\ proc'[p].state = "reaped" /\ proc'[p].ext = proc[p].ext
        /\ \A q \in Pid : q # p => proc'[q] = proc[q]
    BY <1>1, <1>2 DEF Reap, IInv, TypeOK, Process
  <1>5. Tables
    BY TablesHold
  <1>6. Phase(p) \in {"starting", "stopping"} /\ Phase(p)' = "reaped"
    BY <1>1, <1>2, <1>4, <1>5 DEF Tables, PhaseTable, Holds
  <1>7. ASSUME NEW q \in Pid, q # p PROVE Phase(q)' = Phase(q)
    <2>1. Published(q)' <=> Published(q)
      BY <1>1 DEF Published
    <2>2. \A u \in Thread : Holds(u, q)' <=> Holds(u, q)
      BY <1>2, <1>3, <1>7 DEF Holds, Becomes
    <2>3. ~Holds(t, q)
      BY <1>2, <1>7 DEF Holds
    <2>. QED
      BY <1>3, <1>4, <1>5, <1>7, <2>1, <2>2, <2>3, SamePhase DEF Becomes
  <1>. QED
    BY <1>2, <1>4, <1>5, <1>6, <1>7, OnePhase

LEMMA PublishServes ==
  ASSUME IInv, IInv', NEW t \in Thread, Publish(t)
  PROVE  Supervisor!SupervisorNext \/ UNCHANGED Supervisor!svars
  <1>. DEFINE e == thread[t].ext
  <1>. USE DEF At
  <1>1. thread[t].pc = "publish" /\ thread[t].pc \in Starting /\ e \in Ext /\ runtimes[e] = None
        /\ UNCHANGED proc
    BY DEF Publish, Starting, IInv, Engaged, NoRuntimeYet
  <1>2. PICK p \in Pid : p = thread[t].hold
    BY <1>1, GoroutineFields DEF IInv, HoldMatches
  <1>3. CASE e \in suppressed
    <2>1. Goto(t, "abort") /\ UNCHANGED runtimes /\ "abort" \in Label
      BY <1>3 DEF Publish, Label, InStart, Starting
    <2>2. Becomes(t, "abort", p)
      BY <1>2, <2>1, GotoBecomes DEF IInv
    <2>. QED
      BY <1>1, <1>2, <2>1, <2>2, QuietStutter DEF Becomes, Starting
  <1>4. CASE e \notin suppressed
    <2>1. runtimes' = [runtimes EXCEPT ![e] = p] /\ Release(t, AfterStart(t))
      BY <1>2, <1>4 DEF Publish
    <2>2. PICK l \in Elsewhere : Becomes(t, l, None)
      BY <2>1, Continuations, ReleaseBecomes, ElsewhereIsLabel DEF IInv
    <2>3. /\ runtimes'[e] = p
          /\ \A f \in Ext : f # e => runtimes'[f] = runtimes[f]
      BY <1>1, <2>1 DEF IInv, TypeOK
    <2>4. Tables
      BY TablesHold
    <2>5. Phase(p) = "starting" /\ Phase(p)' = "serving"
      BY <1>1, <1>2, <2>3, <2>4 DEF Tables, PhaseTable, Holds, Published
    <2>6. ASSUME NEW q \in Pid, q # p PROVE Phase(q)' = Phase(q)
      <3>1. Published(q)' <=> Published(q)
        BY <1>1, <2>3, <2>6 DEF Published
      <3>2. \A u \in Thread : Holds(u, q)' <=> Holds(u, q)
        BY <1>2, <2>2, <2>6 DEF Holds, Becomes
      <3>3. ~Holds(t, q)
        BY <1>2, <2>6 DEF Holds
      <3>. QED
        BY <1>1, <2>2, <2>4, <2>6, <3>1, <3>2, <3>3, SamePhase DEF Becomes
    <2>. QED
      BY <1>1, <1>2, <2>4, <2>5, <2>6, OnePhase
  <1>. QED
    BY <1>3, <1>4

LEMMA SpawnForks ==
  ASSUME IInv, IInv', NEW t \in Thread, Spawn(t)
  PROVE  Supervisor!SupervisorNext \/ UNCHANGED Supervisor!svars
  <1>. USE DEF At
  <1>. DEFINE e == thread[t].ext
  <1>1. /\ thread[t].pc = "spawn" /\ e \in Ext /\ startLock[e] = t /\ thread[t].hold = None
        /\ runtimes[e] = None /\ UNCHANGED runtimes
    BY DEF Spawn, IInv, Engaged, LockHeld, HoldMatches, NoRuntimeYet, InStart, Starting, Killing
  <1>2. CASE Continue(t, AfterFailedStart(t)) /\ UNCHANGED proc
    <2>1. PICK l \in Elsewhere : Becomes(t, l, None)
      BY <1>1, <1>2, ContinueBecomes, Continuations, ElsewhereIsLabel DEF IInv
    <2>. QED
      BY <1>1, <1>2, <2>1, QuietStutter DEF Becomes
  <1>3. ASSUME NEW p \in Pid, proc[p] = Unborn,
               proc' = [proc EXCEPT ![p] = [ext |-> e, state |-> "running"]],
               thread' = [thread EXCEPT ![t].pc = "await", ![t].hold = p]
        PROVE  Supervisor!SupervisorNext
    <2>1. PICK f \in Ext : f = e
      BY <1>1
    <2>2. /\ proc'[p] = [ext |-> f, state |-> "running"]
          /\ \A q \in Pid : q # p => proc'[q] = proc[q]
      BY <1>3, <2>1 DEF IInv, TypeOK
    <2>3. /\ thread'[t].pc = "await" /\ thread'[t].hold = p
          /\ \A u \in Thread : u # t => thread'[u] = thread[u]
      BY <1>3 DEF IInv, TypeOK, Goroutine
    <2>4. Tables
      BY TablesHold
    <2>5. Phase(p) = "unborn" /\ Phase(p)' = "starting"
      <3>1. proc[p].state = "unborn"
        BY <1>3 DEF Unborn
      <3>2. Phase(p) = "unborn"
        BY <2>4, <3>1 DEF Tables, PhaseTable
      <3>3. Holds(t, p)' /\ thread'[t].pc \in Starting
        BY <2>3 DEF Holds, Starting
      <3>4. PhaseTable'
        BY <2>4 DEF Tables
      <3>5. \E u \in Thread : Holds(u, p)' /\ thread'[u].pc \in Starting
        BY <3>3
      <3>6. Phase(p)' = "starting"
        BY <3>4, <3>5 DEF PhaseTable
      <3>. QED
        BY <3>2, <3>6
    <2>6. ASSUME NEW q \in Pid, q # p PROVE Phase(q)' = Phase(q)
      <3>1. Published(q)' <=> Published(q)
        BY <1>1 DEF Published
      <3>2. \A u \in Thread : Holds(u, q)' <=> Holds(u, q)
        BY <1>1, <2>3, <2>6 DEF Holds
      <3>3. ~Holds(t, q)
        BY <1>1 DEF Holds
      <3>. QED
        BY <2>2, <2>3, <2>4, <2>6, <3>1, <3>2, <3>3, SamePhase
    <2>7. ASSUME NEW q \in Pid, proc[q].ext = f PROVE Phase(q) \notin {"starting", "serving"}
      <3>1. ~Published(q)
        BY <1>1, <2>1, <2>7 DEF Published, IInv, OwnExtension
      <3>2. ASSUME NEW u \in Thread, Holds(u, q), thread[u].pc \in Starting PROVE FALSE
        <4>1. thread[u].ext = f
          BY <2>7, <3>2 DEF Holds, IInv, OwnExtension
        <4>2. startLock[f] = u
          BY <3>2, <4>1 DEF IInv, LockHeld, InStart
        <4>. QED
          BY <1>1, <2>1, <3>2, <4>2 DEF Starting
      <3>. QED
        BY <2>4, <3>1, <3>2 DEF Tables, PhaseTable
    <2>. DEFINE ph == [q \in Pid |-> Phase(q)]
                own == [q \in Pid |-> proc[q].ext]
    <2>8. ph' = [ph EXCEPT ![p] = "starting"]
      BY <2>5, <2>6
    <2>9. own' = [own EXCEPT ![p] = f]
      <3>1. proc'[p].ext = f /\ \A q \in Pid : q # p => proc'[q].ext = proc[q].ext
        BY <2>2
      <3>2. [q \in Pid |-> proc[q].ext]' = [own EXCEPT ![p] = f]
        BY <3>1
      <3>. QED
        BY <3>2
    <2>10. ~Supervisor!Busy(f)
      BY <2>7 DEF Supervisor!Busy
    <2>11. Supervisor!Fork(f, p)
      BY <2>5, <2>8, <2>9, <2>10 DEF Supervisor!Fork
    <2>. QED
      BY <2>11 DEF Supervisor!SupervisorNext
  <1>. QED
    BY <1>2, <1>3 DEF Spawn

\* The remaining actions are stutters.
LEMMA OthersStutter ==
  ASSUME IInv, IInv', NEW t \in Thread,
         \/ Bystander(t) \/ Acquire(t) \/ Inspect(t)
         \/ Await(t) \/ Setup(t) \/ Mark(t)
  PROVE  UNCHANGED Supervisor!svars
  <1>. USE DEF At
  <1>1. CASE Bystander(t)
    <2>1. PICK m \in Elsewhere : Becomes(t, m, None)
      BY <1>1, BystanderMoves
    <2>2. UNCHANGED <<runtimes, proc>> /\ thread[t].hold = None
      BY <1>1, BystanderTypes, ElsewhereHoldsNothing
    <2>. QED
      BY <2>1, <2>2, QuietStutter DEF Becomes
  <1>2. CASE Acquire(t) \/ Inspect(t)
    <2>1. UNCHANGED <<runtimes, proc>> /\ thread[t].hold = None
      BY <1>2 DEF Acquire, Inspect, IInv, HoldMatches, Starting, Killing
    <2>2. PICK l \in Label : Becomes(t, l, None)
      BY <1>2, <2>1, GotoBecomes, ContinueBecomes, Continuations, ElsewhereIsLabel
      DEF Acquire, Inspect, IInv, Label, InStart
    <2>. QED
      BY <2>1, <2>2, QuietStutter DEF Becomes
  <1>3. CASE Await(t) \/ Setup(t) \/ Mark(t)
    <2>1. PICK l \in Starting :
            Goto(t, l) /\ UNCHANGED <<runtimes, proc>> /\ thread[t].pc \in Starting
      BY <1>3 DEF Await, Setup, Mark, Starting
    <2>2. Becomes(t, l, thread[t].hold)
      BY <2>1, GotoBecomes DEF IInv, Label, InStart
    <2>. QED
      BY <2>1, <2>2, QuietStutter DEF Becomes
  <1>. QED
    BY <1>1, <1>2, <1>3

LEMMA ExitStutters ==
  ASSUME IInv, IInv', NEW p \in Pid, Exit(p)
  PROVE  UNCHANGED Supervisor!svars
  <1>1. \A q \in Pid : /\ proc'[q].ext = proc[q].ext
                       /\ \/ proc'[q].state = proc[q].state
                          \/ {proc'[q].state, proc[q].state} \subseteq {"running", "exited"}
    BY DEF Exit, IInv, TypeOK, Process
  <1>2. UNCHANGED <<runtimes, thread>>
    BY DEF Exit
  <1>3. \A q \in Pid : Published(q)' <=> Published(q)
    BY <1>2 DEF Published
  <1>4. \A u \in Thread, q \in Pid : Holds(u, q)' <=> Holds(u, q)
    BY <1>2 DEF Holds
  <1>. QED
    BY <1>1, <1>2, <1>3, <1>4, TablesHold, Stutter DEF Tables

\* ExtensionManager implements ProcessSupervisor.
THEOREM Refinement == Spec => Supervises
<1>1. Init => Supervisor!SupervisorInit
  <2>. SUFFICES ASSUME Init PROVE Supervisor!SupervisorInit
    OBVIOUS
  <2>1. \A p \in Pid : proc[p].ext = None /\ proc[p].state = "unborn"
    BY DEF Init, Unborn
  <2>2. \A p \in Pid : ~Published(p) /\ ~Unreaped(p)
    BY <2>1 DEF Init, Published, Unreaped
  <2>3. \A p \in Pid : Phase(p) = "unborn"
    BY <2>1, <2>2 DEF Phase
  <2>. QED
    BY <2>1, <2>3 DEF Supervisor!SupervisorInit
<1>2. IInv /\ IInv' /\ [Next]_vars => [Supervisor!SupervisorNext]_(Supervisor!svars)
  <2>. SUFFICES ASSUME IInv, IInv', [Next]_vars
                PROVE  Supervisor!SupervisorNext \/ UNCHANGED Supervisor!svars
    OBVIOUS
  <2>1. ASSUME NEW t \in Thread, Begin(t) \/ Step(t)
        PROVE  Supervisor!SupervisorNext \/ UNCHANGED Supervisor!svars
    BY <2>1, TakeRetires, ReapWaits, PublishServes, SpawnForks, OthersStutter
    DEF Step, Bystander
  <2>2. ASSUME NEW p \in Pid, Exit(p) PROVE UNCHANGED Supervisor!svars
    BY <2>2, ExitStutters
  <2>3. CASE (\E e \in Ext : RemoveBinary(e)) \/ UNCHANGED vars
    <3>1. UNCHANGED <<runtimes, proc, thread>>
      BY <2>3 DEF RemoveBinary, vars
    <3>. QED
      BY <3>1 DEF Supervisor!svars, Phase, Published, Holds, Unreaped
  <2>. QED
    BY <2>1, <2>2, <2>3 DEF Next
<1>. QED
  BY <1>1, <1>2, Inductive, PTL DEF Spec, Supervises, Supervisor!SupervisorSpec

=============================================================================
