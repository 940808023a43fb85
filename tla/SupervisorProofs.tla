-------------------------- MODULE SupervisorProofs --------------------------
(***************************************************************************)
(* Proofs about Supervisor: every child is joined and none lives while its *)
(* worker is shown as DISABLED, for any workers, any number of racing      *)
(* permission changes and any queue capacity.                              *)
(***************************************************************************)
EXTENDS Supervisor, TLAPS

Waits == supPc \in {"stop", "launch", "haltStop"}

\* Run waits for a worker's child; while one is launched there is none yet.
CurrentIsKnown ==
    /\ Waits => current \in Workers
    /\ supPc = "launch" => process[current] = "none"

\* What stopAll has still to do: whoever has a process is on the list.
HaltCoversChildren ==
    supPc \in {"halt", "haltStop"} =>
        \A w \in Workers : process[w] = "none" \/ <<w, FALSE>> \in todo

\* Nothing has been launched before the first reconciliation.
NothingBeforeStart == supPc = "start" => \A w \in Workers : process[w] = "none"

\* The inductive invariant.
SupervisorInv ==
    /\ SupervisorTypeOK
    /\ CurrentIsKnown
    /\ HaltCoversChildren
    /\ NothingBeforeStart
    /\ ChildrenAreJoined
    /\ DisabledMeansNoChild

\* The head of a queue is one of its elements.
LEMMA HeadIsElement ==
    ASSUME NEW S, NEW s \in Seq(S), s # <<>>
    PROVE  Head(s) \in S
OBVIOUS

USE DEF Command, Nobody, Waits

\* A step that leaves Run's place, its list and the children alone keeps what
\* the invariant says about them.
LEMMA QuietStep ==
    ASSUME SupervisorInv, UNCHANGED <<supPc, todo, current, process, lost, runtime>>
    PROVE  /\ CurrentIsKnown' /\ HaltCoversChildren' /\ NothingBeforeStart'
           /\ ChildrenAreJoined' /\ DisabledMeansNoChild'
BY DEF SupervisorInv, CurrentIsKnown, HaltCoversChildren, NothingBeforeStart, ChildrenAreJoined,
       DisabledMeansNoChild

\* Clients: persisting, queueing and giving up a change.
LEMMA ClientStep ==
    ASSUME SupervisorInv, NEW c \in Command, Persist(c) \/ Enqueue(c) \/ GiveUp(c)
    PROVE  SupervisorInv'
<1>1. UNCHANGED <<supPc, todo, current, process, lost, runtime>>
  BY DEF Persist, Enqueue, GiveUp, controlVars
<1>2. SupervisorTypeOK'
  <2>1. CASE Persist(c)
    BY <2>1 DEF SupervisorInv, SupervisorTypeOK, Persist, controlVars, leaseVars
  <2>2. CASE Enqueue(c)
    BY <2>2, SupervisorAssumption DEF SupervisorInv, SupervisorTypeOK, Enqueue, controlVars, leaseVars
  <2>3. CASE GiveUp(c)
    BY <2>3 DEF SupervisorInv, SupervisorTypeOK, GiveUp, controlVars, leaseVars
  <2> QED
    BY <2>1, <2>2, <2>3
<1> QED
  BY <1>1, <1>2, QuietStep DEF SupervisorInv

\* Children, their leases, and the context.
LEMMA OutsideStep ==
    ASSUME SupervisorInv,
           \/ \E w \in Workers : \/ \E health \in {"healthy", "unhealthy"} : Report(w, health)
                                 \/ LeaseExpires(w)
           \/ CancelRun
    PROVE  SupervisorInv'
<1>1. UNCHANGED <<supPc, todo, current, process, lost, runtime>>
  BY DEF Report, LeaseExpires, CancelRun, controlVars
<1>2. SupervisorTypeOK'
  <2>1. ASSUME NEW w \in Workers, NEW health \in {"healthy", "unhealthy"}, Report(w, health)
        PROVE  SupervisorTypeOK'
    BY <2>1 DEF SupervisorInv, SupervisorTypeOK, Report, controlVars, clientVars
  <2>2. ASSUME NEW w \in Workers, LeaseExpires(w)
        PROVE  SupervisorTypeOK'
    BY <2>2 DEF SupervisorInv, SupervisorTypeOK, LeaseExpires, controlVars, clientVars
  <2>3. CASE CancelRun
    BY <2>3 DEF SupervisorInv, SupervisorTypeOK, CancelRun, controlVars, clientVars, leaseVars
  <2> QED
    BY <2>1, <2>2, <2>3
<1> QED
  BY <1>1, <1>2, QuietStep DEF SupervisorInv

\* A child dies, by itself or killed: it may stop being alive at any moment.
LEMMA DeathStep ==
    ASSUME SupervisorInv, (\E w \in Workers : ChildExits(w)) \/ KillChild
    PROVE  SupervisorInv'
<1>1. PICK w \in Workers : /\ process[w] = "alive"
                           /\ process' = [process EXCEPT ![w] = "exited"]
  BY DEF ChildExits, KillChild, SupervisorInv, CurrentIsKnown
<1>2. UNCHANGED <<supPc, todo, current, lost, runtime>>
  BY DEF ChildExits, KillChild
<1>3. SupervisorTypeOK'
  BY <1>1 DEF SupervisorInv, SupervisorTypeOK, ChildExits, KillChild, clientVars, leaseVars
<1>4. CurrentIsKnown' /\ HaltCoversChildren' /\ NothingBeforeStart'
  BY <1>1, <1>2 DEF SupervisorInv, SupervisorTypeOK, CurrentIsKnown, HaltCoversChildren, NothingBeforeStart
<1>5. ChildrenAreJoined' /\ DisabledMeansNoChild'
  BY <1>1, <1>2 DEF SupervisorInv, SupervisorTypeOK, ChildrenAreJoined, DisabledMeansNoChild
<1> QED
  BY <1>3, <1>4, <1>5 DEF SupervisorInv

\* reconcileOne without waiting: the dead child is let go of, or nothing changes
\* but what is shown and remembered.
LEMMA HandleStep ==
    ASSUME SupervisorInv, NEW w \in Workers, NEW on \in BOOLEAN,
           BuryChild(w, on) \/ StayOff(w) \/ LeaveFailed(w) \/ KeepRunning(w)
    PROVE  SupervisorInv'
<1>1. supPc = "reconcile" /\ supPc' = "reconcile" /\ lost' = lost /\ lost = {}
  BY DEF BuryChild, StayOff, LeaveFailed, KeepRunning, Handled, Drop, controlVars, SupervisorInv,
         ChildrenAreJoined
<1>2. SupervisorTypeOK'
  <2>1. CASE BuryChild(w, on)
    BY <2>1 DEF SupervisorInv, SupervisorTypeOK, BuryChild, Handled, Drop, Revoke, SetRuntime, clientVars
  <2>2. CASE StayOff(w)
    BY <2>2 DEF SupervisorInv, SupervisorTypeOK, StayOff, Handled, SetRuntime, clientVars, leaseVars
  <2>3. CASE LeaveFailed(w)
    BY <2>3 DEF SupervisorInv, SupervisorTypeOK, LeaveFailed, Handled, clientVars, leaseVars, controlVars
  <2>4. CASE KeepRunning(w)
    BY <2>4 DEF SupervisorInv, SupervisorTypeOK, KeepRunning, Handled, Refresh, Health, SetRuntime,
                clientVars, leaseVars
  <2> QED
    BY <2>1, <2>2, <2>3, <2>4
<1>3. DisabledMeansNoChild'
  <2>1. CASE BuryChild(w, on)
    BY <1>1, <2>1 DEF SupervisorInv, SupervisorTypeOK, DisabledMeansNoChild, BuryChild, Drop, SetRuntime
  <2>2. CASE StayOff(w)
    BY <1>1, <2>2 DEF SupervisorInv, SupervisorTypeOK, DisabledMeansNoChild, StayOff, SetRuntime
  <2>3. CASE LeaveFailed(w)
    BY <2>3 DEF SupervisorInv, DisabledMeansNoChild, LeaveFailed, controlVars
  <2>4. CASE KeepRunning(w)
    BY <1>1, <2>4 DEF SupervisorInv, SupervisorTypeOK, DisabledMeansNoChild, KeepRunning, Refresh,
                      Health, SetRuntime
  <2> QED
    BY <2>1, <2>2, <2>3, <2>4
<1> QED
  BY <1>1, <1>2, <1>3 DEF SupervisorInv, CurrentIsKnown, HaltCoversChildren, NothingBeforeStart,
                          ChildrenAreJoined

\* reconcileOne up to where it waits for a child.
LEMMA BeginStep ==
    ASSUME SupervisorInv, NEW w \in Workers, BeginStop(w) \/ BeginLaunch(w)
    PROVE  SupervisorInv'
<1>1. /\ supPc' \in {"stop", "launch"} /\ current' = w /\ UNCHANGED <<process, lost>>
      /\ supPc' = "launch" => process[w] = "none"
  BY DEF BeginStop, BeginLaunch
<1>2. \E s \in {"STOPPING", "STARTING"} : runtime' = [runtime EXCEPT ![w] = s]
  BY DEF BeginStop, BeginLaunch, SetRuntime
<1>3. SupervisorTypeOK'
  <2>1. CASE BeginStop(w)
    BY <2>1 DEF SupervisorInv, SupervisorTypeOK, BeginStop, Handled, SetRuntime, clientVars, leaseVars
  <2>2. CASE BeginLaunch(w)
    BY <2>2 DEF SupervisorInv, SupervisorTypeOK, BeginLaunch, Handled, SetRuntime, clientVars, leaseVars
  <2> QED
    BY <2>1, <2>2
<1>4. DisabledMeansNoChild'
  BY <1>1, <1>2 DEF SupervisorInv, SupervisorTypeOK, DisabledMeansNoChild
<1> QED
  BY <1>1, <1>3, <1>4 DEF SupervisorInv, CurrentIsKnown, HaltCoversChildren, NothingBeforeStart,
                          ChildrenAreJoined

\* The wait is over: the child was joined, or the launcher returned.
LEMMA ReturnStep ==
    ASSUME SupervisorInv, StopReturns \/ (\E ok \in BOOLEAN : LaunchReturns(ok))
    PROVE  SupervisorInv'
<1>1. supPc' = "reconcile" /\ current \in Workers /\ lost' = lost /\ lost = {}
  BY DEF StopReturns, LaunchReturns, Drop, SupervisorInv, CurrentIsKnown, ChildrenAreJoined
<1>2. CASE StopReturns
  <2>1. SupervisorTypeOK'
    BY <1>1, <1>2 DEF SupervisorInv, SupervisorTypeOK, StopReturns, Drop, Revoke, SetRuntime, clientVars
  <2>2. DisabledMeansNoChild'
    BY <1>1, <1>2 DEF SupervisorInv, SupervisorTypeOK, DisabledMeansNoChild, StopReturns, Drop, SetRuntime
  <2> QED
    BY <1>1, <2>1, <2>2 DEF SupervisorInv, CurrentIsKnown, HaltCoversChildren, NothingBeforeStart,
                            ChildrenAreJoined
<1>3. ASSUME NEW ok \in BOOLEAN, LaunchReturns(ok)
      PROVE  SupervisorInv'
  <2>1. SupervisorTypeOK'
    BY <1>1, <1>3 DEF SupervisorInv, SupervisorTypeOK, LaunchReturns, Refresh, Health, SetRuntime,
                      clientVars, leaseVars
  <2>2. DisabledMeansNoChild'
    BY <1>1, <1>3 DEF SupervisorInv, SupervisorTypeOK, DisabledMeansNoChild, LaunchReturns, Refresh,
                      Health, SetRuntime
  <2> QED
    BY <1>1, <2>1, <2>2 DEF SupervisorInv, CurrentIsKnown, HaltCoversChildren, NothingBeforeStart,
                            ChildrenAreJoined
<1> QED
  BY <1>2, <1>3

\* The selects of Run: the children stay as they are; the list of stopAll, when
\* it is drawn up, names every worker.
LEMMA SelectStep ==
    ASSUME SupervisorInv,
           Begin \/ EndReconcile \/ SelectDone \/ SelectLease \/ SelectExit \/ SelectChange \/ SelectHealth
    PROVE  SupervisorInv'
<1>1. /\ UNCHANGED <<process, lost, runtime, current, failed, everHealthy, enabled, inFlight, called>>
      /\ supPc' \in {"reconcile", "select", "halt", "returned"}
      /\ supPc' = "halt" => todo' = AllWorkers
      /\ supPc' = "returned" => supPc = "start"
  BY DEF Begin, EndReconcile, SelectDone, SelectLease, SelectExit, SelectChange, SelectHealth,
         ReconcileAll, controlVars, clientVars
<1>2. SupervisorTypeOK'
  <2>1. todo' \subseteq Workers \X BOOLEAN
    <3>1. CASE SelectChange
      <4>1. Head(changes) \in Command
        BY <3>1, HeadIsElement DEF SelectChange, SupervisorInv, SupervisorTypeOK
      <4>2. Head(changes).worker \in Workers /\ Head(changes).on \in BOOLEAN
        BY <4>1
      <4> QED
        BY <3>1, <4>2 DEF SelectChange
    <3>2. CASE ~SelectChange
      <4>1. Desired \subseteq Workers \X BOOLEAN /\ AllWorkers \subseteq Workers \X BOOLEAN
        <5>1. \A w \in Workers : <<w, enabled[w]>> \in Workers \X BOOLEAN /\ <<w, FALSE>> \in Workers \X BOOLEAN
          BY DEF SupervisorInv, SupervisorTypeOK
        <5> QED
          BY ONLY <5>1, Zenon DEF Desired, AllWorkers
      <4>2. todo' \in {todo, Desired, AllWorkers}
        BY <3>2 DEF Begin, EndReconcile, SelectDone, SelectLease, SelectExit, SelectHealth, ReconcileAll
      <4> QED
        BY <4>1, <4>2 DEF SupervisorInv, SupervisorTypeOK
    <3> QED
      BY <3>1, <3>2
  <2>2. changes' \in Seq(Command) /\ Len(changes') <= ChangeCapacity
    <3>1. CASE SelectChange
      BY <3>1, SupervisorAssumption DEF SelectChange, SupervisorInv, SupervisorTypeOK
    <3>2. CASE ~SelectChange
      BY <3>2 DEF Begin, EndReconcile, SelectDone, SelectLease, SelectExit, SelectHealth,
                  SupervisorInv, SupervisorTypeOK
    <3> QED
      BY <3>1, <3>2
  <2>3. /\ lease' = lease /\ leaseState' \in {lease, leaseState}
        /\ leaseNews' \in {leaseNews, FALSE} /\ exitNews' \in {exitNews, FALSE} /\ ctxDone' = ctxDone
    BY DEF Begin, EndReconcile, SelectDone, SelectLease, SelectExit, SelectChange, SelectHealth, leaseVars
  <2> QED
    BY <1>1, <2>1, <2>2, <2>3 DEF SupervisorInv, SupervisorTypeOK
<1>3. HaltCoversChildren'
  BY <1>1 DEF HaltCoversChildren, AllWorkers
<1>4. ChildrenAreJoined' /\ DisabledMeansNoChild' /\ NothingBeforeStart' /\ CurrentIsKnown'
  BY <1>1 DEF SupervisorInv, ChildrenAreJoined, DisabledMeansNoChild, NothingBeforeStart, CurrentIsKnown
<1> QED
  BY <1>2, <1>3, <1>4 DEF SupervisorInv

\* stopAll: a worker leaves the list when its process is gone.
LEMMA HaltStep ==
    ASSUME SupervisorInv, (\E w \in Workers : HaltOne(w)) \/ HaltStopReturns \/ HaltReturns
    PROVE  SupervisorInv'
<1>1. ASSUME NEW w \in Workers, HaltOne(w)
      PROVE  SupervisorInv'
  <2>1. SupervisorTypeOK'
    BY <1>1 DEF SupervisorInv, SupervisorTypeOK, HaltOne, SetRuntime, clientVars
  <2>2. /\ UNCHANGED <<process, lost>> /\ lost = {}
        /\ \/ supPc' = "halt" /\ process[w] = "none" /\ todo' = todo \ {<<w, FALSE>>}
           \/ supPc' = "haltStop" /\ current' = w /\ todo' = todo
        /\ supPc = "halt"
    BY <1>1 DEF HaltOne, SupervisorInv, ChildrenAreJoined
  <2>3. HaltCoversChildren'
    BY <2>2 DEF SupervisorInv, HaltCoversChildren
  <2>4. DisabledMeansNoChild'
    BY <1>1, <2>2 DEF SupervisorInv, SupervisorTypeOK, DisabledMeansNoChild, HaltOne, SetRuntime
  <2> QED
    BY <2>1, <2>2, <2>3, <2>4 DEF SupervisorInv, CurrentIsKnown, NothingBeforeStart, ChildrenAreJoined
<1>2. CASE HaltStopReturns
  <2>1. current \in Workers /\ lost' = lost /\ lost = {} /\ supPc' = "halt"
    BY <1>2 DEF HaltStopReturns, Drop, SupervisorInv, CurrentIsKnown, ChildrenAreJoined
  <2>2. SupervisorTypeOK'
    BY <1>2, <2>1 DEF SupervisorInv, SupervisorTypeOK, HaltStopReturns, Drop, Revoke, SetRuntime, clientVars
  <2>3. HaltCoversChildren'
    BY <1>2, <2>1 DEF SupervisorInv, SupervisorTypeOK, HaltCoversChildren, HaltStopReturns, Drop
  <2>4. DisabledMeansNoChild'
    BY <1>2, <2>1 DEF SupervisorInv, SupervisorTypeOK, DisabledMeansNoChild, HaltStopReturns, Drop, SetRuntime
  <2> QED
    BY <2>1, <2>2, <2>3, <2>4 DEF SupervisorInv, CurrentIsKnown, NothingBeforeStart, ChildrenAreJoined
<1>3. CASE HaltReturns
  <2>1. SupervisorTypeOK'
    BY <1>3 DEF SupervisorInv, SupervisorTypeOK, HaltReturns, clientVars, leaseVars, controlVars
  <2>2. \A w \in Workers : process[w] = "none"
    BY <1>3 DEF SupervisorInv, HaltCoversChildren, HaltReturns
  <2> QED
    BY <1>3, <2>1, <2>2 DEF HaltReturns, controlVars, SupervisorInv, CurrentIsKnown, HaltCoversChildren,
                            NothingBeforeStart, ChildrenAreJoined, DisabledMeansNoChild
<1> QED
  BY <1>1, <1>2, <1>3

\* Every reachable state of the supervisor satisfies the inductive invariant.
THEOREM SupervisorInvariant == Spec => []SupervisorInv
<1>1. Init => SupervisorInv
  <2> SUFFICES ASSUME Init PROVE SupervisorInv
    OBVIOUS
  <2>1. changes \in Seq(Command) /\ Len(changes) <= ChangeCapacity
    BY SupervisorAssumption DEF Init
  <2>2. SupervisorTypeOK
    BY <2>1 DEF Init, SupervisorTypeOK
  <2>3. CurrentIsKnown /\ HaltCoversChildren /\ NothingBeforeStart
    BY DEF Init, CurrentIsKnown, HaltCoversChildren, NothingBeforeStart
  <2>4. ChildrenAreJoined /\ DisabledMeansNoChild
    BY DEF Init, ChildrenAreJoined, DisabledMeansNoChild
  <2> QED
    BY <2>2, <2>3, <2>4 DEF SupervisorInv
<1>2. ASSUME SupervisorInv, [Next]_vars
      PROVE  SupervisorInv'
  <2>1. CASE UNCHANGED vars
    <3>1. UNCHANGED <<supPc, todo, current, process, lost, runtime>>
      BY <2>1 DEF vars, controlVars
    <3>2. SupervisorTypeOK'
      BY <1>2, <2>1 DEF vars, clientVars, controlVars, leaseVars, SupervisorInv, SupervisorTypeOK
    <3> QED
      BY <1>2, <3>1, <3>2, QuietStep DEF SupervisorInv
  <2>2. CASE \E c \in Command : Persist(c) \/ Enqueue(c) \/ GiveUp(c)
    BY <1>2, <2>2, ClientStep
  <2>3. CASE \/ \E w \in Workers : \/ \E health \in {"healthy", "unhealthy"} : Report(w, health)
                                  \/ LeaseExpires(w)
             \/ CancelRun
    BY <1>2, <2>3, OutsideStep
  <2>4. CASE (\E w \in Workers : ChildExits(w)) \/ KillChild
    BY <1>2, <2>4, DeathStep
  <2>5. CASE \E w \in Workers : \/ \E on \in BOOLEAN : BuryChild(w, on)
                                \/ StayOff(w) \/ LeaveFailed(w) \/ KeepRunning(w)
    BY <1>2, <2>5, HandleStep
  <2>6. CASE \E w \in Workers : BeginStop(w) \/ BeginLaunch(w)
    BY <1>2, <2>6, BeginStep
  <2>7. CASE StopReturns \/ (\E ok \in BOOLEAN : LaunchReturns(ok))
    BY <1>2, <2>7, ReturnStep
  <2>8. CASE Begin \/ EndReconcile \/ SelectDone \/ SelectLease \/ SelectExit \/ SelectChange \/ SelectHealth
    BY <1>2, <2>8, SelectStep
  <2>9. CASE (\E w \in Workers : HaltOne(w)) \/ HaltStopReturns \/ HaltReturns
    BY <1>2, <2>9, HaltStep
  <2> QED
    BY <1>2, <2>1, <2>2, <2>3, <2>4, <2>5, <2>6, <2>7, <2>8, <2>9 DEF Next, RunStep, ReconcileStep
<1> QED
  BY <1>1, <1>2, PTL DEF Spec

\* Run joins every child it started before it lets go of it and before it
\* returns (stopProcess, stopAll).
THEOREM SupervisorChildrenAreJoined == Spec => []ChildrenAreJoined
<1>1. SupervisorInv => ChildrenAreJoined
  BY DEF SupervisorInv
<1> QED
  BY <1>1, SupervisorInvariant, PTL

\* A worker that the panel shows as DISABLED has no living child
\* (setRuntimeLocked is called only after the join).
THEOREM SupervisorDisabledMeansNoChild == Spec => []DisabledMeansNoChild
<1>1. SupervisorInv => DisabledMeansNoChild
  BY DEF SupervisorInv
<1> QED
  BY <1>1, SupervisorInvariant, PTL

-----------------------------------------------------------------------------
(* Consent                                                                 *)

\* Worker w is off and nothing on its way can start it: no command that grants
\* its permission is about to be queued or queued, none is being obeyed, and no
\* reconciliation that read the permission as granted is under way.
Off(w) ==
    /\ process[w] = "none" /\ w \notin lost
    /\ <<w, TRUE>> \notin todo
    /\ ~(supPc = "launch" /\ current = w)
    /\ \A c \in inFlight : c.worker = w => ~c.on
    /\ \A i \in 1..Len(changes) : changes[i].worker = w => ~changes[i].on

\* A client's step that leaves the permission withdrawn queues no grant.
LEMMA OffClient ==
    ASSUME SupervisorInv, NEW w \in Workers, Off(w), ~enabled'[w],
           NEW c \in Command, Persist(c) \/ Enqueue(c) \/ GiveUp(c)
    PROVE  Off(w)'
<1>1. UNCHANGED <<supPc, todo, current, process, lost>>
  BY DEF Persist, Enqueue, GiveUp, controlVars
<1>2. CASE Persist(c)
  <2>1. c.worker = w => ~c.on
    BY <1>2 DEF Persist, SupervisorInv, SupervisorTypeOK
  <2>2. inFlight' = inFlight \cup {c} /\ changes' = changes
    BY <1>2 DEF Persist
  <2> QED BY <1>1, <2>1, <2>2 DEF Off
<1>3. CASE Enqueue(c)
  <2>1. c \in inFlight /\ inFlight' = inFlight \ {c} /\ changes' = Append(changes, c)
    BY <1>3 DEF Enqueue
  <2>2. changes \in Seq(Command)
    BY DEF SupervisorInv, SupervisorTypeOK
  <2>3. \A i \in 1..Len(changes') : changes'[i].worker = w => ~changes'[i].on
    <3>1. ASSUME NEW i \in 1..Len(changes')
          PROVE  (i \in 1..Len(changes) /\ changes'[i] = changes[i]) \/ changes'[i] = c
      BY <2>1, <2>2
    <3> QED BY <2>1, <3>1 DEF Off
  <2> QED BY <1>1, <2>1, <2>3 DEF Off
<1>4. CASE GiveUp(c)
  BY <1>1, <1>4 DEF GiveUp, Off
<1> QED BY <1>2, <1>3, <1>4

\* The loop reads the permission as withdrawn, or obeys a command that does not
\* grant it.
LEMMA OffSelect ==
    ASSUME SupervisorInv, NEW w \in Workers, Off(w), ~enabled[w],
           Begin \/ EndReconcile \/ SelectDone \/ SelectLease \/ SelectExit \/ SelectChange \/ SelectHealth
    PROVE  Off(w)'
<1>1. UNCHANGED <<process, lost, current, inFlight>> /\ supPc' # "launch"
  BY DEF Begin, EndReconcile, SelectDone, SelectLease, SelectExit, SelectChange, SelectHealth,
         ReconcileAll, controlVars, clientVars
<1>2. CASE SelectChange
  <2>1. changes \in Seq(Command) /\ changes # <<>> /\ changes' = Tail(changes)
        /\ todo' = {<<Head(changes).worker, Head(changes).on>>}
    BY <1>2 DEF SelectChange, SupervisorInv, SupervisorTypeOK
  <2>2. Len(changes) \in Nat /\ 1 \in 1..Len(changes) /\ Head(changes) = changes[1]
        /\ \A i \in 1..Len(changes') : i + 1 \in 1..Len(changes) /\ changes'[i] = changes[i + 1]
    BY <2>1
  <2>3. Head(changes).worker = w => ~Head(changes).on
    BY <2>2 DEF Off
  <2>4. <<w, TRUE>> \notin todo'
    BY <2>1, <2>3
  <2>5. \A i \in 1..Len(changes') : changes'[i].worker = w => ~changes'[i].on
    BY <2>2, Zenon DEF Off
  <2> QED BY <1>1, <2>4, <2>5 DEF Off
<1>3. CASE ~SelectChange
  <2>1. changes' = changes /\ todo' \in {todo, Desired, AllWorkers}
    BY <1>3 DEF Begin, EndReconcile, SelectDone, SelectLease, SelectExit, SelectHealth, ReconcileAll
  <2>2. <<w, TRUE>> \notin Desired /\ <<w, TRUE>> \notin AllWorkers
    BY DEF Desired, AllWorkers
  <2> QED BY <1>1, <2>1, <2>2 DEF Off
<1> QED BY <1>2, <1>3

\* Handling a list that does not ask for w, or waiting for another worker, does
\* not start w.
LEMMA OffHandle ==
    ASSUME SupervisorInv, NEW w \in Workers, Off(w), ReconcileStep
    PROVE  Off(w)'
<1>1. changes' = changes /\ inFlight' = inFlight
  BY DEF ReconcileStep, BuryChild, StayOff, BeginStop, LeaveFailed, BeginLaunch, KeepRunning, Handled,
         KillChild, StopReturns, LaunchReturns, clientVars
<1>2. todo' \subseteq todo
  BY DEF ReconcileStep, BuryChild, StayOff, BeginStop, LeaveFailed, BeginLaunch, KeepRunning, Handled,
         KillChild, StopReturns, LaunchReturns
<1>3. process \in [Workers -> {"none", "alive", "exited"}]
  BY DEF SupervisorInv, SupervisorTypeOK
<1>4. process'[w] = "none" /\ w \notin lost'
  <2>1. CASE \E v \in Workers : \/ \E on \in BOOLEAN : BuryChild(v, on)
                                \/ StayOff(v) \/ BeginStop(v)
                                \/ LeaveFailed(v) \/ BeginLaunch(v) \/ KeepRunning(v)
    BY <1>3, <2>1 DEF Off, BuryChild, StayOff, BeginStop, LeaveFailed, BeginLaunch, KeepRunning, Drop, controlVars
  <2>2. CASE KillChild \/ StopReturns
    BY <1>3, <2>2 DEF Off, KillChild, StopReturns, Drop
  <2>3. ASSUME NEW ok \in BOOLEAN, LaunchReturns(ok) PROVE process'[w] = "none" /\ w \notin lost'
    BY <1>3, <2>3 DEF Off, LaunchReturns
  <2> QED BY <2>1, <2>2, <2>3 DEF ReconcileStep
<1>5. ~(supPc' = "launch" /\ current' = w)
  <2>1. ASSUME NEW v \in Workers, BeginLaunch(v) PROVE v # w
    BY <2>1 DEF Off, BeginLaunch, Handled
  <2>2. CASE \E v \in Workers : BeginLaunch(v)
    BY <2>1, <2>2 DEF BeginLaunch
  <2>3. CASE ~\E v \in Workers : BeginLaunch(v)
    BY <2>3 DEF Off, ReconcileStep, BuryChild, StayOff, BeginStop, LeaveFailed, KeepRunning, Handled,
                KillChild, StopReturns, LaunchReturns
  <2> QED BY <2>2, <2>3
<1> QED BY <1>1, <1>2, <1>4, <1>5 DEF Off

\* Whatever step is taken while the permission stays withdrawn, the worker stays off.
LEMMA OffStep ==
    ASSUME SupervisorInv, NEW w \in Workers, Off(w), ~enabled[w], ~enabled'[w], [Next]_vars
    PROVE  Off(w)'
<1>1. CASE UNCHANGED <<supPc, todo, current, process, lost, inFlight, changes>>
  BY <1>1 DEF Off
<1>2. CASE UNCHANGED vars
  BY <1>1, <1>2 DEF vars, clientVars, controlVars
<1>3. CASE \E c \in Command : Persist(c) \/ Enqueue(c) \/ GiveUp(c)
  BY <1>3, OffClient
<1>4. CASE \/ \E v \in Workers : \/ \E health \in {"healthy", "unhealthy"} : Report(v, health)
                                \/ LeaseExpires(v)
           \/ CancelRun
  BY <1>1, <1>4 DEF Report, LeaseExpires, CancelRun, controlVars, clientVars
<1>5. ASSUME NEW v \in Workers, ChildExits(v) PROVE Off(w)'
  <2>1. v # w /\ process'[w] = process[w]
    BY <1>5 DEF ChildExits, Off, SupervisorInv, SupervisorTypeOK
  <2> QED BY <1>5, <2>1 DEF ChildExits, Off, clientVars
<1>6. CASE ReconcileStep
  BY <1>6, OffHandle
<1>7. CASE Begin \/ EndReconcile \/ SelectDone \/ SelectLease \/ SelectExit \/ SelectChange \/ SelectHealth
  BY <1>7, OffSelect
<1>8. CASE (\E v \in Workers : HaltOne(v)) \/ HaltStopReturns \/ HaltReturns
  <2>1. todo' \subseteq todo /\ supPc' # "launch" /\ inFlight' = inFlight /\ changes' = changes
    BY <1>8 DEF HaltOne, HaltStopReturns, HaltReturns, clientVars
  <2>2. process'[w] = "none" /\ w \notin lost'
    BY <1>8 DEF HaltOne, HaltStopReturns, HaltReturns, Drop, Off, SupervisorInv, SupervisorTypeOK, controlVars
  <2> QED BY <2>1, <2>2 DEF Off
<1> QED BY <1>2, <1>3, <1>4, <1>5, <1>6, <1>7, <1>8 DEF Next, RunStep

\* A withdrawn permission that has settled needs a new grant: from a state in which
\* the worker is off and nothing on its way can start it, no tick, lease, exit,
\* command or restart of the reconciliation starts a child until the permission is
\* granted again.
THEOREM SupervisorOffUntilGranted ==
    ASSUME NEW w \in Workers
    PROVE  Spec => [](Off(w) /\ [](~enabled[w]) => []Off(w))
<1>1. SupervisorInv /\ Off(w) /\ ~enabled[w] /\ (~enabled[w])' /\ [Next]_vars => Off(w)'
  BY OffStep
<1> QED BY <1>1, SupervisorInvariant, PTL DEF Spec

\* No capture without consent: a worker whose permission is never granted never has
\* a child.
THEOREM SupervisorNeverGrantedNeverRuns ==
    ASSUME NEW w \in Workers
    PROVE  Spec => ([](~enabled[w]) => [](process[w] = "none" /\ w \notin lost))
<1>1. Init => Off(w)
  BY DEF Init, Off
<1>2. Off(w) => process[w] = "none" /\ w \notin lost
  BY DEF Off
<1> QED BY <1>1, <1>2, SupervisorOffUntilGranted, PTL DEF Spec
=============================================================================
