----------------------------- MODULE Supervisor -----------------------------
(***************************************************************************)
(* adapters/worker/supervisor with the permission service and the part of  *)
(* the capability registry it uses: clients change camera and microphone   *)
(* permissions, and one run loop starts, watches, stops and joins the      *)
(* child process of each permission.                                       *)
(*                                                                         *)
(* Processes: the run loop, the clients inside Change, the children (which *)
(* register leases, may exit at any time and may ignore SIGTERM), and the  *)
(* health ticker.  The loop is split where it releases its mutex to wait:  *)
(* while it stops a child and while the launcher starts one.  A worker is  *)
(* identified with its provider and its permission (New requires them to   *)
(* be one to one).                                                         *)
(***************************************************************************)
EXTENDS Naturals, Sequences

CONSTANTS Workers,          \* the configured workers
          Changes,          \* identities of Change calls
          ChangeCapacity    \* capacity of Supervisor.changes

ASSUME SupervisorAssumption == ChangeCapacity \in Nat \ {0}

Command == [id : Changes, worker : Workers, on : BOOLEAN]
Nobody  == "nobody"

VARIABLES enabled,      \* privacy.Service.current: the permission of each worker
          inFlight,     \* Change calls that persisted and have not queued their command
          called,       \* Change calls made so far
          changes,      \* Supervisor.changes
          supPc,        \* where Run stands
          todo,         \* <<worker, enabled>> that reconcileAll or reconcilePermission still handles
          current,      \* the worker whose child is being launched or stopped
          process,      \* controller.process: "none", "alive" or "exited"
          lost,         \* workers with a living child that no controller holds
          failed,       \* controller.failed
          everHealthy,  \* controller.everHealthy
          runtime,      \* controller.runtime.State
          lease,        \* the registry's record: "none", "healthy", "unhealthy" or "expired"
          leaseNews,    \* the latest-only lease channel holds the registry's state
          leaseState,   \* Supervisor.leaseState
          exitNews,     \* Supervisor.processes holds a signal
          ctxDone       \* the context of Run is done

clientVars  == <<enabled, inFlight, called>>
controlVars == <<process, lost, failed, everHealthy, runtime>>
leaseVars   == <<lease, leaseNews, leaseState>>
vars == <<clientVars, changes, supPc, todo, current, controlVars, leaseVars, exitNews, ctxDone>>

-----------------------------------------------------------------------------
(* Change                                                                  *)

\* privacy.Service.Change: the permission is durable and visible; the command
\* is queued later.  (A failed save changes nothing and returns.)
Persist(c) ==
    /\ c.id \notin called
    /\ called' = called \cup {c.id}
    /\ enabled' = [enabled EXCEPT ![c.worker] = c.on]
    /\ inFlight' = inFlight \cup {c}
    /\ UNCHANGED <<changes, supPc, todo, current, controlVars, leaseVars, exitNews, ctxDone>>

\* The command enters the bounded queue; a full queue blocks the client.
Enqueue(c) ==
    /\ c \in inFlight
    /\ Len(changes) < ChangeCapacity
    /\ inFlight' = inFlight \ {c}
    /\ changes' = Append(changes, c)
    /\ UNCHANGED <<enabled, called, supPc, todo, current, controlVars, leaseVars, exitNews, ctxDone>>

\* The client's context ends first: the permission stays changed, nothing is queued.
GiveUp(c) ==
    /\ c \in inFlight
    /\ inFlight' = inFlight \ {c}
    /\ UNCHANGED <<enabled, called, changes, supPc, todo, current, controlVars, leaseVars,
                   exitNews, ctxDone>>

-----------------------------------------------------------------------------
(* Children and their leases                                               *)

\* A child registers, heartbeats or reports ill health; each mutation of the
\* registry replaces what the lease channel holds.
Report(w, health) ==
    /\ process[w] = "alive"
    /\ lease' = [lease EXCEPT ![w] = health]
    /\ leaseNews' = TRUE
    /\ UNCHANGED <<clientVars, changes, supPc, todo, current, controlVars, leaseState, exitNews, ctxDone>>

\* Lease expiry is a matter of time and no mutation: the registry's record, or
\* only the supervisor's older copy of it, is past its deadline.
LeaseExpires(w) ==
    /\ leaseState[w] = "healthy" \/ lease[w] = "healthy"
    /\ leaseState' = [leaseState EXCEPT ![w] = IF @ = "healthy" THEN "expired" ELSE @]
    /\ lease' \in {lease, [lease EXCEPT ![w] = IF @ = "healthy" THEN "expired" ELSE @]}
    /\ <<lease', leaseState'>> # <<lease, leaseState>>
    /\ UNCHANGED <<clientVars, changes, supPc, todo, current, controlVars, leaseNews, exitNews, ctxDone>>

\* A child exits, asked to or not; the goroutine that waits for it signals the loop.
ChildExits(w) ==
    /\ process[w] = "alive"
    /\ process' = [process EXCEPT ![w] = "exited"]
    /\ exitNews' = TRUE
    /\ UNCHANGED <<clientVars, changes, supPc, todo, current, lost, failed, everHealthy, runtime,
                   leaseVars, ctxDone>>

-----------------------------------------------------------------------------
(* reconcileOne                                                            *)

\* The controller lets go of its process; a child that still lives is lost.
Drop(w) ==
    /\ process' = [process EXCEPT ![w] = "none"]
    /\ lost' = IF process[w] = "alive" THEN lost \cup {w} ELSE lost

\* RevokeProvider and removeLeaseStateLocked.
Revoke(w) ==
    /\ lease' = [lease EXCEPT ![w] = "none"]
    /\ leaseNews' = (leaseNews \/ lease[w] # "none")
    /\ leaseState' = [leaseState EXCEPT ![w] = "none"]

SetRuntime(w, state) == runtime' = [runtime EXCEPT ![w] = state]

\* refreshLeaseStateLocked.
Health(w) ==
    IF leaseState[w] = "healthy" THEN "RUNNING"
    ELSE IF leaseState[w] # "none" \/ everHealthy[w] THEN "DEGRADED" ELSE "STARTING"

Refresh(w) ==
    /\ everHealthy' = [everHealthy EXCEPT ![w] = @ \/ leaseState[w] # "none"]
    /\ SetRuntime(w, Health(w))

Handled(w, on) ==
    /\ supPc = "reconcile"
    /\ <<w, on>> \in todo
    /\ todo' = todo \ {<<w, on>>}
    /\ UNCHANGED <<clientVars, changes, exitNews, ctxDone>>

\* The child is found dead: an enabled worker has failed, a disabled one is off.
BuryChild(w, on) ==
    /\ Handled(w, on)
    /\ process[w] = "exited"
    /\ Drop(w)
    /\ Revoke(w)
    /\ failed' = [failed EXCEPT ![w] = on]
    /\ SetRuntime(w, IF on THEN "DEGRADED" ELSE "DISABLED")
    /\ UNCHANGED <<supPc, current, everHealthy>>

\* No child is wanted and none is there.
StayOff(w) ==
    /\ Handled(w, FALSE)
    /\ process[w] = "none"
    /\ failed' = [failed EXCEPT ![w] = FALSE]
    /\ SetRuntime(w, "DISABLED")
    /\ UNCHANGED <<supPc, current, process, lost, everHealthy, leaseVars>>

\* A living child is not wanted: SIGTERM, and the mutex is released to wait.
BeginStop(w) ==
    /\ Handled(w, FALSE)
    /\ process[w] = "alive"
    /\ failed' = [failed EXCEPT ![w] = FALSE]
    /\ SetRuntime(w, "STOPPING")
    /\ supPc' = "stop" /\ current' = w
    /\ UNCHANGED <<process, lost, everHealthy, leaseVars>>

\* A worker that failed is left alone until its permission is withdrawn.
LeaveFailed(w) ==
    /\ Handled(w, TRUE)
    /\ process[w] = "none" /\ failed[w]
    /\ UNCHANGED <<supPc, current, controlVars, leaseVars>>

BeginLaunch(w) ==
    /\ Handled(w, TRUE)
    /\ process[w] = "none" /\ ~failed[w]
    /\ SetRuntime(w, "STARTING")
    /\ supPc' = "launch" /\ current' = w
    /\ UNCHANGED <<process, lost, failed, everHealthy, leaseVars>>

KeepRunning(w) ==
    /\ Handled(w, TRUE)
    /\ process[w] = "alive"
    /\ Refresh(w)
    /\ UNCHANGED <<supPc, current, process, lost, failed, leaseVars>>

\* stopProcess: StopTimeout is over, SIGKILL ends the child.
KillChild ==
    /\ supPc \in {"stop", "haltStop"}
    /\ process[current] = "alive"
    /\ process' = [process EXCEPT ![current] = "exited"]
    /\ exitNews' = TRUE
    /\ UNCHANGED <<clientVars, changes, supPc, todo, current, lost, failed, everHealthy, runtime,
                   leaseVars, ctxDone>>

\* Seeded fault: after StopTimeout the loop goes on without a kill and a join.
StopWithoutJoin ==
    /\ supPc = "stop"
    /\ Drop(current)
    /\ Revoke(current)
    /\ everHealthy' = [everHealthy EXCEPT ![current] = FALSE]
    /\ SetRuntime(current, "DISABLED")
    /\ supPc' = "reconcile" /\ current' = Nobody
    /\ UNCHANGED <<clientVars, changes, todo, failed, exitNews, ctxDone>>

\* stopProcess returned: the child has been joined.
StopReturns ==
    /\ supPc = "stop"
    /\ process[current] = "exited"
    /\ Drop(current)
    /\ Revoke(current)
    /\ everHealthy' = [everHealthy EXCEPT ![current] = FALSE]
    /\ SetRuntime(current, "DISABLED")
    /\ supPc' = "reconcile" /\ current' = Nobody
    /\ UNCHANGED <<clientVars, changes, todo, failed, exitNews, ctxDone>>

\* Launcher.Start returned, with a child or with an error.
LaunchReturns(ok) ==
    /\ supPc = "launch"
    /\ IF ok
       THEN /\ process' = [process EXCEPT ![current] = "alive"]
            /\ Refresh(current)
            /\ UNCHANGED failed
       ELSE /\ failed' = [failed EXCEPT ![current] = TRUE]
            /\ SetRuntime(current, "DEGRADED")
            /\ UNCHANGED <<process, everHealthy>>
    /\ supPc' = "reconcile" /\ current' = Nobody
    /\ UNCHANGED <<clientVars, changes, todo, lost, leaseVars, exitNews, ctxDone>>

ReconcileStep ==
    \/ \E w \in Workers : \/ \E on \in BOOLEAN : BuryChild(w, on)
                          \/ StayOff(w) \/ BeginStop(w)
                          \/ LeaveFailed(w) \/ BeginLaunch(w) \/ KeepRunning(w)
    \/ KillChild \/ StopReturns
    \/ \E ok \in BOOLEAN : LaunchReturns(ok)

-----------------------------------------------------------------------------
(* Run                                                                     *)

\* Seeded fault: reconcileAll looks only at the workers that are permitted.
PermittedOnly == {<<w, TRUE>> : w \in {v \in Workers : enabled[v]}}

\* reconcileAll reads the permissions once and then handles every worker.
Desired == {<<w, enabled[w]>> : w \in Workers}

AllWorkers == {<<w, FALSE>> : w \in Workers}

\* Reading the permissions fails exactly when the context is done.
ReconcileAll ==
    IF ctxDone THEN supPc' = "halt" /\ todo' = AllWorkers
    ELSE supPc' = "reconcile" /\ todo' = Desired

\* The initial reconcileAll: its error returns before any child exists.
Begin ==
    /\ supPc = "start"
    /\ IF ctxDone THEN supPc' = "returned" /\ UNCHANGED todo
       ELSE supPc' = "reconcile" /\ todo' = Desired
    /\ leaseState' = lease
    /\ UNCHANGED <<clientVars, changes, current, controlVars, lease, leaseNews, exitNews, ctxDone>>

EndReconcile ==
    /\ supPc = "reconcile"
    /\ todo = {}
    /\ supPc' = "select"
    /\ UNCHANGED <<clientVars, changes, todo, current, controlVars, leaseVars, exitNews, ctxDone>>

SelectDone ==
    /\ supPc = "select"
    /\ ctxDone
    /\ supPc' = "halt" /\ todo' = AllWorkers
    /\ UNCHANGED <<clientVars, changes, current, controlVars, leaseVars, exitNews, ctxDone>>

\* reconcilePermission: what the queued command says, not what is permitted by now.
SelectChange ==
    /\ supPc = "select"
    /\ changes # <<>>
    /\ changes' = Tail(changes)
    /\ todo' = {<<Head(changes).worker, Head(changes).on>>}
    /\ supPc' = "reconcile"
    /\ UNCHANGED <<clientVars, current, controlVars, leaseVars, exitNews, ctxDone>>

SelectLease ==
    /\ supPc = "select"
    /\ leaseNews
    /\ leaseNews' = FALSE
    /\ leaseState' = lease
    /\ ReconcileAll
    /\ UNCHANGED <<clientVars, changes, current, controlVars, lease, exitNews, ctxDone>>

SelectExit ==
    /\ supPc = "select"
    /\ exitNews
    /\ exitNews' = FALSE
    /\ ReconcileAll
    /\ UNCHANGED <<clientVars, changes, current, controlVars, leaseVars, ctxDone>>

SelectHealth ==
    /\ supPc = "select"
    /\ ReconcileAll
    /\ UNCHANGED <<clientVars, changes, current, controlVars, leaseVars, exitNews, ctxDone>>

\* stopAll, worker by worker: announce, signal and wait ...
HaltOne(w) ==
    /\ supPc = "halt"
    /\ <<w, FALSE>> \in todo
    /\ IF process[w] = "none"
       THEN /\ todo' = todo \ {<<w, FALSE>>}
            /\ SetRuntime(w, "DISABLED")
            /\ failed' = [failed EXCEPT ![w] = FALSE]
            /\ everHealthy' = [everHealthy EXCEPT ![w] = FALSE]
            /\ leaseState' = [leaseState EXCEPT ![w] = "none"]
            /\ UNCHANGED <<supPc, current>>
       ELSE /\ SetRuntime(w, "STOPPING")
            /\ supPc' = "haltStop" /\ current' = w
            /\ UNCHANGED <<todo, failed, everHealthy, leaseState>>
    /\ UNCHANGED <<clientVars, changes, process, lost, lease, leaseNews, exitNews, ctxDone>>

\* ... joined: let go of it.
HaltStopReturns ==
    /\ supPc = "haltStop"
    /\ process[current] = "exited"
    /\ Drop(current)
    /\ Revoke(current)
    /\ failed' = [failed EXCEPT ![current] = FALSE]
    /\ everHealthy' = [everHealthy EXCEPT ![current] = FALSE]
    /\ SetRuntime(current, "DISABLED")
    /\ todo' = todo \ {<<current, FALSE>>}
    /\ supPc' = "halt" /\ current' = Nobody
    /\ UNCHANGED <<clientVars, changes, exitNews, ctxDone>>

\* Seeded fault: Run returns without stopping the children.
ReturnAtOnce ==
    /\ supPc = "halt"
    /\ supPc' = "returned"
    /\ UNCHANGED <<clientVars, changes, todo, current, controlVars, leaseVars, exitNews, ctxDone>>

HaltReturns ==
    /\ supPc = "halt"
    /\ todo = {}
    /\ supPc' = "returned"
    /\ UNCHANGED <<clientVars, changes, todo, current, controlVars, leaseVars, exitNews, ctxDone>>

RunStep ==
    \/ Begin \/ ReconcileStep \/ EndReconcile
    \/ SelectDone \/ SelectLease \/ SelectExit
    \/ (\E w \in Workers : HaltOne(w)) \/ HaltStopReturns \/ HaltReturns

CancelRun ==
    /\ ~ctxDone
    /\ ctxDone' = TRUE
    /\ UNCHANGED <<clientVars, changes, supPc, todo, current, controlVars, leaseVars, exitNews>>

-----------------------------------------------------------------------------
Init ==
    /\ enabled \in [Workers -> BOOLEAN]
    /\ inFlight = {} /\ called = {} /\ changes = <<>>
    /\ supPc = "start" /\ todo = {} /\ current = Nobody
    /\ process = [w \in Workers |-> "none"]
    /\ lost = {}
    /\ failed = [w \in Workers |-> FALSE]
    /\ everHealthy = [w \in Workers |-> FALSE]
    /\ runtime = [w \in Workers |-> "DISABLED"]
    /\ lease = [w \in Workers |-> "none"]
    /\ leaseNews = FALSE
    /\ leaseState = [w \in Workers |-> "none"]
    /\ exitNews = FALSE
    /\ ctxDone = FALSE

Next ==
    \/ \E c \in Command : Persist(c) \/ Enqueue(c) \/ GiveUp(c)
    \/ \E w \in Workers : \/ \E health \in {"healthy", "unhealthy"} : Report(w, health)
                          \/ LeaseExpires(w) \/ ChildExits(w)
    \/ RunStep \/ SelectChange \/ SelectHealth
    \/ CancelRun

Spec == Init /\ [][Next]_vars

\* The loop goroutine runs, a killed child exits, the launcher returns and the
\* ticker ticks.  select picks ready cases at random, so neither a queued
\* command nor a tick is passed over for ever.
Fairness ==
    /\ WF_vars(RunStep)
    /\ SF_vars(SelectDone)
    /\ SF_vars(SelectChange)
    /\ SF_vars(SelectHealth)

FairSpec == Spec /\ Fairness

-----------------------------------------------------------------------------
(* Correctness                                                             *)

\* Every variable has the shape of the Go state it models.
SupervisorTypeOK ==
    /\ enabled \in [Workers -> BOOLEAN]
    /\ inFlight \subseteq Command
    /\ called \subseteq Changes
    /\ changes \in Seq(Command) /\ Len(changes) <= ChangeCapacity
    /\ supPc \in {"start", "select", "reconcile", "stop", "launch", "halt", "haltStop", "returned"}
    /\ todo \subseteq Workers \X BOOLEAN
    /\ current \in Workers \cup {Nobody}
    /\ process \in [Workers -> {"none", "alive", "exited"}]
    /\ lost \subseteq Workers
    /\ failed \in [Workers -> BOOLEAN]
    /\ everHealthy \in [Workers -> BOOLEAN]
    /\ runtime \in [Workers -> {"DISABLED", "STARTING", "RUNNING", "DEGRADED", "STOPPING"}]
    /\ lease \in [Workers -> {"none", "healthy", "unhealthy", "expired"}]
    /\ leaseState \in [Workers -> {"none", "healthy", "unhealthy", "expired"}]
    /\ leaseNews \in BOOLEAN /\ exitNews \in BOOLEAN /\ ctxDone \in BOOLEAN

\* "Run owns all child-process transitions and joins them before returning": a
\* child is never let go of while it lives, and none is left when Run returns,
\* whatever the clients, the children and the context do meanwhile.
ChildrenAreJoined ==
    /\ lost = {}
    /\ supPc = "returned" => \A w \in Workers : process[w] = "none"

\* The panel never shows a worker as DISABLED while its child can still capture.
DisabledMeansNoChild ==
    \A w \in Workers : runtime[w] = "DISABLED" => process[w] # "alive" /\ w \notin lost

\* Workers follow their permissions in the end.  A permission withdrawn for
\* good stops its worker for good, even if the command was never queued or was
\* overtaken by an older one; one granted for good ends in a child or in a
\* failure, also after commands that contradict it have been handled.
WorkersFollowPermissions ==
    \A w \in Workers :
        /\ <>[](~enabled[w]) => <>[](process[w] # "alive")
        /\ <>[](enabled[w] /\ ~ctxDone) => <>[](process[w] # "none" \/ failed[w])

=============================================================================
