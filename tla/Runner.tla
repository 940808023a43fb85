------------------------------- MODULE Runner -------------------------------
(***************************************************************************)
(* internal/runtime/lifecycle: the Runner that serialises observations,    *)
(* wakeups and P0 controls onto the single-writer engine, and the clients  *)
(* that submit to it.                                                      *)
(*                                                                         *)
(* Processes: the run loop, the goroutine that carries out the current     *)
(* call (Engine!CallStep), one goroutine per submitted request, and the    *)
(* clock.  Every select statement is one step per ready case.              *)
(***************************************************************************)
EXTENDS Engine, Sequences

CONSTANTS Commands,             \* control commands that clients may submit
          MaxLag,               \* bound: age of a request's timestamp when it is submitted
          ObservationCapacity,  \* Config.ObservationCapacity
          ControlCapacity       \* Config.ControlCapacity

Command == [id : ControlIds, reason : {"USER_REJECTED", "SHUTDOWN"},
            subject : Subjects, at : Time]
Requests == ObsIds \cup ControlIds
Timer == [token : Tokens, deadline : Nat, due : BOOLEAN]

ASSUME RunnerAssumption ==
    /\ Commands \subseteq Command
    /\ MaxLag \in Nat
    /\ ObservationCapacity \in Nat \ {0}
    /\ ControlCapacity \in Nat \ {0}
    /\ ObsIds \cap ControlIds = {}
    /\ None \notin Command
    /\ None \notin Timer
    /\ None \notin {"observation", "wakeup"}

VARIABLES runPc,        \* where the run loop stands
          obsQ, ctlQ,   \* Runner.observations, Runner.controls
          work,         \* activeWork: "observation", "wakeup", or None
          sched,        \* scheduledWakeup: a Timer, or None
          request,      \* the control request being handled, or None
          stopErr,      \* StopAll of that request failed
          workErr,      \* the joined wakeup failed with something but cancellation
          runCtxDone,   \* the context of Run is done
          submitted,    \* requests that entered their queue
          ctxDone,      \* requests whose own context is done
          answer,       \* content of the request's response channel
          asked,        \* commands as they were submitted
          overtaken     \* work started since the control was queued

runnerVars == <<runPc, obsQ, ctlQ, work, sched, request, stopErr, workErr,
                runCtxDone, submitted, ctxDone, answer, asked, overtaken>>
vars == <<engineVars, runnerVars>>

-----------------------------------------------------------------------------
(* Clients: SubmitObservation and SubmitControl                            *)

\* Producers stamp with the machine's clock shortly before they submit.
Recent(at) == at <= now /\ now <= at + MaxLag

\* The request enters its bounded queue; a full queue blocks the client.
SubmitObservation(o) ==
    /\ o.id \notin submitted
    /\ Recent(o.at)
    /\ Len(obsQ) < ObservationCapacity
    /\ obsQ' = Append(obsQ, o)
    /\ submitted' = submitted \cup {o.id}
    /\ UNCHANGED <<engineVars, runPc, ctlQ, work, sched, request, stopErr, workErr,
                   runCtxDone, ctxDone, answer, asked, overtaken>>

SubmitControl(c) ==
    /\ c.id \notin submitted
    /\ Recent(c.at)
    /\ Len(ctlQ) < ControlCapacity
    /\ ctlQ' = Append(ctlQ, c)
    /\ submitted' = submitted \cup {c.id}
    /\ asked' = asked \cup {c}
    /\ UNCHANGED <<engineVars, runPc, obsQ, work, sched, request, stopErr, workErr,
                   runCtxDone, ctxDone, answer, overtaken>>

\* A waiting client's select has a ready case: answered, runner stopped, or its
\* own context done.  Its return changes nothing anybody else can see.
Released(id) == answer[id] # "none" \/ runPc = "done" \/ id \in ctxDone

\* The client's context ends; processCtx derives from it.  (The context of a
\* control request releases its client and is not looked at by the runner.)
CancelRequest(id) ==
    /\ id \in submitted
    /\ ~Released(id)
    /\ ctxDone' = ctxDone \cup {id}
    /\ cancelled' = (cancelled \/ (work = "observation" /\ pc # "returned" /\ arg.id = id))
    /\ UNCHANGED <<trackerVars, stateVars, now, pc, arg, startedAt, todo, after, err,
                   runPc, obsQ, ctlQ, work, sched, request, stopErr, workErr,
                   runCtxDone, submitted, answer, asked, overtaken>>

-----------------------------------------------------------------------------
(* The run loop                                                            *)

\* A response channel holds one value: a second answer would block for ever.
Answer(id, value) ==
    /\ answer[id] = "none"
    /\ answer' = [answer EXCEPT ![id] = value]

\* Work starts while these controls are queued.
NoteOvertaking ==
    overtaken' = [c \in ControlIds |->
        overtaken[c] + IF \E i \in 1..Len(ctlQ) : ctlQ[i].id = c THEN 1 ELSE 0]

\* startObservation: a request whose context is done is answered at once.
StartObservation(o) ==
    /\ runPc' = "poll"
    /\ IF o.id \in ctxDone
       THEN /\ Answer(o.id, "canceled")
            /\ UNCHANGED <<engineVars, work, overtaken>>
       ELSE /\ Call("process", o, FALSE)
            /\ work' = "observation"
            /\ NoteOvertaking
            /\ UNCHANGED <<now, answer>>

\* startWakeup: the work context derives from the context of Run.
StartWakeup ==
    /\ Call("advance", [token |-> sched.token, deadline |-> sched.deadline], runCtxDone)
    /\ work' = "wakeup"
    /\ sched' = None
    /\ runPc' = "poll"
    /\ NoteOvertaking
    /\ UNCHANGED now

\* The active work is cancelled when control or shutdown preempts it.
CancelActive ==
    /\ cancelled' = (cancelled \/ (work # None /\ pc # "returned"))
    /\ UNCHANGED <<trackerVars, stateVars, now, pc, arg, startedAt, todo, after, err>>

\* handleControl begins: cancel the active work, then call StopAll.
TakeControl ==
    /\ ctlQ # <<>>
    /\ request' = Head(ctlQ)
    /\ ctlQ' = Tail(ctlQ)
    /\ CancelActive
    /\ runPc' = "stop"

\* Seeded fault: the timer is never armed.
NeverArmed(p) == None

\* refreshWakeup: re-arm from the engine's continuation p.
Refreshed(p) == IF p = None THEN None
                ELSE [token |-> p.episode, deadline |-> p.deadline, due |-> p.deadline <= now]

\* finish: an observation's result goes to its submitted, a wakeup's error is
\* kept unless it is a cancellation.
JoinWork ==
    /\ pc = "returned"
    /\ TakeResult
    /\ work' = None
    /\ IF work = "observation"
       THEN Answer(arg.id, err) /\ UNCHANGED workErr
       ELSE workErr' = (err = "error") /\ UNCHANGED answer
    /\ UNCHANGED <<trackerVars, stateVars, now>>

\* Seeded fault: controls are only looked at by the blocking selects.
PollNothing ==
    /\ runPc = "poll"
    /\ runPc' = IF work = None THEN "idle" ELSE "busy"
    /\ UNCHANGED <<engineVars, obsQ, ctlQ, work, sched, request, stopErr, workErr,
                   answer, overtaken, runCtxDone, submitted, ctxDone, asked>>

\* Top of the loop: P0 first.
PollControls ==
    /\ runPc = "poll"
    /\ \/ /\ TakeControl
          /\ UNCHANGED <<obsQ, work, sched, stopErr, workErr, answer, overtaken>>
       \/ /\ ctlQ = <<>>
          /\ runPc' = IF work = None THEN "idle" ELSE "busy"
          /\ UNCHANGED <<engineVars, obsQ, ctlQ, work, sched, request, stopErr, workErr,
                         answer, overtaken>>
    /\ UNCHANGED <<runCtxDone, submitted, ctxDone, asked>>

\* Idle: a queued observation, then a due wakeup, else block.
PollWork ==
    /\ runPc = "idle"
    /\ \/ /\ obsQ # <<>>
          /\ obsQ' = Tail(obsQ)
          /\ StartObservation(Head(obsQ))
          /\ UNCHANGED sched
       \/ /\ obsQ = <<>> /\ sched # None /\ sched.due
          /\ StartWakeup
          /\ UNCHANGED <<obsQ, answer>>
       \/ /\ obsQ = <<>> /\ ~(sched # None /\ sched.due)
          /\ runPc' = "select"
          /\ UNCHANGED <<engineVars, obsQ, work, sched, answer, overtaken>>
    /\ UNCHANGED <<ctlQ, request, stopErr, workErr, runCtxDone, submitted, ctxDone, asked>>

\* The blocking select of an idle runner, one disjunct per case.
SelectIdle ==
    /\ runPc = "select"
    /\ \/ /\ runCtxDone
          /\ runPc' = "halt"
          /\ UNCHANGED <<engineVars, obsQ, ctlQ, work, sched, request, answer, overtaken>>
       \/ /\ TakeControl
          /\ UNCHANGED <<obsQ, work, sched, answer, overtaken>>
       \/ /\ obsQ # <<>>
          /\ obsQ' = Tail(obsQ)
          /\ StartObservation(Head(obsQ))
          /\ UNCHANGED <<ctlQ, sched, request>>
       \/ /\ sched # None /\ now >= sched.deadline
          /\ sched' = [sched EXCEPT !.due = TRUE]
          /\ runPc' = "poll"
          /\ UNCHANGED <<engineVars, obsQ, ctlQ, work, request, answer, overtaken>>
    /\ UNCHANGED <<stopErr, workErr, runCtxDone, submitted, ctxDone, asked>>

\* After a wakeup that failed the runner shuts down, otherwise it goes on.
Resume(failed) == IF failed THEN "halt" ELSE "poll"

\* The blocking select of a busy runner: the context of Run ...
BusyStop ==
    /\ runPc = "busy"
    /\ runCtxDone
    /\ CancelActive
    /\ runPc' = "halt"
    /\ UNCHANGED <<obsQ, ctlQ, work, sched, request, stopErr, workErr, runCtxDone, submitted,
                   ctxDone, answer, asked, overtaken>>

\* ... a control, or the result of the work.
SelectBusy ==
    /\ runPc = "busy"
    /\ \/ /\ TakeControl
          /\ UNCHANGED <<work, sched, workErr, answer>>
       \/ /\ JoinWork
          /\ sched' = Refreshed(pending)
          /\ runPc' = Resume(workErr')
          /\ UNCHANGED <<ctlQ, request>>
    /\ UNCHANGED <<obsQ, stopErr, runCtxDone, submitted, ctxDone, asked, overtaken>>

\* Seeded fault: the rejection is committed without joining the cancelled work.
StopAllSkipsJoin ==
    /\ runPc = "stop"
    /\ stopErr' \in BOOLEAN
    /\ runPc' = "commit"
    /\ UNCHANGED <<engineVars, obsQ, ctlQ, work, sched, request, workErr,
                   runCtxDone, submitted, ctxDone, answer, asked, overtaken>>

\* handleControl: StopAll returns, within its timeout, with or without an error.
StopAllReturns ==
    /\ runPc = "stop"
    /\ stopErr' \in BOOLEAN
    /\ runPc' = IF work = None THEN "commit" ELSE "join"
    /\ UNCHANGED <<engineVars, obsQ, ctlQ, work, sched, request, workErr,
                   runCtxDone, submitted, ctxDone, answer, asked, overtaken>>

\* handleControl: the cancelled work is joined before anything is committed.
JoinCancelled ==
    /\ runPc = "join"
    /\ JoinWork
    /\ runPc' = "commit"
    /\ UNCHANGED <<obsQ, ctlQ, sched, request, stopErr, runCtxDone, submitted, ctxDone,
                   asked, overtaken>>

\* Seeded fault: a rejection is not committed when StopAll failed.
CommitUnlessStopFailed ==
    /\ runPc = "commit"
    /\ IF request.reason = "USER_REJECTED" /\ ~runCtxDone /\ ~stopErr
       THEN CommitUserRejection(request)
       ELSE UNCHANGED <<trackerVars, stateVars>>
    /\ Answer(request.id,
         IF request.reason = "USER_REJECTED" /\ (runCtxDone \/ request.subject # Subject)
         THEN "error" ELSE IF stopErr THEN "stop" ELSE "nil")
    /\ sched' = Refreshed(pending')
    /\ request' = None
    /\ stopErr' = FALSE
    /\ runPc' = Resume(workErr)
    /\ UNCHANGED <<callVars, now, obsQ, ctlQ, work, workErr, runCtxDone, submitted, ctxDone,
                   asked, overtaken>>

\* Seeded fault: the client of a control is never answered.
CommitSilently ==
    /\ runPc = "commit"
    /\ IF request.reason = "USER_REJECTED" /\ ~runCtxDone
       THEN CommitUserRejection(request)
       ELSE UNCHANGED <<trackerVars, stateVars>>
    /\ sched' = Refreshed(pending')
    /\ request' = None
    /\ stopErr' = FALSE
    /\ runPc' = Resume(workErr)
    /\ UNCHANGED <<callVars, now, obsQ, ctlQ, work, workErr, runCtxDone, submitted, ctxDone,
                   asked, overtaken, answer>>

\* Seeded fault: the timer is left as it was before the control.
CommitKeepsTimer ==
    /\ runPc = "commit"
    /\ IF request.reason = "USER_REJECTED" /\ ~runCtxDone
       THEN CommitUserRejection(request)
       ELSE UNCHANGED <<trackerVars, stateVars>>
    /\ Answer(request.id,
         IF request.reason = "USER_REJECTED" /\ (runCtxDone \/ request.subject # Subject)
         THEN "error" ELSE IF stopErr THEN "stop" ELSE "nil")
    /\ UNCHANGED sched
    /\ request' = None
    /\ stopErr' = FALSE
    /\ runPc' = Resume(workErr)
    /\ UNCHANGED <<callVars, now, obsQ, ctlQ, work, workErr, runCtxDone, submitted, ctxDone,
                   asked, overtaken>>

\* handleControl: an explicit rejection is committed even if StopAll failed;
\* then the client is answered and the wakeup re-armed.
CommitControl ==
    /\ runPc = "commit"
    /\ IF request.reason = "USER_REJECTED" /\ ~runCtxDone
       THEN CommitUserRejection(request)
       ELSE UNCHANGED <<trackerVars, stateVars>>
    /\ Answer(request.id,
         IF request.reason = "USER_REJECTED" /\ (runCtxDone \/ request.subject # Subject)
         THEN "error" ELSE IF stopErr THEN "stop" ELSE "nil")
    /\ sched' = Refreshed(pending')
    /\ request' = None
    /\ stopErr' = FALSE
    /\ runPc' = Resume(workErr)
    /\ UNCHANGED <<callVars, now, obsQ, ctlQ, work, workErr, runCtxDone, submitted, ctxDone,
                   asked, overtaken>>

\* shutdown: StopAll, then join the active work ...
Halt ==
    /\ runPc = "halt"
    /\ \/ work = None /\ UNCHANGED <<engineVars, work, workErr, answer>>
       \/ work # None /\ JoinWork
    /\ runPc' = "drain"
    /\ sched' = None
    /\ UNCHANGED <<obsQ, ctlQ, request, stopErr, runCtxDone, submitted, ctxDone, asked, overtaken>>

\* ... then refuse the queued observations, then the queued controls, and close
\* done.  A client may still enqueue meanwhile.
RejectQueued ==
    /\ \/ /\ runPc = "drain" /\ obsQ # <<>>
          /\ Answer(Head(obsQ).id, "error")
          /\ obsQ' = Tail(obsQ)
          /\ UNCHANGED <<ctlQ, runPc>>
       \/ /\ runPc = "drain" /\ obsQ = <<>>
          /\ runPc' = "drainControls"
          /\ UNCHANGED <<obsQ, ctlQ, answer>>
       \/ /\ runPc = "drainControls" /\ ctlQ # <<>>
          /\ Answer(Head(ctlQ).id, "error")
          /\ ctlQ' = Tail(ctlQ)
          /\ UNCHANGED <<obsQ, runPc>>
       \/ /\ runPc = "drainControls" /\ ctlQ = <<>>
          /\ runPc' = "done"
          /\ UNCHANGED <<obsQ, ctlQ, answer>>
    /\ UNCHANGED <<engineVars, work, sched, request, stopErr, workErr, runCtxDone, submitted,
                   ctxDone, asked, overtaken>>

RunLoop ==
    \/ PollControls \/ PollWork \/ SelectIdle \/ BusyStop \/ SelectBusy
    \/ StopAllReturns \/ JoinCancelled \/ CommitControl \/ Halt \/ RejectQueued

\* The context of Run ends, and with it the context of a wakeup in progress.
CancelRun ==
    /\ ~runCtxDone
    /\ runCtxDone' = TRUE
    /\ cancelled' = (cancelled \/ (work = "wakeup" /\ pc # "returned"))
    /\ UNCHANGED <<trackerVars, stateVars, now, pc, arg, startedAt, todo, after, err,
                   runPc, obsQ, ctlQ, work, sched, request, stopErr, workErr,
                   submitted, ctxDone, answer, asked, overtaken>>

-----------------------------------------------------------------------------
Init ==
    /\ EngineInit
    /\ runPc = "poll"
    /\ obsQ = <<>> /\ ctlQ = <<>>
    /\ work = None
    /\ sched = None
    /\ request = None
    /\ stopErr = FALSE
    /\ workErr = FALSE
    /\ runCtxDone = FALSE
    /\ submitted = {}
    /\ ctxDone = {}
    /\ answer = [r \in Requests |-> "none"]
    /\ asked = {}
    /\ overtaken = [c \in ControlIds |-> 0]

WorkStep == CallStep /\ UNCHANGED runnerVars
TimePasses == Tick /\ UNCHANGED <<trackerVars, stateVars, callVars, runnerVars>>

Next ==
    \/ \E o \in Inputs : SubmitObservation(o)
    \/ \E c \in Commands : SubmitControl(c)
    \/ \E id \in ObsIds : CancelRequest(id)
    \/ RunLoop
    \/ WorkStep
    \/ CancelRun
    \/ TimePasses

\* The Go scheduler runs every goroutine that can go on; driver calls are
\* bounded by the action and stop timeouts; time passes.  select chooses among
\* ready cases at random, so a case that is ready again and again is taken: with
\* a done context and a due wakeup the loop may start and join cancelled wakeups
\* several times before it takes the ctx.Done case.  Clients submit and cancel
\* only if they want to.
Fairness ==
    /\ WF_vars(RunLoop)
    /\ SF_vars(BusyStop)
    /\ WF_vars(WorkStep)
    /\ WF_vars(TimePasses)

Spec == Init /\ [][Next]_vars
FairSpec == Spec /\ Fairness

-----------------------------------------------------------------------------
(* Correctness                                                             *)

\* Every variable of the runner has the shape of the Go state it models.
RunnerTypeOK ==
    /\ runPc \in {"poll", "idle", "select", "busy", "stop", "join", "commit",
                  "halt", "drain", "drainControls", "done"}
    /\ obsQ \in Seq(Inputs) /\ Len(obsQ) <= ObservationCapacity
    /\ ctlQ \in Seq(Commands) /\ Len(ctlQ) <= ControlCapacity
    /\ work \in {"observation", "wakeup", None}
    /\ sched \in Timer \cup {None}
    /\ request \in Commands \cup {None}
    /\ stopErr \in BOOLEAN /\ workErr \in BOOLEAN /\ runCtxDone \in BOOLEAN
    /\ submitted \subseteq Requests
    /\ ctxDone \subseteq ObsIds
    /\ answer \in [Requests -> {"none", "nil", "canceled", "error", "stop"}]
    /\ asked \subseteq Commands
    /\ overtaken \in [ControlIds -> Nat]

\* The runner is a caller the engine accepts: it never overlaps two calls and
\* never commits a rejection while a call is in flight, whatever the clients,
\* the clock and the contexts do.  Everything shown of EngineSpec holds here.
RespectsSingleWriter == EngineSpec

\* A runner that is about to block has its one timer armed for exactly the
\* continuation the engine is waiting with: no wakeup is lost or left over,
\* also after a cancelled AdvanceAt, a rejection or a failed action.
WakeupIsArmed ==
    runPc \in {"idle", "select"} =>
        IF pending = None THEN sched = None
        ELSE /\ sched # None
             /\ sched.token = pending.episode
             /\ sched.deadline = pending.deadline

\* P0 priority: once a control is queued, at most one piece of work starts
\* before it is handled.
ControlOvertakenAtMostOnce == \A c \in ControlIds : overtaken[c] <= 1

\* A rejection that was answered without a commit error is in force, even if
\* StopAll failed: the cooldown covers it and no episode that began before it
\* is still active.
RejectionTakesEffect ==
    \A c \in asked :
        (c.reason = "USER_REJECTED" /\ answer[c.id] \in {"nil", "stop"}) =>
            /\ world.rejectedAt >= c.at
            /\ active # None => active.startedAt >= c.at

\* Every submitted request comes back to its client: answered by the loop,
\* refused at shutdown, or released by done.
EveryRequestReturns ==
    \A r \in Requests : r \in submitted ~> Released(r)

\* A response window whose deadline comes is closed, by a reply, a rejection
\* or the timeout, unless the runner is told to stop or a wakeup failed.
ResponseWindowCloses ==
    (pending # None /\ pending.deadline <= MaxTime) ~> (pending = None \/ runPc = "done")

=============================================================================
