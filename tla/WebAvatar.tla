------------------------------ MODULE WebAvatar ------------------------------
(***************************************************************************)
(* adapters/embodiment/webavatar: the driver that shows the avatar, runs   *)
(* at most one speech at a time and can be stopped at any moment.          *)
(*                                                                         *)
(* Processes: the engine's call, which executes one action after another   *)
(* under a cancellable context; the runner's P0 path, which cancels that   *)
(* call and calls StopAll; one goroutine per accepted speech with its      *)
(* deadline watcher; the clock.  A step is what happens under the driver's *)
(* mutex, or between two waits.  The speaker and the text realizer are     *)
(* outside: they return, some time, with or without an error.  Replayed    *)
(* statuses, texts and subscriber channels are left out.                   *)
(***************************************************************************)
EXTENDS Naturals

CONSTANTS Attends,      \* actions that show something (attend, acknowledge, express)
          Idles,        \* RETURN_IDLE actions
          Speeches,     \* SPEAK actions
          HasSpeaker,   \* a speaker is configured, SPEAK is supported
          MaxStops,     \* bound: number of StopAll calls
          NoAction      \* no action

Visuals == Attends \cup Idles
Actions == Visuals \cup Speeches

ASSUME AvatarAssumption ==
    /\ Attends \cap Idles = {} /\ Visuals \cap Speeches = {}
    /\ HasSpeaker \in BOOLEAN
    /\ MaxStops \in Nat
    /\ NoAction \notin Actions

Terminals == {"COMPLETED", "FAILED", "CANCELLED", "TIMED_OUT"}

VARIABLES current,      \* Driver.current: what the avatar shows
          records,      \* Driver.records: "none", "open" or the terminal state
          active,       \* Driver.active: the speech that may be stopped
          spc,          \* where the goroutine of each speech stands
          cause,        \* cancellation cause of its context; the first one wins
          result,       \* the terminal state performSpeech returned
          shown,        \* the speech was visualized
          worker,       \* the engine's call: "live", "cancelled" or "preempted"
          exec,         \* Execute's action between the context check and the lock
          stop,         \* where StopAll stands
          joining,      \* the speech StopAll waits for
          atStop,       \* actions recorded when StopAll took the lock
          silenced,     \* actions that a returned StopAll covers
          stops         \* StopAll calls so far

speechVars == <<spc, cause, result, shown>>
stopVars   == <<stop, joining, atStop, silenced, stops>>
vars == <<current, records, active, speechVars, worker, exec, stopVars>>

Show(mode, action, speaking) == current' = [mode |-> mode, action |-> action, speaking |-> speaking]

Running(a) == spc[a] \notin {"none", "close", "done"}

\* context.WithCancelCause: only the first cause counts.
CancelWith(a, c) == cause' = [cause EXCEPT ![a] = IF @ = "none" THEN c ELSE @]

-----------------------------------------------------------------------------
(* Execute                                                                 *)

\* The context and the command are checked before the lock is taken.
EnterExecute(a) ==
    /\ exec = NoAction
    /\ worker = "live"
    /\ exec' = a
    /\ UNCHANGED <<current, records, active, speechVars, worker, stopVars>>

\* Seeded fault: a second speech may start while one is active.
RefusedUnlessNew(a) ==
    \/ records[a] # "none"
    \/ a \in Speeches /\ ~HasSpeaker

\* A recorded action is replayed or refused, a missing capability and a second
\* speech are refused.
Refused(a) ==
    \/ records[a] # "none"
    \/ a \in Speeches /\ (~HasSpeaker \/ active # NoAction)

\* Refused, or the action's deadline has elapsed: nothing changes.
RefuseAction ==
    /\ exec # NoAction
    /\ exec' = NoAction
    /\ UNCHANGED <<current, records, active, speechVars, worker, stopVars>>

\* A visual action is shown and completed under the lock.
ExecuteVisual ==
    /\ exec \in Visuals
    /\ ~Refused(exec)
    /\ records' = [records EXCEPT ![exec] = "COMPLETED"]
    /\ Show(IF exec \in Idles THEN "IDLE" ELSE "EXPRESSING", exec, FALSE)
    /\ exec' = NoAction
    /\ UNCHANGED <<active, speechVars, worker, stopVars>>

\* A speech gets its record, its context and its goroutine.
ExecuteSpeech ==
    /\ exec \in Speeches
    /\ ~Refused(exec)
    /\ records' = [records EXCEPT ![exec] = "open"]
    /\ active' = exec
    /\ spc' = [spc EXCEPT ![exec] = "begin"]
    /\ CancelWith(exec, IF worker = "live" THEN "none" ELSE "parent")
    /\ exec' = NoAction
    /\ UNCHANGED <<current, result, shown, worker, stopVars>>

-----------------------------------------------------------------------------
(* runSpeech                                                               *)

\* terminalFromCause.
Verdict(c) == IF c \in {"deadline", "parentDeadline"} THEN "TIMED_OUT" ELSE "CANCELLED"

\* performSpeech reaches a check: it ends with the verdict of the cause or with
\* `outcome', or it goes on to next.
Check(a, outcome, next) ==
    /\ LET end == IF cause[a] # "none" THEN Verdict(cause[a]) ELSE outcome
       IN  /\ spc' = [spc EXCEPT ![a] = IF end = "none" THEN next ELSE "finish"]
           /\ result' = [result EXCEPT ![a] = end]
    /\ UNCHANGED <<current, records, active, cause, shown, worker, exec, stopVars>>

BeginSpeech(a) == spc[a] = "begin" /\ Check(a, "none", "realize")

\* The realizer returned a text, or an error or an empty text.
Realized(a) ==
    /\ spc[a] = "realize"
    /\ \E outcome \in {"none", "FAILED"} : Check(a, outcome, "show")

\* The text is published, whatever happened to the context meanwhile.
Visualize(a) ==
    /\ spc[a] = "show"
    /\ Show("SPEAKING", a, TRUE)
    /\ shown' = [shown EXCEPT ![a] = TRUE]
    /\ spc' = [spc EXCEPT ![a] = "speak"]
    /\ UNCHANGED <<records, active, cause, result, worker, exec, stopVars>>

\* The speaker returned, to the end of the text or with an error.
Spoken(a) ==
    /\ spc[a] = "speak"
    /\ \E outcome \in {"COMPLETED", "FAILED"} : Check(a, outcome, "finish")

\* finishSpeech under the lock; the watcher has been joined.
FinishSpeech(a) ==
    /\ spc[a] = "finish"
    /\ records' = [records EXCEPT ![a] = result[a]]
    /\ IF shown[a] THEN Show("SPEAKING", a, FALSE) ELSE UNCHANGED current
    /\ active' = IF active = a THEN NoAction ELSE active
    /\ CancelWith(a, "finished")
    /\ spc' = [spc EXCEPT ![a] = "close"]
    /\ UNCHANGED <<result, shown, worker, exec, stopVars>>

\* Seeded fault: neither the stream nor done is ever closed.
NeverClose(a) == spc[a] = "close" /\ UNCHANGED vars

\* The status stream is closed, then done; the goroutine's locals are gone.
CloseSpeech(a) ==
    /\ spc[a] = "close"
    /\ spc' = [spc EXCEPT ![a] = "done"]
    /\ cause' = [cause EXCEPT ![a] = "none"]
    /\ result' = [result EXCEPT ![a] = "none"]
    /\ shown' = [shown EXCEPT ![a] = FALSE]
    /\ UNCHANGED <<current, records, active, worker, exec, stopVars>>

\* The deadline of a running speech passes: its watcher, or applyExactDeadline
\* at the next check, cancels it.
DeadlinePasses(a) ==
    /\ Running(a) /\ cause[a] = "none"
    /\ CancelWith(a, "deadline")
    /\ UNCHANGED <<current, records, active, spc, result, shown, worker, exec, stopVars>>

SpeechStep(a) ==
    \/ BeginSpeech(a) \/ Realized(a) \/ Visualize(a) \/ Spoken(a)
    \/ FinishSpeech(a) \/ CloseSpeech(a)

-----------------------------------------------------------------------------
(* StopAll and the engine's call                                           *)

\* handleControl cancels the call, then StopAll cancels the active speech.
BeginStop ==
    /\ stop = "idle"
    /\ stops < MaxStops
    /\ stops' = stops + 1
    /\ worker' = "preempted"
    /\ joining' = active
    /\ IF active # NoAction THEN \E c \in {"parent", "stopped"} : CancelWith(active, c)
       ELSE UNCHANGED cause
    /\ atStop' = {a \in Actions : records[a] # "none"}
    /\ stop' = "speaker"
    /\ UNCHANGED <<current, records, active, spc, result, shown, exec, silenced>>

\* speaker.Stop returned, with or without an error.
SpeakerStopped ==
    /\ stop = "speaker"
    /\ stop' = "join"
    /\ UNCHANGED <<current, records, active, speechVars, worker, exec, joining, atStop,
                   silenced, stops>>

\* Seeded fault: idle is published without waiting for the speech goroutine.
PublishWithoutJoin ==
    /\ stop = "join"
    /\ Show("IDLE", NoAction, FALSE)
    /\ silenced' = silenced \cup atStop
    /\ joining' = NoAction /\ atStop' = {} /\ stop' = "idle"
    /\ UNCHANGED <<records, active, speechVars, worker, exec, stops>>

\* The speech goroutine has ended; only then idle is published.
PublishIdle ==
    /\ stop = "join"
    /\ joining # NoAction => spc[joining] = "done"
    /\ Show("IDLE", NoAction, FALSE)
    /\ silenced' = silenced \cup atStop
    /\ joining' = NoAction /\ atStop' = {} /\ stop' = "idle"
    /\ UNCHANGED <<records, active, speechVars, worker, exec, stops>>

\* The call's own context ends (its client, its action timeout).
CancelWorker ==
    /\ worker = "live"
    /\ worker' = "cancelled"
    /\ IF active # NoAction THEN \E c \in {"parent", "parentDeadline"} : CancelWith(active, c)
       ELSE UNCHANGED cause
    /\ UNCHANGED <<current, records, active, spc, result, shown, exec, stopVars>>

\* The call was joined and the next one begins.  A speech that was given up may
\* still be running.
NextCall ==
    /\ worker # "live" /\ exec = NoAction /\ stop = "idle"
    /\ worker' = "live"
    /\ UNCHANGED <<current, records, active, speechVars, exec, stopVars>>

-----------------------------------------------------------------------------
Init ==
    /\ current = [mode |-> "IDLE", action |-> NoAction, speaking |-> FALSE]
    /\ records = [a \in Actions |-> "none"]
    /\ active = NoAction
    /\ spc = [a \in Speeches |-> "none"]
    /\ cause = [a \in Speeches |-> "none"]
    /\ result = [a \in Speeches |-> "none"]
    /\ shown = [a \in Speeches |-> FALSE]
    /\ worker = "live"
    /\ exec = NoAction
    /\ stop = "idle" /\ joining = NoAction /\ atStop = {} /\ silenced = {} /\ stops = 0

ExecuteStep == RefuseAction \/ ExecuteVisual \/ ExecuteSpeech
StopStep    == SpeakerStopped \/ PublishIdle

Next ==
    \/ \E a \in Actions : EnterExecute(a)
    \/ ExecuteStep
    \/ \E a \in Speeches : SpeechStep(a) \/ DeadlinePasses(a)
    \/ BeginStop \/ StopStep
    \/ CancelWorker \/ NextCall

\* Goroutines run; the realizer and the speaker return (their context carries
\* the action's deadline).
Fairness ==
    /\ WF_vars(ExecuteStep)
    /\ \A a \in Speeches : WF_vars(SpeechStep(a))
    /\ WF_vars(StopStep)

Spec == Init /\ [][Next]_vars
FairSpec == Spec /\ Fairness

-----------------------------------------------------------------------------
(* Correctness                                                             *)

\* Every variable has the shape of the Go state it models.
AvatarTypeOK ==
    /\ current \in [mode : {"IDLE", "EXPRESSING", "SPEAKING"}, action : Actions \cup {NoAction},
                    speaking : BOOLEAN]
    /\ records \in [Actions -> {"none", "open"} \cup Terminals]
    /\ active \in Speeches \cup {NoAction}
    /\ spc \in [Speeches -> {"none", "begin", "realize", "show", "speak", "finish", "close", "done"}]
    /\ cause \in [Speeches -> {"none", "parent", "parentDeadline", "stopped", "deadline", "finished"}]
    /\ result \in [Speeches -> {"none"} \cup Terminals]
    /\ shown \in [Speeches -> BOOLEAN]
    /\ worker \in {"live", "cancelled", "preempted"}
    /\ exec \in Actions \cup {NoAction}
    /\ stop \in {"idle", "speaker", "join"}
    /\ joining \in Speeches \cup {NoAction}
    /\ atStop \subseteq Actions /\ silenced \subseteq Actions
    /\ stops \in 0..MaxStops

\* The driver owns at most one active speech: the goroutine that may speak is
\* always the one StopAll would cancel and join, also when a call gave up a
\* speech and the next call wants to speak.
TheActiveSpeechIsTheOneRunning == \A a \in Speeches : Running(a) <=> active = a

\* Once StopAll has returned, nothing it found in progress appears again: the
\* idle state it published is not overwritten by a speech that was cancelled.
StoppedActionsStaySilent ==
    [][current' # current => current'.action \notin silenced]_vars

\* Nobody waits for ever: every accepted speech comes to an end and closes its
\* status stream, so the engine's call that waits for it returns, and StopAll
\* returns whatever the speech is doing.
EveryWaitEnds ==
    /\ \A a \in Speeches : spc[a] = "begin" ~> spc[a] = "done"
    /\ stop # "idle" ~> stop = "idle"

=============================================================================
