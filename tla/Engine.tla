------------------------------- MODULE Engine -------------------------------
(***************************************************************************)
(* internal/application/engine with the domain packages it drives: ingress *)
(* (validation, deduplication, source sequencing), the temporal event      *)
(* compiler, the world projector, the hard guards of the decision policy,  *)
(* the greeting planner, the episode tracker and the reply continuation.   *)
(*                                                                         *)
(* The engine is a single writer: one call (Process, AdvanceAt or          *)
(* CommitUserRejection) runs at a time.  A call is split where it waits    *)
(* for the embodiment driver (capabilities, each action), because time     *)
(* passes and the call's context can be cancelled there; everything        *)
(* between two waits is one step.  Audit records are best effort, bounded  *)
(* and never read back: they are left out.                                 *)
(***************************************************************************)
EXTENDS EpisodeTracker

CONSTANTS Subject,              \* Config.SubjectID
          Sources,              \* source identities of observations
          MaxSeq,               \* bound: largest source sequence number
          Inputs,               \* observations that producers may submit
          CapabilitySets,       \* capability sets the driver may report
          TTL,                  \* Observation.TTL
          AbsenceThreshold,     \* Config.ReturnAbsenceThreshold
          RejectionCooldown,    \* Config.RejectionCooldown
          NoResponseCooldown,   \* Config.NoResponseCooldown
          WaitFor               \* WaitEvent(user.reply).WaitFor of the plan

GreetingActions  == {"ATTEND_USER", "ACKNOWLEDGE", "SPEAK"}
FeedbackActions  == {"ACKNOWLEDGE", "SPEAK"}
AfterActions     == {"RETURN_IDLE"}
Actions          == GreetingActions \cup AfterActions

ASSUME EngineAssumption ==
    /\ Subject \in Subjects
    /\ MaxSeq \in Nat
    /\ CapabilitySets \subseteq SUBSET Actions
    /\ TTL \in Nat \ {0}
    /\ AbsenceThreshold \in Nat \ {0}
    /\ RejectionCooldown \in Nat \ {0}
    /\ NoResponseCooldown \in Nat \ {0}
    /\ WaitFor \in Nat \ {0} /\ WaitFor \in Durations

Payloads == {"present", "absent", "busy", "available", "quiet", "open", "reply"}

Observation == [id : ObsIds, source : Sources, seq : 1..MaxSeq,
                subject : Subjects, payload : Payloads, at : Time]
Wakeup      == [token : Tokens, deadline : Nat]
Pending     == [episode : EpisodeIds, deadline : Nat, after : SUBSET AfterActions]
Acceptance  == [openedAt : Time, deadline : Nat]

ASSUME InputAssumption ==
    /\ Inputs \subseteq Observation
    /\ None \notin Observation
    /\ None \notin Wakeup
    /\ None \notin Pending
    /\ None \notin Acceptance

VARIABLES now,          \* the injected clock
          seen,         \* ingress.seenIDs
          lastSeq,      \* ingress.lastSeq, 0 when the source is new
          timeline,     \* Compiler.subjects[Subject]
          world,        \* Projector.snapshot: flags and cooldown starts
          pending,      \* Engine.pendingReply, or None
          replyWindow,  \* Engine.replyWindow as published to input adapters, or None
          pc,           \* where the running call stands
          arg,          \* its argument: an Observation, a Wakeup, or None
          startedAt,    \* Process's local `now'
          todo,         \* actions of the current phase not yet completed
          after,        \* Process's local phases.After
          cancelled,    \* the context of the running call is done
          err           \* what the call returned: "nil", "canceled" or "error"

stateVars  == <<seen, lastSeq, timeline, world, pending, replyWindow>>
callVars   == <<pc, arg, startedAt, todo, after, cancelled, err>>
engineVars == <<trackerVars, stateVars, callVars, now>>

-----------------------------------------------------------------------------
(* Ingress, compilation, projection, decision                              *)

\* Observation.ValidateAt's TTL rule.
Expired(o) == now > o.at + TTL

\* ingress.accept: not expired, a new identity, a sequence above the source's last.
Acceptable(o) ==
    /\ ~Expired(o)
    /\ o.id \notin seen
    /\ o.seq > lastSeq[o.source]

Ingest(o) ==
    /\ seen' = seen \cup {o.id}
    /\ lastSeq' = [lastSeq EXCEPT ![o.source] = o.seq]

\* Compiler.Compile: at most one semantic event per observation.
PresenceEvent(o) ==
    IF o.payload = timeline.presence THEN "NONE"
    ELSE IF o.payload = "absent" THEN "PERSON_LEFT"
    ELSE IF /\ timeline.presence = "absent"
            /\ o.at >= timeline.absentSince + AbsenceThreshold
         THEN "PERSON_RETURNED" ELSE "PERSON_DETECTED"

EventKind(o) ==
    CASE o.payload \in {"present", "absent"} -> PresenceEvent(o)
      [] o.payload = "busy"      -> IF timeline.busy = "busy" THEN "NONE" ELSE "USER_BECAME_BUSY"
      [] o.payload = "available" -> IF timeline.busy = "available" THEN "NONE" ELSE "USER_BECAME_AVAILABLE"
      [] o.payload = "quiet"     -> IF timeline.quiet = "quiet" THEN "NONE" ELSE "QUIET_MODE_ENABLED"
      [] o.payload = "open"      -> IF timeline.quiet = "open" THEN "NONE" ELSE "QUIET_MODE_DISABLED"
      [] o.payload = "reply"     -> "USER_REPLIED"

TimelineAfter(o) ==
    [presence    |-> IF o.payload \in {"present", "absent"} THEN o.payload ELSE timeline.presence,
     absentSince |-> IF o.payload = "absent" /\ timeline.presence # "absent"
                     THEN o.at ELSE timeline.absentSince,
     busy        |-> IF o.payload \in {"busy", "available"} THEN o.payload ELSE timeline.busy,
     quiet       |-> IF o.payload \in {"quiet", "open"} THEN o.payload ELSE timeline.quiet]

\* Projector.Apply: the flags the guards read (presence itself guards nothing).
Apply(kind) ==
    [busy  |-> (world.busy \/ kind = "USER_BECAME_BUSY") /\ kind # "USER_BECAME_AVAILABLE",
     quiet |-> (world.quiet \/ kind = "QUIET_MODE_ENABLED") /\ kind # "QUIET_MODE_DISABLED",
     rejectedAt   |-> world.rejectedAt,
     unansweredAt |-> world.unansweredAt]

\* Projector.ApplyUserRejection / ApplyNoResponse: a cooldown is identified by
\* its start; an older fact never moves it back.
ApplyUserRejection(at) == [world EXCEPT !.rejectedAt = IF at < @ THEN @ ELSE at]
ApplyNoResponse(at)    == [world EXCEPT !.unansweredAt = IF at < @ THEN @ ELSE at]

\* decision.hardGuard: the cooldowns are half-open and judged at EVENT time.
InCooldown(start, length, t) == start # 0 /\ start <= t /\ t < start + length

\* Seeded fault: the rejection cooldown is not consulted.
HardGuardIgnoresRejection(snapshot, t) ==
    \/ snapshot.quiet
    \/ snapshot.busy
    \/ InCooldown(snapshot.unansweredAt, NoResponseCooldown, t)

HardGuard(snapshot, t) ==
    \/ snapshot.quiet
    \/ snapshot.busy
    \/ InCooldown(snapshot.rejectedAt, RejectionCooldown, t)
    \/ InCooldown(snapshot.unansweredAt, NoResponseCooldown, t)

\* DetectOpportunity and RulePolicy.Decide: only a return that no guard vetoes greets.
Greets(o) == EventKind(o) = "PERSON_RETURNED" /\ ~HardGuard(Apply(EventKind(o)), o.at)

-----------------------------------------------------------------------------
(* Process                                                                 *)

Return(e) ==
    /\ pc' = "returned"
    /\ err' = e
    /\ todo' = {}

\* Context done, foreign subject, or refused by ingress: nothing changes.
RefuseObservation ==
    /\ pc = "process"
    /\ cancelled \/ arg.subject # Subject \/ ~Acceptable(arg)
    /\ Return(IF cancelled THEN "canceled" ELSE "error")
    /\ UNCHANGED <<trackerVars, stateVars, now, arg, startedAt, after, cancelled>>

Admitted == pc = "process" /\ ~cancelled /\ arg.subject = Subject /\ Acceptable(arg)

\* No event, or an event that is no opportunity or that a guard vetoes.
ObserveQuietly ==
    /\ Admitted
    /\ arg.payload # "reply"
    /\ ~Greets(arg)
    /\ Ingest(arg)
    /\ timeline' = TimelineAfter(arg)
    /\ world' = Apply(EventKind(arg))
    /\ Return("nil")
    /\ UNCHANGED <<trackerVars, pending, replyWindow, now, arg, startedAt, after, cancelled>>

\* acceptUserReply: without a pending continuation a reply is just recorded.
ReplyFact(o) == [kind |-> "USER_REPLIED", src |-> o.id, subject |-> o.subject, at |-> o.at]

ObserveReply ==
    /\ Admitted
    /\ arg.payload = "reply"
    /\ Ingest(arg)
    /\ IF pending = None
       THEN UNCHANGED <<trackerVars, pending, replyWindow>> /\ Return("nil")
       ELSE /\ Accept(pending.episode, ReplyFact(arg))
            /\ IF AcceptEnds(pending.episode, ReplyFact(arg))
               THEN /\ pending' = None
                    /\ replyWindow' = None
                    /\ pc' = "after" /\ todo' = pending.after /\ UNCHANGED err
               ELSE /\ UNCHANGED <<pending, replyWindow>>
                    /\ Return(IF AcceptFails(pending.episode) THEN "error" ELSE "nil")
    /\ UNCHANGED <<timeline, world, now, arg, startedAt, after, cancelled>>

\* A greeting was decided; the call goes on to read the driver's capabilities.
DecideGreeting ==
    /\ Admitted
    /\ Greets(arg)
    /\ Ingest(arg)
    /\ timeline' = TimelineAfter(arg)
    /\ world' = Apply(EventKind(arg))
    /\ startedAt' = now
    /\ pc' = "plan"
    /\ UNCHANGED <<trackerVars, pending, replyWindow, now, arg, todo, after, cancelled, err>>

\* Planner.Plan drops unsupported actions and needs one that the user notices.
Plannable(caps) == caps \cap FeedbackActions # {}

NewEpisode == [id |-> arg.id, subject |-> Subject, startedAt |-> startedAt]

\* Capabilities unreadable or insufficient, a continuation pending, or another
\* episode still active: Process fails before anything is dispatched.
PlanFails ==
    /\ pc = "plan"
    /\ Return("error")
    /\ UNCHANGED <<trackerVars, stateVars, now, arg, startedAt, after, cancelled>>

\* The episode starts before its first action is dispatched.
StartEpisode(caps) ==
    /\ pc = "plan"
    /\ Plannable(caps)
    /\ pending = None
    /\ ~StartFails(NewEpisode)
    /\ Start(NewEpisode)
    /\ pc' = "before"
    /\ todo' = caps \cap GreetingActions
    /\ after' = caps \cap AfterActions
    /\ UNCHANGED <<stateVars, now, arg, startedAt, cancelled, err>>

-----------------------------------------------------------------------------
(* dispatchCommands                                                        *)

Rank(a) == CASE a = "ATTEND_USER" -> 1 [] a = "ACKNOWLEDGE" -> 2
             [] a = "SPEAK" -> 3 [] a = "RETURN_IDLE" -> 4

NextAction == CHOOSE a \in todo : \A b \in todo : Rank(a) <= Rank(b)

\* The status stream of the next action closed with COMPLETED as its one
\* terminal state.  A done context does not exclude it: select may read the
\* stream first.
CompleteAction ==
    /\ pc \in {"before", "after"}
    /\ todo # {}
    /\ todo' = todo \ {NextAction}
    /\ UNCHANGED <<trackerVars, stateVars, now, pc, arg, startedAt, after, cancelled, err>>

\* Anything else: Execute refused, no stream, no or another terminal state,
\* a status after the terminal one, the action's timeout, or the call's context.
FailAction ==
    /\ pc \in {"before", "after"}
    /\ todo # {}
    /\ \E e \in {"error"} \cup (IF cancelled THEN {"canceled"} ELSE {}) : Return(e)
    /\ UNCHANGED <<trackerVars, stateVars, now, arg, startedAt, after, cancelled>>

\* The greeting is out: open the window at the current time and keep the continuation.
OpenWindow ==
    /\ pc = "before"
    /\ todo = {}
    /\ OpenResponseWindow(arg.id, arg.id, now, WaitFor)
    /\ IF OpenFails(arg.id, arg.id, now, WaitFor)
       THEN Return("error") /\ UNCHANGED <<pending, replyWindow>>
       ELSE /\ pending' = [episode |-> arg.id, deadline |-> now + WaitFor, after |-> after]
            /\ replyWindow' = [openedAt |-> now, deadline |-> now + WaitFor]
            /\ Return("nil")
    /\ UNCHANGED <<seen, lastSeq, timeline, world, now, arg, startedAt, after, cancelled>>

FinishAfter ==
    /\ pc = "after"
    /\ todo = {}
    /\ Return("nil")
    /\ UNCHANGED <<trackerVars, stateVars, now, arg, startedAt, after, cancelled>>

-----------------------------------------------------------------------------
(* NextWakeup, AdvanceAt, CommitUserRejection                              *)

\* NextWakeup: the deadline of the pending continuation.
NextWakeup == IF pending = None THEN None
              ELSE [token |-> pending.episode, deadline |-> pending.deadline]

WakeupIsDue == pending # None /\ arg = NextWakeup /\ now >= arg.deadline

\* A done context, a stale wakeup, or one that is not due changes nothing.
IgnoreWakeup ==
    /\ pc = "advance"
    /\ cancelled \/ ~WakeupIsDue
    /\ Return(IF cancelled THEN "canceled" ELSE "nil")
    /\ UNCHANGED <<trackerVars, stateVars, now, arg, startedAt, after, cancelled>>

ExpirationFact == [episode |-> pending.episode, token |-> arg.token,
                   subject |-> Subject, at |-> arg.deadline]

\* The window elapsed: outcome, cooldown and continuation are settled before
\* the actions after the wait are dispatched.
ExpireWindow ==
    /\ pc = "advance"
    /\ ~cancelled
    /\ WakeupIsDue
    /\ Expire(pending.episode, ExpirationFact)
    /\ IF ExpireEnds(pending.episode, ExpirationFact)
       THEN /\ world' = ApplyNoResponse(arg.deadline)
            /\ pending' = None
            /\ replyWindow' = None
            /\ pc' = "after" /\ todo' = pending.after /\ UNCHANGED err
       ELSE /\ Return(IF ExpireFails(pending.episode, ExpirationFact) THEN "error" ELSE "nil")
            /\ UNCHANGED <<world, pending, replyWindow>>
    /\ UNCHANGED <<seen, lastSeq, timeline, now, arg, startedAt, after, cancelled>>

\* c is a USER_REJECTED command [id, subject, at]; the caller's context is live.
RejectionFact(c) == [kind |-> "USER_REJECTED", src |-> c.id, subject |-> c.subject, at |-> c.at]

\* Seeded fault: the continuation and the published window survive the rejection.
CommitKeepsContinuation(c) ==
    /\ IF c.subject # Subject \/ ~RejectApplies(RejectionFact(c))
       THEN UNCHANGED <<trackerVars, world>>
       ELSE /\ Reject(RejectionFact(c))
            /\ world' = ApplyUserRejection(c.at)
    /\ UNCHANGED <<seen, lastSeq, timeline, pending, replyWindow>>

CommitUserRejection(c) ==
    /\ IF c.subject # Subject \/ ~RejectApplies(RejectionFact(c))
       THEN UNCHANGED <<trackerVars, world, pending, replyWindow>>
       ELSE /\ Reject(RejectionFact(c))
            /\ world' = ApplyUserRejection(c.at)
            /\ IF RejectEnds(RejectionFact(c)) /\ pending # None /\ pending.episode = active.id
               THEN pending' = None /\ replyWindow' = None
               ELSE UNCHANGED <<pending, replyWindow>>
    /\ UNCHANGED <<seen, lastSeq, timeline>>

-----------------------------------------------------------------------------
EngineInit ==
    /\ TrackerInit
    /\ now = 1
    /\ seen = {}
    /\ lastSeq = [s \in Sources |-> 0]
    /\ timeline = [presence |-> "unknown", absentSince |-> 0, busy |-> "unknown", quiet |-> "unknown"]
    /\ world = [busy |-> FALSE, quiet |-> FALSE, rejectedAt |-> 0, unansweredAt |-> 0]
    /\ pending = None
    /\ replyWindow = None
    /\ pc = "idle"
    /\ arg = None
    /\ startedAt = 0
    /\ todo = {}
    /\ after = {}
    /\ cancelled = FALSE
    /\ err = "nil"

\* The steps the running call takes by itself.
CallStep ==
    \/ RefuseObservation \/ ObserveQuietly \/ ObserveReply \/ DecideGreeting
    \/ PlanFails \/ (\E caps \in CapabilitySets : StartEpisode(caps))
    \/ CompleteAction \/ FailAction \/ OpenWindow \/ FinishAfter
    \/ IgnoreWakeup \/ ExpireWindow

\* A caller hands an observation or a wakeup to the engine ...
Call(entry, a, ctxDone) ==
    /\ pc = "idle"
    /\ pc' = entry
    /\ arg' = a
    /\ cancelled' = ctxDone
    /\ UNCHANGED <<trackerVars, stateVars, startedAt, todo, after, err>>

\* ... and takes the result of the call.
TakeResult ==
    /\ pc = "returned"
    /\ pc' = "idle" /\ arg' = None /\ startedAt' = 0 /\ after' = {}
    /\ cancelled' = FALSE /\ err' = "nil"
    /\ UNCHANGED todo

Tick ==
    /\ now < MaxTime
    /\ now' = now + 1

-----------------------------------------------------------------------------
\* The engine on its own: a sequential caller that respects the single-writer
\* rule and nothing else.  Observations carry a timestamp that is not in the
\* future (every producer stamps with the same machine's clock).
CallProcess(o) == o.at <= now /\ Call("process", o, FALSE) /\ UNCHANGED now
CallAdvanceAt(w, ctxDone) == Call("advance", w, ctxDone) /\ UNCHANGED now
CallCommit(c) ==
    /\ pc = "idle"
    /\ c.at <= now
    /\ CommitUserRejection(c)
    /\ UNCHANGED <<callVars, now>>
CancelCall ==
    /\ pc \notin {"idle", "returned"}
    /\ ~cancelled
    /\ cancelled' = TRUE
    /\ UNCHANGED <<trackerVars, stateVars, now, pc, arg, startedAt, todo, after, err>>

EngineNext ==
    \/ \E o \in Inputs : CallProcess(o)
    \/ \E token \in Tokens, deadline \in 1..(MaxTime + WaitFor), ctxDone \in BOOLEAN :
         CallAdvanceAt([token |-> token, deadline |-> deadline], ctxDone)
    \/ \E c \in [id : ControlIds, subject : Subjects, at : Time] : CallCommit(c)
    \/ CancelCall
    \/ CallStep
    \/ TakeResult /\ UNCHANGED <<trackerVars, stateVars, now>>
    \/ Tick /\ UNCHANGED <<trackerVars, stateVars, callVars>>

EngineSpec == EngineInit /\ [][EngineNext]_engineVars

-----------------------------------------------------------------------------
(* Correctness                                                             *)

\* Every variable of the engine has the shape of the Go state it models.
EngineTypeOK ==
    /\ TrackerTypeOK
    /\ now \in Time
    /\ seen \subseteq ObsIds
    /\ lastSeq \in [Sources -> 0..MaxSeq]
    /\ timeline \in [presence : {"unknown", "present", "absent"}, absentSince : Nat,
                     busy : {"unknown", "busy", "available"}, quiet : {"unknown", "quiet", "open"}]
    /\ world \in [busy : BOOLEAN, quiet : BOOLEAN, rejectedAt : Nat, unansweredAt : Nat]
    /\ pending \in Pending \cup {None}
    /\ replyWindow \in Acceptance \cup {None}
    /\ pc \in {"idle", "process", "advance", "plan", "before", "after", "returned"}
    /\ arg \in Observation \cup Wakeup \cup {None}
    /\ startedAt \in Nat
    /\ todo \subseteq Actions
    /\ after \subseteq AfterActions
    /\ cancelled \in BOOLEAN
    /\ err \in {"nil", "canceled", "error"}

\* The three copies of the response window agree in every state: the tracker's
\* window, the continuation the engine waits with, and the window published to
\* the input adapters.  If they ever diverged, AdvanceAt would fail with an
\* error that stops the whole runner, or speech would be accepted for nobody.
WindowCopiesAgree ==
    /\ pending = None <=> window = None
    /\ pending # None =>
         /\ active # None /\ pending.episode = active.id
         /\ window.token = pending.episode /\ window.deadline = pending.deadline
    /\ replyWindow = IF window = None THEN None
                     ELSE [openedAt |-> window.openedAt, deadline |-> window.deadline]

\* A due wakeup always ends its episode: the tracker never refuses it (AdvanceAt's
\* error would stop the whole runner) and never ignores it (the runner would
\* retry it for ever).
DueWakeupExpires ==
    pc = "advance" /\ WakeupIsDue => ExpireEnds(pending.episode, ExpirationFact)

\* While a greeting is being carried out, it was not started inside a cooldown,
\* except by a return that was observed before the cooldown began and was still
\* fresh: the guards judge the event's time, so the clock-time exception is
\* limited to TTL after the start of the cooldown.
GreetingRespectsCooldowns ==
    pc = "before" =>
        \A c \in {<<world.rejectedAt, RejectionCooldown>>, <<world.unansweredAt, NoResponseCooldown>>} :
            c[1] # 0 => \/ active.startedAt < c[1] + TTL
                        \/ active.startedAt >= c[1] + c[2]

\* A reply ends the episode only if it was made inside that episode's window (a
\* late reply to an earlier interaction never answers a later one), and silence
\* is recorded at the deadline, never before the clock has reached it.
OutcomesAreTimely ==
    [][\A o \in outcomes' \ outcomes :
         /\ o.episode = active.id
         /\ o.kind = "ACCEPTED" => window.openedAt <= o.at /\ o.at < window.deadline
         /\ o.kind = "NO_RESPONSE" => o.at = window.deadline /\ now >= o.at
         /\ o.kind = "REJECTED" => active.startedAt <= o.at]_engineVars

\* The engine implements the interaction lifecycle: one interaction at a time,
\* never restarted, ended at most once, ACCEPTED or NO_RESPONSE only after its
\* window was open.
Lifecycle == INSTANCE InteractionLifecycle WITH
    Interactions <- EpisodeIds,
    Nobody       <- None,
    current      <- IF active = None THEN None ELSE active.id,
    waiting      <- window # None,
    ended        <- {<<o.episode, o.kind>> : o \in outcomes}

ImplementsLifecycle == Lifecycle!Spec

(* A claim of the repository that the code does not keep                   *)

\* episode.go: "Episode identifies the proactive interaction currently awaiting
\* feedback": between calls, an active episode has its response window open.
ActiveEpisodeAwaitsFeedback ==
    pc = "idle" /\ active # None => window # None

=============================================================================
