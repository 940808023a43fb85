------------------------------- MODULE Speech -------------------------------
(***************************************************************************)
(* From the microphone to a reply: the voice worker (workers/microphone)   *)
(* frames what the recorder writes, decides with a gate when somebody      *)
(* speaks and reports it; the ingress (adapters/input/ingress) turns a     *)
(* report into a reply while the scenario is active, the lease runs and    *)
(* the response window is open; the engine answers it.  Time is counted in *)
(* audio frames: the n-th is complete at time n + 1.  The session's own    *)
(* calls (register, heartbeat) are the subject of PresenceProvider and     *)
(* either succeed or fail here.                                            *)
(***************************************************************************)
EXTENDS Readiness

CONSTANTS
    Scenario,        \* the requirements of the loaded manifest
    WindowFrames, VoicedFrames, RearmFrames,   \* VoiceActivityGate
    WaitFor,         \* how long a response window is open
    Ttl,             \* observation_ttl of the voice worker
    LeaseFor,        \* ProviderLeaseDuration
    MaxTime,         \* bound: frames recorded
    MaxBacklog,      \* bound: frames the recorder is ahead of the worker
    MaxWindows,      \* bound: response windows
    MaxFailures,     \* bound: calls of the worker that fail
    Recordings,      \* bound: the recordings the gate is tried on
    None

\* A Publish on its way: when the report was made, when the voice it reports was
\* recorded (history: it is not on the wire), under which lease, and how far the
\* server has got with it.
Reports ==
    [at : Nat, voice : Nat, lease : Nat, stage : {"new", "ready", "authorized", "submitted", "done"}]

ASSUME SpeechAssumption ==
    /\ WindowFrames \in Nat \ {0} /\ VoicedFrames \in 1..WindowFrames /\ RearmFrames \in Nat \ {0}
    /\ WaitFor \in Nat \ {0} /\ Ttl \in Nat \ {0} /\ LeaseFor \in Nat \ {0}
    /\ ValidateScenario(Scenario)
    /\ \A h \in Recordings : h \in Seq(BOOLEAN)
    /\ MaxBacklog \in Nat
    /\ None \notin Reports

VARIABLES
    now,         \* the clock, in frames
    pipe,        \* frames recorded and not yet processed: voiced or not
    turn,        \* what maintain said of the session for the next frame, or "idle"
    gate,        \* VoiceActivityGate: the sliding window, armed, the run of silence
    session,     \* the lease id the worker holds, or None
    lease,       \* the registry's lease of the voice provider: its id and its end
    camera,      \* the presence provider holds a healthy lease
    report,      \* the worker's outstanding Publish, or None
    late,        \* reports it has given up and the server still carries out
    window,      \* the response window as published to the ingress, or None
    windows,     \* the number of windows there have been
    spoken,      \* history: the frames recorded while the window has been open
    excused,     \* history: why speech in this window may go unheard
    behind,      \* history: speech from before this window may still be stamped in it
    answers,     \* history: the windows the engine took as answered, and by which voice
    failures

sessionVars == <<session, lease, failures>>
windowVars  == <<window, windows, spoken, excused, behind>>
vars == <<now, pipe, turn, gate, sessionVars, camera, report, late, answers, windowVars>>

-----------------------------------------------------------------------------
(* VoiceActivityGate                                                       *)

Voices(frames) == Cardinality({i \in DOMAIN frames : frames[i]})

\* deque(maxlen=window_frames).append
Slide(frames, voiced) ==
    LET all == Append(frames, voiced)
    IN  IF Len(all) > WindowFrames THEN Tail(all) ELSE all

NewGate == [heard |-> <<>>, armed |-> TRUE, silence |-> 0]

\* update, once the run of silence is known.
GateStep(g, voiced, run) ==
    LET heard == Slide(g.heard, voiced)
    IN  IF ~g.armed
        THEN IF run >= RearmFrames THEN NewGate ELSE [g EXCEPT !.silence = run]
        ELSE IF Len(heard) < WindowFrames \/ Voices(heard) < VoicedFrames
             THEN [g EXCEPT !.heard = heard]
             ELSE [heard |-> <<>>, armed |-> FALSE, silence |-> 0]

\* Seeded fault: a word in the pause does not start the pause anew.
GateCountingAllSilence(g, voiced) == GateStep(g, voiced, IF voiced THEN g.silence ELSE g.silence + 1)

\* update: what one frame does to the gate ...
GateAfter(g, voiced) == GateStep(g, voiced, IF voiced THEN 0 ELSE g.silence + 1)

\* ... and whether it triggers.
Triggers(g, voiced) == g.armed /\ ~GateAfter(g, voiced).armed

-----------------------------------------------------------------------------
(* MicrophoneWorker                                                        *)

\* The recorder writes one frame; the window's history is kept with it.
Record(voiced) ==
    /\ now < MaxTime
    /\ Len(pipe) < MaxBacklog
    /\ now' = now + 1
    /\ pipe' = Append(pipe, voiced)
    /\ spoken' = IF window = None \/ now >= window.deadline THEN spoken ELSE Append(spoken, voiced)
    /\ UNCHANGED <<turn, gate, sessionVars, camera, report, late, window, windows, excused, behind, answers>>

\* The worker holds the registry's lease and it has not run out.
Leased == session # None /\ session = lease.id /\ now < lease.expires

\* ProviderSession.maintain: a lease that still runs is kept, with or without a
\* heartbeat; without one the worker registers and sends a heartbeat, and the
\* registry returns the provider's running lease if there is one.  A call that
\* fails leaves the worker without a lease, whether or not the registry has
\* carried it out.  A provider that is registered and has sent no heartbeat is
\* not healthy, which is as good as a lease that has run out.
Maintained(active) ==
    LET running == now < lease.expires
        renewed == [id |-> IF running THEN lease.id ELSE lease.id + 1, expires |-> now + LeaseFor]
        unhealthy == [renewed EXCEPT !.expires = now]
    IN  \/ /\ active /\ Leased
           /\ lease' \in {lease, renewed}
           /\ UNCHANGED <<session, failures>>
        \/ /\ active /\ ~Leased
           /\ lease' = renewed
           /\ session' = renewed.id
           /\ UNCHANGED failures
        \/ /\ ~active /\ failures < MaxFailures
           /\ lease' \in {lease, renewed} \cup (IF running THEN {} ELSE {unhealthy})
           /\ session' = None
           /\ failures' = failures + 1

\* process: a frame has been read and the session is seen to first.  The calls
\* may take long, and the recorder goes on.
Maintain(active) ==
    /\ pipe # <<>> /\ report = None /\ turn = "idle"
    /\ Maintained(active)
    /\ turn' = IF active THEN "active" ELSE "inactive"
    /\ UNCHANGED <<now, pipe, gate, camera, report, late, answers, windowVars>>

\* process: the gate judges the frame.  A trigger is spent even if the session is
\* not active, or no longer; a report carries the time it is made at, not the
\* time of the frame.
Process ==
    LET triggered == Triggers(gate, Head(pipe))
        reported == triggered /\ turn = "active" /\ Leased
    IN  /\ turn # "idle"
        /\ turn' = "idle"
        /\ gate' = GateAfter(gate, Head(pipe))
        /\ pipe' = Tail(pipe)
        /\ report' = IF reported
                     THEN [at |-> now, voice |-> now - Len(pipe'), lease |-> session, stage |-> "new"]
                     ELSE None
        /\ excused' = IF triggered /\ ~reported THEN excused \cup {"failed"} ELSE excused
        /\ UNCHANGED <<now, sessionVars, camera, late, window, windows, spoken, behind, answers>>

\* Seeded fault: a call waits for its answer as long as it takes.
GiveUpNever == FALSE /\ UNCHANGED vars

\* The call fails or times out: the worker drops its lease and goes on, and the
\* server may carry the report out all the same.
GiveUp ==
    /\ report # None
    /\ report' = None
    /\ session' = None
    /\ \/ UNCHANGED <<late, failures>>
       \/ /\ report.stage # "done" /\ failures < MaxFailures
          /\ late' = late \cup {report}
          /\ failures' = failures + 1
    /\ excused' = excused \cup {"failed"}
    /\ UNCHANGED <<now, pipe, turn, gate, lease, camera, window, windows, spoken, behind, answers>>

\* The receipt arrives; the worker does not look at it.
Receive ==
    /\ report # None /\ report.stage = "done"
    /\ report' = None
    /\ UNCHANGED <<now, pipe, turn, gate, sessionVars, camera, late, answers, windowVars>>

-----------------------------------------------------------------------------
(* The ingress                                                             *)

\* The registry's snapshots: expired leases are still listed.
Snapshot(provider, kind, expires) ==
    [provider |-> provider, instance |-> provider, capabilities |-> <<kind>>,
     health |-> "HEALTHY", expires |-> expires]
Snapshots ==
    (IF camera THEN <<Snapshot("desktop-presence", "PERSON_PRESENCE", now + 1)>> ELSE <<>>)
    \o (IF lease.id = 0 THEN <<>> ELSE <<Snapshot("desktop-vad", "VOICE_ACTIVITY", lease.expires)>>)

Active == CurrentActivation(Scenario, Snapshots, TRUE, now) \in {"READY", "DEGRADED"}

\* Server.selected: the provider the scenario binds to a capability.
Selected(kind) ==
    {e.provider : e \in {d \in ToSet(Scenario.required \o Scenario.optional) : d.kind = kind}}

\* authorize: a lease that was replaced is not found.
Authorized(r) ==
    r.lease = lease.id /\ now < lease.expires /\ "desktop-vad" \in Selected("VOICE_ACTIVITY")

\* Seeded fault: a report that may live on after the deadline does not count.
replyWindowContainsWholly(at) == window # None /\ window.openedAt <= at /\ at + Ttl < window.deadline

\* replyWindowContains
replyWindowContains(at) == window # None /\ window.openedAt <= at /\ at < window.deadline

\* What Publish does next with a report, each step at its own time: the
\* activation; the lease and the time to live; the window; the engine.
Served(r) ==
    CASE r.stage = "new"        -> IF Active THEN "ready" ELSE "done"
      [] r.stage = "ready"      -> IF Authorized(r) /\ now <= r.at + Ttl THEN "authorized" ELSE "done"
      [] r.stage = "authorized" -> IF replyWindowContains(r.at) THEN "submitted" ELSE "done"
      [] OTHER                  -> "done"

\* Seeded fault: the engine takes what the ingress has let through, whichever
\* window is open by now.
EngineTrustsIngress(r) == now <= r.at + Ttl /\ window # None

\* The engine takes a reply that is still timely and made in its open window:
\* the episode ends and the published window is cleared.
EngineAccepts(r) == now <= r.at + Ttl /\ replyWindowContains(r.at)

Carry(r) ==
    /\ IF r.stage = "submitted" /\ EngineAccepts(r)
       THEN /\ answers' = answers \cup {[window |-> window, voice |-> r.voice, behind |-> behind]}
            /\ window' = None /\ spoken' = <<>>
       ELSE UNCHANGED <<answers, window, spoken>>
    /\ excused' = IF \/ Served(r) = "done" /\ r.stage \in {"new", "ready"}
                     \/ r.stage = "submitted" /\ now > r.at + Ttl
                  THEN excused \cup {"failed"} ELSE excused
    /\ UNCHANGED <<now, pipe, turn, gate, sessionVars, camera, windows, behind>>

Serve ==
    /\ report # None /\ report.stage # "done"
    /\ report' = [report EXCEPT !.stage = Served(report)]
    /\ Carry(report)
    /\ UNCHANGED late

ServeLate ==
    \E r \in late :
        /\ late' = (late \ {r}) \cup (IF Served(r) = "done" THEN {} ELSE {[r EXCEPT !.stage = Served(r)]})
        /\ Carry(r)
        /\ UNCHANGED report

-----------------------------------------------------------------------------
(* The rest of the program                                                 *)

CameraChanges ==
    /\ camera' = ~camera
    /\ UNCHANGED <<now, pipe, turn, gate, sessionVars, report, late, answers, windowVars>>

UnderWay == late \cup (IF report = None THEN {} ELSE {report})

\* Some of what was recorded before now is stamped now or later.
Lagging == pipe # <<>> \/ \E r \in UnderWay : r.at = now /\ r.voice < now

\* The greeting is out: the engine opens a window.
OpenWindow ==
    /\ window = None /\ windows < MaxWindows
    /\ window' = [openedAt |-> now, deadline |-> now + WaitFor]
    /\ windows' = windows + 1
    /\ spoken' = <<>>
    /\ excused' = IF gate.armed THEN {} ELSE {"disarmed"}
    /\ behind' = Lagging
    /\ UNCHANGED <<now, pipe, turn, gate, sessionVars, camera, report, late, answers>>

\* The window's wakeup or a rejection.
CloseWindow ==
    /\ window # None
    /\ window' = None /\ spoken' = <<>>
    /\ UNCHANGED <<now, pipe, turn, gate, sessionVars, camera, report, late, answers, windows, excused, behind>>

Init ==
    /\ now = 1 /\ pipe = <<>> /\ turn = "idle" /\ gate = NewGate
    /\ session = None /\ lease = [id |-> 0, expires |-> 0] /\ failures = 0
    /\ camera = TRUE
    /\ report = None /\ late = {}
    /\ window = None /\ windows = 0
    /\ spoken = <<>> /\ excused = {} /\ behind = FALSE /\ answers = {}

Worker == (\E active \in BOOLEAN : Maintain(active)) \/ Process \/ Receive \/ GiveUp

Next ==
    \/ \E voiced \in BOOLEAN : Record(voiced)
    \/ Worker \/ Serve \/ ServeLate
    \/ CameraChanges \/ OpenWindow \/ CloseWindow

Spec == Init /\ [][Next]_vars

\* The worker's calls have a deadline, so the worker goes on whatever the server does.
FairSpec == Spec /\ WF_vars(Worker)

-----------------------------------------------------------------------------
(* Correctness                                                             *)

SilentRun(h, from, to) == \E a \in from..(to - RearmFrames + 1) : \A b \in a..(a + RearmFrames - 1) : ~h[b]
Voiced(h, j) == j >= WindowFrames /\ Voices(SubSeq(h, j - WindowFrames + 1, j)) >= VoicedFrames

\* The gate before a recording and after each of its frames.
GateOver(h) ==
    LET gates[i \in 0..Len(h)] == IF i = 0 THEN NewGate ELSE GateAfter(gates[i - 1], h[i])
    IN  gates

Fired(h) == {i \in DOMAIN h : Triggers(GateOver(h)[i - 1], h[i])}

\* The pure functions do not depend on the state: they are tried in the first.
AtStart == now = 1 /\ windows = 0 /\ camera

\* The gate over whole recordings: it triggers on a voiced window, never twice
\* without a full pause and a whole window in between, and misses no voiced
\* window for any other reason.
OneTriggerPerUtterance ==
    AtStart => \A h \in Recordings :
        LET fired == Fired(h)
        IN  /\ \A j \in fired : Voiced(h, j)
            /\ \A i, j \in fired : i < j => SilentRun(h, i + 1, j - WindowFrames)
            /\ \A j \in DOMAIN h : Voiced(h, j) /\ j \notin fired =>
                   \E i \in fired : i < j /\ ~SilentRun(h, i + 1, j - WindowFrames)

\* The scenario is loaded and judged correctly on every case: EvaluateAt agrees
\* with the definition of a ready, degraded and blocked scenario (what is
\* missing, and its fallback), and the hash that names a configuration is the
\* same for two files exactly when they declare the same, in whatever order.
ReadinessIsCorrect == AtStart => EvaluateAtMeetsReference /\ HashNamesDeclaration

\* How far speech outside a response window stays outside (ARCHITECTURE and
\* PRODUCT_REQUIREMENTS: it cannot become a reply at all).  A report carries the
\* time it is made at, the ingress checks it against one window and the engine
\* takes it some time later, perhaps with another window open.  Still, the voice
\* that answers a window was recorded before its deadline and not before it
\* opened, unless the worker was behind when it opened; then it is older by less
\* than the pipe holds.
OnlyVoiceOfTheWindowAnswersUnlessBehind ==
    \A a \in answers :
        /\ a.voice < a.window.deadline
        /\ a.window.openedAt <= a.voice \/ a.behind
        /\ a.window.openedAt < a.voice + MaxBacklog

\* All that was recorded has been processed and answered.
Settled == pipe = <<>> /\ report = None

StableVoice == \E j \in DOMAIN spoken : Voiced(spoken, j)

\* Stable voice within an open window has answered it (an answered window is
\* cleared), unless a call failed or the gate had been spent before it opened.
VoiceIsHeardUnlessSpent ==
    window # None /\ now < window.deadline /\ Settled /\ excused = {} => ~StableVoice

\* A server that never answers does not stop the microphone: as long as there is
\* a backlog frames are processed and released, so that each one is in its turn,
\* however much is recorded meanwhile.
BacklogIsProcessed == []<>(pipe = <<>>) \/ []<><<Process>>_vars

(* A claim of the repository that the code does not keep                   *)

\* PRODUCT_REQUIREMENTS: about 300 ms of stable voice within the window are a
\* reply candidate.
VoiceIsHeard ==
    window # None /\ now < window.deadline /\ Settled /\ "failed" \notin excused => ~StableVoice
=============================================================================
