# Proactive interaction engine: TLA+ models and proofs

The engine notices that a person comes back to a desk, greets them through an
avatar, waits a while for an answer and remembers the outcome so that it does
not bother them again too soon. Around it, camera and microphone workers run as
child processes under a permission, publish what they see over local RPC, and a
web panel shows the state and can reject an interaction at any time.

This directory models that system in TLA+, checks the models with TLC on small
instances, and proves the central results with TLAPS for every value of the
constants.

## 1. The system

### Components, their state and their operations

| component (source) | state | operations |
|---|---|---|
| Episode tracker (`internal/domain/episode`) | active episode, response window, consumed feedback and expirations | Start, OpenResponseWindow, Expire, Accept, Reject |
| Engine (`internal/application/engine` and the domain packages semantic, world, decision, behavior) | seen observations, last sequence per source, presence timeline, world cooldowns, pending continuation, published reply window | Process, AdvanceAt, NextWakeup, CommitUserRejection |
| Lifecycle runner (`internal/runtime/lifecycle`) | two bounded queues, active work, scheduled wakeup, done | SubmitObservation, SubmitControl, Run |
| Worker supervisor (`adapters/worker/supervisor`) | per worker: process, failed, everHealthy, runtime state; queued changes; lease view | Change, Run (reconcile, stopAll) |
| Permission service (`internal/application/privacy`) | current permissions and revision | New, Current, Change |
| Permission file (`adapters/storage/privacyfile`) | one file, a temporary one beside it | Load, Save (check, write, sync, rename, sync directory) |
| Web avatar driver (`adapters/embodiment/webavatar`) | what is shown, action records, active speech | Capabilities, Execute, StopAll |
| Capability registry (`adapters/capability/registry`) | leases by identity and by provider | Register, Heartbeat, Unregister, RevokeProvider, expiry |
| Observation ingress (`adapters/input/ingress`) | none of its own | Publish: validate, activation, lease, submit |
| Provider session, camera worker, microphone worker (`workers/`) | lease, expiry, sequence number, gate, transition kept for a retry | start, maintain, step, mark_unhealthy, close |
| Scenario configuration and readiness (`adapters/config/scenario`, `internal/application/readiness`) | none (pure functions of a manifest, of leases and of the time) | Load, EvaluateAt, CurrentActivation |
| Desktop control service (`adapters/ui/desktop`, bridge in `desktopconnect`) | composite revision with the source tuple it stands for, subscribers | GetState, SetPermission, RejectInteraction, WatchState |
| Web panel (`web/desktop`) | latest state, status line, disabled inputs, outstanding work | run, clicks, stop, release |
| Desktop composition and local gRPC transport (`cmd/desktop`, `adapters/transport/localgrpc`) | files, listeners, socket and directory; four running parts | Build, run (start, select, shutdown, joins), New, Run, Close |
| Panel assets, speech output, templates, audit memory, simulator, wire contracts | constant data, bounded write-only logs | translation, I/O |

### How they interact

- Ingress and the desktop service *submit* to the runner and wait for its
  answer; the runner makes one call at a time into the engine and may cancel it
  for a P0 control (`USER_REJECTED`, `SHUTDOWN`).
- The engine calls the avatar driver and waits for each action's terminal
  status; a P0 control also calls `StopAll` on the driver, concurrently with the
  cancelled call.
- The engine's pending continuation is the runner's timer: after work and after
  controls the runner re-arms it from `NextWakeup`.
- A permission change is persisted, then queued to the supervisor; the
  supervisor starts and stops children and revokes their leases; the registry
  notifies it of lease changes through a latest-only channel.
- A worker registers a lease, keeps it alive with heartbeats and publishes
  numbered observations under it; ingress checks readiness and the lease, for
  voice also the reply window that the engine has published, then submits.
- The desktop service composes avatar, permissions and worker runtime into one
  numbered state, answers calls with it and streams it; a page renders what
  arrives.
- `cmd/desktop` builds all of it and stops it in the order HTTP server, workers,
  transport, runner.

### What is hard in it

Interleavings of run loops, goroutines and clients over unprioritised `select`s;
values checked before a lock or a wait and used after it (Execute's context
check, ingress' lease and window checks, cooldowns judged at the event's time);
requests stamped before they are queued; calls that time out for the client and
are still carried out; one fact (the response window) kept in three places, one
state composed of three sources; steps that fail half way through a greeting, a
save or a start; crashes between a rename and its sync; children that die with
calls under way; answers that newer news has overtaken; shutdown with work in
progress. `PROJECT.json` lists each hazard at its line with the properties that
watch it.

### What makes each component correct

| component | correctness |
|---|---|
| tracker | an episode ends only with one outcome; one feedback fact ends one episode; a window belongs to the active episode |
| engine | three window copies agree; due wakeups expire; outcomes are timely; greetings respect cooldowns; it implements the interaction lifecycle |
| runner | single writer; a pending window has its timer; P0 is overtaken at most once; every request returns |
| supervisor | no child outlives its controller; none lives while shown as disabled; in the end every worker follows its permission |
| avatar | one speech at a time, and it is the one StopAll joins; what StopAll covered stays silent; speeches and StopAll end |
| registry | its two tables are inverse; a live lease is not taken over |
| worker, ingress | no transition is lost; the engine ends up knowing the gate; a revoked instance never looks healthy again; a live worker gets its lease |
| permissions | they behave like an atomic register over crashes; no crash makes the next start fail; they stay revocable |
| microphone, ingress | one trigger per utterance; only voice reported in a window is submitted; voice in a window is heard |
| readiness | the verdict and its issues are what is missing, required or optional; the hash names the declaration |
| desktop service | equal revisions are equal states; a stream never goes back and catches up |
| panel | it tells the truth about capture; a hidden page comes to rest |
| composition | a failed start keeps nothing; parts stop in dependency order; the program ends and leaves nothing |

## 2. Modules

| module | models | extends |
|---|---|---|
| `InteractionLifecycle` | abstract specification: what an interaction promises to the outside | |
| `EpisodeTracker` | the tracker, called by anybody in any order | |
| `Engine` | the engine and its domain packages | `EpisodeTracker`, instantiates `InteractionLifecycle` |
| `Runner` | run loop, queues, clients, timer, shutdown | `Engine` |
| `Supervisor` | supervisor, permission changes, children, lease view | |
| `WebAvatar` | driver, speech goroutine, StopAll | |
| `ProviderRegistry` | the lease tables | |
| `PresenceProvider` | camera worker, its RPCs, ingress, revocation | `ProviderRegistry` |
| `PermissionRegister` | abstract specification: what the permission store promises over crashes | |
| `PrivacyStore` | permission service on its file | instantiates `PermissionRegister` |
| `Readiness` | manifest loading, readiness evaluation: pure functions | |
| `Speech` | microphone worker, voice ingress, reply window | `Readiness` |
| `DesktopControl` | desktop service, its three sources, the bridge's calls | |
| `DesktopPanel` | the page | `DesktopControl` |
| `DesktopApp` | start, run and shutdown of the process, private transport | |
| `EngineProofs` | theorems about the tracker, the engine and the runner | `Runner` |
| `PresenceProviderProofs` | theorems about the registry and the camera worker | `PresenceProvider` |
| `DesktopPanelProofs` | theorems about the desktop service and its pages | `DesktopPanel` |
| `SupervisorProofs`, `PrivacyStoreProofs`, `WebAvatarProofs`, `SpeechProofs`, `DesktopAppProofs` | theorems | the module of the same name |
| `MC...` | constants, inputs and symmetry sets for TLC | the module of the same name |

Definitions named in a comment as a *seeded fault* are wrong variants of the
definition that follows them; no specification uses them. `PROJECT.json` pairs
each property with the fault that it detects.

### Correspondence with the code

**EpisodeTracker.** `active` and `window` are the two pointers of `Tracker`;
`feedback` and `expirations` its two memories; `outcomes` records what the
operations returned. Each operation is one action, its refusals (`StartFails`,
`OpenFails`, ...) are operators that follow the early returns. Identities are
built in the code by injective prefixing, so an episode, its interaction and its
token are named by the observation that triggered them, and a fact by its kind
and source. Time 0 is Go's zero time.

**Engine.** One call at a time (`pc`, `arg`, `cancelled`), split where it waits
for the driver: `process` -> `plan` (capabilities) -> `before` (greeting actions)
-> window opened; `advance` -> `after` (action after the wait). Between two
waits a step is the whole code: ingest, compile, project, decide, tracker call
and continuation together. `FailAction` covers a failed, timed out, unsupported
or cancelled action. `CommitUserRejection` is one step. The caller of `EngineSpec` is
arbitrary: any input, any (also stale or invented) wakeup, cancellation at any
wait, the clock advancing in between. Audit records are best effort and never
read back; they are left out.

**Runner.** `runPc` names the waits of the run loop; every `select` has one
step per ready case (`SelectIdle`, `SelectBusy`, `PollControls`...), queues are
sequences with their capacities, a request's response channel is `answer`. The
goroutine of the current call takes `Engine`'s `CallStep`. A client's context
may end at any time; the runner's too. The refused `StopAll` (already cancelled
context) and the failing one differ only in `stopErr`.

**Supervisor.** The loop is split where it unlocks its mutex: while it stops and
while it launches a child. The order in which `reconcileAll` visits a map of
workers is left open (`todo` is a set). Children exit at any time and may ignore
SIGTERM until killed. `lost` holds children that no controller refers to; it is
a history variable, and the code should keep it empty.

**WebAvatar.** A step is what happens under the driver's mutex or between two
waits. `spc` is the speech goroutine of each speech: `begin`, `realize`, `show`,
`speak`, `finish`, `close`. `cause` is the first cancellation cause of its
context.

**ProviderRegistry.** The registry never acts on expiry, it compares it with the
clock, so a record is live or not and `Lapse` is the clock passing its expiry.

**PresenceProvider.** The worker has one call outstanding; `GiveUpCall` leaves it
at the server as a late call, which `Serve` may carry out after any number of
others. A publication is served in the three steps between which ingress holds
no lock: readiness, lease, submission. The hysteresis gate is abstracted to a
gate that may change at any frame. The other required providers are one flag.

**PrivacyStore.** `disk` is what a reader finds at the path, `surviving` the
contents a power failure may leave there: after the rename both the old and the
new document, after the sync of the directory only the new one. A temporary file
that is written and not synced may be torn. Every step of `Save` may fail
(`Fail`), and `Exit` and `PowerFailure` may come between any two. The refinement
maps `possible`, what the next start may load, to the canonical form of the
contents that `New` accepts.

**Readiness.** `Load` and `EvaluateAt` follow the early returns of the code;
`Available` and `Missing` are the definition they are compared with. The hash
is the canonical declaration itself, that is SHA-256 without collisions.

**Speech.** Time is counted in audio frames; `Record` is the recorder. A turn of
the worker's loop is two steps, since the calls of `maintain` may take long
while the recorder goes on: `Maintain` sees to the session, `Process` takes one
frame through the gate and makes a report if it triggers. `Publish` takes four
steps at its own times: activation, lease and time to live, window, engine. A call
that failed may have been carried out: a registration or a heartbeat in the step
in which it fails, a report at any later time (`ServeLate`); session calls that
arrive arbitrarily late are the subject of `PresenceProvider`. `spoken`,
`excused`, `behind`, `answers` and the `voice` of a report, the end of the frame
that triggered it, are history for the properties.

**DesktopControl.** A source is known by its revision. Each read of a source, the
composition of a revision and each case of the stream's `select` is a step. A
stream has one-place channels (`avatarNews`, `providerNews`, `signal`).
`ChangePermission` also has the outcome in which the change is persisted and the
call fails. The panel stops waiting with `Leave`; the handler goes on.

**DesktopPanel.** `run` is the goroutine that gets and then watches, a click is a
call whose goroutine is in `WorkOf`. `Render` replaces what the page shows.
WebAssembly runs a callback only while every goroutine of the page waits.

**DesktopApp.** `BuildSteps` lists the steps with what they take, give back,
undo on their own error path and leave to a deferred function. The four parts
run, fail, or stop when cancelled; `Woken` and the joins are `App.run`.

## 3. Runs

| run | result | what it shows |
|---|---|---|
| `MCEngine` | 2.1 M states | Two absences and returns, a reply or a suppressing signal, any of them late or redelivered, a rejection, stale and due wakeups, cancelled calls: window copies agree, outcomes are timely, one fact ends one episode, due wakeups expire their window, greetings respect both cooldowns up to the TTL, and the engine implements `InteractionLifecycle`. |
| `MCRunner` | 324 k | Clients, queues, timer, P0, shutdown: single writer, armed timer, P0 overtaken at most once, accepted rejections take effect; every request returns and every response window closes or the runner ends. |
| `MCSupervisor` | 67 k | Two racing changes of one worker: its child is joined, none lives while the worker is shown as disabled, and in the end the worker follows its permission. |
| `MCWebAvatar` | 307 k | Two speeches, a visual action and StopAll: the running speech is the one StopAll joins; what a returned StopAll covered stays silent; every wait, of a speech or of StopAll, ends. |
| `MCPresenceProvider` | 806 k | Several transitions; a worker dies, is revoked and replaced: no transition is lost, lease tables are inverse, live leases are not taken over, late calls of the dead instance never make it look healthy, the engine knows the gate unless an overtaken retry or a late publication of the predecessor was carried out, and a worker that stays up gets its lease again and again. |
| `MCPrivacyStore` | 1.6 k | Changes over failing file system calls and crashes: the store implements `PermissionRegister`; no start is refused after one that succeeded. |
| `MCDesktopPanel` | 177 k | One page, two calls, three sources: equal revisions are equal states, a stream never goes back and catches up, an open page at rest shows the capture permissions, a hidden page is released. |
| `MCDesktopApp` | 12 k | Every build step fails once, every part ends by itself, two requests and two workers: a failed start keeps nothing, parts stop in order, nothing is left, the program ends. |
| `MCSpeech` | 484 k | All recordings of five frames with a backlog of two, two windows, one failing call: the voice that answers a window was recorded in it unless the worker was behind when it opened, voice in the window is heard unless the gate was spent, the backlog is processed. In its first state the gate is compared with its definition over all recordings of up to ten frames, and the evaluator and the loader with theirs over manifests of up to two entries of each kind. |
| `MCEngineStuck`, `MCPrivacyStoreStuck`, `MCSpeechUnheard` | violated | see section 6 |

Type invariants (`EngineTypeOK`, `RunnerTypeOK`, ...) document the shape of the
state. They hold in these instances and are, where a module has theorems, a conjunct of
its inductive invariant (section 4); no run is spent on them.

### Bounds and why they are enough

- *Time* is bounded by `MaxTime`, with the durations small enough that both sides
  of every comparison occur: TTL 2, absence threshold 1, wait 1, cooldowns 3 and 2
  within 4 or 5 instants. An event can be fresh or expired, inside, at the edge of
  and after each cooldown and window.
- *Observations*: a greeting needs an absence and a return; two of each and a
  reply (or a busy or quiet signal), with many timestamps and in any order of
  submission, reach a second
  greeting after any outcome of the first. Ingress refuses the late and the repeated
  ones. The proofs cover arbitrary inputs.
- *Runner*: three observations and one control against queue capacities 2 and 1,
  so that a client can meet a full queue; `MaxLag` 0 says a request carries the
  time at which it is submitted, and it may still wait in its queue for any length
  of time. The reply falls into the window or on its deadline, depending on how
  long the greeting takes. One greeting action and one action after the wait: the
  others repeat the same wait.
- *Supervisor*: two changes are the least that race. The run keeps one worker for
  its liveness property; workers interact only through the loop's time, and the
  two invariants are proved for any number of workers, changes and any capacity.
- *WebAvatar*: two speeches are the least for one to overlap its predecessor; one
  visual action changes what is shown in between.
- *PresenceProvider*: two instances, so that a predecessor's calls can be late; two
  publications of an instance give a transition and one that overtakes it. One
  failing call and one late one.
- *PrivacyStore*: two permissions, and a revision that reaches its limit after four
  changes; the first start meets a missing, a torn, an older and an untouched file and
  four that `canonicalize` refuses.
- *Speech*: a gate of 2 voiced frames in 3 and a pause of 2, a window of 4 frames,
  a time to live of 1 and a lease of 3 within 6 instants: the window opens before,
  during and after an utterance, leases and reports expire in between. Two windows
  are the least for a report that was let through for one to meet the next.
- *DesktopPanel*: one page with its stream, two calls (also of earlier state),
  three revisions of the avatar, two of the runtime; one state on the wire makes
  `Send` wait. Pages share nothing but the service. The first call is `GetState`, so
  only one can change a permission and no answer is overtaken by another change;
  with a third call the liveness properties take too long. The safety properties
  were checked with three calls and smaller sources and are proved for any number.
- *DesktopApp*: every step of `Build` once; two requests and two workers.

No run uses symmetry.

`CHECK_DEADLOCK FALSE` stands where the system may really stop: the runner and the
supervisor return after shutdown, a program whose start failed has ended, a
released page does nothing more, and bounded workers, recordings and revisions
run out.

### Fairness and why the code justifies it

- *Runner*: the run loop is never blocked for good when a case is ready
  (WF `RunLoop`); `select` chooses among ready cases at random, so a case that is
  ready again and again is taken (SF `BusyStop`); driver calls return because
  every action has a deadline (WF `WorkStep`), and the clock advances (WF `TimePasses`).
- *Supervisor*: WF of the loop, which waits only for launchers and for children
  that are killed after a grace period; SF for `ctx.Done`, queued changes and the
  health ticker, again because `select` chooses at random. Nothing is assumed of
  children, leases or clients.
- *WebAvatar*: WF of the call, of each speech goroutine and of StopAll. The realizer and
  the speaker return because their context carries the action's deadline. This is
  an assumption on code outside the driver.
- *PresenceProvider*: WF of the worker's steps, of the server, and of the clock
  passing the expiry of a lease that nobody renews. Nothing is assumed about how
  many frames change the gate.
- *Speech*: WF of the worker only. Each of its calls has a deadline, so it goes on
  even if the server never answers.
- *DesktopPanel*: WF of each handler, each stream and each page; the stream of a
  page that is stopping breaks because its request context is cancelled. Clicks,
  publications and failures need not happen.
- *DesktopApp*: WF of the program's own steps, and of a cancelled part's end, which
  the other modules justify: the runner returns on a done context
  (`EveryRequestReturns` needs it), the supervisor joins children that it kills,
  the transport closes its connections with `Stop`. Requests need not end: `Shutdown` has a
  timeout.

## 4. Proofs

| theorem | statement |
|---|---|
| `TrackerInvariant` | the tracker's inductive invariant |
| `TrackerOneOutcomePerFact` | one feedback fact ends at most one episode |
| `TrackerEpisodeEndsWithOutcome` | no call gives up an episode without an outcome for it |
| `EngineWindowCopiesAgree` | tracker window, continuation and published window agree |
| `EngineDueWakeupExpires` | a due wakeup always ends its episode |
| `EngineGreetingRespectsCooldowns` | a greeting starts inside a cooldown at most TTL after the cooldown began |
| `EngineOutcomesAreTimely` | replies count only inside their window, silence only at the deadline, rejections only after the start |
| `EngineImplementsLifecycle` | the engine refines `InteractionLifecycle` |
| `EngineUsesTracker` | every behaviour of the engine is one of `TrackerSpec`: it is a caller the tracker's theorems hold for |
| `RunnerInvariant` | the inductive invariant of the runner with its engine |
| `RunnerRespectsSingleWriter` | every behaviour of the runner is one of `EngineSpec`; the engine's theorems hold behind it |
| `RunnerWakeupIsArmed` | a loop that is about to block has its timer armed for exactly the continuation |
| `RunnerControlOvertakenAtMostOnce` | at most one piece of work starts before a queued control is handled |
| `RunnerRejectionTakesEffect` | an answered rejection is in force |
| `RunnerRequestsAreOwedOrAnswered` | a submitted request is held in exactly one place or is answered, the safety half of `EveryRequestReturns` |
| `RunnerImplementsLifecycle` | the runner with all its races refines `InteractionLifecycle` |
| `RunnerKeepsPromises` | the properties of tracker and engine hold behind the runner |
| `RegistryLeaseTablesAgree` | the two lease tables are inverse to each other |
| `RegistryLiveLeaseIsNotTakenOver` | no registration takes over a live lease |
| `ProviderInvariant` | the inductive invariant of worker, ingress and registry |
| `ProviderUsesRegistry` | worker and ingress are a caller the registry's theorems hold for |
| `ProviderRevokedInstanceStaysDark` | a revoked instance never looks healthy again, whichever late call is carried out |
| `ProviderEveryTransitionIsDelivered` | the gate's last transition was accepted or is kept for a retry |
| `ProviderEngineKnowsTheGate` | only an overtaken retry and a predecessor's late publication mislead the engine |
| `SupervisorInvariant` | the supervisor's inductive invariant |
| `SupervisorChildrenAreJoined` | no child is forgotten, and none is left when `Run` has returned |
| `SupervisorDisabledMeansNoChild` | no child lives while its worker is shown as disabled |
| `SupervisorOffUntilGranted` | a worker that is off, with nothing on its way to start it, stays off until its permission is granted |
| `SupervisorNeverGrantedNeverRuns` | a worker whose permission is never granted never has a child |
| `StoreRestartIsNeverRefused` | no failure and no crash leaves a file that the next start refuses |
| `StoreImplementsRegister` | the permission store refines `PermissionRegister` |
| `AvatarTheActiveSpeechIsTheOneRunning` | the one running speech is the one StopAll joins |
| `AvatarStoppedActionsStaySilent` | nothing that a returned StopAll covered is shown again |
| `AppPartsStopInOrder` | the parts of the program stop in the order of their dependencies |
| `AppAccounts` | what the program holds at each step of `Build` and at each point of `run` |
| `AppFailedBuildKeepsNothing` | whichever step of `Build` fails, nothing stays taken |
| `AppRunLeavesNothing` | a program that returned runs nothing and holds only what the system would not remove |
| `PanelInvariant` | the inductive invariant of the desktop service, its streams and its pages |
| `PanelSameRevisionSameState` | two states with one revision are one state |
| `PanelStreamNeverGoesBack` | nothing on a stream goes back |
| `PanelOpenPageTellsTheTruth` | a page at rest shows the granted capture permissions, unless an answer with an older snapshot came last or a change told nobody |
| `PanelHiddenPageIsQuiet` | the safety half of `HiddenPageIsReleased` |
| `SpeechOnlyVoiceOfTheWindowAnswers` | the voice that answers a window was recorded before its deadline, and after it opened unless the worker was behind then; it is never older than the backlog is long |
| `SpeechVoiceIsHeard` | stable voice within an open window answers it, unless a call failed or the gate was spent before |
| `SpeechOneTriggerPerUtterance` | over any recording the gate triggers exactly where its definition says |
| `SpeechReadinessIsCorrect` | the evaluator reports exactly what is missing, and a hash names one declaration, for any manifests and cases |

*Assumptions.* `TrackerAssumption`, `EngineAssumption`, `InputAssumption`,
`RunnerAssumption`, `RegistryAssumption`, `ProviderAssumption`, `SupervisorAssumption`,
`StoreAssumption`, `AvatarAssumption`, `DesktopAssumption`, `ReadinessAssumption`,
`SpeechAssumption`: durations and the queues'
capacities are positive as the configuration's validation demands, the plan's wait is one of the
window lengths a caller may ask the tracker for, inputs are observations, manifests and
recordings have the types their decoders give them, the loaded scenario is a valid one,
`None` is none of the values it stands beside, requests of
observations and of controls have different identities, and no lease identity is a
status word. TLC evaluates them on every run. `MaxTime` and `MaxSeq` stay bounds in
the guards, but their values are arbitrary, and so are all identity sets.

*Tracker.* `TrackerInv` adds to `OneOutcomePerFact` that every outcome rests on
a consumed fact (`OutcomesAreConsumed`): without it an unconsumed fact could have
an outcome already and consuming it would make a second. `EndActiveInv` is the
common core of the three ways to end an episode; each operation has a lemma that
also says the step accounts for the episode it ends.

*Engine.* `EngineInv` is the conjunction of `TrackerInv`, `EngineTypeOK`, `WindowCopiesAgree`,
`EpisodesAreFresh` and `CallInv`. The last two are what the named properties lack:

- `EpisodesAreFresh`: the active episode and every episode with an outcome are
  named by observations that ingress has seen, every expiration has its outcome, and
  the active episode has none yet. Ingress admits an observation once, so the
  episode of a new greeting, and therefore its wakeup token, was never used; this
  is why `Expire` cannot take a due wakeup for one that was handled
  (`DueWakeupEnds`) and why an interaction does not start twice.
- `CallInv`: what a call that waits still knows, namely that its event was fresh
  and past the guards *when it was decided*, that no rejection can have been
  committed since (the single writer), and that the episode it started is still
  the active one.

`EngineStep` has one lemma per action. The action properties and the refinement
follow from `EngineInv` and step lemmas; for the refinement `InteractionSteps`
shows that every engine step maps to a step of `InteractionLifecycle` or a
stutter under the mapping `current` = the active episode, `waiting` = there is a window,
`ended` = the outcomes.

*Runner.* `RunnerInv` adds to `EngineInv` where the loop stands and what that says of
the call in flight (`LoopInv`), that only submitted requests are queued and
answered, each command under its own identity (`RequestsAreSubmitted`), that the
timer is armed already *between* two pieces of work and not only when the loop blocks
(`TimerFollows`), that an overtaken control is no longer queued where work may start
(`OvertakenOnce`), and that a rejection is consumed by the step that answers it while
a greeting that is being planned was decided after every rejection in force
(`RejectionsAreAnswered`). Without the last an episode of a greeting decided before a
rejection could start after it. `RespectsSingleWriter` then follows step by step: a
step of the loop is an engine call, an engine step or a stutter of `EngineSpec`; and
`StepIsTrackerStep` says the same of an engine step and the tracker. All that is proved of the
tracker and of the engine alone therefore holds of the runner (`RunnerKeepsPromises`,
`RunnerImplementsLifecycle`).

`OwedInv` counts requests. Every identity is in a queue, in the work or in the command in
hand, once (`RequestsHeldOnce`), and a submitted one is there exactly while it has no
answer. The first part is what makes the second inductive: a request that were queued
twice would still be held after its answer, and its second answer would block the loop on
a response channel that takes one value. That the request leaves these places in the end
is liveness and stays with TLC.

*Registry.* Type and agreement are inductive together; `TouchInv` covers every
step that changes a record and keeps its provider.

*Camera worker.* `ProviderInv` says which call a worker at each point of `step` has under
way (`CallsFit`), what every request, also a given-up one, carries (`RequestsFit`),
that a lease identity held anywhere names a record of that instance or none, and none
once the instance is revoked (`LeasesAreOwn`; this is why late heartbeats of a dead
instance find nothing), where the last transition is (`TransitionsAreKept`) and what
the engine took last (`EngineIsCurrent`). `StepIsRegistryStep` shows that the
registry is used through its operations only.

*Supervisor.* `SupervisorInv` adds to the two properties what the loop knows while
it waits without its mutex: the worker it launches or stops is a configured one
(`CurrentIsKnown`), while it halts every worker that is not yet done is still to
be visited (`HaltCoversChildren`), and before `Run` there is no child
(`NothingBeforeStart`). Without the second a child could be alive when `Run`
returns; without the third the first reconciliation could overwrite one.

Consent needs more than the permission at hand, since the loop may obey a queued command
that is older than it (section 6). `Off(w)` is the state in which nothing can start the
worker: no child, no launch under way, no enabling entry in the list being reconciled and no
enabling command queued or about to be. It is kept by every step under a withheld permission,
and it holds at the start.

*Permission store.* `StoreInv` adds to `RestartIsNeverRefused` what is being saved
and where it is: a `Change` in progress saves its own toggle of the current
snapshot and past Save's check the revision has not overflowed
(`ChangeIsCurrent`), the new document is in the temporary file before the
rename and at the path after it (`DocumentIsPlaced`), and either a power failure
leaves the path as it is or everything it may leave is acceptable
(`SurvivorsOpen`). The last is what a restart needs after a process that ended
between rename and sync. `EncodeDecode` says that a canonical snapshot survives
encoding and decoding; with it the rename maps to `Attempt`, the sync of the
directory to `Settle`, the end of `Change` to `Commit`, a crash to `Crash`, and
everything else to a stutter.

*Avatar.* `AvatarInv` adds that a speech has a goroutine exactly when it has a
record, that it finishes with a terminal state, and that of what StopAll found
only the speech it joins may still run (`StopCoversRunning`). A recorded action
is never executed again, so what StopAll has covered stays over
(`SilencedAreOver`).

*Program.* `AppInv` says, for each point of `App.run`, which parts have been
cancelled and which have been joined; no part is started twice and no request
enters a server that was told to stop. `AccountInv` adds what is held: `BuildTable`
says for each of the 43 steps of `Build` what it takes, gives, undoes and defers, and
`BuildIsBalanced` that on every error path undoing and deferred functions give back
exactly what is held there; in `run` the server holds the listener, and the transport its
socket and directory or what it could not remove.

*Desktop service and pages.* `PanelInv` speaks of all states known anywhere (shown, sent,
on the wire, in an answer) and of all snapshots of the permissions read anywhere. A
permission revision is one snapshot, none newer than the current one
(`OneSnapshotPerRevision`); a service revision is one state, and a state with the
current revision shows the tuple it stands for (`OneStatePerRevision`). The second
rests on the first, since the tuple holds only the revision of the permissions.
`StreamsAdvance` says that a channel is empty or holds the last publication, and that a
stream has sent nothing newer than what it holds; with it no source goes back
although the avatar comes from a channel or is read anew. `StreamsAreTold` says that
a stream for which no signal waits, while no handler is about to give one, has read, and then
sent, the permissions as they are. `HandlersHaveRead` is what a handler knows at each point.

*Voice.* `AnswerInv` relates the age of what was recorded to the window: unless the
worker was behind when the window opened, the backlog holds nothing older than the
window, and the same holds of every report under way that is stamped in it
(`ReportFits`), also of those the worker has given up. So whichever window is open when
the engine takes a report, its voice fits. `HeardInv` relates three sequences that hold the same frames
at different times: the frames spoken in the window, the backlog and the gate's
own window. While nothing excuses the worker, either a report made in this window is on
its way, or the gate is armed, the backlog ends with the frames not yet processed
(`Pending`), the gate holds the last of those that are (`Heard`), and none of them completed
stable voice (`Unvoiced`). `HeardFrame` is the step from one frame to the next.

*Gate, manifest and evaluator.* These are statements about data of any length. The loops
are recursive functions; each is shown to exist and to satisfy its equation, and the
induction is by least counterexample (`LeastNumber`, from the well-foundedness of `<`).
For the gate, `GateInv` says of each frame of a recording what the gate remembers: armed since
some frame and a window of what came after it (`ArmedSince`), or spent by a trigger
and the silence after it (`SpentSince`). For readiness, `Before` counts the entries that
precede one, which makes the sorted list a bijection when no name occurs twice
(`SortedProperties`) and a function of the set of entries (`SortedByContent`; from it the
hash does not depend on the order in a file). `CollectedProperties` says that the loop keeps
exactly the entries with a code, and `NoneMeansAvailable` that `evaluateCapability` finds
no code exactly for what the reference calls available.

*What the proofs changed.* Two statements that every run had passed could not be proved
and were wrong:

- `Recorded` in `DesktopApp` was a `CASE` with overlapping arms. TLC takes the first
  one that holds, the language leaves the choice open; it is now a chain of `IF`s.
- `OpenPageTellsTheTruthUnlessOvertaken` excepted answers with an older *revision* than
  the stream's. A handler takes its revision after it has read its sources, so a late
  answer can have a newer revision and an older snapshot; the run's two calls leave
  no room for that, three do. The exception is now stated with the revision of the snapshot.

*Only model-checked.* Liveness under fairness is out of the prover's reach:
`EveryRequestReturns`, `ResponseWindowCloses`, `WorkersFollowPermissions`, `EveryWaitEnds`,
`WorkerGetsItsLease`, `WatcherCatchesUp`, the second half of `HiddenPageIsReleased`,
`BacklogIsProcessed` and `ProgramEnds`. No module uses a recursive operator.

## 5. What the models leave out

Audit records (best effort, bounded, never read back); text, hashes, reason codes
and wording; validation of the presence of fields; replay of recorded action
statuses; counters of the camera's hysteresis; PCM framing, the voice classifier
and the loss of the audio device; the command line of a child. Not modelled at
all: static panel assets, the external speech command and the template table,
test doubles, simulators and the generated wire contracts. `PROJECT.json` gives
the reason for each.

## 6. Disagreements found

1. **A failed greeting leaves an episode that waits for nothing**
   (`MCEngineStuck`). `Process` starts the episode before it dispatches the
   actions and returns on the first failure without ending it. The comment on
   `Episode` says it is "currently awaiting feedback". Every later greeting is
   refused until a rejection ends it.
2. **Permissions can no longer be changed** (`MCPrivacyStoreStuck`). If the sync of
   the directory fails after the rename, `Change` reports an error and keeps the old
   revision while the file has the new one. Every later `Change` is refused as stale
   until the program is restarted, and the restart loads the change that had failed.
   The comment on `Permission` calls it "independently revocable".
3. **A user who speaks on into the window is not heard** (`MCSpeechUnheard`). The
   voice gate is spent by a trigger just before the window, whose report the ingress
   refuses, and is armed again only by a pause. The requirements count 300 ms of
   stable voice within the window as a reply. `VoiceIsHeardUnlessSpent` shows that
   this is the only way, apart from failing calls, to miss it.

Further behaviour that a reader of the documents would not expect. The properties
are stated so that they say exactly how far it goes:

- The hard guards judge a cooldown at the time of the *event*. A return observed
  just before a rejection and processed after it greets inside the rejection
  cooldown, although `docs/PRODUCT_REQUIREMENTS.md:18` says that proactive behaviour
  cannot bypass it: at most TTL after the cooldown began (`GreetingRespectsCooldowns`).
- Two permission changes can be persisted in one order and queued in the other, and
  the supervisor obeys the command: the child of a withdrawn permission is started
  (`README.md:55` says otherwise) and stopped by the next reconciliation
  (`WorkersFollowPermissions`).
- `Execute` checks its context before it takes the mutex and not under it, so an
  action may be carried out after `StopAll` (`driver.go:144`); what `StopAll` has
  covered stays silent (`StoppedActionsStaySilent`).
- Speech from before the window can answer it, although `ARCHITECTURE.md:74` and
  `docs/PRODUCT_REQUIREMENTS.md:115` say that voice outside the window cannot become a
  `UserReply`. A report carries the time at which it is made
  (`workers/provider.py:188`), not that of its audio: a worker that is behind when the
  window opens takes earlier words from its backlog, and they end the episode as a reply.
  Being behind is the only way, and the words are older by less than the backlog
  (`OnlyVoiceOfTheWindowAnswersUnlessBehind`).
- A camera transition kept for a retry survives a newer one that was accepted in the
  same step and is published after it (`presence.py:77`). This and a late
  publication of a dead predecessor are the only ways to mislead the engine
  (`EngineKnowsTheGateUnlessConfused`).
- The page renders the answer of `SetPermission` whenever it arrives, also after a
  newer state of the stream (`main_js_wasm.go:216`), and then shows an older capture
  state until the next change (with a revision that may even be newer, since
  `compositeRevision` is called after the reads, `server.go:257`), although `docs/PRODUCT_REQUIREMENTS.md:152` wants it
  shown at all times (`OpenPageTellsTheTruthUnlessOvertaken`).
- `app.go:229` says UI requests are stopped and joined before the runner is; after
  the shutdown timeout `Close` does not wait for their handlers
  (`PartsStopInOrder` excepts this case). `grpc.Server.Stop` cancels the workers' calls
  without waiting for their handlers; the runner refuses what these still submit.

## 7. Plan

Done: the core (tracker, engine, lifecycle, runner), the supervisor, the avatar,
the registry with the camera worker, the permission store and its register, the
voice path with readiness and configuration, the desktop service with its page,
and the composition with its shutdown. Every safety invariant that a run checks has a
theorem, and so has every action property and refinement. What could follow:

1. `Supervisor`: the order in which racing changes are obeyed, as an action property with
   its theorem; so far only that nothing is started without a grant.
2. `DesktopControl`: an abstract specification of a numbered state that one service
   issues, and the refinement.

## 8. Running

    tlc -config MCEngine.cfg MCEngine      # any run of section 3
    tlapm EngineProofs.tla                 # any proof module of section 4

Every passing run finishes within a few minutes on two workers.
