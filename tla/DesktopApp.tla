----------------------------- MODULE DesktopApp -----------------------------
(***************************************************************************)
(* cmd/desktop: one process that builds the whole system in order, gives   *)
(* back what it took when a step fails, runs the runner, the private       *)
(* worker transport, the worker supervisor and the HTTP server side by     *)
(* side, and stops them in order when it is told to or when one of them    *)
(* ends.  What these parts do is the subject of the other modules; here    *)
(* they run, fail, and stop when their context is cancelled.               *)
(***************************************************************************)
EXTENDS Naturals, Sequences

CONSTANTS
    Workers,       \* the media workers the supervisor may start
    Handlers       \* bound: HTTP requests in progress

Parts     == {"runner", "transport", "workers", "server"}
Resources == {"file", "listener", "directory", "socket", "unixListener"}

VARIABLES
    pc,          \* where main is
    step,        \* the step Build has reached
    held,        \* the resources the process holds
    deferred,    \* what the deferred functions of Build would close
    stuck,       \* what cleanup could not remove
    signal,      \* SIGINT or SIGTERM arrived
    part,        \* each part's goroutine: "idle", "running" or its result
    cancelled,   \* the parts that have been told to stop
    finished,    \* the parts whose result run has received
    firstErr,    \* "none", "canceled" or "failed"
    handlers,    \* requests whose handler has not returned
    children,    \* worker processes that are alive
    timedOut     \* Shutdown gave up on a handler

buildVars == <<step, held, deferred, stuck>>
runVars   == <<part, cancelled, finished, firstErr, handlers, children, timedOut>>
vars      == <<pc, buildVars, signal, runVars>>

-----------------------------------------------------------------------------
(* Build                                                                   *)

\* A step: what it takes, what it gives back when it succeeds, what its own
\* error path closes, and what is deferred once it succeeded.
Takes(name, takes, gives, undoes, defers) ==
    [name |-> name, takes |-> takes, gives |-> gives, undoes |-> undoes, defers |-> defers]
Plain(name) == Takes(name, {}, {}, {}, {})

\* Config.Validate touches nothing outside the process.
Validate == <<Plain("subject"), Plain("listen address"), Plain("paths"), Plain("tts path"), Plain("durations")>>

\* secureOpen: the file that was inspected is the file that was opened.
secureOpen == <<Plain("inspect"), Takes("open", {"file"}, {}, {}, {}), Takes("same file", {}, {}, {"file"}, {})>>

\* loadAsset closes the file on every path.
loadAsset == secureOpen \o
    <<Takes("size", {}, {}, {"file"}, {}), Takes("read", {}, {"file"}, {"file"}, {})>>

\* The scenario file is closed before the outcome of Load is looked at.
loadScenario == secureOpen \o <<Takes("load", {}, {"file"}, {"file"}, {})>>

\* validateExecutableLink for the Python and the recorder, then the media root.
validateMedia == <<Plain("python"), Plain("parec"), Plain("media root")>>

\* Seeded fault: the socket that cannot be made private is left behind.
NewTransportLeavesSocket ==
    << Plain("runtime base"),
       Takes("make directory", {"directory"}, {}, {}, {}),
       Takes("directory mode", {}, {}, {"directory"}, {}),
       Takes("listen unix", {"socket", "unixListener"}, {}, {"directory"}, {}),
       Takes("socket mode", {}, {}, {"unixListener"}, {"unixListener", "socket", "directory"}) >>

\* localgrpc.New; Build defers Close on what it returns.
NewTransport ==
    << Plain("runtime base"),
       Takes("make directory", {"directory"}, {}, {}, {}),
       Takes("directory mode", {}, {}, {"directory"}, {}),
       Takes("listen unix", {"socket", "unixListener"}, {}, {"directory"}, {}),
       Takes("socket mode", {}, {}, {"unixListener", "socket", "directory"},
                                    {"unixListener", "socket", "directory"}) >>

BuildSteps ==
    Validate \o loadAsset \o loadAsset \o loadScenario \o validateMedia
    \o <<Takes("listen", {"listener"}, {}, {}, {"listener"})>>
    \o <<Plain("token"), Plain("privacy file"), Plain("permissions"), Plain("registry"), Plain("tts"),
         Plain("driver"), Plain("engine"), Plain("runner"), Plain("activation"), Plain("ingress")>>
    \o NewTransport
    \o <<Plain("supervisor"), Plain("authorizer"), Plain("service"), Plain("bridge"), Plain("panel")>>

\* One step of Build succeeds.
BuildStep ==
    /\ pc = "build"
    /\ LET s == BuildSteps[step]
       IN  /\ held' = (held \cup s.takes) \ s.gives
           /\ deferred' = deferred \cup s.defers
    /\ step' = step + 1
    /\ pc' = IF step = Len(BuildSteps) THEN "built" ELSE "build"
    /\ UNCHANGED <<stuck, signal, runVars>>

\* One step of Build fails: it closes what it has, Build closes what it has
\* deferred, and main exits with an error.
BuildFails ==
    /\ pc = "build"
    /\ held' = (held \ BuildSteps[step].undoes) \ deferred
    /\ pc' = "failed"
    /\ UNCHANGED <<step, deferred, stuck, signal, runVars>>

-----------------------------------------------------------------------------
(* The parts                                                               *)

Ends(p, result) == part' = [part EXCEPT ![p] = result]

\* A request arrives while the server accepts, and its handler returns.
Request(h) ==
    /\ part["server"] = "running" /\ "server" \notin cancelled
    /\ h \notin handlers
    /\ handlers' = handlers \cup {h}
    /\ UNCHANGED <<pc, buildVars, signal, part, cancelled, finished, firstErr, children, timedOut>>

HandlerReturns(h) ==
    /\ h \in handlers
    /\ handlers' = handlers \ {h}
    /\ UNCHANGED <<pc, buildVars, signal, part, cancelled, finished, firstErr, children, timedOut>>

\* Accept fails: Serve returns the error.
ServerFails ==
    /\ part["server"] = "running" /\ "server" \notin cancelled
    /\ Ends("server", "failed")
    /\ held' = held \ {"listener"}
    /\ UNCHANGED <<pc, step, deferred, stuck, signal, cancelled, finished, firstErr, handlers, children, timedOut>>

\* Serve returns ErrServerClosed once Shutdown has been called.
ServerStops ==
    /\ part["server"] = "running" /\ "server" \in cancelled
    /\ Ends("server", "closed")
    /\ held' = held \ {"listener"}
    /\ UNCHANGED <<pc, step, deferred, stuck, signal, cancelled, finished, firstErr, handlers, children, timedOut>>

\* Runner.Run returns the error of the work it was doing, or the end of its
\* context.
RunnerEnds(result) ==
    /\ part["runner"] = "running"
    /\ result = "canceled" => "runner" \in cancelled
    /\ Ends("runner", result)
    /\ UNCHANGED <<pc, buildVars, signal, cancelled, finished, firstErr, handlers, children, timedOut>>

\* The supervisor starts a worker, and a worker exits.
WorkerStarts(w) ==
    /\ part["workers"] = "running" /\ "workers" \notin cancelled
    /\ w \notin children
    /\ children' = children \cup {w}
    /\ UNCHANGED <<pc, buildVars, signal, part, cancelled, finished, firstErr, handlers, timedOut>>

WorkerExits(w) ==
    /\ w \in children
    /\ children' = children \ {w}
    /\ UNCHANGED <<pc, buildVars, signal, part, cancelled, finished, firstErr, handlers, timedOut>>

\* Supervisor.Run: stopAll joins every child before it returns, and a context
\* that ended in the middle of a reconciliation is returned as an error.
SupervisorEnds(result) ==
    /\ part["workers"] = "running"
    /\ result \in {"ok", "canceled"} => "workers" \in cancelled
    /\ children' = {}
    /\ Ends("workers", result)
    /\ UNCHANGED <<pc, buildVars, signal, cancelled, finished, firstErr, handlers, timedOut>>

\* cleanup: a socket that cannot be removed keeps its directory.
CleanedUp(left) == (held \ {"unixListener", "socket", "directory"}) \cup left

\* localgrpc.Server.Run ends because Serve failed or its context ended.
TransportEnds(result) ==
    /\ part["transport"] = "running"
    /\ result = "ok" => "transport" \in cancelled
    /\ \E left \in {{}, {"directory"}, {"socket", "directory"}} :
           /\ held' = CleanedUp(left)
           /\ stuck' = left
           /\ Ends("transport", IF left = {} THEN result ELSE "failed")
    /\ UNCHANGED <<pc, step, deferred, signal, cancelled, finished, firstErr, handlers, children, timedOut>>

-----------------------------------------------------------------------------
(* run                                                                     *)

RunUnchanged == UNCHANGED <<buildVars, signal, part, handlers, children>>

\* run starts the four goroutines; keepListener and keepWorkerTransport are set.
Start ==
    /\ pc = "built"
    /\ pc' = "select"
    /\ deferred' = {}
    /\ part' = [p \in Parts |-> "running"]
    /\ UNCHANGED <<step, held, stuck, signal, cancelled, finished, firstErr, handlers, children, timedOut>>

SignalArrives ==
    /\ pc \in {"built", "select", "shutdown", "joinServer", "joinWorkers", "joinTransport", "joinRunner"}
    /\ ~signal
    /\ signal' = TRUE
    /\ UNCHANGED <<pc, buildVars, runVars>>

\* A part's result as the select and the joins look at it.
Expected(p) == CASE p = "server" -> {"closed"} [] p = "runner" -> {"canceled"} [] OTHER -> {"ok"}
Recorded(p) == IF firstErr # "none" \/ part[p] \in Expected(p) THEN firstErr
               ELSE IF part[p] = "canceled" THEN "canceled" ELSE "failed"

\* The select: the signal, or the first part that ended.  Then the contexts of
\* the requests are cancelled and Shutdown begins.
Woken ==
    /\ pc = "select"
    /\ \/ signal /\ firstErr' = "canceled" /\ UNCHANGED finished
       \/ \E p \in Parts : /\ part[p] \notin {"idle", "running"}
                           /\ finished' = {p}
                           /\ firstErr' = Recorded(p)
    /\ cancelled' = {"server"}
    /\ pc' = "shutdown"
    /\ UNCHANGED timedOut
    /\ RunUnchanged

\* Shutdown returns when no request is left ...
ShutdownReturns ==
    /\ pc = "shutdown" /\ handlers = {}
    /\ pc' = "joinServer"
    /\ UNCHANGED <<cancelled, finished, firstErr, timedOut>>
    /\ RunUnchanged

\* ... or after its timeout; Close then closes the connections, and does not
\* wait for the handlers.
ShutdownTimesOut ==
    /\ pc = "shutdown" /\ handlers # {}
    /\ pc' = "joinServer"
    /\ timedOut' = TRUE
    /\ firstErr' = IF firstErr = "none" THEN "failed" ELSE firstErr
    /\ UNCHANGED <<cancelled, finished>>
    /\ RunUnchanged

\* Receive the result of p unless the select has had it, then cancel the next.
JoinThenCancel(p, here, next, after) ==
    /\ pc = here
    /\ IF p \in finished THEN UNCHANGED <<finished, firstErr>>
       ELSE /\ part[p] # "running"
            /\ finished' = finished \cup {p}
            /\ firstErr' = Recorded(p)
    /\ cancelled' = cancelled \cup next
    /\ pc' = after
    /\ UNCHANGED timedOut
    /\ RunUnchanged

\* Seeded fault: the transport goes before the workers that need it.
JoinServerStopsTransport == JoinThenCancel("server", "joinServer", {"workers", "transport"}, "joinWorkers")

JoinServer == JoinThenCancel("server", "joinServer", {"workers"}, "joinWorkers")

JoinWorkers == JoinThenCancel("workers", "joinWorkers", {"transport"}, "joinTransport")

JoinTransport == JoinThenCancel("transport", "joinTransport", {"runner"}, "joinRunner")

\* Seeded fault: the result the select has received is awaited once more.
JoinRunnerTwice ==
    /\ pc = "joinRunner"
    /\ "runner" \notin finished
    /\ JoinThenCancel("runner", "joinRunner", {}, "returned")

\* Seeded fault: run does not wait for the runner.
JoinRunnerUnawaited ==
    /\ pc = "joinRunner" /\ pc' = "returned"
    /\ UNCHANGED <<cancelled, finished, firstErr, timedOut>>
    /\ RunUnchanged

\* The last join; run turns a cancellation into a normal end.
JoinRunner == JoinThenCancel("runner", "joinRunner", {}, "returned")

Init ==
    /\ pc = "build" /\ step = 1
    /\ held = {} /\ deferred = {} /\ stuck = {}
    /\ signal = FALSE
    /\ part = [p \in Parts |-> "idle"]
    /\ cancelled = {} /\ finished = {}
    /\ firstErr = "none"
    /\ handlers = {} /\ children = {}
    /\ timedOut = FALSE

Run == Woken \/ ShutdownReturns \/ ShutdownTimesOut \/ JoinServer \/ JoinWorkers \/ JoinTransport \/ JoinRunner

PartStops == \/ ServerStops
             \/ "runner" \in cancelled /\ RunnerEnds("canceled")
             \/ "workers" \in cancelled /\ SupervisorEnds("ok")
             \/ "transport" \in cancelled /\ TransportEnds("ok")

Next ==
    \/ BuildStep \/ BuildFails
    \/ Start \/ SignalArrives \/ Run
    \/ \E h \in Handlers : Request(h) \/ HandlerReturns(h)
    \/ ServerFails \/ ServerStops
    \/ \E result \in {"canceled", "failed"} : RunnerEnds(result)
    \/ \E w \in Workers : WorkerStarts(w) \/ WorkerExits(w)
    \/ \E result \in {"ok", "canceled", "failed"} : SupervisorEnds(result)
    \/ \E result \in {"ok", "failed"} : TransportEnds(result)

Spec == Init /\ [][Next]_vars

\* The program takes its steps, and a part whose context is cancelled ends.
Fairness == /\ WF_vars(BuildStep) /\ WF_vars(Start) /\ WF_vars(Run)
            /\ WF_vars(ServerStops)
            /\ WF_vars(\E result \in {"canceled", "failed"} : "runner" \in cancelled /\ RunnerEnds(result))
            /\ WF_vars(\E result \in {"ok", "canceled"} : "workers" \in cancelled /\ SupervisorEnds(result))
            /\ WF_vars("transport" \in cancelled /\ TransportEnds("ok"))
FairSpec == Spec /\ Fairness

-----------------------------------------------------------------------------
(* Correctness                                                             *)

\* Whatever step of Build fails, nothing it took is left: no descriptor, no
\* listener, no socket and no directory in the runtime base.
FailedBuildKeepsNothing == pc = "failed" => held = {}

\* The parts stop in the order of their dependencies, whatever ended the
\* program.  A living worker has its transport, unless the transport failed by
\* itself; and the runner, whose end stops the output, is told to stop only when
\* workers, transport and requests are gone, a request that outlived the shutdown
\* timeout excepted.  (A handler whose call the transport's Stop has cancelled may
\* still be returning; it is not waited for, and the runner refuses what it submits.)
PartsStopInOrder ==
    /\ children # {} => part["transport"] = "running" \/ "transport" \notin cancelled
    /\ "runner" \in cancelled =>
         /\ handlers = {} \/ timedOut
         /\ children = {}
         /\ \A p \in Parts \ {"runner"} : part[p] # "running"

\* When run has returned nothing of the program runs, all it took is given back
\* except for what the system would not remove, and an end that no signal asked
\* for is reported as a failure.
RunLeavesNothing ==
    pc = "returned" => /\ children = {}
                       /\ \A p \in Parts : part[p] # "running"
                       /\ held = stuck
                       /\ signal \/ firstErr = "failed"

\* A signal, or the end of any part, ends the program.
ProgramEnds ==
    (pc = "select" /\ (signal \/ \E p \in Parts : part[p] # "running")) ~> pc = "returned"

=============================================================================
