-------------------------- MODULE PresenceProvider --------------------------
(***************************************************************************)
(* The camera worker (workers/camera, workers/provider) talking to the     *)
(* registry and to the observation ingress (adapters/input/ingress) over   *)
(* RPCs that can time out: the child process registers, heartbeats and     *)
(* publishes presence transitions, can die at any moment, and is revoked   *)
(* by its supervisor before a successor with a new instance identity is    *)
(* started.                                                                *)
(*                                                                         *)
(* A worker has one call outstanding.  A call it gave up may still be      *)
(* carried out by the server later, after any number of other calls.       *)
(* The other providers the scenario requires are one flag; the engine is   *)
(* its ingress (source sequences) and the presence it knows.               *)
(***************************************************************************)
EXTENDS ProviderRegistry, Naturals, FiniteSets

CONSTANTS Camera,       \* the provider the scenario selects for PERSON_PRESENCE
          MaxSeq,       \* bound: publications of one instance
          MaxFailures,  \* bound: calls that fail or time out
          MaxLate,      \* bound: given-up calls that the server still carries out
          MaxOutages    \* bound: how often another required provider goes away

Kinds   == {"register", "heartbeat", "unregister", "publish"}
Values  == {"present", "absent"}
Request == [kind : Kinds, inst : Instances, lease : LeaseIds \cup {None}, health : Healths,
            seq : 0..MaxSeq, value : Values \cup {None}, stage : {"new", "ready", "authorized"}]
Reply   == {"error", "rejected", "accepted", "done"} \cup LeaseIds

ASSUME ProviderAssumption ==
    /\ Camera \in Providers
    /\ MaxSeq \in Nat /\ MaxFailures \in Nat /\ MaxLate \in Nat /\ MaxOutages \in Nat
    /\ None \notin Request \cup Reply \cup Values \cup Instances
    /\ LeaseIds \cap {"error", "rejected", "accepted", "done"} = {}

VARIABLES child,        \* the running instance, or None
          started,      \* instances started so far
          revoked,      \* dead instances that the supervisor has revoked
          wpc,          \* where the worker stands in CameraWorker.step
          lease,        \* ProviderSession._lease_id, or None
          valid,        \* now < _expires_at
          healthy,      \* _healthy
          due,          \* now >= _next_heartbeat_at
          seq,          \* _source_seq
          active,       \* step's local `active'
          gate,         \* PresenceHysteresis._current, or None
          news,         \* step's local `transition', or None
          pending,      \* CameraWorker._pending, or None
          rpc,          \* the outstanding request, or None
          reply,        \* its result, or None
          late,         \* given-up requests the server may still carry out
          others,       \* every other required capability is available
          lastSeq,      \* the engine's ingress.lastSeq of each instance
          presence,     \* the presence the engine knows, or None
          delivered,    \* the engine accepted the value of the gate since the gate took it
          confused,     \* something outdated was, or will be, published (see below)
          failures, outages

sessionVars == <<lease, valid, healthy, due, seq>>
cameraVars  == <<active, gate, news, pending>>
engineVars  == <<lastSeq, presence, delivered, confused>>
vars == <<registryVars, child, started, revoked, wpc, sessionVars, cameraVars, rpc, reply, late,
          others, engineVars, failures, outages>>

-----------------------------------------------------------------------------
(* ProviderSession                                                         *)

Waiting == rpc # None \/ reply # None

\* ProviderSession.active.
Usable == lease # None /\ healthy /\ valid

ClearLease == lease' = None /\ valid' = FALSE /\ healthy' = FALSE /\ due' = FALSE

Send(kind, l, health, n, value) ==
    rpc' = [kind |-> kind, inst |-> child, lease |-> l, health |-> health, seq |-> n,
            value |-> value, stage |-> "new"]

\* start and maintain: without a lease that still runs, register as STARTING ...
SendRegister ==
    /\ wpc \in {"start", "maintain"} /\ ~Waiting
    /\ lease = None \/ (healthy /\ ~valid)
    /\ ClearLease
    /\ Send("register", None, "unhealthy", 0, None)
    /\ UNCHANGED <<registryVars, child, started, revoked, wpc, seq, cameraVars, reply, late,
                   others, engineVars, failures, outages>>

\* ... then, and whenever it is due, send a heartbeat.
SendHeartbeat ==
    /\ wpc \in {"start", "maintain"} /\ ~Waiting
    /\ lease # None
    /\ ~healthy \/ (valid /\ due)
    /\ Send("heartbeat", lease, "healthy", 0, None)
    /\ UNCHANGED <<registryVars, child, started, revoked, wpc, sessionVars, cameraVars, reply,
                   late, others, engineVars, failures, outages>>

AfterSession == IF wpc = "start" THEN "maintain" ELSE "retry"

\* maintain: nothing to do.
Maintained ==
    /\ wpc = "maintain" /\ ~Waiting
    /\ Usable /\ ~due
    /\ active' = TRUE
    /\ wpc' = "retry"
    /\ UNCHANGED <<registryVars, child, started, revoked, sessionVars, gate, news, pending, rpc,
                   reply, late, others, engineVars, failures, outages>>

\* _register stores the lease; _heartbeat turns the session healthy.
ReceiveLease ==
    /\ wpc \in {"start", "maintain"} /\ reply \in LeaseIds
    /\ lease' = reply /\ valid' = TRUE /\ due' = TRUE /\ healthy' = FALSE
    /\ reply' = None
    /\ UNCHANGED <<registryVars, child, started, revoked, wpc, seq, cameraVars, rpc, late, others,
                   engineVars, failures, outages>>

ReceiveHeartbeat ==
    /\ wpc \in {"start", "maintain"} /\ reply = "done"
    /\ valid' = TRUE /\ healthy' = TRUE /\ due' = FALSE
    /\ active' = TRUE
    /\ wpc' = AfterSession
    /\ reply' = None
    /\ UNCHANGED <<registryVars, child, started, revoked, lease, seq, gate, news, pending, rpc,
                   late, others, engineVars, failures, outages>>

-----------------------------------------------------------------------------
(* CameraWorker.step                                                       *)

SendPublish(value) ==
    /\ seq < MaxSeq
    /\ seq' = seq + 1
    /\ Send("publish", lease, "healthy", seq + 1, value)
    /\ UNCHANGED <<lease, valid, healthy, due>>

\* An unpublished transition is tried again first.
Retry ==
    /\ wpc = "retry" /\ ~Waiting
    /\ IF active /\ pending # None /\ Usable
       THEN SendPublish(pending) /\ UNCHANGED wpc
       ELSE wpc' = "read" /\ UNCHANGED <<sessionVars, rpc>>
    /\ UNCHANGED <<registryVars, child, started, revoked, cameraVars, reply, late, others,
                   engineVars, failures, outages>>

\* A frame is read and the gate may change; or it is unreadable, which after
\* three times in a row makes the worker report itself unhealthy and end.
ReadFrame ==
    /\ wpc = "read"
    /\ \/ \E v \in Values \ {gate} :
            gate' = v /\ news' = v /\ delivered' = FALSE /\ wpc' = "tell"
       \/ wpc' = "maintain" /\ UNCHANGED <<gate, news, delivered>>
       \/ wpc' = "unwell" /\ UNCHANGED <<gate, news, delivered>>
    /\ UNCHANGED <<registryVars, child, started, revoked, sessionVars, active, pending, rpc,
                   reply, late, others, lastSeq, presence, confused, failures, outages>>

\* Seeded fault: a transition seen without a usable lease is not kept.
TellForgets ==
    /\ wpc = "tell" /\ ~Waiting
    /\ IF active /\ Usable
       THEN SendPublish(news) /\ UNCHANGED <<wpc, news, pending>>
       ELSE /\ news' = None /\ wpc' = "maintain"
            /\ UNCHANGED <<sessionVars, rpc, pending>>
    /\ UNCHANGED <<registryVars, child, started, revoked, active, gate, reply, late, others,
                   engineVars, failures, outages>>

\* The transition is published, or kept for the next step.
Tell ==
    /\ wpc = "tell" /\ ~Waiting
    /\ IF active /\ Usable
       THEN SendPublish(news) /\ UNCHANGED <<wpc, news, pending>>
       ELSE /\ pending' = news /\ news' = None /\ wpc' = "maintain"
            /\ UNCHANGED <<sessionVars, rpc>>
    /\ UNCHANGED <<registryVars, child, started, revoked, active, gate, reply, late, others,
                   engineVars, failures, outages>>

\* The receipt: an accepted retry clears what was pending; an accepted
\* transition does not; a transition that is not accepted becomes pending.
ReceiveReceipt ==
    /\ wpc \in {"retry", "tell"} /\ reply \in {"accepted", "rejected"}
    /\ reply' = None
    /\ IF wpc = "retry"
       THEN /\ wpc' = "read"
            /\ pending' = IF reply = "accepted" THEN None ELSE pending
            /\ UNCHANGED news
       ELSE /\ wpc' = "maintain" /\ news' = None
            /\ pending' = IF reply = "accepted" THEN pending ELSE news
    /\ confused' = (confused \/ (wpc = "tell" /\ reply = "accepted" /\ pending # None))
    /\ UNCHANGED <<registryVars, child, started, revoked, sessionVars, active, gate, rpc, late,
                   others, lastSeq, presence, delivered, failures, outages>>

\* mark_unhealthy, then run leaves its loop (as it does on SIGTERM) ...
ReportUnwell ==
    /\ wpc = "unwell" /\ ~Waiting
    /\ IF lease # None THEN Send("heartbeat", lease, "unhealthy", 0, None) /\ UNCHANGED wpc
       ELSE wpc' = "close" /\ UNCHANGED rpc
    /\ UNCHANGED <<registryVars, child, started, revoked, sessionVars, cameraVars, reply, late,
                   others, engineVars, failures, outages>>

ReportedUnwell ==
    /\ wpc = "unwell" /\ reply = "done"
    /\ healthy' = FALSE
    /\ reply' = None
    /\ wpc' = "close"
    /\ UNCHANGED <<registryVars, child, started, revoked, lease, valid, due, seq, cameraVars, rpc,
                   late, others, engineVars, failures, outages>>

Terminated ==
    /\ wpc = "maintain" /\ ~Waiting
    /\ wpc' = "close"
    /\ UNCHANGED <<registryVars, child, started, revoked, sessionVars, cameraVars, rpc, reply,
                   late, others, engineVars, failures, outages>>

\* ... and close unregisters, once, whatever comes of it.
Close ==
    /\ wpc = "close" /\ ~Waiting
    /\ ClearLease
    /\ IF lease # None THEN Send("unregister", lease, "healthy", 0, None) ELSE UNCHANGED rpc
    /\ wpc' = "exit"
    /\ UNCHANGED <<registryVars, child, started, revoked, seq, cameraVars, reply, late, others,
                   engineVars, failures, outages>>

\* What the worker does after a call that failed or timed out.
AfterFailure ==
    IF wpc = "exit" THEN UNCHANGED <<sessionVars, active, pending, news, wpc>>
    ELSE /\ ClearLease /\ UNCHANGED seq
         /\ active' = IF wpc \in {"start", "maintain"} THEN FALSE ELSE active
         /\ pending' = IF wpc = "tell" THEN news ELSE pending
         /\ news' = None
         /\ wpc' = CASE wpc \in {"start", "maintain"} -> AfterSession
                     [] wpc = "retry" -> "read"
                     [] wpc = "tell" -> "maintain"
                     [] wpc = "unwell" -> "close"

\* The server answered with an error status.
ReceiveError ==
    /\ reply = "error"
    /\ reply' = None
    /\ AfterFailure
    /\ UNCHANGED <<registryVars, child, started, revoked, gate, rpc, late, others, engineVars,
                   failures, outages>>

\* The server may or may not carry the given-up call out.
GiveUpCall ==
    late' \in {late} \cup (IF rpc # None /\ Cardinality(late) < MaxLate
                           THEN {late \cup {rpc}} ELSE {})

\* The call timed out, the connection failed, or the answer came too late.
CallFails ==
    /\ Waiting
    /\ failures < MaxFailures
    /\ failures' = failures + 1
    /\ GiveUpCall
    /\ rpc' = None /\ reply' = None
    /\ AfterFailure
    /\ UNCHANGED <<registryVars, child, started, revoked, gate, others, engineVars, outages>>

-----------------------------------------------------------------------------
(* The process                                                             *)

Forget ==
    /\ ClearLease /\ seq' = 0
    /\ active' = FALSE /\ gate' = None /\ news' = None /\ pending' = None
    /\ rpc' = None /\ reply' = None

\* --instance-id defaults to a random identity, so it is fresh; which of the unused ones it is makes no
\* difference.
NewInstance == CHOOSE i \in Instances : i \notin started

\* The supervisor starts a child with a fresh instance identity.
StartChild ==
    /\ child = None
    /\ revoked = started
    /\ started # Instances
    /\ child' = NewInstance
    /\ started' = started \cup {NewInstance}
    /\ wpc' = "start"
    /\ delivered' = TRUE /\ confused' = FALSE
    /\ UNCHANGED <<registryVars, revoked, sessionVars, cameraVars, rpc, reply, late, others,
                   lastSeq, presence, failures, outages>>

\* The process ends: by itself after close, or killed at any moment.
Die ==
    /\ child # None
    /\ child' = None
    /\ wpc' = "off"
    /\ GiveUpCall
    /\ Forget
    /\ UNCHANGED <<registryVars, started, revoked, others, engineVars, failures, outages>>

\* The supervisor found the child dead or joined it: RevokeProvider.
RevokeDead ==
    /\ child = None
    /\ revoked # started
    /\ RevokeProvider(Camera)
    /\ revoked' = started
    /\ UNCHANGED <<child, started, wpc, sessionVars, cameraVars, rpc, reply, late, others,
                   engineVars, failures, outages>>

-----------------------------------------------------------------------------
(* The server                                                              *)

\* Request r has been carried out; only an outstanding call gets the answer.
Finish(r, result) ==
    \/ /\ r = rpc
       /\ rpc' = None /\ reply' = result
       /\ UNCHANGED late
    \/ /\ r \in late
       /\ late' = late \ {r}
       /\ UNCHANGED <<rpc, reply>>

Proceed(r, stage) ==
    \/ /\ r = rpc
       /\ rpc' = [r EXCEPT !.stage = stage]
       /\ UNCHANGED <<reply, late>>
    \/ /\ r \in late
       /\ late' = (late \ {r}) \cup {[r EXCEPT !.stage = stage]}
       /\ UNCHANGED <<rpc, reply>>

Requests == late \cup (IF rpc = None THEN {} ELSE {rpc})

\* newLeaseIDLocked: identities are random, so one that anybody still holds is
\* not issued again; which of the others it is makes no difference.
Unused == {l \in LeaseIds : /\ byLease[l] = None /\ l # lease /\ l # reply
                            /\ \A r \in Requests : r.lease # l}

NewLease == CHOOSE l \in Unused : TRUE

ServeRegister(r) ==
    /\ r.kind = "register"
    /\ Unused # {}
    /\ Register(Camera, r.inst, r.health, NewLease)
    /\ Finish(r, IF RegisterConflicts(Camera, r.inst, r.health) THEN "error"
                 ELSE LeaseReturned(Camera, NewLease))
    /\ UNCHANGED engineVars

ServeHeartbeat(r) ==
    /\ r.kind = "heartbeat"
    /\ Heartbeat(r.lease, r.health)
    /\ Finish(r, IF HeartbeatSucceeds(r.lease) THEN "done" ELSE "error")
    /\ UNCHANGED engineVars

ServeUnregister(r) ==
    /\ r.kind = "unregister"
    /\ Unregister(r.lease)
    /\ Finish(r, "done")
    /\ UNCHANGED engineVars

\* EvaluateAt for the selected scenario: every required capability has a
\* healthy provider with a live lease.
ScenarioReady ==
    /\ others
    /\ byProvider[Camera] # None
    /\ byLease[byProvider[Camera]].health = "healthy" /\ byLease[byProvider[Camera]].live

\* ingress.authorize.
Authorized(r) ==
    /\ byLease[r.lease] # None
    /\ byLease[r.lease].health = "healthy" /\ byLease[r.lease].live
    /\ byLease[r.lease].provider = Camera
    /\ byLease[r.lease].instance = r.inst

\* Publish: the activation, then the lease, then (in stage "authorized") Submit.
CheckPublish(r) ==
    /\ r.kind = "publish"
    /\ \/ /\ r.stage = "new"
          /\ IF ScenarioReady THEN Proceed(r, "ready") ELSE Finish(r, "rejected")
       \/ /\ r.stage = "ready"
          /\ IF Authorized(r) THEN Proceed(r, "authorized") ELSE Finish(r, "rejected")
    /\ UNCHANGED <<registryVars, engineVars>>

\* Seeded fault: the engine does not compare source sequences.
InOrderAlways(r) == TRUE

\* ingress.accept of the engine: a source's sequence only grows.
InOrder(r) == r.seq > lastSeq[r.inst]

\* SubmitObservation: taken in order; the answer is lost if Process then fails.
Submit(r) ==
    /\ r.kind = "publish" /\ r.stage = "authorized"
    /\ IF InOrder(r)
       THEN /\ lastSeq' = [lastSeq EXCEPT ![r.inst] = r.seq]
            /\ presence' = r.value
            /\ delivered' = (delivered \/ (r.inst = child /\ r.value = gate))
            /\ confused' = (confused \/ r.inst # child)
            /\ \E result \in {"accepted"} \cup (IF failures < MaxFailures THEN {"error"} ELSE {}) :
                 /\ Finish(r, result)
                 /\ failures' = IF result = "error" THEN failures + 1 ELSE failures
       ELSE Finish(r, "rejected") /\ UNCHANGED <<engineVars, failures>>
    /\ UNCHANGED registryVars

\* The TTL passed, in ingress or in the engine's queue, or the runner refused.
RefuseSubmit(r) ==
    /\ r.kind = "publish" /\ r.stage = "authorized"
    /\ failures < MaxFailures
    /\ failures' = failures + 1
    /\ \E result \in {"rejected", "error"} : Finish(r, result)
    /\ UNCHANGED <<registryVars, engineVars>>

Serve ==
    /\ \E r \in Requests :
         \/ /\ ServeRegister(r) \/ ServeHeartbeat(r) \/ ServeUnregister(r) \/ CheckPublish(r)
            /\ UNCHANGED failures
         \/ Submit(r) \/ RefuseSubmit(r)
    /\ UNCHANGED <<child, started, revoked, wpc, sessionVars, cameraVars, others, outages>>

-----------------------------------------------------------------------------
(* Time and the other providers                                            *)

\* The worker's copy of the expiry is never later than the registry's.
LeaseLapses(l) ==
    /\ Lapse(l)
    /\ valid' = (valid /\ lease # l)
    /\ UNCHANGED <<child, started, revoked, wpc, lease, healthy, due, seq, cameraVars, rpc, reply,
                   late, others, engineVars, failures, outages>>

\* The lease of an instance that is gone.
UnrenewedLapses(l) == LeaseLapses(l) /\ byLease[l].instance # child

OwnLeaseLapses(l)  == LeaseLapses(l) /\ byLease[l].instance = child

HeartbeatDue ==
    /\ lease # None /\ ~due
    /\ due' = TRUE
    /\ UNCHANGED <<registryVars, child, started, revoked, wpc, lease, valid, healthy, seq,
                   cameraVars, rpc, reply, late, others, engineVars, failures, outages>>

OthersChange ==
    /\ others => outages < MaxOutages
    /\ others' = ~others
    /\ outages' = IF others THEN outages + 1 ELSE outages
    /\ UNCHANGED <<registryVars, child, started, revoked, wpc, sessionVars, cameraVars, rpc, reply,
                   late, engineVars, failures>>

-----------------------------------------------------------------------------
Init ==
    /\ RegistryInit
    /\ child = None /\ started = {} /\ revoked = {} /\ wpc = "off"
    /\ lease = None /\ valid = FALSE /\ healthy = FALSE /\ due = FALSE /\ seq = 0
    /\ active = FALSE /\ gate = None /\ news = None /\ pending = None
    /\ rpc = None /\ reply = None /\ late = {}
    /\ others \in BOOLEAN
    /\ lastSeq = [i \in Instances |-> 0] /\ presence = None
    /\ delivered = TRUE /\ confused = FALSE
    /\ failures = 0 /\ outages = 0

WorkerStep ==
    \/ SendRegister \/ SendHeartbeat \/ Maintained \/ ReceiveLease \/ ReceiveHeartbeat
    \/ Retry \/ ReadFrame \/ Tell \/ ReceiveReceipt
    \/ ReportUnwell \/ ReportedUnwell \/ Close \/ ReceiveError

Next ==
    \/ WorkerStep \/ Terminated \/ CallFails \/ Serve
    \/ StartChild \/ Die \/ RevokeDead
    \/ (\E l \in LeaseIds : LeaseLapses(l)) \/ HeartbeatDue \/ OthersChange

Spec == Init /\ [][Next]_vars

\* The worker and the server run, and a lease that its instance does not renew
\* any more runs out.
Fairness ==
    /\ WF_vars(WorkerStep)
    /\ WF_vars(Serve)
    /\ \A l \in LeaseIds : WF_vars(UnrenewedLapses(l))

FairSpec == Spec /\ Fairness

-----------------------------------------------------------------------------
(* Correctness                                                             *)

\* Every variable has the shape of the state it models.
ProviderTypeOK ==
    /\ RegistryTypeOK
    /\ child \in Instances \cup {None}
    /\ started \subseteq Instances /\ revoked \subseteq started
    /\ wpc \in {"off", "start", "maintain", "retry", "read", "tell", "unwell", "close", "exit"}
    /\ lease \in LeaseIds \cup {None}
    /\ seq \in 0..MaxSeq
    /\ gate \in Values \cup {None} /\ news \in Values \cup {None} /\ pending \in Values \cup {None}
    /\ rpc \in Request \cup {None} /\ reply \in Reply \cup {None}
    /\ late \subseteq Request /\ Cardinality(late) <= MaxLate
    /\ lastSeq \in [Instances -> 0..MaxSeq]
    /\ presence \in Values \cup {None}
    /\ {valid, healthy, due, active, others, delivered, confused} \subseteq BOOLEAN

\* RevokeProvider keeps "a dead instance from appearing healthy": once a dead
\* child has been revoked, no call of its that is still under way can make the
\* registry show it as healthy again.
RevokedInstanceStaysDark ==
    \A l \in LeaseIds : byLease[l] # None /\ byLease[l].instance \in revoked =>
        byLease[l].health = "unhealthy"

\* No presence transition is lost: between two steps of the worker the latest
\* one is kept for a retry or has been accepted by the engine, whatever calls
\* failed, timed out, were rejected or were carried out late.
EveryTransitionIsDelivered ==
    wpc = "maintain" => delivered \/ pending = gate

\* When the worker has nothing left to publish, the engine knows the state of its
\* gate; given-up calls that are carried out late do not undo later ones.  The
\* only ways to confuse the engine are the replay of a retry that a newer
\* transition has overtaken, and a publication of a dead predecessor.
EngineKnowsTheGateUnlessConfused ==
    wpc = "maintain" /\ gate # None /\ pending = None /\ ~confused => presence = gate

\* A worker that stays up, and whose own lease at some time stops lapsing before
\* its heartbeat, gets a healthy lease again and again, also after lost answers
\* and when a late call of its dead predecessor holds the provider.
WorkerGetsItsLease ==
    /\ <>[](child # None /\ wpc \in {"start", "maintain", "retry", "read", "tell"})
    /\ <>[][\A l \in LeaseIds : ~OwnLeaseLapses(l)]_vars
    => []<>(lease # None /\ healthy)

=============================================================================
