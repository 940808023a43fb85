----------------------- MODULE PresenceProviderProofs -----------------------
(***************************************************************************)
(* Proofs about the provider registry and the camera worker that uses it,  *)
(* for any providers, instances, lease identities, failures and late       *)
(* calls: the lease tables agree and no live lease is taken over; a        *)
(* revoked instance never looks healthy again; no presence transition is   *)
(* lost, and the engine knows the last one unless an outdated one was      *)
(* published.                                                              *)
(***************************************************************************)
EXTENDS PresenceProvider, TLAPS

-----------------------------------------------------------------------------
(* The registry on its own                                                 *)

\* The type of the tables and their agreement are inductive together.
RegistryInv == RegistryTypeOK /\ LeaseTablesAgree

\* A new record has the type of a record.
LEMMA NewRecordType ==
    ASSUME NEW p \in Providers, NEW i \in Instances, NEW h \in Healths
    PROVE  /\ NewRecord(p, i, h) \in Record
           /\ NewRecord(p, i, h) # None
           /\ NewRecord(p, i, h).provider = p
<1>1. NewRecord(p, i, h) \in Record
  BY DEF NewRecord, Record
<1>2. NewRecord(p, i, h).provider = p
  BY DEF NewRecord
<1> QED
  BY <1>1, <1>2, RegistryAssumption

\* Registration keeps the tables inverse to each other: the record of the
\* provider, if any, is replaced and no other record belongs to the provider.
LEMMA RegisterInv ==
    ASSUME RegistryInv,
           NEW p \in Providers, NEW i \in Instances, NEW h \in Healths, NEW l \in LeaseIds,
           Register(p, i, h, l)
    PROVE  RegistryInv'
<1>1. CASE Active(p)
  BY <1>1 DEF Register, RegistryInv, RegistryTypeOK, LeaseTablesAgree, registryVars
<1>2. CASE ~Active(p)
  <2>1. /\ byLease[l] = None
        /\ byLease' = [WithoutLeaseOf(p) EXCEPT ![l] = NewRecord(p, i, h)]
        /\ byProvider' = [byProvider EXCEPT ![p] = l]
    BY <1>2 DEF Register
  <2>2. RegistryTypeOK'
    BY <2>1, NewRecordType DEF RegistryInv, RegistryTypeOK, WithoutLeaseOf
  <2>3. byProvider'[p] = l /\ byLease'[l] = NewRecord(p, i, h)
    BY <2>1 DEF RegistryInv, RegistryTypeOK, WithoutLeaseOf
  <2>4. ASSUME NEW m \in LeaseIds, m # l, byLease'[m] # None
        PROVE  byLease'[m] = byLease[m] /\ byLease[m].provider # p
    <3>1. byLease'[m] = byLease[m] /\ m # byProvider[p]
      BY <2>1, <2>4 DEF RegistryInv, RegistryTypeOK, WithoutLeaseOf
    <3> QED
      BY <2>4, <3>1 DEF RegistryInv, LeaseTablesAgree
  <2>5. ASSUME NEW q \in Providers, byProvider'[q] # None
        PROVE  byLease'[byProvider'[q]] # None /\ byLease'[byProvider'[q]].provider = q
    <3>1. CASE q = p
      BY <2>3, <3>1, NewRecordType
    <3>2. CASE q # p
      <4>1. byProvider'[q] = byProvider[q]
        BY <2>1, <3>2 DEF RegistryInv, RegistryTypeOK
      <4>2. /\ byProvider[q] \in LeaseIds /\ byLease[byProvider[q]] # None
            /\ byLease[byProvider[q]].provider = q
        BY <2>5, <4>1 DEF RegistryInv, RegistryTypeOK, LeaseTablesAgree
      <4>3. byProvider[q] # l
        BY <2>1, <4>2
      <4>4. byProvider[q] # byProvider[p]
        BY <3>2, <4>2, RegistryAssumption DEF RegistryInv, RegistryTypeOK, LeaseTablesAgree
      <4>5. byLease'[byProvider[q]] = byLease[byProvider[q]]
        BY <2>1, <4>2, <4>3, <4>4 DEF RegistryInv, RegistryTypeOK, WithoutLeaseOf
      <4> QED
        BY <4>1, <4>2, <4>5
    <3> QED
      BY <3>1, <3>2
  <2>6. ASSUME NEW m \in LeaseIds, byLease'[m] # None
        PROVE  byProvider'[byLease'[m].provider] = m
    <3>1. CASE m = l
      BY <2>3, <3>1, NewRecordType
    <3>2. CASE m # l
      <4>1. byLease'[m] = byLease[m] /\ byLease[m].provider # p
        BY <2>4, <2>6, <3>2
      <4>2. byLease[m].provider \in Providers /\ byProvider[byLease[m].provider] = m
        BY <2>6, <4>1 DEF RegistryInv, RegistryTypeOK, LeaseTablesAgree, Record
      <4> QED
        BY <2>1, <4>1, <4>2 DEF RegistryInv, RegistryTypeOK
    <3> QED
      BY <3>1, <3>2
  <2> QED
    BY <2>2, <2>5, <2>6 DEF RegistryInv, LeaseTablesAgree
<1> QED
  BY <1>1, <1>2

\* A step that changes a record keeps its provider and therefore the tables.
LEMMA TouchInv ==
    ASSUME RegistryInv, NEW l \in LeaseIds, NEW r \in Record,
           byLease[l] # None, r.provider = byLease[l].provider,
           byLease' = [byLease EXCEPT ![l] = r], UNCHANGED byProvider
    PROVE  RegistryInv'
<1>1. RegistryTypeOK'
  BY DEF RegistryInv, RegistryTypeOK
<1>2. \A m \in LeaseIds : (byLease'[m] # None) = (byLease[m] # None)
  BY RegistryAssumption DEF RegistryInv, RegistryTypeOK
<1>3. \A m \in LeaseIds : byLease[m] # None => byLease'[m].provider = byLease[m].provider
  BY DEF RegistryInv, RegistryTypeOK
<1>4. \A p \in Providers : byProvider[p] # None => byProvider[p] \in LeaseIds
  BY DEF RegistryInv, RegistryTypeOK
<1> QED
  BY <1>1, <1>2, <1>3, <1>4 DEF RegistryInv, LeaseTablesAgree

\* A heartbeat changes the health of one live record.
LEMMA HeartbeatInv ==
    ASSUME RegistryInv, NEW l \in LeaseIds, NEW h \in Healths, Heartbeat(l, h)
    PROVE  RegistryInv'
<1>1. CASE HeartbeatSucceeds(l)
  <2> DEFINE r == [byLease[l] EXCEPT !.health = h]
  <2>1. byLease[l] \in Record /\ byLease[l] # None
    BY <1>1 DEF HeartbeatSucceeds, RegistryInv, RegistryTypeOK
  <2>2. r \in Record /\ r.provider = byLease[l].provider
    BY <2>1 DEF Record
  <2>3. byLease' = [byLease EXCEPT ![l] = r] /\ UNCHANGED byProvider
    BY <1>1 DEF Heartbeat
  <2> QED
    BY <2>1, <2>2, <2>3, TouchInv
<1>2. CASE ~HeartbeatSucceeds(l)
  BY <1>2 DEF Heartbeat, RegistryInv, RegistryTypeOK, LeaseTablesAgree
<1> QED
  BY <1>1, <1>2

\* A lease that runs out stays in the tables.
LEMMA LapseInv ==
    ASSUME RegistryInv, NEW l \in LeaseIds, Lapse(l)
    PROVE  RegistryInv'
<1> DEFINE r == [byLease[l] EXCEPT !.live = FALSE]
<1>1. byLease[l] \in Record /\ byLease[l] # None
  BY DEF Lapse, HeartbeatSucceeds, RegistryInv, RegistryTypeOK
<1>2. r \in Record /\ r.provider = byLease[l].provider
  BY <1>1 DEF Record
<1>3. byLease' = [byLease EXCEPT ![l] = r] /\ UNCHANGED byProvider
  BY DEF Lapse
<1> QED
  BY <1>1, <1>2, <1>3, TouchInv

\* An unregistration takes the lease out of both tables.
LEMMA UnregisterInv ==
    ASSUME RegistryInv, NEW l \in LeaseIds, Unregister(l)
    PROVE  RegistryInv'
<1>1. RegistryTypeOK'
  BY DEF Unregister, RegistryInv, RegistryTypeOK
<1>2. \A m \in LeaseIds : byLease'[m] = IF m = l THEN None ELSE byLease[m]
  BY DEF Unregister, RegistryInv, RegistryTypeOK
<1>3. ASSUME NEW p \in Providers
      PROVE  byProvider'[p] = IF byProvider[p] = l THEN None ELSE byProvider[p]
  BY <1>3, RegistryAssumption DEF Unregister, RegistryInv, RegistryTypeOK, LeaseTablesAgree
<1>4. \A m \in LeaseIds : byLease[m] # None => byLease[m].provider \in Providers
  BY DEF RegistryInv, RegistryTypeOK, Record
<1>5. \A p \in Providers : byProvider[p] # None => byProvider[p] \in LeaseIds
  BY DEF RegistryInv, RegistryTypeOK
<1> QED
  BY <1>1, <1>2, <1>3, <1>4, <1>5 DEF RegistryInv, LeaseTablesAgree

\* A revocation takes the provider and its lease out of both tables.
LEMMA RevokeInv ==
    ASSUME RegistryInv, NEW p \in Providers, RevokeProvider(p)
    PROVE  RegistryInv'
<1>1. RegistryTypeOK'
  BY DEF RevokeProvider, WithoutLeaseOf, RegistryInv, RegistryTypeOK
<1>2. \A m \in LeaseIds : byLease'[m] = IF m = byProvider[p] THEN None ELSE byLease[m]
  BY DEF RevokeProvider, WithoutLeaseOf
<1>3. \A q \in Providers : byProvider'[q] = IF q = p THEN None ELSE byProvider[q]
  BY DEF RevokeProvider, RegistryInv, RegistryTypeOK
<1>4. \A m \in LeaseIds : byLease[m] # None => byLease[m].provider \in Providers
  BY DEF RegistryInv, RegistryTypeOK, Record
<1>5. \A q \in Providers : byProvider[q] # None => byProvider[q] \in LeaseIds
  BY DEF RegistryInv, RegistryTypeOK
<1> QED
  BY <1>1, <1>2, <1>3, <1>4, <1>5 DEF RegistryInv, LeaseTablesAgree

\* Every operation of the registry keeps the tables.
LEMMA RegistryStep == RegistryInv /\ [RegistryNext]_registryVars => RegistryInv'
<1> SUFFICES ASSUME RegistryInv, [RegistryNext]_registryVars PROVE RegistryInv'
  OBVIOUS
<1>1. ASSUME NEW p \in Providers, NEW i \in Instances, NEW h \in Healths, NEW l \in LeaseIds,
             Register(p, i, h, l)
      PROVE  RegistryInv'
  BY <1>1, RegisterInv
<1>2. ASSUME NEW l \in LeaseIds, NEW h \in Healths, Heartbeat(l, h) PROVE RegistryInv'
  BY <1>2, HeartbeatInv
<1>3. ASSUME NEW l \in LeaseIds, Unregister(l) \/ Lapse(l) PROVE RegistryInv'
  BY <1>3, UnregisterInv, LapseInv
<1>4. ASSUME NEW p \in Providers, RevokeProvider(p) PROVE RegistryInv'
  BY <1>4, RevokeInv
<1>5. CASE UNCHANGED registryVars
  BY <1>5 DEF registryVars, RegistryInv, RegistryTypeOK, LeaseTablesAgree
<1> QED
  BY <1>1, <1>2, <1>3, <1>4, <1>5 DEF RegistryNext

\* The registry starts with empty tables.
LEMMA RegistryInitInv == RegistryInit => RegistryInv
BY DEF RegistryInit, RegistryInv, RegistryTypeOK, LeaseTablesAgree

\* The registry's tables are well typed and agree in every reachable state
\* (Register, Heartbeat, Unregister and RevokeProvider under one mutex).
THEOREM RegistryLeaseTablesAgree == RegistrySpec => [](RegistryTypeOK /\ LeaseTablesAgree)
BY RegistryInitInv, RegistryStep, PTL DEF RegistrySpec, RegistryInv

\* No step gives a provider with a live lease to another lease or instance.
THEOREM RegistryLiveLeaseIsNotTakenOver == RegistrySpec => LiveLeaseIsNotTakenOver
<1> DEFINE Kept ==
      \A p \in Providers :
         Active(p) /\ byProvider'[p] # None =>
             /\ byProvider'[p] = byProvider[p]
             /\ byLease'[byProvider[p]].instance = byLease[byProvider[p]].instance
<1>1. ASSUME RegistryInv, [RegistryNext]_registryVars PROVE [Kept]_registryVars
  <2> SUFFICES ASSUME NEW p \in Providers, Active(p), byProvider'[p] # None,
                      RegistryNext
               PROVE  /\ byProvider'[p] = byProvider[p]
                      /\ byLease'[byProvider[p]].instance = byLease[byProvider[p]].instance
    BY <1>1
  <2>1. /\ byProvider[p] \in LeaseIds /\ byLease[byProvider[p]] \in Record
        /\ byLease[byProvider[p]] # None /\ byLease[byProvider[p]].provider = p
    BY <1>1 DEF RegistryInv, RegistryTypeOK, LeaseTablesAgree, Active
  <2>2. ASSUME NEW q \in Providers, NEW i \in Instances, NEW h \in Healths, NEW l \in LeaseIds,
               Register(q, i, h, l)
        PROVE  byProvider'[p] = byProvider[p] /\ byLease'[byProvider[p]] = byLease[byProvider[p]]
    <3>1. CASE Active(q)
      BY <2>2, <3>1 DEF Register, registryVars
    <3>2. CASE ~Active(q)
      <4>1. /\ q # p /\ byLease[l] = None
            /\ byLease' = [WithoutLeaseOf(q) EXCEPT ![l] = NewRecord(q, i, h)]
            /\ byProvider' = [byProvider EXCEPT ![q] = l]
        BY <2>2, <3>2 DEF Register
      <4>2. l # byProvider[p] /\ byProvider[q] # byProvider[p]
        BY <1>1, <2>1, <4>1 DEF RegistryInv, LeaseTablesAgree
      <4> QED
        BY <1>1, <2>1, <4>1, <4>2 DEF RegistryInv, RegistryTypeOK, WithoutLeaseOf
    <3> QED
      BY <3>1, <3>2
  <2>3. ASSUME NEW l \in LeaseIds, NEW h \in Healths, Heartbeat(l, h)
        PROVE  /\ byProvider'[p] = byProvider[p]
               /\ byLease'[byProvider[p]].instance = byLease[byProvider[p]].instance
    BY <1>1, <2>1, <2>3 DEF Heartbeat, RegistryInv, RegistryTypeOK, Record
  <2>4. ASSUME NEW l \in LeaseIds, Lapse(l)
        PROVE  /\ byProvider'[p] = byProvider[p]
               /\ byLease'[byProvider[p]].instance = byLease[byProvider[p]].instance
    BY <1>1, <2>1, <2>4 DEF Lapse, RegistryInv, RegistryTypeOK, Record
  <2>5. ASSUME NEW l \in LeaseIds, Unregister(l)
        PROVE  byProvider'[p] = byProvider[p] /\ byLease'[byProvider[p]] = byLease[byProvider[p]]
    <3>1. byProvider'[p] = byProvider[p]
      BY <2>5 DEF Unregister
    <3>2. byProvider[p] # l
      BY <2>1, <2>5 DEF Unregister
    <3> QED
      BY <1>1, <2>1, <2>5, <3>1, <3>2 DEF Unregister, RegistryInv, RegistryTypeOK
  <2>6. ASSUME NEW q \in Providers, RevokeProvider(q)
        PROVE  byProvider'[p] = byProvider[p] /\ byLease'[byProvider[p]] = byLease[byProvider[p]]
    <3>1. q # p
      BY <1>1, <2>6 DEF RevokeProvider, RegistryInv, RegistryTypeOK
    <3>2. byProvider[q] # byProvider[p]
      BY <1>1, <2>1, <3>1, RegistryAssumption DEF RegistryInv, LeaseTablesAgree
    <3> QED
      BY <1>1, <2>1, <2>6, <3>1, <3>2 DEF RevokeProvider, WithoutLeaseOf, RegistryInv, RegistryTypeOK
  <2> QED
    BY <2>2, <2>3, <2>4, <2>5, <2>6 DEF RegistryNext
<1> QED
  BY <1>1, RegistryLeaseTablesAgree, PTL DEF RegistrySpec, LiveLeaseIsNotTakenOver, RegistryInv

-----------------------------------------------------------------------------
(* The worker, its calls and the registry: the invariant                   *)

\* The types of the worker and of its calls.
WorkerTypeOK ==
    /\ child \in Instances \cup {None}
    /\ started \subseteq Instances /\ revoked \subseteq started
    /\ wpc \in {"off", "start", "maintain", "retry", "read", "tell", "unwell", "close", "exit"}
    /\ lease \in LeaseIds \cup {None} /\ seq \in 0..MaxSeq
    /\ news \in Values \cup {None} /\ pending \in Values \cup {None}
    /\ rpc \in Request \cup {None} /\ reply \in Reply \cup {None} /\ late \subseteq Request
    /\ lastSeq \in [Instances -> 0..MaxSeq]

\* A worker makes one call at a time, and which one follows from where it stands.
CallsFit ==
    /\ rpc # None => reply = None /\ rpc.inst = child
    /\ wpc \in {"off", "read", "close"} => ~Waiting
    /\ wpc = "off" <=> child = None
    /\ wpc = "off" => lease = None
    /\ wpc \in {"start", "maintain"} /\ rpc # None => rpc.kind \in {"register", "heartbeat"}
    /\ wpc = "retry" /\ rpc # None => rpc.kind = "publish" /\ rpc.value = pending /\ rpc.seq = seq
    /\ wpc = "tell" /\ rpc # None => rpc.kind = "publish" /\ rpc.value = news /\ rpc.seq = seq
    /\ wpc \in {"unwell", "exit"} /\ rpc # None => rpc.kind \in {"heartbeat", "unregister"}
    /\ wpc = "retry" /\ Waiting => pending # None
    /\ child # None => child \in started \ revoked

\* What every request says, outstanding or given up.
RequestsFit ==
    \A r \in Requests :
        /\ r.inst \in started
        /\ r.kind = "register" => r.health = "unhealthy"
        /\ r.kind # "register" => r.lease # None
        /\ r.kind = "publish" /\ r.inst = child => r.seq <= seq

\* A lease identity that a worker, a reply or a request holds names a record of
\* that instance or none at all, and none once the instance has been revoked.
LeasesAreOwn ==
    /\ \A l \in LeaseIds : byLease[l] # None =>
         /\ byLease[l].provider = Camera
         /\ l \in {lease, reply} => byLease[l].instance = child
         /\ \A r \in Requests : r.lease = l => byLease[l].instance = r.inst /\ r.inst \notin revoked
    /\ RevokedInstanceStaysDark

\* The gate's last transition is on its way, kept, or accepted.
TransitionsAreKept ==
    /\ wpc = "off" => gate = None /\ pending = None
    /\ wpc = "tell" => news = gate
    /\ wpc \in {"start", "maintain", "retry", "read"} => delivered \/ pending = gate
    /\ wpc \in {"retry", "tell"} /\ reply = "accepted" => delivered

\* Unless the engine has been confused, what is pending is the gate's state, and
\* with nothing pending the newest publication is the one the engine took.
EngineIsCurrent ==
    ~confused =>
        /\ wpc \in {"start", "maintain", "retry", "read"} =>
             /\ pending \in {None, gate}
             /\ pending = None /\ gate # None => presence = gate /\ lastSeq[child] = seq
        /\ wpc \in {"retry", "tell"} /\ reply = "accepted" => presence = gate /\ lastSeq[child] = seq

ProviderInv ==
    /\ RegistryInv /\ WorkerTypeOK /\ CallsFit /\ RequestsFit /\ LeasesAreOwn /\ TransitionsAreKept /\ EngineIsCurrent

-----------------------------------------------------------------------------
(* Calls and what the server does with them                                *)

\* Two requests that differ at most in how far the server is with them.
SameCall(p, q) == /\ q.kind = p.kind /\ q.inst = p.inst /\ q.lease = p.lease /\ q.health = p.health
                  /\ q.seq = p.seq /\ q.value = p.value

\* A request a worker sends.
LEMMA SendEffect ==
    ASSUME child \in Instances, NEW kind \in Kinds, NEW l \in LeaseIds \cup {None}, NEW health \in Healths,
           NEW n \in 0..MaxSeq, NEW value \in Values \cup {None}, Send(kind, l, health, n, value)
    PROVE  /\ rpc' \in Request /\ rpc' # None
           /\ rpc'.kind = kind /\ rpc'.inst = child /\ rpc'.lease = l /\ rpc'.health = health
           /\ rpc'.seq = n /\ rpc'.value = value
<1>1. rpc' \in Request
  BY DEF Send, Request
<1> QED BY <1>1, ProviderAssumption DEF Send

\* The types of what is under way.
LEMMA RequestFacts ==
    ASSUME WorkerTypeOK, NEW r \in Requests
    PROVE  /\ r \in Request /\ r # None /\ r.kind \in Kinds /\ r.inst \in Instances
           /\ r.lease \in LeaseIds \cup {None} /\ r.health \in Healths /\ r.seq \in 0..MaxSeq
           /\ r.value \in Values \cup {None}
           /\ r \in late \/ (r = rpc /\ rpc # None)
<1>1. r \in late \/ (r = rpc /\ rpc # None)
  BY DEF Requests
<1>2. r \in Request
  BY <1>1 DEF WorkerTypeOK
<1> QED BY <1>1, <1>2, ProviderAssumption DEF Request

\* A call that is finished leaves the calls under way; an outstanding one is answered.
LEMMA FinishEffect ==
    ASSUME WorkerTypeOK, NEW r \in Requests, NEW result \in Reply, Finish(r, result)
    PROVE  /\ rpc' \in Request \cup {None} /\ reply' \in Reply \cup {None} /\ late' \subseteq Request
           /\ \/ r = rpc /\ rpc # None /\ rpc' = None /\ reply' = result /\ late' = late
              \/ r \in late /\ rpc' = rpc /\ reply' = reply /\ late' \subseteq late
           /\ rpc' # None => rpc # None /\ SameCall(rpc, rpc')
           /\ \A q \in Requests' : \E p \in Requests : SameCall(p, q)
<1>1. \/ r = rpc /\ rpc # None /\ rpc' = None /\ reply' = result /\ late' = late
      \/ r \in late /\ rpc' = rpc /\ reply' = reply /\ late' \subseteq late
  BY RequestFacts DEF Finish
<1>2. Requests' \subseteq Requests
  BY <1>1 DEF Requests
<1> QED BY <1>1, <1>2 DEF WorkerTypeOK, SameCall

\* A call that goes on is still under way.
LEMMA ProceedEffect ==
    ASSUME WorkerTypeOK, NEW r \in Requests, NEW stage \in {"new", "ready", "authorized"}, Proceed(r, stage)
    PROVE  /\ rpc' \in Request \cup {None} /\ reply' = reply /\ late' \subseteq Request
           /\ rpc' # None => rpc # None /\ SameCall(rpc, rpc')
           /\ \A q \in Requests' : \E p \in Requests : SameCall(p, q)
<1> DEFINE s == [r EXCEPT !.stage = stage]
<1>1. r \in Request /\ r # None
  BY RequestFacts
<1>2. s \in Request /\ s # None /\ SameCall(r, s)
  <2>1. s \in Request
    BY <1>1 DEF Request
  <2> QED BY <1>1, <2>1, ProviderAssumption DEF SameCall, Request
<1>3. \/ r = rpc /\ rpc' = s /\ reply' = reply /\ late' = late
      \/ r \in late /\ rpc' = rpc /\ reply' = reply /\ late' = (late \ {r}) \cup {s}
  BY DEF Proceed
<1> HIDE DEF s
<1>4. \A q : SameCall(q, q)
  BY DEF SameCall
<1>5. \A q \in Requests' : q = s \/ q \in Requests
  BY <1>3 DEF Requests
<1>6. \A q \in Requests' : \E p \in Requests : SameCall(p, q)
  BY <1>2, <1>4, <1>5
<1> QED BY <1>1, <1>2, <1>3, <1>4, <1>6 DEF WorkerTypeOK

\* What the server's part of a step leaves of the calls under way.
LEMMA ServeEffect ==
    ASSUME ProviderInv, Serve
    PROVE  /\ rpc' \in Request \cup {None} /\ reply' \in Reply \cup {None} /\ late' \subseteq Request
           /\ rpc' # None => rpc # None /\ SameCall(rpc, rpc')
           /\ \A q \in Requests' : \E p \in Requests : SameCall(p, q)
           /\ reply' = reply \/ (rpc # None /\ rpc' = None)
           /\ lastSeq' \in [Instances -> 0..MaxSeq]
           /\ UNCHANGED <<child, started, revoked, wpc, sessionVars, cameraVars>>
<1>0. WorkerTypeOK
  BY DEF ProviderInv
<1>1. PICK r \in Requests :
         \/ ServeRegister(r) \/ ServeHeartbeat(r) \/ ServeUnregister(r) \/ CheckPublish(r)
         \/ Submit(r) \/ RefuseSubmit(r)
  BY DEF Serve
<1>2. r.inst \in Instances /\ r.seq \in 0..MaxSeq
  BY <1>0, RequestFacts
<1>3. CASE \E stage \in {"ready", "authorized"} : Proceed(r, stage)
  <2>1. UNCHANGED lastSeq \/ lastSeq' = [lastSeq EXCEPT ![r.inst] = r.seq]
    BY <1>1 DEF ServeRegister, ServeHeartbeat, ServeUnregister, CheckPublish, Submit, RefuseSubmit, engineVars
  <2>2. lastSeq' \in [Instances -> 0..MaxSeq]
    BY <1>0, <1>2, <2>1 DEF WorkerTypeOK
  <2> QED BY <1>0, <1>3, <2>2, ProceedEffect DEF Serve, WorkerTypeOK
<1>4. CASE \E result \in Reply : Finish(r, result)
  <2>1. UNCHANGED lastSeq \/ lastSeq' = [lastSeq EXCEPT ![r.inst] = r.seq]
    BY <1>1 DEF ServeRegister, ServeHeartbeat, ServeUnregister, CheckPublish, Submit, RefuseSubmit, engineVars
  <2>2. lastSeq' \in [Instances -> 0..MaxSeq]
    BY <1>0, <1>2, <2>1 DEF WorkerTypeOK
  <2> QED BY <1>0, <1>4, <2>2, FinishEffect DEF Serve, WorkerTypeOK
<1>5. CASE ServeRegister(r)
  <2>1. LeaseReturned(Camera, NewLease) \in Reply
    <3>1. NewLease \in LeaseIds
      BY <1>5 DEF ServeRegister, NewLease, Unused
    <3>2. Active(Camera) => byProvider[Camera] \in LeaseIds
      BY ProviderAssumption DEF Active, ProviderInv, RegistryInv, RegistryTypeOK
    <3> QED BY <3>1, <3>2 DEF LeaseReturned, Reply
  <2> QED BY <1>4, <1>5, <2>1 DEF ServeRegister, Reply
<1>6. CASE ServeHeartbeat(r) \/ ServeUnregister(r) \/ RefuseSubmit(r)
  BY <1>4, <1>6 DEF ServeHeartbeat, ServeUnregister, RefuseSubmit, Reply
<1>7. CASE CheckPublish(r) \/ Submit(r)
  BY <1>3, <1>4, <1>7 DEF CheckPublish, Submit, Reply
<1> QED BY <1>1, <1>5, <1>6, <1>7

\* Every step of the whole system is a step of the registry or leaves it alone.
LEMMA StepIsRegistryStep ==
    ASSUME ProviderInv, [Next]_vars
    PROVE  [RegistryNext]_registryVars
<1>0. WorkerTypeOK /\ RequestsFit /\ Camera \in Providers
  BY ProviderAssumption DEF ProviderInv
<1>1. CASE Serve
  <2>1. PICK r \in Requests :
           \/ ServeRegister(r) \/ ServeHeartbeat(r) \/ ServeUnregister(r) \/ UNCHANGED registryVars
    BY <1>1 DEF Serve, CheckPublish, Submit, RefuseSubmit
  <2>2. /\ r.inst \in Instances /\ r.health \in Healths
        /\ r.kind # "register" => r.lease \in LeaseIds
    BY <1>0, RequestFacts DEF RequestsFit
  <2>3. CASE ServeRegister(r)
    <3>1. NewLease \in LeaseIds
      BY <2>3 DEF ServeRegister, NewLease, Unused
    <3>2. Register(Camera, r.inst, r.health, NewLease)
      BY <2>3 DEF ServeRegister
    <3> QED BY <1>0, <2>2, <3>1, <3>2 DEF RegistryNext
  <2>4. CASE ServeHeartbeat(r)
    <3>1. Heartbeat(r.lease, r.health) /\ r.lease \in LeaseIds
      BY <2>2, <2>4 DEF ServeHeartbeat
    <3> QED BY <2>2, <3>1 DEF RegistryNext
  <2>5. CASE ServeUnregister(r)
    <3>1. Unregister(r.lease) /\ r.lease \in LeaseIds
      BY <2>2, <2>5 DEF ServeUnregister
    <3> QED BY <3>1 DEF RegistryNext
  <2> QED BY <2>1, <2>3, <2>4, <2>5
<1>2. CASE RevokeDead
  BY <1>0, <1>2 DEF RevokeDead, RegistryNext
<1>3. ASSUME NEW l \in LeaseIds, LeaseLapses(l) PROVE RegistryNext
  BY <1>3 DEF LeaseLapses, RegistryNext
<1>4. CASE UNCHANGED vars \/ WorkerStep \/ Terminated \/ CallFails \/ StartChild \/ Die \/ HeartbeatDue \/ OthersChange
  BY <1>4 DEF vars, WorkerStep, SendRegister, SendHeartbeat, Maintained, ReceiveLease, ReceiveHeartbeat, Retry,
              ReadFrame, Tell, ReceiveReceipt, ReportUnwell, ReportedUnwell, Close, ReceiveError, Terminated,
              CallFails, StartChild, Die, HeartbeatDue, OthersChange
<1> QED BY <1>1, <1>2, <1>3, <1>4 DEF Next

-----------------------------------------------------------------------------
(* The worker                                                              *)

\* What the steps that send a request send.
LEMMA SendSteps ==
    ASSUME ProviderInv,
           SendRegister \/ SendHeartbeat \/ Retry \/ Tell \/ ReportUnwell \/ Close
    PROVE  /\ rpc' \in Request \cup {None} /\ seq' \in 0..MaxSeq /\ seq' >= seq
           /\ rpc = None /\ reply = None /\ reply' = None /\ late' = late
           /\ child # None /\ UNCHANGED <<child, started, revoked, gate>>
           /\ rpc' # None =>
                /\ rpc'.inst = child
                /\ rpc'.kind = "register" => rpc'.health = "unhealthy"
                /\ rpc'.lease = IF rpc'.kind = "register" THEN None ELSE lease
                /\ rpc'.kind # "register" => lease # None
                /\ SendRegister \/ SendHeartbeat => rpc'.kind \in {"register", "heartbeat"}
                /\ ReportUnwell \/ Close => rpc'.kind \in {"heartbeat", "unregister"}
                /\ Retry => rpc'.kind = "publish" /\ rpc'.value = pending /\ rpc'.seq = seq' /\ pending # None
                /\ Tell => rpc'.kind = "publish" /\ rpc'.value = news /\ rpc'.seq = seq'
<1>0. /\ WorkerTypeOK /\ CallsFit /\ MaxSeq \in Nat
      /\ lease \in LeaseIds \cup {None} /\ seq \in 0..MaxSeq /\ seq \in Nat
      /\ news \in Values \cup {None} /\ pending \in Values \cup {None}
      /\ "healthy" \in Healths /\ "unhealthy" \in Healths
      /\ {"register", "heartbeat", "publish", "unregister"} \subseteq Kinds
  BY ProviderAssumption DEF ProviderInv, WorkerTypeOK, Healths, Kinds
<1>1. child \in Instances /\ child # None
  <2>1. wpc # "off"
    BY DEF SendRegister, SendHeartbeat, Retry, Tell, ReportUnwell, Close
  <2> QED BY <1>0, <2>1 DEF CallsFit, WorkerTypeOK
<1>2. CASE SendRegister
  <2>1. /\ rpc' \in Request /\ rpc' # None
        /\ rpc'.kind = "register" /\ rpc'.inst = child /\ rpc'.lease = None /\ rpc'.health = "unhealthy"
    <3>1. Send("register", None, "unhealthy", 0, None) /\ 0 \in 0..MaxSeq
      BY <1>0, <1>2 DEF SendRegister
    <3> QED BY <1>0, <1>1, <3>1, SendEffect
  <2> QED BY <1>0, <1>1, <1>2, <2>1 DEF SendRegister, Waiting, cameraVars, Retry, Tell, ReportUnwell, Close
<1>3. CASE SendHeartbeat
  <2>1. /\ rpc' \in Request /\ rpc' # None
        /\ rpc'.kind = "heartbeat" /\ rpc'.inst = child /\ rpc'.lease = lease
    <3>1. Send("heartbeat", lease, "healthy", 0, None) /\ 0 \in 0..MaxSeq
      BY <1>0, <1>3 DEF SendHeartbeat
    <3> QED BY <1>0, <1>1, <3>1, SendEffect
  <2> QED BY <1>0, <1>1, <1>3, <2>1
          DEF SendHeartbeat, Waiting, sessionVars, cameraVars, Retry, Tell, ReportUnwell, Close
<1>4. ASSUME NEW value \in Values \cup {None}, SendPublish(value)
      PROVE  /\ rpc' \in Request /\ rpc' # None
             /\ rpc'.kind = "publish" /\ rpc'.inst = child /\ rpc'.lease = lease
             /\ rpc'.value = value /\ rpc'.seq = seq' /\ seq' \in 0..MaxSeq /\ seq' >= seq
  <2>1. seq + 1 \in 0..MaxSeq /\ Send("publish", lease, "healthy", seq + 1, value) /\ seq' = seq + 1
    BY <1>0, <1>4 DEF SendPublish
  <2>2. PICK n \in 0..MaxSeq : n = seq + 1 /\ Send("publish", lease, "healthy", n, value)
    BY <2>1
  <2>3. /\ rpc' \in Request /\ rpc' # None
        /\ rpc'.kind = "publish" /\ rpc'.inst = child /\ rpc'.lease = lease
        /\ rpc'.value = value /\ rpc'.seq = n
    BY <1>0, <1>1, <2>2, SendEffect
  <2> QED BY <1>0, <2>1, <2>2, <2>3
<1>5. CASE Retry
  BY <1>0, <1>1, <1>4, <1>5 DEF Retry, Waiting, Usable, sessionVars, cameraVars, SendRegister, SendHeartbeat, Tell,
                                ReportUnwell, Close
<1>6. CASE Tell
  BY <1>0, <1>1, <1>4, <1>6 DEF Tell, Waiting, Usable, sessionVars, cameraVars, SendRegister, SendHeartbeat, Retry,
                                ReportUnwell, Close
<1>7. CASE ReportUnwell
  <2>1. lease # None =>
        /\ rpc' \in Request /\ rpc' # None
        /\ rpc'.kind = "heartbeat" /\ rpc'.inst = child /\ rpc'.lease = lease
    <3>1. lease # None => Send("heartbeat", lease, "unhealthy", 0, None) /\ 0 \in 0..MaxSeq
      BY <1>0, <1>7 DEF ReportUnwell
    <3> QED BY <1>0, <1>1, <3>1, SendEffect
  <2> QED BY <1>0, <1>1, <1>7, <2>1
          DEF ReportUnwell, Waiting, sessionVars, cameraVars, SendRegister, SendHeartbeat, Retry, Tell
<1>8. CASE Close
  <2>1. lease # None =>
        /\ rpc' \in Request /\ rpc' # None
        /\ rpc'.kind = "unregister" /\ rpc'.inst = child /\ rpc'.lease = lease
    <3>1. lease # None => Send("unregister", lease, "healthy", 0, None) /\ 0 \in 0..MaxSeq
      BY <1>0, <1>8 DEF Close
    <3> QED BY <1>0, <1>1, <3>1, SendEffect
  <2> QED BY <1>0, <1>1, <1>8, <2>1
          DEF Close, Waiting, cameraVars, SendRegister, SendHeartbeat, Retry, Tell
<1> QED BY <1>2, <1>3, <1>5, <1>6, <1>7, <1>8

\* What a call that fails leaves behind.
LEMMA FailureEffect ==
    ASSUME ProviderInv, AfterFailure, Waiting
    PROVE  /\ wpc \in {"start", "maintain", "retry", "tell", "unwell", "exit"}
           /\ wpc' = CASE wpc = "start" -> "maintain" [] wpc = "maintain" -> "retry" [] wpc = "retry" -> "read"
                       [] wpc = "tell" -> "maintain" [] wpc = "unwell" -> "close" [] OTHER -> wpc
           /\ pending' = IF wpc = "tell" THEN news ELSE pending
           /\ news' \in {news, None} /\ lease' \in {lease, None} /\ seq' = seq
<1>1. wpc \in {"start", "maintain", "retry", "tell", "unwell", "exit"}
  BY DEF ProviderInv, CallsFit, WorkerTypeOK
<1> QED BY <1>1 DEF AfterFailure, AfterSession, ClearLease, sessionVars

\* The instance a new child gets has not been used.
LEMMA FreshInstance ==
    ASSUME WorkerTypeOK, started # Instances
    PROVE  NewInstance \in Instances /\ NewInstance \notin started /\ NewInstance # None
BY ProviderAssumption DEF NewInstance, WorkerTypeOK

\* Every step keeps the types of the worker and its calls.
LEMMA WorkerTypeStep ==
    ASSUME ProviderInv, [Next]_vars
    PROVE  WorkerTypeOK'
<1>0. WorkerTypeOK
  BY DEF ProviderInv
<1>1. CASE SendRegister \/ SendHeartbeat \/ Retry \/ Tell \/ ReportUnwell \/ Close
  BY <1>0, <1>1, SendSteps DEF WorkerTypeOK, SendRegister, SendHeartbeat, Retry, Tell, ReportUnwell, Close, SendPublish,
                               ClearLease, sessionVars, cameraVars, engineVars
<1>2. CASE Maintained \/ ReceiveLease \/ ReceiveHeartbeat \/ ReceiveReceipt \/ ReportedUnwell \/ ReadFrame
           \/ Terminated \/ HeartbeatDue \/ OthersChange \/ RevokeDead \/ UNCHANGED vars
           \/ \E l \in LeaseIds : LeaseLapses(l)
  BY <1>0, <1>2 DEF WorkerTypeOK, Maintained, ReceiveLease, ReceiveHeartbeat, ReceiveReceipt, ReportedUnwell,
                    ReadFrame, Terminated, HeartbeatDue, OthersChange, RevokeDead, LeaseLapses, vars, AfterSession,
                    sessionVars, cameraVars, engineVars
<1>3. CASE ReceiveError \/ CallFails
  <2>1. Waiting /\ AfterFailure
    BY <1>3, ProviderAssumption DEF ReceiveError, CallFails, Waiting, Reply
  <2>2. late' \subseteq Request
    BY <1>0, <1>3 DEF WorkerTypeOK, ReceiveError, CallFails, GiveUpCall
  <2> QED BY <1>0, <1>3, <2>1, <2>2, FailureEffect DEF WorkerTypeOK, ReceiveError, CallFails, engineVars
<1>4. CASE Serve
  BY <1>0, <1>4, ServeEffect DEF WorkerTypeOK, sessionVars, cameraVars
<1>5. CASE StartChild
  BY <1>0, <1>5, FreshInstance DEF WorkerTypeOK, StartChild, sessionVars, cameraVars
<1>6. CASE Die
  <2>1. late' \subseteq Request
    BY <1>0, <1>6 DEF WorkerTypeOK, Die, GiveUpCall
  <2>2. 0 \in 0..MaxSeq
    BY ProviderAssumption
  <2> QED BY <1>0, <1>6, <2>1, <2>2 DEF WorkerTypeOK, Die, Forget, ClearLease, engineVars
<1> QED BY <1>1, <1>2, <1>3, <1>4, <1>5, <1>6 DEF Next, WorkerStep

\* Every step keeps the worker's one call in line with where the worker stands.
LEMMA CallsFitStep ==
    ASSUME ProviderInv, [Next]_vars
    PROVE  CallsFit'
<1>0. WorkerTypeOK /\ CallsFit
  BY DEF ProviderInv
<1>1. CASE SendRegister \/ SendHeartbeat \/ Retry \/ Tell \/ ReportUnwell \/ Close
  <2>1. CASE SendRegister \/ SendHeartbeat
    BY <1>0, <2>1, SendSteps DEF CallsFit, Waiting, SendRegister, SendHeartbeat
  <2>2. CASE Retry
    <3>1. wpc = "retry" /\ (wpc' = "retry" \/ (wpc' = "read" /\ rpc' = rpc)) /\ pending' = pending
      BY <2>2 DEF Retry, cameraVars
    <3> QED BY <1>0, <2>2, <3>1, SendSteps DEF CallsFit, Waiting
  <2>3. CASE Tell
    <3>1. wpc = "tell" /\ ((wpc' = "tell" /\ news' = news) \/ (wpc' = "maintain" /\ rpc' = rpc))
      BY <2>3 DEF Tell
    <3> QED BY <1>0, <2>3, <3>1, SendSteps DEF CallsFit, Waiting
  <2>4. CASE ReportUnwell
    <3>1. wpc = "unwell" /\ (wpc' = "unwell" \/ (wpc' = "close" /\ rpc' = rpc))
      BY <2>4 DEF ReportUnwell
    <3> QED BY <1>0, <2>4, <3>1, SendSteps DEF CallsFit, Waiting
  <2>5. CASE Close
    <3>1. wpc = "close" /\ wpc' = "exit"
      BY <2>5 DEF Close
    <3> QED BY <1>0, <2>5, <3>1, SendSteps DEF CallsFit, Waiting
  <2> QED BY <1>1, <2>1, <2>2, <2>3, <2>4, <2>5
<1>2. CASE \/ Maintained \/ Terminated \/ HeartbeatDue \/ OthersChange \/ UNCHANGED vars
           \/ \E l \in LeaseIds : LeaseLapses(l)
  BY <1>0, <1>2 DEF CallsFit, Maintained, Terminated, HeartbeatDue, OthersChange, LeaseLapses, vars, Waiting,
                    sessionVars, cameraVars
<1>3. CASE ReceiveLease \/ ReceiveHeartbeat \/ ReceiveReceipt \/ ReportedUnwell
  <2>1. rpc = None /\ rpc' = None /\ reply' = None /\ wpc # "off" /\ wpc' # "off" /\ UNCHANGED <<child, started, revoked>>
    BY <1>0, <1>3, ProviderAssumption DEF CallsFit, ReceiveLease, ReceiveHeartbeat, ReceiveReceipt, ReportedUnwell,
                                          AfterSession, Reply
  <2> QED BY <1>0, <2>1 DEF CallsFit, Waiting
<1>4. CASE ReadFrame
  <2>1. ~Waiting /\ wpc' \in {"tell", "maintain", "unwell"} /\ UNCHANGED <<rpc, reply, child, started, revoked>>
    BY <1>0, <1>4 DEF CallsFit, ReadFrame
  <2> QED BY <1>0, <1>4, <2>1 DEF CallsFit, Waiting, ReadFrame
<1>5. CASE ReceiveError \/ CallFails
  <2>1. Waiting /\ AfterFailure
    BY <1>5, ProviderAssumption DEF ReceiveError, CallFails, Waiting, Reply
  <2>2. rpc' = None /\ reply' = None /\ UNCHANGED <<child, started, revoked>>
    BY <1>0, <1>5, ProviderAssumption DEF CallsFit, ReceiveError, CallFails, Reply
  <2>3. wpc # "off" /\ wpc' # "off"
    BY <2>1, FailureEffect
  <2> QED BY <1>0, <2>2, <2>3 DEF CallsFit, Waiting
<1>6. CASE Serve
  <2>1. /\ rpc' # None => rpc # None /\ SameCall(rpc, rpc')
        /\ reply' = reply \/ (rpc # None /\ rpc' = None)
        /\ UNCHANGED <<child, started, revoked, wpc, lease, seq, pending, news>>
    BY <1>6, ServeEffect DEF sessionVars, cameraVars
  <2> QED BY <1>0, <2>1 DEF CallsFit, Waiting, SameCall
<1>7. CASE StartChild
  BY <1>0, <1>7, FreshInstance DEF CallsFit, StartChild, Waiting, sessionVars, cameraVars, WorkerTypeOK
<1>8. CASE Die
  BY <1>8 DEF CallsFit, Die, Forget, ClearLease, Waiting
<1>9. CASE RevokeDead
  BY <1>0, <1>9 DEF CallsFit, RevokeDead, Waiting, sessionVars, cameraVars
<1> QED BY <1>1, <1>2, <1>3, <1>4, <1>5, <1>6, <1>7, <1>8, <1>9 DEF Next, WorkerStep

\* How a step changes the calls under way: an earlier call, or the one just sent.
LEMMA CallsAfter ==
    ASSUME ProviderInv, [Next]_vars, NEW q \in Requests'
    PROVE  \/ \E p \in Requests : SameCall(p, q)
           \/ /\ q = rpc' /\ q.inst = child /\ child # None /\ child' = child
              /\ q.kind = "register" => q.health = "unhealthy"
              /\ q.lease = IF q.kind = "register" THEN None ELSE lease
              /\ q.kind # "register" => lease # None
              /\ q.kind = "publish" => q.seq = seq'
<1>1. \A r : SameCall(r, r)
  BY DEF SameCall
<1>2. CASE SendRegister \/ SendHeartbeat \/ Retry \/ Tell \/ ReportUnwell \/ Close
  <2>1. q \in late \/ (q = rpc' /\ rpc' # None)
    BY <1>2, SendSteps DEF Requests
  <2>2. q \in late => q \in Requests
    BY DEF Requests
  <2>3. CASE q = rpc' /\ rpc' # None
    <3>1. q.kind = "publish" => Retry \/ Tell
      BY <1>2, <2>3, SendSteps
    <3> QED BY <1>2, <2>3, <3>1, SendSteps
  <2> QED BY <1>1, <2>1, <2>2, <2>3
<1>3. CASE Serve
  BY <1>3, ServeEffect
<1>4. CASE ReceiveError \/ CallFails \/ Die
  <2>1. rpc' \in {rpc, None} /\ late' \subseteq late \cup ({rpc} \ {None})
    BY <1>4 DEF ReceiveError, CallFails, Die, Forget, GiveUpCall
  <2>2. q \in Requests
    BY <2>1 DEF Requests
  <2> QED BY <1>1, <2>2
<1>5. CASE \/ Maintained \/ ReceiveLease \/ ReceiveHeartbeat \/ ReceiveReceipt \/ ReportedUnwell \/ ReadFrame
           \/ Terminated \/ HeartbeatDue \/ OthersChange \/ RevokeDead \/ StartChild \/ UNCHANGED vars
           \/ \E l \in LeaseIds : LeaseLapses(l)
  <2>1. UNCHANGED <<rpc, late>>
    BY <1>5 DEF Maintained, ReceiveLease, ReceiveHeartbeat, ReceiveReceipt, ReportedUnwell, ReadFrame, Terminated,
                HeartbeatDue, OthersChange, RevokeDead, StartChild, LeaseLapses, vars
  <2>2. q \in Requests
    BY <2>1 DEF Requests
  <2> QED BY <1>1, <2>2
<1> QED BY <1>2, <1>3, <1>4, <1>5 DEF Next, WorkerStep

\* Within the life of a child the sequence grows; a new child is a fresh instance.
LEMMA SequenceGrows ==
    ASSUME ProviderInv, [Next]_vars
    PROVE  /\ started \subseteq started'
           /\ \/ child' = child /\ seq' >= seq
              \/ child' = None
              \/ child' \notin started
<1>0. WorkerTypeOK /\ seq \in Nat
  BY ProviderAssumption DEF ProviderInv, WorkerTypeOK
<1>1. CASE SendRegister \/ SendHeartbeat \/ Retry \/ Tell \/ ReportUnwell \/ Close
  BY <1>1, SendSteps
<1>2. CASE Serve
  BY <1>0, <1>2, ServeEffect DEF sessionVars
<1>3. CASE ReceiveError \/ CallFails
  <2>1. Waiting /\ AfterFailure
    BY <1>3, ProviderAssumption DEF ReceiveError, CallFails, Waiting, Reply
  <2> QED BY <1>0, <1>3, <2>1, FailureEffect DEF ReceiveError, CallFails
<1>4. CASE StartChild
  BY <1>0, <1>4, FreshInstance DEF StartChild
<1>5. CASE Die
  BY <1>5 DEF Die
<1>6. CASE \/ Maintained \/ ReceiveLease \/ ReceiveHeartbeat \/ ReceiveReceipt \/ ReportedUnwell \/ ReadFrame
           \/ Terminated \/ HeartbeatDue \/ OthersChange \/ RevokeDead \/ UNCHANGED vars
           \/ \E l \in LeaseIds : LeaseLapses(l)
  BY <1>0, <1>6 DEF Maintained, ReceiveLease, ReceiveHeartbeat, ReceiveReceipt, ReportedUnwell, ReadFrame, Terminated,
                    HeartbeatDue, OthersChange, RevokeDead, LeaseLapses, vars, sessionVars
<1> QED BY <1>1, <1>2, <1>3, <1>4, <1>5, <1>6 DEF Next, WorkerStep

\* Every step keeps what every request says.
LEMMA RequestsFitStep ==
    ASSUME ProviderInv, [Next]_vars, WorkerTypeOK'
    PROVE  RequestsFit'
<1>0. WorkerTypeOK /\ CallsFit /\ RequestsFit
  BY DEF ProviderInv
<1> SUFFICES ASSUME NEW q \in Requests'
             PROVE  /\ q.inst \in started'
                    /\ q.kind = "register" => q.health = "unhealthy"
                    /\ q.kind # "register" => q.lease # None
                    /\ q.kind = "publish" /\ q.inst = child' => q.seq <= seq'
  BY DEF RequestsFit
<1>1. started \subseteq started' /\ seq \in Nat /\ seq' \in Nat
  BY <1>0, SequenceGrows, ProviderAssumption DEF WorkerTypeOK
<1>2. ASSUME NEW p \in Requests, SameCall(p, q)
      PROVE  /\ q.inst \in started'
             /\ q.kind = "register" => q.health = "unhealthy"
             /\ q.kind # "register" => q.lease # None
             /\ q.kind = "publish" /\ q.inst = child' => q.seq <= seq'
  <2>1. p.inst \in Instances /\ p.inst # None /\ p.inst \in started /\ p.seq \in Nat
    BY <1>0, RequestFacts, ProviderAssumption DEF RequestsFit
  <2>2. q.kind = "publish" /\ q.inst = child' => child' = child /\ seq' >= seq
    BY <1>2, <2>1, SequenceGrows DEF SameCall
  <2> QED BY <1>0, <1>1, <1>2, <2>1, <2>2 DEF RequestsFit, SameCall
<1>3. child # None => child \in started
  BY <1>0 DEF CallsFit
<1> QED BY <1>1, <1>2, <1>3, CallsAfter

-----------------------------------------------------------------------------
(* Leases                                                                  *)

\* A step that leaves the records alone, or only removes some or lets them
\* lapse, keeps every lease with its instance.
LEMMA LeasesKept ==
    ASSUME ProviderInv, [Next]_vars, revoked' = revoked,
           \A l \in LeaseIds : byLease'[l] # None =>
               /\ byLease[l] # None
               /\ byLease'[l].provider = byLease[l].provider
               /\ byLease'[l].instance = byLease[l].instance
               /\ byLease'[l].health = byLease[l].health \/ byLease[l].instance \notin revoked,
           \A l \in LeaseIds : l \in {lease', reply'} => l \in {lease, reply} /\ child' = child
    PROVE  LeasesAreOwn'
<1>0. LeasesAreOwn /\ CallsFit
  BY DEF ProviderInv
<1>1. ASSUME NEW l \in LeaseIds, byLease'[l] # None
      PROVE  /\ byLease'[l].provider = Camera
             /\ l \in {lease', reply'} => byLease'[l].instance = child'
             /\ byLease'[l].instance \in revoked => byLease'[l].health = "unhealthy"
  BY <1>0, <1>1 DEF LeasesAreOwn, RevokedInstanceStaysDark
<1>2. ASSUME NEW l \in LeaseIds, byLease'[l] # None, NEW q \in Requests', q.lease = l
      PROVE  byLease'[l].instance = q.inst /\ q.inst \notin revoked
  <2>1. byLease[l] # None /\ byLease'[l].instance = byLease[l].instance
    BY <1>2
  <2>2. CASE \E p \in Requests : SameCall(p, q)
    BY <1>0, <1>2, <2>1, <2>2 DEF LeasesAreOwn, SameCall
  <2>3. CASE q.inst = child /\ child # None /\ q.lease \in {None, lease}
    <3>1. l = lease /\ child \notin revoked
      BY <1>0, <1>2, <2>3, RegistryAssumption DEF CallsFit
    <3> QED BY <1>0, <2>1, <2>3, <3>1 DEF LeasesAreOwn
  <2> QED BY <2>2, <2>3, CallsAfter
<1> QED BY <1>1, <1>2 DEF LeasesAreOwn, RevokedInstanceStaysDark

\* A registration issues a lease that nobody holds, to the instance that asked,
\* and shows it as unhealthy.
LEMMA RegisterOwn ==
    ASSUME ProviderInv, [Next]_vars, NEW r \in Requests, ServeRegister(r), WorkerTypeOK',
           UNCHANGED <<child, revoked, lease>>
    PROVE  LeasesAreOwn'
<1>0. /\ WorkerTypeOK /\ CallsFit /\ RequestsFit /\ LeasesAreOwn /\ RegistryInv
      /\ r.inst \in Instances /\ r.health = "unhealthy" /\ r.inst \in started
  BY RequestFacts DEF ProviderInv, ServeRegister, RequestsFit
<1>1. NewLease \in Unused /\ NewLease \in LeaseIds
  BY DEF ServeRegister, NewLease, Unused
<1> DEFINE result == IF RegisterConflicts(Camera, r.inst, r.health) THEN "error"
                     ELSE LeaseReturned(Camera, NewLease)
<1>2. reply' = reply \/ (r = rpc /\ rpc # None /\ reply' = result)
  <2>1. Finish(r, result)
    BY DEF ServeRegister
  <2> HIDE DEF result
  <2> QED BY <1>0, <2>1, RequestFacts DEF Finish
<1>3. \A q \in Requests' : \E p \in Requests : SameCall(p, q)
  <2>1. result \in Reply
    <3>1. Active(Camera) => byProvider[Camera] \in LeaseIds
      BY <1>0, ProviderAssumption DEF Active, RegistryInv, RegistryTypeOK
    <3> QED BY <1>1, <3>1 DEF Reply, LeaseReturned
  <2>2. Finish(r, result)
    BY DEF ServeRegister
  <2> HIDE DEF result
  <2> QED BY <1>0, <2>1, <2>2, FinishEffect
<1>4. CASE Active(Camera)
  <2>1. UNCHANGED <<byLease, byProvider>>
    BY <1>4 DEF ServeRegister, Register, registryVars
  <2>2. result = "error" \/ (result = byProvider[Camera] /\ byLease[byProvider[Camera]].instance = r.inst)
    BY <1>4 DEF RegisterConflicts, LeaseReturned, SameDeclaration
  <2>3. \A l \in LeaseIds : l # "error"
    BY ProviderAssumption
  <2>4. r = rpc /\ rpc # None => r.inst = child
    BY <1>0 DEF CallsFit
  <2>5. \A l \in LeaseIds : byLease[l] # None /\ l \in {lease', reply'} => byLease[l].instance = child
    <3> HIDE DEF result
    <3> QED BY <1>0, <1>2, <2>2, <2>3, <2>4 DEF LeasesAreOwn
  <2> QED BY <1>0, <1>3, <2>1, <2>5 DEF LeasesAreOwn, RevokedInstanceStaysDark, SameCall
<1>5. CASE ~Active(Camera)
  <2>1. byLease' = [WithoutLeaseOf(Camera) EXCEPT ![NewLease] = NewRecord(Camera, r.inst, r.health)]
    BY <1>5 DEF ServeRegister, Register
  <2>2. /\ byLease'[NewLease] = NewRecord(Camera, r.inst, "unhealthy")
        /\ \A l \in LeaseIds : l # NewLease => byLease'[l] \in {byLease[l], None}
    BY <1>0, <1>1, <2>1 DEF WithoutLeaseOf
  <2>3. result = NewLease
    BY <1>5 DEF RegisterConflicts, LeaseReturned
  <2>4. /\ NewLease # lease /\ NewLease # reply
        /\ \A p \in Requests : p.lease # NewLease
    BY <1>1 DEF Unused
  <2>5. \A q \in Requests' : q.lease # NewLease
    BY <1>3, <2>4 DEF SameCall
  <2>6. r = rpc /\ rpc # None => r.inst = child
    BY <1>0 DEF CallsFit
  <2>7. ASSUME NEW l \in LeaseIds, byLease'[l] # None
        PROVE  /\ byLease'[l].provider = Camera
               /\ l \in {lease', reply'} => byLease'[l].instance = child'
               /\ \A q \in Requests' : q.lease = l => byLease'[l].instance = q.inst /\ q.inst \notin revoked
               /\ byLease'[l].instance \in revoked => byLease'[l].health = "unhealthy"
    <3>1. CASE l = NewLease
      <4>1. l \in {lease', reply'} => r = rpc /\ rpc # None
        BY <1>2, <2>4, <3>1
      <4> QED BY <2>2, <2>5, <2>6, <3>1, <4>1 DEF NewRecord
    <3>2. CASE l # NewLease
      <4>1. byLease'[l] = byLease[l] /\ byLease[l] # None
        BY <2>2, <2>7, <3>2
      <4>2. l \in {lease', reply'} => l \in {lease, reply}
        <5> HIDE DEF result
        <5> QED BY <1>2, <2>3, <3>2
      <4> QED BY <1>0, <1>3, <4>1, <4>2 DEF LeasesAreOwn, RevokedInstanceStaysDark, SameCall
    <3> QED BY <3>1, <3>2
  <2> QED BY <2>7 DEF LeasesAreOwn, RevokedInstanceStaysDark
<1> QED BY <1>4, <1>5

\* Every step keeps the leases with their instances and revoked instances dark.
LEMMA LeasesStep ==
    ASSUME ProviderInv, [Next]_vars, WorkerTypeOK'
    PROVE  LeasesAreOwn'
<1>0. WorkerTypeOK /\ CallsFit /\ RequestsFit /\ LeasesAreOwn /\ RegistryInv
  BY DEF ProviderInv
<1>s. \A l \in LeaseIds : l \notin {None, "error", "rejected", "accepted", "done"}
  BY ProviderAssumption, RegistryAssumption
<1>1. ASSUME UNCHANGED <<byLease, revoked>>,
             \A l \in LeaseIds : l \in {lease', reply'} => l \in {lease, reply} /\ child' = child
      PROVE  LeasesAreOwn'
  BY <1>1, LeasesKept
<1>2. CASE SendRegister \/ SendHeartbeat \/ Retry \/ Tell \/ ReportUnwell \/ Close
  BY <1>1, <1>2, <1>s, SendSteps DEF SendRegister, SendHeartbeat, Retry, Tell, ReportUnwell, Close, SendPublish,
     ClearLease, sessionVars, registryVars
<1>3. CASE ReceiveError \/ CallFails
  <2>1. Waiting /\ AfterFailure
    BY <1>3, ProviderAssumption DEF ReceiveError, CallFails, Waiting, Reply
  <2> QED BY <1>1, <1>3, <1>s, <2>1, FailureEffect DEF ReceiveError, CallFails, registryVars
<1>4. CASE Maintained \/ ReceiveLease \/ ReceiveHeartbeat \/ ReceiveReceipt \/ ReportedUnwell \/ ReadFrame
           \/ Terminated \/ HeartbeatDue \/ OthersChange \/ UNCHANGED vars
  BY <1>1, <1>4, <1>s DEF Maintained, ReceiveLease, ReceiveHeartbeat, ReceiveReceipt, ReportedUnwell, ReadFrame, Terminated,
                    HeartbeatDue, OthersChange, vars, sessionVars, registryVars
<1>5. CASE StartChild \/ Die
  <2>1. CASE StartChild
    <3>1. lease' = None /\ reply' = None /\ UNCHANGED <<byLease, revoked>>
      BY <1>0, <2>1 DEF CallsFit, StartChild, Waiting, sessionVars, registryVars
    <3> QED BY <1>1, <1>s, <3>1
  <2>2. CASE Die
    BY <1>1, <1>s, <2>2 DEF Die, Forget, ClearLease, registryVars
  <2> QED BY <1>5, <2>1, <2>2
<1>6. ASSUME NEW l \in LeaseIds, LeaseLapses(l) PROVE LeasesAreOwn'
  <2>1. byLease[l] \in Record /\ byLease[l] # None
    BY <1>0, <1>6 DEF LeaseLapses, Lapse, HeartbeatSucceeds, RegistryInv, RegistryTypeOK
  <2>2. ASSUME NEW m \in LeaseIds, byLease'[m] # None
        PROVE  /\ byLease[m] # None
               /\ byLease'[m].provider = byLease[m].provider
               /\ byLease'[m].instance = byLease[m].instance
               /\ byLease'[m].health = byLease[m].health
    BY <1>0, <1>6, <2>1, <2>2 DEF LeaseLapses, Lapse, RegistryInv, RegistryTypeOK, Record
  <2>3. UNCHANGED <<lease, reply, child, revoked>>
    BY <1>6 DEF LeaseLapses
  <2> QED BY <2>2, <2>3, LeasesKept
<1>7. CASE RevokeDead
  <2>1. \A l \in LeaseIds : byLease'[l] = None
    <3>1. \A l \in LeaseIds : byLease[l] # None => byProvider[Camera] = l
      BY <1>0 DEF LeasesAreOwn, RegistryInv, LeaseTablesAgree
    <3> QED BY <1>7, <3>1 DEF RevokeDead, RevokeProvider, WithoutLeaseOf
  <2> QED BY <2>1 DEF LeasesAreOwn, RevokedInstanceStaysDark
<1>8. CASE Serve
  <2>1. PICK r \in Requests :
           \/ ServeRegister(r) \/ ServeHeartbeat(r) \/ ServeUnregister(r) \/ CheckPublish(r)
           \/ Submit(r) \/ RefuseSubmit(r)
    BY <1>8 DEF Serve
  <2>2. UNCHANGED <<child, revoked, lease>>
    BY <1>8, ServeEffect DEF sessionVars
  <2>3. CASE ServeRegister(r)
    BY <2>2, <2>3, RegisterOwn
  <2>4. ASSUME \E result \in {"done", "error", "rejected", "accepted"} : Finish(r, result)
        PROVE  \A l \in LeaseIds : l \in {lease', reply'} => l \in {lease, reply} /\ child' = child
    BY <1>s, <2>2, <2>4 DEF Finish
  <2>5. ASSUME \E stage \in {"ready", "authorized"} : Proceed(r, stage)
        PROVE  \A l \in LeaseIds : l \in {lease', reply'} => l \in {lease, reply} /\ child' = child
    BY <2>2, <2>5 DEF Proceed
  <2>6. CASE ServeHeartbeat(r)
    <3>1. r.lease \in LeaseIds /\ r.health \in Healths
      BY <1>0, <2>6, RequestFacts DEF ServeHeartbeat, RequestsFit
    <3>2. byLease[r.lease] # None => byLease[r.lease].instance \notin revoked
      BY <1>0, <3>1 DEF LeasesAreOwn
    <3>3. ASSUME NEW m \in LeaseIds, byLease'[m] # None
          PROVE  /\ byLease[m] # None
                 /\ byLease'[m].provider = byLease[m].provider
                 /\ byLease'[m].instance = byLease[m].instance
                 /\ byLease'[m].health = byLease[m].health \/ byLease[m].instance \notin revoked
      <4>1. CASE ~HeartbeatSucceeds(r.lease)
        BY <2>6, <3>3, <4>1 DEF ServeHeartbeat, Heartbeat
      <4>2. CASE HeartbeatSucceeds(r.lease)
        <5>1. byLease' = [byLease EXCEPT ![r.lease].health = r.health]
          BY <2>6, <4>2 DEF ServeHeartbeat, Heartbeat
        <5>2. byLease[r.lease] \in Record /\ byLease[r.lease] # None
          BY <1>0, <3>1, <4>2 DEF HeartbeatSucceeds, RegistryInv, RegistryTypeOK
        <5>3. CASE m = r.lease
          BY <1>0, <3>1, <3>2, <5>1, <5>2, <5>3 DEF RegistryInv, RegistryTypeOK, Record
        <5>4. CASE m # r.lease
          BY <1>0, <3>1, <3>3, <5>1, <5>4 DEF RegistryInv, RegistryTypeOK
        <5> QED BY <5>3, <5>4
      <4> QED BY <4>1, <4>2
    <3>4. \A l \in LeaseIds : l \in {lease', reply'} => l \in {lease, reply} /\ child' = child
      BY <2>4, <2>6 DEF ServeHeartbeat
    <3> QED BY <2>2, <3>3, <3>4, LeasesKept
  <2>7. CASE ServeUnregister(r)
    <3>1. \A m \in LeaseIds : byLease'[m] # None => byLease'[m] = byLease[m]
      BY <1>0, <2>7 DEF ServeUnregister, Unregister, RegistryInv, RegistryTypeOK
    <3>2. \A l \in LeaseIds : l \in {lease', reply'} => l \in {lease, reply} /\ child' = child
      BY <2>4, <2>7 DEF ServeUnregister
    <3> QED BY <2>2, <3>1, <3>2, LeasesKept
  <2>8. CASE CheckPublish(r) \/ Submit(r) \/ RefuseSubmit(r)
    <3>1. UNCHANGED byLease
      BY <2>8 DEF CheckPublish, Submit, RefuseSubmit, registryVars
    <3>2. \/ \E result \in {"done", "error", "rejected", "accepted"} : Finish(r, result)
          \/ \E stage \in {"ready", "authorized"} : Proceed(r, stage)
      BY <2>8 DEF CheckPublish, Submit, RefuseSubmit
    <3> QED BY <1>1, <2>2, <2>4, <2>5, <3>1, <3>2
  <2> QED BY <2>1, <2>3, <2>6, <2>7, <2>8
<1> QED BY <1>2, <1>3, <1>4, <1>5, <1>6, <1>7, <1>8 DEF Next, WorkerStep

-----------------------------------------------------------------------------
(* Presence transitions                                                    *)

\* A publication is answered as accepted only by the step in which the engine
\* takes it: then the engine knows its value and has its sequence.
LEMMA AcceptedIsTaken ==
    ASSUME ProviderInv, Serve
    PROVE  /\ delivered => delivered'
           /\ confused => confused'
           /\ reply' = "accepted" /\ reply' # reply =>
                /\ rpc # None /\ rpc.inst = child
                /\ rpc.value = gate => delivered'
                /\ presence' = rpc.value /\ lastSeq'[child] = rpc.seq
           /\ \/ UNCHANGED <<presence, lastSeq>>
              \/ confused'
              \/ lastSeq[child] # seq
<1>0. WorkerTypeOK /\ CallsFit /\ RequestsFit /\ RegistryInv
  BY DEF ProviderInv
<1>1. PICK r \in Requests :
         \/ ServeRegister(r) \/ ServeHeartbeat(r) \/ ServeUnregister(r) \/ CheckPublish(r)
         \/ Submit(r) \/ RefuseSubmit(r)
  BY DEF Serve
<1>2. rpc # None => rpc.inst = child
  BY <1>0 DEF CallsFit
<1>3. CASE ServeRegister(r)
  <2>1. LeaseReturned(Camera, NewLease) \in LeaseIds
    <3>1. NewLease \in LeaseIds
      BY <1>3 DEF ServeRegister, NewLease, Unused
    <3>2. Active(Camera) => byProvider[Camera] \in LeaseIds
      BY <1>0, ProviderAssumption DEF Active, RegistryInv, RegistryTypeOK
    <3> QED BY <3>1, <3>2 DEF LeaseReturned
  <2>2. \A result : Finish(r, result) => reply' \in {reply, result}
    BY DEF Finish
  <2>3. ~(reply' = "accepted" /\ reply' # reply)
    BY <1>3, <2>1, <2>2, ProviderAssumption DEF ServeRegister
  <2> QED BY <1>3, <2>3 DEF ServeRegister, engineVars
<1>4. CASE ServeHeartbeat(r) \/ ServeUnregister(r) \/ CheckPublish(r) \/ RefuseSubmit(r)
  <2>1. ~(reply' = "accepted" /\ reply' # reply)
    BY <1>4 DEF ServeHeartbeat, ServeUnregister, CheckPublish, RefuseSubmit, Finish, Proceed
  <2> QED BY <1>4, <2>1 DEF ServeHeartbeat, ServeUnregister, CheckPublish, RefuseSubmit, engineVars
<1>5. CASE Submit(r)
  <2>1. CASE ~InOrder(r)
    <3>1. ~(reply' = "accepted" /\ reply' # reply)
      BY <1>5, <2>1 DEF Submit, Finish
    <3> QED BY <1>5, <2>1, <3>1 DEF Submit, engineVars
  <2>2. CASE InOrder(r)
    <3>1. /\ lastSeq' = [lastSeq EXCEPT ![r.inst] = r.seq]
          /\ presence' = r.value
          /\ delivered' = (delivered \/ (r.inst = child /\ r.value = gate))
          /\ confused' = (confused \/ r.inst # child)
          /\ \E result \in Reply : Finish(r, result)
      BY <1>5, <2>2 DEF Submit, Reply
    <3>2. r.inst \in Instances /\ r.seq \in Nat /\ r.kind = "publish" /\ lastSeq \in [Instances -> 0..MaxSeq]
          /\ seq \in Nat
      BY <1>0, <1>5, RequestFacts, ProviderAssumption DEF Submit, WorkerTypeOK
    <3>3. lastSeq'[r.inst] = r.seq
      BY <3>1, <3>2
    <3>4. reply' # reply => r = rpc /\ rpc # None
      BY <1>0, <3>1, RequestFacts DEF Finish
    <3>5. r.inst = child /\ lastSeq[child] = seq => FALSE
      BY <1>0, <2>2, <3>2 DEF RequestsFit, InOrder
    <3> QED BY <1>2, <3>1, <3>3, <3>4, <3>5
  <2> QED BY <2>1, <2>2
<1> QED BY <1>1, <1>3, <1>4, <1>5

\* Every step keeps the gate's last transition on its way, kept or accepted, and
\* the engine current.
LEMMA TransitionStep ==
    ASSUME ProviderInv, [Next]_vars
    PROVE  TransitionsAreKept' /\ EngineIsCurrent'
<1>0. WorkerTypeOK /\ CallsFit /\ TransitionsAreKept /\ EngineIsCurrent
  BY DEF ProviderInv
<1>1. CASE \/ SendRegister \/ SendHeartbeat \/ Maintained \/ ReceiveLease \/ ReceiveHeartbeat \/ ReportUnwell
           \/ ReportedUnwell \/ Close \/ Terminated \/ HeartbeatDue \/ OthersChange \/ RevokeDead \/ UNCHANGED vars
           \/ \E l \in LeaseIds : LeaseLapses(l)
  <2>1. /\ UNCHANGED <<gate, pending, news, delivered, confused, presence, lastSeq, child, seq>>
        /\ reply' = reply \/ reply' = None
        /\ \/ wpc' = wpc
           \/ wpc = "start" /\ wpc' = "maintain"
           \/ wpc = "maintain" /\ wpc' = "retry" /\ (~Waiting \/ reply' = None)
           \/ wpc' \in {"close", "exit"}
    BY <1>1 DEF SendRegister, SendHeartbeat, Maintained, ReceiveLease, ReceiveHeartbeat, ReportUnwell, ReportedUnwell,
                Close, Terminated, HeartbeatDue, OthersChange, RevokeDead, LeaseLapses, vars, ClearLease, AfterSession,
                sessionVars, cameraVars, engineVars
  <2>2. TransitionsAreKept'
    BY <1>0, <2>1, ProviderAssumption DEF TransitionsAreKept, Waiting, Reply
  <2>3. EngineIsCurrent'
    BY <1>0, <2>1, ProviderAssumption DEF EngineIsCurrent, Waiting, Reply
  <2> QED BY <2>2, <2>3
<1>2. CASE Retry
  <2>1. /\ UNCHANGED <<gate, pending, news, delivered, confused, presence, lastSeq, child>>
        /\ reply' = None /\ wpc = "retry" /\ wpc' \in {"retry", "read"}
        /\ seq' = seq \/ pending # None
    BY <1>2, SendSteps DEF Retry, cameraVars, engineVars, sessionVars
  <2> QED BY <1>0, <2>1, ProviderAssumption DEF TransitionsAreKept, EngineIsCurrent, Reply
<1>3. CASE Tell
  <2>1. /\ UNCHANGED <<gate, delivered, confused, presence, lastSeq, child>>
        /\ reply' = None /\ wpc = "tell"
        /\ \/ wpc' = "tell" /\ news' = news
           \/ wpc' = "maintain" /\ pending' = news /\ seq' = seq
    BY <1>3, SendSteps DEF Tell, engineVars, sessionVars
  <2> QED BY <1>0, <2>1, ProviderAssumption DEF TransitionsAreKept, EngineIsCurrent, Reply
<1>4. CASE ReadFrame
  <2>1. /\ UNCHANGED <<pending, confused, presence, lastSeq, child, seq>>
        /\ reply' = None /\ wpc = "read"
        /\ \/ wpc' = "tell" /\ news' = gate'
           \/ wpc' \in {"maintain", "unwell"} /\ UNCHANGED <<gate, delivered>>
    BY <1>0, <1>4 DEF ReadFrame, sessionVars, CallsFit, Waiting
  <2> QED BY <1>0, <2>1, ProviderAssumption DEF TransitionsAreKept, EngineIsCurrent, Reply
<1>5. CASE ReceiveReceipt
  <2>0. /\ UNCHANGED <<gate, delivered, presence, lastSeq, child, seq>> /\ reply' = None
        /\ reply \in {"accepted", "rejected"} /\ reply # None
    BY <1>5, ProviderAssumption DEF ReceiveReceipt, sessionVars, Reply
  <2>1. CASE wpc = "retry"
    <3>1. /\ wpc' = "read" /\ (~confused' => ~confused) /\ pending # None
          /\ pending' = IF reply = "accepted" THEN None ELSE pending
      BY <1>0, <1>5, <2>0, <2>1 DEF ReceiveReceipt, CallsFit, Waiting
    <3> QED BY <1>0, <2>0, <2>1, <3>1, ProviderAssumption DEF TransitionsAreKept, EngineIsCurrent, Reply
  <2>2. CASE wpc = "tell"
    <3>1. /\ wpc' = "maintain"
          /\ confused' = (confused \/ (reply = "accepted" /\ pending # None))
          /\ pending' = IF reply = "accepted" THEN pending ELSE news
      BY <1>5, <2>2 DEF ReceiveReceipt
    <3> QED BY <1>0, <2>0, <2>2, <3>1, ProviderAssumption DEF TransitionsAreKept, EngineIsCurrent, Reply
  <2> QED BY <1>5, <2>1, <2>2 DEF ReceiveReceipt
<1>6. CASE ReceiveError \/ CallFails
  <2>1. Waiting /\ AfterFailure
    BY <1>6, ProviderAssumption DEF ReceiveError, CallFails, Waiting, Reply
  <2>2. reply' = None /\ UNCHANGED <<gate, delivered, confused, presence, lastSeq, child>>
    BY <1>6 DEF ReceiveError, CallFails, engineVars
  <2>3. /\ wpc' = CASE wpc = "start" -> "maintain" [] wpc = "maintain" -> "retry" [] wpc = "retry" -> "read"
                    [] wpc = "tell" -> "maintain" [] wpc = "unwell" -> "close" [] OTHER -> wpc
        /\ wpc \in {"start", "maintain", "retry", "tell", "unwell", "exit"}
        /\ pending' = IF wpc = "tell" THEN news ELSE pending
        /\ seq' = seq
    BY <2>1, FailureEffect
  <2> QED BY <1>0, <2>2, <2>3, ProviderAssumption DEF TransitionsAreKept, EngineIsCurrent, Reply
<1>7. CASE Serve
  <2>1. /\ UNCHANGED <<child, wpc, seq, gate, news, pending>>
        /\ reply' = reply \/ (rpc # None /\ rpc' = None)
    BY <1>7, ServeEffect DEF sessionVars, cameraVars
  <2>2. /\ delivered => delivered'
        /\ confused => confused'
        /\ reply' = "accepted" /\ reply' # reply =>
                /\ rpc # None /\ rpc.inst = child
                /\ rpc.value = gate => delivered'
                /\ presence' = rpc.value /\ lastSeq'[child] = rpc.seq
        /\ \/ UNCHANGED <<presence, lastSeq>>
           \/ confused'
           \/ lastSeq[child] # seq
    BY <1>7, AcceptedIsTaken
  <2>3. ASSUME wpc \in {"retry", "tell"}, reply' = "accepted", reply' # reply
        PROVE  /\ rpc # None /\ rpc.seq = seq
               /\ wpc = "retry" => rpc.value = pending /\ pending # None
               /\ wpc = "tell" => rpc.value = gate
    BY <1>0, <2>2, <2>3 DEF CallsFit, Waiting, TransitionsAreKept
  <2>4. TransitionsAreKept'
    BY <1>0, <2>1, <2>2, <2>3 DEF TransitionsAreKept
  <2>5. EngineIsCurrent'
    BY <1>0, <2>1, <2>2, <2>3 DEF EngineIsCurrent
  <2> QED BY <2>4, <2>5
<1>8. CASE StartChild
  <2>1. gate' = None /\ pending' = None /\ wpc' = "start" /\ delivered'
    BY <1>0, <1>8 DEF StartChild, CallsFit, TransitionsAreKept, cameraVars
  <2> QED BY <2>1 DEF TransitionsAreKept, EngineIsCurrent
<1>9. CASE Die
  BY <1>9 DEF Die, Forget, TransitionsAreKept, EngineIsCurrent
<1> QED BY <1>1, <1>2, <1>3, <1>4, <1>5, <1>6, <1>7, <1>8, <1>9 DEF Next, WorkerStep

-----------------------------------------------------------------------------
(* The theorems                                                            *)

\* The system starts in the invariant.
LEMMA ProviderInitInv == Init => ProviderInv
<1> SUFFICES ASSUME Init PROVE ProviderInv
  OBVIOUS
<1>1. RegistryInv
  BY RegistryInitInv DEF Init
<1>2. WorkerTypeOK
  <2>1. 0 \in 0..MaxSeq
    BY ProviderAssumption
  <2>2. lastSeq \in [Instances -> 0..MaxSeq]
    BY <2>1 DEF Init
  <2> QED BY <2>1, <2>2 DEF Init, WorkerTypeOK
<1>3. Requests = {}
  BY DEF Init, Requests
<1>4. CallsFit /\ RequestsFit
  BY <1>3 DEF Init, CallsFit, RequestsFit, Waiting
<1>5. LeasesAreOwn
  BY DEF Init, RegistryInit, LeasesAreOwn, RevokedInstanceStaysDark
<1>6. TransitionsAreKept /\ EngineIsCurrent
  BY DEF Init, TransitionsAreKept, EngineIsCurrent
<1> QED BY <1>1, <1>2, <1>4, <1>5, <1>6 DEF ProviderInv

\* Every step of the worker, the server, the process and the clock keeps it.
LEMMA ProviderStep == ProviderInv /\ [Next]_vars => ProviderInv'
<1> SUFFICES ASSUME ProviderInv, [Next]_vars PROVE ProviderInv'
  OBVIOUS
<1>1. RegistryInv'
  BY StepIsRegistryStep, RegistryStep DEF ProviderInv
<1>2. WorkerTypeOK' /\ CallsFit'
  BY WorkerTypeStep, CallsFitStep
<1>3. RequestsFit' /\ LeasesAreOwn'
  BY <1>2, RequestsFitStep, LeasesStep
<1>4. TransitionsAreKept' /\ EngineIsCurrent'
  BY TransitionStep
<1> QED BY <1>1, <1>2, <1>3, <1>4 DEF ProviderInv

\* The inductive invariant of worker, server and registry, for any number of
\* instances, lease identities, failed calls and late calls.
THEOREM ProviderInvariant == Spec => []ProviderInv
BY ProviderInitInv, ProviderStep, PTL DEF Spec

\* Worker and server use the registry only through its operations: whatever is
\* proved of RegistrySpec, its tables' agreement and that no live lease is taken
\* over, holds of the registry behind the ingress with a crashing worker.
THEOREM ProviderUsesRegistry ==
    Spec => RegistrySpec /\ []LeaseTablesAgree /\ LiveLeaseIsNotTakenOver
<1>1. Init => RegistryInit
  BY DEF Init
<1>2. ProviderInv /\ [Next]_vars => [RegistryNext]_registryVars
  BY StepIsRegistryStep
<1>3. Spec => RegistrySpec
  BY <1>1, <1>2, ProviderInvariant, PTL DEF Spec, RegistrySpec
<1> QED BY <1>3, RegistryLeaseTablesAgree, RegistryLiveLeaseIsNotTakenOver, PTL

\* RevokeProvider's promise: a dead instance that has been revoked never looks
\* healthy again, whichever of its calls the server still carries out.
THEOREM ProviderRevokedInstanceStaysDark == Spec => []RevokedInstanceStaysDark
<1>1. ProviderInv => RevokedInstanceStaysDark
  BY DEF ProviderInv, LeasesAreOwn
<1> QED BY <1>1, ProviderInvariant, PTL

\* CameraWorker.step loses no presence transition: between two steps the latest
\* is pending or was accepted by the engine.
THEOREM ProviderEveryTransitionIsDelivered == Spec => []EveryTransitionIsDelivered
<1>1. ProviderInv => EveryTransitionIsDelivered
  BY DEF ProviderInv, TransitionsAreKept, EveryTransitionIsDelivered
<1> QED BY <1>1, ProviderInvariant, PTL

\* With nothing pending the engine knows the gate's state, unless an overtaken
\* retry or a dead predecessor's publication has confused it.
THEOREM ProviderEngineKnowsTheGate == Spec => []EngineKnowsTheGateUnlessConfused
<1>1. ProviderInv => EngineKnowsTheGateUnlessConfused
  BY DEF ProviderInv, EngineIsCurrent, EngineKnowsTheGateUnlessConfused
<1> QED BY <1>1, ProviderInvariant, PTL

=============================================================================
