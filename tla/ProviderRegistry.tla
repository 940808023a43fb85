-------------------------- MODULE ProviderRegistry --------------------------
(***************************************************************************)
(* adapters/capability/registry: the in-memory leases of capability        *)
(* providers.  The two maps of the Go code point to shared records: here   *)
(* byLease holds the record and byProvider the identity it is kept under.  *)
(*                                                                         *)
(* Time.  Expiry is never acted upon by the registry, only compared with   *)
(* the clock, so a record is just live or not; Lapse is the clock passing  *)
(* LeaseExpiresAt, and a heartbeat makes the record live for another       *)
(* lease duration.                                                         *)
(***************************************************************************)
CONSTANTS Providers,    \* provider identities
          Instances,    \* instance identities
          LeaseIds,     \* identities the registry can issue
          None          \* absent

Healths == {"healthy", "unhealthy"}
Record  == [provider : Providers, instance : Instances, declared : Healths,
            health : Healths, live : BOOLEAN]

ASSUME RegistryAssumption == None \notin LeaseIds /\ None \notin Record

VARIABLES byProvider,   \* Registry.byProvider: the lease of each provider, or None
          byLease       \* Registry.byLease: the record under each identity, or None

registryVars == <<byProvider, byLease>>

RegistryInit ==
    /\ byProvider = [p \in Providers |-> None]
    /\ byLease = [l \in LeaseIds |-> None]

-----------------------------------------------------------------------------
Active(p) == byProvider[p] # None /\ byLease[byProvider[p]].live

\* Seeded fault: the declaration is compared with the current health.
SameSnapshot(r, i, h) == r.instance = i /\ r.health = h

\* sameDeclaration: what was declared, not what heartbeats reported since.
SameDeclaration(r, i, h) == r.instance = i /\ r.declared = h

RegisterConflicts(p, i, h) == Active(p) /\ ~SameDeclaration(byLease[byProvider[p]], i, h)

\* The lease a registration returns if it does not conflict; l is the identity
\* that would be issued.
LeaseReturned(p, l) == IF Active(p) THEN byProvider[p] ELSE l

\* delete(byLease, ...) of the record a provider has now, if any.
WithoutLeaseOf(p) == [l \in LeaseIds |-> IF l = byProvider[p] THEN None ELSE byLease[l]]

NewRecord(p, i, h) ==
    [provider |-> p, instance |-> i, declared |-> h, health |-> h, live |-> TRUE]

\* Seeded fault: the lease of the expired predecessor is kept.
RegisterKeepsPrevious(p, i, h, l) ==
    IF Active(p) THEN UNCHANGED registryVars
    ELSE /\ byLease[l] = None
         /\ byLease' = [byLease EXCEPT ![l] = NewRecord(p, i, h)]
         /\ byProvider' = [byProvider EXCEPT ![p] = l]

\* Seeded fault: an instance that conflicts replaces the active one.
RegisterReplaces(p, i, h, l) ==
    IF Active(p) /\ ~RegisterConflicts(p, i, h) THEN UNCHANGED registryVars
    ELSE /\ byLease[l] = None
         /\ byLease' = [WithoutLeaseOf(p) EXCEPT ![l] = NewRecord(p, i, h)]
         /\ byProvider' = [byProvider EXCEPT ![p] = l]

\* RegisterCapabilityProvider: an active record is kept, whoever asks; an
\* expired one is replaced.
Register(p, i, h, l) ==
    IF Active(p) THEN UNCHANGED registryVars
    ELSE /\ byLease[l] = None
         /\ byLease' = [WithoutLeaseOf(p) EXCEPT ![l] = NewRecord(p, i, h)]
         /\ byProvider' = [byProvider EXCEPT ![p] = l]

HeartbeatSucceeds(l) == byLease[l] # None /\ byLease[l].live

Heartbeat(l, h) ==
    /\ byLease' = IF HeartbeatSucceeds(l) THEN [byLease EXCEPT ![l].health = h] ELSE byLease
    /\ UNCHANGED byProvider

Unregister(l) ==
    /\ byLease' = [byLease EXCEPT ![l] = None]
    /\ byProvider' = [p \in Providers |->
                        IF byLease[l] # None /\ byLease[l].provider = p /\ byProvider[p] = l
                        THEN None ELSE byProvider[p]]

\* Seeded fault: the lease identity of a revoked provider stays usable.
RevokeKeepsLease(p) ==
    /\ byProvider' = [byProvider EXCEPT ![p] = None]
    /\ UNCHANGED byLease

\* RevokeProvider, called by the process supervisor.
RevokeProvider(p) ==
    /\ byLease' = WithoutLeaseOf(p)
    /\ byProvider' = [byProvider EXCEPT ![p] = None]

\* The clock passes the expiry of a record; nothing else happens.
Lapse(l) ==
    /\ HeartbeatSucceeds(l)
    /\ byLease' = [byLease EXCEPT ![l].live = FALSE]
    /\ UNCHANGED byProvider

-----------------------------------------------------------------------------
\* The registry on its own, called with any argument in any order.
RegistryNext ==
    \/ \E p \in Providers, i \in Instances, h \in Healths, l \in LeaseIds : Register(p, i, h, l)
    \/ \E l \in LeaseIds, h \in Healths : Heartbeat(l, h)
    \/ \E l \in LeaseIds : Unregister(l) \/ Lapse(l)
    \/ \E p \in Providers : RevokeProvider(p)

RegistrySpec == RegistryInit /\ [][RegistryNext]_registryVars

-----------------------------------------------------------------------------
\* Every variable has the shape of the Go state it models.
RegistryTypeOK ==
    /\ byProvider \in [Providers -> LeaseIds \cup {None}]
    /\ byLease \in [LeaseIds -> Record \cup {None}]

\* The two maps stay each other's inverse through every order of registrations,
\* replacements, heartbeats, unregistrations and revocations: a usable lease is
\* the current one of its provider, so a replaced or revoked provider can
\* neither heartbeat nor publish.
LeaseTablesAgree ==
    /\ \A p \in Providers : byProvider[p] # None =>
         byLease[byProvider[p]] # None /\ byLease[byProvider[p]].provider = p
    /\ \A l \in LeaseIds : byLease[l] # None => byProvider[byLease[l].provider] = l

\* A live lease is taken from its instance only by an explicit unregistration
\* or revocation, which leave the provider without a lease: no registration
\* ever takes over a provider whose lease has not lapsed.
LiveLeaseIsNotTakenOver ==
    [][\A p \in Providers :
         Active(p) /\ byProvider'[p] # None =>
             /\ byProvider'[p] = byProvider[p]
             /\ byLease'[byProvider[p]].instance = byLease[byProvider[p]].instance]_registryVars

=============================================================================
