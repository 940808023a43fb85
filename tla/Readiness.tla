------------------------------ MODULE Readiness ------------------------------
(***************************************************************************)
(* The scenario manifest (adapters/config/scenario) and the readiness of   *)
(* the scenario it declares (internal/application/readiness): pure         *)
(* functions of a manifest, of the providers that hold a lease, of the     *)
(* biometric policy and of the time.  The empty string is a field nobody   *)
(* filled in.                                                              *)
(***************************************************************************)
EXTENDS Naturals, Sequences, FiniteSets, SequencesExt

CONSTANTS
    Manifests,    \* bound: the files Load is tried on
    Cases         \* bound: the inputs EvaluateAt is tried on

\* validCapability, in the order of the names: normalisation sorts by it.
CapabilityNames ==
    << "ATTENTION_ESTIMATION", "AVATAR_ATTEND", "AVATAR_EXPRESSION", "BUSY_STATE", "DEVICE_STATE",
       "DISPLAY_TEXT", "FACE_DETECTION", "FACE_IDENTIFICATION", "FACE_LIVENESS", "GESTURE",
       "GESTURE_DETECTION", "LIGHT", "LOCOMOTION", "PERSON_PRESENCE", "SPEAKER_IDENTIFICATION",
       "SPEAKER_VERIFICATION", "SPEECH_SYNTHESIS", "SPEECH_TRANSCRIPTION", "VOICE_ACTIVITY" >>

Capabilities == ToSet(CapabilityNames)

\* A CapabilityRequirement or an OptionalCapability.
Entries == [kind : STRING, provider : STRING, fallback : STRING]

ASSUME ReadinessAssumption ==
    /\ \A m \in Manifests : m.scenario.required \in Seq(Entries) /\ m.scenario.optional \in Seq(Entries)
    /\ \A c \in Cases :
           /\ c.scenario.required \in Seq(Entries) /\ c.scenario.optional \in Seq(Entries)
           /\ c.now \in Nat /\ c.policy.enabled \in BOOLEAN
           /\ \A i \in DOMAIN c.providers : c.providers[i].expires \in Nat

NameRank(kind) == CHOOSE i \in DOMAIN CapabilityNames : CapabilityNames[i] = kind

\* validFallback: the one fallback a capability may have, if it may be optional.
validFallback ==
    [k \in {"FACE_IDENTIFICATION", "FACE_LIVENESS", "SPEAKER_IDENTIFICATION", "SPEAKER_VERIFICATION"}
        |-> "ANONYMOUS_SUBJECT"]
    @@ [k \in {"DISPLAY_TEXT", "AVATAR_ATTEND", "AVATAR_EXPRESSION"} |-> "AUDIO_ONLY"]
    @@ [VOICE_ACTIVITY |-> "NO_VOICE_REPLY", SPEECH_TRANSCRIPTION |-> "NO_TRANSCRIPT",
        SPEECH_SYNTHESIS |-> "VISUAL_ONLY"]

requiresEnrollment == {"FACE_IDENTIFICATION", "SPEAKER_IDENTIFICATION", "SPEAKER_VERIFICATION"}
isBiometric == requiresEnrollment \cup {"FACE_DETECTION", "FACE_LIVENESS"}

Distinct(s) == \A i, j \in DOMAIN s : i # j => s[i] # s[j]
KindsOf(s) == [i \in DOMAIN s |-> s[i].kind]

-----------------------------------------------------------------------------
(* The declaration                                                         *)

\* validateSelection for every entry: known, bound to a provider, chosen once.
validateSelections(entries) ==
    /\ Distinct(KindsOf(entries))
    /\ \A i \in DOMAIN entries : entries[i].kind \in Capabilities /\ entries[i].provider # ""

ValidateScenario(s) ==
    /\ s.id # ""
    /\ Len(s.required) + Len(s.optional) > 0
    /\ validateSelections(s.required \o s.optional)
    /\ \A i \in DOMAIN s.optional :
           /\ s.optional[i].kind \in DOMAIN validFallback
           /\ s.optional[i].fallback = validFallback[s.optional[i].kind]

Required(kind, provider) == [kind |-> kind, provider |-> provider, fallback |-> ""]
Optional(kind, provider, fallback) == [kind |-> kind, provider |-> provider, fallback |-> fallback]

\* The fallbacks a manifest may name.
mapFallback == {"ANONYMOUS_SUBJECT", "NO_VOICE_REPLY", "NO_TRANSCRIPT", "VISUAL_ONLY", "AUDIO_ONLY"}

\* mapRequirements: the wire names are the names of the domain, or are refused.
mapRequirements(wire) ==
    /\ \A e \in ToSet(wire.required \o wire.optional) : e.kind \in Capabilities
    /\ \A e \in ToSet(wire.optional) : e.fallback \in mapFallback

\* How many of a set come before one of them, by name.
Before(S, e) == Cardinality({d \in S : NameRank(d.kind) < NameRank(e.kind)})

\* A list by name; a name is there once, so no other key decides.
Sorted(entries) ==
    LET S == ToSet(entries)
    IN  [i \in 1..Len(entries) |-> CHOOSE e \in S : Before(S, e) = i - 1]

normalizeRequirements(s) == [s EXCEPT !.required = Sorted(@), !.optional = Sorted(@)]

\* The digest of the canonical JSON, up to collisions.
hashCanonical(schema, version, s) == <<schema, s.id, version, s.required, s.optional>>

Refused == [accepted |-> FALSE]

\* Load: one strict v1 document.
Load(manifest) ==
    LET wire == manifest.scenario
        requirements == [id |-> wire.id, required |-> wire.required, optional |-> wire.optional]
        normal == normalizeRequirements(requirements)
    IN  IF /\ manifest.documents = 1 /\ manifest.strict
           /\ manifest.schema = "v1"
           /\ wire.version # ""
           /\ mapRequirements(wire)
           /\ ValidateScenario(requirements)
        THEN [accepted |-> TRUE, version |-> wire.version, requirements |-> normal,
              hash |-> hashCanonical(manifest.schema, wire.version, normal)]
        ELSE Refused

-----------------------------------------------------------------------------
(* The evaluation                                                          *)

\* validateProviders: every snapshot is complete and there is one per provider.
validateProviders(providers) ==
    /\ Distinct([i \in DOMAIN providers |-> providers[i].provider])
    /\ \A i \in DOMAIN providers :
           LET p == providers[i]
           IN  /\ p.provider # "" /\ p.instance # ""
               /\ p.expires > 0
               /\ p.health \in {"HEALTHY", "UNHEALTHY"}
               /\ p.capabilities # <<>> /\ Distinct(p.capabilities)
               /\ ToSet(p.capabilities) \subseteq Capabilities

validateBiometricPolicy(policy) ==
    /\ Distinct(policy.authorized) /\ ToSet(policy.authorized) \subseteq isBiometric
    /\ Distinct(policy.enrolled) /\ ToSet(policy.enrolled) \subseteq requiresEnrollment

\* validateProviders: the map from a provider to its snapshot.
providerByID(providers) ==
    [id \in {p.provider : p \in ToSet(providers)} |-> CHOOSE p \in ToSet(providers) : p.provider = id]

\* evaluateCapability: the first reason why a selected capability is missing.
evaluateCapability(entry, byID, policy, now) ==
    LET p == byID[entry.provider]
    IN  IF entry.provider \notin DOMAIN byID THEN "UNAVAILABLE"
        ELSE IF entry.kind \notin ToSet(p.capabilities) THEN "CAPABILITY_MISSING"
        ELSE IF p.health = "UNHEALTHY" THEN "UNAVAILABLE"
        ELSE IF now >= p.expires THEN "DEADLINE_EXCEEDED"
        ELSE IF entry.kind \notin isBiometric THEN "NONE"
        ELSE IF ~policy.enabled THEN "POLICY_BLOCKED"
        ELSE IF entry.kind \notin ToSet(policy.authorized) THEN "PERMISSION_DENIED"
        ELSE IF entry.kind \in requiresEnrollment /\ entry.kind \notin ToSet(policy.enrolled)
             THEN "POLICY_BLOCKED"
        ELSE "NONE"

Issue(entry, code) ==
    [kind |-> entry.kind, provider |-> entry.provider, fallback |-> entry.fallback, code |-> code]

\* The loop over a list: whatever has a code that is not among "fine" is appended.
Collected(entries, codes, fine) ==
    LET issues[i \in 0..Len(entries)] ==
            IF i = 0 THEN <<>>
            ELSE IF codes[i] \in fine THEN issues[i - 1]
            ELSE Append(issues[i - 1], Issue(entries[i], codes[i]))
    IN  issues[Len(entries)]

Codes(entries, providers, policy, now) ==
    [i \in DOMAIN entries |-> evaluateCapability(entries[i], providerByID(providers), policy, now)]

\* Seeded fault: a lease that ran out is not an issue.
IssuesIgnoringExpiry(entries, providers, policy, now) ==
    Collected(entries, Codes(entries, providers, policy, now), {"NONE", "DEADLINE_EXCEEDED"})

IssuesOf(entries, providers, policy, now) ==
    Collected(entries, Codes(entries, providers, policy, now), {"NONE"})

Invalid == [status |-> "INVALID", issues |-> <<>>]

EvaluateAt(scenario, providers, policy, now) ==
    LET blocking == IssuesOf(scenario.required, providers, policy, now)
        issues == Sorted(blocking \o IssuesOf(scenario.optional, providers, policy, now))
    IN  IF ValidateScenario(scenario) /\ validateProviders(providers) /\ validateBiometricPolicy(policy)
        THEN [status |-> CASE blocking # <<>> -> "BLOCKED"
                           [] blocking = <<>> /\ issues # <<>> -> "DEGRADED"
                           [] OTHER -> "READY",
              issues |-> issues]
        ELSE Invalid

-----------------------------------------------------------------------------
(* cmd/desktop/readiness.go                                                *)

\* localProvider: what the process itself provides.
localProvider(id, kind, now) ==
    [provider |-> id, instance |-> id, capabilities |-> <<kind>>, health |-> "HEALTHY", expires |-> now + 60]

NoBiometrics == [enabled |-> FALSE, authorized |-> <<>>, enrolled |-> <<>>]

\* activationView.CurrentActivation: an error is a blocked scenario.
CurrentActivation(scenario, snapshots, tts, now) ==
    LET local == <<localProvider("web-avatar", "DISPLAY_TEXT", now)>>
                 \o (IF tts THEN <<localProvider("speech-dispatcher", "SPEECH_SYNTHESIS", now)>> ELSE <<>>)
        result == EvaluateAt(scenario, snapshots \o local, NoBiometrics, now)
    IN  IF result = Invalid THEN "BLOCKED" ELSE result.status

-----------------------------------------------------------------------------
(* What the two promise                                                    *)

\* A selected capability is there: some provider of that name holds a running
\* lease for it and is healthy, and biometrics are switched on, authorised and,
\* for a template, enrolled.
Available(entry, providers, policy, now) ==
    /\ \E i \in DOMAIN providers :
           /\ providers[i].provider = entry.provider
           /\ entry.kind \in ToSet(providers[i].capabilities)
           /\ providers[i].health = "HEALTHY"
           /\ now < providers[i].expires
    /\ entry.kind \in isBiometric => policy.enabled /\ entry.kind \in ToSet(policy.authorized)
    /\ entry.kind \in requiresEnrollment => entry.kind \in ToSet(policy.enrolled)

Missing(entries, providers, policy, now) ==
    {e \in ToSet(entries) : ~Available(e, providers, policy, now)}

\* The scenario is ready when nothing is missing, degraded when only optional
\* capabilities are, blocked otherwise; each missing capability is reported
\* once, with its own fallback.
EvaluateAtMeetsReference ==
    \A c \in Cases :
        LET result == EvaluateAt(c.scenario, c.providers, c.policy, c.now)
            required == Missing(c.scenario.required, c.providers, c.policy, c.now)
            optional == Missing(c.scenario.optional, c.providers, c.policy, c.now)
        IN  result # Invalid =>
            /\ result.status = CASE required # {} -> "BLOCKED"
                                 [] required = {} /\ optional # {} -> "DEGRADED"
                                 [] OTHER -> "READY"
            /\ Len(result.issues) = Cardinality(required \cup optional)
            /\ {[kind |-> issue.kind, provider |-> issue.provider, fallback |-> issue.fallback] :
                    issue \in ToSet(result.issues)} = required \cup optional

SameDeclaration(m, n) ==
    /\ m.schema = n.schema /\ m.scenario.id = n.scenario.id /\ m.scenario.version = n.scenario.version
    /\ ToSet(m.scenario.required) = ToSet(n.scenario.required)
    /\ ToSet(m.scenario.optional) = ToSet(n.scenario.optional)

\* LoadedScenario.Hash is reproducible: two files that are accepted have one
\* hash exactly when they declare the same, in whatever order.
HashNamesDeclaration ==
    \A m, n \in Manifests : Load(m).accepted /\ Load(n).accepted =>
        (Load(m).hash = Load(n).hash <=> SameDeclaration(m, n))
=============================================================================
