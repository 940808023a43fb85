---------------------------- MODULE EngineProofs ----------------------------
(***************************************************************************)
(* Proofs about the tracker, the engine that drives it and the runner that *)
(* calls the engine, for any clients, identities, commands, durations,     *)
(* capability sets, queue capacities and time bound.  What is proved of    *)
(* EngineSpec holds under any caller that respects the single-writer rule; *)
(* the runner is shown to be one, its timer to follow the engine's         *)
(* continuation, its controls to come first and an answered rejection to   *)
(* be in force.                                                            *)
(***************************************************************************)
EXTENDS Runner, SequenceTheorems, TLAPS

-----------------------------------------------------------------------------
(* The tracker, for any identities, any time bound and any calls.          *)

\* What makes the tracker's promises inductive: its types, a window only with
\* its episode, and outcomes only for consumed facts.
TrackerInv ==
    /\ TrackerTypeOK
    /\ WindowBelongsToEpisode
    /\ OutcomesAreConsumed
    /\ OneOutcomePerFact

-----------------------------------------------------------------------------
(* One lemma per operation; the engine's proofs cite them too.             *)

\* Start keeps the invariant whatever episode it is given.
LEMMA StartInv ==
    ASSUME TrackerInv, NEW e \in Episode, Start(e)
    PROVE  TrackerInv'
<1> USE TrackerAssumption DEF TrackerInv, Start
<1>1. TrackerTypeOK'
  BY DEF TrackerTypeOK
<1>2. WindowBelongsToEpisode'
  BY DEF WindowBelongsToEpisode
<1>3. OutcomesAreConsumed' /\ OneOutcomePerFact'
  BY DEF OutcomesAreConsumed, OneOutcomePerFact
<1> QED BY <1>1, <1>2, <1>3

\* OpenResponseWindow keeps the invariant whatever the caller asks for.
LEMMA OpenInv ==
    ASSUME TrackerInv, NEW id, NEW token \in Tokens, NEW at \in Time, NEW duration \in Nat,
           OpenResponseWindow(id, token, at, duration)
    PROVE  TrackerInv'
<1> USE TrackerAssumption DEF TrackerInv, OpenResponseWindow
<1>1. TrackerTypeOK'
  BY DEF TrackerTypeOK, NewWindow, Window, Time
<1>2. WindowBelongsToEpisode'
  BY DEF WindowBelongsToEpisode, OpenFails, NewWindow, TrackerTypeOK, Time, Episode
<1>3. OutcomesAreConsumed' /\ OneOutcomePerFact'
  BY DEF OutcomesAreConsumed, OneOutcomePerFact
<1> QED BY <1>1, <1>2, <1>3

\* Ending the active episode with a fact that was not consumed before, and
\* remembering that fact, keeps the invariant.
LEMMA EndActiveInv ==
    ASSUME TrackerInv, active # None,
           NEW kind \in {"ACCEPTED", "NO_RESPONSE", "REJECTED"},
           NEW fact \in FactIds, NEW at \in Nat,
           EndActive(kind, fact, at),
           feedback' \subseteq FeedbackIds, feedback \subseteq feedback',
           expirations' \subseteq Expiration, expirations \subseteq expirations',
           fact \notin feedback,
           \A x \in expirations : fact # <<"RESPONSE_WINDOW_EXPIRED", x.token>>,
           \/ fact \in feedback'
           \/ \E x \in expirations' : fact = <<"RESPONSE_WINDOW_EXPIRED", x.token>>
    PROVE  /\ TrackerInv'
           /\ active' = None /\ window' = None
           /\ \E o \in outcomes' \ outcomes : o.episode = active.id
<1> DEFINE new == [episode |-> active.id, kind |-> kind, fact |-> fact, at |-> at]
<1>1. /\ outcomes' = outcomes \cup {new}
      /\ active' = None /\ window' = None
  BY DEF EndActive
<1>2. new \in Outcome /\ new.fact = fact /\ new.episode = active.id
  BY DEF TrackerInv, TrackerTypeOK, Episode, Outcome
<1>3. \A o \in outcomes : o.fact # fact
  BY DEF TrackerInv, OutcomesAreConsumed
<1> HIDE DEF new
<1>4. TrackerTypeOK'
  BY <1>1, <1>2 DEF TrackerInv, TrackerTypeOK
<1>5. WindowBelongsToEpisode'
  BY <1>1 DEF WindowBelongsToEpisode
<1>6. OutcomesAreConsumed'
  BY <1>1, <1>2 DEF TrackerInv, OutcomesAreConsumed
<1>7. OneOutcomePerFact'
  BY <1>1, <1>2, <1>3 DEF TrackerInv, OneOutcomePerFact
<1> QED BY <1>1, <1>2, <1>3, <1>4, <1>5, <1>6, <1>7 DEF TrackerInv

\* A reply or a rejection is a feedback fact, and no feedback fact is an expiration.
LEMMA FactKinds ==
    /\ \A r \in Reply : FactId(r) \in FeedbackIds /\ r.at \in Nat
    /\ \A r \in Rejection : FactId(r) \in FeedbackIds /\ r.at \in Nat
    /\ FeedbackIds \subseteq FactIds
    /\ \A f \in FeedbackIds : \A t : f # <<"RESPONSE_WINDOW_EXPIRED", t>>
<1> USE TrackerAssumption DEF Time
<1>1. \A r \in Reply : FactId(r) \in FeedbackIds /\ r.at \in Nat
  BY DEF Reply, FactId, FeedbackIds
<1>2. \A r \in Rejection : FactId(r) \in FeedbackIds /\ r.at \in Nat
  BY DEF Rejection, FactId, FeedbackIds
<1>3. FeedbackIds \subseteq FactIds
  BY DEF FactIds
<1>4. \A f \in FeedbackIds : \A t : f # <<"RESPONSE_WINDOW_EXPIRED", t>>
  BY DEF FeedbackIds
<1> QED BY <1>1, <1>2, <1>3, <1>4

\* What a step owes when it gives up the active episode.
Accounted == active' # active =>
    active' = None /\ window' = None /\ \E o \in outcomes' \ outcomes : o.episode = active.id

\* Expire keeps the invariant and accounts for the episode it ends.
LEMMA ExpireInv ==
    ASSUME TrackerInv, NEW id, NEW x \in Expiration, Expire(id, x)
    PROVE  TrackerInv' /\ Accounted
<1>1. CASE ExpireEnds(id, x)
  <2> DEFINE fact == <<"RESPONSE_WINDOW_EXPIRED", x.token>>
  <2>1. /\ EndActive("NO_RESPONSE", fact, x.at)
        /\ expirations' = expirations \cup {x} /\ feedback' = feedback
    BY <1>1 DEF Expire
  <2>2. active # None /\ \A y \in expirations : y.token # x.token
    BY <1>1 DEF ExpireEnds, Correlated, ExpirationUsed
  <2>3. fact \in FactIds /\ x.at \in Nat
    BY DEF FactIds, Expiration
  <2>4. feedback \subseteq FeedbackIds /\ expirations \subseteq Expiration
    BY DEF TrackerInv, TrackerTypeOK
  <2>5. fact \notin feedback
    BY <2>4, FactKinds
  <2>6. \A y \in expirations : fact # <<"RESPONSE_WINDOW_EXPIRED", y.token>>
    BY <2>2
  <2>7. \E y \in expirations' : fact = <<"RESPONSE_WINDOW_EXPIRED", y.token>>
    BY <2>1
  <2> HIDE DEF fact
  <2> QED BY <2>1, <2>2, <2>3, <2>4, <2>5, <2>6, <2>7, EndActiveInv DEF Accounted
<1>2. CASE ~ExpireEnds(id, x)
  BY <1>2 DEF Expire, trackerVars, TrackerInv, TrackerTypeOK, WindowBelongsToEpisode,
              OutcomesAreConsumed, OneOutcomePerFact, Accounted
<1> QED BY <1>1, <1>2

\* Consuming a feedback fact without ending an episode keeps the invariant.
LEMMA RememberInv ==
    ASSUME TrackerInv, feedback' \subseteq FeedbackIds, feedback \subseteq feedback',
           UNCHANGED <<active, window, expirations, outcomes>>
    PROVE  TrackerInv' /\ Accounted
<1>1. TrackerTypeOK' /\ WindowBelongsToEpisode' /\ Accounted
  BY DEF TrackerInv, TrackerTypeOK, WindowBelongsToEpisode, Accounted
<1>2. OutcomesAreConsumed' /\ OneOutcomePerFact'
  BY DEF TrackerInv, OutcomesAreConsumed, OneOutcomePerFact
<1> QED BY <1>1, <1>2 DEF TrackerInv

\* A feedback fact that ends the episode was new, is remembered, and is accounted for.
LEMMA FeedbackEndInv ==
    ASSUME TrackerInv, active # None,
           NEW kind \in {"ACCEPTED", "REJECTED"}, NEW fact \in FeedbackIds, NEW at \in Nat,
           fact \notin feedback, feedback' = feedback \cup {fact},
           EndActive(kind, fact, at), UNCHANGED expirations
    PROVE  TrackerInv' /\ Accounted
<1>1. feedback \subseteq FeedbackIds /\ expirations \subseteq Expiration
  BY DEF TrackerInv, TrackerTypeOK
<1>2. \A x \in expirations : fact # <<"RESPONSE_WINDOW_EXPIRED", x.token>>
  BY FactKinds
<1>3. fact \in FactIds
  BY FactKinds
<1> QED BY <1>1, <1>2, <1>3, EndActiveInv DEF Accounted

\* Accept keeps the invariant and accounts for the episode it ends.
LEMMA AcceptInv ==
    ASSUME TrackerInv, NEW id, NEW r \in Reply, Accept(id, r)
    PROVE  TrackerInv' /\ Accounted
<1>1. FactId(r) \in FeedbackIds /\ r.at \in Nat
  BY FactKinds
<1>2. feedback \subseteq FeedbackIds
  BY DEF TrackerInv, TrackerTypeOK
<1>3. CASE AcceptEnds(id, r)
  <2>1. active # None /\ FactId(r) \notin feedback /\ ~AcceptFails(id)
    BY <1>3 DEF AcceptEnds, AcceptFails
  <2>2. /\ feedback' = feedback \cup {FactId(r)} /\ UNCHANGED expirations
        /\ EndActive("ACCEPTED", FactId(r), r.at)
    BY <1>3, <2>1 DEF Accept
  <2> QED BY <1>1, <2>1, <2>2, FeedbackEndInv
<1>4. CASE ~AcceptEnds(id, r)
  <2>1. /\ UNCHANGED <<active, window, expirations, outcomes>>
        /\ feedback' \in {feedback, feedback \cup {FactId(r)}}
    BY <1>4 DEF Accept
  <2> QED BY <1>1, <1>2, <2>1, RememberInv
<1> QED BY <1>3, <1>4

\* Reject keeps the invariant and accounts for the episode it ends.
LEMMA RejectInv ==
    ASSUME TrackerInv, NEW r \in Rejection, Reject(r)
    PROVE  TrackerInv' /\ Accounted
<1>1. FactId(r) \in FeedbackIds /\ r.at \in Nat
  BY FactKinds
<1>2. feedback \subseteq FeedbackIds /\ feedback' = feedback \cup {FactId(r)} /\ UNCHANGED expirations
  BY DEF TrackerInv, TrackerTypeOK, Reject
<1>3. CASE RejectEnds(r)
  <2>1. active # None /\ FactId(r) \notin feedback
    BY <1>3 DEF RejectEnds, RejectApplies
  <2>2. EndActive("REJECTED", FactId(r), r.at)
    BY <1>3 DEF Reject
  <2> QED BY <1>1, <1>2, <2>1, <2>2, FeedbackEndInv
<1>4. CASE ~RejectEnds(r)
  <2>1. UNCHANGED <<active, window, outcomes>>
    BY <1>4 DEF Reject
  <2> QED BY <1>1, <1>2, <2>1, RememberInv
<1> QED BY <1>3, <1>4

-----------------------------------------------------------------------------
\* Every step of an arbitrary caller keeps the invariant and accounts for the
\* episode it gives up.
LEMMA TrackerStep ==
    ASSUME TrackerInv, [TrackerNext]_trackerVars
    PROVE  TrackerInv' /\ (active # None => Accounted)
<1>1. ASSUME NEW e \in Episode, Start(e)
      PROVE  TrackerInv' /\ (active # None => Accounted)
  BY <1>1, StartInv DEF Start, Accounted
<1>2. ASSUME NEW id \in EpisodeIds, NEW token \in Tokens, NEW at \in Time, NEW duration \in Durations,
             OpenResponseWindow(id, token, at, duration)
      PROVE  TrackerInv' /\ (active # None => Accounted)
  <2>1. duration \in Nat
    BY TrackerAssumption
  <2> QED BY <1>2, <2>1, OpenInv DEF OpenResponseWindow, Accounted
<1>3. ASSUME NEW id \in EpisodeIds,
             NEW x \in [episode : EpisodeIds, token : Tokens, subject : Subjects, at : 1..(MaxTime + 1)],
             Expire(id, x)
      PROVE  TrackerInv' /\ (active # None => Accounted)
  <2>1. x \in Expiration
    BY TrackerAssumption DEF Expiration
  <2> QED BY <1>3, <2>1, ExpireInv
<1>4. ASSUME NEW id \in EpisodeIds, NEW r \in Reply, Accept(id, r)
      PROVE  TrackerInv' /\ (active # None => Accounted)
  BY <1>4, AcceptInv
<1>5. ASSUME NEW r \in Rejection, Reject(r)
      PROVE  TrackerInv' /\ (active # None => Accounted)
  BY <1>5, RejectInv
<1>6. CASE UNCHANGED trackerVars
  BY <1>6 DEF trackerVars, TrackerInv, TrackerTypeOK, WindowBelongsToEpisode,
              OutcomesAreConsumed, OneOutcomePerFact, Accounted
<1> QED BY <1>1, <1>2, <1>3, <1>4, <1>5, <1>6 DEF TrackerNext

\* The tracker's invariant holds of every behaviour: types, windows that belong
\* to their episode, outcomes only for consumed facts, one outcome per fact.
THEOREM TrackerInvariant == TrackerSpec => []TrackerInv
<1>1. TrackerInit => TrackerInv
  BY TrackerAssumption DEF TrackerInit, TrackerInv, TrackerTypeOK, WindowBelongsToEpisode,
                           OutcomesAreConsumed, OneOutcomePerFact
<1>2. TrackerInv /\ [TrackerNext]_trackerVars => TrackerInv'
  BY TrackerStep
<1> QED BY <1>1, <1>2, PTL DEF TrackerSpec

\* One reply, rejection or expiration ends at most one episode.
THEOREM TrackerOneOutcomePerFact == TrackerSpec => []OneOutcomePerFact
<1>1. TrackerInv => OneOutcomePerFact
  BY DEF TrackerInv
<1> QED BY <1>1, TrackerInvariant, PTL

\* No call drops or replaces an active episode: whenever an episode stops being
\* active, the same step reports a new outcome for it and closes its window.
THEOREM TrackerEpisodeEndsWithOutcome == TrackerSpec => EpisodeEndsWithOutcome
<1>1. TrackerInv /\ [TrackerNext]_trackerVars
        => [active # None /\ active' # active =>
              /\ active' = None /\ window' = None
              /\ \E o \in outcomes' \ outcomes : o.episode = active.id]_trackerVars
  BY TrackerStep DEF Accounted
<1> QED BY <1>1, TrackerInvariant, PTL DEF TrackerSpec, EpisodeEndsWithOutcome

-----------------------------------------------------------------------------
(* The engine                                                              *)

\* An episode is named after an observation that ingress has seen, and ingress
\* never lets an identity in twice: so an active episode has no outcome yet.
EpisodesAreFresh ==
    /\ \A o \in outcomes : o.episode \in seen
    /\ \A x \in expirations : \E o \in outcomes : o.episode = x.token
    /\ active # None =>
         /\ active.id \in seen
         /\ active.subject = Subject
         /\ \A o \in outcomes : o.episode # active.id

\* What a call in progress knows at the points where it waits.
CallInv ==
    /\ pc = "process" => arg \in Observation /\ arg.at <= now
    /\ pc = "advance" => arg \in Wakeup
    /\ pc \in {"plan", "before"} =>
         /\ arg \in Observation
         /\ arg.id \in seen
         /\ startedAt \in Time /\ startedAt <= now
         /\ arg.at <= startedAt /\ startedAt <= arg.at + TTL
         /\ ~HardGuard(world, arg.at)
    /\ pc = "plan" =>
         /\ active # None => active.id # arg.id
         /\ \A o \in outcomes : o.episode # arg.id
    /\ pc = "before" => active = NewEpisode /\ window = None

EngineInv ==
    /\ TrackerInv
    /\ EngineTypeOK
    /\ WindowCopiesAgree
    /\ EpisodesAreFresh
    /\ CallInv

-----------------------------------------------------------------------------
\* The engine starts in the invariant.
LEMMA EngineInitInv == EngineInit => EngineInv
<1> SUFFICES ASSUME EngineInit PROVE EngineInv
  OBVIOUS
<1> USE TrackerAssumption, EngineAssumption DEF EngineInit, TrackerInit
<1>1. TrackerTypeOK
  BY DEF TrackerTypeOK
<1>2. TrackerInv
  BY <1>1 DEF TrackerInv, WindowBelongsToEpisode, OutcomesAreConsumed, OneOutcomePerFact
<1>3. EngineTypeOK
  <2>1. now \in Time /\ startedAt \in Nat /\ seen \subseteq ObsIds
    BY DEF Time
  <2>2. lastSeq \in [Sources -> 0..MaxSeq]
    OBVIOUS
  <2>3. timeline \in [presence : {"unknown", "present", "absent"}, absentSince : Nat,
                      busy : {"unknown", "busy", "available"}, quiet : {"unknown", "quiet", "open"}]
    OBVIOUS
  <2>4. world \in [busy : BOOLEAN, quiet : BOOLEAN, rejectedAt : Nat, unansweredAt : Nat]
    OBVIOUS
  <2> QED BY <1>1, <2>1, <2>2, <2>3, <2>4 DEF EngineTypeOK
<1>4. WindowCopiesAgree /\ EpisodesAreFresh /\ CallInv
  BY DEF WindowCopiesAgree, EpisodesAreFresh, CallInv
<1> QED BY <1>2, <1>3, <1>4 DEF EngineInv

\* A step that leaves the tracker alone keeps the tracker's invariant.
LEMMA TrackerKept ==
    ASSUME TrackerInv, UNCHANGED trackerVars
    PROVE  TrackerInv'
BY DEF TrackerInv, trackerVars, TrackerTypeOK, WindowBelongsToEpisode, OutcomesAreConsumed,
       OneOutcomePerFact

\* A step that changes neither the tracker, the world nor the clock and leaves
\* the call where nothing is assumed of it keeps the invariant.
LEMMA ReturnInv ==
    ASSUME EngineInv, NEW e \in {"nil", "canceled", "error"}, Return(e),
           UNCHANGED <<trackerVars, stateVars, now, arg, startedAt, after, cancelled>>
    PROVE  EngineInv'
<1>1. TrackerInv'
  BY TrackerKept DEF EngineInv
<1>2. EngineTypeOK'
  BY <1>1 DEF EngineInv, EngineTypeOK, TrackerInv, Return, stateVars
<1>3. WindowCopiesAgree' /\ EpisodesAreFresh'
  BY DEF EngineInv, WindowCopiesAgree, EpisodesAreFresh, stateVars, trackerVars
<1>4. CallInv'
  BY DEF CallInv, Return
<1> QED BY <1>1, <1>2, <1>3, <1>4 DEF EngineInv

\* RefuseObservation, PlanFails, FailAction, FinishAfter and IgnoreWakeup only return.
LEMMA PlainReturns ==
    ASSUME EngineInv,
           RefuseObservation \/ PlanFails \/ FailAction \/ FinishAfter \/ IgnoreWakeup
    PROVE  EngineInv'
<1>1. CASE RefuseObservation
  BY <1>1, ReturnInv DEF RefuseObservation
<1>2. CASE PlanFails
  BY <1>2, ReturnInv DEF PlanFails
<1>3. CASE FailAction
  BY <1>3, ReturnInv DEF FailAction
<1>4. CASE FinishAfter
  BY <1>4, ReturnInv DEF FinishAfter
<1>5. CASE IgnoreWakeup
  BY <1>5, ReturnInv DEF IgnoreWakeup
<1> QED BY <1>1, <1>2, <1>3, <1>4, <1>5

\* The world and the timeline keep their types whatever is observed.
LEMMA ObserveType ==
    ASSUME EngineTypeOK, NEW o \in Observation
    PROVE  /\ TimelineAfter(o) \in
                [presence : {"unknown", "present", "absent"}, absentSince : Nat,
                 busy : {"unknown", "busy", "available"}, quiet : {"unknown", "quiet", "open"}]
           /\ \A k : Apply(k) \in [busy : BOOLEAN, quiet : BOOLEAN, rejectedAt : Nat, unansweredAt : Nat]
<1>1. o.at \in Nat /\ o.payload \in Payloads
  BY TrackerAssumption DEF Observation, Time
<1>2. TimelineAfter(o) \in
        [presence : {"unknown", "present", "absent"}, absentSince : Nat,
         busy : {"unknown", "busy", "available"}, quiet : {"unknown", "quiet", "open"}]
  BY <1>1 DEF EngineTypeOK, TimelineAfter, Payloads
<1>3. \A k : Apply(k) \in [busy : BOOLEAN, quiet : BOOLEAN, rejectedAt : Nat, unansweredAt : Nat]
  BY DEF EngineTypeOK, Apply
<1> QED BY <1>2, <1>3

\* Ingress keeps its types.
LEMMA IngestType ==
    ASSUME EngineTypeOK, NEW o \in Observation, Ingest(o)
    PROVE  /\ seen' \subseteq ObsIds
           /\ lastSeq' \in [Sources -> 0..MaxSeq]
<1>1. o.id \in ObsIds /\ o.source \in Sources /\ o.seq \in 0..MaxSeq
  BY EngineAssumption DEF Observation
<1> QED BY <1>1 DEF EngineTypeOK, Ingest

\* An admitted observation is well formed, fresh and not from the future.
LEMMA AdmittedFacts ==
    ASSUME EngineInv, Admitted
    PROVE  /\ arg \in Observation /\ arg.subject = Subject
           /\ arg.id \in ObsIds /\ arg.id \notin seen
           /\ arg.at \in Nat /\ arg.at <= now /\ now <= arg.at + TTL
<1>1. arg \in Observation /\ arg.at <= now /\ now \in Nat /\ arg.at \in Nat
  BY TrackerAssumption DEF EngineInv, CallInv, Admitted, EngineTypeOK, Time, Observation
<1>2. arg.subject = Subject /\ arg.id \notin seen /\ now <= arg.at + TTL /\ arg.id \in ObsIds
  BY <1>1, EngineAssumption DEF Admitted, Acceptable, Expired, Observation
<1> QED BY <1>1, <1>2

\* Recording an observation that starts nothing keeps the invariant.
LEMMA ObserveQuietlyInv ==
    ASSUME EngineInv, ObserveQuietly
    PROVE  EngineInv'
<1>1. arg \in Observation /\ Admitted
  BY AdmittedFacts DEF ObserveQuietly
<1>2. TrackerInv'
  BY TrackerKept DEF EngineInv, ObserveQuietly
<1>3. EngineTypeOK'
  BY <1>1, <1>2, ObserveType, IngestType DEF EngineInv, EngineTypeOK, TrackerInv, ObserveQuietly, Return
<1>4. WindowCopiesAgree'
  BY DEF EngineInv, WindowCopiesAgree, ObserveQuietly, trackerVars
<1>5. EpisodesAreFresh'
  BY DEF EngineInv, EpisodesAreFresh, ObserveQuietly, trackerVars, Ingest
<1>6. CallInv'
  BY DEF CallInv, ObserveQuietly, Return
<1> QED BY <1>2, <1>3, <1>4, <1>5, <1>6 DEF EngineInv

\* Deciding to greet keeps the invariant: the event was fresh, no guard vetoed
\* it, and its identity names no earlier episode.
LEMMA DecideGreetingInv ==
    ASSUME EngineInv, DecideGreeting
    PROVE  EngineInv'
<1>1. /\ arg \in Observation /\ Admitted
      /\ arg.at <= now /\ now <= arg.at + TTL /\ arg.id \notin seen /\ now \in Time
  BY AdmittedFacts DEF DecideGreeting, EngineInv, EngineTypeOK
<1>2. TrackerInv'
  BY TrackerKept DEF EngineInv, DecideGreeting
<1>3. EngineTypeOK'
  <2>1. startedAt' \in Nat
    BY <1>1, TrackerAssumption DEF DecideGreeting, Time
  <2> QED BY <1>1, <1>2, <2>1, ObserveType, IngestType
          DEF EngineInv, EngineTypeOK, TrackerInv, DecideGreeting
<1>4. WindowCopiesAgree'
  BY DEF EngineInv, WindowCopiesAgree, DecideGreeting, trackerVars
<1>5. EpisodesAreFresh'
  BY DEF EngineInv, EpisodesAreFresh, DecideGreeting, trackerVars, Ingest
<1>6. CallInv'
  <2>1. ~HardGuard(world, arg.at)'
    BY DEF DecideGreeting, Greets, HardGuard, InCooldown
  <2>2. /\ pc' = "plan" /\ arg' = arg /\ startedAt' = now /\ now' = now
        /\ seen' = seen \cup {arg.id} /\ outcomes' = outcomes /\ active' = active
    BY DEF DecideGreeting, Ingest, trackerVars
  <2>3. now <= now
    BY <1>1, TrackerAssumption DEF Time
  <2> QED BY <1>1, <2>1, <2>2, <2>3 DEF EngineInv, EpisodesAreFresh, CallInv
<1> QED BY <1>2, <1>3, <1>4, <1>5, <1>6 DEF EngineInv

\* Starting the episode keeps the invariant.
LEMMA StartEpisodeInv ==
    ASSUME EngineInv, NEW caps \in CapabilitySets, StartEpisode(caps)
    PROVE  EngineInv'
<1>1. /\ arg \in Observation /\ arg.id \in ObsIds /\ arg.id \in seen
      /\ startedAt \in Time /\ pending = None /\ window = None
      /\ pc = "plan"
  BY DEF EngineInv, CallInv, StartEpisode, WindowCopiesAgree, Observation
<1>2. NewEpisode \in Episode /\ NewEpisode.id = arg.id /\ NewEpisode.subject = Subject
  BY <1>1, EngineAssumption DEF NewEpisode, Episode, EpisodeIds
<1>3. NewEpisode # None
  BY <1>2, TrackerAssumption
<1>4. active' = NewEpisode /\ UNCHANGED <<window, outcomes, expirations>>
  BY <1>3 DEF StartEpisode, StartFails, Start
<1>5. TrackerInv'
  BY <1>2, StartInv DEF EngineInv, StartEpisode
<1>6. EngineTypeOK'
  <2>1. todo' \subseteq Actions /\ after' \subseteq AfterActions
    BY DEF StartEpisode, Actions
  <2> QED BY <1>5, <2>1 DEF EngineInv, EngineTypeOK, TrackerInv, StartEpisode, stateVars
<1>7. WindowCopiesAgree'
  BY <1>1, <1>4 DEF EngineInv, WindowCopiesAgree, StartEpisode, stateVars
<1>8. EpisodesAreFresh'
  BY <1>1, <1>2, <1>4 DEF EngineInv, EpisodesAreFresh, CallInv, StartEpisode, stateVars
<1>9. CallInv'
  <2>1. NewEpisode' = NewEpisode
    BY DEF NewEpisode, StartEpisode
  <2>2. HardGuard(world, arg.at)' <=> HardGuard(world, arg.at)
    BY DEF HardGuard, StartEpisode, stateVars
  <2> QED BY <1>1, <1>4, <2>1, <2>2 DEF EngineInv, CallInv, StartEpisode, stateVars
<1> QED BY <1>5, <1>6, <1>7, <1>8, <1>9 DEF EngineInv

\* Completing an action keeps the invariant.
LEMMA CompleteActionInv ==
    ASSUME EngineInv, CompleteAction
    PROVE  EngineInv'
<1>1. TrackerInv'
  BY TrackerKept DEF EngineInv, CompleteAction
<1>2. EngineTypeOK'
  BY <1>1 DEF EngineInv, EngineTypeOK, TrackerInv, CompleteAction, stateVars
<1>3. WindowCopiesAgree' /\ EpisodesAreFresh'
  BY DEF EngineInv, WindowCopiesAgree, EpisodesAreFresh, CompleteAction, stateVars, trackerVars
<1>4. CallInv'
  <2>1. NewEpisode' = NewEpisode
    BY DEF NewEpisode, CompleteAction
  <2>2. HardGuard(world, arg.at)' <=> HardGuard(world, arg.at)
    BY DEF HardGuard, CompleteAction, stateVars
  <2> QED BY <2>1, <2>2 DEF EngineInv, CallInv, CompleteAction, stateVars, trackerVars
<1> QED BY <1>1, <1>2, <1>3, <1>4 DEF EngineInv

\* A reply keeps the invariant: if it ends the episode, the continuation and
\* the published window go with the tracker's window.
LEMMA ObserveReplyInv ==
    ASSUME EngineInv, ObserveReply
    PROVE  EngineInv'
<1> DEFINE r == ReplyFact(arg)
<1>1. arg \in Observation /\ Admitted /\ r \in Reply
  BY AdmittedFacts DEF ObserveReply, ReplyFact, Reply, Observation
<1>2. TrackerInv'
  BY <1>1, TrackerKept, AcceptInv DEF EngineInv, ObserveReply
<1>3. \/ /\ UNCHANGED <<active, window, outcomes, expirations, pending, replyWindow>>
         /\ \E e \in {"nil", "error"} : Return(e)
      \/ /\ pending # None
         /\ EndActive("ACCEPTED", FactId(r), arg.at) /\ active # None /\ UNCHANGED expirations
         /\ pending' = None /\ replyWindow' = None
         /\ pc' = "after" /\ todo' = pending.after /\ err' = err
  <2>1. CASE pending = None
    BY <2>1 DEF ObserveReply, trackerVars
  <2>2. CASE pending # None /\ AcceptEnds(pending.episode, r)
    BY <2>2 DEF ObserveReply, Accept, AcceptEnds, AcceptFails, ReplyFact
  <2>3. CASE pending # None /\ ~AcceptEnds(pending.episode, r)
    BY <2>3 DEF ObserveReply, Accept
  <2> QED BY <2>1, <2>2, <2>3
<1>4. EngineTypeOK'
  <2>1. pending # None => pending.after \subseteq Actions
    BY DEF EngineInv, EngineTypeOK, Pending, Actions
  <2>2. pending' \in Pending \cup {None} /\ replyWindow' \in Acceptance \cup {None}
    BY <1>3 DEF EngineInv, EngineTypeOK
  <2>3. /\ pc' \in {"after", "returned"} /\ todo' \subseteq Actions
        /\ err' \in {"nil", "canceled", "error"}
    BY <1>3, <2>1 DEF EngineInv, EngineTypeOK, Return
  <2> QED BY <1>1, <1>2, <2>2, <2>3, IngestType DEF EngineInv, EngineTypeOK, TrackerInv, ObserveReply
<1>5. WindowCopiesAgree'
  BY <1>3 DEF EngineInv, WindowCopiesAgree, EndActive
<1>6. EpisodesAreFresh'
  <2>1. seen \subseteq seen'
    BY DEF ObserveReply, Ingest
  <2>2. \A o \in outcomes' : o \in outcomes \/ (active # None /\ o.episode = active.id /\ active' = None)
    BY <1>3 DEF EndActive
  <2>3. (active' = active /\ outcomes' = outcomes) \/ active' = None
    BY <1>3 DEF EndActive
  <2>4. outcomes \subseteq outcomes' /\ expirations' = expirations
    BY <1>3 DEF EndActive
  <2> QED BY <2>1, <2>2, <2>3, <2>4 DEF EngineInv, EpisodesAreFresh
<1>7. CallInv'
  BY <1>3 DEF CallInv, Return
<1> QED BY <1>2, <1>4, <1>5, <1>6, <1>7 DEF EngineInv

\* Opening the window keeps the invariant: tracker, continuation and published
\* window are set to the same instants.
LEMMA OpenWindowInv ==
    ASSUME EngineInv, OpenWindow
    PROVE  EngineInv'
<1> USE TrackerAssumption, EngineAssumption
<1>1. /\ arg \in Observation /\ arg.id \in Tokens /\ arg.id \in EpisodeIds
      /\ active = NewEpisode /\ window = None /\ pending = None /\ replyWindow = None
      /\ now \in Time /\ startedAt <= now /\ startedAt \in Time
  BY DEF EngineInv, CallInv, OpenWindow, WindowCopiesAgree, EngineTypeOK, Observation, Tokens,
         EpisodeIds
<1>2. NewEpisode \in Episode /\ NewEpisode.id = arg.id /\ NewEpisode.startedAt = startedAt
  BY <1>1 DEF NewEpisode, Episode, EpisodeIds
<1>3. NewEpisode # None
  BY <1>2
<1>4. ~OpenFails(arg.id, arg.id, now, WaitFor)
  BY <1>1, <1>2, <1>3 DEF OpenFails, Time
<1>5. /\ window' = [token |-> arg.id, openedAt |-> now, deadline |-> now + WaitFor]
      /\ pending' = [episode |-> arg.id, deadline |-> now + WaitFor, after |-> after]
      /\ replyWindow' = [openedAt |-> now, deadline |-> now + WaitFor]
      /\ UNCHANGED <<active, outcomes, expirations, seen, now>> /\ Return("nil")
  BY <1>4 DEF OpenWindow, OpenResponseWindow, NewWindow
<1>6. TrackerInv'
  BY <1>1, OpenInv DEF EngineInv, OpenWindow
<1>7. now + WaitFor \in Nat
  BY <1>1 DEF Time
<1>8. window' \in Window /\ pending' \in Pending /\ replyWindow' \in Acceptance
  BY <1>1, <1>5, <1>7 DEF Window, Pending, Acceptance, EngineInv, EngineTypeOK
<1>9. window' # None /\ pending' # None /\ replyWindow' # None
  BY <1>8, InputAssumption
<1>10. EngineTypeOK'
  BY <1>5, <1>6, <1>8 DEF EngineInv, EngineTypeOK, TrackerInv, OpenWindow, Return
<1>11. WindowCopiesAgree'
  BY <1>1, <1>2, <1>3, <1>5, <1>9 DEF WindowCopiesAgree
<1>12. EpisodesAreFresh'
  BY <1>5 DEF EngineInv, EpisodesAreFresh
<1>13. CallInv'
  BY <1>5 DEF CallInv, Return
<1> QED BY <1>6, <1>10, <1>11, <1>12, <1>13 DEF EngineInv

\* A due wakeup is always correlated with the tracker's window and unused, so
\* it never errs: it ends the episode at the deadline.
LEMMA DueWakeupEnds ==
    ASSUME EngineInv, pc = "advance", WakeupIsDue
    PROVE  /\ ExpirationFact \in Expiration
           /\ ExpirationFact.at = window.deadline /\ window.deadline <= now
           /\ ExpirationFact.token = active.id
           /\ ExpireEnds(pending.episode, ExpirationFact)
<1>1. pending \in Pending /\ arg \in Wakeup /\ arg = [token |-> pending.episode, deadline |-> pending.deadline]
  BY DEF EngineInv, EngineTypeOK, CallInv, WakeupIsDue, NextWakeup
<1>2. ExpirationFact \in Expiration
  BY <1>1, EngineAssumption DEF ExpirationFact, Expiration, Pending, Wakeup, Tokens
<1>3. /\ active # None /\ window # None /\ pending.episode = active.id
      /\ window.token = pending.episode /\ window.deadline = pending.deadline
      /\ active.subject = Subject
  BY DEF EngineInv, WindowCopiesAgree, WakeupIsDue, EpisodesAreFresh
<1>4. now >= pending.deadline /\ now \in Nat /\ pending.deadline \in Nat
  BY <1>1, TrackerAssumption DEF WakeupIsDue, EngineInv, EngineTypeOK, Time, Pending
<1>5. ~ExpirationUsed(ExpirationFact)
  BY <1>1, <1>3 DEF ExpirationUsed, ExpirationFact, EngineInv, EpisodesAreFresh
<1>6. ExpirationFact.at = window.deadline /\ window.deadline <= window.deadline
  BY <1>1, <1>3, <1>4 DEF ExpirationFact
<1> QED BY <1>1, <1>2, <1>3, <1>4, <1>5, <1>6 DEF ExpirationFact, Correlated, ExpireEnds

\* Expiration keeps the invariant.
LEMMA ExpireWindowInv ==
    ASSUME EngineInv, ExpireWindow
    PROVE  EngineInv'
<1> DEFINE x == ExpirationFact
<1>1. /\ x \in Expiration /\ ExpireEnds(pending.episode, x) /\ pending \in Pending
      /\ x.token = active.id
  BY DueWakeupEnds DEF ExpireWindow, WakeupIsDue, EngineInv, EngineTypeOK
<1>2. TrackerInv'
  BY <1>1, ExpireInv DEF EngineInv, ExpireWindow
<1>3. /\ outcomes' = outcomes \cup {[episode |-> active.id, kind |-> "NO_RESPONSE",
                fact |-> <<"RESPONSE_WINDOW_EXPIRED", x.token>>, at |-> x.at]}
      /\ active' = None /\ window' = None /\ active # None
      /\ expirations' = expirations \cup {x}
      /\ pending' = None /\ replyWindow' = None /\ world' = ApplyNoResponse(arg.deadline)
      /\ pc' = "after" /\ todo' = pending.after /\ err' = err
  BY <1>1 DEF ExpireWindow, Expire, ExpireEnds, EndActive, Correlated
<1>4. EngineTypeOK'
  <2>1. arg \in Wakeup
    BY DEF EngineInv, CallInv, ExpireWindow
  <2>2. arg.deadline \in Nat /\ pending.after \subseteq Actions
    BY <1>1, <2>1 DEF Wakeup, Pending, Actions
  <2>3. world' \in [busy : BOOLEAN, quiet : BOOLEAN, rejectedAt : Nat, unansweredAt : Nat]
    BY <1>3, <2>2 DEF EngineInv, EngineTypeOK, ApplyNoResponse
  <2>4. /\ pc' \in {"after", "returned"} /\ todo' \subseteq Actions
        /\ err' \in {"nil", "canceled", "error"}
    BY <1>3, <2>2 DEF EngineInv, EngineTypeOK, Return
  <2>5. pending' \in Pending \cup {None} /\ replyWindow' \in Acceptance \cup {None}
    BY <1>3 DEF EngineInv, EngineTypeOK
  <2> QED BY <1>2, <2>3, <2>4, <2>5 DEF EngineInv, EngineTypeOK, TrackerInv, ExpireWindow
<1>5. WindowCopiesAgree'
  BY <1>3 DEF EngineInv, WindowCopiesAgree
<1>6. EpisodesAreFresh'
  <2>1. seen' = seen
    BY DEF ExpireWindow
  <2>2. \A o \in outcomes' : o.episode \in seen'
    BY <1>3, <2>1 DEF EngineInv, EpisodesAreFresh
  <2>3. \E o \in outcomes' : o.episode = x.token
    <3> DEFINE o == [episode |-> active.id, kind |-> "NO_RESPONSE",
                     fact |-> <<"RESPONSE_WINDOW_EXPIRED", x.token>>, at |-> x.at]
    <3>1. o \in outcomes' /\ o.episode = active.id
      BY <1>3
    <3> QED BY <1>1, <3>1
  <2>4. \A y \in expirations : \E o \in outcomes' : o.episode = y.token
    BY <1>3 DEF EngineInv, EpisodesAreFresh
  <2> QED BY <1>3, <2>2, <2>3, <2>4 DEF EpisodesAreFresh
<1>7. CallInv'
  BY <1>3 DEF CallInv
<1> QED BY <1>2, <1>4, <1>5, <1>6, <1>7 DEF EngineInv

\* Committing a rejection between calls keeps the invariant.
LEMMA CallCommitInv ==
    ASSUME EngineInv, NEW c \in [id : ControlIds, subject : Subjects, at : Time], CallCommit(c)
    PROVE  EngineInv'
<1> DEFINE r == RejectionFact(c)
<1>1. r \in Rejection /\ c.at \in Nat /\ r.at = c.at
  BY TrackerAssumption DEF RejectionFact, Rejection, Time
<1>2. TrackerInv'
  BY <1>1, TrackerKept, RejectInv DEF EngineInv, CallCommit, CommitUserRejection
<1>3. \/ /\ UNCHANGED <<active, window, outcomes, expirations, pending, replyWindow>>
         /\ world' = world \/ world' = ApplyUserRejection(c.at)
      \/ /\ EndActive("REJECTED", FactId(r), c.at) /\ active # None /\ UNCHANGED expirations
         /\ IF pending # None /\ pending.episode = active.id
            THEN pending' = None /\ replyWindow' = None
            ELSE UNCHANGED <<pending, replyWindow>>
         /\ world' = ApplyUserRejection(c.at)
  <2>1. CASE c.subject # Subject \/ ~RejectApplies(r)
    BY <2>1 DEF CallCommit, CommitUserRejection, trackerVars
  <2>2. CASE ~(c.subject # Subject \/ ~RejectApplies(r)) /\ RejectEnds(r)
    BY <2>2, <1>1 DEF CallCommit, CommitUserRejection, Reject, RejectEnds
  <2>3. CASE ~(c.subject # Subject \/ ~RejectApplies(r)) /\ ~RejectEnds(r)
    BY <2>3 DEF CallCommit, CommitUserRejection, Reject
  <2> QED BY <2>1, <2>2, <2>3
<1>4. EngineTypeOK'
  <2>1. world' \in [busy : BOOLEAN, quiet : BOOLEAN, rejectedAt : Nat, unansweredAt : Nat]
    BY <1>1, <1>3 DEF EngineInv, EngineTypeOK, ApplyUserRejection
  <2>2. pending' \in Pending \cup {None} /\ replyWindow' \in Acceptance \cup {None}
    BY <1>3 DEF EngineInv, EngineTypeOK
  <2> QED BY <1>2, <2>1, <2>2
          DEF EngineInv, EngineTypeOK, TrackerInv, CallCommit, CommitUserRejection, callVars
<1>5. WindowCopiesAgree'
  BY <1>3 DEF EngineInv, WindowCopiesAgree, EndActive
<1>6. EpisodesAreFresh'
  <2>1. seen' = seen
    BY DEF CallCommit, CommitUserRejection
  <2>2. \A o \in outcomes' : o \in outcomes \/ (active # None /\ o.episode = active.id /\ active' = None)
    BY <1>3 DEF EndActive
  <2>3. (active' = active /\ outcomes' = outcomes) \/ active' = None
    BY <1>3 DEF EndActive
  <2>4. outcomes \subseteq outcomes' /\ expirations' = expirations
    BY <1>3 DEF EndActive
  <2> QED BY <2>1, <2>2, <2>3, <2>4 DEF EngineInv, EpisodesAreFresh
<1>7. CallInv'
  BY DEF CallInv, CallCommit, callVars
<1> QED BY <1>2, <1>4, <1>5, <1>6, <1>7 DEF EngineInv

\* The caller's steps and the clock keep the invariant.
LEMMA CallerInv ==
    ASSUME EngineInv,
           \/ \E o \in Inputs : CallProcess(o)
           \/ \E token \in Tokens, deadline \in 1..(MaxTime + WaitFor), over \in BOOLEAN :
                CallAdvanceAt([token |-> token, deadline |-> deadline], over)
           \/ CancelCall
           \/ TakeResult /\ UNCHANGED <<trackerVars, stateVars, now>>
           \/ Tick /\ UNCHANGED <<trackerVars, stateVars, callVars>>
    PROVE  EngineInv'
<1>1. UNCHANGED <<trackerVars, stateVars>>
  BY DEF CallProcess, CallAdvanceAt, Call, CancelCall
<1>2. TrackerInv'
  BY <1>1, TrackerKept DEF EngineInv
<1>3. WindowCopiesAgree' /\ EpisodesAreFresh'
  BY <1>1 DEF EngineInv, WindowCopiesAgree, EpisodesAreFresh, stateVars, trackerVars
<1>4. now \in Nat /\ startedAt \in Nat
  BY TrackerAssumption DEF EngineInv, EngineTypeOK, Time
<1>5. CASE \E o \in Inputs : CallProcess(o)
  <2>1. PICK o \in Inputs : CallProcess(o)
    BY <1>5
  <2>2. o \in Observation
    BY InputAssumption
  <2>3. EngineTypeOK' /\ CallInv'
    BY <1>1, <1>2, <2>1, <2>2 DEF EngineInv, EngineTypeOK, CallInv, TrackerInv, CallProcess, Call, stateVars
  <2> QED BY <1>2, <1>3, <2>3 DEF EngineInv
<1>6. CASE \E token \in Tokens, deadline \in 1..(MaxTime + WaitFor), over \in BOOLEAN :
             CallAdvanceAt([token |-> token, deadline |-> deadline], over)
  <2>1. PICK token \in Tokens, deadline \in 1..(MaxTime + WaitFor), over \in BOOLEAN :
          CallAdvanceAt([token |-> token, deadline |-> deadline], over)
    BY <1>6
  <2>2. [token |-> token, deadline |-> deadline] \in Wakeup
    BY TrackerAssumption, EngineAssumption DEF Wakeup
  <2>3. EngineTypeOK' /\ CallInv'
    BY <1>1, <1>2, <2>1, <2>2 DEF EngineInv, EngineTypeOK, CallInv, TrackerInv, CallAdvanceAt, Call, stateVars
  <2> QED BY <1>2, <1>3, <2>3 DEF EngineInv
<1>7. CASE CancelCall
  <2>1. NewEpisode' = NewEpisode
    BY <1>7 DEF NewEpisode, CancelCall
  <2>2. HardGuard(world, arg.at)' <=> HardGuard(world, arg.at)
    BY <1>7 DEF HardGuard, CancelCall, stateVars
  <2>3. EngineTypeOK' /\ CallInv'
    BY <1>2, <1>7, <2>1, <2>2
       DEF EngineInv, EngineTypeOK, CallInv, TrackerInv, CancelCall, stateVars, trackerVars
  <2> QED BY <1>2, <1>3, <2>3 DEF EngineInv
<1>8. CASE TakeResult /\ UNCHANGED <<trackerVars, stateVars, now>>
  <2>1. EngineTypeOK' /\ CallInv'
    BY <1>2, <1>8 DEF EngineInv, EngineTypeOK, CallInv, TrackerInv, TakeResult, stateVars
  <2> QED BY <1>2, <1>3, <2>1 DEF EngineInv
<1>9. CASE Tick /\ UNCHANGED <<trackerVars, stateVars, callVars>>
  <2>1. now' = now + 1 /\ now' \in Time
    BY <1>9, <1>4, TrackerAssumption DEF Tick, Time
  <2>2. EngineTypeOK'
    BY <1>2, <1>9, <2>1 DEF EngineInv, EngineTypeOK, TrackerInv, stateVars, callVars
  <2>3. NewEpisode' = NewEpisode
    BY <1>9 DEF NewEpisode, callVars
  <2>4. HardGuard(world, arg.at)' <=> HardGuard(world, arg.at)
    BY <1>9 DEF HardGuard, callVars, stateVars
  <2>5. arg \in Observation => arg.at \in Nat
    BY TrackerAssumption DEF Observation, Time
  <2>6. CallInv'
    BY <1>4, <1>9, <2>1, <2>3, <2>4, <2>5 DEF EngineInv, CallInv, callVars, stateVars, trackerVars
  <2> QED BY <1>2, <1>3, <2>2, <2>6 DEF EngineInv
<1> QED BY <1>5, <1>6, <1>7, <1>8, <1>9

\* Every step of the engine under a sequential caller keeps the invariant.
LEMMA EngineStep == EngineInv /\ [EngineNext]_engineVars => EngineInv'
<1> SUFFICES ASSUME EngineInv, [EngineNext]_engineVars PROVE EngineInv'
  OBVIOUS
<1>1. CASE UNCHANGED engineVars
  <2>1. TrackerInv'
    BY <1>1, TrackerKept DEF EngineInv, engineVars
  <2>2. NewEpisode' = NewEpisode /\ (HardGuard(world, arg.at)' <=> HardGuard(world, arg.at))
    BY <1>1 DEF NewEpisode, HardGuard, engineVars, stateVars, callVars
  <2>3. EngineTypeOK' /\ WindowCopiesAgree' /\ EpisodesAreFresh' /\ CallInv'
    BY <1>1, <2>1, <2>2 DEF EngineInv, EngineTypeOK, WindowCopiesAgree, EpisodesAreFresh, CallInv, TrackerInv,
                  engineVars, stateVars, callVars, trackerVars
  <2> QED BY <2>1, <2>3 DEF EngineInv
<1>2. CASE CallStep
  BY <1>2, PlainReturns, ObserveQuietlyInv, ObserveReplyInv, DecideGreetingInv, StartEpisodeInv,
     CompleteActionInv, OpenWindowInv, ExpireWindowInv DEF CallStep
<1>3. CASE \E c \in [id : ControlIds, subject : Subjects, at : Time] : CallCommit(c)
  BY <1>3, CallCommitInv
<1> QED BY <1>1, <1>2, <1>3, CallerInv DEF EngineNext

-----------------------------------------------------------------------------
(* What a step can do to the interaction                                   *)

StartsEpisode ==
    /\ active = None /\ active' # None /\ active'.id \in EpisodeIds
    /\ \A o \in outcomes : o.episode # active'.id
    /\ UNCHANGED <<window, outcomes>>

OpensWindow == active # None /\ window = None /\ window' # None /\ UNCHANGED <<active, outcomes>>

EndsEpisode(kind, fact, at) ==
    /\ active # None
    /\ EndActive(kind, fact, at)
    /\ kind = "ACCEPTED" => window # None /\ window.openedAt <= at /\ at < window.deadline
    /\ kind = "NO_RESPONSE" => window # None /\ at = window.deadline /\ now >= at
    /\ kind = "REJECTED" => active.startedAt <= at

\* Every step of the engine leaves the interaction alone, starts it, opens its
\* window, or ends it with an outcome that is timely.
LEMMA InteractionSteps ==
    ASSUME EngineInv, [EngineNext]_engineVars
    PROVE  \/ UNCHANGED <<active, window, outcomes>>
           \/ StartsEpisode
           \/ OpensWindow
           \/ \E kind \in {"ACCEPTED", "NO_RESPONSE", "REJECTED"} : \E fact, at : EndsEpisode(kind, fact, at)
<1> DEFINE Goal == \/ UNCHANGED <<active, window, outcomes>>
                   \/ StartsEpisode
                   \/ OpensWindow
                   \/ \E kind \in {"ACCEPTED", "NO_RESPONSE", "REJECTED"} : \E fact, at :
                        EndsEpisode(kind, fact, at)
<1> SUFFICES Goal
  OBVIOUS
<1>1. CASE UNCHANGED trackerVars
  BY <1>1 DEF trackerVars
<1>2. ASSUME NEW caps \in CapabilitySets, StartEpisode(caps) PROVE Goal
  <2>1. NewEpisode \in Episode /\ NewEpisode.id = arg.id /\ pc = "plan" /\ pending = None
    BY <1>2, EngineAssumption DEF EngineInv, CallInv, StartEpisode, NewEpisode, Episode, EpisodeIds, Observation
  <2>2. NewEpisode # None /\ NewEpisode.id \in EpisodeIds
    BY <2>1, TrackerAssumption DEF Episode
  <2>3. CASE active = None
    <3>1. active' = NewEpisode /\ UNCHANGED <<window, outcomes>>
      BY <1>2, <2>3 DEF StartEpisode, Start
    <3>2. StartsEpisode
      BY <2>1, <2>2, <2>3, <3>1 DEF EngineInv, CallInv, StartsEpisode
    <3> QED BY <3>2
  <2>4. CASE active # None
    BY <1>2, <2>4 DEF StartEpisode, Start
  <2> QED BY <2>3, <2>4
<1>3. CASE OpenWindow
  <2>1. active = NewEpisode /\ NewEpisode \in Episode /\ window = None
    BY <1>3, EngineAssumption DEF EngineInv, CallInv, OpenWindow, NewEpisode, Episode, EpisodeIds, Observation
  <2>2. active # None
    BY <2>1, TrackerAssumption
  <2>3. UNCHANGED <<active, outcomes>>
    BY <1>3 DEF OpenWindow, OpenResponseWindow
  <2> QED BY <2>1, <2>2, <2>3 DEF OpensWindow
<1>4. CASE ObserveReply
  <2> DEFINE r == ReplyFact(arg)
  <2>1. CASE pending # None /\ AcceptEnds(pending.episode, r)
    <3>1. EndActive("ACCEPTED", FactId(r), r.at)
      BY <1>4, <2>1 DEF ObserveReply, Accept
    <3>2. active # None /\ window # None /\ window.openedAt <= r.at /\ r.at < window.deadline
      BY <2>1 DEF AcceptEnds, AcceptFails
    <3>3. EndsEpisode("ACCEPTED", FactId(r), r.at)
      BY <3>1, <3>2 DEF EndsEpisode
    <3> QED BY <3>3
  <2>2. CASE ~(pending # None /\ AcceptEnds(pending.episode, r))
    BY <1>4, <2>2 DEF ObserveReply, Accept, trackerVars
  <2> QED BY <2>1, <2>2
<1>5. CASE ExpireWindow
  <2> DEFINE x == ExpirationFact
  <2>1. /\ x.at = window.deadline /\ window.deadline <= now
        /\ ExpireEnds(pending.episode, x)
    BY <1>5, DueWakeupEnds DEF ExpireWindow
  <2>2. active # None /\ window # None
    BY <2>1 DEF ExpireEnds, Correlated
  <2>3. window.deadline \in Nat /\ now \in Nat
    BY <2>2, TrackerAssumption DEF EngineInv, EngineTypeOK, TrackerTypeOK, Window, Time
  <2>4. EndActive("NO_RESPONSE", <<"RESPONSE_WINDOW_EXPIRED", x.token>>, x.at)
    BY <1>5, <2>1 DEF ExpireWindow, Expire
  <2>5. EndsEpisode("NO_RESPONSE", <<"RESPONSE_WINDOW_EXPIRED", x.token>>, x.at)
    BY <2>1, <2>2, <2>3, <2>4 DEF EndsEpisode
  <2> QED BY <2>5
<1>6. ASSUME NEW c \in [id : ControlIds, subject : Subjects, at : Time], CallCommit(c) PROVE Goal
  <2> DEFINE r == RejectionFact(c)
  <2>1. r.at = c.at /\ c.at \in Nat
    BY TrackerAssumption DEF RejectionFact, Time
  <2>2. CASE ~(c.subject # Subject \/ ~RejectApplies(r)) /\ RejectEnds(r)
    <3>1. EndActive("REJECTED", FactId(r), r.at) /\ active # None /\ r.at >= active.startedAt
      BY <1>6, <2>2 DEF CallCommit, CommitUserRejection, Reject, RejectEnds
    <3>2. active.startedAt \in Nat
      BY <3>1, TrackerAssumption DEF EngineInv, EngineTypeOK, TrackerTypeOK, Episode, Time
    <3>3. EndsEpisode("REJECTED", FactId(r), r.at)
      BY <2>1, <3>1, <3>2 DEF EndsEpisode
    <3> QED BY <3>3
  <2>3. CASE c.subject # Subject \/ ~RejectApplies(r) \/ ~RejectEnds(r)
    BY <1>6, <2>3 DEF CallCommit, CommitUserRejection, Reject, trackerVars
  <2> QED BY <2>2, <2>3
<1>7. CASE UNCHANGED engineVars
  BY <1>1, <1>7 DEF engineVars
<1>8. CASE CallStep
  BY <1>1, <1>2, <1>3, <1>4, <1>5, <1>8
     DEF CallStep, RefuseObservation, ObserveQuietly, DecideGreeting, PlanFails, CompleteAction,
         FailAction, FinishAfter, IgnoreWakeup
<1>9. CASE EngineNext /\ ~CallStep /\ ~\E c \in [id : ControlIds, subject : Subjects, at : Time] : CallCommit(c)
  BY <1>1, <1>9 DEF EngineNext, CallProcess, CallAdvanceAt, Call, CancelCall
<1> QED BY <1>6, <1>7, <1>8, <1>9

-----------------------------------------------------------------------------
\* The engine keeps its invariant under every sequential caller, for every
\* instance: types, tracker promises, fresh episode identities, agreeing windows.
THEOREM EngineInvariant == EngineSpec => []EngineInv
BY EngineInitInv, EngineStep, PTL DEF EngineSpec

\* The tracker's window, the engine's continuation and the window published to
\* the input adapters always agree.
THEOREM EngineWindowCopiesAgree == EngineSpec => []WindowCopiesAgree
<1>1. EngineInv => WindowCopiesAgree
  BY DEF EngineInv
<1> QED BY <1>1, EngineInvariant, PTL

\* A due wakeup always ends the episode: AdvanceAt never fails on it and never
\* leaves the continuation behind.
THEOREM EngineDueWakeupExpires == EngineSpec => []DueWakeupExpires
<1>1. EngineInv => DueWakeupExpires
  BY DueWakeupEnds DEF DueWakeupExpires
<1> QED BY <1>1, EngineInvariant, PTL

\* A greeting in progress was started outside both cooldowns, or within TTL of
\* the start of one, by a return observed before it.
THEOREM EngineGreetingRespectsCooldowns == EngineSpec => []GreetingRespectsCooldowns
<1>1. EngineInv => GreetingRespectsCooldowns
  <2> SUFFICES ASSUME EngineInv, pc = "before" PROVE GreetingRespectsCooldowns
    BY DEF GreetingRespectsCooldowns
  <2>1. /\ active.startedAt = startedAt /\ startedAt \in Nat /\ arg.at \in Nat
        /\ arg.at <= startedAt /\ startedAt <= arg.at + TTL
    BY TrackerAssumption DEF EngineInv, CallInv, NewEpisode, Time, Observation
  <2>2. ASSUME NEW start \in Nat, NEW length \in Nat, start # 0, ~InCooldown(start, length, arg.at)
        PROVE  active.startedAt < start + TTL \/ active.startedAt >= start + length
    BY <2>1, <2>2, EngineAssumption DEF InCooldown
  <2>3. world.rejectedAt \in Nat /\ world.unansweredAt \in Nat
    BY DEF EngineInv, EngineTypeOK
  <2>4. /\ ~InCooldown(world.rejectedAt, RejectionCooldown, arg.at)
        /\ ~InCooldown(world.unansweredAt, NoResponseCooldown, arg.at)
    BY DEF EngineInv, CallInv, HardGuard
  <2> QED BY <2>2, <2>3, <2>4, EngineAssumption DEF GreetingRespectsCooldowns
<1> QED BY <1>1, EngineInvariant, PTL

\* Every outcome is timely: a reply inside the window, silence at the deadline
\* and not before it, a rejection not before the episode.
THEOREM EngineOutcomesAreTimely == EngineSpec => OutcomesAreTimely
<1> DEFINE Timely == \A o \in outcomes' \ outcomes :
         /\ o.episode = active.id
         /\ o.kind = "ACCEPTED" => window.openedAt <= o.at /\ o.at < window.deadline
         /\ o.kind = "NO_RESPONSE" => o.at = window.deadline /\ now >= o.at
         /\ o.kind = "REJECTED" => active.startedAt <= o.at
<1>1. EngineInv /\ [EngineNext]_engineVars => [Timely]_engineVars
  <2> SUFFICES ASSUME EngineInv, [EngineNext]_engineVars PROVE Timely
    OBVIOUS
  <2>1. CASE outcomes' = outcomes
    BY <2>1
  <2>2. ASSUME NEW kind \in {"ACCEPTED", "NO_RESPONSE", "REJECTED"}, NEW fact, NEW at,
               EndsEpisode(kind, fact, at)
        PROVE  Timely
    <3> DEFINE o == [episode |-> active.id, kind |-> kind, fact |-> fact, at |-> at]
    <3>1. outcomes' \ outcomes \subseteq {o}
      BY <2>2 DEF EndsEpisode, EndActive
    <3>2. o.episode = active.id /\ o.kind = kind /\ o.at = at
      OBVIOUS
    <3>3. /\ o.episode = active.id
          /\ o.kind = "ACCEPTED" => window.openedAt <= o.at /\ o.at < window.deadline
          /\ o.kind = "NO_RESPONSE" => o.at = window.deadline /\ now >= o.at
          /\ o.kind = "REJECTED" => active.startedAt <= o.at
      BY <2>2, <3>2 DEF EndsEpisode
    <3> HIDE DEF o
    <3> QED BY <3>1, <3>3
  <2> QED BY <2>1, <2>2, InteractionSteps DEF StartsEpisode, OpensWindow
<1> QED BY <1>1, EngineInvariant, PTL DEF EngineSpec, OutcomesAreTimely

\* The engine implements the interaction lifecycle.
THEOREM EngineImplementsLifecycle == EngineSpec => ImplementsLifecycle
<1> DEFINE Current == IF active = None THEN None ELSE active.id
           Ended   == {<<o.episode, o.kind>> : o \in outcomes}
<1>1. EngineInit => Lifecycle!Init
  BY DEF EngineInit, TrackerInit, Lifecycle!Init
<1>2. EngineInv /\ [EngineNext]_engineVars => [Lifecycle!Next]_Lifecycle!vars
  <2> SUFFICES ASSUME EngineInv, [EngineNext]_engineVars PROVE [Lifecycle!Next]_Lifecycle!vars
    OBVIOUS
  <2>0. (active # None => active.id # None) /\ None \notin EpisodeIds
    BY TrackerAssumption DEF EngineInv, EngineTypeOK, TrackerTypeOK, Episode, EpisodeIds
  <2>1. CASE UNCHANGED <<active, window, outcomes>>
    BY <2>1 DEF Lifecycle!vars
  <2>2. CASE StartsEpisode
    <3>1. Lifecycle!Start(active'.id)
      BY <2>0, <2>2 DEF StartsEpisode, Lifecycle!Start, Lifecycle!Ended, Lifecycle!OutcomeKinds
    <3>2. active'.id \in EpisodeIds
      BY <2>2 DEF StartsEpisode
    <3> QED BY <3>1, <3>2 DEF Lifecycle!Next
  <2>3. CASE OpensWindow
    <3>1. Lifecycle!OpenWindow
      BY <2>0, <2>3 DEF OpensWindow, Lifecycle!OpenWindow
    <3> QED BY <3>1 DEF Lifecycle!Next
  <2>4. ASSUME NEW kind \in {"ACCEPTED", "NO_RESPONSE", "REJECTED"}, NEW fact, NEW at,
               EndsEpisode(kind, fact, at)
        PROVE  [Lifecycle!Next]_Lifecycle!vars
    <3> DEFINE o == [episode |-> active.id, kind |-> kind, fact |-> fact, at |-> at]
    <3>1. outcomes' = outcomes \cup {o} /\ active # None /\ active' = None /\ window' = None
      BY <2>4 DEF EndsEpisode, EndActive
    <3>2. <<o.episode, o.kind>> = <<active.id, kind>>
      OBVIOUS
    <3>3. Ended' = Ended \cup {<<active.id, kind>>}
      <4> HIDE DEF o
      <4> QED BY <3>1, <3>2
    <3>4. kind \in {"ACCEPTED", "NO_RESPONSE"} => window # None
      BY <2>4 DEF EndsEpisode
    <3>5. Lifecycle!End(kind)
      BY <2>0, <3>1, <3>3, <3>4 DEF Lifecycle!End
    <3> QED BY <3>5 DEF Lifecycle!Next, Lifecycle!OutcomeKinds
  <2> QED BY <2>1, <2>2, <2>3, <2>4, InteractionSteps
<1> QED BY <1>1, <1>2, EngineInvariant, PTL DEF EngineSpec, ImplementsLifecycle, Lifecycle!Spec

\* A step of the engine is one call of the tracker, with arguments the tracker's
\* own specification allows, or none.
LEMMA StepIsTrackerStep ==
    ASSUME EngineInv, [EngineNext]_engineVars
    PROVE  [TrackerNext]_trackerVars
<1>1. CASE UNCHANGED trackerVars
  BY <1>1
<1>2. ASSUME NEW caps \in CapabilitySets, StartEpisode(caps) PROVE TrackerNext
  <2>1. NewEpisode \in Episode
    BY <1>2, EngineAssumption DEF EngineInv, CallInv, StartEpisode, NewEpisode, Episode, EpisodeIds, Observation
  <2> QED BY <1>2, <2>1 DEF StartEpisode, TrackerNext
<1>3. CASE OpenWindow
  <2>1. arg.id \in EpisodeIds /\ arg.id \in Tokens /\ now \in Time
    BY <1>3 DEF EngineInv, EngineTypeOK, CallInv, OpenWindow, EpisodeIds, Tokens, Observation
  <2> QED BY <1>3, <2>1, EngineAssumption DEF OpenWindow, TrackerNext
<1>4. CASE ObserveReply
  <2>1. CASE pending = None
    BY <1>1, <1>4, <2>1 DEF ObserveReply
  <2>2. CASE pending # None
    <3>1. pending.episode \in EpisodeIds /\ arg \in Observation
      BY <1>4, <2>2 DEF EngineInv, EngineTypeOK, CallInv, Pending, ObserveReply, Admitted
    <3>2. ReplyFact(arg) \in Reply
      BY <3>1 DEF ReplyFact, Reply, Observation
    <3> QED BY <1>4, <2>2, <3>1, <3>2 DEF ObserveReply, TrackerNext
  <2> QED BY <2>1, <2>2
<1>5. CASE ExpireWindow
  <2>1. pending # None /\ arg = NextWakeup /\ now >= arg.deadline /\ arg \in Wakeup
    BY <1>5 DEF ExpireWindow, WakeupIsDue, EngineInv, CallInv
  <2>2. /\ ExpirationFact.at = window.deadline /\ window.deadline <= now
        /\ ExpireEnds(pending.episode, ExpirationFact)
    BY <1>5, DueWakeupEnds DEF ExpireWindow
  <2>3. window # None
    BY <2>2 DEF ExpireEnds, Correlated
  <2>4. /\ window.openedAt \in Time /\ window.deadline \in Nat /\ now \in Time
        /\ window.openedAt < window.deadline
    BY <2>3 DEF EngineInv, EngineTypeOK, TrackerInv, TrackerTypeOK, WindowBelongsToEpisode, Window
  <2>5. ExpirationFact.at \in 1..(MaxTime + 1)
    BY <2>2, <2>4, TrackerAssumption DEF Time
  <2>6. pending.episode \in EpisodeIds /\ arg.token \in Tokens
    BY <2>1 DEF EngineInv, EngineTypeOK, Pending, Wakeup
  <2>7. ExpirationFact \in [episode : EpisodeIds, token : Tokens, subject : Subjects, at : 1..(MaxTime + 1)]
    BY <2>5, <2>6, EngineAssumption DEF ExpirationFact
  <2> QED BY <1>5, <2>6, <2>7 DEF ExpireWindow, TrackerNext
<1>6. ASSUME NEW c \in [id : ControlIds, subject : Subjects, at : Time], CallCommit(c)
      PROVE  [TrackerNext]_trackerVars
  <2>1. RejectionFact(c) \in Rejection
    BY DEF RejectionFact, Rejection
  <2>2. CASE c.subject # Subject \/ ~RejectApplies(RejectionFact(c))
    BY <1>1, <1>6, <2>2 DEF CallCommit, CommitUserRejection
  <2>3. CASE ~(c.subject # Subject \/ ~RejectApplies(RejectionFact(c)))
    BY <1>6, <2>1, <2>3 DEF CallCommit, CommitUserRejection, TrackerNext
  <2> QED BY <2>2, <2>3
<1>7. CASE UNCHANGED engineVars
  BY <1>1, <1>7 DEF engineVars
<1>8. CASE CallStep
  BY <1>1, <1>2, <1>3, <1>4, <1>5, <1>8
     DEF CallStep, RefuseObservation, ObserveQuietly, DecideGreeting, PlanFails, CompleteAction,
         FailAction, FinishAfter, IgnoreWakeup
<1>9. CASE EngineNext /\ ~CallStep /\ ~\E c \in [id : ControlIds, subject : Subjects, at : Time] : CallCommit(c)
  BY <1>1, <1>9 DEF EngineNext, CallProcess, CallAdvanceAt, Call, CancelCall
<1> QED BY <1>6, <1>7, <1>8, <1>9

\* The engine is a caller of the tracker as the tracker's specification describes
\* it: what is proved of the tracker on its own holds inside the engine.
THEOREM EngineUsesTracker == EngineSpec => TrackerSpec
<1>1. EngineInit => TrackerInit
  BY DEF EngineInit
<1>2. EngineInv /\ [EngineNext]_engineVars => [TrackerNext]_trackerVars
  BY StepIsTrackerStep
<1> QED BY <1>1, <1>2, EngineInvariant, PTL DEF EngineSpec, TrackerSpec

-----------------------------------------------------------------------------
(* The runner with its engine.                                             *)

\* Where the loop stands says whether a call is in flight and which request is
\* being handled; the call in flight is the work the loop has started.
LoopInv ==
    /\ work = None <=> pc = "idle"
    /\ work = "observation" => arg \in Inputs /\ arg.id \in submitted
    /\ work = "wakeup" => arg \in Wakeup
    /\ runPc \in {"idle", "select", "commit", "drain", "drainControls", "done"} => work = None
    /\ runPc \in {"busy", "join"} => work # None
    /\ request # None <=> runPc \in {"stop", "join", "commit"}

\* A deadline is a time plus the wait.
DeadlinesAreBounded ==
    /\ pending # None => pending.deadline \in 1..(MaxTime + WaitFor)
    /\ sched # None => sched.deadline \in 1..(MaxTime + WaitFor)

\* Only submitted requests are queued, handled or answered, none of them from
\* the future, and no identity is used for two commands.
RequestsAreSubmitted ==
    /\ \A i \in 1..Len(obsQ) : obsQ[i].id \in submitted /\ obsQ[i].at <= now
    /\ \A i \in 1..Len(ctlQ) : ctlQ[i] \in asked
    /\ request # None => request \in asked
    /\ \A c \in asked : c.id \in submitted /\ c.at <= now
    /\ \A c, d \in asked : c.id = d.id => c = d
    /\ \A r \in Requests \ submitted : answer[r] = "none"

\* The timer is armed for exactly the engine's continuation.
Armed == IF pending = None THEN sched = None
         ELSE /\ sched # None
              /\ sched.token = pending.episode
              /\ sched.deadline = pending.deadline

\* Between two pieces of work the timer is armed, not only when the loop blocks.
TimerFollows == work = None /\ runPc \in {"poll", "idle", "select"} => Armed

Queued(c) == \E i \in 1..Len(ctlQ) : ctlQ[i].id = c

\* A control that work has overtaken is never still queued where work may start.
OvertakenOnce ==
    \A c \in ControlIds :
        /\ overtaken[c] <= 1
        /\ c \notin submitted => overtaken[c] = 0
        /\ Queued(c) /\ runPc \in {"idle", "select"} => overtaken[c] = 0

InForce(c) == c.reason = "USER_REJECTED" /\ answer[c.id] \in {"nil", "stop"}

\* A rejection is consumed by the step that answers it; a greeting that is being
\* planned was decided after every rejection in force.
RejectionsAreAnswered ==
    /\ \A id \in ControlIds : <<"USER_REJECTED", id>> \in feedback => answer[id] # "none"
    /\ pc = "plan" => \A c \in asked : InForce(c) => startedAt >= c.at

RunnerInv ==
    /\ RunnerTypeOK /\ EngineInv /\ LoopInv /\ DeadlinesAreBounded /\ RequestsAreSubmitted
    /\ TimerFollows /\ OvertakenOnce /\ RejectionsAreAnswered /\ RejectionTakesEffect

-----------------------------------------------------------------------------
(* The engine's part of a step                                             *)

\* What a step of the running call does to the state the loop relies on.
LEMMA CallStepEffect ==
    ASSUME EngineInv, CallStep
    PROVE  /\ pc # "idle" /\ pc' # "idle"
           /\ arg' = arg /\ now' = now /\ cancelled' = cancelled
           /\ world'.rejectedAt = world.rejectedAt
           /\ pending' # None => pending' = pending \/ pending'.deadline = now + WaitFor
           /\ feedback' \subseteq feedback \cup ({"USER_REPLIED"} \X ObsIds)
           /\ active' # None => active' = active \/ (pc = "plan" /\ active'.startedAt = startedAt)
           /\ pc' = "plan" => startedAt' = now
<1> DEFINE Effect == /\ pc # "idle" /\ pc' # "idle"
                     /\ arg' = arg /\ now' = now /\ cancelled' = cancelled
                     /\ world'.rejectedAt = world.rejectedAt
                     /\ pending' # None => pending' = pending \/ pending'.deadline = now + WaitFor
                     /\ feedback' \subseteq feedback \cup ({"USER_REPLIED"} \X ObsIds)
                     /\ active' # None => active' = active \/ (pc = "plan" /\ active'.startedAt = startedAt)
                     /\ pc' = "plan" => startedAt' = now
<1> SUFFICES Effect
  OBVIOUS
<1>1. CASE RefuseObservation \/ PlanFails \/ CompleteAction \/ FailAction \/ FinishAfter \/ IgnoreWakeup
  BY <1>1 DEF RefuseObservation, PlanFails, CompleteAction, FailAction, FinishAfter, IgnoreWakeup, Return,
              trackerVars, stateVars
<1>2. CASE ObserveQuietly \/ DecideGreeting
  BY <1>2 DEF ObserveQuietly, DecideGreeting, Admitted, Return, trackerVars, Apply
<1>3. CASE ObserveReply
  <2>1. FactId(ReplyFact(arg)) \in {"USER_REPLIED"} \X ObsIds
    <3>1. arg \in Observation
      BY <1>3 DEF ObserveReply, Admitted, EngineInv, CallInv
    <3> QED BY <3>1 DEF FactId, ReplyFact, Observation
  <2>2. feedback' \subseteq feedback \cup ({"USER_REPLIED"} \X ObsIds)
    BY <1>3, <2>1 DEF ObserveReply, Accept, trackerVars
  <2>3. active' # None => active' = active
    BY <1>3 DEF ObserveReply, Accept, EndActive, trackerVars
  <2> QED BY <1>3, <2>2, <2>3 DEF ObserveReply, Admitted, Return
<1>4. ASSUME NEW caps \in CapabilitySets, StartEpisode(caps) PROVE Effect
  <2>1. NewEpisode.startedAt = startedAt
    BY DEF NewEpisode
  <2> QED BY <1>4, <2>1 DEF StartEpisode, Start, stateVars
<1>5. CASE OpenWindow
  BY <1>5 DEF OpenWindow, OpenResponseWindow, Return
<1>6. CASE ExpireWindow
  <2>1. world'.rejectedAt = world.rejectedAt
    BY <1>6 DEF ExpireWindow, ApplyNoResponse, EngineInv, EngineTypeOK
  <2> QED BY <1>6, <2>1 DEF ExpireWindow, Expire, EndActive, Return, trackerVars
<1> QED BY <1>1, <1>2, <1>3, <1>4, <1>5, <1>6 DEF CallStep

\* A rejection is committed by its identity, subject and time, whatever else the
\* command carries.
LEMMA CommitIsCall ==
    ASSUME NEW c \in Command, pc = "idle", c.at <= now, CommitUserRejection(c), UNCHANGED <<callVars, now>>
    PROVE  EngineNext
<1> DEFINE d == [id |-> c.id, subject |-> c.subject, at |-> c.at]
<1>1. d \in [id : ControlIds, subject : Subjects, at : Time]
  BY DEF Command
<1>2. RejectionFact(d) = RejectionFact(c) /\ d.subject = c.subject /\ d.at = c.at
  BY DEF RejectionFact
<1>3. CallCommit(d)
  BY <1>2 DEF CallCommit, CommitUserRejection
<1> HIDE DEF d
<1> QED BY <1>1, <1>3 DEF EngineNext

\* Cancelling the work in flight is the engine's CancelCall, or nothing.
LEMMA CancelIsCall ==
    ASSUME NEW why \in BOOLEAN, why => pc \notin {"idle", "returned"},
           cancelled \in BOOLEAN, cancelled' = (cancelled \/ why),
           UNCHANGED <<trackerVars, stateVars, now, pc, arg, startedAt, todo, after, err>>
    PROVE  [EngineNext]_engineVars
<1>1. CASE why /\ ~cancelled
  BY <1>1 DEF EngineNext, CancelCall
<1>2. CASE ~(why /\ ~cancelled)
  BY <1>2 DEF engineVars, callVars
<1> QED BY <1>1, <1>2

\* Starting work is a call of the engine by a caller that has no other in flight.
LEMMA StartIsCall ==
    ASSUME RunnerInv, work = None,
           \/ obsQ # <<>> /\ StartObservation(Head(obsQ))
           \/ sched # None /\ StartWakeup
    PROVE  [EngineNext]_engineVars
<1>1. CASE obsQ # <<>> /\ StartObservation(Head(obsQ))
  <2>1. Head(obsQ) \in Inputs /\ Head(obsQ).at <= now
    <3>1. obsQ \in Seq(Inputs)
      BY DEF RunnerInv, RunnerTypeOK
    <3>2. Head(obsQ) = obsQ[1] /\ 1 \in 1..Len(obsQ) /\ Head(obsQ) \in Inputs
      BY <1>1, <3>1
    <3> QED BY <3>2 DEF RunnerInv, RequestsAreSubmitted
  <2>2. CASE Head(obsQ).id \in ctxDone
    BY <1>1, <2>2 DEF StartObservation
  <2>3. CASE Head(obsQ).id \notin ctxDone
    <3>1. CallProcess(Head(obsQ))
      BY <1>1, <2>1, <2>3 DEF StartObservation, CallProcess
    <3> QED BY <2>1, <3>1 DEF EngineNext
  <2> QED BY <2>2, <2>3
<1>2. CASE sched # None /\ StartWakeup
  <2>1. sched.token \in Tokens /\ sched.deadline \in 1..(MaxTime + WaitFor) /\ runCtxDone \in BOOLEAN
    BY <1>2 DEF RunnerInv, RunnerTypeOK, Timer, DeadlinesAreBounded
  <2>2. CallAdvanceAt([token |-> sched.token, deadline |-> sched.deadline], runCtxDone)
    BY <1>2 DEF StartWakeup, CallAdvanceAt
  <2>3. \E token \in Tokens, deadline \in 1..(MaxTime + WaitFor), ctx \in BOOLEAN :
          CallAdvanceAt([token |-> token, deadline |-> deadline], ctx)
    BY <2>1, <2>2, Zenon
  <2> QED BY <2>3 DEF EngineNext
<1> QED BY <1>1, <1>2

\* Every step of the runner is a step the engine allows its single writer.
LEMMA StepIsEngineStep ==
    ASSUME RunnerInv, [Next]_vars
    PROVE  [EngineNext]_engineVars
<1>0. cancelled \in BOOLEAN /\ (work # None => pc # "idle") /\ (work = None => pc = "idle")
  BY DEF RunnerInv, EngineInv, EngineTypeOK, LoopInv
<1>1. CASE \/ \E o \in Inputs : SubmitObservation(o)
           \/ \E c \in Commands : SubmitControl(c)
           \/ StopAllReturns \/ RejectQueued \/ UNCHANGED vars
  BY <1>1 DEF SubmitObservation, SubmitControl, StopAllReturns, RejectQueued, vars
<1>2. ASSUME NEW id \in ObsIds, CancelRequest(id) PROVE [EngineNext]_engineVars
  <2>1. PICK why \in BOOLEAN : why = (work = "observation" /\ pc # "returned" /\ arg.id = id)
    OBVIOUS
  <2>2. why => work # None
    BY <2>1, RunnerAssumption
  <2> QED BY <1>0, <1>2, <2>1, <2>2, CancelIsCall DEF CancelRequest
<1>3. CASE CancelRun
  <2>1. PICK why \in BOOLEAN : why = (work = "wakeup" /\ pc # "returned")
    OBVIOUS
  <2>2. why => work # None
    BY <2>1, RunnerAssumption
  <2> QED BY <1>0, <1>3, <2>1, <2>2, CancelIsCall DEF CancelRun
<1>4. CASE TakeControl \/ BusyStop
  <2>1. PICK why \in BOOLEAN : why = (work # None /\ pc # "returned")
    OBVIOUS
  <2> QED BY <1>0, <1>4, <2>1, CancelIsCall DEF TakeControl, BusyStop, CancelActive
<1>5. CASE JoinWork
  BY <1>5 DEF JoinWork, EngineNext
<1>6. CASE PollControls
  BY <1>4, <1>6 DEF PollControls
<1>7. CASE PollWork \/ SelectIdle
  <2>1. work = None
    BY <1>7 DEF RunnerInv, LoopInv, PollWork, SelectIdle
  <2> QED BY <1>4, <1>7, <2>1, StartIsCall DEF PollWork, SelectIdle
<1>8. CASE SelectBusy \/ JoinCancelled \/ Halt
  BY <1>4, <1>5, <1>8 DEF SelectBusy, JoinCancelled, Halt
<1>9. CASE CommitControl
  <2>1. request \in Command /\ request.at <= now /\ pc = "idle"
    BY <1>0, <1>9, RunnerAssumption DEF RunnerInv, RunnerTypeOK, LoopInv, RequestsAreSubmitted, CommitControl
  <2>2. CASE request.reason = "USER_REJECTED" /\ ~runCtxDone
    BY <1>9, <2>1, <2>2, CommitIsCall DEF CommitControl
  <2>3. CASE ~(request.reason = "USER_REJECTED" /\ ~runCtxDone)
    BY <1>9, <2>3 DEF CommitControl, engineVars
  <2> QED BY <2>2, <2>3
<1>10. CASE WorkStep \/ TimePasses
  BY <1>10 DEF WorkStep, TimePasses, EngineNext
<1> QED BY <1>1, <1>2, <1>3, <1>4, <1>6, <1>7, <1>8, <1>9, <1>10 DEF Next, RunLoop

-----------------------------------------------------------------------------
(* Queues                                                                  *)

\* Taking the head of a queue.
LEMMA QueueHead ==
    ASSUME NEW S, NEW q \in Seq(S), q # <<>>
    PROVE  /\ 1 \in 1..Len(q) /\ Head(q) = q[1] /\ Head(q) \in S
           /\ Tail(q) \in Seq(S) /\ Len(Tail(q)) = Len(q) - 1 /\ Len(q) \in Nat
           /\ \A i \in 1..Len(Tail(q)) : i + 1 \in 1..Len(q) /\ Tail(q)[i] = q[i + 1]
<1>1. Len(q) \in Nat \ {0}
  BY EmptySeq
<1>2. Head(q) = q[1]
  OBVIOUS
<1> QED BY <1>1, <1>2, HeadTailProperties

\* Entering a queue.
LEMMA QueueAppend ==
    ASSUME NEW S, NEW q \in Seq(S), NEW e \in S
    PROVE  /\ Append(q, e) \in Seq(S) /\ Len(Append(q, e)) = Len(q) + 1 /\ Len(q) \in Nat
           /\ \A i \in 1..Len(Append(q, e)) :
                Append(q, e)[i] = e \/ (i \in 1..Len(q) /\ Append(q, e)[i] = q[i])
<1>1. Len(q) \in Nat
  BY LenProperties
<1> QED BY <1>1

-----------------------------------------------------------------------------
(* Types                                                                   *)

\* An answer goes to one request and is one of the values of its channel.
LEMMA AnswerType ==
    ASSUME RunnerTypeOK, NEW id \in Requests, NEW v \in {"nil", "canceled", "error", "stop"}, Answer(id, v)
    PROVE  /\ answer' \in [Requests -> {"none", "nil", "canceled", "error", "stop"}]
           /\ answer[id] = "none" /\ answer'[id] = v
           /\ \A r \in Requests : r # id => answer'[r] = answer[r]
BY DEF RunnerTypeOK, Answer

\* The timer is armed from a continuation of the engine.
LEMMA RefreshedType ==
    ASSUME NEW p \in Pending \cup {None}, now \in Nat
    PROVE  /\ Refreshed(p) \in Timer \cup {None}
           /\ IF p = None THEN Refreshed(p) = None
              ELSE /\ Refreshed(p) # None
                   /\ Refreshed(p).token = p.episode /\ Refreshed(p).deadline = p.deadline
<1>1. CASE p = None
  BY <1>1 DEF Refreshed
<1>2. CASE p # None
  <2>1. p \in Pending
    BY <1>2
  <2>2. Refreshed(p) \in Timer
    BY <1>2, <2>1 DEF Refreshed, Timer, Pending, EpisodeIds, Tokens
  <2> QED BY <1>2, <2>2, RunnerAssumption DEF Refreshed
<1> QED BY <1>1, <1>2

\* What the loop knows of the head of each queue.
LEMMA HeadFacts ==
    ASSUME RunnerInv
    PROVE  /\ obsQ # <<>> => /\ Head(obsQ) \in Inputs /\ Head(obsQ).id \in ObsIds
                             /\ Head(obsQ).id \in submitted /\ Head(obsQ).at <= now
                             /\ Tail(obsQ) \in Seq(Inputs) /\ Len(Tail(obsQ)) <= ObservationCapacity
           /\ ctlQ # <<>> => /\ Head(ctlQ) \in Commands /\ Head(ctlQ).id \in ControlIds
                             /\ Head(ctlQ) \in asked /\ Head(ctlQ) # None
                             /\ Tail(ctlQ) \in Seq(Commands) /\ Len(Tail(ctlQ)) <= ControlCapacity
           /\ request # None => request \in Commands /\ request.id \in ControlIds /\ request.at \in Nat
<1>1. obsQ \in Seq(Inputs) /\ Len(obsQ) <= ObservationCapacity /\ ObservationCapacity \in Nat
  BY RunnerAssumption DEF RunnerInv, RunnerTypeOK
<1>2. ctlQ \in Seq(Commands) /\ Len(ctlQ) <= ControlCapacity /\ ControlCapacity \in Nat
  BY RunnerAssumption DEF RunnerInv, RunnerTypeOK
<1>3. /\ \A o \in Inputs : o.id \in ObsIds
      /\ \A c \in Commands : c.id \in ControlIds /\ c # None /\ c.at \in Nat
  BY InputAssumption, RunnerAssumption, TrackerAssumption DEF Observation, Command, Time
<1>4. ASSUME obsQ # <<>>
      PROVE  /\ Head(obsQ) \in Inputs /\ Head(obsQ).id \in ObsIds
             /\ Head(obsQ).id \in submitted /\ Head(obsQ).at <= now
             /\ Tail(obsQ) \in Seq(Inputs) /\ Len(Tail(obsQ)) <= ObservationCapacity
  <2>1. /\ 1 \in 1..Len(obsQ) /\ Head(obsQ) = obsQ[1] /\ Head(obsQ) \in Inputs
        /\ Tail(obsQ) \in Seq(Inputs) /\ Len(Tail(obsQ)) = Len(obsQ) - 1 /\ Len(obsQ) \in Nat
    BY <1>1, <1>4, QueueHead
  <2> QED BY <1>1, <1>3, <2>1 DEF RunnerInv, RequestsAreSubmitted
<1>5. ASSUME ctlQ # <<>>
      PROVE  /\ Head(ctlQ) \in Commands /\ Head(ctlQ).id \in ControlIds
             /\ Head(ctlQ) \in asked /\ Head(ctlQ) # None
             /\ Tail(ctlQ) \in Seq(Commands) /\ Len(Tail(ctlQ)) <= ControlCapacity
  <2>1. /\ 1 \in 1..Len(ctlQ) /\ Head(ctlQ) = ctlQ[1] /\ Head(ctlQ) \in Commands
        /\ Tail(ctlQ) \in Seq(Commands) /\ Len(Tail(ctlQ)) = Len(ctlQ) - 1 /\ Len(ctlQ) \in Nat
    BY <1>2, <1>5, QueueHead
  <2> QED BY <1>2, <1>3, <2>1 DEF RunnerInv, RequestsAreSubmitted
<1>6. request # None => request \in Commands
  BY DEF RunnerInv, RunnerTypeOK
<1> QED BY <1>3, <1>4, <1>5, <1>6

\* The steps that start work, from an observation or from the timer.
LEMMA StartType ==
    ASSUME RunnerInv,
           \/ obsQ # <<>> /\ StartObservation(Head(obsQ))
           \/ sched # None /\ StartWakeup /\ UNCHANGED answer
    PROVE  /\ answer' \in [Requests -> {"none", "nil", "canceled", "error", "stop"}]
           /\ work' \in {"observation", "wakeup", work}
           /\ overtaken' \in [ControlIds -> Nat]
           /\ runPc' = "poll"
<1>1. overtaken \in [ControlIds -> Nat] /\ RunnerTypeOK
  BY DEF RunnerInv, RunnerTypeOK
<1>2. NoteOvertaking => overtaken' \in [ControlIds -> Nat]
  BY <1>1 DEF NoteOvertaking
<1>3. CASE obsQ # <<>> /\ StartObservation(Head(obsQ))
  <2>1. Head(obsQ).id \in Requests
    BY <1>3, HeadFacts DEF Requests
  <2>2. CASE Head(obsQ).id \in ctxDone
    BY <1>1, <1>3, <2>1, <2>2, AnswerType DEF StartObservation
  <2>3. CASE Head(obsQ).id \notin ctxDone
    BY <1>1, <1>2, <1>3, <2>3 DEF StartObservation, RunnerTypeOK
  <2> QED BY <2>2, <2>3
<1>4. CASE sched # None /\ StartWakeup /\ UNCHANGED answer
  BY <1>1, <1>2, <1>4 DEF StartWakeup, RunnerTypeOK
<1> QED BY <1>3, <1>4

\* The step that joins work.
LEMMA JoinType ==
    ASSUME RunnerInv, work # None, JoinWork
    PROVE  /\ answer' \in [Requests -> {"none", "nil", "canceled", "error", "stop"}]
           /\ \A r \in Requests \ ObsIds : answer'[r] = answer[r]
           /\ \A r \in Requests \ submitted : answer'[r] = answer[r]
           /\ workErr' \in BOOLEAN /\ work' = None /\ pc' = "idle"
           /\ UNCHANGED <<trackerVars, stateVars, now>>
<1>1. RunnerTypeOK /\ err \in {"nil", "canceled", "error"}
  BY DEF RunnerInv, EngineInv, EngineTypeOK
<1>2. CASE work = "observation"
  <2>1. arg.id \in ObsIds /\ arg.id \in submitted /\ arg.id \in Requests
    BY <1>2, InputAssumption DEF RunnerInv, LoopInv, Observation, Requests
  <2>2. /\ answer' \in [Requests -> {"none", "nil", "canceled", "error", "stop"}]
        /\ \A r \in Requests : r # arg.id => answer'[r] = answer[r]
    BY <1>1, <1>2, <2>1, AnswerType DEF JoinWork
  <2> QED BY <1>1, <1>2, <2>1, <2>2 DEF JoinWork, TakeResult, RunnerTypeOK
<1>3. CASE work # "observation"
  BY <1>1, <1>3 DEF JoinWork, TakeResult, RunnerTypeOK
<1> QED BY <1>2, <1>3

\* Every step keeps the types.
LEMMA TypeStep ==
    ASSUME RunnerInv, [Next]_vars
    PROVE  RunnerTypeOK'
<1>0. RunnerTypeOK /\ now \in Nat /\ pending \in Pending \cup {None}
  BY TrackerAssumption DEF RunnerInv, EngineInv, EngineTypeOK, Time
<1>1. ASSUME NEW o \in Inputs, SubmitObservation(o) PROVE RunnerTypeOK'
  <2>1. obsQ' \in Seq(Inputs) /\ Len(obsQ') <= ObservationCapacity
    BY <1>0, <1>1, QueueAppend, RunnerAssumption DEF SubmitObservation, RunnerTypeOK
  <2>2. o.id \in Requests
    BY InputAssumption DEF Observation, Requests
  <2> QED BY <1>0, <1>1, <2>1, <2>2 DEF SubmitObservation, RunnerTypeOK
<1>2. ASSUME NEW c \in Commands, SubmitControl(c) PROVE RunnerTypeOK'
  <2>1. ctlQ' \in Seq(Commands) /\ Len(ctlQ') <= ControlCapacity
    BY <1>0, <1>2, QueueAppend, RunnerAssumption DEF SubmitControl, RunnerTypeOK
  <2>2. c.id \in Requests
    BY RunnerAssumption DEF Command, Requests
  <2> QED BY <1>0, <1>2, <2>1, <2>2 DEF SubmitControl, RunnerTypeOK
<1>3. ASSUME NEW id \in ObsIds, CancelRequest(id) PROVE RunnerTypeOK'
  BY <1>0, <1>3 DEF CancelRequest, RunnerTypeOK
<1>4. CASE CancelRun \/ StopAllReturns \/ BusyStop \/ TimePasses \/ WorkStep \/ UNCHANGED vars
  BY <1>0, <1>4 DEF CancelRun, StopAllReturns, BusyStop, TimePasses, WorkStep, runnerVars, vars, RunnerTypeOK
<1>5. CASE PollControls
  BY <1>0, <1>5, HeadFacts DEF PollControls, TakeControl, RunnerTypeOK
<1>6. CASE PollWork
  BY <1>0, <1>6, HeadFacts, StartType DEF PollWork, StartWakeup, RunnerTypeOK
<1>7. CASE SelectIdle
  <2>1. sched # None => [sched EXCEPT !.due = TRUE] \in Timer
    BY <1>0 DEF RunnerTypeOK, Timer
  <2> QED BY <1>0, <1>7, <2>1, HeadFacts, StartType DEF SelectIdle, TakeControl, RunnerTypeOK
<1>8. CASE SelectBusy
  <2>1. work # None
    BY <1>8 DEF RunnerInv, LoopInv, SelectBusy
  <2>2. Refreshed(pending) \in Timer \cup {None}
    BY <1>0, RefreshedType
  <2> QED BY <1>0, <1>8, <2>1, <2>2, HeadFacts, JoinType DEF SelectBusy, TakeControl, Resume, RunnerTypeOK
<1>9. CASE JoinCancelled
  <2>1. work # None
    BY <1>9 DEF RunnerInv, LoopInv, JoinCancelled
  <2> QED BY <1>0, <1>9, <2>1, JoinType DEF JoinCancelled, RunnerTypeOK
<1>10. CASE CommitControl
  <2>1. request \in Commands /\ request.id \in Requests
    BY <1>10, HeadFacts DEF RunnerInv, LoopInv, CommitControl, Requests
  <2>2. answer' \in [Requests -> {"none", "nil", "canceled", "error", "stop"}]
    BY <1>0, <1>10, <2>1, AnswerType DEF CommitControl
  <2>3. pending' \in Pending \cup {None} /\ now' = now
    BY <1>0, <1>10 DEF CommitControl, CommitUserRejection, stateVars
  <2>4. sched' \in Timer \cup {None}
    BY <1>0, <1>10, <2>3, RefreshedType DEF CommitControl
  <2> QED BY <1>0, <1>10, <2>2, <2>4 DEF CommitControl, Resume, RunnerTypeOK
<1>11. CASE Halt
  BY <1>0, <1>11, JoinType DEF Halt, RunnerTypeOK
<1>12. CASE RejectQueued
  <2>1. answer' \in [Requests -> {"none", "nil", "canceled", "error", "stop"}]
    BY <1>0, <1>12, HeadFacts, AnswerType DEF RejectQueued, Requests, RunnerTypeOK
  <2> QED BY <1>0, <1>12, <2>1, HeadFacts DEF RejectQueued, RunnerTypeOK
<1> QED BY <1>1, <1>2, <1>3, <1>4, <1>5, <1>6, <1>7, <1>8, <1>9, <1>10, <1>11, <1>12 DEF Next, RunLoop

-----------------------------------------------------------------------------
(* The loop and its requests                                               *)

\* A command is no nil pointer, and neither is the name of a kind of work.
LEMMA NotNone == /\ "observation" # None /\ "wakeup" # None
                 /\ \A c \in Commands : c # None
BY RunnerAssumption

\* Every step keeps what the position of the loop says of its work.
LEMMA LoopStep ==
    ASSUME RunnerInv, [Next]_vars
    PROVE  LoopInv'
<1>0. LoopInv /\ RunnerTypeOK
  BY DEF RunnerInv
<1>1. ASSUME NEW o \in Inputs, SubmitObservation(o) PROVE LoopInv'
  BY <1>0, <1>1 DEF SubmitObservation, LoopInv, engineVars, callVars
<1>2. ASSUME NEW c \in Commands, SubmitControl(c) PROVE LoopInv'
  BY <1>0, <1>2 DEF SubmitControl, LoopInv, engineVars, callVars
<1>3. CASE \/ \E id \in ObsIds : CancelRequest(id)
           \/ CancelRun \/ BusyStop
  BY <1>0, <1>3 DEF CancelRequest, CancelRun, BusyStop, CancelActive, LoopInv
<1>4. CASE StopAllReturns \/ TimePasses \/ RejectQueued \/ UNCHANGED vars
  BY <1>0, <1>4 DEF StopAllReturns, TimePasses, RejectQueued, runnerVars, vars, engineVars, callVars, LoopInv
<1>5. CASE WorkStep
  <2>1. pc # "idle" /\ pc' # "idle" /\ arg' = arg
    BY <1>5, CallStepEffect DEF WorkStep, RunnerInv
  <2> QED BY <1>0, <1>5, <2>1 DEF WorkStep, runnerVars, LoopInv
<1>6. CASE TakeControl /\ UNCHANGED <<work, submitted>>
  <2>1. request' # None /\ UNCHANGED <<pc, arg>>
    BY <1>6, HeadFacts DEF TakeControl, CancelActive
  <2> QED BY <1>0, <1>6, <2>1 DEF TakeControl, LoopInv
<1>7. CASE PollControls
  BY <1>0, <1>6, <1>7 DEF PollControls, LoopInv, engineVars, callVars
<1>8. ASSUME work = None, UNCHANGED <<request, submitted>>, request = None,
             \/ obsQ # <<>> /\ StartObservation(Head(obsQ))
             \/ sched # None /\ StartWakeup
      PROVE  LoopInv'
  <2>1. obsQ # <<>> => Head(obsQ) \in Inputs /\ Head(obsQ).id \in submitted
    BY HeadFacts
  <2>2. sched # None => [token |-> sched.token, deadline |-> sched.deadline] \in Wakeup
    BY <1>0 DEF RunnerTypeOK, Timer, Wakeup
  <2>3. CASE obsQ # <<>> /\ StartObservation(Head(obsQ))
    BY <1>0, <1>8, <2>1, <2>3, NotNone DEF StartObservation, Call, LoopInv, engineVars, callVars
  <2>4. CASE sched # None /\ StartWakeup
    BY <1>0, <1>8, <2>2, <2>4, NotNone DEF StartWakeup, Call, LoopInv
  <2> QED BY <1>8, <2>3, <2>4
<1>9. CASE PollWork
  BY <1>0, <1>8, <1>9 DEF PollWork, LoopInv, engineVars, callVars
<1>10. CASE SelectIdle
  BY <1>0, <1>6, <1>8, <1>10 DEF SelectIdle, LoopInv, engineVars, callVars
<1>11. CASE SelectBusy
  <2>1. work # None
    BY <1>0, <1>11 DEF LoopInv, SelectBusy
  <2>2. CASE JoinWork
    BY <1>0, <1>11, <2>1, <2>2, JoinType, NotNone DEF SelectBusy, Resume, LoopInv, TakeControl
  <2> QED BY <1>6, <1>11, <2>2 DEF SelectBusy
<1>12. CASE JoinCancelled
  <2>1. work # None
    BY <1>0, <1>12 DEF LoopInv, JoinCancelled
  <2> QED BY <1>0, <1>12, <2>1, JoinType, NotNone DEF JoinCancelled, LoopInv
<1>13. CASE CommitControl
  BY <1>0, <1>13, NotNone DEF CommitControl, Resume, LoopInv, callVars
<1>14. CASE Halt
  BY <1>0, <1>14, JoinType, NotNone DEF Halt, LoopInv, engineVars, callVars
<1> QED BY <1>1, <1>2, <1>3, <1>4, <1>5, <1>7, <1>9, <1>10, <1>11, <1>12, <1>13, <1>14 DEF Next, RunLoop

\* A step of the run loop other than the work's own leaves the continuation
\* alone, or is the commit of a rejection.
LEMMA PendingKept ==
    ASSUME RunnerInv, [Next]_vars, ~WorkStep, ~CommitControl
    PROVE  UNCHANGED <<pending, feedback, active, world>>
<1>1. CASE TakeControl \/ JoinWork \/ StartWakeup \/ \E o : StartObservation(o)
  BY <1>1 DEF TakeControl, CancelActive, JoinWork, StartWakeup, StartObservation, Call, stateVars, trackerVars,
              engineVars
<1>2. CASE Next
  BY <1>1, <1>2
     DEF Next, RunLoop, SubmitObservation, SubmitControl, CancelRequest, PollControls, PollWork, SelectIdle,
         BusyStop, CancelActive, SelectBusy, StopAllReturns, JoinCancelled, Halt, RejectQueued, CancelRun,
         TimePasses, stateVars, trackerVars, engineVars
<1>3. CASE UNCHANGED vars
  BY <1>3 DEF vars, engineVars, stateVars, trackerVars
<1> QED BY <1>2, <1>3

\* The timer is what it was, is off, is due, or has just been armed from the
\* engine's continuation.
LEMMA TimerSteps ==
    ASSUME RunnerInv, [Next]_vars
    PROVE  \/ sched' = sched \/ sched' = None \/ sched' = Refreshed(pending')
           \/ sched # None /\ sched' = [sched EXCEPT !.due = TRUE]
<1>1. SelectBusy => pending' = pending
  BY PendingKept DEF SelectBusy, WorkStep, runnerVars, CommitControl, TakeControl, JoinWork, CancelActive, stateVars
<1> QED
  BY <1>1
     DEF Next, RunLoop, SubmitObservation, SubmitControl, CancelRequest, PollControls, PollWork, SelectIdle,
         StartWakeup, StartObservation, BusyStop, SelectBusy, StopAllReturns, JoinCancelled, CommitControl, Halt,
         RejectQueued, CancelRun, WorkStep, TimePasses, runnerVars, vars

\* Deadlines stay within the time bound plus the wait.
LEMMA DeadlineStep ==
    ASSUME RunnerInv, [Next]_vars, EngineInv'
    PROVE  DeadlinesAreBounded'
<1>0. /\ DeadlinesAreBounded /\ now \in 1..MaxTime /\ MaxTime \in Nat /\ WaitFor \in Nat \ {0}
      /\ pending \in Pending \cup {None} /\ pending' \in Pending \cup {None} /\ now' \in Nat
  BY TrackerAssumption, EngineAssumption DEF RunnerInv, EngineInv, EngineTypeOK, Time
<1>1. pending' # None => pending'.deadline \in 1..(MaxTime + WaitFor)
  <2>1. CASE WorkStep
    <3>1. pending' # None => pending' = pending \/ pending'.deadline = now + WaitFor
      BY <2>1, CallStepEffect DEF WorkStep, RunnerInv
    <3> QED BY <1>0, <3>1 DEF DeadlinesAreBounded
  <2>2. CASE CommitControl
    BY <1>0, <2>2 DEF CommitControl, CommitUserRejection, stateVars, DeadlinesAreBounded
  <2>3. CASE ~WorkStep /\ ~CommitControl
    BY <1>0, <2>3, PendingKept DEF DeadlinesAreBounded
  <2> QED BY <2>1, <2>2, <2>3
<1>2. sched' # None => sched'.deadline \in 1..(MaxTime + WaitFor)
  <2>1. CASE sched' = Refreshed(pending')
    BY <1>0, <1>1, <2>1 DEF Refreshed
  <2>2. CASE sched # None /\ sched' = [sched EXCEPT !.due = TRUE]
    <3>1. sched \in Timer
      BY <2>2 DEF RunnerInv, RunnerTypeOK
    <3>2. sched'.deadline = sched.deadline
      BY <2>2, <3>1 DEF Timer
    <3> QED BY <1>0, <2>2, <3>2 DEF DeadlinesAreBounded
  <2> QED BY <1>0, <2>1, <2>2, TimerSteps DEF DeadlinesAreBounded
<1> QED BY <1>1, <1>2 DEF DeadlinesAreBounded

\* Every step keeps the timer armed for the continuation.
LEMMA TimerStep ==
    ASSUME RunnerInv, [Next]_vars, EngineInv'
    PROVE  TimerFollows'
<1>0. /\ TimerFollows /\ LoopInv /\ now \in Nat /\ now' \in Nat
      /\ pending \in Pending \cup {None} /\ pending' \in Pending \cup {None}
  BY TrackerAssumption DEF RunnerInv, EngineInv, EngineTypeOK, Time
<1>1. CASE sched' = Refreshed(pending')
  <2>1. Armed'
    <3>1. CASE pending' = None
      BY <1>1, <3>1 DEF Refreshed, Armed
    <3>2. CASE pending' # None
      <4>1. Refreshed(pending') \in [token : Tokens, deadline : Nat, due : BOOLEAN]
        BY <1>0, <3>2 DEF Refreshed, Pending, EpisodeIds, Tokens
      <4>2. sched' # None
        BY <1>1, <4>1, RunnerAssumption DEF Timer
      <4> QED BY <1>1, <3>2, <4>2 DEF Refreshed, Armed
    <3> QED BY <3>1, <3>2
  <2> QED BY <2>1 DEF TimerFollows
<1>2. CASE WorkStep
  <2>1. work # None /\ work' = work
    BY <1>0, <1>2, CallStepEffect DEF WorkStep, RunnerInv, LoopInv, runnerVars
  <2> QED BY <2>1 DEF TimerFollows
<1>3. CASE CommitControl
  BY <1>1, <1>3 DEF CommitControl
<1>4. CASE SelectBusy
  <2>1. CASE TakeControl
    BY <2>1 DEF TakeControl, TimerFollows
  <2>2. CASE JoinWork /\ sched' = Refreshed(pending)
    BY <1>1, <2>2 DEF JoinWork, stateVars
  <2> QED BY <1>4, <2>1, <2>2 DEF SelectBusy
<1>5. CASE PollWork
  <2>1. work = None
    BY <1>0, <1>5 DEF LoopInv, PollWork
  <2>2. CASE UNCHANGED <<engineVars, work, sched>>
    BY <1>0, <1>5, <2>1, <2>2 DEF PollWork, TimerFollows, Armed, engineVars, stateVars
  <2>3. CASE work' # None
    BY <2>3 DEF TimerFollows
  <2> QED BY <1>5, <2>2, <2>3, NotNone DEF PollWork, StartObservation, StartWakeup
<1>6. CASE SelectIdle
  <2>1. work = None /\ Armed
    BY <1>0, <1>6 DEF LoopInv, SelectIdle, TimerFollows
  <2>2. CASE UNCHANGED <<engineVars, sched>>
    BY <1>0, <2>1, <2>2 DEF TimerFollows, Armed, engineVars, stateVars
  <2>3. CASE work' # None \/ runPc' = "stop"
    BY <2>3 DEF TimerFollows
  <2>4. CASE sched # None /\ sched' = [sched EXCEPT !.due = TRUE] /\ UNCHANGED engineVars
    <3>1. sched \in Timer
      BY <2>4 DEF RunnerInv, RunnerTypeOK
    <3>2. [sched EXCEPT !.due = TRUE] \in Timer
      BY <3>1 DEF Timer
    <3>3. sched' # None /\ sched'.deadline = sched.deadline /\ sched'.token = sched.token
      BY <2>4, <3>1, <3>2, RunnerAssumption DEF Timer
    <3> QED BY <2>1, <2>4, <3>3 DEF TimerFollows, Armed, engineVars, stateVars
  <2> QED BY <1>6, <2>2, <2>3, <2>4, NotNone DEF SelectIdle, StartObservation, TakeControl
<1>7. CASE JoinCancelled \/ Halt
  BY <1>7 DEF JoinCancelled, Halt, TimerFollows
<1>8. CASE PollControls
  <2>1. CASE TakeControl
    BY <2>1 DEF TakeControl, TimerFollows
  <2>2. CASE UNCHANGED <<engineVars, work, sched>>
    BY <1>0, <1>8, <2>2 DEF PollControls, TimerFollows, Armed, engineVars, stateVars
  <2> QED BY <1>8, <2>1, <2>2 DEF PollControls
<1>9. CASE \/ \E o \in Inputs : SubmitObservation(o)
           \/ \E c \in Commands : SubmitControl(c)
           \/ \E id \in ObsIds : CancelRequest(id)
           \/ CancelRun \/ TimePasses \/ UNCHANGED vars
  <2>1. UNCHANGED <<work, sched, runPc, pending>>
    BY <1>9 DEF SubmitObservation, SubmitControl, CancelRequest, CancelRun, TimePasses, vars, runnerVars,
                engineVars, stateVars
  <2> QED BY <1>0, <2>1 DEF TimerFollows, Armed
<1>10. CASE StopAllReturns \/ RejectQueued \/ BusyStop
  BY <1>10 DEF StopAllReturns, RejectQueued, BusyStop, TimerFollows
<1> QED BY <1>2, <1>3, <1>4, <1>5, <1>6, <1>7, <1>8, <1>9, <1>10 DEF Next, RunLoop

\* Every step queues, handles and answers submitted requests only.
LEMMA RequestsStep ==
    ASSUME RunnerInv, [Next]_vars, EngineInv'
    PROVE  RequestsAreSubmitted'
<1>0a. RequestsAreSubmitted /\ RunnerTypeOK /\ LoopInv /\ now \in Time
  BY DEF RunnerInv, EngineInv, EngineTypeOK
<1>0b. \A o \in Inputs : o.id \in ObsIds /\ o.at \in Time
  BY InputAssumption DEF Observation
<1>0c. \A c \in Commands : c.id \in ControlIds /\ c.at \in Time /\ c # None
  BY RunnerAssumption DEF Command
<1>0d. now \in Nat /\ Time \subseteq Nat
  BY <1>0a, TrackerAssumption DEF Time
<1>0. /\ RequestsAreSubmitted /\ RunnerTypeOK /\ LoopInv
      /\ obsQ \in Seq(Inputs) /\ ctlQ \in Seq(Commands) /\ asked \subseteq Commands
      /\ now \in Nat
      /\ \A o \in Inputs : o.id \in ObsIds /\ o.at \in Nat
      /\ \A c \in Commands : c.id \in ControlIds /\ c.at \in Nat /\ c # None
  BY <1>0a, <1>0b, <1>0c, <1>0d DEF RunnerTypeOK
<1>1. ASSUME NEW o \in Inputs, SubmitObservation(o) PROVE RequestsAreSubmitted'
  <2>1. \A i \in 1..Len(obsQ') : obsQ'[i].id \in submitted' /\ obsQ'[i].at <= now
    BY <1>0, <1>1, QueueAppend DEF SubmitObservation, Recent, RequestsAreSubmitted
  <2> QED BY <1>0, <1>1, <2>1 DEF SubmitObservation, RequestsAreSubmitted, engineVars
<1>2. ASSUME NEW c \in Commands, SubmitControl(c) PROVE RequestsAreSubmitted'
  <2>1. \A i \in 1..Len(ctlQ') : ctlQ'[i] \in asked'
    BY <1>0, <1>2, QueueAppend DEF SubmitControl, RequestsAreSubmitted
  <2>2. \A d \in asked' : d.id \in submitted' /\ d.at <= now
    BY <1>0, <1>2 DEF SubmitControl, RequestsAreSubmitted, Recent
  <2>3. \A d, e \in asked' : d.id = e.id => d = e
    BY <1>0, <1>2 DEF SubmitControl, RequestsAreSubmitted
  <2> QED BY <1>0, <1>2, <2>1, <2>2, <2>3 DEF SubmitControl, RequestsAreSubmitted, engineVars
<1>3. CASE TimePasses
  BY <1>0, <1>3 DEF TimePasses, Tick, runnerVars, RequestsAreSubmitted
<1>4. now' = now \/ TimePasses
  <2>1. CASE WorkStep
    BY <2>1, CallStepEffect DEF WorkStep, RunnerInv
  <2>2. CASE TakeControl \/ JoinWork \/ StartWakeup \/ \E o : StartObservation(o)
    BY <2>2 DEF TakeControl, CancelActive, JoinWork, StartWakeup, StartObservation, engineVars
  <2> QED BY <2>1, <2>2
     DEF Next, RunLoop, SubmitObservation, SubmitControl, CancelRequest, PollControls, PollWork, SelectIdle,
         BusyStop, CancelActive, SelectBusy, StopAllReturns, JoinCancelled, CommitControl, Halt, RejectQueued,
         CancelRun, vars, engineVars
<1>5. ASSUME now' = now, UNCHANGED <<submitted, asked>>,
             obsQ' = obsQ \/ (obsQ # <<>> /\ obsQ' = Tail(obsQ)),
             ctlQ' = ctlQ \/ (ctlQ # <<>> /\ ctlQ' = Tail(ctlQ)),
             request' \in {request, None} \/ (ctlQ # <<>> /\ request' = Head(ctlQ)),
             \A r \in Requests \ submitted : answer'[r] = answer[r]
      PROVE  RequestsAreSubmitted'
  <2>1. \A i \in 1..Len(obsQ') : obsQ'[i].id \in submitted /\ obsQ'[i].at <= now
    <3>1. CASE obsQ # <<>> /\ obsQ' = Tail(obsQ)
      <4>1. \A i \in 1..Len(Tail(obsQ)) : i + 1 \in 1..Len(obsQ) /\ Tail(obsQ)[i] = obsQ[i + 1]
        BY <1>0, <3>1, QueueHead
      <4> QED BY <1>0, <3>1, <4>1 DEF RequestsAreSubmitted
    <3> QED BY <1>0, <1>5, <3>1 DEF RequestsAreSubmitted
  <2>2. \A i \in 1..Len(ctlQ') : ctlQ'[i] \in asked
    <3>1. CASE ctlQ # <<>> /\ ctlQ' = Tail(ctlQ)
      <4>1. \A i \in 1..Len(Tail(ctlQ)) : i + 1 \in 1..Len(ctlQ) /\ Tail(ctlQ)[i] = ctlQ[i + 1]
        BY <1>0, <3>1, QueueHead
      <4> QED BY <1>0, <3>1, <4>1 DEF RequestsAreSubmitted
    <3> QED BY <1>0, <1>5, <3>1 DEF RequestsAreSubmitted
  <2>3. request' # None => request' \in asked
    BY <1>0, <1>5, HeadFacts DEF RequestsAreSubmitted
  <2> QED BY <1>0, <1>5, <2>1, <2>2, <2>3 DEF RequestsAreSubmitted
<1>6. CASE \/ \E id \in ObsIds : CancelRequest(id)
           \/ CancelRun \/ BusyStop \/ StopAllReturns \/ WorkStep \/ PollControls \/ UNCHANGED vars
  <2>1. \A r \in Requests \ submitted : answer'[r] = answer[r]
    BY <1>6 DEF CancelRequest, CancelRun, BusyStop, StopAllReturns, WorkStep, PollControls, vars, runnerVars
  <2>2. CASE TimePasses
    BY <1>3, <2>2
  <2> QED BY <1>4, <1>5, <1>6, <2>1, <2>2
          DEF CancelRequest, CancelRun, BusyStop, StopAllReturns, WorkStep, PollControls, TakeControl, vars, runnerVars
<1>7. ASSUME NEW id \in submitted, NEW v \in {"nil", "canceled", "error", "stop"}, Answer(id, v)
      PROVE  \A r \in Requests \ submitted : answer'[r] = answer[r]
  BY <1>0, <1>7, AnswerType DEF RunnerTypeOK
<1>8. CASE PollWork \/ SelectIdle
  <2>1. \A r \in Requests \ submitted : answer'[r] = answer[r]
    BY <1>7, <1>8, HeadFacts DEF PollWork, SelectIdle, StartObservation, StartWakeup
  <2> QED BY <1>3, <1>4, <1>5, <1>8, <2>1 DEF PollWork, SelectIdle, TakeControl
<1>9. CASE SelectBusy \/ JoinCancelled \/ Halt
  <2>1. \A r \in Requests \ submitted : answer'[r] = answer[r]
    BY <1>0, <1>9, JoinType DEF SelectBusy, JoinCancelled, Halt, LoopInv
  <2> QED BY <1>3, <1>4, <1>5, <1>9, <2>1 DEF SelectBusy, JoinCancelled, Halt, TakeControl
<1>10. CASE CommitControl
  <2>1. request.id \in submitted
    BY <1>0, <1>10 DEF CommitControl, LoopInv, RequestsAreSubmitted
  <2>2. \A r \in Requests \ submitted : answer'[r] = answer[r]
    BY <1>7, <1>10, <2>1 DEF CommitControl
  <2> QED BY <1>3, <1>4, <1>5, <1>10, <2>2 DEF CommitControl
<1>11. CASE RejectQueued
  <2>1. ctlQ # <<>> => Head(ctlQ).id \in submitted
    BY <1>0, HeadFacts DEF RequestsAreSubmitted
  <2>2. \A r \in Requests \ submitted : answer'[r] = answer[r]
    BY <1>7, <1>11, <2>1, HeadFacts DEF RejectQueued
  <2> QED BY <1>3, <1>4, <1>5, <1>11, <2>2 DEF RejectQueued
<1> QED BY <1>1, <1>2, <1>3, <1>6, <1>8, <1>9, <1>10, <1>11 DEF Next, RunLoop

\* Work starts only where no queued control has been overtaken before.
LEMMA OvertakenStep ==
    ASSUME RunnerInv, [Next]_vars
    PROVE  OvertakenOnce'
<1>0. /\ OvertakenOnce /\ RequestsAreSubmitted
      /\ ctlQ \in Seq(Commands) /\ overtaken \in [ControlIds -> Nat]
      /\ \A c \in Commands : c.id \in ControlIds
  BY RunnerAssumption DEF RunnerInv, RunnerTypeOK, Command
<1>1. \A c \in ControlIds : Queued(c) => c \in submitted
  BY <1>0 DEF Queued, RequestsAreSubmitted
<1>2. ASSUME ctlQ' = ctlQ \/ (ctlQ # <<>> /\ ctlQ' = Tail(ctlQ)), UNCHANGED <<overtaken, submitted>>,
             runPc' \in {"idle", "select"} => runPc' = runPc \/ runPc = "idle" \/ ctlQ = <<>>
      PROVE  OvertakenOnce'
  <2>1. \A c \in ControlIds : Queued(c)' => Queued(c)
    <3>1. CASE ctlQ' = ctlQ
      BY <3>1 DEF Queued
    <3>2. CASE ctlQ # <<>> /\ ctlQ' = Tail(ctlQ)
      <4>1. \A i \in 1..Len(Tail(ctlQ)) : i + 1 \in 1..Len(ctlQ) /\ Tail(ctlQ)[i] = ctlQ[i + 1]
        BY <1>0, <3>2, QueueHead
      <4> QED BY <3>2, <4>1 DEF Queued
    <3> QED BY <1>2, <3>1, <3>2
  <2>2. ctlQ = <<>> => \A c \in ControlIds : ~Queued(c)
    BY DEF Queued
  <2> QED BY <1>0, <1>2, <2>1, <2>2 DEF OvertakenOnce
<1>3. ASSUME runPc \in {"idle", "select"}, NoteOvertaking, runPc' = "poll", UNCHANGED submitted
      PROVE  OvertakenOnce'
  <2>1. \A c \in ControlIds : overtaken'[c] = overtaken[c] + IF Queued(c) THEN 1 ELSE 0
    BY <1>3 DEF NoteOvertaking, Queued
  <2>2. \A c \in ControlIds : overtaken'[c] <= 1 /\ (c \notin submitted => overtaken'[c] = 0)
    BY <1>0, <1>1, <1>3, <2>1 DEF OvertakenOnce
  <2> QED BY <1>3, <2>2 DEF OvertakenOnce
<1>4. ASSUME NEW d \in Commands, SubmitControl(d) PROVE OvertakenOnce'
  <2>1. \A c \in ControlIds : Queued(c)' => Queued(c) \/ c = d.id
    BY <1>0, <1>4, QueueAppend DEF SubmitControl, Queued
  <2> QED BY <1>0, <1>4, <2>1 DEF SubmitControl, OvertakenOnce
<1>5. ASSUME NEW o \in Inputs, SubmitObservation(o) PROVE OvertakenOnce'
  BY <1>0, <1>5 DEF SubmitObservation, OvertakenOnce, Queued
<1>6. CASE \/ \E id \in ObsIds : CancelRequest(id)
           \/ CancelRun \/ TimePasses \/ WorkStep \/ BusyStop \/ StopAllReturns \/ JoinCancelled
           \/ CommitControl \/ Halt \/ RejectQueued \/ PollControls \/ SelectBusy \/ UNCHANGED vars
  BY <1>2, <1>6 DEF CancelRequest, CancelRun, TimePasses, WorkStep, BusyStop, StopAllReturns, JoinCancelled,
                    CommitControl, Halt, RejectQueued, PollControls, SelectBusy, TakeControl, Resume, vars, runnerVars
<1>7. CASE PollWork \/ SelectIdle
  BY <1>2, <1>3, <1>7 DEF PollWork, SelectIdle, TakeControl, StartObservation, StartWakeup
<1> QED BY <1>4, <1>5, <1>6, <1>7 DEF Next, RunLoop

-----------------------------------------------------------------------------
(* Rejections                                                              *)

\* A step that puts no rejection in force keeps the earlier ones in force if
\* the cooldown does not move back and an episode that becomes active was
\* decided after them.
LEMMA RejectionsKept ==
    ASSUME RunnerInv,
           \A c \in asked' : InForce(c)' => c \in asked /\ InForce(c),
           \A id \in ControlIds : <<"USER_REJECTED", id>> \in feedback'
                => /\ <<"USER_REJECTED", id>> \in feedback
                   /\ answer'[id] # "none" \/ answer'[id] = answer[id],
           world'.rejectedAt = world.rejectedAt,
           active' # None => active' = active \/ (pc = "plan" /\ active'.startedAt = startedAt),
           pc' = "plan" => (pc = "plan" /\ startedAt' = startedAt) \/ startedAt' = now
    PROVE  RejectionsAreAnswered' /\ RejectionTakesEffect'
<1>0. RejectionsAreAnswered /\ RejectionTakesEffect /\ RequestsAreSubmitted
  BY DEF RunnerInv
<1>1. ASSUME NEW c \in asked', InForce(c)'
      PROVE  /\ world'.rejectedAt >= c.at
             /\ active' # None => active'.startedAt >= c.at
             /\ pc' = "plan" => startedAt' >= c.at
  <2>1. c \in asked /\ InForce(c) /\ c.at <= now
    BY <1>0, <1>1 DEF RequestsAreSubmitted
  <2>2. c.at \in Nat /\ now \in Nat
    BY <2>1, RunnerAssumption, TrackerAssumption
       DEF RunnerInv, RunnerTypeOK, EngineInv, EngineTypeOK, Command, Time
  <2>3. world.rejectedAt >= c.at /\ (active # None => active.startedAt >= c.at)
    BY <1>0, <2>1 DEF RejectionTakesEffect, InForce
  <2>4. pc = "plan" => startedAt >= c.at
    BY <1>0, <2>1 DEF RejectionsAreAnswered
  <2> QED BY <2>1, <2>2, <2>3, <2>4
<1>2. RejectionsAreAnswered'
  BY <1>0, <1>1 DEF RejectionsAreAnswered
<1>3. RejectionTakesEffect'
  BY <1>1 DEF RejectionTakesEffect, InForce
<1> QED BY <1>2, <1>3

\* The step that commits a rejection puts it in force before it is answered.
LEMMA CommitInForce ==
    ASSUME RunnerInv, CommitControl
    PROVE  RejectionsAreAnswered' /\ RejectionTakesEffect'
<1>0. RejectionsAreAnswered /\ RejectionTakesEffect /\ RequestsAreSubmitted /\ RunnerTypeOK
  BY DEF RunnerInv
<1>1. request \in asked /\ request \in Commands /\ request.id \in ControlIds /\ request.at \in Nat
  BY HeadFacts, RunnerAssumption DEF CommitControl, RunnerInv, LoopInv, RequestsAreSubmitted
<1>2. /\ answer[request.id] = "none" /\ answer'[request.id] # "none"
      /\ \A r \in Requests : r # request.id => answer'[r] = answer[r]
      /\ request.reason = "USER_REJECTED" /\ answer'[request.id] \in {"nil", "stop"} => ~runCtxDone /\ request.subject = Subject
  <2>1. request.id \in Requests
    BY <1>1 DEF Requests
  <2> DEFINE v == IF request.reason = "USER_REJECTED" /\ (runCtxDone \/ request.subject # Subject)
                  THEN "error" ELSE IF stopErr THEN "stop" ELSE "nil"
  <2>2. v \in {"nil", "canceled", "error", "stop"} /\ Answer(request.id, v)
    BY DEF CommitControl
  <2>3. /\ answer[request.id] = "none" /\ answer'[request.id] = v
        /\ \A r \in Requests : r # request.id => answer'[r] = answer[r]
    <3> HIDE DEF v
    <3> QED BY <1>0, <2>1, <2>2, AnswerType
  <2> QED BY <2>2, <2>3
<1>3. pc = "idle" /\ pc' = pc /\ asked' = asked
  BY DEF RunnerInv, LoopInv, CommitControl, callVars
<1>4. \A c \in asked : c.id = request.id => c = request
  BY <1>0, <1>1 DEF RequestsAreSubmitted
<1>5. <<"USER_REJECTED", request.id>> \notin feedback
  BY <1>0, <1>1, <1>2 DEF RejectionsAreAnswered
<1>6. /\ world.rejectedAt \in Nat /\ world'.rejectedAt \in Nat /\ world'.rejectedAt >= world.rejectedAt
      /\ active' \in {active, None}
      /\ feedback' \subseteq feedback \cup {<<"USER_REJECTED", request.id>>}
  <2>1. world \in [busy : BOOLEAN, quiet : BOOLEAN, rejectedAt : Nat, unansweredAt : Nat]
    BY DEF RunnerInv, EngineInv, EngineTypeOK
  <2>2. /\ ApplyUserRejection(request.at).rejectedAt \in Nat
        /\ ApplyUserRejection(request.at).rejectedAt >= world.rejectedAt
        /\ ApplyUserRejection(request.at).rejectedAt >= request.at
    BY <1>1, <2>1 DEF ApplyUserRejection
  <2> QED BY <2>1, <2>2 DEF CommitControl, CommitUserRejection, Reject, EndActive, FactId, RejectionFact,
                            trackerVars, stateVars
<1>7. ASSUME request.reason = "USER_REJECTED", answer'[request.id] \in {"nil", "stop"}
      PROVE  /\ world'.rejectedAt >= request.at
             /\ active' # None => active'.startedAt >= request.at
  <2>1. RejectApplies(RejectionFact(request)) /\ request.subject = Subject
    BY <1>2, <1>5, <1>7 DEF RejectApplies, FactId, RejectionFact
  <2>2. Reject(RejectionFact(request)) /\ world' = ApplyUserRejection(request.at)
    BY <1>2, <1>7, <2>1 DEF CommitControl, CommitUserRejection
  <2>3. world \in [busy : BOOLEAN, quiet : BOOLEAN, rejectedAt : Nat, unansweredAt : Nat]
    BY DEF RunnerInv, EngineInv, EngineTypeOK
  <2>4. world'.rejectedAt >= request.at
    BY <1>1, <2>2, <2>3 DEF ApplyUserRejection
  <2>5. active # None => active.subject = Subject /\ active.startedAt \in Nat
    BY TrackerAssumption DEF RunnerInv, EngineInv, EpisodesAreFresh, EngineTypeOK, TrackerTypeOK, Episode, Time
  <2>6. active' # None => active' = active /\ ~(request.at >= active.startedAt)
    BY <2>1, <2>2, <2>5 DEF Reject, RejectEnds, RejectApplies, EndActive, RejectionFact
  <2> QED BY <1>1, <2>4, <2>5, <2>6
<1>8. ASSUME NEW c \in asked, InForce(c)', c # request
      PROVE  /\ world'.rejectedAt >= c.at
             /\ active' # None => active'.startedAt >= c.at
  <2>1. c.id # request.id /\ c.id \in Requests /\ c.at \in Nat
    BY <1>4, <1>8, RunnerAssumption, TrackerAssumption DEF RunnerInv, RunnerTypeOK, Command, Time, Requests
  <2>2. InForce(c)
    BY <1>2, <1>8, <2>1 DEF InForce
  <2> QED BY <1>0, <1>6, <2>1, <2>2 DEF RejectionTakesEffect, InForce
<1>9. RejectionTakesEffect'
  BY <1>3, <1>7, <1>8 DEF RejectionTakesEffect, InForce
<1>10. RejectionsAreAnswered'
  <2>1. \A id \in ControlIds : <<"USER_REJECTED", id>> \in feedback' => answer'[id] # "none"
    BY <1>0, <1>2, <1>6 DEF RejectionsAreAnswered, Requests
  <2> QED BY <1>3, <2>1 DEF RejectionsAreAnswered
<1> QED BY <1>9, <1>10

\* Every step keeps every answered rejection in force.
LEMMA RejectionStep ==
    ASSUME RunnerInv, [Next]_vars
    PROVE  RejectionsAreAnswered' /\ RejectionTakesEffect'
<1>0. /\ RunnerTypeOK /\ RequestsAreSubmitted /\ LoopInv /\ asked \subseteq Commands
      /\ \A c \in Commands : c.id \in ControlIds
      /\ ObsIds \cap ControlIds = {}
  BY RunnerAssumption DEF RunnerInv, RunnerTypeOK, Command
<1>1. ASSUME UNCHANGED asked, UNCHANGED <<active, feedback, world>>,
             \A id \in ControlIds : answer'[id] \in {"error", answer[id]},
             pc' = "plan" => pc = "plan" /\ startedAt' = startedAt
      PROVE  RejectionsAreAnswered' /\ RejectionTakesEffect'
  <2>1. \A c \in asked' : InForce(c)' => c \in asked /\ InForce(c)
    BY <1>0, <1>1 DEF InForce
  <2>2. \A id \in ControlIds : answer'[id] # "none" \/ answer'[id] = answer[id]
    BY <1>1
  <2> QED BY <1>1, <2>1, <2>2, RejectionsKept
<1>2. ASSUME NEW d \in Commands, SubmitControl(d) PROVE RejectionsAreAnswered' /\ RejectionTakesEffect'
  <2>1. d.id \in Requests \ submitted
    BY <1>0, <1>2 DEF SubmitControl, Requests
  <2>2. answer[d.id] = "none" /\ answer' = answer /\ asked' = asked \cup {d}
    BY <1>0, <1>2, <2>1 DEF SubmitControl, RequestsAreSubmitted
  <2>3. \A c \in asked' : InForce(c)' => c \in asked /\ InForce(c)
    BY <2>2 DEF InForce
  <2>4. UNCHANGED <<active, feedback, world, pc, startedAt>>
    BY <1>2 DEF SubmitControl, engineVars, trackerVars, stateVars, callVars
  <2> QED BY <2>2, <2>3, <2>4, RejectionsKept
<1>3. CASE WorkStep
  <2>1. /\ world'.rejectedAt = world.rejectedAt
        /\ feedback' \subseteq feedback \cup ({"USER_REPLIED"} \X ObsIds)
        /\ active' # None => active' = active \/ (pc = "plan" /\ active'.startedAt = startedAt)
        /\ pc' = "plan" => startedAt' = now
    BY <1>3, CallStepEffect DEF WorkStep, RunnerInv
  <2>2. asked' = asked /\ answer' = answer
    BY <1>3 DEF WorkStep, runnerVars
  <2>3. \A id \in ControlIds : <<"USER_REJECTED", id>> \in feedback' => <<"USER_REJECTED", id>> \in feedback
    BY <2>1
  <2>4. \A c \in asked' : InForce(c)' => c \in asked /\ InForce(c)
    BY <2>2 DEF InForce
  <2> QED BY <2>1, <2>2, <2>3, <2>4, RejectionsKept
<1>4. CASE CommitControl
  BY <1>4, CommitInForce
<1>5. CASE \/ \E o \in Inputs : SubmitObservation(o)
           \/ \E id \in ObsIds : CancelRequest(id)
           \/ CancelRun \/ TimePasses \/ BusyStop \/ StopAllReturns \/ PollControls \/ UNCHANGED vars
  BY <1>1, <1>5 DEF SubmitObservation, CancelRequest, CancelRun, TimePasses, BusyStop, StopAllReturns, PollControls,
                    TakeControl, CancelActive, vars, runnerVars, engineVars, trackerVars, stateVars, callVars
<1>6. CASE PollWork \/ SelectIdle
  <2>1. ASSUME obsQ # <<>>, StartObservation(Head(obsQ))
        PROVE  /\ \A id \in ControlIds : answer'[id] = answer[id]
               /\ UNCHANGED <<active, feedback, world>> /\ (pc' = "plan" => pc = "plan" /\ startedAt' = startedAt)
    <3>1. Head(obsQ).id \in ObsIds /\ Head(obsQ).id \in Requests
      BY <2>1, HeadFacts DEF Requests
    <3>2. CASE Head(obsQ).id \in ctxDone
      <4>1. \A r \in Requests : r # Head(obsQ).id => answer'[r] = answer[r]
        BY <1>0, <2>1, <3>1, <3>2, AnswerType DEF StartObservation
      <4> QED BY <1>0, <2>1, <3>1, <3>2, <4>1
              DEF StartObservation, Requests, engineVars, trackerVars, stateVars, callVars
    <3>3. CASE Head(obsQ).id \notin ctxDone
      BY <2>1, <3>3 DEF StartObservation, Call, trackerVars, stateVars
    <3> QED BY <3>2, <3>3
  <2>2. ASSUME StartWakeup
        PROVE  UNCHANGED <<active, feedback, world>> /\ (pc' = "plan" => pc = "plan" /\ startedAt' = startedAt)
    BY <2>2 DEF StartWakeup, Call, trackerVars, stateVars
  <2> QED BY <1>1, <1>6, <2>1, <2>2 DEF PollWork, SelectIdle, TakeControl, CancelActive, engineVars, trackerVars,
                                        stateVars, callVars
<1>7. CASE SelectBusy \/ JoinCancelled \/ Halt
  <2>1. ASSUME work # None, JoinWork
        PROVE  /\ \A id \in ControlIds : answer'[id] = answer[id]
               /\ UNCHANGED <<active, feedback, world>> /\ pc' # "plan"
    BY <1>0, <2>1, JoinType DEF Requests, trackerVars, stateVars
  <2>2. runPc \in {"busy", "join"} => work # None
    BY <1>0 DEF LoopInv
  <2> QED BY <1>1, <1>7, <2>1, <2>2 DEF SelectBusy, JoinCancelled, Halt, TakeControl, CancelActive, engineVars,
                                        trackerVars, stateVars, callVars
<1>8. CASE RejectQueued
  <2>1. /\ obsQ # <<>> => Head(obsQ).id \in Requests
        /\ ctlQ # <<>> => Head(ctlQ).id \in Requests
    BY HeadFacts DEF Requests
  <2>2. \A id \in ControlIds : answer'[id] \in {"error", answer[id]}
    BY <1>0, <1>8, <2>1, AnswerType DEF RejectQueued, Requests
  <2> QED BY <1>1, <1>8, <2>2 DEF RejectQueued, engineVars, trackerVars, stateVars, callVars
<1> QED BY <1>2, <1>3, <1>4, <1>5, <1>6, <1>7, <1>8 DEF Next, RunLoop

-----------------------------------------------------------------------------
(* The theorems                                                            *)

\* The runner starts in the invariant.
LEMMA RunnerInitInv == Init => RunnerInv
<1> SUFFICES ASSUME Init PROVE RunnerInv
  OBVIOUS
<1>1. EngineInv
  BY EngineInitInv DEF Init
<1>2. RunnerTypeOK
  <2>1. obsQ \in Seq(Inputs) /\ ctlQ \in Seq(Commands) /\ Len(obsQ) = 0 /\ Len(ctlQ) = 0
    BY DEF Init
  <2>2. Len(obsQ) <= ObservationCapacity /\ Len(ctlQ) <= ControlCapacity
    BY <2>1, RunnerAssumption
  <2>3. /\ answer \in [Requests -> {"none", "nil", "canceled", "error", "stop"}]
        /\ overtaken \in [ControlIds -> Nat]
    BY DEF Init
  <2>4. /\ runPc = "poll" /\ work = None /\ sched = None /\ request = None
        /\ stopErr = FALSE /\ workErr = FALSE /\ runCtxDone = FALSE
        /\ submitted = {} /\ ctxDone = {} /\ asked = {}
    BY DEF Init
  <2> QED BY <2>1, <2>2, <2>3, <2>4 DEF RunnerTypeOK
<1>3. LoopInv /\ DeadlinesAreBounded /\ TimerFollows
  BY NotNone DEF Init, EngineInit, LoopInv, DeadlinesAreBounded, TimerFollows, Armed
<1>4. RequestsAreSubmitted /\ OvertakenOnce
  <2>1. /\ submitted = {} /\ asked = {} /\ request = None
        /\ 1..Len(obsQ) = {} /\ 1..Len(ctlQ) = {}
        /\ answer = [r \in Requests |-> "none"] /\ overtaken = [c \in ControlIds |-> 0]
        /\ runPc = "poll"
    BY DEF Init
  <2> QED BY <2>1 DEF RequestsAreSubmitted, OvertakenOnce
<1>5. RejectionsAreAnswered /\ RejectionTakesEffect
  BY DEF Init, EngineInit, TrackerInit, RejectionsAreAnswered, RejectionTakesEffect
<1> QED BY <1>1, <1>2, <1>3, <1>4, <1>5 DEF RunnerInv

\* Every step of the runner keeps the invariant.
LEMMA RunnerStep == RunnerInv /\ [Next]_vars => RunnerInv'
<1> SUFFICES ASSUME RunnerInv, [Next]_vars PROVE RunnerInv'
  OBVIOUS
<1>1. EngineInv'
  BY StepIsEngineStep, EngineStep DEF RunnerInv
<1>2. RunnerTypeOK' /\ LoopInv' /\ DeadlinesAreBounded'
  BY <1>1, TypeStep, LoopStep, DeadlineStep
<1>3. TimerFollows' /\ RequestsAreSubmitted' /\ OvertakenOnce'
  BY <1>1, TimerStep, RequestsStep, OvertakenStep
<1>4. RejectionsAreAnswered' /\ RejectionTakesEffect'
  BY RejectionStep
<1> QED BY <1>1, <1>2, <1>3, <1>4 DEF RunnerInv

\* The inductive invariant of the runner and its engine, for any queues, clients,
\* commands and cancellations: types, the position of the loop, the requests it
\* holds, the timer, and the rejections in force.
THEOREM RunnerInvariant == Spec => []RunnerInv
BY RunnerInitInv, RunnerStep, PTL DEF Spec

\* Runner.Run is a caller the engine accepts: it never overlaps two calls and
\* commits no rejection while one is in flight.  Everything proved of EngineSpec
\* therefore holds of the composed system.
THEOREM RunnerRespectsSingleWriter == Spec => RespectsSingleWriter
<1>1. Init => EngineInit
  BY DEF Init
<1>2. RunnerInv /\ [Next]_vars => [EngineNext]_engineVars
  BY StepIsEngineStep
<1> QED BY <1>1, <1>2, RunnerInvariant, PTL DEF Spec, RespectsSingleWriter, EngineSpec

\* A runner about to block has its one timer armed for exactly the engine's
\* continuation: refreshWakeup is called on every way that changes it.
THEOREM RunnerWakeupIsArmed == Spec => []WakeupIsArmed
<1>1. RunnerInv => WakeupIsArmed
  BY DEF RunnerInv, LoopInv, TimerFollows, Armed, WakeupIsArmed
<1> QED BY <1>1, RunnerInvariant, PTL

\* P0 priority: at most one piece of work starts between a control's entry into
\* its queue and the loop taking it.
THEOREM RunnerControlOvertakenAtMostOnce == Spec => []ControlOvertakenAtMostOnce
<1>1. RunnerInv => ControlOvertakenAtMostOnce
  BY DEF RunnerInv, OvertakenOnce, ControlOvertakenAtMostOnce
<1> QED BY <1>1, RunnerInvariant, PTL

\* A rejection that handleControl answered without a commit error is in force
\* for good: its cooldown is kept and no episode from before it is active.
THEOREM RunnerRejectionTakesEffect == Spec => []RejectionTakesEffect
<1>1. RunnerInv => RejectionTakesEffect
  BY DEF RunnerInv
<1> QED BY <1>1, RunnerInvariant, PTL

-----------------------------------------------------------------------------
(* Requests and their answers                                              *)

Ids(q) == {q[i].id : i \in 1..Len(q)}
Once(q) == \A i, j \in 1..Len(q) : q[i].id = q[j].id => i = j

\* The observation in work and the command being handled.
InWork == IF work = "observation" THEN {arg.id} ELSE {}
InCommand == IF request = None THEN {} ELSE {request.id}

\* The requests the runner still owes an answer.
Owed == Ids(obsQ) \cup Ids(ctlQ) \cup InWork \cup InCommand

\* A request is in one place.
RequestsHeldOnce ==
    /\ Once(obsQ) /\ Once(ctlQ)
    /\ Ids(obsQ) \cap InWork = {} /\ Ids(ctlQ) \cap InCommand = {}

\* No submitted request is lost, and none that was answered is kept: its response
\* channel takes one value, and a second one would block the loop.
RequestsAreOwedOrAnswered ==
    \A r \in submitted : r \in Owed <=> answer[r] = "none"

OwedInv == RequestsHeldOnce /\ RequestsAreOwedOrAnswered

\* Taking the head of a queue takes its identity out of it.
LEMMA IdsOfTail ==
    ASSUME NEW S, NEW q \in Seq(S), q # <<>>, Once(q)
    PROVE  Once(Tail(q)) /\ Ids(Tail(q)) = Ids(q) \ {Head(q).id} /\ Head(q).id \in Ids(q)
<1> DEFINE t == Tail(q)
<1>1. /\ 1 \in 1..Len(q) /\ Head(q) = q[1] /\ Len(t) = Len(q) - 1 /\ Len(q) \in Nat
      /\ \A i \in 1..Len(t) : i + 1 \in 1..Len(q) /\ t[i] = q[i + 1]
  BY QueueHead
<1> HIDE DEF t
<1>2. ASSUME NEW i \in 1..Len(t), NEW j \in 1..Len(t), t[i].id = t[j].id PROVE i = j
  <2>1. i + 1 = j + 1
    BY <1>1, <1>2 DEF Once
  <2> QED BY <1>1, <2>1
<1>3. ASSUME NEW i \in 1..Len(t) PROVE t[i].id \in Ids(q) /\ t[i].id # Head(q).id
  <2>1. PICK k \in 1..Len(q) : k # 1 /\ t[i] = q[k]
    BY <1>1
  <2> QED BY <1>1, <2>1 DEF Once, Ids
<1>4. ASSUME NEW k \in 1..Len(q), k # 1 PROVE q[k].id \in Ids(t)
  <2>1. PICK i \in 1..Len(t) : i = k - 1
    BY <1>1, <1>4
  <2>2. i + 1 = k /\ t[i] = q[k]
    BY <1>1, <2>1
  <2> QED BY <2>2 DEF Ids
<1>5. ASSUME NEW x \in Ids(t) PROVE x \in Ids(q) \ {Head(q).id}
  <2>1. PICK i \in 1..Len(t) : x = t[i].id
    BY <1>5 DEF Ids
  <2> QED BY <1>3, <2>1
<1>6. ASSUME NEW x \in Ids(q) \ {Head(q).id} PROVE x \in Ids(t)
  <2>1. PICK k \in 1..Len(q) : x = q[k].id
    BY <1>6 DEF Ids
  <2>2. k # 1
    BY <1>1, <1>6, <2>1
  <2> QED BY <1>4, <2>1, <2>2
<1>7. Ids(t) = Ids(q) \ {Head(q).id}
  BY <1>5, <1>6
<1> QED BY <1>1, <1>2, <1>7 DEF Once, Ids, t

\* Entering a queue adds the identity.
LEMMA IdsOfAppend ==
    ASSUME NEW S, NEW q \in Seq(S), NEW e \in S, Once(q), e.id \notin Ids(q)
    PROVE  Once(Append(q, e)) /\ Ids(Append(q, e)) = Ids(q) \cup {e.id}
<1> DEFINE t == Append(q, e)
<1>1. /\ Len(q) \in Nat /\ Len(t) = Len(q) + 1 /\ t[Len(q) + 1] = e
      /\ \A i \in 1..Len(q) : t[i] = q[i]
  BY LenProperties, AppendProperties
<1> HIDE DEF t
<1>2. ASSUME NEW i \in 1..Len(t)
      PROVE  (i \in 1..Len(q) /\ t[i] = q[i]) \/ (i = Len(q) + 1 /\ t[i] = e)
  <2>1. CASE i \in 1..Len(q)
    BY <1>1, <2>1
  <2>2. CASE i = Len(q) + 1
    BY <1>1, <2>2
  <2> QED BY <1>1, <2>1, <2>2
<1>3. \A i \in 1..Len(q) : q[i].id # e.id
  BY DEF Ids
<1>4. Once(t)
  BY <1>2, <1>3 DEF Once
<1>5. Ids(t) \subseteq Ids(q) \cup {e.id}
  BY <1>2 DEF Ids
<1>6. Ids(q) \subseteq Ids(t) /\ e.id \in Ids(t)
  <2>1. 1..Len(q) \subseteq 1..Len(t) /\ Len(q) + 1 \in 1..Len(t)
    BY <1>1
  <2> QED BY <1>1, <2>1 DEF Ids
<1> QED BY <1>4, <1>5, <1>6 DEF t

\* Observations and commands have different identities, so the places of the one
\* never hold the other.
LEMMA PlacesAreTyped ==
    ASSUME RunnerInv
    PROVE  /\ Ids(obsQ) \subseteq ObsIds \cap submitted /\ InWork \subseteq ObsIds \cap submitted
           /\ Ids(ctlQ) \subseteq ControlIds \cap submitted /\ InCommand \subseteq ControlIds \cap submitted
           /\ ObsIds \cap ControlIds = {} /\ ObsIds \subseteq Requests /\ ControlIds \subseteq Requests
<1>1. \A o \in Inputs : o.id \in ObsIds
  BY InputAssumption DEF Observation
<1>2. \A c \in Commands : c.id \in ControlIds
  BY RunnerAssumption DEF Command
<1>3. /\ obsQ \in Seq(Inputs) /\ ctlQ \in Seq(Commands)
      /\ request # None => request \in Commands
      /\ asked \subseteq Commands
  BY DEF RunnerInv, RunnerTypeOK
<1>4. \A i \in 1..Len(obsQ) : obsQ[i] \in Inputs /\ obsQ[i].id \in submitted
  BY <1>3, ElementOfSeq DEF RunnerInv, RequestsAreSubmitted
<1>5. \A i \in 1..Len(ctlQ) : ctlQ[i] \in Commands /\ ctlQ[i].id \in submitted
  BY <1>3, ElementOfSeq DEF RunnerInv, RequestsAreSubmitted
<1>6. request # None => request.id \in submitted
  BY DEF RunnerInv, RequestsAreSubmitted
<1>7. work = "observation" => arg \in Inputs /\ arg.id \in submitted
  BY DEF RunnerInv, LoopInv
<1> QED BY <1>1, <1>2, <1>3, <1>4, <1>5, <1>6, <1>7, RunnerAssumption DEF Ids, InWork, InCommand, Requests

\* A step that only moves requests between their places.
LEMMA OwedMoved ==
    ASSUME OwedInv, RequestsHeldOnce', Owed' = Owed, UNCHANGED <<submitted, answer>>
    PROVE  OwedInv'
BY DEF OwedInv, RequestsAreOwedOrAnswered

\* A step that lets go of one request and answers it.
LEMMA OwedAnswered ==
    ASSUME RunnerInv, OwedInv, RequestsHeldOnce', NEW id \in Requests,
           NEW v \in {"nil", "canceled", "error", "stop"}, Answer(id, v),
           Owed' = Owed \ {id}, UNCHANGED submitted
    PROVE  OwedInv'
<1>1. answer'[id] = v /\ \A r \in Requests : r # id => answer'[r] = answer[r]
  BY AnswerType DEF RunnerInv
<1>2. submitted \subseteq Requests
  BY DEF RunnerInv, RunnerTypeOK
<1>3. ASSUME NEW r \in submitted PROVE r \in Owed' <=> answer'[r] = "none"
  <2>1. CASE r = id
    BY <1>1, <2>1
  <2>2. CASE r # id
    BY <1>1, <1>2, <2>2 DEF OwedInv, RequestsAreOwedOrAnswered
  <2> QED BY <2>1, <2>2
<1> QED BY <1>3 DEF OwedInv, RequestsAreOwedOrAnswered

\* handleControl takes the request out of its queue.
LEMMA OwedTakeControl ==
    ASSUME RunnerInv, OwedInv, request = None, TakeControl, UNCHANGED <<obsQ, work, submitted, answer>>
    PROVE  OwedInv'
<1>1. arg' = arg /\ ctlQ # <<>> /\ ctlQ' = Tail(ctlQ) /\ request' = Head(ctlQ) /\ request' # None
  BY HeadFacts DEF TakeControl, CancelActive
<1>2. Once(ctlQ') /\ Ids(ctlQ') = Ids(ctlQ) \ {Head(ctlQ).id} /\ Head(ctlQ).id \in Ids(ctlQ)
  BY <1>1, IdsOfTail DEF RunnerInv, RunnerTypeOK, OwedInv, RequestsHeldOnce
<1>3. InWork' = InWork /\ InCommand = {} /\ InCommand' = {Head(ctlQ).id} /\ Ids(obsQ)' = Ids(obsQ)
  BY <1>1 DEF InWork, InCommand
<1>4. RequestsHeldOnce' /\ Owed' = Owed
  BY <1>2, <1>3 DEF OwedInv, RequestsHeldOnce, Owed
<1> QED BY <1>4, OwedMoved

\* startObservation takes the request out of its queue, into work or back to its
\* client.
LEMMA OwedStart ==
    ASSUME RunnerInv, OwedInv, work = None, obsQ # <<>>, obsQ' = Tail(obsQ),
           StartObservation(Head(obsQ)), UNCHANGED <<ctlQ, request, submitted>>
    PROVE  OwedInv'
<1> DEFINE id == Head(obsQ).id
<1>1. Once(obsQ') /\ Ids(obsQ') = Ids(obsQ) \ {id} /\ id \in Ids(obsQ)
  BY IdsOfTail DEF RunnerInv, RunnerTypeOK, OwedInv, RequestsHeldOnce
<1>2. InWork = {} /\ InCommand' = InCommand /\ Ids(ctlQ)' = Ids(ctlQ)
  BY NotNone DEF InWork, InCommand
<1>3. id \in Requests /\ id \notin Ids(ctlQ) /\ id \notin InCommand
  BY <1>1, PlacesAreTyped
<1>4. CASE id \in ctxDone
  <2>1. Answer(id, "canceled") /\ work' = work
    BY <1>4 DEF StartObservation
  <2>2. InWork' = {}
    BY <2>1, NotNone DEF InWork
  <2> HIDE DEF id
  <2>3. RequestsHeldOnce' /\ Owed' = Owed \ {id}
    BY <1>1, <1>2, <1>3, <2>2 DEF OwedInv, RequestsHeldOnce, Owed
  <2> QED BY <1>3, <2>1, <2>3, OwedAnswered
<1>5. CASE id \notin ctxDone
  <2>1. work' = "observation" /\ arg' = Head(obsQ) /\ answer' = answer
    BY <1>5 DEF StartObservation, Call
  <2>2. InWork' = {id}
    BY <2>1 DEF InWork
  <2> HIDE DEF id
  <2>3. RequestsHeldOnce' /\ Owed' = Owed
    BY <1>1, <1>2, <2>2 DEF OwedInv, RequestsHeldOnce, Owed
  <2> QED BY <2>1, <2>3, OwedMoved
<1> QED BY <1>4, <1>5

\* A wakeup is nobody's request.
LEMMA OwedStartWakeup ==
    ASSUME OwedInv, work = None, StartWakeup, UNCHANGED <<obsQ, ctlQ, request, submitted, answer>>
    PROVE  OwedInv'
<1>1. InWork = {} /\ InWork' = {}
  BY NotNone DEF StartWakeup, InWork
<1>2. InCommand' = InCommand /\ Ids(obsQ)' = Ids(obsQ) /\ Ids(ctlQ)' = Ids(ctlQ)
  BY DEF InCommand
<1> QED BY <1>1, <1>2, OwedMoved DEF OwedInv, RequestsHeldOnce, Owed

\* finish hands an observation's result to its client.
LEMMA OwedJoin ==
    ASSUME RunnerInv, OwedInv, work # None, JoinWork, UNCHANGED <<obsQ, ctlQ, request, submitted>>
    PROVE  OwedInv'
<1>1. work' = None /\ InWork' = {}
  BY NotNone DEF JoinWork, InWork
<1>2. InCommand' = InCommand /\ Ids(obsQ)' = Ids(obsQ) /\ Ids(ctlQ)' = Ids(ctlQ)
  BY DEF InCommand
<1>3. RequestsHeldOnce'
  BY <1>1, <1>2 DEF OwedInv, RequestsHeldOnce
<1>4. CASE work = "observation"
  <2> DEFINE id == arg.id
  <2>1. InWork = {id}
    BY <1>4 DEF InWork
  <2>2. Answer(id, err) /\ err \in {"nil", "canceled", "error"}
    BY <1>4 DEF JoinWork, RunnerInv, EngineInv, EngineTypeOK
  <2> HIDE DEF id
  <2>3. id \in Requests /\ id \notin Ids(ctlQ) /\ id \notin InCommand /\ id \notin Ids(obsQ)
    BY <2>1, PlacesAreTyped DEF OwedInv, RequestsHeldOnce
  <2>4. Owed' = Owed \ {id}
    BY <1>1, <1>2, <2>1, <2>3 DEF Owed
  <2> QED BY <1>3, <2>2, <2>3, <2>4, OwedAnswered
<1>5. CASE work # "observation"
  <2>1. InWork = {} /\ answer' = answer
    BY <1>5 DEF InWork, JoinWork
  <2>2. Owed' = Owed
    BY <1>1, <1>2, <2>1 DEF Owed
  <2> QED BY <1>3, <2>1, <2>2, OwedMoved
<1> QED BY <1>4, <1>5

\* Every step of the runner keeps each request until it is answered.
LEMMA OwedStep ==
    ASSUME RunnerInv, OwedInv, [Next]_vars
    PROVE  OwedInv'
<1>0. /\ obsQ \in Seq(Inputs) /\ ctlQ \in Seq(Commands) /\ submitted \subseteq Requests
      /\ runPc \in {"idle", "select", "commit", "drain", "drainControls", "done"} => work = None
      /\ runPc \in {"busy", "join"} => work # None
      /\ request # None <=> runPc \in {"stop", "join", "commit"}
  BY DEF RunnerInv, RunnerTypeOK, LoopInv
<1>1. ASSUME UNCHANGED <<obsQ, ctlQ, request, work, arg, submitted, answer>> PROVE OwedInv'
  BY <1>1 DEF OwedInv, RequestsHeldOnce, RequestsAreOwedOrAnswered, Owed, Ids, Once, InWork, InCommand
<1>2. ASSUME NEW o \in Inputs, SubmitObservation(o) PROVE OwedInv'
  <2> DEFINE id == o.id
  <2>1. /\ obsQ' = Append(obsQ, o) /\ submitted' = submitted \cup {id} /\ id \notin submitted
        /\ UNCHANGED <<ctlQ, request, work, arg, answer>>
    BY <1>2 DEF SubmitObservation, engineVars, callVars
  <2>2. id \notin Owed /\ id \in Requests
    BY <2>1, PlacesAreTyped, InputAssumption DEF Owed, Observation, Requests
  <2>3. answer[id] = "none"
    BY <2>1, <2>2 DEF RunnerInv, RequestsAreSubmitted
  <2>4. Once(obsQ') /\ Ids(obsQ') = Ids(obsQ) \cup {id}
    BY <1>0, <2>1, <2>2, IdsOfAppend DEF OwedInv, RequestsHeldOnce, Owed
  <2>5. InWork' = InWork /\ InCommand' = InCommand /\ Ids(ctlQ)' = Ids(ctlQ) /\ Once(ctlQ)' = Once(ctlQ)
    BY <2>1 DEF InWork, InCommand
  <2> HIDE DEF id
  <2>6. RequestsHeldOnce' /\ Owed' = Owed \cup {id}
    BY <2>2, <2>4, <2>5 DEF OwedInv, RequestsHeldOnce, Owed
  <2> QED BY <2>1, <2>3, <2>6 DEF OwedInv, RequestsAreOwedOrAnswered
<1>3. ASSUME NEW c \in Commands, SubmitControl(c) PROVE OwedInv'
  <2> DEFINE id == c.id
  <2>1. /\ ctlQ' = Append(ctlQ, c) /\ submitted' = submitted \cup {id} /\ id \notin submitted
        /\ UNCHANGED <<obsQ, request, work, arg, answer>>
    BY <1>3 DEF SubmitControl, engineVars, callVars
  <2>2. id \notin Owed /\ id \in Requests
    BY <2>1, PlacesAreTyped, RunnerAssumption DEF Owed, Command, Requests
  <2>3. answer[id] = "none"
    BY <2>1, <2>2 DEF RunnerInv, RequestsAreSubmitted
  <2>4. Once(ctlQ') /\ Ids(ctlQ') = Ids(ctlQ) \cup {id}
    BY <1>0, <2>1, <2>2, IdsOfAppend DEF OwedInv, RequestsHeldOnce, Owed
  <2>5. InWork' = InWork /\ InCommand' = InCommand /\ Ids(obsQ)' = Ids(obsQ) /\ Once(obsQ)' = Once(obsQ)
    BY <2>1 DEF InWork, InCommand
  <2> HIDE DEF id
  <2>6. RequestsHeldOnce' /\ Owed' = Owed \cup {id}
    BY <2>2, <2>4, <2>5 DEF OwedInv, RequestsHeldOnce, Owed
  <2> QED BY <2>1, <2>3, <2>6 DEF OwedInv, RequestsAreOwedOrAnswered
<1>4. CASE \/ \E id \in ObsIds : CancelRequest(id)
           \/ CancelRun \/ TimePasses \/ BusyStop \/ StopAllReturns \/ UNCHANGED vars
  BY <1>1, <1>4 DEF CancelRequest, CancelRun, TimePasses, BusyStop, CancelActive, StopAllReturns, vars,
                    engineVars, callVars, runnerVars
<1>5. CASE WorkStep
  <2>1. arg' = arg
    BY <1>5 DEF WorkStep, CallStep, RefuseObservation, ObserveQuietly, ObserveReply, DecideGreeting,
                PlanFails, StartEpisode, CompleteAction, FailAction, OpenWindow, FinishAfter, IgnoreWakeup,
                ExpireWindow
  <2> QED BY <1>1, <1>5, <2>1 DEF WorkStep, runnerVars
<1>6. CASE PollControls
  <2>1. CASE TakeControl /\ UNCHANGED <<obsQ, work, sched, stopErr, workErr, answer, overtaken>>
    BY <1>0, <1>6, <2>1, OwedTakeControl DEF PollControls
  <2>2. CASE ~(TakeControl /\ UNCHANGED <<obsQ, work, sched, stopErr, workErr, answer, overtaken>>)
    BY <1>1, <1>6, <2>2 DEF PollControls, engineVars, callVars
  <2> QED BY <2>1, <2>2
<1>7. CASE PollWork
  <2>1. CASE obsQ # <<>> /\ obsQ' = Tail(obsQ) /\ StartObservation(Head(obsQ))
    BY <1>0, <1>7, <2>1, OwedStart DEF PollWork
  <2>2. CASE StartWakeup /\ UNCHANGED <<obsQ, answer>>
    BY <1>0, <1>7, <2>2, OwedStartWakeup DEF PollWork
  <2>3. CASE UNCHANGED <<engineVars, obsQ, work, sched, answer, overtaken>>
    BY <1>1, <1>7, <2>3 DEF PollWork, engineVars, callVars
  <2> QED BY <1>7, <2>1, <2>2, <2>3 DEF PollWork
<1>8. CASE SelectIdle
  <2>1. CASE TakeControl /\ UNCHANGED <<obsQ, work, sched, answer, overtaken>>
    BY <1>0, <1>8, <2>1, OwedTakeControl DEF SelectIdle
  <2>2. CASE obsQ # <<>> /\ obsQ' = Tail(obsQ) /\ StartObservation(Head(obsQ)) /\ UNCHANGED <<ctlQ, sched, request>>
    BY <1>0, <1>8, <2>2, OwedStart DEF SelectIdle
  <2>3. CASE UNCHANGED <<engineVars, obsQ, ctlQ, work, request, answer, overtaken>>
    BY <1>1, <1>8, <2>3 DEF SelectIdle, engineVars, callVars
  <2> QED BY <1>8, <2>1, <2>2, <2>3 DEF SelectIdle
<1>9. CASE SelectBusy
  <2>1. CASE TakeControl /\ UNCHANGED <<work, sched, workErr, answer>>
    BY <1>0, <1>9, <2>1, OwedTakeControl DEF SelectBusy
  <2>2. CASE JoinWork /\ UNCHANGED <<ctlQ, request>>
    BY <1>0, <1>9, <2>2, OwedJoin DEF SelectBusy
  <2> QED BY <1>9, <2>1, <2>2 DEF SelectBusy
<1>10. CASE JoinCancelled
  BY <1>0, <1>10, OwedJoin DEF JoinCancelled
<1>11. CASE Halt
  <2>1. CASE work = None /\ UNCHANGED <<engineVars, work, workErr, answer>>
    BY <1>1, <1>11, <2>1 DEF Halt, engineVars, callVars
  <2>2. CASE work # None /\ JoinWork
    BY <1>11, <2>2, OwedJoin DEF Halt
  <2> QED BY <1>11, <2>1, <2>2 DEF Halt
<1>12. CASE CommitControl
  <2> DEFINE id == request.id
             v == IF request.reason = "USER_REJECTED" /\ (runCtxDone \/ request.subject # Subject)
                  THEN "error" ELSE IF stopErr THEN "stop" ELSE "nil"
  <2>1. /\ Answer(id, v) /\ v \in {"nil", "canceled", "error", "stop"}
        /\ request # None /\ request' = None /\ UNCHANGED <<obsQ, ctlQ, work, arg, submitted>>
    BY <1>0, <1>12 DEF CommitControl, callVars
  <2>2. InCommand = {id} /\ InCommand' = {} /\ InWork' = InWork /\ Ids(obsQ)' = Ids(obsQ) /\ Ids(ctlQ)' = Ids(ctlQ)
    BY <2>1 DEF InCommand, InWork
  <2> HIDE DEF id, v
  <2>3. id \in Requests /\ id \notin Ids(ctlQ) /\ id \notin InWork /\ id \notin Ids(obsQ)
    BY <2>2, PlacesAreTyped DEF OwedInv, RequestsHeldOnce
  <2>4. RequestsHeldOnce' /\ Owed' = Owed \ {id}
    BY <2>1, <2>2, <2>3 DEF OwedInv, RequestsHeldOnce, Owed
  <2> QED BY <2>1, <2>3, <2>4, OwedAnswered
<1>13. CASE RejectQueued
  <2>0. UNCHANGED <<request, work, arg, submitted>> /\ InWork' = InWork /\ InCommand' = InCommand
    BY <1>13 DEF RejectQueued, engineVars, callVars, InWork, InCommand
  <2>1. CASE obsQ # <<>> /\ Answer(Head(obsQ).id, "error") /\ obsQ' = Tail(obsQ) /\ ctlQ' = ctlQ
    <3> DEFINE id == Head(obsQ).id
    <3>1. Once(obsQ') /\ Ids(obsQ') = Ids(obsQ) \ {id} /\ id \in Ids(obsQ)
      BY <1>0, <2>1, IdsOfTail DEF OwedInv, RequestsHeldOnce
    <3> HIDE DEF id
    <3>2. id \in Requests /\ id \notin Ids(ctlQ) /\ id \notin InWork /\ id \notin InCommand
      BY <3>1, PlacesAreTyped DEF OwedInv, RequestsHeldOnce
    <3>3. RequestsHeldOnce' /\ Owed' = Owed \ {id}
      BY <2>0, <2>1, <3>1, <3>2 DEF OwedInv, RequestsHeldOnce, Owed
    <3> QED BY <2>0, <2>1, <3>2, <3>3, OwedAnswered DEF id
  <2>2. CASE ctlQ # <<>> /\ Answer(Head(ctlQ).id, "error") /\ ctlQ' = Tail(ctlQ) /\ obsQ' = obsQ
    <3> DEFINE id == Head(ctlQ).id
    <3>1. Once(ctlQ') /\ Ids(ctlQ') = Ids(ctlQ) \ {id} /\ id \in Ids(ctlQ)
      BY <1>0, <2>2, IdsOfTail DEF OwedInv, RequestsHeldOnce
    <3> HIDE DEF id
    <3>2. id \in Requests /\ id \notin Ids(obsQ) /\ id \notin InWork /\ id \notin InCommand
      BY <3>1, PlacesAreTyped DEF OwedInv, RequestsHeldOnce
    <3>3. RequestsHeldOnce' /\ Owed' = Owed \ {id}
      BY <2>0, <2>2, <3>1, <3>2 DEF OwedInv, RequestsHeldOnce, Owed
    <3> QED BY <2>0, <2>2, <3>2, <3>3, OwedAnswered DEF id
  <2>3. CASE UNCHANGED <<obsQ, ctlQ, answer>>
    BY <1>1, <2>0, <2>3
  <2> QED BY <1>13, <2>1, <2>2, <2>3 DEF RejectQueued
<1> QED BY <1>2, <1>3, <1>4, <1>5, <1>6, <1>7, <1>8, <1>9, <1>10, <1>11, <1>12, <1>13 DEF Next, RunLoop

\* The safety half of EveryRequestReturns: a submitted request is in exactly one
\* place of the runner (its queue, the work, the command being handled) until the
\* step that answers it, and in none afterwards.  So none is dropped between two
\* queues, by a cancellation or by the drain, and no response channel, which takes one
\* value, is ever sent a second one.
THEOREM RunnerRequestsAreOwedOrAnswered == Spec => [](RequestsHeldOnce /\ RequestsAreOwedOrAnswered)
<1>1. Init => OwedInv
  <2> SUFFICES ASSUME Init PROVE OwedInv
    OBVIOUS
  <2>1. 1..Len(obsQ) = {} /\ 1..Len(ctlQ) = {} /\ submitted = {} /\ request = None /\ work = None
    BY DEF Init
  <2> QED BY <2>1, NotNone
          DEF OwedInv, RequestsHeldOnce, RequestsAreOwedOrAnswered, Owed, Ids, Once, InWork, InCommand
<1>2. RunnerInv /\ OwedInv /\ [Next]_vars => OwedInv'
  BY OwedStep
<1> QED BY <1>1, <1>2, RunnerInvariant, PTL DEF Spec, OwedInv

\* Behind its queues, timer and drain the runner keeps the interaction's lifecycle:
\* every behaviour of the composed system is one of InteractionLifecycle.
THEOREM RunnerImplementsLifecycle == Spec => ImplementsLifecycle
BY RunnerRespectsSingleWriter, EngineImplementsLifecycle, PTL DEF RespectsSingleWriter

\* What the tracker and the engine promise to a sequential caller holds while
\* observations, controls, wakeups and the shutdown race for the loop: no episode
\* is dropped without an outcome, no fact counts twice, and every outcome is timely.
THEOREM RunnerKeepsPromises ==
    Spec => /\ []OneOutcomePerFact /\ EpisodeEndsWithOutcome
            /\ []WindowCopiesAgree /\ []DueWakeupExpires
            /\ []GreetingRespectsCooldowns /\ OutcomesAreTimely
<1>1. Spec => EngineSpec
  BY RunnerRespectsSingleWriter DEF RespectsSingleWriter
<1>2. EngineSpec => []OneOutcomePerFact /\ EpisodeEndsWithOutcome
  BY EngineUsesTracker, TrackerOneOutcomePerFact, TrackerEpisodeEndsWithOutcome, PTL
<1> QED BY <1>1, <1>2, EngineWindowCopiesAgree, EngineDueWakeupExpires, EngineGreetingRespectsCooldowns,
           EngineOutcomesAreTimely, PTL
=============================================================================
