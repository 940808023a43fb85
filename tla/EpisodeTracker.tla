--------------------------- MODULE EpisodeTracker ---------------------------
(***************************************************************************)
(* internal/domain/episode: the Tracker that owns the one interaction      *)
(* episode that feedback can target, its response window, and the memory   *)
(* of the feedback facts it has already consumed.                          *)
(*                                                                         *)
(* Identities.  The code derives every identity by prefixing: the episode  *)
(* is "episode:interaction:evt:<observation>:PERSON_RETURNED", its wakeup  *)
(* token "wakeup:<episode>:user.reply", a feedback fact                    *)
(* "evt:<source>:<KIND>".  The prefixing is injective, so an episode and   *)
(* its token are named by the observation that triggered them and a        *)
(* feedback fact by the pair <<KIND, source>>.                             *)
(*                                                                         *)
(* Time is a natural number; 0 is Go's zero time.Time.                     *)
(***************************************************************************)
EXTENDS Naturals

CONSTANTS ObsIds,       \* observation identities
          ControlIds,   \* control-command identities
          Subjects,     \* subject identities
          MaxTime,      \* bound: the last instant an input can carry
          Durations,    \* response-window lengths a caller may ask for
          None          \* a nil pointer

Time       == 1..MaxTime
EpisodeIds == ObsIds
Tokens     == EpisodeIds

Episode    == [id : EpisodeIds, subject : Subjects, startedAt : Time]
Window     == [token : Tokens, openedAt : Time, deadline : Nat]
Reply      == [kind : {"USER_REPLIED"}, src : ObsIds, subject : Subjects, at : Time]
Rejection  == [kind : {"USER_REJECTED"}, src : ControlIds, subject : Subjects, at : Time]
Expiration == [episode : EpisodeIds, token : Tokens, subject : Subjects, at : Nat]

FeedbackIds == ({"USER_REPLIED"} \X ObsIds) \cup ({"USER_REJECTED"} \X ControlIds)
FactIds     == FeedbackIds \cup ({"RESPONSE_WINDOW_EXPIRED"} \X Tokens)

Outcome == [episode : EpisodeIds, kind : {"ACCEPTED", "NO_RESPONSE", "REJECTED"},
            fact : FactIds, at : Nat]

ASSUME TrackerAssumption ==
    /\ MaxTime \in Nat \ {0}
    /\ Durations \subseteq Nat
    /\ None \notin Episode
    /\ None \notin Window
    /\ None \notin ObsIds

VARIABLES active,       \* Tracker.active: the episode feedback targets, or None
          window,       \* Tracker.responseWindow, or None
          feedback,     \* Tracker.processedFeedbackEvents: reply and rejection facts
          expirations,  \* Tracker.processedExpirations: expiration facts by token
          outcomes      \* every Outcome the tracker has returned

trackerVars == <<active, window, feedback, expirations, outcomes>>

FactId(f) == <<f.kind, f.src>>

TrackerInit ==
    /\ active = None
    /\ window = None
    /\ feedback = {}
    /\ expirations = {}
    /\ outcomes = {}

-----------------------------------------------------------------------------
\* Seeded fault: the window of the ended episode is left open.
EndActiveKeepsWindow(kind, fact, at) ==
    /\ outcomes' = outcomes \cup
         {[episode |-> active.id, kind |-> kind, fact |-> fact, at |-> at]}
    /\ active' = None
    /\ UNCHANGED window

\* Ends the active episode with one outcome (shared tail of Expire, Accept, Reject).
EndActive(kind, fact, at) ==
    /\ outcomes' = outcomes \cup
         {[episode |-> active.id, kind |-> kind, fact |-> fact, at |-> at]}
    /\ active' = None
    /\ window' = None

\* Start: a different active episode must end first; the same one is idempotent.
StartFails(e) == active # None /\ active # e

Start(e) ==
    /\ active' = IF active = None THEN e ELSE active
    /\ UNCHANGED <<window, feedback, expirations, outcomes>>

\* OpenResponseWindow: the active episode gets its one window, at or after its start.
NewWindow(token, at, duration) ==
    [token |-> token, openedAt |-> at, deadline |-> at + duration]

OpenFails(id, token, at, duration) ==
    \/ active = None
    \/ id # active.id
    \/ duration = 0
    \/ at < active.startedAt
    \/ window # None /\ window # NewWindow(token, at, duration)

OpenResponseWindow(id, token, at, duration) ==
    /\ window' = IF OpenFails(id, token, at, duration)
                 THEN window ELSE NewWindow(token, at, duration)
    /\ UNCHANGED <<active, feedback, expirations, outcomes>>

\* Expire: the tracker ends the episode as NO_RESPONSE, keeps everything, or
\* reports an error; an expiration fact is consumed only when it ends the episode.
ExpirationUsed(x) == \E y \in expirations : y.token = x.token

Correlated(id, x) ==
    /\ active # None /\ window # None
    /\ id = active.id /\ x.subject = active.subject /\ x.token = window.token

ExpireFails(id, x) ==
    \/ x.episode # id
    \/ IF ExpirationUsed(x) THEN x \notin expirations ELSE ~Correlated(id, x)

\* Seeded fault: the expiration has to come after the deadline, not at it.
ExpireEndsLate(id, x) ==
    /\ x.episode = id
    /\ ~ExpirationUsed(x)
    /\ Correlated(id, x)
    /\ x.at > window.deadline

ExpireEnds(id, x) ==
    /\ x.episode = id
    /\ ~ExpirationUsed(x)
    /\ Correlated(id, x)
    /\ x.at >= window.deadline

Expire(id, x) ==
    IF ExpireEnds(id, x)
    THEN /\ EndActive("NO_RESPONSE", <<"RESPONSE_WINDOW_EXPIRED", x.token>>, x.at)
         /\ expirations' = expirations \cup {x}
         /\ UNCHANGED feedback
    ELSE UNCHANGED trackerVars

\* Accept: a reply to the expected episode is consumed once; it ends the
\* episode only inside the half-open window [openedAt, deadline).
AcceptFails(id) == active = None \/ id # active.id

\* Seeded fault: a reply made before the window opened counts.
AcceptEndsEarly(id, r) ==
    /\ ~AcceptFails(id)
    /\ FactId(r) \notin feedback
    /\ window # None
    /\ r.subject = active.subject
    /\ r.at < window.deadline

AcceptEnds(id, r) ==
    /\ ~AcceptFails(id)
    /\ FactId(r) \notin feedback
    /\ window # None
    /\ r.subject = active.subject
    /\ window.openedAt <= r.at /\ r.at < window.deadline

Accept(id, r) ==
    /\ feedback' = IF AcceptFails(id) THEN feedback ELSE feedback \cup {FactId(r)}
    /\ IF AcceptEnds(id, r)
       THEN EndActive("ACCEPTED", FactId(r), r.at)
       ELSE UNCHANGED <<active, window, outcomes>>
    /\ UNCHANGED expirations

\* Seeded fault: the processed-feedback check is missing.
RejectAppliesAlways(r) == TRUE

\* Reject: applied once per fact; ends the active episode of the subject unless
\* the rejection happened before that episode started.
RejectApplies(r) == FactId(r) \notin feedback

RejectEnds(r) ==
    /\ RejectApplies(r)
    /\ active # None
    /\ r.subject = active.subject
    /\ r.at >= active.startedAt

Reject(r) ==
    /\ feedback' = feedback \cup {FactId(r)}
    /\ IF RejectEnds(r)
       THEN EndActive("REJECTED", FactId(r), r.at)
       ELSE UNCHANGED <<active, window, outcomes>>
    /\ UNCHANGED expirations

-----------------------------------------------------------------------------
\* The tracker on its own: a sequential caller that may call any operation
\* with any well-formed argument.
TrackerNext ==
    \/ \E e \in Episode : Start(e)
    \/ \E id \in EpisodeIds, token \in Tokens, at \in Time, duration \in Durations :
         OpenResponseWindow(id, token, at, duration)
    \/ \E id \in EpisodeIds, x \in [episode : EpisodeIds, token : Tokens,
                                    subject : Subjects, at : 1..(MaxTime + 1)] : Expire(id, x)
    \/ \E id \in EpisodeIds, r \in Reply : Accept(id, r)
    \/ \E r \in Rejection : Reject(r)

TrackerSpec == TrackerInit /\ [][TrackerNext]_trackerVars

-----------------------------------------------------------------------------
\* Every variable of the tracker has the shape of the Go field it models.
TrackerTypeOK ==
    /\ active \in Episode \cup {None}
    /\ window \in Window \cup {None}
    /\ feedback \subseteq FeedbackIds
    /\ expirations \subseteq Expiration
    /\ outcomes \subseteq Outcome

\* A response window never outlives its episode, never precedes its start, and
\* is never empty: what Expire and Accept compare timestamps with is meaningful.
WindowBelongsToEpisode ==
    window # None =>
        /\ active # None
        /\ active.startedAt <= window.openedAt
        /\ window.openedAt < window.deadline

\* Every outcome rests on a fact the tracker remembers having consumed, so a
\* redelivered reply, rejection or expiration can never be counted again.
OutcomesAreConsumed ==
    \A o \in outcomes :
        \/ o.fact \in feedback
        \/ \E x \in expirations : o.fact = <<"RESPONSE_WINDOW_EXPIRED", x.token>>

\* One feedback fact ends at most one episode, whatever order and however often
\* Accept, Reject and Expire are called with it.
OneOutcomePerFact ==
    \A o, p \in outcomes : o.fact = p.fact => o = p

\* An active episode is only ever given up by a step that reports a new outcome
\* for it and closes its window: no call silently drops or replaces an episode.
EpisodeEndsWithOutcome ==
    [][active # None /\ active' # active =>
         /\ active' = None /\ window' = None
         /\ \E o \in outcomes' \ outcomes : o.episode = active.id]_trackerVars

=============================================================================
