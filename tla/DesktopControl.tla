--------------------------- MODULE DesktopControl ---------------------------
(***************************************************************************)
(* adapters/ui/desktop behind its Connect bridge: one service that shows   *)
(* three sources which change on their own (the avatar, the permissions    *)
(* and the runtime of the workers) to any number of panels.  A panel calls *)
(* GetState, SetPermission and RejectInteraction and holds one WatchState  *)
(* stream.  A source is known by its revision; a step is what happens      *)
(* under one mutex.  The application behind SetPermission is the           *)
(* supervisor's Change, the one behind RejectInteraction the runner.       *)
(***************************************************************************)
EXTENDS Naturals, Sequences

CONSTANTS
    Panels,         \* the pages that are open, each with one stream
    MaxCalls,       \* bound: unary calls, all panels together
    Permission,     \* the permissions a panel can set
    Requests,       \* how a request may present itself
    MaxAvatar,      \* bound: revisions of the avatar
    MaxProviders,   \* bound: revisions of the provider runtime
    MaxWire,        \* bound: states on their way to one panel; then Send waits
    None

\* privacy.Snapshot and the DesktopState message: a state is what the service
\* has read of its three sources, and its revision.
Snapshot     == [revision : Nat, enabled : SUBSET Permission]
DesktopState == [revision : Nat, avatar : Nat, privacy : Snapshot, providers : Nat]

ASSUME DesktopAssumption ==
    /\ MaxCalls \in Nat /\ MaxWire \in Nat \ {0}
    /\ MaxAvatar \in Nat \ {0} /\ MaxProviders \in Nat \ {0}
    /\ Requests \subseteq [loopback : BOOLEAN, origin : BOOLEAN, bearer : BOOLEAN, protocol : BOOLEAN]
    /\ None \notin Panels \cup Snapshot \cup DesktopState \cup (Nat \X Nat \X Nat)

VARIABLES
    avatar,       \* webavatar.Driver.current.Revision
    privacy,      \* privacy.Service.current: revision and the granted permissions
    providers,    \* supervisor.Supervisor.revision
    server,       \* Server.revision and the source tuple it stands for
    watch,        \* where the handler of each stream is, what it holds, its channels
    sent,         \* the last state sent on each stream
    wire,         \* states on their way to each panel
    call,         \* unary calls: where the handler is and what it has read
    unnotified    \* a permission was changed and nobody was told

sourceVars  == <<avatar, privacy, providers>>
desktopVars == <<sourceVars, server, watch, sent, wire, call, unnotified>>

Off == [pc |-> "off", avatar |-> 0, privacy |-> None, providers |-> 0,
        avatarNews |-> 0, providerNews |-> 0, signal |-> FALSE]
\* A call: where its handler is, what it has read, and the panel that waits.
Calls == 1..MaxCalls
Unused == [pc |-> "unused", kind |-> "get", panel |-> None, permission |-> None, enabled |-> FALSE,
           avatar |-> 0, privacy |-> None, providers |-> 0, state |-> None]
Done == [Unused EXCEPT !.pc = "done"]

-----------------------------------------------------------------------------
(* Requests                                                                *)

\* LoopbackAuthorizer.Authorize and validateProtocol, in their order.
Authorize(r) ==
    CASE ~r.loopback -> "PermissionDenied"
      [] r.loopback /\ ~r.origin -> "PermissionDenied"
      [] r.loopback /\ r.origin /\ ~r.bearer -> "Unauthenticated"
      [] r.loopback /\ r.origin /\ r.bearer /\ ~r.protocol -> "FailedPrecondition"
      [] OTHER -> "OK"

\* A call of panel p enters the service, or is refused at the door.
Enter(c, p, r, kind, permission, enabled) ==
    /\ call[c].pc = "unused" /\ \A d \in Calls : d < c => call[d].pc # "unused"
    /\ LET first == CASE kind = "get" -> "avatar" [] kind = "set" -> "change" [] kind = "reject" -> "submit"
       IN  call' = [call EXCEPT ![c] =
                      [Unused EXCEPT !.pc = IF Authorize(r) = "OK" THEN first ELSE "failed",
                                     !.kind = kind, !.panel = p,
                                     !.permission = permission, !.enabled = enabled]]

-----------------------------------------------------------------------------
(* The sources                                                             *)

\* Seeded fault: a full channel keeps what it holds.
LatestKeepsOldest(held, revision) == IF held = 0 THEN revision ELSE held

\* publishLocked on a channel of capacity one: a full channel is drained first.
Latest(held, revision) == revision

SubscribedToAvatar(p)      == watch[p].pc # "off"
SubscribedToProviders(p)   == watch[p].pc \notin {"off", "providers"}
SubscribedToPermissions(p) == watch[p].pc \notin {"off", "providers", "permissions"}

\* webavatar.publishLocked.
AvatarPublishes ==
    /\ avatar < MaxAvatar
    /\ avatar' = avatar + 1
    /\ watch' = [p \in Panels |-> IF SubscribedToAvatar(p)
                                  THEN [watch[p] EXCEPT !.avatarNews = Latest(@, avatar + 1)]
                                  ELSE watch[p]]
    /\ UNCHANGED <<privacy, providers, server, sent, wire, call, unnotified>>

\* supervisor.setRuntimeLocked and publishLocked.
ProvidersPublish ==
    /\ providers < MaxProviders
    /\ providers' = providers + 1
    /\ watch' = [p \in Panels |-> IF SubscribedToProviders(p)
                                  THEN [watch[p] EXCEPT !.providerNews = Latest(@, providers + 1)]
                                  ELSE watch[p]]
    /\ UNCHANGED <<avatar, privacy, server, sent, wire, call, unnotified>>

\* privacy.Service.Change: setting what is set changes nothing.
Changed(p, e) ==
    IF (p \in privacy.enabled) = e THEN privacy
    ELSE [revision |-> privacy.revision + 1,
          enabled |-> IF e THEN privacy.enabled \cup {p} ELSE privacy.enabled \ {p}]

-----------------------------------------------------------------------------
(* currentState                                                            *)

\* Seeded fault: a change of the provider runtime alone keeps the revision.
SameSourcesIgnoringProviders(a, s, v) ==
    server.tuple # None /\ server.tuple[1] = a /\ server.tuple[2] = s.revision

\* The tuple the current revision stands for.
SameSources(a, s, v) == server.tuple = <<a, s.revision, v>>

\* compositeRevision, under Server.mu.
compositeRevision(a, s, v) == IF SameSources(a, s, v) THEN server.revision ELSE server.revision + 1

Composed(a, s, v) == [revision |-> compositeRevision(a, s, v), avatar |-> a, privacy |-> s, providers |-> v]

Compose(a, s, v) ==
    server' = [revision |-> compositeRevision(a, s, v), tuple |-> <<a, s.revision, v>>]

-----------------------------------------------------------------------------
(* GetState, SetPermission, RejectInteraction                              *)

Goto(c, pc) == call' = [call EXCEPT ![c].pc = pc]

\* The handler returns; an answer nobody waits for is dropped.
Return(c, pc, state) ==
    call' = [call EXCEPT ![c] = IF @.panel = None THEN Done
                                ELSE [@ EXCEPT !.pc = pc, !.state = state, !.privacy = None]]

\* The panel takes the answer, or no longer waits for it.
Leave(c) ==
    call' = [call EXCEPT ![c] = IF @.pc \in {"answered", "failed"} THEN Done
                                ELSE [@ EXCEPT !.panel = None]]

\* permissions.Change succeeds, fails, or persists the change and then fails
\* because the context ended before the supervisor's queue had room.
ChangePermission(c) ==
    /\ call[c].pc = "change"
    /\ LET after == Changed(call[c].permission, call[c].enabled)
       IN  \/ /\ privacy' = after
              /\ call' = [call EXCEPT ![c].pc = "notify", ![c].privacy = after]
              /\ UNCHANGED unnotified
           \/ /\ Return(c, "failed", None)
              /\ UNCHANGED <<privacy, unnotified>>
           \/ /\ privacy' = after
              /\ Return(c, "failed", None)
              /\ unnotified' = (unnotified \/ after # privacy)
    /\ UNCHANGED <<avatar, providers, server, watch, sent, wire>>

\* Seeded fault: the panels are not told.
NotifyNobody(c) ==
    /\ call[c].pc = "notify"
    /\ Goto(c, "avatar")
    /\ UNCHANGED <<sourceVars, server, watch, sent, wire, unnotified>>

\* notifyPermissionSubscribers: a signal that is still waiting is enough.
Notify(c) ==
    /\ call[c].pc = "notify"
    /\ watch' = [p \in Panels |-> IF SubscribedToPermissions(p)
                                  THEN [watch[p] EXCEPT !.signal = TRUE] ELSE watch[p]]
    /\ unnotified' = FALSE
    /\ Goto(c, "avatar")
    /\ UNCHANGED <<sourceVars, server, sent, wire>>

\* The arguments of currentState, each read under its own mutex.
ReadAvatar(c) ==
    /\ call[c].pc = "avatar"
    /\ call' = [call EXCEPT ![c].pc = "providers", ![c].avatar = avatar]
    /\ UNCHANGED <<sourceVars, server, watch, sent, wire, unnotified>>

\* SetPermission knows the snapshot of its own change, GetState reads it.
ReadProviders(c) ==
    /\ call[c].pc = "providers"
    /\ call' = [call EXCEPT ![c].pc = IF call[c].kind = "set" THEN "compose" ELSE "privacy",
                            ![c].providers = providers]
    /\ UNCHANGED <<sourceVars, server, watch, sent, wire, unnotified>>

ReadPermissions(c) ==
    /\ call[c].pc = "privacy"
    /\ call' = [call EXCEPT ![c].pc = "compose", ![c].privacy = privacy]
    /\ UNCHANGED <<sourceVars, server, watch, sent, wire, unnotified>>

Answer(c) ==
    /\ call[c].pc = "compose"
    /\ Compose(call[c].avatar, call[c].privacy, call[c].providers)
    /\ Return(c, "answered", Composed(call[c].avatar, call[c].privacy, call[c].providers))
    /\ UNCHANGED <<sourceVars, watch, sent, wire, unnotified>>

\* RejectInteraction: SubmitControl returns, with or without an error.
Submit(c) ==
    /\ call[c].pc = "submit"
    /\ \E pc \in {"answered", "failed"} : Return(c, pc, None)
    /\ UNCHANGED <<sourceVars, server, watch, sent, wire, unnotified>>

CallStep(c) ==
    \/ ChangePermission(c) \/ Notify(c) \/ ReadAvatar(c) \/ ReadProviders(c)
    \/ ReadPermissions(c) \/ Answer(c) \/ Submit(c)

-----------------------------------------------------------------------------
(* WatchState                                                              *)

WatchUnchanged == UNCHANGED <<sourceVars, server, sent, wire, call, unnotified>>

\* Subscribe returns the current update together with the channel.
SubscribeAvatar(p) ==
    /\ watch[p].pc = "off"
    /\ watch' = [watch EXCEPT ![p] = [Off EXCEPT !.pc = "providers", !.avatar = avatar]]
    /\ UNCHANGED <<sourceVars, server, sent, wire, unnotified>>

SubscribeProviders(p) ==
    /\ watch[p].pc = "providers"
    /\ watch' = [watch EXCEPT ![p].pc = "permissions", ![p].providers = providers]
    /\ WatchUnchanged

SubscribePermissions(p) ==
    /\ watch[p].pc = "permissions"
    /\ watch' = [watch EXCEPT ![p].pc = "read"]
    /\ WatchUnchanged

\* sendCurrent reads the permissions ...
SendReads(p) ==
    /\ watch[p].pc = "read"
    /\ watch' = [watch EXCEPT ![p].pc = "compose", ![p].privacy = privacy]
    /\ WatchUnchanged

\* ... takes a revision and sends.
SendComposes(p) ==
    /\ watch[p].pc = "compose"
    /\ Len(wire[p]) < MaxWire
    /\ LET w == watch[p]
           state == Composed(w.avatar, w.privacy, w.providers)
       IN  /\ Compose(w.avatar, w.privacy, w.providers)
           /\ sent' = [sent EXCEPT ![p] = state]
           /\ wire' = [wire EXCEPT ![p] = Append(@, state)]
           /\ watch' = [watch EXCEPT ![p].pc = "select", ![p].privacy = None]
    /\ UNCHANGED <<sourceVars, call, unnotified>>

\* The cases of the select.
SelectAvatar(p) ==
    /\ watch[p].pc = "select" /\ watch[p].avatarNews # 0
    /\ watch' = [watch EXCEPT ![p].pc = "read", ![p].avatar = watch[p].avatarNews, ![p].avatarNews = 0]
    /\ WatchUnchanged

SelectPermission(p) ==
    /\ watch[p].pc = "select" /\ watch[p].signal
    /\ watch' = [watch EXCEPT ![p].pc = "read", ![p].signal = FALSE, ![p].avatar = avatar]
    /\ WatchUnchanged

SelectProvider(p) ==
    /\ watch[p].pc = "select" /\ watch[p].providerNews # 0
    /\ watch' = [watch EXCEPT ![p].pc = "read", ![p].providers = watch[p].providerNews,
                               ![p].providerNews = 0]
    /\ WatchUnchanged

\* The context of the stream ends, or a read or a send fails: the handler
\* returns and its deferred functions cancel the three subscriptions.
StreamBreaks(p) ==
    /\ watch[p].pc # "off"
    /\ watch' = [watch EXCEPT ![p] = Off]
    /\ sent' = [sent EXCEPT ![p] = None]
    /\ UNCHANGED <<sourceVars, server, wire, call, unnotified>>

WatchStep(p) ==
    \/ SubscribeProviders(p) \/ SubscribePermissions(p) \/ SendReads(p) \/ SendComposes(p)
    \/ SelectAvatar(p) \/ SelectPermission(p) \/ SelectProvider(p)

DesktopInit ==
    /\ avatar = 1 /\ providers = 1
    /\ privacy = [revision |-> 0, enabled |-> {}]
    /\ server = [revision |-> 0, tuple |-> None]
    /\ watch = [p \in Panels |-> Off]
    /\ sent = [p \in Panels |-> None]
    /\ wire = [p \in Panels |-> <<>>]
    /\ call = [c \in Calls |-> Unused]
    /\ unnotified = FALSE
=============================================================================
