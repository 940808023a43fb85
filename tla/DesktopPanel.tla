---------------------------- MODULE DesktopPanel ----------------------------
(***************************************************************************)
(* The web panel (web/desktop) on the desktop service.  Each page runs one *)
(* goroutine that gets the state once and then renders what the stream     *)
(* brings, and one goroutine per click; everything is rendered as it       *)
(* arrives.  Hiding the page cancels all of them and waits for them.       *)
(***************************************************************************)
EXTENDS DesktopControl

CONSTANT Captures     \* the permissions whose indicator the page shows

VARIABLES
    latest,     \* application.latest: what the page shows
    status,     \* the connection status the page shows
    run,        \* where run() is
    boxes,      \* inputs that are disabled until they are rendered again
    stopping,   \* application.stopping
    main        \* main(): "running", "joined" (work.Wait returned) or "released"

panelVars == <<latest, status, run, boxes, stopping, main>>
vars == <<desktopVars, panelVars>>

\* The calls whose goroutine has not returned (application.work).
WorkOf(p) == {c \in Calls : call[c].panel = p}

\* render: the state becomes the latest, the inputs are built anew, and the
\* status says that the service is connected.
Render(p, state) ==
    /\ latest' = [latest EXCEPT ![p] = state]
    /\ status' = [status EXCEPT ![p] = "connected"]
    /\ boxes' = [boxes EXCEPT ![p] = @ \cap {"reject"}]

\* presenter.Build: the indicators of a state.
Indicators(state) == Captures \cap state.privacy.enabled

\* Seeded fault: spawn does not ask whether the page is stopping.
SpawnsAlways(p) == p \in Panels

\* spawn starts nothing once the page is stopping.
Spawns(p) == ~stopping[p]

-----------------------------------------------------------------------------
(* run                                                                     *)

\* run calls GetState.
RunGets(p) ==
    /\ run[p] = "start"
    /\ \E c \in Calls, r \in Requests : Enter(c, p, r, "get", None, FALSE)
    /\ run' = [run EXCEPT ![p] = "get"]
    /\ UNCHANGED <<sourceVars, server, watch, sent, wire, unnotified, latest, status, boxes, stopping, main>>

\* GetState returned a state: it is rendered and the stream is opened.
RunWatches(p) ==
    /\ run[p] = "get"
    /\ \E c \in WorkOf(p) :
           /\ call[c].kind = "get" /\ call[c].pc = "answered"
           /\ Render(p, call[c].state)
           /\ Leave(c)
    /\ run' = [run EXCEPT ![p] = "watch"]
    /\ SubscribeAvatar(p)
    /\ UNCHANGED <<stopping, main>>

\* GetState failed, timed out, or the stream was refused: run returns.
RunFails(p) ==
    /\ run[p] = "get"
    /\ \E c \in WorkOf(p) : call[c].kind = "get" /\ Leave(c)
    /\ run' = [run EXCEPT ![p] = "ended"]
    /\ status' = [status EXCEPT ![p] = "failed"]
    /\ UNCHANGED <<sourceVars, server, watch, sent, wire, unnotified, latest, boxes, stopping, main>>

\* stream.Receive returns a state.
RunReceives(p) ==
    /\ run[p] = "watch"
    /\ wire[p] # <<>>
    /\ Render(p, Head(wire[p]))
    /\ wire' = [wire EXCEPT ![p] = Tail(@)]
    /\ UNCHANGED <<sourceVars, server, watch, sent, call, unnotified, run, stopping, main>>

\* The stream has ended: run returns, and says so unless the page is stopping.
RunEnds(p) ==
    /\ run[p] = "watch"
    /\ watch[p].pc = "off" /\ (wire[p] = <<>> \/ stopping[p])
    /\ run' = [run EXCEPT ![p] = "ended"]
    /\ wire' = [wire EXCEPT ![p] = <<>>]
    /\ status' = [status EXCEPT ![p] = IF stopping[p] THEN @ ELSE "disconnected"]
    /\ UNCHANGED <<sourceVars, server, watch, sent, call, unnotified, latest, boxes, stopping, main>>

-----------------------------------------------------------------------------
(* Clicks                                                                  *)

\* A checkbox is disabled and asks for the opposite of what it showed.
ClickPermission(p, c, permission, r) ==
    /\ latest[p] # None /\ main[p] # "released"
    /\ permission \notin boxes[p]
    /\ Enter(c, p, r, "set", permission, permission \notin latest[p].privacy.enabled)
    /\ Spawns(p)
    /\ boxes' = [boxes EXCEPT ![p] = @ \cup {permission}]
    /\ UNCHANGED <<sourceVars, server, watch, sent, wire, unnotified, latest, status, run, stopping, main>>

\* setPermission returns: the answer is rendered, or else the latest state is.
PermissionReturns(p, c) ==
    /\ c \in WorkOf(p) /\ call[c].kind = "set"
    /\ \/ call[c].pc = "answered" /\ Render(p, call[c].state)
       \/ call[c].pc # "answered" /\ Render(p, latest[p])
    /\ Leave(c)
    /\ UNCHANGED <<sourceVars, server, watch, sent, wire, unnotified, run, stopping, main>>

\* The reject button.  The browser runs callbacks only while every goroutine of
\* the page waits, so run has made its call by then.
ClickReject(p, c, r) ==
    /\ run[p] # "start"
    /\ "reject" \notin boxes[p] /\ main[p] # "released"
    /\ Enter(c, p, r, "reject", None, FALSE)
    /\ Spawns(p)
    /\ boxes' = [boxes EXCEPT ![p] = @ \cup {"reject"}]
    /\ UNCHANGED <<sourceVars, server, watch, sent, wire, unnotified, latest, status, run, stopping, main>>

RejectReturns(p, c) ==
    /\ c \in WorkOf(p) /\ call[c].kind = "reject"
    /\ status' = [status EXCEPT ![p] = IF call[c].pc = "answered" THEN "stopped" ELSE "failed"]
    /\ boxes' = [boxes EXCEPT ![p] = @ \ {"reject"}]
    /\ Leave(c)
    /\ UNCHANGED <<sourceVars, server, watch, sent, wire, unnotified, latest, run, stopping, main>>

-----------------------------------------------------------------------------
(* The life of a page                                                      *)

\* pagehide: stop cancels the context of everything the page has under way.
Stop(p) ==
    /\ ~stopping[p]
    /\ stopping' = [stopping EXCEPT ![p] = TRUE]
    /\ UNCHANGED <<desktopVars, latest, status, run, boxes, main>>

\* main: the work has been waited for ...
Join(p) ==
    /\ stopping[p] /\ main[p] = "running"
    /\ run[p] = "ended" /\ WorkOf(p) = {}
    /\ main' = [main EXCEPT ![p] = "joined"]
    /\ UNCHANGED <<desktopVars, latest, status, run, boxes, stopping>>

\* ... and the callbacks are released.
Release(p) ==
    /\ main[p] = "joined"
    /\ main' = [main EXCEPT ![p] = "released"]
    /\ UNCHANGED <<desktopVars, latest, status, run, boxes, stopping>>

Init ==
    /\ DesktopInit
    /\ latest = [p \in Panels |-> None]
    /\ status = [p \in Panels |-> "connecting"]
    /\ run = [p \in Panels |-> "start"]
    /\ boxes = [p \in Panels |-> {}]
    /\ stopping = [p \in Panels |-> FALSE]
    /\ main = [p \in Panels |-> "running"]

\* What a page does on its own.  A goroutine returns when its call has been
\* answered or has failed, after rpcTimeout, or when the page is stopping.
PageStep(p) ==
    \/ RunGets(p) \/ RunWatches(p) \/ RunReceives(p) \/ RunEnds(p)
    \/ (run[p] = "get" /\ (stopping[p] \/ \E c \in WorkOf(p) : call[c].pc = "failed")) /\ RunFails(p)
    \/ \E c \in Calls : /\ stopping[p] \/ call[c].pc \in {"answered", "failed"}
                        /\ PermissionReturns(p, c) \/ RejectReturns(p, c)
    \/ Join(p) \/ Release(p)

Server == \/ \E c \in Calls : CallStep(c)
          \/ \E p \in Panels : WatchStep(p) \/ StreamBreaks(p)
          \/ AvatarPublishes \/ ProvidersPublish

TimesOut(p) == RunFails(p) \/ \E c \in Calls : PermissionReturns(p, c) \/ RejectReturns(p, c)

Next ==
    \/ Server /\ UNCHANGED panelVars
    \/ \E p \in Panels :
           \/ PageStep(p) \/ TimesOut(p) \/ Stop(p)
           \/ \E c \in Calls, r \in Requests :
                  (\E permission \in Permission : ClickPermission(p, c, permission, r)) \/ ClickReject(p, c, r)

Spec == Init /\ [][Next]_vars

\* Handlers and pages run; a stream whose page is stopping breaks.  Clicks,
\* publications and failures need not happen.  select picks ready cases at
\* random.
Fairness ==
    /\ \A c \in Calls : WF_vars(CallStep(c) /\ UNCHANGED panelVars)
    /\ \A p \in Panels : /\ WF_vars(WatchStep(p) /\ UNCHANGED panelVars)
                         /\ WF_vars(PageStep(p))
                         /\ WF_vars(stopping[p] /\ StreamBreaks(p) /\ UNCHANGED panelVars)
FairSpec == Spec /\ Fairness

-----------------------------------------------------------------------------
(* Correctness                                                             *)

\* Every variable has the shape of the Go state it models.
PanelTypeOK ==
    /\ avatar \in 1..MaxAvatar /\ providers \in 1..MaxProviders
    /\ privacy \in Snapshot
    /\ \A p \in Panels : watch[p].avatar <= avatar /\ watch[p].providers <= providers
    /\ \A c \in Calls : call[c].panel \in Panels \cup {None}
    /\ boxes \in [Panels -> SUBSET (Permission \cup {"reject"})]
    /\ run \in [Panels -> {"start", "get", "watch", "ended"}]

\* What one stream brings never goes back: neither the revision nor any of the
\* three sources, although the avatar comes from the channel or is read anew.
StreamNeverGoesBack ==
    [][\A p \in Panels : sent[p] # None /\ sent'[p] # None =>
           /\ sent'[p].revision >= sent[p].revision
           /\ sent'[p].avatar >= sent[p].avatar
           /\ sent'[p].privacy.revision >= sent[p].privacy.revision
           /\ sent'[p].providers >= sent[p].providers]_vars

\* States the service has issued and that are still known somewhere.
Issued == {latest[p] : p \in Panels} \cup {sent[p] : p \in Panels} \cup {call[c].state : c \in Calls}

\* Two states with one revision are one state, whichever handler issued them
\* and whatever happened between its reads and its revision.
SameRevisionSameState ==
    \A s, t \in Issued \ {None} : s.revision = t.revision => s = t

Sources == <<avatar, privacy, providers>>
ShownBy(state) == <<state.avatar, state.privacy, state.providers>>

\* A stream that stays open ends up with the state of all three sources, unless
\* a permission was changed by a call that failed and told nobody.
WatcherCatchesUp ==
    \A p \in Panels : <>[](watch[p].pc # "off") =>
        <>[](unnotified \/ (sent[p] # None /\ ShownBy(sent[p]) = Sources))

\* A page that is hidden comes to rest and its callbacks are released; once
\* main has waited for the page's work there is none, and no click before the
\* release starts any.
HiddenPageIsReleased ==
    \A p \in Panels : /\ [](main[p] # "running" => WorkOf(p) = {} /\ run[p] = "ended")
                      /\ stopping[p] ~> main[p] = "released"

\* Nothing is under way between the service and this page.
Settled(p) ==
    /\ \A c \in Calls : call[c].pc \in {"unused", "done"}
    /\ run[p] = "watch" /\ wire[p] = <<>>
    /\ watch[p].pc = "select"
    /\ watch[p].avatarNews = 0 /\ watch[p].providerNews = 0 /\ ~watch[p].signal

\* A page whose stream is open and that has nothing under way shows the capture
\* permissions that are granted, unless the answer it rendered last carries an
\* older snapshot of them than the stream had brought, or a change told nobody.
\* (The revision does not tell: an answer can have a newer one and the older
\* snapshot, since a handler takes its revision after it has read its sources.)
OpenPageTellsTheTruthUnlessOvertaken ==
    \A p \in Panels :
        Settled(p) /\ ~unnotified /\ latest[p].privacy.revision >= sent[p].privacy.revision =>
            Indicators(latest[p]) = Captures \cap privacy.enabled

=============================================================================
