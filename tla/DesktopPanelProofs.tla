------------------------- MODULE DesktopPanelProofs -------------------------
(***************************************************************************)
(* Proofs about the desktop service and its pages, for any panels, any     *)
(* number of calls and publications and any length of the wire.            *)
(***************************************************************************)
EXTENDS DesktopPanel, SequenceTheorems, TLAPS

WatchPc == {"off", "providers", "permissions", "read", "compose", "select"}
CallPc  == {"unused", "change", "notify", "avatar", "providers", "privacy", "compose", "submit",
            "answered", "failed", "done"}

\* A stream's handler and a call's handler.
Watch == [pc : WatchPc, avatar : Nat, privacy : Snapshot \cup {None}, providers : Nat,
          avatarNews : Nat, providerNews : Nat, signal : BOOLEAN]
Call  == [pc : CallPc, kind : {"get", "set", "reject"}, panel : Panels \cup {None},
          permission : Permission \cup {None}, enabled : BOOLEAN,
          avatar : Nat, privacy : Snapshot \cup {None}, providers : Nat, state : DesktopState \cup {None}]

\* The types of the service and of what a page shows.
TypeInv ==
    /\ avatar \in Nat /\ providers \in Nat /\ privacy \in Snapshot
    /\ server \in [revision : Nat, tuple : (Nat \X Nat \X Nat) \cup {None}]
    /\ watch \in [Panels -> Watch]
    /\ call \in [Calls -> Call]
    /\ sent \in [Panels -> DesktopState \cup {None}]
    /\ latest \in [Panels -> DesktopState \cup {None}]
    /\ wire \in [Panels -> Seq(DesktopState)]
    /\ run \in [Panels -> {"start", "get", "watch", "ended"}]

\* The states that are known anywhere, and the snapshots of the permissions.
Known(s) ==
    /\ s \in DesktopState
    /\ \/ \E p \in Panels : s = latest[p] \/ s = sent[p] \/ \E i \in 1..Len(wire[p]) : s = wire[p][i]
       \/ \E c \in Calls : s = call[c].state
Read(x) ==
    /\ x \in Snapshot
    /\ \/ x = privacy
       \/ \E p \in Panels : x = watch[p].privacy
       \/ \E c \in Calls : x = call[c].privacy
       \/ \E s \in DesktopState : Known(s) /\ x = s.privacy

\* A revision of the permissions is one snapshot, and none is newer than the
\* current one.
OneSnapshotPerRevision ==
    /\ \A x, y \in Snapshot : Read(x) /\ Read(y) /\ x.revision = y.revision => x = y
    /\ \A x \in Snapshot : Read(x) => x.revision <= privacy.revision

\* A revision of the service is one state, none is newer than the current one,
\* and a state with the current revision shows the tuple it stands for.
OneStatePerRevision ==
    /\ \A s, t \in DesktopState : Known(s) /\ Known(t) /\ s.revision = t.revision => s = t
    /\ \A s \in DesktopState : Known(s) =>
           /\ s.revision <= server.revision
           /\ s.revision = server.revision => server.tuple = <<s.avatar, s.privacy.revision, s.providers>>

\* A call's handler that composes has read the permissions, the kind of a call
\* fits where its handler is, and what was answered has its state, a rejection
\* excepted.
CallOK(r) ==
    /\ r.pc = "compose" => r.privacy \in Snapshot
    /\ r.pc \in {"notify", "avatar", "providers"} /\ r.kind = "set" => r.privacy \in Snapshot
    /\ r.pc \in {"change", "notify"} => r.kind = "set"
    /\ r.pc = "change" => r.permission \in Permission
    /\ r.kind = "reject" => r.pc \in {"submit", "answered", "failed"}
    /\ r.pc = "submit" => r.kind = "reject"
    /\ r.pc = "answered" /\ r.kind # "reject" => r.state \in DesktopState
HandlersHaveRead ==
    /\ \A c \in Calls : CallOK(call[c])
    /\ \A p \in Panels : run[p] = "watch" => latest[p] \in DesktopState

\* A stream's handler w that has sent s: a channel is empty or holds the last
\* publication, what the handler holds is not newer than its source, and what it
\* has sent is not newer than what it holds.
StreamOK(w, s, a, v) ==
    /\ w.avatar <= a /\ w.providers <= v
    /\ w.avatarNews \in {0, a} /\ w.providerNews \in {0, v}
    /\ w.pc \in {"off", "providers"} => w.providerNews = 0
    /\ w.pc = "off" => w.avatarNews = 0
    /\ w.pc = "select" => s \in DesktopState
    /\ w.pc = "compose" => w.privacy \in Snapshot
    /\ s \in DesktopState =>
         /\ w.pc \in {"read", "compose", "select"}
         /\ s.avatar <= w.avatar /\ s.providers <= w.providers
         /\ w.pc = "compose" => s.privacy.revision <= w.privacy.revision
StreamsAdvance == \A p \in Panels : StreamOK(watch[p], sent[p], avatar, providers)

\* A stream that no signal waits for, while nobody is about to give one, has
\* read, and then sent, the permissions as they are.
Told(p) == ~unnotified /\ ~watch[p].signal /\ \A c \in Calls : call[c].pc # "notify"
StreamsAreTold ==
    \A p \in Panels : Told(p) =>
        /\ watch[p].pc = "compose" => watch[p].privacy = privacy
        /\ watch[p].pc = "select" => sent[p].privacy = privacy

\* The inductive invariant.
PanelInv ==
    /\ TypeInv /\ OneSnapshotPerRevision /\ OneStatePerRevision
    /\ HandlersHaveRead /\ StreamsAdvance /\ StreamsAreTold

\* A page whose work has been waited for has none, and starts none.
HiddenPageIsQuiet == \A p \in Panels : main[p] # "running" => WorkOf(p) = {} /\ run[p] = "ended"

-----------------------------------------------------------------------------
(* What a step does to the states and snapshots that are known             *)

\* After the step every known state was known before, or is n.
StatesKept(n) ==
    /\ \A p \in Panels : /\ latest'[p] = None \/ Known(latest'[p]) \/ latest'[p] = n
                         /\ sent'[p] = None \/ Known(sent'[p]) \/ sent'[p] = n
                         /\ \A i \in 1..Len(wire'[p]) : Known(wire'[p][i]) \/ wire'[p][i] = n
    /\ \A c \in Calls : call'[c].state = None \/ Known(call'[c].state) \/ call'[c].state = n

\* ... and every snapshot was known before, or is the new one.
SnapshotsKept ==
    /\ \A p \in Panels : watch'[p].privacy = None \/ Read(watch'[p].privacy)
    /\ \A c \in Calls : call'[c].privacy = None \/ Read(call'[c].privacy) \/ call'[c].privacy = privacy'

\* n is a state the service issues in this step.
Issues(n) ==
    /\ n \in DesktopState /\ Read(n.privacy)
    /\ server' = [revision |-> n.revision, tuple |-> <<n.avatar, n.privacy.revision, n.providers>>]
    /\ n.revision = IF server.tuple = <<n.avatar, n.privacy.revision, n.providers>>
                    THEN server.revision ELSE server.revision + 1

\* What is stored somewhere is known.
LEMMA StoredIsKnown ==
    ASSUME TypeInv
    PROVE  /\ \A p \in Panels : /\ latest[p] = None \/ Known(latest[p])
                                /\ sent[p] = None \/ Known(sent[p])
                                /\ \A i \in 1..Len(wire[p]) : Known(wire[p][i])
                                /\ watch[p].privacy = None \/ Read(watch[p].privacy)
           /\ \A c \in Calls : /\ call[c].state = None \/ Known(call[c].state)
                               /\ call[c].privacy = None \/ Read(call[c].privacy)
           /\ Read(privacy)
           /\ \A s \in DesktopState : Known(s) => Read(s.privacy)
<1>1. ASSUME NEW p \in Panels
      PROVE  /\ latest[p] = None \/ Known(latest[p])
             /\ sent[p] = None \/ Known(sent[p])
  BY DEF TypeInv, Known
<1>2. ASSUME NEW p \in Panels, NEW i \in 1..Len(wire[p]) PROVE Known(wire[p][i])
  <2>1. wire[p][i] \in DesktopState
    BY ElementOfSeq DEF TypeInv
  <2> QED BY <2>1 DEF Known
<1>3. ASSUME NEW p \in Panels PROVE watch[p].privacy = None \/ Read(watch[p].privacy)
  <2>1. watch[p].privacy \in Snapshot \cup {None}
    BY DEF TypeInv, Watch
  <2> QED BY <2>1 DEF Read
<1>4. ASSUME NEW c \in Calls PROVE call[c].state = None \/ Known(call[c].state)
  <2>1. call[c].state \in DesktopState \cup {None}
    BY DEF TypeInv, Call
  <2> QED BY <2>1 DEF Known
<1>5. ASSUME NEW c \in Calls PROVE call[c].privacy = None \/ Read(call[c].privacy)
  <2>1. call[c].privacy \in Snapshot \cup {None}
    BY DEF TypeInv, Call
  <2> QED BY <2>1 DEF Read
<1>6. Read(privacy)
  BY DEF TypeInv, Read
<1>7. ASSUME NEW s \in DesktopState, Known(s) PROVE Read(s.privacy)
  <2>1. s.privacy \in Snapshot
    BY DEF DesktopState
  <2> QED BY <1>7, <2>1 DEF Read
<1> QED BY <1>1, <1>2, <1>3, <1>4, <1>5, <1>6, <1>7

\* What is known after the step.
LEMMA KnownAfter ==
    ASSUME NEW n, StatesKept(n), NEW s \in DesktopState, Known(s)'
    PROVE  Known(s) \/ s = n
BY DesktopAssumption DEF StatesKept, Known

\* ... and which snapshots.
LEMMA ReadAfter ==
    ASSUME TypeInv, NEW n, StatesKept(n), SnapshotsKept, n \in DesktopState => Read(n.privacy),
           NEW x \in Snapshot, Read(x)'
    PROVE  Read(x) \/ x = privacy'
<1>1. ASSUME NEW s \in DesktopState, Known(s)', x = s.privacy PROVE Read(x)
  BY <1>1, KnownAfter, StoredIsKnown
<1>2. x = privacy' \/ (\E p \in Panels : x = watch'[p].privacy) \/ (\E c \in Calls : x = call'[c].privacy)
      \/ \E s \in DesktopState : Known(s)' /\ x = s.privacy
  BY DEF Read
<1>3. x # None
  BY DesktopAssumption
<1> QED BY <1>1, <1>2, <1>3 DEF SnapshotsKept

\* A revision stays one snapshot.
LEMMA SnapshotsStep ==
    ASSUME TypeInv, OneSnapshotPerRevision, NEW n, StatesKept(n), SnapshotsKept,
           n \in DesktopState => Read(n.privacy),
           privacy' = privacy \/ (privacy' \in Snapshot /\ privacy'.revision = privacy.revision + 1)
    PROVE  OneSnapshotPerRevision'
<1>1. \A x \in Snapshot : Read(x)' => Read(x) \/ x = privacy'
  BY ReadAfter
<1>2. Read(privacy) /\ privacy \in Snapshot
  BY StoredIsKnown DEF TypeInv
<1>3. ASSUME NEW x \in Snapshot, Read(x) PROVE x.revision <= privacy.revision /\ x.revision \in Nat
  BY <1>3 DEF OneSnapshotPerRevision, Snapshot
<1>4. privacy.revision \in Nat
  BY <1>2 DEF Snapshot
<1>5. \A x \in Snapshot : Read(x)' => x.revision <= privacy'.revision
  BY <1>1, <1>2, <1>3, <1>4
<1>6. ASSUME NEW x \in Snapshot, NEW y \in Snapshot, Read(x)', Read(y)', x.revision = y.revision PROVE x = y
  <2>1. CASE privacy' = privacy
    BY <1>1, <1>2, <1>6, <2>1 DEF OneSnapshotPerRevision
  <2>2. CASE privacy' \in Snapshot /\ privacy'.revision = privacy.revision + 1
    BY <1>1, <1>3, <1>4, <1>6, <2>2 DEF OneSnapshotPerRevision
  <2> QED BY <2>1, <2>2
<1> QED BY <1>5, <1>6 DEF OneSnapshotPerRevision

\* A revision stays one state when nothing is issued ...
LEMMA StatesStay ==
    ASSUME OneStatePerRevision, StatesKept(None), server' = server
    PROVE  OneStatePerRevision'
<1>1. \A s \in DesktopState : Known(s)' => Known(s)
  BY KnownAfter, DesktopAssumption
<1> QED BY <1>1 DEF OneStatePerRevision

\* ... and when a state is: the service gives the revision it has only to the
\* tuple it stands for, and each revision of a source is one value.
LEMMA StatesStep ==
    ASSUME TypeInv, OneSnapshotPerRevision, OneStatePerRevision, NEW n, Issues(n), StatesKept(n)
    PROVE  OneStatePerRevision'
<1>1. \A s \in DesktopState : Known(s)' => Known(s) \/ s = n
  BY KnownAfter
<1>2. n \in DesktopState /\ n.revision \in Nat /\ server.revision \in Nat /\ server'.revision = n.revision
  BY DEF Issues, DesktopState, TypeInv
<1>3. ASSUME NEW s \in DesktopState, Known(s) PROVE s.revision \in Nat /\ s.revision <= server.revision
  BY <1>3 DEF OneStatePerRevision, DesktopState
<1>4. ASSUME NEW s \in DesktopState, Known(s), s.revision = n.revision PROVE s = n
  <2>1. n.revision = server.revision /\ server.tuple = <<n.avatar, n.privacy.revision, n.providers>>
    BY <1>2, <1>3, <1>4 DEF Issues
  <2>2. server.tuple = <<s.avatar, s.privacy.revision, s.providers>>
    BY <1>4, <2>1 DEF OneStatePerRevision
  <2>3. s.avatar = n.avatar /\ s.privacy.revision = n.privacy.revision /\ s.providers = n.providers
    BY <2>1, <2>2
  <2>4. s.privacy = n.privacy
    <3>1. Read(s.privacy) /\ Read(n.privacy)
      BY <1>4, StoredIsKnown DEF Issues
    <3>2. s.privacy \in Snapshot /\ n.privacy \in Snapshot
      BY <1>2 DEF DesktopState
    <3> QED BY <2>3, <3>1, <3>2 DEF OneSnapshotPerRevision
  <2> QED BY <1>2, <1>4, <2>3, <2>4 DEF DesktopState
<1>5. \A s, t \in DesktopState : Known(s)' /\ Known(t)' /\ s.revision = t.revision => s = t
  BY <1>1, <1>4 DEF OneStatePerRevision
<1>6. ASSUME NEW s \in DesktopState, Known(s)'
      PROVE  /\ s.revision <= server'.revision
             /\ s.revision = server'.revision => server'.tuple = <<s.avatar, s.privacy.revision, s.providers>>
  <2>1. CASE s = n
    BY <1>2, <2>1 DEF Issues
  <2>2. CASE Known(s)
    <3>1. s.revision <= server'.revision
      BY <1>2, <1>3, <2>2 DEF Issues
    <3>2. s.revision = server'.revision => s = n
      BY <1>2, <1>4, <2>2
    <3> QED BY <2>1, <3>1, <3>2
  <2> QED BY <1>1, <1>6, <2>1, <2>2
<1> QED BY <1>5, <1>6 DEF OneStatePerRevision

-----------------------------------------------------------------------------
(* How a call's record and a stream's record change                        *)

\* Call c goes on as r.
CallMoves(c, r) == r \in Call /\ CallOK(r) /\ call' = [call EXCEPT ![c] = r]

\* A call that enters starts with nothing read.
LEMMA EnterMoves ==
    ASSUME TypeInv, NEW c \in Calls, NEW p \in Panels, NEW q, NEW kind \in {"get", "set", "reject"},
           NEW permission \in Permission \cup {None}, NEW enabled \in BOOLEAN,
           kind = "set" => permission \in Permission, Enter(c, p, q, kind, permission, enabled)
    PROVE  \E r : /\ CallMoves(c, r)
                  /\ r.state = None /\ r.privacy = None /\ r.panel = p
                  /\ call[c].pc = "unused"
<1> DEFINE first == CASE kind = "get" -> "avatar" [] kind = "set" -> "change" [] kind = "reject" -> "submit"
           pc0 == IF Authorize(q) = "OK" THEN first ELSE "failed"
           r == [Unused EXCEPT !.pc = pc0, !.kind = kind, !.panel = p, !.permission = permission, !.enabled = enabled]
<1>1. call' = [call EXCEPT ![c] = r] /\ call[c].pc = "unused"
  BY Zenon DEF Enter
<1>2. /\ pc0 \in {"avatar", "change", "submit", "failed"}
      /\ pc0 = "avatar" => kind = "get"
      /\ pc0 = "change" => kind = "set"
      /\ pc0 = "submit" <=> kind = "reject" /\ pc0 # "failed"
  OBVIOUS
<1> HIDE DEF pc0
<1>3. r \in Call /\ r.pc = pc0 /\ r.kind = kind /\ r.state = None /\ r.privacy = None /\ r.panel = p
      /\ r.permission = permission
  BY <1>2 DEF Unused, Call, CallPc
<1>4. CallOK(r)
  BY <1>2, <1>3 DEF CallOK
<1> QED BY <1>1, <1>3, <1>4 DEF CallMoves

\* A call that reads a source goes on with what it has read.
LEMMA ReadMoves ==
    ASSUME TypeInv, HandlersHaveRead, NEW c \in Calls, ReadAvatar(c) \/ ReadProviders(c) \/ ReadPermissions(c)
    PROVE  \E r : /\ CallMoves(c, r)
                  /\ r.state = call[c].state /\ r.privacy \in {call[c].privacy, privacy}
                  /\ r.panel = call[c].panel
                  /\ call[c].pc # "notify"
<1>1. call[c] \in Call /\ CallOK(call[c]) /\ avatar \in Nat /\ providers \in Nat /\ privacy \in Snapshot
  BY DEF TypeInv, HandlersHaveRead
<1>2. CASE ReadAvatar(c)
  <2> DEFINE r == [call[c] EXCEPT !.pc = "providers", !.avatar = avatar]
  <2>1. call' = [call EXCEPT ![c] = r] /\ call[c].pc = "avatar"
    BY <1>2 DEF ReadAvatar, TypeInv
  <2>2. r \in Call /\ r.pc = "providers" /\ r.kind = call[c].kind /\ r.privacy = call[c].privacy
        /\ r.state = call[c].state /\ r.panel = call[c].panel
    BY <1>1 DEF Call, CallPc
  <2>3. CallOK(r)
    BY <1>1, <2>1, <2>2 DEF CallOK
  <2> QED BY <2>1, <2>2, <2>3 DEF CallMoves
<1>3. CASE ReadProviders(c)
  <2> DEFINE pc0 == IF call[c].kind = "set" THEN "compose" ELSE "privacy"
             r == [call[c] EXCEPT !.pc = pc0, !.providers = providers]
  <2>1. call' = [call EXCEPT ![c] = r] /\ call[c].pc = "providers"
    BY <1>3 DEF ReadProviders, TypeInv
  <2>2. r \in Call /\ r.pc = pc0 /\ r.kind = call[c].kind /\ r.privacy = call[c].privacy
        /\ r.state = call[c].state /\ r.panel = call[c].panel
    BY <1>1 DEF Call, CallPc
  <2>3. CallOK(r)
    BY <1>1, <2>1, <2>2 DEF CallOK
  <2> QED BY <2>1, <2>2, <2>3 DEF CallMoves
<1>4. CASE ReadPermissions(c)
  <2> DEFINE r == [call[c] EXCEPT !.pc = "compose", !.privacy = privacy]
  <2>1. call' = [call EXCEPT ![c] = r] /\ call[c].pc = "privacy"
    BY <1>4 DEF ReadPermissions, TypeInv
  <2>2. r \in Call /\ r.pc = "compose" /\ r.kind = call[c].kind /\ r.privacy = privacy
        /\ r.state = call[c].state /\ r.panel = call[c].panel
    BY <1>1 DEF Call, CallPc
  <2>3. CallOK(r)
    BY <1>1, <2>1, <2>2 DEF CallOK
  <2> QED BY <2>1, <2>2, <2>3 DEF CallMoves
<1> QED BY <1>2, <1>3, <1>4

\* A handler that returns leaves its answer, or nothing.
LEMMA ReturnMoves ==
    ASSUME TypeInv, HandlersHaveRead, NEW c \in Calls, NEW pc0 \in {"answered", "failed"},
           NEW s \in DesktopState \cup {None}, Return(c, pc0, s),
           pc0 = "answered" /\ call[c].kind # "reject" => s \in DesktopState
    PROVE  \E r : /\ CallMoves(c, r)
                  /\ r.state \in {None, s} /\ r.privacy = None
                  /\ r.panel \in {None, call[c].panel} /\ r.pc # "notify"
<1>1. call[c] \in Call
  BY DEF TypeInv
<1>2. CASE call[c].panel = None
  <2>1. call' = [call EXCEPT ![c] = Done]
    BY <1>2 DEF Return
  <2>2. Done \in Call /\ Done.pc = "done" /\ Done.kind = "get" /\ Done.state = None /\ Done.privacy = None /\ Done.panel = None
    BY DEF Done, Unused, Call, CallPc
  <2>3. CallOK(Done)
    BY <2>2 DEF CallOK
  <2> QED BY <2>1, <2>2, <2>3 DEF CallMoves
<1>3. CASE call[c].panel # None
  <2> DEFINE r == [call[c] EXCEPT !.pc = pc0, !.state = s, !.privacy = None]
  <2>1. call' = [call EXCEPT ![c] = r]
    BY <1>3 DEF Return
  <2>2. r \in Call /\ r.pc = pc0 /\ r.kind = call[c].kind /\ r.privacy = None /\ r.state = s /\ r.panel = call[c].panel
    BY <1>1 DEF Call, CallPc
  <2>3. CallOK(r)
    BY <2>2 DEF CallOK
  <2> QED BY <2>1, <2>2, <2>3 DEF CallMoves
<1> QED BY <1>2, <1>3

\* A call whose goroutine has returned goes on for nobody, or is done.
LEMMA LeaveMoves ==
    ASSUME TypeInv, HandlersHaveRead, NEW c \in Calls, Leave(c)
    PROVE  \E r : /\ CallMoves(c, r)
                  /\ r.state \in {None, call[c].state} /\ r.privacy \in {None, call[c].privacy}
                  /\ r.panel = None
                  /\ call[c].pc = "notify" => r.pc = "notify"
<1>1. call[c] \in Call /\ CallOK(call[c])
  BY DEF TypeInv, HandlersHaveRead
<1>2. CASE call[c].pc \in {"answered", "failed"}
  <2>1. call' = [call EXCEPT ![c] = Done]
    BY <1>2 DEF Leave
  <2>2. Done \in Call /\ Done.pc = "done" /\ Done.kind = "get" /\ Done.state = None /\ Done.privacy = None /\ Done.panel = None
    BY DEF Done, Unused, Call, CallPc
  <2>3. CallOK(Done)
    BY <2>2 DEF CallOK
  <2> QED BY <1>2, <2>1, <2>2, <2>3 DEF CallMoves
<1>3. CASE call[c].pc \notin {"answered", "failed"}
  <2> DEFINE r == [call[c] EXCEPT !.panel = None]
  <2>1. call' = [call EXCEPT ![c] = r]
    BY <1>3 DEF Leave
  <2>2. r \in Call /\ r.pc = call[c].pc /\ r.kind = call[c].kind /\ r.privacy = call[c].privacy
        /\ r.state = call[c].state /\ r.panel = None /\ r.permission = call[c].permission
    BY <1>1 DEF Call
  <2>3. CallOK(r)
    BY <1>1, <2>2 DEF CallOK
  <2> QED BY <2>1, <2>2, <2>3 DEF CallMoves
<1> QED BY <1>2, <1>3

\* The calls after one of them went on.
LEMMA CallsAfter ==
    ASSUME TypeInv, HandlersHaveRead, NEW c \in Calls, NEW r, CallMoves(c, r)
    PROVE  /\ call' \in [Calls -> Call]
           /\ call'[c] = r /\ \A d \in Calls \ {c} : call'[d] = call[d]
           /\ \A d \in Calls : CallOK(call'[d])
<1>1. call' \in [Calls -> Call] /\ call'[c] = r /\ \A d \in Calls \ {c} : call'[d] = call[d]
  BY DEF TypeInv, CallMoves
<1>2. ASSUME NEW d \in Calls PROVE CallOK(call'[d])
  <2>1. CASE d = c
    BY <1>1, <2>1 DEF CallMoves
  <2>2. CASE d # c
    BY <1>1, <2>2 DEF HandlersHaveRead
  <2> QED BY <2>1, <2>2
<1> QED BY <1>1, <1>2

\* A page renders only states that are known.
PageKept ==
    /\ latest' \in [Panels -> DesktopState \cup {None}]
    /\ wire' \in [Panels -> Seq(DesktopState)]
    /\ run' \in [Panels -> {"start", "get", "watch", "ended"}]
    /\ \A p \in Panels : /\ latest'[p] = None \/ Known(latest'[p])
                         /\ \A i \in 1..Len(wire'[p]) : Known(wire'[p][i])
                         /\ run'[p] = "watch" => latest'[p] \in DesktopState

\* A page that does nothing.
LEMMA PageUnchanged ==
    ASSUME TypeInv, HandlersHaveRead, UNCHANGED <<latest, wire, run>>
    PROVE  PageKept
BY StoredIsKnown DEF PageKept, TypeInv, HandlersHaveRead

\* The calls and pages go on while sources, streams and the revision stay.
LEMMA QuietInv ==
    ASSUME PanelInv, UNCHANGED <<sourceVars, server, watch, sent, unnotified>>, PageKept,
           call' \in [Calls -> Call],
           \A c \in Calls : /\ CallOK(call'[c])
                            /\ call'[c].state = None \/ Known(call'[c].state)
                            /\ call'[c].privacy = None \/ Read(call'[c].privacy)
                            /\ call[c].pc = "notify" => call'[c].pc = "notify"
    PROVE  PanelInv'
<1>1. TypeInv /\ OneSnapshotPerRevision /\ OneStatePerRevision /\ HandlersHaveRead /\ StreamsAdvance /\ StreamsAreTold
  BY DEF PanelInv
<1>2. UNCHANGED <<avatar, privacy, providers>> /\ server' = server /\ watch' = watch /\ sent' = sent
  BY DEF sourceVars
<1>3. TypeInv'
  BY <1>1, <1>2 DEF PageKept, TypeInv
<1>4. StatesKept(None) /\ SnapshotsKept
  <2>1. \A p \in Panels : (sent[p] = None \/ Known(sent[p])) /\ (watch[p].privacy = None \/ Read(watch[p].privacy))
    BY <1>1, StoredIsKnown
  <2> QED BY <1>2, <2>1 DEF StatesKept, SnapshotsKept, PageKept
<1>5. OneSnapshotPerRevision'
  BY <1>1, <1>2, <1>4, SnapshotsStep, DesktopAssumption
<1>6. OneStatePerRevision'
  BY <1>1, <1>2, <1>4, StatesStay
<1>7. HandlersHaveRead'
  BY DEF HandlersHaveRead, PageKept
<1>8. StreamsAdvance'
  BY <1>1, <1>2 DEF StreamsAdvance
<1>9. StreamsAreTold'
  <2>1. \A p \in Panels : Told(p)' => Told(p)
    BY <1>2, Zenon DEF Told
  <2> QED BY <1>1, <1>2, <2>1 DEF StreamsAreTold
<1> QED BY <1>3, <1>5, <1>6, <1>7, <1>8, <1>9 DEF PanelInv

\* One call goes on while sources, streams and the revision stay.
LEMMA QuietCallInv ==
    ASSUME PanelInv, UNCHANGED <<sourceVars, server, watch, sent, unnotified>>, PageKept,
           NEW c \in Calls, NEW r, CallMoves(c, r),
           r.state = None \/ Known(r.state), r.privacy = None \/ Read(r.privacy),
           call[c].pc = "notify" => r.pc = "notify"
    PROVE  PanelInv'
<1>1. TypeInv /\ HandlersHaveRead
  BY DEF PanelInv
<1>2. /\ call' \in [Calls -> Call]
      /\ call'[c] = r /\ \A d \in Calls \ {c} : call'[d] = call[d]
      /\ \A d \in Calls : CallOK(call'[d])
  BY <1>1, CallsAfter
<1>3. \A d \in Calls : /\ call[d].state = None \/ Known(call[d].state)
                       /\ call[d].privacy = None \/ Read(call[d].privacy)
  BY <1>1, StoredIsKnown
<1>4. \A d \in Calls : /\ call'[d].state = None \/ Known(call'[d].state)
                       /\ call'[d].privacy = None \/ Read(call'[d].privacy)
                       /\ call[d].pc = "notify" => call'[d].pc = "notify"
  BY <1>2, <1>3
<1> QED BY <1>2, <1>4, QuietInv

-----------------------------------------------------------------------------
(* The calls                                                               *)

\* The reads of a call, and the answer to a rejection.
LEMMA ReadInv ==
    ASSUME PanelInv, NEW c \in Calls, UNCHANGED panelVars,
           ReadAvatar(c) \/ ReadProviders(c) \/ ReadPermissions(c) \/ Submit(c)
    PROVE  PanelInv'
<1>1. TypeInv /\ HandlersHaveRead
  BY DEF PanelInv
<1>2. UNCHANGED <<sourceVars, server, watch, sent, unnotified>> /\ UNCHANGED <<latest, wire, run>>
  BY DEF ReadAvatar, ReadProviders, ReadPermissions, Submit, panelVars
<1>3. PageKept
  BY <1>1, <1>2, PageUnchanged
<1>4. (call[c].state = None \/ Known(call[c].state)) /\ (call[c].privacy = None \/ Read(call[c].privacy)) /\ Read(privacy)
  BY <1>1, StoredIsKnown
<1>5. CASE ReadAvatar(c) \/ ReadProviders(c) \/ ReadPermissions(c)
  <2>1. PICK r : /\ CallMoves(c, r)
                 /\ r.state = call[c].state /\ r.privacy \in {call[c].privacy, privacy}
                 /\ call[c].pc # "notify"
    BY <1>1, <1>5, ReadMoves
  <2>2. (r.state = None \/ Known(r.state)) /\ (r.privacy = None \/ Read(r.privacy))
    BY <1>4, <2>1
  <2> QED BY <1>2, <1>3, <2>1, <2>2, QuietCallInv
<1>6. CASE Submit(c)
  <2>1. PICK pc0 \in {"answered", "failed"} : Return(c, pc0, None)
    BY <1>6 DEF Submit
  <2>2. call[c].pc = "submit" /\ call[c].kind = "reject"
    BY <1>1, <1>6 DEF Submit, HandlersHaveRead, CallOK
  <2>3. PICK r : CallMoves(c, r) /\ r.state = None /\ r.privacy = None
    BY <1>1, <2>1, <2>2, ReturnMoves
  <2> QED BY <1>2, <1>3, <2>2, <2>3, QuietCallInv
<1> QED BY <1>5, <1>6

\* A page makes a call.
LEMMA PageCallsInv ==
    ASSUME PanelInv, NEW p \in Panels,
           \/ RunGets(p)
           \/ \E c \in Calls, q \in Requests :
                  (\E permission \in Permission : ClickPermission(p, c, permission, q)) \/ ClickReject(p, c, q)
    PROVE  PanelInv'
<1>1. TypeInv /\ HandlersHaveRead
  BY DEF PanelInv
<1>2. UNCHANGED <<sourceVars, server, watch, sent, unnotified>> /\ UNCHANGED <<latest, wire>>
  BY DEF RunGets, ClickPermission, ClickReject
<1>3. PageKept
  <2>1. run' = run \/ run' = [run EXCEPT ![p] = "get"]
    BY DEF RunGets, ClickPermission, ClickReject
  <2>2. run' \in [Panels -> {"start", "get", "watch", "ended"}] /\ \A q \in Panels : run'[q] = "watch" => run[q] = "watch"
    BY <1>1, <2>1 DEF TypeInv
  <2> QED BY <1>1, <1>2, <2>2, StoredIsKnown DEF PageKept, TypeInv, HandlersHaveRead
<1>4. PICK c \in Calls : \E r : /\ CallMoves(c, r)
                                /\ r.state = None /\ r.privacy = None
                                /\ call[c].pc = "unused"
  <2>1. CASE RunGets(p)
    BY <1>1, <2>1, EnterMoves DEF RunGets
  <2>2. ASSUME NEW c \in Calls, NEW q \in Requests, NEW permission \in Permission, ClickPermission(p, c, permission, q)
        PROVE  \E r : CallMoves(c, r) /\ r.state = None /\ r.privacy = None /\ call[c].pc = "unused"
    <3> DEFINE e == permission \notin latest[p].privacy.enabled
    <3>1. Enter(c, p, q, "set", permission, e) /\ e \in BOOLEAN
      BY <2>2, Zenon DEF ClickPermission
    <3> HIDE DEF e
    <3> QED BY <1>1, <3>1, EnterMoves
  <2>3. CASE \E c \in Calls, q \in Requests : ClickReject(p, c, q)
    BY <1>1, <2>3, EnterMoves DEF ClickReject
  <2> QED BY <2>1, <2>2, <2>3
<1> QED BY <1>2, <1>3, <1>4, QuietCallInv

\* A goroutine of the page returns, and the page shows what it has got.
LEMMA PageReturnsInv ==
    ASSUME PanelInv, NEW p \in Panels,
           RunFails(p) \/ \E c \in Calls : PermissionReturns(p, c) \/ RejectReturns(p, c)
    PROVE  PanelInv'
<1>1. TypeInv /\ HandlersHaveRead
  BY DEF PanelInv
<1>2. UNCHANGED <<sourceVars, server, watch, sent, unnotified, wire>>
  BY DEF RunFails, PermissionReturns, RejectReturns
<1>3. PICK c \in Calls : /\ Leave(c)
                         /\ \/ latest' = latest
                            \/ /\ latest' = [latest EXCEPT ![p] = call[c].state]
                               /\ call[c].pc = "answered" /\ call[c].kind = "set"
  <2>1. CASE RunFails(p)
    BY <2>1 DEF RunFails, WorkOf
  <2>2. ASSUME NEW c \in Calls, PermissionReturns(p, c)
        PROVE  /\ Leave(c)
               /\ \/ latest' = latest
                  \/ latest' = [latest EXCEPT ![p] = call[c].state] /\ call[c].pc = "answered" /\ call[c].kind = "set"
    BY <1>1, <2>2 DEF PermissionReturns, Render, TypeInv
  <2>3. CASE \E c \in Calls : RejectReturns(p, c)
    BY <2>3 DEF RejectReturns
  <2> QED BY <2>1, <2>2, <2>3
<1>4. run' = run \/ run' = [run EXCEPT ![p] = "ended"]
  BY DEF RunFails, PermissionReturns, RejectReturns
<1>5. PageKept
  <2>1. run' \in [Panels -> {"start", "get", "watch", "ended"}] /\ \A q \in Panels : run'[q] = "watch" => run[q] = "watch"
    BY <1>1, <1>4 DEF TypeInv
  <2>2. CASE latest' = latest
    BY <1>1, <1>2, <2>1, <2>2, StoredIsKnown DEF PageKept, TypeInv, HandlersHaveRead
  <2>3. CASE latest' = [latest EXCEPT ![p] = call[c].state] /\ call[c].pc = "answered" /\ call[c].kind = "set"
    <3>1. call[c].state \in DesktopState
      BY <1>1, <2>3 DEF HandlersHaveRead, CallOK
    <3>2. Known(call[c].state)
      BY <1>1, <3>1, StoredIsKnown, DesktopAssumption
    <3> QED BY <1>1, <1>2, <2>1, <2>3, <3>1, <3>2, StoredIsKnown DEF PageKept, TypeInv, HandlersHaveRead
  <2> QED BY <1>3, <2>2, <2>3
<1>6. PICK r : /\ CallMoves(c, r)
               /\ r.state \in {None, call[c].state} /\ r.privacy \in {None, call[c].privacy}
               /\ call[c].pc = "notify" => r.pc = "notify"
  BY <1>1, <1>3, LeaveMoves
<1>7. (r.state = None \/ Known(r.state)) /\ (r.privacy = None \/ Read(r.privacy))
  BY <1>1, <1>6, StoredIsKnown
<1> QED BY <1>2, <1>5, <1>6, <1>7, QuietCallInv

\* The page receives from its stream, sees it end, or goes through its life.
LEMMA PageInv ==
    ASSUME PanelInv, NEW p \in Panels, RunReceives(p) \/ RunEnds(p) \/ Stop(p) \/ Join(p) \/ Release(p)
    PROVE  PanelInv'
<1>1. TypeInv /\ HandlersHaveRead
  BY DEF PanelInv
<1>2. UNCHANGED <<sourceVars, server, watch, sent, unnotified, call>>
  BY DEF RunReceives, RunEnds, Stop, Join, Release, desktopVars
<1>3. PageKept
  <2>1. CASE RunReceives(p)
    <3>1. wire[p] \in Seq(DesktopState) /\ wire[p] # <<>>
      BY <1>1, <2>1 DEF RunReceives, TypeInv
    <3>2. Len(wire[p]) \in Nat \ {0} /\ Head(wire[p]) = wire[p][1] /\ Head(wire[p]) \in DesktopState
      BY <3>1, HeadTailProperties, EmptySeq, LenProperties
    <3>3. /\ Tail(wire[p]) \in Seq(DesktopState)
          /\ \A i \in 1..Len(Tail(wire[p])) : i + 1 \in 1..Len(wire[p]) /\ Tail(wire[p])[i] = wire[p][i + 1]
      BY <3>1, <3>2, HeadTailProperties
    <3>4. latest' = [latest EXCEPT ![p] = Head(wire[p])] /\ wire' = [wire EXCEPT ![p] = Tail(wire[p])] /\ run' = run
      BY <2>1 DEF RunReceives, Render
    <3>5. Known(Head(wire[p])) /\ \A i \in 1..Len(Tail(wire[p])) : Known(Tail(wire[p])[i])
      BY <1>1, <3>2, <3>3, StoredIsKnown
    <3>6. latest' \in [Panels -> DesktopState \cup {None}] /\ wire' \in [Panels -> Seq(DesktopState)]
      BY <1>1, <3>2, <3>3, <3>4 DEF TypeInv
    <3>7. latest'[p] = Head(wire[p]) /\ wire'[p] = Tail(wire[p])
      BY <1>1, <3>4 DEF TypeInv
    <3>8. \A q \in Panels \ {p} : latest'[q] = latest[q] /\ wire'[q] = wire[q]
      BY <1>1, <3>4 DEF TypeInv
    <3> QED BY <1>1, <3>2, <3>4, <3>5, <3>6, <3>7, <3>8, StoredIsKnown DEF PageKept, TypeInv, HandlersHaveRead
  <2>2. CASE RunEnds(p)
    <3>1. wire' = [wire EXCEPT ![p] = <<>>] /\ latest' = latest /\ run' = [run EXCEPT ![p] = "ended"]
      BY <2>2 DEF RunEnds
    <3>2. <<>> \in Seq(DesktopState) /\ Len(<<>>) = 0
      OBVIOUS
    <3>3. \A q \in Panels : wire'[q] = wire[q] \/ wire'[q] = <<>>
      BY <1>1, <3>1 DEF TypeInv
    <3>4. wire' \in [Panels -> Seq(DesktopState)] /\ run' \in [Panels -> {"start", "get", "watch", "ended"}]
          /\ \A q \in Panels : run'[q] = "watch" => run[q] = "watch"
      BY <1>1, <3>1, <3>2 DEF TypeInv
    <3> QED BY <1>1, <3>1, <3>2, <3>3, <3>4, StoredIsKnown DEF PageKept, TypeInv, HandlersHaveRead
  <2>3. CASE Stop(p) \/ Join(p) \/ Release(p)
    BY <1>1, <2>3, PageUnchanged DEF Stop, Join, Release, desktopVars
  <2> QED BY <2>1, <2>2, <2>3
<1>4. \A c \in Calls : /\ CallOK(call'[c])
                       /\ call'[c].state = None \/ Known(call'[c].state)
                       /\ call'[c].privacy = None \/ Read(call'[c].privacy)
                       /\ call[c].pc = "notify" => call'[c].pc = "notify"
  BY <1>1, <1>2, StoredIsKnown DEF HandlersHaveRead
<1> QED BY <1>1, <1>2, <1>3, <1>4, QuietInv DEF TypeInv

-----------------------------------------------------------------------------
(* The steps that change a source, a stream or the revision                *)

\* The parts of the invariant together.
LEMMA PanelInvStep ==
    ASSUME PanelInv, TypeInv', NEW n, StatesKept(n), SnapshotsKept,
           (n = None /\ server' = server) \/ Issues(n),
           privacy' = privacy \/ (privacy' \in Snapshot /\ privacy'.revision = privacy.revision + 1),
           HandlersHaveRead', StreamsAdvance', StreamsAreTold'
    PROVE  PanelInv'
<1>1. TypeInv /\ OneSnapshotPerRevision /\ OneStatePerRevision
  BY DEF PanelInv
<1>2. OneSnapshotPerRevision'
  <2>1. n \in DesktopState => Read(n.privacy)
    BY DesktopAssumption DEF Issues
  <2> QED BY <1>1, <2>1, SnapshotsStep
<1>3. OneStatePerRevision'
  BY <1>1, StatesStay, StatesStep
<1> QED BY <1>2, <1>3 DEF PanelInv

\* A change of the permissions is a new snapshot with the next revision.
LEMMA ChangedIsNext ==
    ASSUME TypeInv, NEW q \in Permission, NEW e
    PROVE  /\ Changed(q, e) \in Snapshot
           /\ Changed(q, e) = privacy \/ Changed(q, e).revision = privacy.revision + 1
<1>1. privacy \in Snapshot /\ privacy.revision + 1 \in Nat /\ privacy.enabled \cup {q} \in SUBSET Permission
      /\ privacy.enabled \ {q} \in SUBSET Permission
  BY DEF TypeInv, Snapshot
<1>2. \/ Changed(q, e) = privacy
      \/ Changed(q, e) = [revision |-> privacy.revision + 1, enabled |-> privacy.enabled \cup {q}]
      \/ Changed(q, e) = [revision |-> privacy.revision + 1, enabled |-> privacy.enabled \ {q}]
  BY Zenon DEF Changed
<1> HIDE DEF Changed
<1> QED BY <1>1, <1>2 DEF Snapshot

\* SetPermission changes the permissions, or fails.
LEMMA ChangeInv ==
    ASSUME PanelInv, NEW c \in Calls, ChangePermission(c), UNCHANGED panelVars
    PROVE  PanelInv'
<1>1. TypeInv /\ HandlersHaveRead /\ StreamsAdvance /\ StreamsAreTold
  BY DEF PanelInv
<1> DEFINE after == Changed(call[c].permission, call[c].enabled)
<1>2. UNCHANGED <<avatar, providers, server, watch, sent, wire, latest, run>>
  BY DEF ChangePermission, panelVars
<1>3. call[c].pc = "change" /\ call[c].kind = "set" /\ call[c] \in Call /\ CallOK(call[c])
  BY <1>1 DEF ChangePermission, HandlersHaveRead, CallOK, TypeInv
<1>4. after \in Snapshot /\ (after = privacy \/ after.revision = privacy.revision + 1)
  <2>1. call[c].permission \in Permission
    BY <1>3 DEF CallOK
  <2> QED BY <1>1, <2>1, ChangedIsNext
<1>5. \/ /\ privacy' = after
         /\ call' = [call EXCEPT ![c].pc = "notify", ![c].privacy = after]
      \/ /\ Return(c, "failed", None)
         /\ privacy' = privacy \/ privacy' = after
         /\ ~unnotified' => ~unnotified /\ privacy' = privacy
  BY Zenon DEF ChangePermission
<1> HIDE DEF after
<1>6. privacy' \in Snapshot /\ (privacy' = privacy \/ privacy'.revision = privacy.revision + 1)
  BY <1>1, <1>4, <1>5 DEF TypeInv
<1>7. PICK r : /\ CallMoves(c, r)
               /\ r.state \in {None, call[c].state} /\ r.privacy \in {None, privacy'}
               /\ r.pc # "notify" /\ ~unnotified' => ~unnotified /\ privacy' = privacy
  <2>1. CASE privacy' = after /\ call' = [call EXCEPT ![c].pc = "notify", ![c].privacy = after]
    <3> DEFINE s == [call[c] EXCEPT !.pc = "notify", !.privacy = after]
    <3>1. call' = [call EXCEPT ![c] = s]
      BY <1>1, <2>1 DEF TypeInv
    <3>2. s \in Call /\ s.pc = "notify" /\ s.kind = "set" /\ s.privacy = after /\ s.state = call[c].state
      BY <1>3, <1>4 DEF Call, CallPc
    <3>3. CallOK(s)
      BY <1>4, <3>2 DEF CallOK
    <3> QED BY <2>1, <3>1, <3>2, <3>3 DEF CallMoves
  <2>2. CASE Return(c, "failed", None) /\ (~unnotified' => ~unnotified /\ privacy' = privacy)
    BY <1>1, <2>2, ReturnMoves
  <2> QED BY <1>5, <2>1, <2>2
<1>8. /\ call' \in [Calls -> Call]
      /\ call'[c] = r /\ \A d \in Calls \ {c} : call'[d] = call[d]
      /\ \A d \in Calls : CallOK(call'[d])
  BY <1>1, <1>7, CallsAfter
<1>9. TypeInv'
  BY <1>1, <1>2, <1>6, <1>8 DEF TypeInv
<1>10. StatesKept(None) /\ SnapshotsKept
  <2>1. \A d \in Calls : /\ call'[d].state = None \/ Known(call'[d].state)
                         /\ call'[d].privacy = None \/ Read(call'[d].privacy) \/ call'[d].privacy = privacy'
    BY <1>1, <1>7, <1>8, StoredIsKnown
  <2> QED BY <1>1, <1>2, <2>1, StoredIsKnown DEF StatesKept, SnapshotsKept
<1>11. HandlersHaveRead'
  BY <1>1, <1>2, <1>8 DEF HandlersHaveRead
<1>12. StreamsAdvance'
  BY <1>1, <1>2 DEF StreamsAdvance
<1>13. StreamsAreTold'
  <2>1. ASSUME NEW p \in Panels, Told(p)' PROVE Told(p) /\ privacy' = privacy
    <3>1. ~unnotified' /\ ~watch'[p].signal /\ \A d \in Calls : call'[d].pc # "notify"
      BY <2>1 DEF Told
    <3>2. r.pc # "notify" /\ ~unnotified /\ privacy' = privacy
      BY <1>7, <1>8, <3>1
    <3>3. \A d \in Calls : call[d].pc # "notify"
      BY <1>3, <1>8, <3>1
    <3>4. ~watch[p].signal
      BY <1>2, <3>1
    <3> QED BY <3>2, <3>3, <3>4 DEF Told
  <2> QED BY <1>1, <1>2, <2>1 DEF StreamsAreTold
<1> QED BY <1>2, <1>6, <1>9, <1>10, <1>11, <1>12, <1>13, PanelInvStep

\* A call is answered: the service gives the state its revision.
LEMMA AnswerInv ==
    ASSUME PanelInv, NEW c \in Calls, Answer(c), UNCHANGED panelVars
    PROVE  PanelInv'
<1>1. TypeInv /\ HandlersHaveRead /\ StreamsAdvance /\ StreamsAreTold
  BY DEF PanelInv
<1> DEFINE n == Composed(call[c].avatar, call[c].privacy, call[c].providers)
<1>2. UNCHANGED <<avatar, privacy, providers, watch, sent, wire, latest, run, unnotified>>
  BY DEF Answer, panelVars, sourceVars
<1>3. call[c].pc = "compose" /\ call[c].privacy \in Snapshot /\ call[c] \in Call /\ call[c].kind # "reject"
  BY <1>1 DEF Answer, HandlersHaveRead, CallOK, TypeInv
<1>4. Issues(n)
  <2>1. call[c].avatar \in Nat /\ call[c].providers \in Nat /\ call[c].privacy.revision \in Nat
        /\ server.revision \in Nat
    BY <1>1, <1>3 DEF Call, Snapshot, TypeInv
  <2>2. n \in DesktopState /\ n.avatar = call[c].avatar /\ n.privacy = call[c].privacy
        /\ n.providers = call[c].providers
        /\ n.revision = compositeRevision(call[c].avatar, call[c].privacy, call[c].providers)
    BY <1>3, <2>1 DEF Composed, DesktopState, compositeRevision
  <2>3. Read(call[c].privacy)
    BY <1>1, <1>3, StoredIsKnown, DesktopAssumption
  <2>4. server' = [revision |-> compositeRevision(call[c].avatar, call[c].privacy, call[c].providers),
                   tuple |-> <<call[c].avatar, call[c].privacy.revision, call[c].providers>>]
    BY DEF Answer, Compose
  <2> QED BY <2>2, <2>3, <2>4 DEF Issues, compositeRevision, SameSources
<1>5. n \in DesktopState /\ Return(c, "answered", n)
  BY <1>4 DEF Issues, Answer
<1> HIDE DEF n
<1>6. PICK r : /\ CallMoves(c, r)
               /\ r.state \in {None, n} /\ r.privacy = None /\ r.pc # "notify"
  BY <1>1, <1>5, ReturnMoves
<1>7. /\ call' \in [Calls -> Call]
      /\ call'[c] = r /\ \A d \in Calls \ {c} : call'[d] = call[d]
      /\ \A d \in Calls : CallOK(call'[d])
  BY <1>1, <1>6, CallsAfter
<1>8. TypeInv'
  <2>1. server' \in [revision : Nat, tuple : (Nat \X Nat \X Nat) \cup {None}]
    BY <1>4 DEF Issues, DesktopState, Snapshot
  <2> QED BY <1>1, <1>2, <1>7, <2>1 DEF TypeInv
<1>9. StatesKept(n) /\ SnapshotsKept
  <2>1. \A d \in Calls : /\ call'[d].state = None \/ Known(call'[d].state) \/ call'[d].state = n
                         /\ call'[d].privacy = None \/ Read(call'[d].privacy)
    BY <1>1, <1>6, <1>7, StoredIsKnown
  <2> QED BY <1>1, <1>2, <2>1, StoredIsKnown DEF StatesKept, SnapshotsKept
<1>10. HandlersHaveRead'
  BY <1>1, <1>2, <1>7 DEF HandlersHaveRead
<1>11. StreamsAdvance'
  BY <1>1, <1>2 DEF StreamsAdvance
<1>12. StreamsAreTold'
  <2>1. \A d \in Calls : call'[d].pc # "notify" => call[d].pc # "notify"
    BY <1>3, <1>7
  <2>2. \A p \in Panels : Told(p)' => Told(p)
    BY <1>2, <2>1, Zenon DEF Told
  <2> QED BY <1>1, <1>2, <2>2 DEF StreamsAreTold
<1> QED BY <1>2, <1>4, <1>8, <1>9, <1>10, <1>11, <1>12, PanelInvStep

\* One stream goes on as w and has then sent s.
StreamMoves(p, w, s) ==
    /\ w \in Watch /\ s \in DesktopState \cup {None}
    /\ watch' = [watch EXCEPT ![p] = w]
    /\ sent' = [sent EXCEPT ![p] = s]
    /\ StreamOK(w, s, avatar, providers)
    /\ w.privacy = None \/ Read(w.privacy)
    /\ ~unnotified /\ ~w.signal /\ (\A c \in Calls : call[c].pc # "notify") =>
         /\ w.pc = "compose" => w.privacy = privacy
         /\ w.pc = "select" => s.privacy = privacy

\* A step of one stream keeps the invariant.
LEMMA StreamInv ==
    ASSUME PanelInv, NEW p \in Panels, NEW w, NEW s, StreamMoves(p, w, s),
           UNCHANGED <<sourceVars, unnotified>>,
           NEW n, (n = None /\ server' = server) \/ Issues(n), StatesKept(n),
           latest' \in [Panels -> DesktopState \cup {None}],
           wire' \in [Panels -> Seq(DesktopState)],
           run' \in [Panels -> {"start", "get", "watch", "ended"}],
           \A q \in Panels : run'[q] = "watch" => latest'[q] \in DesktopState,
           call' \in [Calls -> Call],
           \A c \in Calls : /\ CallOK(call'[c])
                            /\ call'[c].privacy = None \/ Read(call'[c].privacy)
                            /\ call[c].pc = "notify" => call'[c].pc = "notify"
    PROVE  PanelInv'
<1>1. TypeInv /\ HandlersHaveRead /\ StreamsAdvance /\ StreamsAreTold
  BY DEF PanelInv
<1>2. UNCHANGED <<avatar, privacy, providers>>
  BY DEF sourceVars
<1>3. /\ watch' \in [Panels -> Watch] /\ sent' \in [Panels -> DesktopState \cup {None}]
      /\ watch'[p] = w /\ sent'[p] = s
      /\ \A q \in Panels \ {p} : watch'[q] = watch[q] /\ sent'[q] = sent[q]
  BY <1>1 DEF TypeInv, StreamMoves
<1>4. TypeInv'
  <2>1. server' \in [revision : Nat, tuple : (Nat \X Nat \X Nat) \cup {None}]
    BY <1>1 DEF Issues, DesktopState, Snapshot, TypeInv
  <2> QED BY <1>1, <1>2, <1>3, <2>1 DEF TypeInv
<1>5. SnapshotsKept
  BY <1>1, <1>3, StoredIsKnown DEF SnapshotsKept, StreamMoves
<1>6. HandlersHaveRead'
  BY DEF HandlersHaveRead
<1>7. StreamsAdvance'
  BY <1>1, <1>2, <1>3 DEF StreamsAdvance, StreamMoves
<1>8. StreamsAreTold'
  <2>1. ASSUME NEW q \in Panels, Told(q)'
        PROVE  /\ watch'[q].pc = "compose" => watch'[q].privacy = privacy'
               /\ watch'[q].pc = "select" => sent'[q].privacy = privacy'
    <3>1. ~unnotified' /\ ~watch'[q].signal /\ \A c \in Calls : call'[c].pc # "notify"
      BY <2>1 DEF Told
    <3>2. ~unnotified /\ \A c \in Calls : call[c].pc # "notify"
      BY <3>1, Zenon
    <3>3. CASE q = p
      <4>1. ~w.signal
        BY <1>3, <3>1, <3>3
      <4>2. (w.pc = "compose" => w.privacy = privacy) /\ (w.pc = "select" => s.privacy = privacy)
        BY <3>2, <4>1 DEF StreamMoves
      <4> QED BY <1>2, <1>3, <3>3, <4>2
    <3>4. CASE q # p
      <4>1. watch'[q] = watch[q] /\ sent'[q] = sent[q]
        BY <1>3, <3>4
      <4>2. ~watch[q].signal
        BY <3>1, <4>1
      <4>3. Told(q)
        BY <3>2, <4>2 DEF Told
      <4> QED BY <1>1, <1>2, <4>1, <4>3 DEF StreamsAreTold
    <3> QED BY <3>3, <3>4
  <2> QED BY <2>1 DEF StreamsAreTold
<1> QED BY <1>2, <1>4, <1>5, <1>6, <1>7, <1>8, PanelInvStep

\* A step of one stream that sends nothing keeps the invariant.
LEMMA SilentStreamInv ==
    ASSUME PanelInv, NEW p \in Panels, NEW w, NEW s \in {sent[p], None}, StreamMoves(p, w, s),
           UNCHANGED <<sourceVars, server, wire, call, unnotified>>, UNCHANGED panelVars
    PROVE  PanelInv'
<1>1. TypeInv /\ HandlersHaveRead
  BY DEF PanelInv
<1>2. sent'[p] = s /\ \A q \in Panels \ {p} : sent'[q] = sent[q]
  BY <1>1 DEF TypeInv, StreamMoves
<1>3. UNCHANGED <<latest, run>>
  BY DEF panelVars
<1>4. StatesKept(None)
  BY <1>1, <1>2, <1>3, StoredIsKnown DEF StatesKept
<1>5. \A c \in Calls : /\ CallOK(call'[c])
                       /\ call'[c].privacy = None \/ Read(call'[c].privacy)
                       /\ call[c].pc = "notify" => call'[c].pc = "notify"
  BY <1>1, StoredIsKnown DEF HandlersHaveRead
<1>6. /\ latest' \in [Panels -> DesktopState \cup {None}]
      /\ wire' \in [Panels -> Seq(DesktopState)]
      /\ run' \in [Panels -> {"start", "get", "watch", "ended"}]
      /\ \A q \in Panels : run'[q] = "watch" => latest'[q] \in DesktopState
      /\ call' \in [Calls -> Call]
  BY <1>1, <1>3 DEF TypeInv, HandlersHaveRead
<1> QED BY <1>4, <1>5, <1>6, StreamInv

\* The steps of a stream between two sends.
LEMMA WatchInv ==
    ASSUME PanelInv, NEW p \in Panels, UNCHANGED panelVars,
           \/ SubscribeProviders(p) \/ SubscribePermissions(p) \/ SendReads(p)
           \/ SelectAvatar(p) \/ SelectPermission(p) \/ SelectProvider(p) \/ StreamBreaks(p)
    PROVE  PanelInv'
<1>1. TypeInv /\ StreamsAdvance /\ OneSnapshotPerRevision
  BY DEF PanelInv
<1>2. UNCHANGED <<sourceVars, server, wire, call, unnotified>>
  BY DEF SubscribeProviders, SubscribePermissions, SendReads, SelectAvatar, SelectPermission, SelectProvider,
         StreamBreaks, WatchUnchanged
<1>3. watch[p] \in Watch /\ sent[p] \in DesktopState \cup {None} /\ StreamOK(watch[p], sent[p], avatar, providers)
      /\ avatar \in Nat /\ providers \in Nat /\ privacy \in Snapshot
  BY <1>1 DEF TypeInv, StreamsAdvance
<1>4. /\ watch[p].privacy = None \/ Read(watch[p].privacy)
      /\ Read(privacy)
      /\ sent[p] \in DesktopState => sent[p].privacy.revision <= privacy.revision
  <2>1. /\ watch[p].privacy = None \/ Read(watch[p].privacy)
        /\ Read(privacy)
        /\ sent[p] \in DesktopState => Known(sent[p])
    BY <1>1, StoredIsKnown, DesktopAssumption
  <2>2. sent[p] \in DesktopState => sent[p].privacy \in Snapshot /\ Read(sent[p].privacy)
    BY <1>1, <2>1, StoredIsKnown DEF DesktopState
  <2> QED BY <1>1, <2>1, <2>2 DEF OneSnapshotPerRevision
<1>5. sent = [sent EXCEPT ![p] = sent[p]]
  BY <1>1 DEF TypeInv
<1>6. CASE SubscribeProviders(p)
  <2> DEFINE w == [watch[p] EXCEPT !.pc = "permissions", !.providers = providers]
  <2>1. watch' = [watch EXCEPT ![p] = w] /\ watch[p].pc = "providers" /\ sent' = sent
    BY <1>1, <1>6 DEF SubscribeProviders, WatchUnchanged, TypeInv
  <2>2. w \in Watch /\ w.pc = "permissions" /\ w.avatar = watch[p].avatar /\ w.providers = providers
        /\ w.privacy = watch[p].privacy /\ w.avatarNews = watch[p].avatarNews
        /\ w.providerNews = watch[p].providerNews
    BY <1>3 DEF Watch, WatchPc
  <2>3. StreamOK(w, sent[p], avatar, providers)
    BY <1>3, <2>1, <2>2 DEF StreamOK
  <2> HIDE DEF w
  <2> QED BY <1>2, <1>3, <1>4, <1>5, <2>1, <2>2, <2>3, SilentStreamInv DEF StreamMoves
<1>7. CASE SubscribePermissions(p)
  <2> DEFINE w == [watch[p] EXCEPT !.pc = "read"]
  <2>1. watch' = [watch EXCEPT ![p] = w] /\ watch[p].pc = "permissions" /\ sent' = sent
    BY <1>1, <1>7 DEF SubscribePermissions, WatchUnchanged, TypeInv
  <2>2. w \in Watch /\ w.pc = "read" /\ w.avatar = watch[p].avatar /\ w.providers = watch[p].providers
        /\ w.privacy = watch[p].privacy /\ w.avatarNews = watch[p].avatarNews
        /\ w.providerNews = watch[p].providerNews
    BY <1>3 DEF Watch, WatchPc
  <2>3. StreamOK(w, sent[p], avatar, providers)
    BY <1>3, <2>1, <2>2 DEF StreamOK
  <2> HIDE DEF w
  <2> QED BY <1>2, <1>3, <1>4, <1>5, <2>1, <2>2, <2>3, SilentStreamInv DEF StreamMoves
<1>8. CASE SendReads(p)
  <2> DEFINE w == [watch[p] EXCEPT !.pc = "compose", !.privacy = privacy]
  <2>1. watch' = [watch EXCEPT ![p] = w] /\ watch[p].pc = "read" /\ sent' = sent
    BY <1>1, <1>8 DEF SendReads, WatchUnchanged, TypeInv
  <2>2. w \in Watch /\ w.pc = "compose" /\ w.avatar = watch[p].avatar /\ w.providers = watch[p].providers
        /\ w.privacy = privacy /\ w.avatarNews = watch[p].avatarNews
        /\ w.providerNews = watch[p].providerNews
    BY <1>3 DEF Watch, WatchPc
  <2>3. StreamOK(w, sent[p], avatar, providers)
    BY <1>3, <1>4, <2>1, <2>2 DEF StreamOK
  <2> HIDE DEF w
  <2> QED BY <1>2, <1>3, <1>4, <1>5, <2>1, <2>2, <2>3, SilentStreamInv DEF StreamMoves
<1>9. CASE SelectAvatar(p)
  <2> DEFINE w == [watch[p] EXCEPT !.pc = "read", !.avatar = watch[p].avatarNews, !.avatarNews = 0]
  <2>1. watch' = [watch EXCEPT ![p] = w] /\ watch[p].pc = "select" /\ watch[p].avatarNews # 0 /\ sent' = sent
    BY <1>1, <1>9 DEF SelectAvatar, WatchUnchanged, TypeInv
  <2>2. w \in Watch /\ w.pc = "read" /\ w.avatar = watch[p].avatarNews /\ w.providers = watch[p].providers
        /\ w.privacy = watch[p].privacy /\ w.avatarNews = 0
        /\ w.providerNews = watch[p].providerNews
    BY <1>3 DEF Watch, WatchPc
  <2>3. StreamOK(w, sent[p], avatar, providers)
    <3>1. watch[p].avatar \in Nat /\ watch[p].providers \in Nat
          /\ (sent[p] \in DesktopState => sent[p].avatar \in Nat /\ sent[p].providers \in Nat)
      BY <1>3 DEF Watch, DesktopState
    <3> QED BY <1>3, <2>1, <2>2, <3>1 DEF StreamOK
  <2> HIDE DEF w
  <2> QED BY <1>2, <1>3, <1>4, <1>5, <2>1, <2>2, <2>3, SilentStreamInv DEF StreamMoves
<1>10. CASE SelectPermission(p)
  <2> DEFINE w == [watch[p] EXCEPT !.pc = "read", !.signal = FALSE, !.avatar = avatar]
  <2>1. watch' = [watch EXCEPT ![p] = w] /\ watch[p].pc = "select" /\ sent' = sent
    BY <1>1, <1>10 DEF SelectPermission, WatchUnchanged, TypeInv
  <2>2. w \in Watch /\ w.pc = "read" /\ w.avatar = avatar /\ w.providers = watch[p].providers
        /\ w.privacy = watch[p].privacy /\ w.avatarNews = watch[p].avatarNews
        /\ w.providerNews = watch[p].providerNews
    BY <1>3 DEF Watch, WatchPc
  <2>3. StreamOK(w, sent[p], avatar, providers)
    <3>1. watch[p].avatar \in Nat /\ watch[p].providers \in Nat
          /\ (sent[p] \in DesktopState => sent[p].avatar \in Nat /\ sent[p].providers \in Nat)
      BY <1>3 DEF Watch, DesktopState
    <3> QED BY <1>3, <2>1, <2>2, <3>1 DEF StreamOK
  <2> HIDE DEF w
  <2> QED BY <1>2, <1>3, <1>4, <1>5, <2>1, <2>2, <2>3, SilentStreamInv DEF StreamMoves
<1>11. CASE SelectProvider(p)
  <2> DEFINE w == [watch[p] EXCEPT !.pc = "read", !.providers = watch[p].providerNews, !.providerNews = 0]
  <2>1. watch' = [watch EXCEPT ![p] = w] /\ watch[p].pc = "select" /\ watch[p].providerNews # 0 /\ sent' = sent
    BY <1>1, <1>11 DEF SelectProvider, WatchUnchanged, TypeInv
  <2>2. w \in Watch /\ w.pc = "read" /\ w.avatar = watch[p].avatar /\ w.providers = watch[p].providerNews
        /\ w.privacy = watch[p].privacy /\ w.avatarNews = watch[p].avatarNews
        /\ w.providerNews = 0
    BY <1>3 DEF Watch, WatchPc
  <2>3. StreamOK(w, sent[p], avatar, providers)
    <3>1. watch[p].avatar \in Nat /\ watch[p].providers \in Nat
          /\ (sent[p] \in DesktopState => sent[p].avatar \in Nat /\ sent[p].providers \in Nat)
      BY <1>3 DEF Watch, DesktopState
    <3> QED BY <1>3, <2>1, <2>2, <3>1 DEF StreamOK
  <2> HIDE DEF w
  <2> QED BY <1>2, <1>3, <1>4, <1>5, <2>1, <2>2, <2>3, SilentStreamInv DEF StreamMoves
<1>12. CASE StreamBreaks(p)
  <2>1. watch' = [watch EXCEPT ![p] = Off] /\ sent' = [sent EXCEPT ![p] = None]
    BY <1>12 DEF StreamBreaks
  <2>2. Off \in Watch /\ Off.pc = "off" /\ Off.avatar = 0 /\ Off.providers = 0 /\ Off.privacy = None
        /\ Off.avatarNews = 0 /\ Off.providerNews = 0
    BY DEF Off, Watch, WatchPc
  <2>3. StreamOK(Off, None, avatar, providers)
    BY <1>3, <2>2, DesktopAssumption DEF StreamOK
  <2> QED BY <1>2, <2>1, <2>2, <2>3, SilentStreamInv DEF StreamMoves
<1> QED BY <1>6, <1>7, <1>8, <1>9, <1>10, <1>11, <1>12

\* The streams are given news of a source, or a signal.
LEMMA NewsInv ==
    ASSUME PanelInv, UNCHANGED <<privacy, server, sent, wire>>, UNCHANGED panelVars,
           watch' \in [Panels -> Watch], avatar' \in Nat, providers' \in Nat,
           \A p \in Panels : /\ watch'[p].pc = watch[p].pc /\ watch'[p].privacy = watch[p].privacy
                             /\ StreamOK(watch'[p], sent[p], avatar', providers')
                             /\ Told(p)' /\ watch[p].pc \in {"compose", "select"} => Told(p),
           call' \in [Calls -> Call],
           \A c \in Calls : /\ CallOK(call'[c])
                            /\ call'[c].state = call[c].state /\ call'[c].privacy = call[c].privacy
    PROVE  PanelInv'
<1>1. TypeInv /\ HandlersHaveRead /\ StreamsAreTold
  BY DEF PanelInv
<1>2. UNCHANGED <<latest, run>>
  BY DEF panelVars
<1>3. TypeInv'
  BY <1>1, <1>2 DEF TypeInv
<1>4. StatesKept(None) /\ SnapshotsKept
  BY <1>1, <1>2, StoredIsKnown DEF StatesKept, SnapshotsKept
<1>5. HandlersHaveRead'
  BY <1>1, <1>2 DEF HandlersHaveRead
<1>6. StreamsAdvance'
  BY DEF StreamsAdvance
<1>7. StreamsAreTold'
  <2>1. ASSUME NEW p \in Panels, Told(p)'
        PROVE  /\ watch'[p].pc = "compose" => watch'[p].privacy = privacy'
               /\ watch'[p].pc = "select" => sent'[p].privacy = privacy'
    BY <1>1, <2>1 DEF StreamsAreTold
  <2> QED BY <2>1 DEF StreamsAreTold
<1> QED BY <1>3, <1>4, <1>5, <1>6, <1>7, PanelInvStep

\* The streams are signalled that the permissions have changed.
LEMMA NotifyInv ==
    ASSUME PanelInv, NEW c \in Calls, Notify(c), UNCHANGED panelVars
    PROVE  PanelInv'
<1>1. TypeInv /\ HandlersHaveRead /\ StreamsAdvance
  BY DEF PanelInv
<1>2. UNCHANGED <<avatar, privacy, providers, server, sent, wire>> /\ call[c].pc = "notify"
  BY DEF Notify, sourceVars
<1>3. /\ watch' \in [Panels -> Watch]
      /\ \A p \in Panels : /\ watch'[p].pc = watch[p].pc /\ watch'[p].privacy = watch[p].privacy
                           /\ watch'[p].avatar = watch[p].avatar /\ watch'[p].providers = watch[p].providers
                           /\ watch'[p].avatarNews = watch[p].avatarNews
                           /\ watch'[p].providerNews = watch[p].providerNews
                           /\ watch[p].pc \in {"compose", "select"} => watch'[p].signal = TRUE
  <2>1. ASSUME NEW p \in Panels
        PROVE  /\ watch'[p] \in Watch
               /\ watch'[p].pc = watch[p].pc /\ watch'[p].privacy = watch[p].privacy
               /\ watch'[p].avatar = watch[p].avatar /\ watch'[p].providers = watch[p].providers
               /\ watch'[p].avatarNews = watch[p].avatarNews
               /\ watch'[p].providerNews = watch[p].providerNews
               /\ watch[p].pc \in {"compose", "select"} => watch'[p].signal = TRUE
    <3>1. watch[p] \in Watch
      BY <1>1 DEF TypeInv
    <3>2. watch'[p] = IF SubscribedToPermissions(p) THEN [watch[p] EXCEPT !.signal = TRUE] ELSE watch[p]
      BY DEF Notify
    <3> QED BY <3>1, <3>2 DEF Watch, SubscribedToPermissions
  <2>2. watch' = [p \in Panels |-> watch'[p]]
    BY DEF Notify
  <2> QED BY <2>1, <2>2
<1>4. \A p \in Panels : StreamOK(watch'[p], sent[p], avatar', providers')
  BY <1>1, <1>2, <1>3 DEF StreamsAdvance, StreamOK
<1>5. \A p \in Panels : Told(p)' => watch[p].pc \notin {"compose", "select"}
  BY <1>3 DEF Told
<1> DEFINE r == [call[c] EXCEPT !.pc = "avatar"]
<1>6. CallMoves(c, r) /\ r.state = call[c].state /\ r.privacy = call[c].privacy
  <2>1. call' = [call EXCEPT ![c] = r]
    BY DEF Notify, Goto
  <2>2. call[c] \in Call /\ CallOK(call[c])
    BY <1>1 DEF TypeInv, HandlersHaveRead
  <2>3. r \in Call /\ r.pc = "avatar" /\ r.kind = call[c].kind /\ r.privacy = call[c].privacy
        /\ r.state = call[c].state
    BY <2>2 DEF Call, CallPc
  <2>4. CallOK(r)
    BY <1>2, <2>2, <2>3 DEF CallOK
  <2> QED BY <2>1, <2>3, <2>4 DEF CallMoves
<1> HIDE DEF r
<1>7. /\ call' \in [Calls -> Call]
      /\ call'[c] = r /\ \A d \in Calls \ {c} : call'[d] = call[d]
      /\ \A d \in Calls : CallOK(call'[d])
  BY <1>1, <1>6, CallsAfter
<1>8. \A d \in Calls : call'[d].state = call[d].state /\ call'[d].privacy = call[d].privacy
  BY <1>6, <1>7
<1> QED BY <1>1, <1>2, <1>3, <1>4, <1>5, <1>7, <1>8, NewsInv DEF TypeInv

\* The avatar or the supervisor publishes.
LEMMA PublishInv ==
    ASSUME PanelInv, AvatarPublishes \/ ProvidersPublish, UNCHANGED panelVars
    PROVE  PanelInv'
<1>1. TypeInv /\ HandlersHaveRead /\ StreamsAdvance
  BY DEF PanelInv
<1>2. UNCHANGED <<privacy, server, sent, wire, call, unnotified>>
  BY DEF AvatarPublishes, ProvidersPublish
<1>3. /\ avatar \in Nat /\ avatar' \in Nat /\ providers \in Nat /\ providers' \in Nat
      /\ avatar <= avatar' /\ providers <= providers'
  BY <1>1 DEF AvatarPublishes, ProvidersPublish, TypeInv
<1>4. ASSUME NEW p \in Panels
      PROVE  /\ watch'[p] \in Watch
             /\ watch'[p].pc = watch[p].pc /\ watch'[p].privacy = watch[p].privacy
             /\ watch'[p].signal = watch[p].signal
             /\ StreamOK(watch'[p], sent[p], avatar', providers')
  <2>1. watch[p] \in Watch /\ StreamOK(watch[p], sent[p], avatar, providers)
    BY <1>1 DEF TypeInv, StreamsAdvance
  <2>2. watch[p].avatar \in Nat /\ watch[p].providers \in Nat
    BY <2>1 DEF Watch
  <2>3. CASE AvatarPublishes
    <3>1. watch'[p] = (IF SubscribedToAvatar(p) THEN [watch[p] EXCEPT !.avatarNews = avatar'] ELSE watch[p])
          /\ providers' = providers
      BY <2>3 DEF AvatarPublishes, Latest
    <3>2. /\ watch'[p] \in Watch
          /\ watch'[p].pc = watch[p].pc /\ watch'[p].privacy = watch[p].privacy
          /\ watch'[p].avatar = watch[p].avatar /\ watch'[p].providers = watch[p].providers
          /\ watch'[p].signal = watch[p].signal
          /\ watch'[p].providerNews = watch[p].providerNews
          /\ watch'[p].avatarNews = IF watch[p].pc # "off" THEN avatar' ELSE watch[p].avatarNews
      BY <1>3, <2>1, <3>1 DEF Watch, SubscribedToAvatar
    <3>3. StreamOK(watch'[p], sent[p], avatar', providers')
      BY <1>3, <2>1, <2>2, <3>1, <3>2 DEF StreamOK
    <3> QED BY <3>2, <3>3
  <2>4. CASE ProvidersPublish
    <3>1. watch'[p] = (IF SubscribedToProviders(p) THEN [watch[p] EXCEPT !.providerNews = providers'] ELSE watch[p])
          /\ avatar' = avatar
      BY <2>4 DEF ProvidersPublish, Latest
    <3>2. /\ watch'[p] \in Watch
          /\ watch'[p].pc = watch[p].pc /\ watch'[p].privacy = watch[p].privacy
          /\ watch'[p].avatar = watch[p].avatar /\ watch'[p].providers = watch[p].providers
          /\ watch'[p].signal = watch[p].signal
          /\ watch'[p].avatarNews = watch[p].avatarNews
          /\ watch'[p].providerNews = IF watch[p].pc \notin {"off", "providers"}
                                      THEN providers' ELSE watch[p].providerNews
      BY <1>3, <2>1, <3>1 DEF Watch, SubscribedToProviders
    <3>3. StreamOK(watch'[p], sent[p], avatar', providers')
      BY <1>3, <2>1, <2>2, <3>1, <3>2 DEF StreamOK
    <3> QED BY <3>2, <3>3
  <2> QED BY <2>3, <2>4
<1>5. watch' \in [Panels -> Watch]
  <2>1. watch' = [p \in Panels |-> watch'[p]]
    BY DEF AvatarPublishes, ProvidersPublish
  <2> QED BY <1>4, <2>1
<1>6. \A p \in Panels : Told(p)' => Told(p)
  BY <1>2, <1>4, Zenon DEF Told
<1> QED BY <1>1, <1>2, <1>3, <1>4, <1>5, <1>6, NewsInv DEF TypeInv, HandlersHaveRead

\* A stream sends: the service gives the state its revision.
LEMMA SendInv ==
    ASSUME PanelInv, NEW p \in Panels, SendComposes(p), UNCHANGED panelVars
    PROVE  PanelInv'
<1>1. TypeInv /\ HandlersHaveRead /\ StreamsAdvance /\ StreamsAreTold
  BY DEF PanelInv
<1> DEFINE n == Composed(watch[p].avatar, watch[p].privacy, watch[p].providers)
           w == [watch[p] EXCEPT !.pc = "select", !.privacy = None]
<1>2. /\ UNCHANGED <<sourceVars, unnotified>> /\ UNCHANGED <<call, latest, run>>
      /\ watch[p].pc = "compose"
      /\ sent' = [sent EXCEPT ![p] = n]
      /\ wire' = [wire EXCEPT ![p] = Append(wire[p], n)]
      /\ Compose(watch[p].avatar, watch[p].privacy, watch[p].providers)
  BY DEF SendComposes, panelVars
<1>3. watch[p] \in Watch /\ StreamOK(watch[p], sent[p], avatar, providers) /\ watch[p].privacy \in Snapshot
  BY <1>1, <1>2 DEF TypeInv, StreamsAdvance, StreamOK
<1>4. Issues(n) /\ n.avatar = watch[p].avatar /\ n.privacy = watch[p].privacy /\ n.providers = watch[p].providers
  <2>1. watch[p].avatar \in Nat /\ watch[p].providers \in Nat /\ watch[p].privacy.revision \in Nat
        /\ server.revision \in Nat
    BY <1>1, <1>3 DEF Watch, Snapshot, TypeInv
  <2>2. n \in DesktopState /\ n.avatar = watch[p].avatar /\ n.privacy = watch[p].privacy
        /\ n.providers = watch[p].providers
        /\ n.revision = compositeRevision(watch[p].avatar, watch[p].privacy, watch[p].providers)
    BY <1>3, <2>1 DEF Composed, DesktopState, compositeRevision
  <2>3. Read(watch[p].privacy)
    BY <1>1, <1>3, StoredIsKnown, DesktopAssumption
  <2>4. server' = [revision |-> compositeRevision(watch[p].avatar, watch[p].privacy, watch[p].providers),
                   tuple |-> <<watch[p].avatar, watch[p].privacy.revision, watch[p].providers>>]
    BY <1>2 DEF Compose
  <2> QED BY <2>2, <2>3, <2>4 DEF Issues, compositeRevision, SameSources
<1>5. n \in DesktopState
  BY <1>4 DEF Issues
<1> HIDE DEF n
<1>6. StreamMoves(p, w, n)
  <2>1. watch' = [watch EXCEPT ![p] = w]
    BY <1>1 DEF SendComposes, TypeInv
  <2>2. /\ w \in Watch /\ w.pc = "select" /\ w.privacy = None /\ w.avatar = watch[p].avatar
        /\ w.providers = watch[p].providers /\ w.avatarNews = watch[p].avatarNews
        /\ w.providerNews = watch[p].providerNews /\ w.signal = watch[p].signal
    BY <1>3 DEF Watch, WatchPc
  <2>3. StreamOK(w, n, avatar, providers)
    <3>1. watch[p].avatar \in Nat /\ watch[p].providers \in Nat
      BY <1>3 DEF Watch
    <3> QED BY <1>3, <1>4, <1>5, <2>2, <3>1 DEF StreamOK
  <2>4. ~unnotified /\ ~w.signal /\ (\A c \in Calls : call[c].pc # "notify") => n.privacy = privacy
    BY <1>1, <1>2, <1>4, <2>2 DEF StreamsAreTold, Told
  <2> HIDE DEF w
  <2> QED BY <1>2, <1>5, <2>1, <2>2, <2>3, <2>4 DEF StreamMoves
<1> HIDE DEF w
<1>7. /\ wire' \in [Panels -> Seq(DesktopState)]
      /\ \A q \in Panels : \A i \in 1..Len(wire'[q]) : Known(wire'[q][i]) \/ wire'[q][i] = n
  <2>1. wire[p] \in Seq(DesktopState)
    BY <1>1 DEF TypeInv
  <2>2. /\ Append(wire[p], n) \in Seq(DesktopState)
        /\ Len(wire[p]) \in Nat
        /\ Len(Append(wire[p], n)) = Len(wire[p]) + 1
        /\ \A i \in 1..Len(wire[p]) : Append(wire[p], n)[i] = wire[p][i]
        /\ Append(wire[p], n)[Len(wire[p]) + 1] = n
    BY <1>5, <2>1, AppendProperties, LenProperties
  <2>3. \A i \in 1..Len(Append(wire[p], n)) : Known(Append(wire[p], n)[i]) \/ Append(wire[p], n)[i] = n
    <3>1. \A i \in 1..Len(wire[p]) : Known(wire[p][i])
      BY <1>1, StoredIsKnown
    <3>2. \A i \in 1..Len(Append(wire[p], n)) : i \in 1..Len(wire[p]) \/ i = Len(wire[p]) + 1
      BY <2>2
    <3> QED BY <2>2, <3>1, <3>2
  <2>4. wire' \in [Panels -> Seq(DesktopState)] /\ wire'[p] = Append(wire[p], n)
        /\ \A q \in Panels \ {p} : wire'[q] = wire[q]
    BY <1>1, <1>2, <2>2 DEF TypeInv
  <2> QED BY <1>1, <2>3, <2>4, StoredIsKnown
<1>8. StatesKept(n)
  <2>1. sent'[p] = n /\ \A q \in Panels \ {p} : sent'[q] = sent[q]
    BY <1>1, <1>2 DEF TypeInv
  <2> QED BY <1>1, <1>2, <1>7, <2>1, StoredIsKnown DEF StatesKept
<1>9. \A c \in Calls : /\ CallOK(call'[c])
                       /\ call'[c].privacy = None \/ Read(call'[c].privacy)
                       /\ call[c].pc = "notify" => call'[c].pc = "notify"
  BY <1>1, <1>2, StoredIsKnown DEF HandlersHaveRead
<1>10. /\ latest' \in [Panels -> DesktopState \cup {None}]
       /\ run' \in [Panels -> {"start", "get", "watch", "ended"}]
       /\ \A q \in Panels : run'[q] = "watch" => latest'[q] \in DesktopState
       /\ call' \in [Calls -> Call]
  BY <1>1, <1>2 DEF TypeInv, HandlersHaveRead
<1> QED BY <1>2, <1>4, <1>6, <1>7, <1>8, <1>9, <1>10, StreamInv

\* The page shows the state it got and opens its stream.
LEMMA RunWatchesInv ==
    ASSUME PanelInv, NEW p \in Panels, RunWatches(p)
    PROVE  PanelInv'
<1>1. TypeInv /\ HandlersHaveRead /\ StreamsAdvance
  BY DEF PanelInv
<1>2. /\ UNCHANGED <<sourceVars, unnotified>> /\ UNCHANGED <<server, sent, wire>>
      /\ watch[p].pc = "off"
      /\ watch' = [watch EXCEPT ![p] = [Off EXCEPT !.pc = "providers", !.avatar = avatar]]
      /\ run' = [run EXCEPT ![p] = "watch"]
  BY DEF RunWatches, SubscribeAvatar
<1>3. PICK c \in Calls : /\ call[c].kind = "get" /\ call[c].pc = "answered"
                         /\ latest' = [latest EXCEPT ![p] = call[c].state]
                         /\ Leave(c)
  BY DEF RunWatches, Render, WorkOf
<1>4. call[c].state \in DesktopState /\ Known(call[c].state)
  <2>1. call[c].state \in DesktopState
    BY <1>1, <1>3 DEF HandlersHaveRead, CallOK
  <2> QED BY <1>1, <2>1, StoredIsKnown, DesktopAssumption
<1>5. PICK r : /\ CallMoves(c, r)
               /\ r.state \in {None, call[c].state} /\ r.privacy \in {None, call[c].privacy}
  BY <1>1, <1>3, LeaveMoves
<1>6. /\ call' \in [Calls -> Call]
      /\ call'[c] = r /\ \A d \in Calls \ {c} : call'[d] = call[d]
      /\ \A d \in Calls : CallOK(call'[d])
  BY <1>1, <1>5, CallsAfter
<1>7. \A d \in Calls : /\ call'[d].state = None \/ Known(call'[d].state)
                       /\ call'[d].privacy = None \/ Read(call'[d].privacy)
                       /\ call[d].pc = "notify" => call'[d].pc = "notify"
  BY <1>1, <1>3, <1>5, <1>6, StoredIsKnown
<1>8. /\ latest' \in [Panels -> DesktopState \cup {None}] /\ latest'[p] = call[c].state
      /\ run' \in [Panels -> {"start", "get", "watch", "ended"}]
      /\ \A q \in Panels \ {p} : latest'[q] = latest[q] /\ run'[q] = run[q]
  BY <1>1, <1>2, <1>3, <1>4 DEF TypeInv
<1>9. StatesKept(None)
  BY <1>1, <1>2, <1>4, <1>7, <1>8, StoredIsKnown DEF StatesKept
<1> DEFINE w == [Off EXCEPT !.pc = "providers", !.avatar = avatar]
<1>10. StreamMoves(p, w, None)
  <2>1. sent[p] = None
    <3>1. sent[p] \in DesktopState \cup {None} /\ StreamOK(watch[p], sent[p], avatar, providers)
      BY <1>1 DEF TypeInv, StreamsAdvance
    <3> QED BY <1>2, <3>1 DEF StreamOK
  <2>2. sent' = [sent EXCEPT ![p] = None]
    BY <1>1, <1>2, <2>1 DEF TypeInv
  <2>3. avatar \in Nat /\ providers \in Nat
    BY <1>1 DEF TypeInv
  <2>4. /\ w \in Watch /\ w.pc = "providers" /\ w.privacy = None /\ w.avatar = avatar /\ w.providers = 0
        /\ w.avatarNews = 0 /\ w.providerNews = 0
    BY <2>3 DEF Off, Watch, WatchPc
  <2>5. StreamOK(w, None, avatar, providers)
    BY <2>3, <2>4, DesktopAssumption DEF StreamOK
  <2>6. watch' = [watch EXCEPT ![p] = w]
    BY <1>2
  <2> HIDE DEF w
  <2> QED BY <2>2, <2>4, <2>5, <2>6 DEF StreamMoves
<1> HIDE DEF w
<1>11. \A q \in Panels : run'[q] = "watch" => latest'[q] \in DesktopState
  BY <1>1, <1>4, <1>8 DEF HandlersHaveRead
<1>12. wire' \in [Panels -> Seq(DesktopState)]
  BY <1>1, <1>2 DEF TypeInv
<1> QED BY <1>2, <1>6, <1>7, <1>8, <1>9, <1>10, <1>11, <1>12, StreamInv

-----------------------------------------------------------------------------
(* The theorems                                                            *)

\* Nothing is known and nothing is under way at the start.
LEMMA PanelInitial == Init => PanelInv
<1> SUFFICES ASSUME Init PROVE PanelInv
  OBVIOUS
<1> USE DesktopAssumption
<1>1. /\ avatar = 1 /\ providers = 1 /\ privacy = [revision |-> 0, enabled |-> {}]
      /\ server = [revision |-> 0, tuple |-> None]
      /\ watch = [p \in Panels |-> Off] /\ sent = [p \in Panels |-> None]
      /\ wire = [p \in Panels |-> <<>>] /\ call = [c \in Calls |-> Unused]
      /\ latest = [p \in Panels |-> None] /\ run = [p \in Panels |-> "start"]
  BY DEF Init, DesktopInit
<1>2. privacy \in Snapshot
  BY <1>1 DEF Snapshot
<1>3. /\ Off \in Watch /\ Off.pc = "off" /\ Off.avatar = 0 /\ Off.providers = 0 /\ Off.privacy = None
      /\ Off.avatarNews = 0 /\ Off.providerNews = 0
  BY DEF Off, Watch, WatchPc
<1>4. /\ Unused \in Call /\ Unused.pc = "unused" /\ Unused.kind = "get" /\ Unused.state = None
      /\ Unused.privacy = None
  BY DEF Unused, Call, CallPc
<1>5. <<>> \in Seq(DesktopState) /\ Len(<<>>) = 0
  OBVIOUS
<1>6. TypeInv
  BY <1>1, <1>2, <1>3, <1>4, <1>5 DEF TypeInv
<1>7. \A s \in DesktopState : ~Known(s)
  BY <1>1, <1>4, <1>5 DEF Known
<1>8. \A x \in Snapshot : Read(x) => x = privacy
  BY <1>1, <1>3, <1>4, <1>7 DEF Read
<1>9. OneSnapshotPerRevision
  <2>1. privacy.revision <= privacy.revision
    BY <1>1
  <2> QED BY <1>8, <2>1 DEF OneSnapshotPerRevision
<1>10. OneStatePerRevision
  BY <1>7 DEF OneStatePerRevision
<1>11. HandlersHaveRead
  BY <1>1, <1>4 DEF HandlersHaveRead, CallOK
<1>12. StreamsAdvance
  <2>1. None \notin DesktopState
    OBVIOUS
  <2>2. StreamOK(Off, None, 1, 1)
    BY <1>3, <2>1 DEF StreamOK
  <2> QED BY <1>1, <2>2 DEF StreamsAdvance
<1>13. StreamsAreTold
  BY <1>1, <1>3 DEF StreamsAreTold
<1> QED BY <1>6, <1>9, <1>10, <1>11, <1>12, <1>13 DEF PanelInv

\* The steps of the specification.
LEMMA PanelSteps ==
    ASSUME Next
    PROVE  \/ UNCHANGED panelVars /\ \E c \in Calls : CallStep(c)
           \/ UNCHANGED panelVars /\ \E p \in Panels : WatchStep(p) \/ StreamBreaks(p)
           \/ UNCHANGED panelVars /\ (AvatarPublishes \/ ProvidersPublish)
           \/ \E p \in Panels :
                \/ RunGets(p) \/ \E c \in Calls, q \in Requests :
                       (\E permission \in Permission : ClickPermission(p, c, permission, q)) \/ ClickReject(p, c, q)
                \/ RunFails(p) \/ \E c \in Calls : PermissionReturns(p, c) \/ RejectReturns(p, c)
                \/ RunReceives(p) \/ RunEnds(p) \/ Stop(p) \/ Join(p) \/ Release(p)
                \/ RunWatches(p)
<1>1. CASE Server /\ UNCHANGED panelVars
  BY <1>1 DEF Server
<1>2. ASSUME NEW p \in Panels, PageStep(p) \/ TimesOut(p)
      PROVE  \/ RunGets(p) \/ RunFails(p) \/ \E c \in Calls : PermissionReturns(p, c) \/ RejectReturns(p, c)
             \/ RunReceives(p) \/ RunEnds(p) \/ Join(p) \/ Release(p) \/ RunWatches(p)
  BY <1>2, Zenon DEF PageStep, TimesOut
<1> QED BY <1>1, <1>2, Zenon DEF Next

\* Every step keeps the invariant.
LEMMA PanelPreserved == PanelInv /\ [Next]_vars => PanelInv'
<1> SUFFICES ASSUME PanelInv, [Next]_vars PROVE PanelInv'
  OBVIOUS
<1>1. ASSUME NEW c \in Calls, CallStep(c), UNCHANGED panelVars PROVE PanelInv'
  BY <1>1, ChangeInv, NotifyInv, ReadInv, AnswerInv DEF CallStep
<1>2. ASSUME NEW p \in Panels, WatchStep(p) \/ StreamBreaks(p), UNCHANGED panelVars PROVE PanelInv'
  BY <1>2, WatchInv, SendInv DEF WatchStep
<1>3. CASE UNCHANGED vars
  <2>1. UNCHANGED <<sourceVars, server, watch, sent, unnotified, call, latest, wire, run>>
    BY <1>3 DEF vars, desktopVars, panelVars
  <2>2. TypeInv /\ HandlersHaveRead
    BY DEF PanelInv
  <2>3. PageKept
    BY <2>1, <2>2, PageUnchanged
  <2>4. \A c \in Calls : /\ CallOK(call'[c])
                         /\ call'[c].state = None \/ Known(call'[c].state)
                         /\ call'[c].privacy = None \/ Read(call'[c].privacy)
                         /\ call[c].pc = "notify" => call'[c].pc = "notify"
    BY <2>1, <2>2, StoredIsKnown DEF HandlersHaveRead
  <2>5. call' \in [Calls -> Call]
    BY <2>1, <2>2 DEF TypeInv
  <2> QED BY <2>1, <2>3, <2>4, <2>5, QuietInv
<1>4. CASE Next
  BY <1>1, <1>2, <1>4, PanelSteps, PublishInv, PageCallsInv, PageReturnsInv, PageInv, RunWatchesInv, Zenon
<1> QED BY <1>3, <1>4

\* The inductive invariant holds: the types, one snapshot per revision of the
\* permissions, one state per revision of the service, what each handler has
\* read and sent, and that a stream no signal waits for is up to date.
THEOREM PanelInvariant == Spec => []PanelInv
BY PanelInitial, PanelPreserved, PTL DEF Spec

\* Two states with one revision are one state, for any number of handlers that
\* read the sources one by one and take the revision afterwards.
THEOREM PanelSameRevisionSameState == Spec => []SameRevisionSameState
<1>1. PanelInv => SameRevisionSameState
  <2> SUFFICES ASSUME PanelInv, NEW s \in Issued \ {None}, NEW t \in Issued \ {None}, s.revision = t.revision
               PROVE  s = t
    BY DEF SameRevisionSameState
  <2>1. TypeInv /\ OneStatePerRevision
    BY DEF PanelInv
  <2>2. \A u \in Issued \ {None} : Known(u)
    BY <2>1, StoredIsKnown DEF Issued
  <2>3. \A u \in Issued \ {None} : u \in DesktopState
    BY <2>2 DEF Known
  <2> QED BY <2>1, <2>2, <2>3 DEF OneStatePerRevision
<1> QED BY <1>1, PanelInvariant, PTL

\* A page that has nothing under way shows the capture permissions that are
\* granted, unless the answer it rendered last carries an older snapshot than
\* the stream brought or a change told nobody.
THEOREM PanelOpenPageTellsTheTruth == Spec => []OpenPageTellsTheTruthUnlessOvertaken
<1>1. PanelInv => OpenPageTellsTheTruthUnlessOvertaken
  <2> SUFFICES ASSUME PanelInv, NEW p \in Panels, Settled(p), ~unnotified,
                      latest[p].privacy.revision >= sent[p].privacy.revision
               PROVE  latest[p].privacy = privacy
    BY DEF OpenPageTellsTheTruthUnlessOvertaken, Indicators
  <2>1. TypeInv /\ OneSnapshotPerRevision /\ HandlersHaveRead /\ StreamsAreTold
    BY DEF PanelInv
  <2>2. Told(p) /\ watch[p].pc = "select" /\ run[p] = "watch"
    BY DEF Settled, Told
  <2>3. sent[p].privacy = privacy
    BY <2>1, <2>2 DEF StreamsAreTold
  <2>4. latest[p] \in DesktopState
    BY <2>1, <2>2 DEF HandlersHaveRead
  <2>5. latest[p].privacy \in Snapshot /\ Read(latest[p].privacy) /\ privacy \in Snapshot /\ Read(privacy)
    <3>1. Known(latest[p])
      BY <2>1, <2>4, StoredIsKnown, DesktopAssumption
    <3> QED BY <2>1, <2>4, <3>1, StoredIsKnown DEF DesktopState, TypeInv
  <2>6. latest[p].privacy.revision \in Nat /\ privacy.revision \in Nat
    BY <2>5 DEF Snapshot
  <2>7. latest[p].privacy.revision = privacy.revision
    BY <2>1, <2>3, <2>5, <2>6 DEF OneSnapshotPerRevision
  <2> QED BY <2>1, <2>5, <2>7 DEF OneSnapshotPerRevision
<1> QED BY <1>1, PanelInvariant, PTL

\* What one stream brings never goes back, although the avatar comes from the
\* channel or is read anew and other handlers take revisions in between.
THEOREM PanelStreamNeverGoesBack == Spec => StreamNeverGoesBack
<1> DEFINE Forward(s, t) ==
      /\ t.revision >= s.revision /\ t.avatar >= s.avatar
      /\ t.privacy.revision >= s.privacy.revision /\ t.providers >= s.providers
<1>1. ASSUME PanelInv, [Next]_vars, NEW p \in Panels, sent[p] # None, sent'[p] # None
      PROVE  Forward(sent[p], sent'[p])
  <2>1. TypeInv /\ OneStatePerRevision /\ StreamsAdvance
    BY <1>1 DEF PanelInv
  <2>2. sent[p] \in DesktopState /\ Known(sent[p]) /\ StreamOK(watch[p], sent[p], avatar, providers)
    BY <1>1, <2>1, StoredIsKnown DEF TypeInv, StreamsAdvance
  <2>3. /\ sent[p].revision \in Nat /\ sent[p].avatar \in Nat /\ sent[p].privacy.revision \in Nat
        /\ sent[p].providers \in Nat
    BY <2>2 DEF DesktopState, Snapshot
  <2>4. sent' = sent \/ \E q \in Panels : SendComposes(q) \/ StreamBreaks(q)
    <3>1. CASE UNCHANGED vars
      BY <3>1 DEF vars, desktopVars
    <3>2. ASSUME NEW c \in Calls, CallStep(c) PROVE sent' = sent
      BY <3>2 DEF CallStep, ChangePermission, Notify, ReadAvatar, ReadProviders, ReadPermissions, Answer, Submit
    <3>3. ASSUME NEW q \in Panels, WatchStep(q) PROVE sent' = sent \/ SendComposes(q)
      BY <3>3 DEF WatchStep, SubscribeProviders, SubscribePermissions, SendReads, SelectAvatar,
                  SelectPermission, SelectProvider, WatchUnchanged
    <3>4. AvatarPublishes \/ ProvidersPublish => sent' = sent
      BY DEF AvatarPublishes, ProvidersPublish
    <3>5. ASSUME NEW q \in Panels,
                 \/ RunGets(q) \/ \E c \in Calls, r \in Requests :
                        (\E permission \in Permission : ClickPermission(q, c, permission, r)) \/ ClickReject(q, c, r)
                 \/ RunFails(q) \/ \E c \in Calls : PermissionReturns(q, c) \/ RejectReturns(q, c)
                 \/ RunReceives(q) \/ RunEnds(q) \/ Stop(q) \/ Join(q) \/ Release(q)
                 \/ RunWatches(q)
          PROVE  sent' = sent
      BY <3>5 DEF RunGets, ClickPermission, ClickReject, RunFails, PermissionReturns, RejectReturns, RunReceives,
                  RunEnds, Stop, Join, Release, RunWatches, SubscribeAvatar, desktopVars
    <3> QED BY <1>1, <3>1, <3>2, <3>3, <3>4, <3>5, PanelSteps, Zenon
  <2>5. CASE sent'[p] = sent[p]
    BY <2>3, <2>5
  <2>6. ASSUME NEW q \in Panels, StreamBreaks(q) PROVE sent'[p] = sent[p]
    BY <1>1, <2>1, <2>6 DEF StreamBreaks, TypeInv
  <2>7. ASSUME NEW q \in Panels, SendComposes(q), q # p PROVE sent'[p] = sent[p]
    BY <2>1, <2>7 DEF SendComposes, TypeInv
  <2>8. CASE SendComposes(p)
    <3> DEFINE w == watch[p]
               n == Composed(w.avatar, w.privacy, w.providers)
    <3>1. sent'[p] = n /\ w.pc = "compose"
      BY <2>1, <2>8 DEF SendComposes, TypeInv
    <3>2. n.avatar = w.avatar /\ n.privacy = w.privacy /\ n.providers = w.providers
          /\ n.revision \in {server.revision, server.revision + 1}
      BY DEF Composed, compositeRevision
    <3>3. sent[p].revision <= server.revision /\ server.revision \in Nat
      BY <2>1, <2>2 DEF OneStatePerRevision, TypeInv
    <3>4. w \in Watch /\ w.privacy \in Snapshot
      BY <2>1, <2>2, <3>1 DEF TypeInv, StreamOK
    <3>5. w.avatar \in Nat /\ w.providers \in Nat /\ w.privacy.revision \in Nat
      BY <3>4 DEF Watch, Snapshot
    <3>6. sent[p].avatar <= w.avatar /\ sent[p].providers <= w.providers
          /\ sent[p].privacy.revision <= w.privacy.revision
      BY <2>2, <3>1 DEF StreamOK
    <3> HIDE DEF n, w
    <3> QED BY <2>3, <3>1, <3>2, <3>3, <3>5, <3>6
  <2> QED BY <2>4, <2>5, <2>6, <2>7, <2>8
<1>2. PanelInv /\ [Next]_vars =>
        [\A p \in Panels : sent[p] # None /\ sent'[p] # None =>
           /\ sent'[p].revision >= sent[p].revision
           /\ sent'[p].avatar >= sent[p].avatar
           /\ sent'[p].privacy.revision >= sent[p].privacy.revision
           /\ sent'[p].providers >= sent[p].providers]_vars
  BY <1>1
<1> QED BY <1>2, PanelInvariant, PTL DEF Spec, StreamNeverGoesBack

\* A page that main has waited for is stopping, and nothing of it is left.
HiddenInv ==
    /\ stopping \in [Panels -> BOOLEAN]
    /\ main \in [Panels -> {"running", "joined", "released"}]
    /\ \A p \in Panels : main[p] # "running" => stopping[p] /\ run[p] = "ended" /\ WorkOf(p) = {}

\* A call belongs to the page that made it until its goroutine returns; only a
\* page that has not ended or is not stopping makes one.
LEMMA CallsBelong ==
    ASSUME PanelInv, HiddenInv, Next, NEW c \in Calls, NEW p \in Panels, call'[c].panel = p
    PROVE  call[c].panel = p \/ main[p] = "running"
<1>1. TypeInv /\ HandlersHaveRead
  BY DEF PanelInv
<1>2. p # None
  BY DesktopAssumption
<1>3. ASSUME NEW d \in Calls, NEW r, CallMoves(d, r), r.panel \in {None, call[d].panel}
      PROVE  call[c].panel = p
  BY <1>1, <1>2, <1>3, CallsAfter
<1>4. ASSUME NEW d \in Calls, CallStep(d) PROVE call[c].panel = p
  <2>1. call[d] \in Call
    BY <1>1 DEF TypeInv
  <2>2. CASE ReadAvatar(d) \/ ReadProviders(d) \/ ReadPermissions(d)
    BY <1>1, <1>3, <2>2, ReadMoves
  <2>3. CASE Answer(d) \/ Submit(d) \/ \E pc0, s : Return(d, pc0, s)
    <3>1. PICK pc0, s : Return(d, pc0, s)
      BY <2>3 DEF Answer, Submit
    <3>2. CASE call[d].panel = None
      <4>1. call' = [call EXCEPT ![d] = Done] /\ Done.panel = None
        BY <3>1, <3>2 DEF Return, Done, Unused
      <4> QED BY <1>1, <1>2, <4>1 DEF TypeInv
    <3>3. CASE call[d].panel # None
      <4> DEFINE r == [call[d] EXCEPT !.pc = pc0, !.state = s, !.privacy = None]
      <4>1. call' = [call EXCEPT ![d] = r] /\ r.panel = call[d].panel
        BY <2>1, <3>1, <3>3 DEF Return, Call
      <4> HIDE DEF r
      <4> QED BY <1>1, <4>1 DEF TypeInv
    <3> QED BY <3>2, <3>3
  <2>4. CASE Notify(d)
    <3> DEFINE r == [call[d] EXCEPT !.pc = "avatar"]
    <3>1. call' = [call EXCEPT ![d] = r] /\ r.panel = call[d].panel
      BY <2>1, <2>4 DEF Notify, Goto, Call
    <3> HIDE DEF r
    <3> QED BY <1>1, <3>1 DEF TypeInv
  <2>5. CASE ChangePermission(d)
    <3> DEFINE after == Changed(call[d].permission, call[d].enabled)
               r == [call[d] EXCEPT !.pc = "notify", !.privacy = after]
    <3>1. call' = [call EXCEPT ![d].pc = "notify", ![d].privacy = after] \/ Return(d, "failed", None)
      BY <2>5, Zenon DEF ChangePermission
    <3> HIDE DEF after
    <3>2. ASSUME call' = [call EXCEPT ![d].pc = "notify", ![d].privacy = after] PROVE call[c].panel = p
      <4>1. call' = [call EXCEPT ![d] = r] /\ r.panel = call[d].panel
        BY <1>1, <2>1, <3>2 DEF TypeInv, Call
      <4> HIDE DEF r
      <4> QED BY <1>1, <4>1 DEF TypeInv
    <3> QED BY <2>3, <3>1, <3>2
  <2> QED BY <1>4, <2>2, <2>3, <2>4, <2>5 DEF CallStep
<1>5. ASSUME NEW q \in Panels, WatchStep(q) \/ StreamBreaks(q) PROVE call' = call
  BY <1>5 DEF WatchStep, SubscribeProviders, SubscribePermissions, SendReads, SendComposes, SelectAvatar,
              SelectPermission, SelectProvider, WatchUnchanged, StreamBreaks
<1>6. AvatarPublishes \/ ProvidersPublish => call' = call
  BY DEF AvatarPublishes, ProvidersPublish
<1>7. ASSUME NEW q \in Panels, RunReceives(q) \/ RunEnds(q) \/ Stop(q) \/ Join(q) \/ Release(q) PROVE call' = call
  BY <1>7 DEF RunReceives, RunEnds, Stop, Join, Release, desktopVars
<1>8. ASSUME NEW q \in Panels,
             \/ RunFails(q) \/ RunWatches(q) \/ \E d \in Calls : PermissionReturns(q, d) \/ RejectReturns(q, d)
      PROVE  call[c].panel = p
  <2>1. PICK d \in Calls : Leave(d)
    BY <1>8 DEF RunFails, RunWatches, PermissionReturns, RejectReturns, WorkOf
  <2>2. PICK r : CallMoves(d, r) /\ r.panel = None
    BY <1>1, <2>1, LeaveMoves
  <2> QED BY <1>3, <2>2
<1>9. ASSUME NEW q \in Panels,
             \/ RunGets(q)
             \/ \E d \in Calls, o \in Requests :
                    (\E permission \in Permission : ClickPermission(q, d, permission, o)) \/ ClickReject(q, d, o)
      PROVE  call[c].panel = p \/ main[p] = "running"
  <2>1. main[q] = "running"
    BY <1>9 DEF RunGets, ClickPermission, ClickReject, Spawns, HiddenInv
  <2>2. PICK d \in Calls : \E o, kind, permission, enabled : Enter(d, q, o, kind, permission, enabled)
    BY <1>9, Zenon DEF RunGets, ClickPermission, ClickReject
  <2>3. PICK r : call' = [call EXCEPT ![d] = r] /\ r.panel = q
    <3>1. PICK o, kind, permission, enabled : Enter(d, q, o, kind, permission, enabled)
      BY <2>2
    <3> DEFINE first == CASE kind = "get" -> "avatar" [] kind = "set" -> "change" [] kind = "reject" -> "submit"
               pc0 == IF Authorize(o) = "OK" THEN first ELSE "failed"
               r == [Unused EXCEPT !.pc = pc0, !.kind = kind, !.panel = q, !.permission = permission, !.enabled = enabled]
    <3>2. call' = [call EXCEPT ![d] = r]
      BY <3>1, Zenon DEF Enter
    <3> HIDE DEF pc0
    <3>3. r.panel = q
      BY DEF Unused
    <3> QED BY <3>2, <3>3
  <2> QED BY <1>1, <2>1, <2>3 DEF TypeInv
<1> QED BY <1>4, <1>5, <1>6, <1>7, <1>8, <1>9, PanelSteps, Zenon

\* Once main has waited for the page's work there is none, and no click before
\* the callbacks are released starts any.
THEOREM PanelHiddenPageIsQuiet == Spec => []HiddenPageIsQuiet
<1>1. Init => HiddenInv
  BY DEF Init, HiddenInv
<1>2. ASSUME PanelInv, HiddenInv, Next PROVE HiddenInv'
  <2>1. TypeInv
    BY <1>2 DEF PanelInv
  <2>2. \/ UNCHANGED <<stopping, main>> /\ \A p \in Panels : run[p] = "ended" => run'[p] = "ended"
        \/ run' = run /\ \E q \in Panels : Stop(q) \/ Join(q) \/ Release(q)
    <3>1. UNCHANGED panelVars => UNCHANGED <<stopping, main, run>>
      BY DEF panelVars
    <3>2. ASSUME NEW q \in Panels, Stop(q) \/ Join(q) \/ Release(q) PROVE run' = run
      BY <3>2 DEF Stop, Join, Release
    <3>3. ASSUME NEW q \in Panels,
                 \/ RunGets(q) \/ \E c \in Calls, r \in Requests :
                        (\E permission \in Permission : ClickPermission(q, c, permission, r)) \/ ClickReject(q, c, r)
                 \/ RunFails(q) \/ \E c \in Calls : PermissionReturns(q, c) \/ RejectReturns(q, c)
                 \/ RunReceives(q) \/ RunEnds(q) \/ RunWatches(q)
          PROVE  UNCHANGED <<stopping, main>> /\ \A p \in Panels : run[p] = "ended" => run'[p] = "ended"
      <4>1. UNCHANGED <<stopping, main>>
        BY <3>3 DEF RunGets, ClickPermission, ClickReject, RunFails, PermissionReturns, RejectReturns, RunReceives,
                    RunEnds, RunWatches
      <4>2. \/ run' = run
            \/ run' = [run EXCEPT ![q] = "ended"]
            \/ run[q] = "start" /\ run' = [run EXCEPT ![q] = "get"]
            \/ run[q] = "get" /\ run' = [run EXCEPT ![q] = "watch"]
        BY <3>3 DEF RunGets, ClickPermission, ClickReject, RunFails, PermissionReturns, RejectReturns, RunReceives,
                    RunEnds, RunWatches
      <4> QED BY <2>1, <4>1, <4>2 DEF TypeInv
    <3> QED BY <1>2, <3>1, <3>2, <3>3, PanelSteps, Zenon
  <2>3. \A p \in Panels : WorkOf(p) = {} /\ main[p] # "running" => (WorkOf(p) = {})'
    BY <1>2, CallsBelong DEF WorkOf
  <2>4. CASE UNCHANGED <<stopping, main>> /\ \A p \in Panels : run[p] = "ended" => run'[p] = "ended"
    BY <1>2, <2>3, <2>4 DEF HiddenInv
  <2>5. ASSUME NEW q \in Panels, run' = run, Stop(q) \/ Join(q) \/ Release(q) PROVE HiddenInv'
    <3>1. call' = call
      BY <2>5 DEF Stop, Join, Release, desktopVars
    <3>2. \A p \in Panels : WorkOf(p)' = WorkOf(p)
      BY <3>1 DEF WorkOf
    <3>3. CASE Stop(q)
      BY <1>2, <2>5, <3>2, <3>3 DEF Stop, HiddenInv
    <3>4. CASE Join(q)
      BY <1>2, <2>5, <3>2, <3>4 DEF Join, HiddenInv
    <3>5. CASE Release(q)
      BY <1>2, <2>5, <3>2, <3>5 DEF Release, HiddenInv
    <3> QED BY <2>5, <3>3, <3>4, <3>5
  <2> QED BY <2>2, <2>4, <2>5
<1>3. ASSUME HiddenInv, UNCHANGED vars PROVE HiddenInv'
  BY <1>3 DEF HiddenInv, WorkOf, vars, desktopVars, panelVars
<1>4. HiddenInv => HiddenPageIsQuiet
  BY DEF HiddenInv, HiddenPageIsQuiet
<1> QED BY <1>1, <1>2, <1>3, <1>4, PanelInvariant, PTL DEF Spec

=============================================================================
