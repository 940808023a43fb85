------------------------- MODULE PrivacyStoreProofs -------------------------
(***************************************************************************)
(* Proofs about PrivacyStore: a program that could start once can start    *)
(* again after any failure and any crash, and the store implements the     *)
(* abstract PermissionRegister, for any permissions, any revision limit    *)
(* and any files at the first start.                                       *)
(***************************************************************************)
EXTENDS PrivacyStore, TLAPS

Steps == {"check", "prepare", "write", "flush", "rename", "syncDirectory", "publish"}

\* What canonicalize guarantees of a snapshot, and every change keeps.
Canonical(s) ==
    /\ s.revision = 0 => \A p \in Permission : s.grants[p] = Disabled
    /\ \A p \in Permission : s.grants[p].enabled => s.grants[p].dated

\* s is t with one permission toggled, at the given revision.
Toggled(s, t, revision) ==
    \E p \in Permission, e \in BOOLEAN :
        /\ t.grants[p].enabled # e
        /\ s = [revision |-> revision,
                grants |-> [t.grants EXCEPT ![p] = [enabled |-> e, dated |-> TRUE]]]

\* The running service holds a canonical snapshot.
CurrentIsCanonical == current # Down => Canonical(current)

\* A Change in progress saves its own toggle, and past Save's check the
\* revision has not overflowed.
ChangeIsCurrent ==
    pc # "idle" => /\ current # Down
                   /\ next # Down
                   /\ Toggled(next, current, (current.revision + 1) % (MaxRevision + 1))
                   /\ pc # "check" => current.revision # MaxRevision

\* Where the new document is at each step.
DocumentIsPlaced ==
    /\ pc = "rename" => temporary = encodeDocument(next)
    /\ pc \in {"syncDirectory", "publish"} => disk = encodeDocument(next)
    /\ pc = "publish" => surviving = {disk}

\* What a crash may leave: the path as it is, or only contents New accepts.
SurvivorsOpen ==
    /\ disk \in surviving
    /\ surviving = {disk} \/ \A content \in surviving : Opens(content)

\* The inductive invariant.
StoreInv ==
    /\ StoreTypeOK
    /\ CurrentIsCanonical
    /\ ChangeIsCurrent
    /\ DocumentIsPlaced
    /\ SurvivorsOpen
    /\ RestartIsNeverRefused

-----------------------------------------------------------------------------
(* The document                                                            *)

\* canonicalize of an acceptable document is a canonical snapshot.
LEMMA CanonicalizeIsCanonical ==
    ASSUME NEW d \in Document, Acceptable(d)
    PROVE  /\ canonicalize(d) \in Snapshot
           /\ Canonical(canonicalize(d))
           /\ canonicalize(d).revision = d.revision
<1> DEFINE named(p) == \E g \in d.grants : g.permission = p
           entry(p) == CHOOSE g \in d.grants : g.permission = p
           value(p) == IF named(p) THEN entry(p).grant ELSE Disabled
<1>1. ASSUME NEW p \in Permission, named(p)
      PROVE  entry(p) \in d.grants /\ entry(p).permission = p
  BY <1>1
<1>2. ASSUME NEW g \in d.grants PROVE g.grant \in Grant
  BY <1>2 DEF Document
<1>3. Disabled \in Grant
  BY DEF Disabled, Grant
<1>4. \A p \in Permission : value(p) \in Grant
  BY <1>1, <1>2, <1>3
<1>5. canonicalize(d) = [revision |-> d.revision, grants |-> [p \in Permission |-> value(p)]]
  BY DEF canonicalize
<1>6. \A p \in Permission : value(p).enabled => value(p).dated
  BY <1>1 DEF Acceptable, Disabled
<1>7. d.revision = 0 => \A p \in Permission : value(p) = Disabled
  BY <1>1 DEF Acceptable
<1> HIDE DEF value
<1> QED
  BY <1>4, <1>5, <1>6, <1>7 DEF Canonical, Snapshot, Document

\* A canonical snapshot survives encoding and decoding.
LEMMA EncodeDecode ==
    ASSUME NEW s \in Snapshot, Canonical(s)
    PROVE  /\ encodeDocument(s) \in Document
           /\ Opens(encodeDocument(s))
           /\ canonicalize(loadLocked(encodeDocument(s))) = s
           /\ loadLocked(encodeDocument(s)) = encodeDocument(s)
<1> DEFINE d == encodeDocument(s)
           entry(p) == [permission |-> p, grant |-> s.grants[p]]
<1>1. d = [revision |-> s.revision, grants |-> {entry(p) : p \in Permission}]
  BY DEF encodeDocument
<1>2. \A p \in Permission : s.grants[p] \in Grant
  BY DEF Snapshot
<1>3. d \in Document
  BY <1>1, <1>2 DEF Document, Snapshot
<1>4. d # NoFile /\ d # Unreadable
  BY <1>3, StoreAssumption
<1>5. Acceptable(d)
  BY <1>1 DEF Acceptable, Canonical
<1>6. loadLocked(d) = d
  BY <1>4 DEF loadLocked
<1>7. Opens(d)
  BY <1>4, <1>5, <1>6 DEF Opens, decodeDocument
<1>8. ASSUME NEW p \in Permission
      PROVE  /\ \E g \in d.grants : g.permission = p
             /\ (CHOOSE g \in d.grants : g.permission = p).grant = s.grants[p]
  <2>1. entry(p) \in d.grants /\ entry(p).permission = p
    BY <1>1
  <2>2. \A g \in d.grants : g.permission = p => g.grant = s.grants[p]
    BY <1>1
  <2> QED BY <2>1, <2>2
<1>9. canonicalize(d) = [revision |-> s.revision, grants |-> [p \in Permission |-> s.grants[p]]]
  BY <1>1, <1>8 DEF canonicalize
<1>10. canonicalize(d) = s
  BY <1>9 DEF Snapshot
<1> QED BY <1>3, <1>6, <1>7, <1>10

\* A toggle of a canonical snapshot at a later revision is canonical.
LEMMA ToggledIsCanonical ==
    ASSUME NEW t \in Snapshot, Canonical(t), NEW revision \in 0..MaxRevision,
           NEW s, Toggled(s, t, revision)
    PROVE  /\ s \in Snapshot
           /\ s.revision = revision
           /\ revision # 0 => Canonical(s)
<1>1. PICK p \in Permission, e \in BOOLEAN :
          s = [revision |-> revision,
               grants |-> [t.grants EXCEPT ![p] = [enabled |-> e, dated |-> TRUE]]]
  BY DEF Toggled
<1>2. [enabled |-> e, dated |-> TRUE] \in Grant
  BY DEF Grant
<1>3. t.grants \in [Permission -> Grant]
  BY DEF Snapshot
<1>4. s.grants = [t.grants EXCEPT ![p] = [enabled |-> e, dated |-> TRUE]] /\ s.revision = revision
  BY <1>1
<1>5. s.grants \in [Permission -> Grant]
  BY <1>2, <1>3, <1>4
<1>6. s \in Snapshot
  BY <1>1, <1>4, <1>5 DEF Snapshot
<1>7. \A q \in Permission : s.grants[q].enabled => s.grants[q].dated
  BY <1>3, <1>4 DEF Canonical
<1> QED BY <1>4, <1>6, <1>7 DEF Canonical

\* The document of a Change that has passed Save's check.
LEMMA NextOpens ==
    ASSUME StoreInv, pc \notin {"idle", "check"}
    PROVE  /\ next \in Snapshot /\ Canonical(next)
           /\ encodeDocument(next) \in Document
           /\ Opens(encodeDocument(next))
           /\ canonicalize(loadLocked(encodeDocument(next))) = next
<1>1. /\ current \in Snapshot /\ Canonical(current)
      /\ current.revision + 1 \in 0..MaxRevision /\ current.revision + 1 # 0
      /\ Toggled(next, current, current.revision + 1)
  <2>1. /\ current \in Snapshot /\ Canonical(current)
        /\ current.revision # MaxRevision
        /\ Toggled(next, current, (current.revision + 1) % (MaxRevision + 1))
    BY DEF StoreInv, StoreTypeOK, CurrentIsCanonical, ChangeIsCurrent
  <2>2. current.revision \in 0..MaxRevision
    BY <2>1 DEF Snapshot
  <2>3. (current.revision + 1) % (MaxRevision + 1) = current.revision + 1
    BY <2>1, <2>2, StoreAssumption
  <2> QED BY <2>1, <2>2, <2>3, StoreAssumption
<1>2. next \in Snapshot /\ Canonical(next)
  BY <1>1, ToggledIsCanonical
<1> QED BY <1>2, EncodeDecode

-----------------------------------------------------------------------------
(* The invariant                                                           *)

LEMMA StoreInit == Init => StoreInv
<1> SUFFICES ASSUME Init PROVE StoreInv
  OBVIOUS
<1>1. StoreTypeOK
  BY StoreAssumption DEF Init, StoreTypeOK, Content
<1>2. RestartIsNeverRefused /\ CurrentIsCanonical
  BY DEF Init, RestartIsNeverRefused, CurrentIsCanonical
<1>3. ChangeIsCurrent /\ DocumentIsPlaced /\ SurvivorsOpen
  BY DEF Init, ChangeIsCurrent, DocumentIsPlaced, SurvivorsOpen
<1> QED BY <1>1, <1>2, <1>3 DEF StoreInv

LEMMA NewInv == StoreInv /\ New => StoreInv'
<1> SUFFICES ASSUME StoreInv, New PROVE StoreInv'
  OBVIOUS
<1> DEFINE d == loadLocked(disk)
<1>1. d \in Document /\ Acceptable(d)
  <2>1. disk \in Document \cup {NoFile} /\ Acceptable(d)
    BY DEF New, Opens, decodeDocument, StoreInv, StoreTypeOK, Content
  <2>2. [revision |-> 0, grants |-> {}] \in Document
    BY StoreAssumption DEF Document
  <2> QED BY <2>1, <2>2 DEF loadLocked
<1>2. /\ current' \in Snapshot /\ Canonical(current)'
      /\ current' # Down
  BY <1>1, CanonicalizeIsCanonical, StoreAssumption DEF New, Canonical
<1>3. StoreTypeOK'
  BY <1>2 DEF StoreInv, StoreTypeOK, New
<1>4. CurrentIsCanonical'
  BY <1>2 DEF CurrentIsCanonical
<1>5. pc = "idle"
  BY DEF StoreInv, ChangeIsCurrent, New
<1>6. ChangeIsCurrent' /\ DocumentIsPlaced'
  BY <1>5 DEF New, ChangeIsCurrent, DocumentIsPlaced
<1>7. SurvivorsOpen'
  BY DEF New, StoreInv, SurvivorsOpen, Opens, Acceptable, decodeDocument, loadLocked
<1>8. RestartIsNeverRefused'
  <2>1. \A content \in surviving \cup {disk} : Opens(content)
    BY DEF StoreInv, SurvivorsOpen, New
  <2> QED BY <2>1 DEF RestartIsNeverRefused, New, Opens, Acceptable, decodeDocument, loadLocked
<1> QED BY <1>3, <1>4, <1>6, <1>7, <1>8 DEF StoreInv

LEMMA ChangeInv ==
    ASSUME StoreInv, NEW p \in Permission, NEW e \in BOOLEAN, Change(p, e)
    PROVE  StoreInv'
<1> DEFINE revision == (current.revision + 1) % (MaxRevision + 1)
<1>1. current \in Snapshot /\ Canonical(current)
  BY DEF StoreInv, StoreTypeOK, CurrentIsCanonical, Change
<1>2. revision \in 0..MaxRevision
  <2>1. current.revision \in Nat /\ MaxRevision \in Nat
    BY <1>1, StoreAssumption DEF Snapshot
  <2>2. current.revision + 1 \in Nat /\ MaxRevision + 1 \in Nat \ {0}
    BY <2>1
  <2> HIDE DEF revision
  <2>3. revision \in Nat /\ revision < MaxRevision + 1
    BY <2>1, <2>2 DEF revision
  <2> QED BY <2>1, <2>3
<1>3. Toggled(next', current, revision)
  BY DEF Change, Toggled
<1>4. next' \in Snapshot
  BY <1>1, <1>2, <1>3, ToggledIsCanonical
<1>5. next' # Down
  BY <1>4, StoreAssumption
<1>6. StoreTypeOK'
  BY <1>4 DEF Change, StoreInv, StoreTypeOK
<1>7. CurrentIsCanonical' /\ DocumentIsPlaced'
  BY DEF Change, StoreInv, CurrentIsCanonical, Canonical, DocumentIsPlaced
<1>8. ChangeIsCurrent'
  <2> HIDE DEF revision
  <2> QED BY <1>2, <1>3, <1>5 DEF Change, ChangeIsCurrent, Toggled
<1>9. SurvivorsOpen' /\ RestartIsNeverRefused'
  BY DEF Change, StoreInv, SurvivorsOpen, RestartIsNeverRefused
<1> QED BY <1>6, <1>7, <1>8, <1>9 DEF StoreInv

LEMMA SaveInv == StoreInv /\ Save => StoreInv'
<1> SUFFICES ASSUME StoreInv, Save PROVE StoreInv'
  OBVIOUS
<1>1. StoreTypeOK' /\ CurrentIsCanonical'
  BY DEF Save, StoreInv, StoreTypeOK, CurrentIsCanonical, Canonical
<1>2. ChangeIsCurrent'
  BY DEF Save, StoreInv, ChangeIsCurrent, Toggled
<1>3. DocumentIsPlaced' /\ SurvivorsOpen' /\ RestartIsNeverRefused'
  BY DEF Save, StoreInv, DocumentIsPlaced, SurvivorsOpen, RestartIsNeverRefused
<1> QED BY <1>1, <1>2, <1>3 DEF StoreInv

\* The steps before the rename leave the path alone.
LEMMA PrepareInv ==
    ASSUME StoreInv, ensurePrivateDirectory \/ WriteTemporary \/ SyncTemporary
    PROVE  StoreInv'
<1>1. pc \notin {"idle", "check"}
  BY DEF ensurePrivateDirectory, WriteTemporary, SyncTemporary
<1>2. encodeDocument(next) \in Document
  BY <1>1, NextOpens
<1>3. StoreTypeOK'
  BY <1>2 DEF ensurePrivateDirectory, WriteTemporary, SyncTemporary, StoreInv, StoreTypeOK, Content
<1>4. /\ UNCHANGED <<disk, surviving, current, next>>
      /\ pc' \in {"write", "flush", "rename"}
      /\ pc' = "rename" => temporary' = encodeDocument(next)
  BY DEF ensurePrivateDirectory, WriteTemporary, SyncTemporary
<1>5. CurrentIsCanonical' /\ ChangeIsCurrent'
  BY <1>1, <1>4 DEF StoreInv, CurrentIsCanonical, Canonical, ChangeIsCurrent, Toggled
<1>6. DocumentIsPlaced'
  BY <1>4 DEF DocumentIsPlaced, encodeDocument
<1>7. SurvivorsOpen' /\ RestartIsNeverRefused'
  BY <1>4 DEF StoreInv, SurvivorsOpen, RestartIsNeverRefused
<1> QED BY <1>3, <1>5, <1>6, <1>7 DEF StoreInv

LEMMA RenameInv == StoreInv /\ Rename => StoreInv'
<1> SUFFICES ASSUME StoreInv, Rename PROVE StoreInv'
  OBVIOUS
<1>1. encodeDocument(next) \in Document /\ Opens(encodeDocument(next))
  BY NextOpens DEF Rename
<1>2. temporary = encodeDocument(next)
  BY DEF Rename, StoreInv, DocumentIsPlaced
<1>3. StoreTypeOK'
  BY <1>1, <1>2 DEF Rename, StoreInv, StoreTypeOK, Content
<1>4. CurrentIsCanonical' /\ ChangeIsCurrent'
  BY DEF Rename, StoreInv, CurrentIsCanonical, Canonical, ChangeIsCurrent, Toggled
<1>5. DocumentIsPlaced'
  BY DEF Rename, DocumentIsPlaced, encodeDocument
<1>6. \A content \in surviving \cup {disk} : Opens(content)
  BY DEF Rename, StoreInv, ChangeIsCurrent, RestartIsNeverRefused
<1>7. SurvivorsOpen' /\ RestartIsNeverRefused'
  BY <1>1, <1>2, <1>6 DEF Rename, SurvivorsOpen, RestartIsNeverRefused
<1> QED BY <1>3, <1>4, <1>5, <1>7 DEF StoreInv

LEMMA SyncDirectoryInv == StoreInv /\ SyncDirectory => StoreInv'
<1> SUFFICES ASSUME StoreInv, SyncDirectory PROVE StoreInv'
  OBVIOUS
<1>1. StoreTypeOK' /\ CurrentIsCanonical' /\ ChangeIsCurrent'
  BY DEF SyncDirectory, StoreInv, StoreTypeOK, CurrentIsCanonical, Canonical, ChangeIsCurrent, Toggled
<1>2. DocumentIsPlaced' /\ SurvivorsOpen' /\ RestartIsNeverRefused'
  BY DEF SyncDirectory, StoreInv, DocumentIsPlaced, SurvivorsOpen, RestartIsNeverRefused
<1> QED BY <1>1, <1>2 DEF StoreInv

LEMMA PublishInv == StoreInv /\ Publish => StoreInv'
<1> SUFFICES ASSUME StoreInv, Publish PROVE StoreInv'
  OBVIOUS
<1>1. next \in Snapshot /\ Canonical(next) /\ current # Down
  BY NextOpens DEF Publish, StoreInv, ChangeIsCurrent
<1>2. StoreTypeOK' /\ CurrentIsCanonical'
  BY <1>1 DEF Publish, StoreInv, StoreTypeOK, CurrentIsCanonical, Canonical
<1>3. ChangeIsCurrent' /\ DocumentIsPlaced'
  BY DEF Publish, ChangeIsCurrent, DocumentIsPlaced
<1>4. SurvivorsOpen' /\ RestartIsNeverRefused'
  BY <1>1 DEF Publish, StoreInv, SurvivorsOpen, RestartIsNeverRefused
<1> QED BY <1>2, <1>3, <1>4 DEF StoreInv

LEMMA FailInv == StoreInv /\ (Fail \/ Exit) => StoreInv'
<1> SUFFICES ASSUME StoreInv, Fail \/ Exit PROVE StoreInv'
  OBVIOUS
<1>1. StoreTypeOK' /\ CurrentIsCanonical'
  BY DEF Fail, Exit, StoreInv, StoreTypeOK, Content, CurrentIsCanonical, Canonical
<1>2. ChangeIsCurrent' /\ DocumentIsPlaced'
  BY DEF Fail, Exit, ChangeIsCurrent, DocumentIsPlaced
<1>3. SurvivorsOpen' /\ RestartIsNeverRefused'
  BY DEF Fail, Exit, StoreInv, SurvivorsOpen, RestartIsNeverRefused
<1> QED BY <1>1, <1>2, <1>3 DEF StoreInv

LEMMA PowerFailureInv == StoreInv /\ PowerFailure => StoreInv'
<1> SUFFICES ASSUME StoreInv, PowerFailure PROVE StoreInv'
  OBVIOUS
<1>1. StoreTypeOK' /\ CurrentIsCanonical'
  BY DEF PowerFailure, StoreInv, StoreTypeOK, Content, CurrentIsCanonical
<1>2. ChangeIsCurrent' /\ DocumentIsPlaced'
  BY DEF PowerFailure, ChangeIsCurrent, DocumentIsPlaced
<1>3. SurvivorsOpen' /\ RestartIsNeverRefused'
  BY DEF PowerFailure, StoreInv, SurvivorsOpen, RestartIsNeverRefused
<1> QED BY <1>1, <1>2, <1>3 DEF StoreInv

\* The inductive invariant of the permission store: the document a Change
\* saves is its own, where it is at each step of Save, and that a crash leaves
\* the path as it was or a document New accepts.
THEOREM StoreInvariant == Spec => []StoreInv
<1>1. StoreInv /\ [Next]_storeVars => StoreInv'
  <2> SUFFICES ASSUME StoreInv, [Next]_storeVars PROVE StoreInv'
    OBVIOUS
  <2>1. CASE New
    BY <2>1, NewInv
  <2>2. CASE \E p \in Permission, e \in BOOLEAN : Change(p, e)
    BY <2>2, ChangeInv
  <2>3. CASE Save
    BY <2>3, SaveInv
  <2>4. CASE ensurePrivateDirectory \/ WriteTemporary \/ SyncTemporary
    BY <2>4, PrepareInv
  <2>5. CASE Rename
    BY <2>5, RenameInv
  <2>6. CASE SyncDirectory
    BY <2>6, SyncDirectoryInv
  <2>7. CASE Publish
    BY <2>7, PublishInv
  <2>8. CASE Fail \/ Exit
    BY <2>8, FailInv
  <2>9. CASE PowerFailure
    BY <2>9, PowerFailureInv
  <2>10. CASE UNCHANGED storeVars
    BY <2>10 DEF storeVars, StoreInv, StoreTypeOK, CurrentIsCanonical, Canonical, ChangeIsCurrent, Toggled,
                 DocumentIsPlaced, encodeDocument, SurvivorsOpen, RestartIsNeverRefused
  <2> QED BY <2>1, <2>2, <2>3, <2>4, <2>5, <2>6, <2>7, <2>8, <2>9, <2>10 DEF Next
<1> QED BY <1>1, StoreInit, PTL DEF Spec

\* A program that could start once can always start again: no failure of Save
\* and no crash at any point of it leaves a file New refuses.
THEOREM StoreRestartIsNeverRefused == Spec => []RestartIsNeverRefused
<1>1. StoreInv => RestartIsNeverRefused
  BY DEF StoreInv
<1> QED BY <1>1, StoreInvariant, PTL

-----------------------------------------------------------------------------
(* The refinement                                                          *)

\* A content New accepts loads as a snapshot.
LEMMA LoadableIsSnapshot ==
    ASSUME NEW content \in Content, Opens(content)
    PROVE  canonicalize(loadLocked(content)) \in Snapshot
<1>1. [revision |-> 0, grants |-> {}] \in Document
  BY StoreAssumption DEF Document
<1>2. loadLocked(content) \in Document /\ Acceptable(loadLocked(content))
  BY <1>1 DEF Content, Opens, decodeDocument, loadLocked
<1> QED BY <1>2, CanonicalizeIsCanonical

\* A change in progress is a successor in the sense of the register.
LEMMA NextIsSuccessor ==
    ASSUME StoreInv, pc \notin {"idle", "check"}
    PROVE  \E p \in Permission, e \in BOOLEAN :
               current.grants[p].enabled # e /\ next = Register!Successor(current, p, e)
<1>1. /\ current \in Snapshot
      /\ current.revision # MaxRevision
      /\ Toggled(next, current, (current.revision + 1) % (MaxRevision + 1))
  BY DEF StoreInv, StoreTypeOK, ChangeIsCurrent
<1>2. current.revision \in 0..MaxRevision
  BY <1>1 DEF Snapshot
<1>3. (current.revision + 1) % (MaxRevision + 1) = current.revision + 1
  BY <1>1, <1>2, StoreAssumption
<1> QED BY <1>1, <1>3 DEF Toggled, Register!Successor

\* Until the rename, and when a Change fails, the file system shows what it did.
LEMMA QuietSteps ==
    ASSUME StoreInv,
           \/ \E p \in Permission, e \in BOOLEAN : Change(p, e)
           \/ Save \/ ensurePrivateDirectory \/ WriteTemporary \/ SyncTemporary \/ Fail
           \/ UNCHANGED storeVars
    PROVE  UNCHANGED <<current, Loadable>>
<1>1. UNCHANGED <<current, disk, surviving>>
  BY DEF Change, Save, ensurePrivateDirectory, WriteTemporary, SyncTemporary, Fail, storeVars
<1> QED BY <1>1 DEF Loadable

LEMMA RenameAttempts ==
    ASSUME StoreInv, Rename PROVE Register!Attempt
<1>1. /\ Opens(encodeDocument(next))
      /\ canonicalize(loadLocked(encodeDocument(next))) = next
  BY NextOpens DEF Rename
<1>2. temporary = encodeDocument(next) /\ disk \in surviving
  BY DEF Rename, StoreInv, DocumentIsPlaced, SurvivorsOpen
<1>3. surviving' \cup {disk'} = (surviving \cup {disk}) \cup {encodeDocument(next)}
  BY <1>2 DEF Rename
<1>4. Loadable' = Loadable \cup {next}
  BY <1>1, <1>3 DEF Loadable
<1>5. current # Down /\ current' = current
  BY DEF Rename, StoreInv, ChangeIsCurrent
<1> QED BY <1>4, <1>5, NextIsSuccessor DEF Rename, Register!Attempt

LEMMA SyncSettles ==
    ASSUME StoreInv, SyncDirectory PROVE current # Down /\ Register!Settle
<1>1. /\ Opens(encodeDocument(next))
      /\ canonicalize(loadLocked(encodeDocument(next))) = next
  BY NextOpens DEF SyncDirectory
<1>2. disk = encodeDocument(next)
  BY DEF SyncDirectory, StoreInv, DocumentIsPlaced
<1>3. next \in Loadable
  BY <1>1, <1>2 DEF Loadable
<1>4. Loadable' = {next}
  BY <1>1, <1>2 DEF SyncDirectory, Loadable
<1>5. current # Down /\ current' = current
  BY DEF SyncDirectory, StoreInv, ChangeIsCurrent
<1> QED BY <1>3, <1>4, <1>5, NextIsSuccessor DEF SyncDirectory, Register!Settle

LEMMA PublishCommits ==
    ASSUME StoreInv, Publish PROVE current # Down /\ Register!Commit
<1>1. /\ Opens(encodeDocument(next))
      /\ canonicalize(loadLocked(encodeDocument(next))) = next
  BY NextOpens DEF Publish
<1>2. disk = encodeDocument(next) /\ surviving = {disk}
  BY DEF Publish, StoreInv, DocumentIsPlaced
<1>3. Loadable = {next}
  BY <1>1, <1>2 DEF Loadable
<1>4. Loadable' = Loadable
  BY DEF Publish, Loadable
<1>5. current # Down /\ current' = next
  BY DEF Publish, StoreInv, ChangeIsCurrent
<1> QED BY <1>3, <1>4, <1>5, NextIsSuccessor DEF Publish, Register!Commit

LEMMA CrashesCrash ==
    ASSUME StoreInv, Exit \/ PowerFailure PROVE Register!Crash
<1>1. CASE Exit
  <2>1. Loadable' = Loadable
    BY <1>1 DEF Exit, Loadable
  <2> QED BY <1>1, <2>1 DEF Exit, Register!Crash
<1>2. CASE PowerFailure
  <2>1. disk' \in surviving /\ surviving' \cup {disk'} = {disk'} /\ disk \in surviving
    BY <1>2 DEF PowerFailure, StoreInv, SurvivorsOpen
  <2>2. Loadable' \subseteq Loadable
    BY <2>1 DEF Loadable
  <2>3. Loadable # {} => Opens(disk')
    <3>1. CASE surviving = {disk}
      BY <2>1, <3>1 DEF Loadable
    <3>2. CASE \A content \in surviving : Opens(content)
      BY <2>1, <3>2
    <3> QED BY <3>1, <3>2 DEF StoreInv, SurvivorsOpen
  <2>4. Loadable # {} => Loadable' # {}
    BY <2>1, <2>3 DEF Loadable
  <2> QED BY <1>2, <2>2, <2>4 DEF PowerFailure, Register!Crash
<1> QED BY <1>1, <1>2

\* The permission store implements the atomic register: a change that Change
\* has reported survives every crash, and no start loads what nobody asked for.
THEOREM StoreImplementsRegister == Spec => ImplementsRegister
<1>1. Init => Register!Init
  <2> SUFFICES ASSUME Init PROVE Register!Init
    OBVIOUS
  <2>1. surviving \cup {disk} \subseteq Content
    BY StoreInit DEF StoreInv, StoreTypeOK
  <2>2. Loadable \subseteq Snapshot
    BY <2>1, LoadableIsSnapshot DEF Loadable
  <2>3. Snapshot = Register!Snapshot
    BY DEF Snapshot, Grant, Register!Snapshot, Register!Grant
  <2> QED BY <2>2, <2>3 DEF Init, Register!Init
<1>2. StoreInv /\ [Next]_storeVars => [Register!Next]_Register!vars
  <2> SUFFICES ASSUME StoreInv, [Next]_storeVars PROVE [Register!Next]_Register!vars
    OBVIOUS
  <2>1. CASE New
    <3>1. Loadable' = Loadable /\ current' \in Loadable
      BY <2>1 DEF New, Loadable
    <3> QED BY <2>1, <3>1 DEF New, Register!Next, Register!Open
  <2>2. CASE Rename
    BY <2>2, RenameAttempts DEF Register!Next
  <2>3. CASE SyncDirectory
    BY <2>3, SyncSettles DEF Register!Next
  <2>4. CASE Publish
    BY <2>4, PublishCommits DEF Register!Next
  <2>5. CASE Exit \/ PowerFailure
    BY <2>5, CrashesCrash DEF Register!Next
  <2>6. CASE \/ \E p \in Permission, e \in BOOLEAN : Change(p, e)
             \/ Save \/ ensurePrivateDirectory \/ WriteTemporary \/ SyncTemporary \/ Fail
             \/ UNCHANGED storeVars
    BY <2>6, QuietSteps DEF Register!vars
  <2> QED BY <2>1, <2>2, <2>3, <2>4, <2>5, <2>6 DEF Next
<1> QED BY <1>1, <1>2, StoreInvariant, PTL DEF Spec, ImplementsRegister, Register!Spec
=============================================================================
