---------------------------- MODULE PrivacyStore ----------------------------
(***************************************************************************)
(* The permission service (internal/application/privacy) on its file       *)
(* (adapters/storage/privacyfile): a revisioned snapshot that Change       *)
(* replaces through a temporary file, a rename and a sync of the           *)
(* directory.  Every file system call and every check of the context may   *)
(* fail, and the process or the machine may stop between any two steps.    *)
(* Service.mu is held for a whole Change, so there is one call at a time.  *)
(***************************************************************************)
EXTENDS Naturals, FiniteSets

CONSTANTS
    Permission,     \* permissionOrder
    Foreign,        \* permission names this program does not know
    MaxRevision,    \* stands for math.MaxUint64
    Documents,      \* what the file may hold when the program is first started
    NoFile,         \* the file does not exist
    Unreadable,     \* torn, oversized, malformed, wrong schema, symlink, not private
    Down            \* no service: the program is not running

VARIABLES
    disk,       \* what a reader finds at the path
    surviving,  \* what the path may hold after a power failure
    temporary,  \* the temporary file: NoFile, Unreadable (written, not synced) or a document
    current,    \* Service.current, or Down
    pc,         \* where the Change that holds Service.mu is
    next        \* the snapshot that Change is saving

storeVars == <<disk, surviving, temporary, current, pc, next>>

Grant == [enabled : BOOLEAN, dated : BOOLEAN]
Snapshot == [revision : 0..MaxRevision, grants : [Permission -> Grant]]
Disabled == [enabled |-> FALSE, dated |-> FALSE]

\* document: any entries, also several for one permission or none.
Document == [revision : 0..MaxRevision,
             grants : SUBSET [permission : Permission \cup Foreign, grant : Grant]]

ASSUME StoreAssumption ==
    /\ MaxRevision \in Nat
    /\ Permission \cap Foreign = {}
    /\ NoFile # Unreadable
    /\ {NoFile, Unreadable} \cap Document = {}
    /\ Down \notin Snapshot
    /\ Documents \subseteq Document \cup {NoFile, Unreadable}

-----------------------------------------------------------------------------
(* The document and its decoding                                           *)

\* encodeDocument: one entry per grant.
encodeDocument(s) ==
    [revision |-> s.revision,
     grants |-> {[permission |-> p, grant |-> s.grants[p]] : p \in Permission}]

\* loadLocked: a missing file is revision zero without grants.
loadLocked(content) == IF content = NoFile THEN [revision |-> 0, grants |-> {}] ELSE content

\* The refusals of canonicalize.
Acceptable(d) ==
    /\ d.revision = 0 => \A g \in d.grants : g.grant = Disabled
    /\ \A g \in d.grants : /\ g.permission \in Permission
                           /\ g.grant.enabled => g.grant.dated
    /\ \A g, h \in d.grants : g.permission = h.permission => g = h

\* canonicalize: a permission the document does not name is disabled.
canonicalize(d) ==
    [revision |-> d.revision,
     grants |-> [p \in Permission |->
                   IF \E g \in d.grants : g.permission = p
                   THEN (CHOOSE g \in d.grants : g.permission = p).grant
                   ELSE Disabled]]

\* decodeDocument: one strict document of the known schema.
decodeDocument(content) == content # Unreadable

\* New succeeds on this content.
Opens(content) == decodeDocument(content) /\ Acceptable(loadLocked(content))

-----------------------------------------------------------------------------
(* Starting and changing                                                   *)

Init ==
    /\ disk \in Documents
    /\ surviving = {disk}
    /\ temporary = NoFile
    /\ current = Down
    /\ pc = "idle"
    /\ next = Down

\* New: load, canonicalize, publish.  Anything else leaves the program down.
New ==
    /\ current = Down
    /\ Opens(disk)
    /\ current' = canonicalize(loadLocked(disk))
    /\ UNCHANGED <<disk, surviving, temporary, pc, next>>

\* Change up to the call of Save; setting what is already set is a no-op.  The
\* revision is a uint64.
Change(p, e) ==
    /\ current # Down
    /\ pc = "idle"
    /\ current.grants[p].enabled # e
    /\ next' = [revision |-> (current.revision + 1) % (MaxRevision + 1),
                grants |-> [current.grants EXCEPT ![p] = [enabled |-> e, dated |-> TRUE]]]
    /\ pc' = "check"
    /\ UNCHANGED <<disk, surviving, temporary, current>>

\* Save up to replaceLocked: the persisted revision is the expected one, and
\* the new revision follows it without overflow.
Save ==
    /\ pc = "check"
    /\ decodeDocument(disk)
    /\ loadLocked(disk).revision = current.revision
    /\ current.revision # MaxRevision
    /\ pc' = "prepare"
    /\ UNCHANGED <<disk, surviving, temporary, current, next>>

\* The directory exists and is private, or is made so.  What Mkdir made is taken
\* to be durable.
ensurePrivateDirectory ==
    /\ pc = "prepare"
    /\ pc' = "write"
    /\ UNCHANGED <<disk, surviving, temporary, current, next>>

\* rejectUnsafeExistingTarget passes.
SafeTarget == disk # Unreadable

\* The document is in a private temporary file, which a crash may truncate.
WriteTemporary ==
    /\ pc = "write"
    /\ SafeTarget
    /\ temporary' = Unreadable
    /\ pc' = "flush"
    /\ UNCHANGED <<disk, surviving, current, next>>

\* Seeded fault: the temporary file is not synced.
SyncNothing ==
    /\ pc = "flush"
    /\ pc' = "rename"
    /\ UNCHANGED <<disk, surviving, temporary, current, next>>

\* Sync and Close.
SyncTemporary ==
    /\ pc = "flush"
    /\ temporary' = encodeDocument(next)
    /\ pc' = "rename"
    /\ UNCHANGED <<disk, surviving, current, next>>

\* Rename: the path names the new document at once; until the directory is
\* synced a power failure may bring back what it named before.
Rename ==
    /\ pc = "rename"
    /\ disk' = encodeDocument(next)
    /\ surviving' = surviving \cup {temporary}
    /\ temporary' = NoFile
    /\ pc' = "syncDirectory"
    /\ UNCHANGED <<current, next>>

\* Seeded fault: the directory is not synced.
SyncNoDirectory ==
    /\ pc = "syncDirectory"
    /\ pc' = "publish"
    /\ UNCHANGED <<disk, surviving, temporary, current, next>>

\* syncDirectory: the rename is durable.
SyncDirectory ==
    /\ pc = "syncDirectory"
    /\ surviving' = {disk}
    /\ pc' = "publish"
    /\ UNCHANGED <<disk, temporary, current, next>>

\* Save has returned: s.current = next, and Change reports success.
Publish ==
    /\ pc = "publish"
    /\ current' = next
    /\ next' = Down
    /\ pc' = "idle"
    /\ UNCHANGED <<disk, surviving, temporary>>

\* A check of the context, the revision or the file, or a file system call
\* fails: Change reports the error; the deferred function removes the
\* temporary file.  A rename that has been made stays.
Fail ==
    /\ pc \in {"check", "prepare", "write", "flush", "rename", "syncDirectory"}
    /\ temporary' = NoFile
    /\ pc' = "idle"
    /\ next' = Down
    /\ UNCHANGED <<disk, surviving, current>>

\* The process ends; what it left in the file system stays.
Exit ==
    /\ current # Down
    /\ current' = Down /\ next' = Down
    /\ pc' = "idle"
    /\ temporary' = NoFile
    /\ UNCHANGED <<disk, surviving>>

\* The machine stops: the path holds one of the contents that may survive.
PowerFailure ==
    /\ disk' \in surviving
    /\ surviving' = {disk'}
    /\ current' = Down /\ next' = Down
    /\ pc' = "idle"
    /\ temporary' = NoFile

Next ==
    \/ New
    \/ \E p \in Permission, e \in BOOLEAN : Change(p, e)
    \/ Save \/ ensurePrivateDirectory \/ WriteTemporary \/ SyncTemporary \/ Rename \/ SyncDirectory \/ Publish \/ Fail
    \/ Exit \/ PowerFailure

Spec == Init /\ [][Next]_storeVars

-----------------------------------------------------------------------------
(* Correctness                                                             *)

Content == Document \cup {NoFile, Unreadable}

\* Every variable has the shape of the Go or file system state it models.
StoreTypeOK ==
    /\ disk \in Content
    /\ surviving \subseteq Content
    /\ temporary \in Content
    /\ current \in Snapshot \cup {Down}
    /\ next \in Snapshot \cup {Down}
    /\ pc \in {"idle", "check", "prepare", "write", "flush", "rename", "syncDirectory", "publish"}

\* A program that could start once can always start again: no crash at any
\* point of Save, and no failure of it, leaves a file New refuses.
RestartIsNeverRefused ==
    current # Down => \A content \in surviving \cup {disk} : Opens(content)

\* What the next start may load: the path, or what a power failure leaves there.
Loadable == {canonicalize(loadLocked(content)) : content \in {c \in surviving \cup {disk} : Opens(c)}}

\* What the service shows and what a restart may load behave like the abstract
\* register: a change that was reported survives every crash, and nothing is
\* loaded that was not asked for.
Register == INSTANCE PermissionRegister WITH possible <- Loadable
ImplementsRegister == Register!Spec

\* "Permission identifies one independently revocable privacy boundary":
\* between two calls the next Change finds the revision it expects, so that it
\* can take effect when nothing fails.
PermissionsStayRevocable ==
    current # Down /\ pc = "idle" => loadLocked(disk).revision = current.revision
=============================================================================
