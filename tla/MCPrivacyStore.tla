--------------------------- MODULE MCPrivacyStore ---------------------------
(***************************************************************************)
(* Two permissions, revisions that overflow after four changes, and files  *)
(* of every kind at the first start.                                       *)
(***************************************************************************)
EXTENDS PrivacyStore

CONSTANTS camera, microphone, retired

Entry(p, e, d) == [permission |-> p, grant |-> [enabled |-> e, dated |-> d]]
Doc(n, entries) == [revision |-> n, grants |-> entries]

\* No file, a torn one, an older program's file without the microphone, an
\* untouched one, and files canonicalize refuses: an unknown permission, a
\* permission twice, a grant without a date, a granted revision zero.
MCDocuments ==
    {NoFile, Unreadable,
     Doc(1, {Entry(camera, TRUE, TRUE)}),
     Doc(0, {Entry(camera, FALSE, FALSE), Entry(microphone, FALSE, FALSE)}),
     Doc(1, {Entry(retired, TRUE, TRUE)}),
     Doc(2, {Entry(camera, TRUE, TRUE), Entry(camera, FALSE, TRUE)}),
     Doc(1, {Entry(camera, TRUE, FALSE)}),
     Doc(0, {Entry(camera, TRUE, TRUE)})}
=============================================================================
