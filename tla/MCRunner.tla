------------------------------ MODULE MCRunner ------------------------------
(***************************************************************************)
(* The runner with its engine, one return and one reply in flight, and P0  *)
(* controls that race with them.                                           *)
(***************************************************************************)
EXTENDS Runner

Sent(id, source, seq, payload, times) ==
    [id : {id}, source : {source}, seq : {seq}, subject : Subjects, payload : {payload}, at : times]

\* One absence, seen at once; one return; and one reply, which falls into the
\* window or on its deadline, depending on how long the greeting takes.
OneReturn == Sent("o1", "cam", 1, "absent", {1}) \cup Sent("o2", "cam", 2, "present", {2})
               \cup Sent("o3", "mic", 1, "reply", {3})

\* Every command there is.
AnyCommand == Command

\* One greeting action and one action after the wait.
SmallBody == {{"SPEAK", "RETURN_IDLE"}}
=============================================================================
