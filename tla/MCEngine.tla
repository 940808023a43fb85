------------------------------ MODULE MCEngine ------------------------------
(***************************************************************************)
(* The engine under an arbitrary sequential caller.                        *)
(***************************************************************************)
EXTENDS Engine

\* The driver supports everything, or nothing that the user would hear.
MCCapabilitySets == {Actions, {"ATTEND_USER"}}

\* Two absences and returns seen by the camera, any of them possibly late or
\* redelivered, and from the other source one reply or one signal that suppresses
\* greetings.
TwoReturns ==
    LET Sent(id, source, seq, payload, times) ==
          [id : {id}, source : {source}, seq : {seq}, subject : Subjects, payload : {payload}, at : times]
    IN  UNION {Sent("o1", "cam", 1, "absent", {1}),
               Sent("o2", "cam", 2, "present", 2..MaxTime),
               Sent("o3", "cam", 3, "absent", 2..MaxTime),
               Sent("o4", "cam", 4, "present", 3..MaxTime),
               Sent("o5", "mic", 1, "reply", 2..MaxTime),
               Sent("o5", "mic", 1, "busy", {2}),
               Sent("o5", "mic", 1, "quiet", {3})}
=============================================================================
