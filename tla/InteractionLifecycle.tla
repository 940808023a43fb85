------------------------ MODULE InteractionLifecycle ------------------------
(***************************************************************************)
(* What the engine promises about proactive interactions, seen from the    *)
(* outside: at most one interaction is in progress, it is greeted, then    *)
(* possibly awaited, and it ends at most once, for good, with one outcome. *)
(* An ACCEPTED or NO_RESPONSE outcome needs an open response window; a     *)
(* rejection may end the interaction at any moment of its life.            *)
(***************************************************************************)
CONSTANTS Interactions,     \* identities of interactions
          Nobody            \* no interaction is in progress

OutcomeKinds == {"ACCEPTED", "NO_RESPONSE", "REJECTED"}

VARIABLES current,          \* the interaction in progress, or Nobody
          waiting,          \* its response window is open
          ended             \* <<interaction, outcome>> pairs reported so far

vars == <<current, waiting, ended>>

Ended(i) == \E k \in OutcomeKinds : <<i, k>> \in ended

Init ==
    /\ current = Nobody
    /\ waiting = FALSE
    /\ ended = {}

\* An interaction starts once, when no other is in progress.
Start(i) ==
    /\ current = Nobody
    /\ ~Ended(i)
    /\ current' = i
    /\ UNCHANGED <<waiting, ended>>

\* The greeting was delivered and the system now waits for the user.
OpenWindow ==
    /\ current # Nobody
    /\ ~waiting
    /\ waiting' = TRUE
    /\ UNCHANGED <<current, ended>>

\* The interaction in progress ends with outcome k.
End(k) ==
    /\ current # Nobody
    /\ k \in {"ACCEPTED", "NO_RESPONSE"} => waiting
    /\ ended' = ended \cup {<<current, k>>}
    /\ current' = Nobody
    /\ waiting' = FALSE

Next ==
    \/ \E i \in Interactions : Start(i)
    \/ OpenWindow
    \/ \E k \in OutcomeKinds : End(k)

Spec == Init /\ [][Next]_vars

=============================================================================
