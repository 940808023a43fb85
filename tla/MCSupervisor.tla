---------------------------- MODULE MCSupervisor ----------------------------
(***************************************************************************)
(* One worker and two permission changes that race with each other; the    *)
(* safety invariants hold for any number of both (SupervisorProofs).       *)
(***************************************************************************)
EXTENDS Supervisor

=============================================================================
