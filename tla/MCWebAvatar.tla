---------------------------- MODULE MCWebAvatar ----------------------------
(***************************************************************************)
(* The avatar driver with a visual action and two speeches.                *)
(***************************************************************************)
EXTENDS WebAvatar

=============================================================================
