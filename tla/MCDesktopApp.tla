---------------------------- MODULE MCDesktopApp ----------------------------
(***************************************************************************)
(* The two media workers and two requests at a time.                       *)
(***************************************************************************)
EXTENDS DesktopApp
=============================================================================
