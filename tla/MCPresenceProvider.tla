------------------------- MODULE MCPresenceProvider -------------------------
(***************************************************************************)
(* Model-checking instances of PresenceProvider: one provider, a child and *)
(* in some of them its successor.                                          *)
(***************************************************************************)
EXTENDS PresenceProvider

=============================================================================
