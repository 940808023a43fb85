--------------------------- MODULE MCDesktopPanel ---------------------------
(***************************************************************************)
(* One page; requests with and without the token of this start.            *)
(***************************************************************************)
EXTENDS DesktopPanel

Good == [loopback |-> TRUE, origin |-> TRUE, bearer |-> TRUE, protocol |-> TRUE]

\* The page's own request, and the one of a page an earlier start has served.
MCRequests == {Good, [Good EXCEPT !.bearer = FALSE]}
=============================================================================
