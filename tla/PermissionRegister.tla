------------------------- MODULE PermissionRegister -------------------------
(***************************************************************************)
(* What the permission service promises its readers: one snapshot at a     *)
(* time.  A change is first attempted and then committed; what the next    *)
(* start of the program may load is the last committed snapshot or one     *)
(* that was attempted since.                                               *)
(***************************************************************************)
EXTENDS Naturals

CONSTANTS Permission, MaxRevision, Down

VARIABLES current,    \* the snapshot readers see, or Down between two starts
          possible    \* the snapshots the next start may load

vars == <<current, possible>>

Grant == [enabled : BOOLEAN, dated : BOOLEAN]
Snapshot == [revision : 0..MaxRevision, grants : [Permission -> Grant]]

\* s with one permission set, one revision later.
Successor(s, p, e) ==
    [revision |-> s.revision + 1,
     grants |-> [s.grants EXCEPT ![p] = [enabled |-> e, dated |-> TRUE]]]

Init ==
    /\ current = Down
    /\ possible \in SUBSET Snapshot

\* The program starts and loads one of the snapshots it may find.
Open ==
    /\ current = Down
    /\ current' \in possible
    /\ UNCHANGED possible

\* A change reaches the disk, but may still be lost.
Attempt ==
    /\ current # Down
    /\ \E p \in Permission, e \in BOOLEAN :
           /\ current.grants[p].enabled # e
           /\ possible' = possible \cup {Successor(current, p, e)}
    /\ UNCHANGED current

\* The attempted change can no longer be lost.
Settle ==
    /\ \E p \in Permission, e \in BOOLEAN :
           /\ Successor(current, p, e) \in possible
           /\ possible' = {Successor(current, p, e)}
    /\ UNCHANGED current

\* Readers see a settled change.
Commit ==
    /\ possible = {current'}
    /\ \E p \in Permission, e \in BOOLEAN : current' = Successor(current, p, e)
    /\ UNCHANGED possible

\* The program or the machine stops; part of what was in doubt is decided.
Crash ==
    /\ current' = Down
    /\ possible' \subseteq possible
    /\ possible # {} => possible' # {}

Next == Open \/ Attempt \/ (current # Down /\ (Settle \/ Commit)) \/ Crash

Spec == Init /\ [][Next]_vars
=============================================================================
