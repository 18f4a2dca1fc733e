----------------------------- MODULE MCListener -----------------------------
(* Listener for TLC: no busid is pinned, or the second is pinned to 1-2. *)
EXTENDS Listener

CONSTANTS d1, d2, d3

NonePinned == [d \in Devs |-> 0]
OnePinned == [d \in Devs |-> IF d = d2 THEN 2 ELSE 0]
=============================================================================
