----------------------------- MODULE MCIsoPacer -----------------------------
(* IsoPacer for TLC: a fast and a slow endpoint. *)
EXTENDS IsoPacer

CONSTANTS e1, e2

MCFrame == [e \in Eps |-> IF e = e1 THEN 1 ELSE 2]
=============================================================================
