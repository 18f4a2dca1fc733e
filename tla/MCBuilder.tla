----------------------------- MODULE MCBuilder -----------------------------
(* Builder and what hosts make of the device it built, for TLC. *)
EXTENDS DeviceRequests

\* Bound: two advertisements, or two reservations. Only a rollback touches both tables, each
\* by itself.
Reservations == {a \in Addresses : ep_reserved[a] # 0}
NotAllAtOnce == /\ msos = {} \/ Reservations = {}
                /\ Cardinality(msos) + Cardinality(Reservations) <= 2
=============================================================================
