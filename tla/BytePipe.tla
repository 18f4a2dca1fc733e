------------------------------ MODULE BytePipe ------------------------------
(***************************************************************************)
(* What an endpoint promises to the two ends of a USB pipe: the bytes the  *)
(* device wrote reach the host in order, none twice and none skipped.      *)
(* Byte k of the stream has value k.                                       *)
(***************************************************************************)
EXTENDS Integers, Sequences

VARIABLES
  accepted,    \* number of bytes the writer handed over
  delivered    \* the bytes the reader got, in order

vars == <<accepted, delivered>>

Init == accepted = 0 /\ delivered = <<>>

Accept ==
  /\ accepted' \in Nat
  /\ accepted' > accepted
  /\ UNCHANGED delivered

\* The reader gets the next n bytes.
Deliver ==
  /\ \E n \in 1..(accepted - Len(delivered)) :
       delivered' = delivered \o [i \in 1..n |-> Len(delivered) + i]
  /\ UNCHANGED accepted

Next == Accept \/ Deliver

Spec == Init /\ [][Next]_vars
=============================================================================
