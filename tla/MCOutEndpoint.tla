--------------------------- MODULE MCOutEndpoint ---------------------------
(* OutEndpoint for TLC. *)
EXTENDS OutEndpoint
=============================================================================
