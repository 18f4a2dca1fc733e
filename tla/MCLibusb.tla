------------------------------ MODULE MCLibusb ------------------------------
(* Libusb for TLC. *)
EXTENDS Libusb
CONSTANTS app, work
MCThreads == {app, work}
=============================================================================
