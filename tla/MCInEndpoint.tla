---------------------------- MODULE MCInEndpoint ----------------------------
(***************************************************************************)
(* InEndpoint for TLC, and the byte pipe it implements when one thread     *)
(* writes and one host reads.                                              *)
(***************************************************************************)
EXTENDS InEndpoint, SequencesExt

\* What the host has read: the data of the replies, in order.
DeliveredBytes == FlattenSeq([i \in DOMAIN replies |-> replies[i].data])

Pipe == INSTANCE BytePipe WITH accepted <- written, delivered <- DeliveredBytes

\* The endpoint refines the byte pipe: queue, slices of a dbuf, parked URBs and the
\* unlocked sends of usbip_device_write keep the stream in order.
ImplementsPipe == Pipe!Spec
=============================================================================
