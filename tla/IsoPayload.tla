----------------------------- MODULE IsoPayload -----------------------------
(***************************************************************************)
(* How the packets of an isochronous URB travel: the slots of the host's   *)
(* buffer, the bytes and descriptors of usbip_client_submit_iso, what      *)
(* usbip_device_handle_submit hands to the class and gets back, and the    *)
(* reply of usbip_send_ret_iso.  A buffer is a sequence of units; a unit   *)
(* the code leaves unwritten is Junk.                                      *)
(***************************************************************************)
EXTENDS Integers, SequencesExt

Junk == -99

\* Where each of some packets ends that lie back to back; the first begins at 0.
Ends(lens) == LET end[i \in 0..Len(lens)] == IF i = 0 THEN 0 ELSE end[i - 1] + lens[i] IN end

Total(lens) == Ends(lens)[Len(lens)]

Lengths(made) == [i \in DOMAIN made |-> Len(made[i])]

\* The slots of usbip_host_submit_transfer and of libusb's run_transfer: one behind the other.
Slots(lens) == [i \in DOMAIN lens |-> [offset |-> Ends(lens)[i - 1], length |-> lens[i]]]

Slot(buf, p) == SubSeq(buf, p.offset + 1, p.offset + p.length)

\* The OUT data of a CMD_SUBMIT: gathered from the slots.
Gathered(buf, pkts) == FlattenSeq([i \in DOMAIN pkts |-> Slot(buf, pkts[i])])

\* De-padding at the device: packet after packet, from where the descriptor says.
Depadded(data, pkts) ==
  [i \in DOMAIN pkts |-> IF pkts[i].offset + pkts[i].length <= Len(data)
                         THEN Slot(data, pkts[i]) ELSE [k \in 1..pkts[i].length |-> Junk]]

\* What an OUT URB's class sees of the host's buffer, a sequence of packets.
Outbound(buf, pkts) == Depadded(Gathered(buf, pkts), pkts)

\* Fault: the reply is taken apart by the lengths that were asked for.
Landing_Padded(pkts, made, i) == Ends([j \in DOMAIN pkts |-> pkts[j].length])[i - 1]

\* Where packet i of the reply begins: the class packed them back to back.
Landing(pkts, made, i) == Ends(Lengths(made))[i - 1]

\* The slots of an IN URB after the reply: each gets as much as its packet brought.
Inbound(pkts, made) ==
  LET data == FlattenSeq(made)
  IN [i \in DOMAIN pkts |-> [k \in 1..Len(made[i]) |->
        LET at == Landing(pkts, made, i) + k IN IF at <= Len(data) THEN data[at] ELSE Junk]]

\* Every length from a set, for up to n packets.
PacketLengths(set, n) == UNION {[1..m -> set] : m \in 1..n}
=============================================================================
