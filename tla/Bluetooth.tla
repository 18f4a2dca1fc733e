----------------------------- MODULE Bluetooth -----------------------------
(***************************************************************************)
(* The Bluetooth HCI class (src/src/classes/device/bluetooth.c): ACL data  *)
(* packets that arrive over several bulk OUT URBs are put together for the *)
(* controller; commands pass through.  A unit of an ACL packet is its      *)
(* number, its place and its packet's data length (which the code reads at *)
(* the third place).  A URB carries units of one packet, as a host stack   *)
(* sends them.                                                             *)
(***************************************************************************)
EXTENDS Integers, SequencesExt

CONSTANTS
  AclLengths,    \* data lengths of ACL packets
  AclHeader,     \* length of their header (4)
  ReasmMax,      \* BT_ACL_REASM_MAX
  MaxUrb,        \* the longest URB
  MaxAcl         \* bound: packets sent

ASSUME BtAssumption ==
  /\ AclLengths \subseteq Nat /\ MaxAcl \in Nat
  /\ AclHeader \in Nat /\ AclHeader >= 3     \* the length is in it
  /\ ReasmMax \in Nat /\ MaxUrb \in Nat \ {0} /\ MaxUrb <= ReasmMax

VARIABLES
  acl_rx,       \* st->acl_rx, its first acl_have units
  sending,      \* the host: what is left of the packet it sends
  n_acl,        \* packets it has begun
  oversize,     \* one of them was longer than the buffer
  delivered     \* the controller: how many packets it got, and the last of them

btvars == <<acl_rx, sending, n_acl, oversize, delivered>>

AclPacket(n, len) == [k \in 1..(AclHeader + len) |-> [n |-> n, place |-> k, len |-> len]]

BtInit ==
  /\ acl_rx = <<>> /\ sending = <<>> /\ n_acl = 0 /\ oversize = FALSE
  /\ delivered = [count |-> 0, last |-> <<>>]

SendAcl(len) ==
  /\ sending = <<>> /\ n_acl < MaxAcl
  /\ n_acl' = n_acl + 1 /\ sending' = AclPacket(n_acl + 1, len)
  /\ oversize' = (oversize \/ AclHeader + len > ReasmMax)
  /\ UNCHANGED <<acl_rx, delivered>>

\* Fault: a packet that just fits is taken for one too many.
Overflows_Early(have, n) == have + n >= ReasmMax

Overflows(have, n) == have + n > ReasmMax

\* The length of the packet that starts behind the first p units, from its header; of a
\* unit that is no header the data length is as good as any.
total(rx, p) == AclHeader + rx[p + 3].len

WholeAt(rx, p) == p + AclHeader <= Len(rx) /\ p + total(rx, p) <= Len(rx)

\* The while loop: it stands at the front of the buffer, and behind each whole packet.
LoopAt(rx) ==
  {p \in 0..Len(rx) : \A at \in SUBSET (0..Len(rx)) :
     (0 \in at /\ \A q \in at : WholeAt(rx, q) => q + total(rx, q) \in at) => p \in at}

\* What the loop has put out to the controller by then: every packet it got past.
Released(rx, out) ==
  LET at == LoopAt(rx)  end == Max(at) IN
  IF end = 0 THEN out
  ELSE [count |-> out.count + Cardinality(at) - 1,
        last |-> SubSeq(rx, Max(at \ {end}) + 1, end)]

bt_on_out(n) ==
  LET kept == IF Overflows(Len(acl_rx), n) THEN <<>> ELSE acl_rx
      rx == kept \o SubSeq(sending, 1, n) IN
  /\ n <= Len(sending)
  /\ acl_rx' = SubSeq(rx, Max(LoopAt(rx)) + 1, Len(rx))
  /\ delivered' = Released(rx, delivered)
  /\ sending' = SubSeq(sending, n + 1, Len(sending))
  /\ UNCHANGED <<n_acl, oversize>>

BtNext == (\E len \in AclLengths : SendAcl(len)) \/ \E n \in 1..MaxUrb : bt_on_out(n)

---------------------------------------------------------------------------
\* However a host cuts its ACL packets into URBs, the controller gets each of
\* them once, whole and in order, as soon as its last unit is there: up to the
\* longest that the reassembly buffer holds. (After a longer one the code
\* resynchronises on the middle of it, and nothing is promised any more.)
AclIsWhole ==
  ~oversize =>
    /\ delivered.count = n_acl - IF sending = <<>> THEN 0 ELSE 1
    /\ \A k \in DOMAIN delivered.last : delivered.last[k].n = delivered.count /\ delivered.last[k].place = k
    /\ delivered.count > 0 => Len(delivered.last) = AclHeader + delivered.last[1].len
    /\ sending = <<>> => acl_rx = <<>>
=============================================================================
