---------------------------- MODULE OutEndpoint ----------------------------
(***************************************************************************)
(* One non-isochronous OUT endpoint without an on_out callback             *)
(* (src/src/usbip_device.c): serve threads queue the transfers of their    *)
(* hosts, application threads take them with usbip_device_read and sleep   *)
(* on ep->cond while the queue is empty.                                   *)
(***************************************************************************)
EXTENDS Integers, Sequences, FiniteSets

CONSTANTS
  Conns,       \* connections that import the device; one serve thread each
  Readers,     \* threads that call usbip_device_read
  Sizes,       \* bytes per OUT transfer
  Caps,        \* buffer sizes passed to usbip_device_read
  MaxBytes,    \* bound: bytes sent altogether
  MayHalt      \* whether the endpoint is ever halted

ASSUME OutAssumption ==
  /\ IsFiniteSet(Readers)
  /\ Sizes \subseteq Nat
  /\ Caps \subseteq Nat
  /\ MaxBytes \in Nat
  /\ MayHalt \in BOOLEAN

VARIABLES
  halted,      \* ep->halted
  out_queue,   \* ep->out_head..out_tail: the transfers, each a sequence of bytes
  serve,       \* per serve thread: "read", "queue", "reply" or "stall"
  urb,         \* the payload of the URB it dispatches
  reader,      \* per reader: "idle", "locked", "wait" or "copy"
  cap,         \* the size of the buffer it passed
  dbuf,        \* the transfer it has dequeued
  sent,        \* number of bytes hosts sent; they are numbered as they arrive
  acked,       \* transfers answered with status 0, in order (history)
  reads        \* what usbip_device_read returned, in order (history)

Byte == Conns \X Nat   \* a byte of the stream: the host it came from and its number

servevars == <<serve, urb>>
readervars == <<reader, cap, dbuf>>
vars == <<halted, out_queue, servevars, readervars, sent, acked, reads>>

TypeOK ==
  /\ halted \in BOOLEAN
  /\ out_queue \in Seq(Seq(Byte))
  /\ serve \in [Conns -> {"read", "queue", "reply", "stall"}]
  /\ urb \in [Conns -> Seq(Byte)]
  /\ reader \in [Readers -> {"idle", "locked", "wait", "copy"}]
  /\ cap \in [Readers -> Caps \cup {0}]
  /\ dbuf \in [Readers -> Seq(Byte)]
  /\ sent \in 0..MaxBytes
  /\ acked \in Seq(Seq(Byte))
  /\ reads \in Seq(Seq(Byte))

Init ==
  /\ halted = FALSE
  /\ out_queue = <<>>
  /\ serve = [c \in Conns |-> "read"]
  /\ urb = [c \in Conns |-> <<>>]
  /\ reader = [r \in Readers |-> "idle"]
  /\ cap = [r \in Readers |-> 0]
  /\ dbuf = [r \in Readers |-> <<>>]
  /\ sent = 0
  /\ acked = <<>>
  /\ reads = <<>>

-----------------------------------------------------------------------------
(* The serve thread                                                        *)

\* An OUT URB arrives; usbip_ep_is_halted locks, reads and unlocks on its own.
Dispatch_HaltCheck(c, n) ==
  /\ serve[c] = "read"
  /\ sent + n <= MaxBytes
  /\ sent' = sent + n
  /\ urb' = [urb EXCEPT ![c] = [i \in 1..n |-> <<c, sent + i>>]]
  /\ serve' = [serve EXCEPT ![c] = IF halted THEN "stall" ELSE "queue"]
  /\ UNCHANGED <<halted, out_queue, readervars, acked, reads>>

\* Fault: only the first transfer of a batch wakes a reader.
Signals_WhenEmpty == out_queue = <<>>

\* Fault: readers are left to poll.
Signals_Never == FALSE

\* pthread_cond_signal follows every transfer.
Signals == TRUE

enq_dbuf(queue, bytes) == Append(queue, bytes)

\* Queue the transfer and wake one sleeping reader, if there is one.
Dispatch_Queue(c) ==
  /\ serve[c] = "queue"
  /\ out_queue' = enq_dbuf(out_queue, urb[c])
  /\ LET asleep == {r \in Readers : reader[r] = "wait"}
     IN IF Signals /\ asleep # {}
          THEN \E r \in asleep : reader' = [reader EXCEPT ![r] = "locked"]
          ELSE UNCHANGED reader
  /\ serve' = [serve EXCEPT ![c] = "reply"]
  /\ UNCHANGED <<halted, urb, cap, dbuf, sent, acked, reads>>

\* The reply: RET_SUBMIT with the length of the transfer, or a STALL.
Dispatch_Reply(c) ==
  /\ serve[c] \in {"reply", "stall"}
  /\ acked' = IF serve[c] = "reply" THEN Append(acked, urb[c]) ELSE acked
  /\ urb' = [urb EXCEPT ![c] = <<>>]
  /\ serve' = [serve EXCEPT ![c] = "read"]
  /\ UNCHANGED <<halted, out_queue, readervars, sent, reads>>

\* usbip_ep_stall has nothing parked on an OUT endpoint; CLEAR_FEATURE ends the halt.
SetHalt(value) ==
  /\ MayHalt
  /\ halted # value
  /\ halted' = value
  /\ UNCHANGED <<out_queue, servevars, readervars, sent, acked, reads>>

-----------------------------------------------------------------------------
(* usbip_device_read                                                       *)

DeviceRead(r, len) ==
  /\ reader[r] = "idle"
  /\ cap' = [cap EXCEPT ![r] = len]
  /\ reader' = [reader EXCEPT ![r] = "locked"]
  /\ UNCHANGED <<halted, out_queue, servevars, dbuf, sent, acked, reads>>

\* Nothing queued: sleep on ep->cond.  timeout_ms plays no part.
DeviceRead_Wait(r) ==
  /\ reader[r] = "locked"
  /\ out_queue = <<>>
  /\ reader' = [reader EXCEPT ![r] = "wait"]
  /\ UNCHANGED <<halted, out_queue, servevars, cap, dbuf, sent, acked, reads>>

\* A wait may end for no reason.
DeviceRead_Spurious(r) ==
  /\ reader[r] = "wait"
  /\ reader' = [reader EXCEPT ![r] = "locked"]
  /\ UNCHANGED <<halted, out_queue, servevars, cap, dbuf, sent, acked, reads>>

\* Fault: the head is not reset when the last transfer is taken.
deq_dbuf_KeepsLast(queue) == IF Len(queue) = 1 THEN queue ELSE Tail(queue)

deq_dbuf(queue) == Tail(queue)

\* Take the first transfer and unlock.
DeviceRead_Take(r) ==
  /\ reader[r] = "locked"
  /\ out_queue # <<>>
  /\ dbuf' = [dbuf EXCEPT ![r] = Head(out_queue)]
  /\ out_queue' = deq_dbuf(out_queue)
  /\ reader' = [reader EXCEPT ![r] = "copy"]
  /\ UNCHANGED <<halted, servevars, cap, sent, acked, reads>>

\* What fits into the buffer; the rest of the transfer is dropped.
Copied(bytes, len) == IF Len(bytes) < len THEN bytes ELSE SubSeq(bytes, 1, len)

DeviceRead_Return(r) ==
  /\ reader[r] = "copy"
  /\ reads' = Append(reads, Copied(dbuf[r], cap[r]))
  /\ dbuf' = [dbuf EXCEPT ![r] = <<>>]
  /\ cap' = [cap EXCEPT ![r] = 0]
  /\ reader' = [reader EXCEPT ![r] = "idle"]
  /\ UNCHANGED <<halted, out_queue, servevars, sent, acked>>

-----------------------------------------------------------------------------

ServeStep(c) == Dispatch_Queue(c) \/ Dispatch_Reply(c)
ReadStep(r) == DeviceRead_Wait(r) \/ DeviceRead_Take(r) \/ DeviceRead_Return(r)

Next ==
  \/ \E c \in Conns : ServeStep(c) \/ \E n \in Sizes : Dispatch_HaltCheck(c, n)
  \/ \E v \in BOOLEAN : SetHalt(v)
  \/ \E r \in Readers : ReadStep(r) \/ DeviceRead_Spurious(r) \/ \E n \in Caps : DeviceRead(r, n)

Spec == Init /\ [][Next]_vars

\* Threads that are not asleep keep running; hosts and spurious wake-ups owe nothing.
Fairness ==
  /\ \A c \in Conns : WF_vars(ServeStep(c))
  /\ \A r \in Readers : WF_vars(ReadStep(r))

FairSpec == Spec /\ Fairness

-----------------------------------------------------------------------------
(* Properties                                                              *)

Awake == {r \in Readers : reader[r] = "locked"}
Asleep == {r \in Readers : reader[r] = "wait"}

\* No lost wake-up: while a reader sleeps there are at most as many transfers queued as
\* readers on their way to take one.  One pthread_cond_signal per transfer is enough,
\* also when a reader that was never asleep takes a transfer another one was woken for.
NoLostWakeup == Asleep # {} => Len(out_queue) <= Cardinality(Awake)

Starts(transfer, byte) == transfer # <<>> /\ transfer[1] = byte
CopiesOf(byte) ==
  Cardinality({i \in DOMAIN out_queue : Starts(out_queue[i], byte)})
  + Cardinality({r \in Readers : Starts(dbuf[r], byte)})
  + Cardinality({i \in DOMAIN reads : Starts(reads[i], byte)})
EachTransferOnce ==
  /\ \A i \in DOMAIN acked : acked[i] # <<>> => CopiesOf(acked[i][1]) = 1
  /\ \A c \in Conns, k \in 1..sent : CopiesOf(<<c, k>>) <= 1

Precedes(s, t) ==
  \A i \in DOMAIN s, j \in DOMAIN t : s[i][1] = t[j][1] => s[i][2] < t[j][2]
TakenInOrder ==
  \A j \in DOMAIN out_queue :
    /\ \A i \in 1..(j - 1) : Precedes(out_queue[i], out_queue[j])
    /\ \A r \in Readers : Precedes(dbuf[r], out_queue[j])
    /\ \A i \in DOMAIN reads : Precedes(reads[i], out_queue[j])

\* A transfer that was acknowledged to a host is queued, being copied, or was read (from
\* its first byte on) by one reader: usbip_device_dispatch answers only what it queued,
\* and deq_dbuf hands each transfer to one reader.  And the stream of each host stays in
\* order however many readers share the endpoint: what is still queued came after
\* everything of the same host that a reader has taken.
TransfersAreExact == EachTransferOnce /\ TakenInOrder

\* Queued data is taken as long as a reader is in usbip_device_read.
QueuedIsRead ==
  ((\E r \in Readers : reader[r] \in {"locked", "wait"}) /\ out_queue # <<>>)
    ~> (\E r \in Readers : reader[r] = "copy")
=============================================================================
