----------------------------- MODULE InEndpoint -----------------------------
(***************************************************************************)
(* One non-isochronous IN endpoint of a virtual device                     *)
(* (src/src/usbip_device.c).                                               *)
(*                                                                         *)
(* Three kinds of thread meet at the endpoint's mutex:                     *)
(*   - the serve thread of every connection (serve_conn), which dispatches *)
(*     the URBs of its host and carries out its unlink requests;           *)
(*   - whoever calls usbip_device_write: an application thread, or a serve *)
(*     thread inside a class callback;                                     *)
(*   - whoever halts the endpoint: an application thread, a serve thread   *)
(*     inside a class callback, or one answering SET_FEATURE(HALT).        *)
(* An action is what a thread does between two points where it gives up    *)
(* the mutex.  Replies are sent with the mutex released, so each send is   *)
(* an action of its own.                                                   *)
(***************************************************************************)
EXTENDS Integers, Sequences, FiniteSets

CONSTANTS
  Conns,       \* connections that ever import the device; one serve thread each
  Apps,        \* application threads
  Writers,     \* the threads that call usbip_device_write
  Stallers,    \* the threads that call usbip_ep_stall
  Cancellers,  \* the connections whose host unlinks URBs
  Closers,     \* the connections whose host goes away
  Lengths,     \* transfer_buffer_length values of IN URBs (0 = unlimited)
  MaxSeq,      \* bound: IN URBs submitted on one connection
  MaxBytes,    \* bound: bytes written to the endpoint altogether
  Nobody       \* the receiver of a reply that reaches no host

Threads == Conns \cup Apps

ASSUME EnvAssumption ==
  /\ Conns \cap Apps = {}
  /\ Writers \subseteq Threads
  /\ Stallers \subseteq Threads
  /\ Cancellers \subseteq Conns
  /\ Closers \subseteq Conns
  /\ Nobody \notin Conns

ASSUME BoundAssumption ==
  /\ Lengths \subseteq Nat
  /\ 0 \in Lengths
  /\ MaxSeq \in Nat
  /\ MaxBytes \in Nat

\* A URB is named by the connection it came on and the host's seqnum.
Urbs == [conn : Conns, seq : 1..MaxSeq]

\* status 0 with its bytes, USBIP_STATUS_STALL, or a RET_UNLINK
Statuses == {"ok", "stall", "unlink"}
Replies == [to : Conns \cup {Nobody}, urb : Urbs, status : Statuses, data : Seq(Nat)]

VARIABLES
  halted,      \* ep->halted
  in_queue,    \* ep->in_head..in_tail: per dbuf, the bytes from off to len
  pend,        \* the parked URBs reachable from ep->pend_head
  pend_tail,   \* what ep->pend_tail points to: <<>> is NULL, <<u>> the node of u
  link,        \* "new", "up" or "closed" per connection
  submitted,   \* seqnum of the last IN URB of each connection
  urb_length,  \* transfer_buffer_length of each submitted URB
  pc,          \* where each thread is
  hand,        \* the URBs a thread has taken and not answered yet
  data,        \* the bytes a thread is about to send with the first of them
  remaining,   \* usbip_device_write: src[0..remaining)
  unlinking,   \* the seqnum a serve thread is unlinking (0: none)
  written,     \* number of bytes handed to usbip_device_write; byte k has value k
  replies      \* every reply sent, in order (history)

epvars == <<halted, in_queue, pend, pend_tail>>
hostvars == <<link, submitted, urb_length>>
threadvars == <<pc, hand, data, remaining, unlinking>>
vars == <<epvars, hostvars, threadvars, written, replies>>

PCs == {"idle", "dispatch", "reply", "reply_stall", "reply_unlink",
        "write", "write_send", "stall_send"}

TypeOK ==
  /\ halted \in BOOLEAN
  /\ in_queue \in Seq(Seq(Nat))
  /\ pend \in Seq(Urbs)
  /\ pend_tail \in Seq(Urbs)
  /\ link \in [Conns -> {"new", "up", "closed"}]
  /\ submitted \in [Conns -> 0..MaxSeq]
  /\ urb_length \in [Conns -> [1..MaxSeq -> Lengths]]
  /\ pc \in [Threads -> PCs]
  /\ hand \in [Threads -> Seq(Urbs)]
  /\ data \in [Threads -> Seq(Nat)]
  /\ remaining \in [Threads -> Seq(Nat)]
  /\ unlinking \in [Conns -> 0..MaxSeq]
  /\ written \in 0..MaxBytes
  /\ replies \in Seq(Replies)

Init ==
  /\ halted = FALSE
  /\ in_queue = <<>>
  /\ pend = <<>>
  /\ pend_tail = <<>>
  /\ link = [c \in Conns |-> "new"]
  /\ submitted = [c \in Conns |-> 0]
  /\ urb_length = [c \in Conns |-> [s \in 1..MaxSeq |-> 0]]
  /\ pc = [t \in Threads |-> "idle"]
  /\ hand = [t \in Threads |-> <<>>]
  /\ data = [t \in Threads |-> <<>>]
  /\ remaining = [t \in Threads |-> <<>>]
  /\ unlinking = [c \in Conns |-> 0]
  /\ written = 0
  /\ replies = <<>>

Goto(t, label) == pc' = [pc EXCEPT ![t] = label]

\* A serve thread is free when it blocks in usbip_read_cmd on a live socket.
Free(t) == pc[t] = "idle" /\ (t \in Conns => link[t] = "up")

-----------------------------------------------------------------------------
(* Sending                                                                 *)

\* Who receives a reply addressed to connection c.  The reply of a parked URB goes
\* through pend->conn, which points into the stack of the serve thread.  Once that
\* thread is gone the pointer dangles: the reply is lost, or it goes to a connection
\* whose serve thread took over the stack.
Receivers(c) ==
  IF link[c] = "up" THEN {c} ELSE {Nobody} \cup {d \in Conns : link[d] = "up"}

\* usbip_send_ret / usbip_send_ret_unlink: one reply, whole, under the write lock.
Send(urb, status, bytes) ==
  \E to \in Receivers(urb.conn) :
    replies' = Append(replies, [to |-> to, urb |-> urb, status |-> status, data |-> bytes])

\* Where a URB is.
IsRet(r) == r.status # "unlink"
Answered(u) == \E i \in DOMAIN replies : IsRet(replies[i]) /\ replies[i].urb = u
Parked(u) == \E i \in DOMAIN pend : pend[i] = u
Held(u) == \E t \in Threads : \E i \in DOMAIN hand[t] : hand[t][i] = u
Unlinked(u) ==
  \/ \E i \in DOMAIN replies : ~IsRet(replies[i]) /\ replies[i].urb = u
  \/ unlinking[u.conn] = u.seq

-----------------------------------------------------------------------------
(* The serve thread                                                        *)

Connect(c) ==
  /\ link[c] = "new"
  /\ link' = [link EXCEPT ![c] = "up"]
  /\ UNCHANGED <<epvars, submitted, urb_length, threadvars, written, replies>>

\* usbip_read_cmd fails and serve_conn returns.  Parked URBs stay on the endpoint.
Close(c) ==
  /\ c \in Closers
  /\ link[c] = "up"
  /\ pc[c] = "idle"
  /\ link' = [link EXCEPT ![c] = "closed"]
  /\ UNCHANGED <<epvars, submitted, urb_length, threadvars, written, replies>>

\* The URB usbip_read_cmd decodes.
Arrived(c) == [conn |-> c, seq |-> submitted[c] + 1]

\* An IN URB arrives.  usbip_ep_is_halted locks, reads and unlocks on its own.
Dispatch_HaltCheck(c, length) ==
  /\ Free(c)
  /\ submitted[c] < MaxSeq
  /\ submitted' = [submitted EXCEPT ![c] = @ + 1]
  /\ urb_length' = [urb_length EXCEPT ![c] = [@ EXCEPT ![submitted[c] + 1] = length]]
  /\ hand' = [hand EXCEPT ![c] = <<Arrived(c)>>]
  /\ Goto(c, IF halted THEN "reply_stall" ELSE "dispatch")
  /\ UNCHANGED <<epvars, link, data, remaining, unlinking, written, replies>>

\* How much of `avail` bytes one URB carries.
Chunk(avail, length) == IF length # 0 /\ avail > length THEN length ELSE avail

LengthOf(urb) == urb_length[urb.conn][urb.seq]

First(s, n) == SubSeq(s, 1, n)
Rest(s, n) == SubSeq(s, n + 1, Len(s))

\* The dbuf stays queued with its offset advanced unless the slice drained it.
Undrained(dbuf, chunk) == IF chunk >= Len(dbuf) THEN <<>> ELSE <<Rest(dbuf, chunk)>>

\* Data is queued: take a slice of the head dbuf, drop the dbuf once it is drained.
Dispatch_Slice(c) ==
  /\ pc[c] = "dispatch"
  /\ in_queue # <<>>
  /\ LET dbuf == Head(in_queue)
         chunk == Chunk(Len(dbuf), LengthOf(hand[c][1]))
     IN /\ data' = [data EXCEPT ![c] = First(dbuf, chunk)]
        /\ in_queue' = Undrained(dbuf, chunk) \o Tail(in_queue)
  /\ Goto(c, "reply")
  /\ UNCHANGED <<halted, pend, pend_tail, hostvars, hand, remaining, unlinking,
                 written, replies>>

\* Fault: a URB is parked without a look at the queue.
Dispatch_Park_Blind(c) ==
  /\ pc[c] = "dispatch"
  /\ pend' = IF pend_tail # <<>> THEN Append(pend, hand[c][1]) ELSE <<hand[c][1]>>
  /\ pend_tail' = <<hand[c][1]>>
  /\ hand' = [hand EXCEPT ![c] = <<>>]
  /\ Goto(c, "idle")
  /\ UNCHANGED <<halted, in_queue, hostvars, data, remaining, unlinking, written, replies>>

\* No data: park the URB behind pend_tail -- or at pend_head when pend_tail is NULL.
Dispatch_Park(c) ==
  /\ pc[c] = "dispatch"
  /\ in_queue = <<>>
  /\ pend' = IF pend_tail # <<>> THEN Append(pend, hand[c][1]) ELSE <<hand[c][1]>>
  /\ pend_tail' = <<hand[c][1]>>
  /\ hand' = [hand EXCEPT ![c] = <<>>]
  /\ Goto(c, "idle")
  /\ UNCHANGED <<halted, in_queue, hostvars, data, remaining, unlinking, written, replies>>

\* The serve thread sends the reply of the URB in its hand.
Dispatch_Reply(c) ==
  /\ pc[c] \in {"reply", "reply_stall"}
  /\ Send(hand[c][1], IF pc[c] = "reply" THEN "ok" ELSE "stall", data[c])
  /\ hand' = [hand EXCEPT ![c] = <<>>]
  /\ data' = [data EXCEPT ![c] = <<>>]
  /\ Goto(c, "idle")
  /\ UNCHANGED <<epvars, hostvars, remaining, unlinking, written>>

-----------------------------------------------------------------------------
(* usbip_device_handle_unlink                                              *)

\* What is left of a list when only the positions in `kept` stay linked (one list).
Keeping(list, kept) ==
  LET n == Cardinality(kept)
      increasing == {f \in [1..n -> kept] : \A i, j \in 1..n : i < j => f[i] < f[j]}
  IN {[k \in 1..n |-> list[f[k]]] : f \in increasing}

\* Drop every parked URB with the seqnum, of whichever connection; when pend_tail
\* pointed to a dropped node it becomes NULL.  A host unlinks a URB once, possibly while
\* its answer is on the way.
Unlink(c, seq) ==
  /\ c \in Cancellers
  /\ Free(c)
  /\ seq \in 1..submitted[c]
  /\ ~Unlinked([conn |-> c, seq |-> seq])
  /\ pend' \in Keeping(pend, {i \in DOMAIN pend : pend[i].seq # seq})
  /\ pend_tail' = IF pend_tail # <<>> /\ pend_tail[1].seq = seq THEN <<>> ELSE pend_tail
  /\ unlinking' = [unlinking EXCEPT ![c] = seq]
  /\ Goto(c, "reply_unlink")
  /\ UNCHANGED <<halted, in_queue, hostvars, hand, data, remaining, written, replies>>

\* RET_UNLINK, always with status 0.
Unlink_Reply(c) ==
  /\ pc[c] = "reply_unlink"
  /\ Send([conn |-> c, seq |-> unlinking[c]], "unlink", <<>>)
  /\ unlinking' = [unlinking EXCEPT ![c] = 0]
  /\ Goto(c, "idle")
  /\ UNCHANGED <<epvars, hostvars, hand, data, remaining, written>>

-----------------------------------------------------------------------------
(* usbip_device_write                                                      *)

DeviceWrite(t, len) ==
  /\ t \in Writers
  /\ Free(t)
  /\ written + len <= MaxBytes
  /\ written' = written + len
  /\ remaining' = [remaining EXCEPT ![t] = [i \in 1..len |-> written + i]]
  /\ Goto(t, "write")
  /\ UNCHANGED <<epvars, hostvars, hand, data, unlinking, replies>>

\* Fault: the node is taken off the list only after the mutex was given up.
PopPend_Late == UNCHANGED <<pend, pend_tail>>

\* Take the first node off the parked list.
PopPend ==
  /\ pend' = Tail(pend)
  /\ pend_tail' = IF Tail(pend) = <<>> THEN <<>> ELSE pend_tail

\* One round of the feeding loop: pop the first parked URB, cut its chunk, unlock.
DeviceWrite_Feed(t) ==
  /\ pc[t] = "write"
  /\ remaining[t] # <<>>
  /\ pend # <<>>
  /\ LET urb == Head(pend)
         chunk == Chunk(Len(remaining[t]), LengthOf(urb))
     IN /\ hand' = [hand EXCEPT ![t] = <<urb>>]
        /\ data' = [data EXCEPT ![t] = First(remaining[t], chunk)]
        /\ remaining' = [remaining EXCEPT ![t] = Rest(remaining[t], chunk)]
  /\ PopPend
  /\ Goto(t, "write_send")
  /\ UNCHANGED <<halted, in_queue, hostvars, unlinking, written, replies>>

DeviceWrite_Send(t) ==
  /\ pc[t] = "write_send"
  /\ Send(hand[t][1], "ok", data[t])
  /\ hand' = [hand EXCEPT ![t] = <<>>]
  /\ data' = [data EXCEPT ![t] = <<>>]
  /\ Goto(t, "write")
  /\ UNCHANGED <<epvars, hostvars, remaining, unlinking, written>>

\* Fault: the loop stops one parked URB early.
FeedDone_Early(t) == remaining[t] = <<>> \/ Len(pend) <= 1
\* The feeding loop ends: nothing is left, or nobody is parked any more.
FeedDone(t) == remaining[t] = <<>> \/ pend = <<>>

\* Fault: new data overtakes queued data.
enq_dbuf_AtHead(queue, bytes) == <<bytes>> \o queue

enq_dbuf(queue, bytes) == Append(queue, bytes)

\* Queue what is left and return.
DeviceWrite_Queue(t) ==
  /\ pc[t] = "write"
  /\ FeedDone(t)
  /\ in_queue' = IF remaining[t] # <<>> THEN enq_dbuf(in_queue, remaining[t]) ELSE in_queue
  /\ remaining' = [remaining EXCEPT ![t] = <<>>]
  /\ Goto(t, "idle")
  /\ UNCHANGED <<halted, pend, pend_tail, hostvars, hand, data, unlinking, written, replies>>

-----------------------------------------------------------------------------
(* usbip_ep_stall and usbip_ep_clear_halt                                  *)

\* Fault: halting leaves the parked URBs waiting.
DetachPend_Not(t) == UNCHANGED <<hand, pend, pend_tail>>

\* usbip_ep_stall takes the whole parked list.
DetachPend(t) ==
  /\ hand' = [hand EXCEPT ![t] = pend]
  /\ pend' = <<>>
  /\ pend_tail' = <<>>

\* Halt and detach every parked URB in one locked step ...
EpStall(t) ==
  /\ t \in Stallers
  /\ Free(t)
  /\ halted' = TRUE
  /\ DetachPend(t)
  /\ Goto(t, IF pend = <<>> THEN "idle" ELSE "stall_send")
  /\ UNCHANGED <<in_queue, hostvars, data, remaining, unlinking, written, replies>>

\* ... then answer them one by one, unlocked.
EpStall_Send(t) ==
  /\ pc[t] = "stall_send"
  /\ Send(Head(hand[t]), "stall", <<>>)
  /\ hand' = [hand EXCEPT ![t] = Tail(hand[t])]
  /\ Goto(t, IF Tail(hand[t]) = <<>> THEN "idle" ELSE "stall_send")
  /\ UNCHANGED <<epvars, hostvars, data, remaining, unlinking, written>>

\* CLEAR_FEATURE(ENDPOINT_HALT) or SET_CONFIGURATION on a connection.
EpClearHalt(c) ==
  /\ Free(c)
  /\ halted
  /\ halted' = FALSE
  /\ UNCHANGED <<in_queue, pend, pend_tail, hostvars, threadvars, written, replies>>

-----------------------------------------------------------------------------

ServeStep(c) ==
  \/ Dispatch_Slice(c)
  \/ Dispatch_Park(c)
  \/ Dispatch_Reply(c)
  \/ Unlink_Reply(c)

CallStep(t) ==
  \/ DeviceWrite_Feed(t)
  \/ DeviceWrite_Send(t)
  \/ DeviceWrite_Queue(t)
  \/ EpStall_Send(t)

Next ==
  \/ \E c \in Conns : Connect(c) \/ Close(c) \/ ServeStep(c) \/ EpClearHalt(c)
  \/ \E c \in Conns, l \in Lengths : Dispatch_HaltCheck(c, l)
  \/ \E c \in Conns, s \in 1..MaxSeq : Unlink(c, s)
  \/ \E t \in Threads, n \in 1..MaxBytes : DeviceWrite(t, n)
  \/ \E t \in Threads : EpStall(t) \/ CallStep(t)

Spec == Init /\ [][Next]_vars

\* A thread that has work in hand keeps running: the mutex is only ever held for a
\* few instructions and sends do not wait for other threads.  Hosts and applications
\* owe nothing.
Fairness ==
  /\ \A c \in Conns : WF_vars(ServeStep(c))
  /\ \A t \in Threads : WF_vars(CallStep(t))

FairSpec == Spec /\ Fairness

-----------------------------------------------------------------------------
(* Properties                                                              *)

\* No URB waits while data is queued: usbip_device_dispatch parks only on an empty
\* queue, and usbip_device_write queues only once the parked list is empty, although
\* it gives up the mutex for every URB it feeds.
NoStarvedUrb == in_queue # <<>> => pend = <<>>

\* The host gets at most one RET_SUBMIT per URB, whoever answers it: the serve thread,
\* a writer that feeds it or a thread that halts the endpoint (a second RET for one
\* seqnum makes a host drop the connection).
AtMostOnce ==
  \A i, j \in DOMAIN replies :
    /\ IsRet(replies[i])
    /\ IsRet(replies[j])
    /\ replies[i].urb = replies[j].urb
    => i = j

\* One owner per parked node: a URB is on the parked list once, or in one place of one
\* thread's hands, never both.  Each owner frees the node after it answered it.
OneOwner ==
  /\ \A i, j \in DOMAIN pend : pend[i] = pend[j] => i = j
  /\ \A t \in Threads : \A i \in DOMAIN pend, j \in DOMAIN hand[t] : pend[i] # hand[t][j]
  /\ \A t, v \in Threads : \A i \in DOMAIN hand[t], j \in DOMAIN hand[v] :
       hand[t][i] = hand[v][j] => t = v /\ i = j

\* A URB the host submitted and did not unlink is answered, parked, or in the hands of
\* a thread: no node falls off the parked list (the head/tail links of
\* usbip_device_dispatch, usbip_device_write, usbip_ep_stall and
\* usbip_device_handle_unlink agree with each other).
NoUrbForgotten ==
  \A u \in Urbs :
    u.seq <= submitted[u.conn] => Answered(u) \/ Parked(u) \/ Held(u) \/ Unlinked(u)

HaltedParksNothing == halted => pend = <<>>

\* The parked list is exact for one host that does not unlink: no URB falls off it, and
\* nothing is parked on a halted endpoint although the halt check of
\* usbip_device_dispatch and its parking are two locked sections.
ParkedIsExact == NoUrbForgotten /\ HaltedParksNothing

\* While data stays queued, a URB the host submitted gets its answer (or its RET_UNLINK):
\* no URB sits out a non-empty queue.
QueuedDataIsServed ==
  \A u \in Urbs :
    (u.seq <= submitted[u.conn] /\ in_queue # <<>>)
      ~> (Answered(u) \/ Unlinked(u) \/ in_queue = <<>>)
=============================================================================
