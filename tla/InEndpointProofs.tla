-------------------------- MODULE InEndpointProofs --------------------------
(***************************************************************************)
(* Theorems about InEndpoint, for any set of connections and threads and   *)
(* any bounds.                                                             *)
(***************************************************************************)
EXTENDS MCInEndpoint, FiniteSetTheorems, SequenceTheorems, WellFoundedInduction, TLAPS

\* What a thread holds at each point: the URB it dispatches or feeds, the list it
\* stalls, nothing elsewhere; only serve threads dispatch and unlink.
HandShape ==
  \A t \in Threads :
    /\ pc[t] \in {"idle", "write", "reply_unlink"} => hand[t] = <<>>
    /\ pc[t] \in {"dispatch", "reply", "reply_stall", "write_send"} => Len(hand[t]) = 1
    /\ pc[t] = "stall_send" => hand[t] # <<>>
    /\ pc[t] \in {"dispatch", "reply", "reply_stall", "reply_unlink"} => t \in Conns
    /\ pc[t] = "reply_unlink" => unlinking[t] \in 1..MaxSeq

TypeInv == TypeOK /\ HandShape

-----------------------------------------------------------------------------
(* Facts about the operators                                               *)

\* One URB never carries more than there is, and carries something.
LEMMA ChunkBounds ==
  ASSUME NEW avail \in Nat, NEW length \in Nat
  PROVE  /\ Chunk(avail, length) \in 0..avail
         /\ avail > 0 => Chunk(avail, length) > 0
BY DEF Chunk

\* Cutting a byte string at n gives two byte strings.
LEMMA CutType ==
  ASSUME NEW s \in Seq(Nat), NEW n \in 0..Len(s)
  PROVE  First(s, n) \in Seq(Nat) /\ Rest(s, n) \in Seq(Nat)
<1>1. First(s, n) \in Seq(Nat)
  BY DEF First
<1>2. Rest(s, n) \in Seq(Nat)
  BY DEF Rest
<1> QED BY <1>1, <1>2

LEMMA ChunkType ==
  ASSUME NEW s \in Seq(Nat), NEW length \in Nat
  PROVE  /\ First(s, Chunk(Len(s), length)) \in Seq(Nat)
         /\ Rest(s, Chunk(Len(s), length)) \in Seq(Nat)
<1>1. Len(s) \in Nat
  OBVIOUS
<1>2. Chunk(Len(s), length) \in 0..Len(s)
  BY <1>1, ChunkBounds
<1> QED BY <1>2, CutType

LEMMA LengthOfType ==
  ASSUME TypeOK, NEW u \in Urbs
  PROVE  LengthOf(u) \in Nat
<1>1. u.conn \in Conns /\ u.seq \in 1..MaxSeq
  BY DEF Urbs
<1>2. urb_length[u.conn] \in [1..MaxSeq -> Lengths]
  BY <1>1 DEF TypeOK
<1>3. urb_length[u.conn][u.seq] \in Lengths
  BY <1>1, <1>2
<1> QED BY <1>3, BoundAssumption DEF LengthOf

\* A list of one element is empty once its head is gone.
LEMMA SingletonTail ==
  ASSUME NEW S, NEW s \in Seq(S), Len(s) = 1
  PROVE  s # <<>> /\ Tail(s) = <<>>
<1>1. s # <<>>
  OBVIOUS
<1>2. Len(Tail(s)) = 0 /\ Tail(s) \in Seq(S)
  BY <1>1, HeadTailProperties
<1> QED BY <1>1, <1>2, EmptySeq

\* A reply is a record of type Replies, and sending appends exactly one.
LEMMA SendType ==
  ASSUME TypeOK, NEW u \in Urbs, NEW st \in Statuses, NEW b \in Seq(Nat), Send(u, st, b)
  PROVE  replies' \in Seq(Replies)
<1>1. PICK to \in Receivers(u.conn) :
        replies' = Append(replies, [to |-> to, urb |-> u, status |-> st, data |-> b])
  BY DEF Send
<1>2. u.conn \in Conns
  BY DEF Urbs
<1>3. to \in Conns \cup {Nobody}
  BY <1>1, <1>2 DEF Receivers
<1>4. [to |-> to, urb |-> u, status |-> st, data |-> b] \in Replies
  BY <1>3 DEF Replies
<1> QED BY <1>1, <1>4 DEF TypeOK

\* Taking nodes out of a list leaves a list of its elements, each from one place.
LEMMA KeepingSublist ==
  ASSUME NEW S, NEW list \in Seq(S), NEW kept \in SUBSET (DOMAIN list),
         NEW r \in Keeping(list, kept)
  PROVE  /\ r \in Seq(S)
         /\ \E f \in [DOMAIN r -> kept] :
              /\ \A k \in DOMAIN r : r[k] = list[f[k]]
              /\ \A i, j \in DOMAIN r : f[i] = f[j] => i = j
<1> DEFINE n == Cardinality(kept)
<1>1. IsFiniteSet(DOMAIN list)
  <2>1. DOMAIN list = 1..Len(list) /\ Len(list) \in Nat
    OBVIOUS
  <2> QED BY <2>1, FS_Interval
<1>2. n \in Nat
  BY <1>1, FS_Subset, FS_CardinalityType
<1>3. PICK f \in [1..n -> kept] :
        /\ \A i, j \in 1..n : i < j => f[i] < f[j]
        /\ r = [k \in 1..n |-> list[f[k]]]
  BY DEF Keeping
<1> HIDE DEF n
<1>4. DOMAIN r = 1..n
  BY <1>3
<1>5. \A k \in 1..n : f[k] \in kept /\ f[k] \in DOMAIN list /\ f[k] \in Nat
  BY <1>3
<1>6. \A k \in 1..n : r[k] = list[f[k]] /\ r[k] \in S
  BY <1>3, <1>5
<1>7. r \in Seq(S)
  BY <1>2, <1>3, <1>6
<1>8. \A i, j \in 1..n : f[i] = f[j] => i = j
  <2> SUFFICES ASSUME NEW i \in 1..n, NEW j \in 1..n, f[i] = f[j], i # j
               PROVE  FALSE
    OBVIOUS
  <2>1. i < j \/ j < i
    BY <1>2
  <2> QED BY <2>1, <1>3, <1>5
<1>9. f \in [DOMAIN r -> kept]
  BY <1>3, <1>4
<1> QED BY <1>4, <1>6, <1>7, <1>8, <1>9

-----------------------------------------------------------------------------
(* Type correctness                                                        *)

LEMMA TypeInit == Init => TypeInv
<1> SUFFICES ASSUME Init PROVE TypeInv
  OBVIOUS
<1> USE BoundAssumption DEF Init
<1>1. TypeOK
  <2>1. /\ in_queue \in Seq(Seq(Nat)) /\ pend \in Seq(Urbs) /\ pend_tail \in Seq(Urbs)
        /\ replies \in Seq(Replies)
    OBVIOUS
  <2>2. urb_length \in [Conns -> [1..MaxSeq -> Lengths]]
    OBVIOUS
  <2>3. hand \in [Threads -> Seq(Urbs)] /\ data \in [Threads -> Seq(Nat)]
    OBVIOUS
  <2>4. remaining \in [Threads -> Seq(Nat)] /\ pc \in [Threads -> PCs]
    BY DEF PCs
  <2>5. submitted \in [Conns -> 0..MaxSeq] /\ unlinking \in [Conns -> 0..MaxSeq]
    OBVIOUS
  <2>6. link \in [Conns -> {"new", "up", "closed"}] /\ written \in 0..MaxBytes
    OBVIOUS
  <2>7. halted \in BOOLEAN
    OBVIOUS
  <2> HIDE DEF Init
  <2> QED BY <2>1, <2>2, <2>3, <2>4, <2>5, <2>6, <2>7 DEF TypeOK
<1>2. HandShape
  BY DEF HandShape
<1> QED BY <1>1, <1>2 DEF TypeInv

\* The serve thread's steps keep the types.
LEMMA TypeServe ==
  ASSUME TypeInv, NEW c \in Conns,
         \/ Connect(c)
         \/ Close(c)
         \/ EpClearHalt(c)
         \/ ServeStep(c)
         \/ \E l \in Lengths : Dispatch_HaltCheck(c, l)
         \/ \E s \in 1..MaxSeq : Unlink(c, s)
  PROVE  TypeInv'
<1> USE EnvAssumption, BoundAssumption DEF TypeInv, Goto, epvars, hostvars, threadvars,
       Arrived, PopPend, FeedDone, enq_dbuf, DetachPend
<1>0. c \in Threads
  BY DEF Threads
<1>1. CASE Connect(c) \/ Close(c)
  BY <1>1 DEF Connect, Close, TypeOK, HandShape
<1>2. CASE EpClearHalt(c)
  BY <1>2 DEF EpClearHalt, TypeOK, HandShape
<1>3. CASE Dispatch_Slice(c)
  <2> DEFINE dbuf == Head(in_queue)
             chunk == Chunk(Len(dbuf), LengthOf(hand[c][1]))
  <2>1. hand[c][1] \in Urbs
    BY <1>0, <1>3 DEF TypeOK, HandShape, Dispatch_Slice
  <2>2. LengthOf(hand[c][1]) \in Nat
    BY <2>1, LengthOfType
  <2>3. dbuf \in Seq(Nat) /\ Tail(in_queue) \in Seq(Seq(Nat))
    BY <1>3 DEF TypeOK, Dispatch_Slice
  <2>5. First(dbuf, chunk) \in Seq(Nat) /\ Rest(dbuf, chunk) \in Seq(Nat)
    BY <2>2, <2>3, ChunkType
  <2>6. /\ data' = [data EXCEPT ![c] = First(dbuf, chunk)]
        /\ in_queue' = Undrained(dbuf, chunk) \o Tail(in_queue)
    BY <1>3 DEF Dispatch_Slice
  <2> HIDE DEF dbuf, chunk
  <2>7a. Undrained(dbuf, chunk) \in Seq(Seq(Nat))
    BY <2>5 DEF Undrained
  <2>7b. Undrained(dbuf, chunk) \o Tail(in_queue) \in Seq(Seq(Nat))
    BY <2>3, <2>7a, ConcatProperties
  <2>7. in_queue' \in Seq(Seq(Nat)) /\ data' \in [Threads -> Seq(Nat)]
    BY <2>5, <2>6, <2>7b DEF TypeOK
  <2>8. TypeOK'
    BY <1>0, <1>3, <2>7 DEF Dispatch_Slice, TypeOK, PCs
  <2>9. HandShape'
    BY <1>0, <1>3 DEF Dispatch_Slice, TypeOK, HandShape
  <2> QED BY <2>8, <2>9
<1>4. CASE Dispatch_Park(c)
  <2>1. hand[c][1] \in Urbs
    BY <1>0, <1>4 DEF TypeOK, HandShape, Dispatch_Park
  <2>2. pend' \in Seq(Urbs) /\ pend_tail' \in Seq(Urbs)
    BY <1>4, <2>1 DEF TypeOK, Dispatch_Park
  <2>a. hand' \in [Threads -> Seq(Urbs)] /\ pc' \in [Threads -> PCs]
    BY <1>0, <1>4 DEF Dispatch_Park, TypeOK, PCs
  <2>b. UNCHANGED <<halted, in_queue, link, submitted, urb_length, data, remaining, unlinking, written, replies>>
    BY <1>4 DEF Dispatch_Park
  <2>3. TypeOK'
    BY <2>2, <2>a, <2>b DEF TypeOK
  <2>4. HandShape'
    BY <1>0, <1>4 DEF Dispatch_Park, TypeOK, HandShape
  <2> QED BY <2>3, <2>4
<1>5. CASE Dispatch_Reply(c)
  <2>1. hand[c][1] \in Urbs /\ data[c] \in Seq(Nat)
    BY <1>0, <1>5 DEF TypeOK, HandShape, Dispatch_Reply
  <2>2. replies' \in Seq(Replies)
    BY <1>5, <2>1, SendType DEF Dispatch_Reply, Statuses
  <2>3. TypeOK'
    BY <1>0, <1>5, <2>2 DEF Dispatch_Reply, TypeOK, PCs
  <2>4. HandShape'
    BY <1>0, <1>5 DEF Dispatch_Reply, TypeOK, HandShape
  <2> QED BY <2>3, <2>4
<1>6. CASE Unlink_Reply(c)
  <2>1. [conn |-> c, seq |-> unlinking[c]] \in Urbs
    BY <1>0, <1>6 DEF HandShape, Unlink_Reply, Urbs
  <2>2. <<>> \in Seq(Nat)
    OBVIOUS
  <2>3. replies' \in Seq(Replies)
    BY <1>6, <2>1, <2>2, SendType DEF Unlink_Reply, Statuses
  <2>4. TypeOK'
    BY <1>0, <1>6, <2>3 DEF Unlink_Reply, TypeOK, PCs
  <2>5. HandShape'
    BY <1>0, <1>6 DEF Unlink_Reply, TypeOK, HandShape
  <2> QED BY <2>4, <2>5
<1>7. CASE \E l \in Lengths : Dispatch_HaltCheck(c, l)
  <2>1. PICK l \in Lengths : Dispatch_HaltCheck(c, l)
    BY <1>7
  <2>2. submitted[c] \in 0..MaxSeq /\ submitted[c] < MaxSeq
    BY <2>1 DEF TypeOK, Dispatch_HaltCheck
  <2>3. submitted[c] + 1 \in 1..MaxSeq
    BY <2>2
  <2>4. [conn |-> c, seq |-> submitted[c] + 1] \in Urbs
    BY <2>3 DEF Urbs
  <2>5. submitted' \in [Conns -> 0..MaxSeq]
    BY <2>1, <2>3 DEF TypeOK, Dispatch_HaltCheck
  <2>6. urb_length' \in [Conns -> [1..MaxSeq -> Lengths]]
    BY <2>1, <2>3 DEF TypeOK, Dispatch_HaltCheck
  <2>7. hand' \in [Threads -> Seq(Urbs)] /\ hand'[c] = <<[conn |-> c, seq |-> submitted[c] + 1]>>
    BY <1>0, <2>1, <2>4 DEF TypeOK, Dispatch_HaltCheck
  <2>8. TypeOK'
    BY <1>0, <2>1, <2>5, <2>6, <2>7 DEF Dispatch_HaltCheck, TypeOK, PCs
  <2>9. HandShape'
    BY <1>0, <2>1, <2>7 DEF Dispatch_HaltCheck, TypeOK, HandShape
  <2> QED BY <2>8, <2>9
<1>8. CASE \E s \in 1..MaxSeq : Unlink(c, s)
  <2>1. PICK s \in 1..MaxSeq : Unlink(c, s)
    BY <1>8
  <2>2. pend' \in Seq(Urbs)
    BY <2>1, KeepingSublist DEF TypeOK, Unlink
  <2>3. TypeOK'
    BY <1>0, <2>1, <2>2, SMTT(30) DEF Unlink, TypeOK, PCs
  <2>4. HandShape'
    <3>1. hand[c] = <<>> /\ hand' = hand /\ unlinking'[c] = s /\ pc'[c] = "reply_unlink"
      BY <1>0, <2>1 DEF Unlink, TypeOK, HandShape, Free
    <3>2. \A t \in Threads \ {c} : pc'[t] = pc[t] /\ unlinking'[t] = unlinking[t]
      BY <2>1 DEF Unlink, TypeOK
    <3> QED BY <1>0, <3>1, <3>2 DEF HandShape
  <2> QED BY <2>3, <2>4
<1> QED BY <1>1, <1>2, <1>3, <1>4, <1>5, <1>6, <1>7, <1>8 DEF ServeStep

\* The steps of usbip_device_write and usbip_ep_stall keep the types.
LEMMA TypeCall ==
  ASSUME TypeInv, NEW t \in Threads,
         \/ \E n \in 1..MaxBytes : DeviceWrite(t, n)
         \/ EpStall(t)
         \/ CallStep(t)
  PROVE  TypeInv'
<1> USE EnvAssumption, BoundAssumption DEF TypeInv, Goto, epvars, hostvars, threadvars,
       Arrived, PopPend, FeedDone, enq_dbuf, DetachPend
<1>1. CASE \E n \in 1..MaxBytes : DeviceWrite(t, n)
  <2>1. PICK n \in 1..MaxBytes : DeviceWrite(t, n)
    BY <1>1
  <2>2. [i \in 1..n |-> written + i] \in Seq(Nat)
    BY DEF TypeOK
  <2>3. remaining' \in [Threads -> Seq(Nat)]
    BY <2>1, <2>2 DEF TypeOK, DeviceWrite
  <2>4. TypeOK'
    BY <2>1, <2>3 DEF DeviceWrite, TypeOK, PCs
  <2>5. HandShape'
    BY <2>1 DEF DeviceWrite, TypeOK, HandShape, Free
  <2> QED BY <2>4, <2>5
<1>2. CASE DeviceWrite_Feed(t)
  <2> DEFINE urb == Head(pend)
             chunk == Chunk(Len(remaining[t]), LengthOf(urb))
  <2>1. urb \in Urbs /\ Tail(pend) \in Seq(Urbs)
    BY <1>2 DEF TypeOK, DeviceWrite_Feed
  <2>2. LengthOf(urb) \in Nat
    BY <2>1, LengthOfType
  <2>3. remaining[t] \in Seq(Nat)
    BY DEF TypeOK
  <2>5. First(remaining[t], chunk) \in Seq(Nat) /\ Rest(remaining[t], chunk) \in Seq(Nat)
    BY <2>2, <2>3, ChunkType
  <2>6. /\ hand' = [hand EXCEPT ![t] = <<urb>>]
        /\ data' = [data EXCEPT ![t] = First(remaining[t], chunk)]
        /\ remaining' = [remaining EXCEPT ![t] = Rest(remaining[t], chunk)]
    BY <1>2 DEF DeviceWrite_Feed
  <2> HIDE DEF urb, chunk
  <2>7. /\ hand' \in [Threads -> Seq(Urbs)]
        /\ data' \in [Threads -> Seq(Nat)]
        /\ remaining' \in [Threads -> Seq(Nat)]
        /\ hand'[t] = <<urb>>
    BY <2>1, <2>5, <2>6 DEF TypeOK
  <2>8. TypeOK'
    BY <1>2, <2>1, <2>7 DEF DeviceWrite_Feed, TypeOK, PCs
  <2>9. HandShape'
    BY <1>2, <2>6, <2>7 DEF DeviceWrite_Feed, TypeOK, HandShape
  <2> QED BY <2>8, <2>9
<1>3. CASE DeviceWrite_Send(t)
  <2>1. hand[t][1] \in Urbs /\ data[t] \in Seq(Nat)
    BY <1>3 DEF TypeOK, HandShape, DeviceWrite_Send
  <2>2. replies' \in Seq(Replies)
    BY <1>3, <2>1, SendType DEF DeviceWrite_Send, Statuses
  <2>3. TypeOK'
    BY <1>3, <2>2 DEF DeviceWrite_Send, TypeOK, PCs
  <2>4. HandShape'
    BY <1>3 DEF DeviceWrite_Send, TypeOK, HandShape
  <2> QED BY <2>3, <2>4
<1>4. CASE DeviceWrite_Queue(t)
  <2>1. in_queue' \in Seq(Seq(Nat))
    BY <1>4 DEF DeviceWrite_Queue, TypeOK
  <2>2. TypeOK'
    BY <1>4, <2>1 DEF DeviceWrite_Queue, TypeOK, PCs
  <2>3. HandShape'
    BY <1>4 DEF DeviceWrite_Queue, TypeOK, HandShape
  <2> QED BY <2>2, <2>3
<1>5. CASE EpStall(t)
  <2>1. TypeOK'
    BY <1>5 DEF EpStall, TypeOK, PCs
  <2>2. HandShape'
    BY <1>5 DEF EpStall, TypeOK, HandShape
  <2> QED BY <2>1, <2>2
<1>6. CASE EpStall_Send(t)
  <2>1. Head(hand[t]) \in Urbs /\ Tail(hand[t]) \in Seq(Urbs) /\ <<>> \in Seq(Nat)
    BY <1>6 DEF TypeOK, HandShape, EpStall_Send
  <2>2. replies' \in Seq(Replies)
    BY <1>6, <2>1, SendType DEF EpStall_Send, Statuses
  <2>3. TypeOK'
    BY <1>6, <2>1, <2>2 DEF EpStall_Send, TypeOK, PCs
  <2>4. HandShape'
    BY <1>6 DEF EpStall_Send, TypeOK, HandShape
  <2> QED BY <2>3, <2>4
<1> QED BY <1>1, <1>2, <1>3, <1>4, <1>5, <1>6 DEF CallStep

LEMMA TypeNext == TypeInv /\ [Next]_vars => TypeInv'
<1> SUFFICES ASSUME TypeInv, [Next]_vars PROVE TypeInv'
  OBVIOUS
<1>1. CASE UNCHANGED vars
  BY <1>1 DEF vars, epvars, hostvars, threadvars, TypeInv, TypeOK, HandShape
<1>2. CASE Next
  BY <1>2, TypeServe, TypeCall DEF Next
<1> QED BY <1>1, <1>2

\* Every reachable state of the endpoint and of the threads that use it is well typed;
\* in particular no thread answers a URB it does not hold.
THEOREM TypeCorrect == Spec => []TypeOK
<1>1. Init => TypeInv
  BY TypeInit
<1>2. TypeInv /\ [Next]_vars => TypeInv'
  BY TypeNext
<1>3. TypeInv => TypeOK
  BY DEF TypeInv
<1> QED BY <1>1, <1>2, <1>3, PTL DEF Spec

-----------------------------------------------------------------------------
(* No URB waits while data is queued                                       *)

LEMMA NoStarvedNext == TypeInv /\ NoStarvedUrb /\ [Next]_vars => NoStarvedUrb'
<1> SUFFICES ASSUME TypeInv, NoStarvedUrb, [Next]_vars PROVE NoStarvedUrb'
  OBVIOUS
<1> USE DEF NoStarvedUrb, Goto, epvars, hostvars, threadvars, PopPend, FeedDone, enq_dbuf, DetachPend
<1>1. CASE UNCHANGED vars
  BY <1>1 DEF vars
<1>2. ASSUME NEW c \in Conns,
             Connect(c) \/ Close(c) \/ EpClearHalt(c) \/ Dispatch_Reply(c) \/ Unlink_Reply(c)
      PROVE  NoStarvedUrb'
  BY <1>2 DEF Connect, Close, EpClearHalt, Dispatch_Reply, Unlink_Reply
<1>3. ASSUME NEW c \in Conns, NEW l \in Lengths, Dispatch_HaltCheck(c, l)
      PROVE  NoStarvedUrb'
  BY <1>3 DEF Dispatch_HaltCheck
<1>4. ASSUME NEW c \in Conns, Dispatch_Slice(c)
      PROVE  NoStarvedUrb'
  BY <1>4 DEF Dispatch_Slice  \* data was queued, so nothing is parked
<1>5. ASSUME NEW c \in Conns, Dispatch_Park(c)
      PROVE  NoStarvedUrb'
  BY <1>5 DEF Dispatch_Park   \* parks on an empty queue only
<1>6. ASSUME NEW c \in Conns, NEW s \in 1..MaxSeq, Unlink(c, s)
      PROVE  NoStarvedUrb'
  <2>1. SUFFICES ASSUME in_queue # <<>> PROVE pend' = <<>>
    BY <1>6 DEF Unlink
  <2>2. pend = <<>>
    BY <2>1
  <2>3. {i \in DOMAIN pend : pend[i].seq # s} = {}
    BY <2>2
  <2>4. pend' \in Keeping(pend, {})
    BY <1>6, <2>3 DEF Unlink
  <2>5. Cardinality({}) = 0
    BY FS_EmptySet
  <2>6. PICK f : pend' = [k \in 1..0 |-> pend[f[k]]]
    BY <2>4, <2>5 DEF Keeping
  <2> QED BY <2>6
<1>7. ASSUME NEW t \in Threads,
             DeviceWrite_Send(t) \/ EpStall(t) \/ EpStall_Send(t)
      PROVE  NoStarvedUrb'
  BY <1>7 DEF DeviceWrite_Send, EpStall, EpStall_Send
<1>8. ASSUME NEW t \in Threads, NEW n \in 1..MaxBytes, DeviceWrite(t, n)
      PROVE  NoStarvedUrb'
  BY <1>8 DEF DeviceWrite
<1>9. ASSUME NEW t \in Threads, DeviceWrite_Feed(t)
      PROVE  NoStarvedUrb'
  BY <1>9 DEF DeviceWrite_Feed  \* something is parked, so the queue is empty
<1>10. ASSUME NEW t \in Threads, DeviceWrite_Queue(t)
       PROVE  NoStarvedUrb'
  BY <1>10 DEF DeviceWrite_Queue  \* queues only when nothing is parked any more
<1> QED
  BY <1>1, <1>2, <1>3, <1>4, <1>5, <1>6, <1>7, <1>8, <1>9, <1>10
     DEF Next, ServeStep, CallStep

\* However many hosts and writers share the endpoint, no URB is parked while data is
\* queued: usbip_device_write and usbip_device_dispatch never pass each other.
THEOREM NoStarvedUrbHolds == Spec => []NoStarvedUrb
<1>1. Init => TypeInv /\ NoStarvedUrb
  BY TypeInit DEF Init, NoStarvedUrb
<1>2. (TypeInv /\ NoStarvedUrb) /\ [Next]_vars => (TypeInv /\ NoStarvedUrb)'
  BY TypeNext, NoStarvedNext
<1> QED BY <1>1, <1>2, PTL DEF Spec

-----------------------------------------------------------------------------
(* Every URB has one owner and is answered at most once                    *)

\* Whatever is parked, held or answered was submitted: the next seqnum is fresh.
Known ==
  /\ \A i \in DOMAIN pend : pend[i].seq <= submitted[pend[i].conn]
  /\ \A t \in Threads : \A i \in DOMAIN hand[t] :
       hand[t][i].seq <= submitted[hand[t][i].conn]
  /\ \A k \in DOMAIN replies :
       IsRet(replies[k]) => replies[k].urb.seq <= submitted[replies[k].urb.conn]

\* An answered URB has left the parked list and every thread's hands.
AnsweredIsGone ==
  \A k \in DOMAIN replies : IsRet(replies[k]) =>
    /\ \A i \in DOMAIN pend : pend[i] # replies[k].urb
    /\ \A t \in Threads : \A i \in DOMAIN hand[t] : hand[t][i] # replies[k].urb

OwnInv == Known /\ OneOwner /\ AnsweredIsGone /\ AtMostOnce

\* A thread answers the first URB in its hands and lets go of it.
LEMMA SendKeepsOwn ==
  ASSUME TypeInv, OwnInv, NEW t \in Threads, hand[t] # <<>>,
         NEW st \in {"ok", "stall"}, NEW b \in Seq(Nat),
         Send(hand[t][1], st, b),
         hand' = [hand EXCEPT ![t] = Tail(hand[t])],
         UNCHANGED <<pend, submitted>>
  PROVE  OwnInv'
<1> DEFINE u == hand[t][1]
<1>1. hand[t] \in Seq(Urbs) /\ hand \in [Threads -> Seq(Urbs)] /\ replies \in Seq(Replies)
  BY DEF TypeInv, TypeOK
<1>2. u \in Urbs /\ 1 \in DOMAIN hand[t]
  BY <1>1
<1>3. /\ DOMAIN hand'[t] = 1..(Len(hand[t]) - 1)
      /\ \A i \in DOMAIN hand'[t] : i + 1 \in DOMAIN hand[t] /\ hand'[t][i] = hand[t][i + 1]
  BY <1>1
<1>4. \A v \in Threads \ {t} : hand'[v] = hand[v]
  BY <1>1
<1>5a. PICK to : replies' = Append(replies, [to |-> to, urb |-> u, status |-> st, data |-> b])
  BY DEF Send
<1> DEFINE r == [to |-> to, urb |-> u, status |-> st, data |-> b]
<1>5b. r.urb = u /\ r.status = st
  OBVIOUS
<1>5. replies' = Append(replies, r) /\ r.urb = u /\ IsRet(r)
  BY <1>5a, <1>5b DEF IsRet
<1> HIDE DEF r
<1>6. /\ DOMAIN replies' = 1..(Len(replies) + 1)
      /\ DOMAIN replies = 1..Len(replies)
      /\ Len(replies) \in Nat
      /\ \A k \in DOMAIN replies : replies'[k] = replies[k]
      /\ replies'[Len(replies) + 1] = r
  BY <1>1, <1>5
<1>7. \A k \in DOMAIN replies' : k \in DOMAIN replies \/ k = Len(replies) + 1
  BY <1>6
<1> HIDE DEF u
<1>8. Known'
  <2>1. u.seq <= submitted[u.conn]
    BY <1>2 DEF OwnInv, Known, u
  <2>2. \A v \in Threads : \A i \in DOMAIN hand'[v] :
          hand'[v][i].seq <= submitted[hand'[v][i].conn]
    BY <1>3, <1>4 DEF OwnInv, Known
  <2> QED BY <1>5, <1>6, <1>7, <2>1, <2>2 DEF OwnInv, Known
<1>9. OneOwner'
  <2>1. \A v \in Threads : \A i \in DOMAIN pend, j \in DOMAIN hand'[v] : pend[i] # hand'[v][j]
    BY <1>3, <1>4 DEF OwnInv, OneOwner
  <2>2. \A v, w \in Threads : \A i \in DOMAIN hand'[v], j \in DOMAIN hand'[w] :
          hand'[v][i] = hand'[w][j] => v = w /\ i = j
    <3> SUFFICES ASSUME NEW v \in Threads, NEW w \in Threads,
                        NEW i \in DOMAIN hand'[v], NEW j \in DOMAIN hand'[w],
                        hand'[v][i] = hand'[w][j]
                 PROVE  v = w /\ i = j
      OBVIOUS
    <3> DEFINE ii == IF v = t THEN i + 1 ELSE i
               jj == IF w = t THEN j + 1 ELSE j
    <3>1. ii \in DOMAIN hand[v] /\ hand[v][ii] = hand'[v][i]
      BY <1>3, <1>4
    <3>2. jj \in DOMAIN hand[w] /\ hand[w][jj] = hand'[w][j]
      BY <1>3, <1>4
    <3>3. v = w /\ ii = jj
      BY <3>1, <3>2 DEF OwnInv, OneOwner
    <3>4. CASE v = t
      BY <1>3, <3>3, <3>4
    <3>5. CASE v # t
      BY <3>3, <3>5
    <3> QED BY <3>4, <3>5
  <2> QED BY <2>1, <2>2 DEF OwnInv, OneOwner
<1>10. \A v \in Threads : \A i \in DOMAIN hand'[v] : hand'[v][i] # u
  <2> SUFFICES ASSUME NEW v \in Threads, NEW i \in DOMAIN hand'[v], hand'[v][i] = u
               PROVE  FALSE
    OBVIOUS
  <2>1. CASE v = t
    <3>1. i + 1 \in DOMAIN hand[t] /\ hand[t][i + 1] = u /\ i \in Nat /\ i >= 1
      BY <1>3, <2>1
    <3>2. i + 1 = 1
      BY <1>2, <3>1 DEF OwnInv, OneOwner, u
    <3> QED BY <3>1, <3>2
  <2>2. CASE v # t
    BY <1>2, <1>4, <2>2 DEF OwnInv, OneOwner, u
  <2> QED BY <2>1, <2>2
<1>11. \A i \in DOMAIN pend : pend[i] # u
  BY <1>2 DEF OwnInv, OneOwner, u
<1>12. AnsweredIsGone'
  <2>1. \A k \in DOMAIN replies : IsRet(replies[k]) =>
          \A v \in Threads : \A i \in DOMAIN hand'[v] : hand'[v][i] # replies[k].urb
    BY <1>3, <1>4 DEF OwnInv, AnsweredIsGone
  <2> QED BY <1>5, <1>6, <1>7, <1>10, <1>11, <2>1 DEF OwnInv, AnsweredIsGone
<1>13. AtMostOnce'
  <2>1. \A k \in DOMAIN replies : IsRet(replies[k]) => replies[k].urb # u
    BY <1>2 DEF OwnInv, AnsweredIsGone, u
  <2> QED BY <1>5, <1>6, <1>7, <2>1 DEF OwnInv, AtMostOnce
<1> QED BY <1>8, <1>9, <1>12, <1>13 DEF OwnInv

\* Parked URBs, held URBs and replies unchanged: nothing to show.
LEMMA IdleKeepsOwn ==
  ASSUME OwnInv, UNCHANGED <<pend, hand, submitted, replies>>
  PROVE  OwnInv'
BY DEF OwnInv, Known, OneOwner, AnsweredIsGone, AtMostOnce, IsRet

LEMMA OwnInit == Init => OwnInv
BY DEF Init, OwnInv, Known, OneOwner, AnsweredIsGone, AtMostOnce

\* A new URB gets the next seqnum of its connection, which nothing else carries.
LEMMA ArriveKeepsOwn ==
  ASSUME TypeInv, OwnInv, NEW c \in Conns, NEW l \in Lengths, Dispatch_HaltCheck(c, l)
  PROVE  OwnInv'
<1> DEFINE u == [conn |-> c, seq |-> submitted[c] + 1]
<1>1. /\ c \in Threads
      /\ hand[c] = <<>>
      /\ hand' = [hand EXCEPT ![c] = <<u>>]
      /\ submitted' = [submitted EXCEPT ![c] = submitted[c] + 1]
      /\ pend' = pend
      /\ replies' = replies
  BY DEF Dispatch_HaltCheck, Arrived, Free, TypeInv, HandShape, Threads, epvars
<1>2. /\ hand \in [Threads -> Seq(Urbs)]
      /\ pend \in Seq(Urbs)
      /\ replies \in Seq(Replies)
      /\ submitted \in [Conns -> 0..MaxSeq]
      /\ MaxSeq \in Nat
  BY BoundAssumption DEF TypeInv, TypeOK
<1>3. /\ DOMAIN hand'[c] = {1}
      /\ hand'[c][1] = u
      /\ \A v \in Threads \ {c} : hand'[v] = hand[v]
  BY <1>1, <1>2
<1>4. /\ submitted'[c] = submitted[c] + 1
      /\ \A d \in Conns : submitted[d] \in Nat /\ submitted'[d] \in Nat /\ submitted'[d] >= submitted[d]
  BY <1>1, <1>2
<1>5. u.conn = c /\ u.seq = submitted[c] + 1
  OBVIOUS
<1> HIDE DEF u
<1>6. /\ \A i \in DOMAIN pend : pend[i] \in Urbs
      /\ \A v \in Threads : \A i \in DOMAIN hand[v] : hand[v][i] \in Urbs
      /\ \A k \in DOMAIN replies : replies[k].urb \in Urbs
  <2>1. \A k \in DOMAIN replies : replies[k] \in Replies
    BY <1>2
  <2>2. \A k \in DOMAIN replies : replies[k].urb \in Urbs
    BY <2>1 DEF Replies
  <2>3. \A v \in Threads : hand[v] \in Seq(Urbs)
    BY <1>2
  <2> QED BY <1>2, <2>2, <2>3
<1>7. \A x \in Urbs : x.conn \in Conns /\ x.seq \in Nat
  BY <1>2 DEF Urbs
<1>8. \A x \in Urbs : x.seq <= submitted[x.conn] => x # u /\ x.seq <= submitted'[x.conn]
  <2> SUFFICES ASSUME NEW x \in Urbs, x.seq <= submitted[x.conn]
               PROVE  x # u /\ x.seq <= submitted'[x.conn]
    OBVIOUS
  <2>1. x.conn \in Conns /\ x.seq \in Nat
    BY <1>7
  <2>2. x.seq <= submitted'[x.conn]
    BY <1>4, <2>1
  <2>3. x # u
    BY <1>4, <1>5, <2>1
  <2> QED BY <2>2, <2>3
<1>9. Known'
  <2>1. \A v \in Threads : \A i \in DOMAIN hand'[v] :
          hand'[v][i].seq <= submitted'[hand'[v][i].conn]
    <3> SUFFICES ASSUME NEW v \in Threads, NEW i \in DOMAIN hand'[v]
                 PROVE  hand'[v][i].seq <= submitted'[hand'[v][i].conn]
      OBVIOUS
    <3>1. CASE v = c
      BY <1>3, <1>4, <1>5, <3>1
    <3>2. CASE v # c
      BY <1>3, <1>6, <1>8, <3>2 DEF OwnInv, Known
    <3> QED BY <3>1, <3>2
  <2>2. \A i \in DOMAIN pend : pend[i].seq <= submitted'[pend[i].conn]
    BY <1>6, <1>8 DEF OwnInv, Known
  <2>3. \A k \in DOMAIN replies :
          IsRet(replies[k]) => replies[k].urb.seq <= submitted'[replies[k].urb.conn]
    BY <1>6, <1>8 DEF OwnInv, Known
  <2> QED BY <1>1, <2>1, <2>2, <2>3 DEF Known
<1>10. \A i \in DOMAIN pend : pend[i] # u
  BY <1>6, <1>8 DEF OwnInv, Known
<1>11. \A v \in Threads : \A i \in DOMAIN hand[v] : hand[v][i] # u
  BY <1>6, <1>8 DEF OwnInv, Known
<1>12. OneOwner'
  <2>1. \A v \in Threads : \A i \in DOMAIN pend, j \in DOMAIN hand'[v] : pend[i] # hand'[v][j]
    BY <1>3, <1>10 DEF OwnInv, OneOwner
  <2>2. \A v, w \in Threads : \A i \in DOMAIN hand'[v], j \in DOMAIN hand'[w] :
          hand'[v][i] = hand'[w][j] => v = w /\ i = j
    <3> SUFFICES ASSUME NEW v \in Threads, NEW w \in Threads,
                        NEW i \in DOMAIN hand'[v], NEW j \in DOMAIN hand'[w],
                        hand'[v][i] = hand'[w][j]
                 PROVE  v = w /\ i = j
      OBVIOUS
    <3>1. CASE v = c \/ w = c
      BY <1>3, <1>11, <3>1
    <3>2. CASE v # c /\ w # c
      BY <1>3, <3>2 DEF OwnInv, OneOwner
    <3> QED BY <3>1, <3>2
  <2> QED BY <1>1, <2>1, <2>2 DEF OwnInv, OneOwner
<1>13. AnsweredIsGone'
  <2>1. \A k \in DOMAIN replies : IsRet(replies[k]) => replies[k].urb # u
    BY <1>6, <1>8 DEF OwnInv, Known
  <2>2. \A k \in DOMAIN replies : IsRet(replies[k]) =>
          \A v \in Threads : \A i \in DOMAIN hand'[v] : hand'[v][i] # replies[k].urb
    BY <1>3, <2>1 DEF OwnInv, AnsweredIsGone
  <2> QED BY <1>1, <2>2 DEF OwnInv, AnsweredIsGone
<1>14. AtMostOnce'
  BY <1>1 DEF OwnInv, AtMostOnce
<1> QED BY <1>9, <1>12, <1>13, <1>14 DEF OwnInv

\* Parking hands the URB over to the list -- which loses its older nodes when pend_tail
\* is NULL, and then owns fewer.
LEMMA ParkKeepsOwn ==
  ASSUME TypeInv, OwnInv, NEW c \in Conns, Dispatch_Park(c)
  PROVE  OwnInv'
<1> DEFINE u == hand[c][1]
<1>1. /\ c \in Threads
      /\ Len(hand[c]) = 1
      /\ hand' = [hand EXCEPT ![c] = <<>>]
      /\ pend' = Append(pend, u) \/ pend' = <<u>>
      /\ UNCHANGED <<submitted, replies>>
  BY DEF Dispatch_Park, TypeInv, HandShape, Threads, hostvars
<1>2. hand \in [Threads -> Seq(Urbs)] /\ pend \in Seq(Urbs)
  BY DEF TypeInv, TypeOK
<1>3. 1 \in DOMAIN hand[c]
  BY <1>1, <1>2
<1>4. DOMAIN hand'[c] = {} /\ \A v \in Threads \ {c} : hand'[v] = hand[v]
  BY <1>1, <1>2
<1>5. \A v \in Threads : \A i \in DOMAIN hand'[v] :
        i \in DOMAIN hand[v] /\ hand'[v][i] = hand[v][i] /\ hand'[v][i] # u
  <2> SUFFICES ASSUME NEW v \in Threads, NEW i \in DOMAIN hand'[v]
               PROVE  i \in DOMAIN hand[v] /\ hand'[v][i] = hand[v][i] /\ hand'[v][i] # u
    OBVIOUS
  <2>1. v # c
    BY <1>4
  <2>2. i \in DOMAIN hand[v] /\ hand'[v][i] = hand[v][i]
    BY <1>4, <2>1
  <2> QED BY <1>1, <1>3, <2>1, <2>2 DEF OwnInv, OneOwner
<1>6. \A i \in DOMAIN pend : pend[i] # u
  BY <1>1, <1>3 DEF OwnInv, OneOwner
<1>7. u.seq <= submitted[u.conn]
  BY <1>1, <1>3 DEF OwnInv, Known
<1>8. \A k \in DOMAIN replies : IsRet(replies[k]) => replies[k].urb # u
  BY <1>1, <1>3 DEF OwnInv, AnsweredIsGone
<1> HIDE DEF u
<1>9. \A i \in DOMAIN pend' : pend'[i] = u \/ (i \in DOMAIN pend /\ pend'[i] = pend[i])
  <2>1. CASE pend' = Append(pend, u)
    BY <1>2, <2>1
  <2>2. CASE pend' = <<u>>
    BY <2>2
  <2> QED BY <1>1, <2>1, <2>2
<1>10. \A i, j \in DOMAIN pend' : pend'[i] = u /\ pend'[j] = u => i = j
  <2>1. CASE pend' = Append(pend, u)
    BY <1>2, <1>6, <2>1
  <2>2. CASE pend' = <<u>>
    BY <2>2
  <2> QED BY <1>1, <2>1, <2>2
<1>11. Known'
  BY <1>1, <1>5, <1>7, <1>9 DEF OwnInv, Known
<1>12. OneOwner'
  <2>1. \A i, j \in DOMAIN pend' : pend'[i] = pend'[j] => i = j
    BY <1>6, <1>9, <1>10 DEF OwnInv, OneOwner
  <2>2. \A v \in Threads : \A i \in DOMAIN pend', j \in DOMAIN hand'[v] :
          pend'[i] # hand'[v][j]
    BY <1>5, <1>9 DEF OwnInv, OneOwner
  <2>3. \A v, w \in Threads : \A i \in DOMAIN hand'[v], j \in DOMAIN hand'[w] :
          hand'[v][i] = hand'[w][j] => v = w /\ i = j
    BY <1>5 DEF OwnInv, OneOwner
  <2> QED BY <2>1, <2>2, <2>3 DEF OneOwner
<1>13. AnsweredIsGone'
  BY <1>1, <1>5, <1>8, <1>9 DEF OwnInv, AnsweredIsGone
<1>14. AtMostOnce'
  BY <1>1 DEF OwnInv, AtMostOnce
<1> QED BY <1>11, <1>12, <1>13, <1>14 DEF OwnInv

\* Unlinking only takes nodes out of the list.
LEMMA UnlinkKeepsOwn ==
  ASSUME TypeInv, OwnInv, NEW c \in Conns, NEW s \in 1..MaxSeq, Unlink(c, s)
  PROVE  OwnInv'
<1> DEFINE kept == {i \in DOMAIN pend : pend[i].seq # s}
<1>1. pend' \in Keeping(pend, kept) /\ UNCHANGED <<hand, submitted, replies>>
  BY DEF Unlink, hostvars
<1>2. pend \in Seq(Urbs) /\ kept \in SUBSET (DOMAIN pend)
  BY DEF TypeInv, TypeOK
<1> HIDE DEF kept
<1>3. PICK f \in [DOMAIN pend' -> kept] :
        /\ \A k \in DOMAIN pend' : pend'[k] = pend[f[k]]
        /\ \A i, j \in DOMAIN pend' : f[i] = f[j] => i = j
  BY <1>1, <1>2, KeepingSublist
<1>4. \A k \in DOMAIN pend' : f[k] \in DOMAIN pend /\ pend'[k] = pend[f[k]]
  BY <1>2, <1>3
<1>5. Known'
  BY <1>1, <1>4 DEF OwnInv, Known
<1>6. OneOwner'
  <2>1. \A i, j \in DOMAIN pend' : pend'[i] = pend'[j] => i = j
    BY <1>3, <1>4 DEF OwnInv, OneOwner
  <2> QED BY <1>1, <1>4, <2>1 DEF OwnInv, OneOwner
<1>7. AnsweredIsGone'
  BY <1>1, <1>4 DEF OwnInv, AnsweredIsGone
<1>8. AtMostOnce'
  BY <1>1 DEF OwnInv, AtMostOnce
<1> QED BY <1>5, <1>6, <1>7, <1>8 DEF OwnInv

\* RET_UNLINK answers no URB.
LEMMA UnlinkReplyKeepsOwn ==
  ASSUME TypeInv, OwnInv, NEW c \in Conns, Unlink_Reply(c)
  PROVE  OwnInv'
<1>1. UNCHANGED <<pend, hand, submitted>>
  BY DEF Unlink_Reply, epvars, hostvars
<1>2. PICK to : replies' = Append(replies, [to |-> to, urb |-> [conn |-> c, seq |-> unlinking[c]],
                                            status |-> "unlink", data |-> <<>>])
  BY DEF Unlink_Reply, Send
<1> DEFINE r == [to |-> to, urb |-> [conn |-> c, seq |-> unlinking[c]],
                 status |-> "unlink", data |-> <<>>]
<1>3. ~IsRet(r)
  BY DEF IsRet
<1>4. replies' = Append(replies, r) /\ replies \in Seq(Replies)
  BY <1>2 DEF TypeInv, TypeOK
<1> HIDE DEF r
<1>5. \A k \in DOMAIN replies' :
        IsRet(replies'[k]) => k \in DOMAIN replies /\ replies'[k] = replies[k]
  BY <1>3, <1>4
<1>6. Known'
  BY <1>1, <1>5 DEF OwnInv, Known
<1>7. OneOwner'
  BY <1>1 DEF OwnInv, OneOwner
<1>8. AnsweredIsGone'
  BY <1>1, <1>5 DEF OwnInv, AnsweredIsGone
<1>9. AtMostOnce'
  BY <1>5 DEF OwnInv, AtMostOnce
<1> QED BY <1>6, <1>7, <1>8, <1>9 DEF OwnInv

\* A writer takes the head of the parked list into its hands.
LEMMA FeedKeepsOwn ==
  ASSUME TypeInv, OwnInv, NEW t \in Threads, DeviceWrite_Feed(t)
  PROVE  OwnInv'
<1> DEFINE u == Head(pend)
<1>1. /\ hand[t] = <<>>
      /\ hand' = [hand EXCEPT ![t] = <<u>>]
      /\ pend # <<>>
      /\ pend' = Tail(pend)
      /\ UNCHANGED <<submitted, replies>>
  BY DEF DeviceWrite_Feed, PopPend, TypeInv, HandShape, hostvars
<1>2. hand \in [Threads -> Seq(Urbs)] /\ pend \in Seq(Urbs)
  BY DEF TypeInv, TypeOK
<1>3. 1 \in DOMAIN pend /\ u = pend[1]
  BY <1>1, <1>2
<1> HIDE DEF u
<1>4. \A i \in DOMAIN pend' : i \in Nat /\ i >= 1 /\ i + 1 \in DOMAIN pend /\ pend'[i] = pend[i + 1]
  BY <1>1, <1>2
<1>5. /\ DOMAIN hand'[t] = {1}
      /\ hand'[t][1] = u
      /\ \A v \in Threads \ {t} : hand'[v] = hand[v]
  BY <1>1, <1>2
<1>6. \A i \in DOMAIN pend' : pend'[i] # u
  <2> SUFFICES ASSUME NEW i \in DOMAIN pend', pend[i + 1] = pend[1] PROVE FALSE
    BY <1>3, <1>4
  <2>1. i + 1 = 1
    BY <1>3, <1>4 DEF OwnInv, OneOwner
  <2> QED BY <1>4, <2>1
<1>7. \A v \in Threads : \A i \in DOMAIN hand[v] : hand[v][i] # u
  BY <1>3 DEF OwnInv, OneOwner
<1>8. Known'
  <2>1. \A v \in Threads : \A i \in DOMAIN hand'[v] :
          hand'[v][i].seq <= submitted[hand'[v][i].conn]
    BY <1>3, <1>5 DEF OwnInv, Known
  <2> QED BY <1>1, <1>4, <2>1 DEF OwnInv, Known
<1>9. OneOwner'
  <2>1. \A i, j \in DOMAIN pend' : pend'[i] = pend'[j] => i = j
    <3> SUFFICES ASSUME NEW i \in DOMAIN pend', NEW j \in DOMAIN pend', pend'[i] = pend'[j]
                 PROVE  i = j
      OBVIOUS
    <3>1. i + 1 = j + 1
      BY <1>4 DEF OwnInv, OneOwner
    <3> QED BY <1>4, <3>1
  <2>2. \A v \in Threads : \A i \in DOMAIN pend', j \in DOMAIN hand'[v] :
          pend'[i] # hand'[v][j]
    BY <1>4, <1>5, <1>6 DEF OwnInv, OneOwner
  <2>3. \A v, w \in Threads : \A i \in DOMAIN hand'[v], j \in DOMAIN hand'[w] :
          hand'[v][i] = hand'[w][j] => v = w /\ i = j
    BY <1>5, <1>7 DEF OwnInv, OneOwner
  <2> QED BY <2>1, <2>2, <2>3 DEF OneOwner
<1>10. AnsweredIsGone'
  <2>1. \A k \in DOMAIN replies : IsRet(replies[k]) =>
          \A v \in Threads : \A i \in DOMAIN hand'[v] : hand'[v][i] # replies[k].urb
    BY <1>3, <1>5 DEF OwnInv, AnsweredIsGone
  <2> QED BY <1>1, <1>4, <2>1 DEF OwnInv, AnsweredIsGone
<1>11. AtMostOnce'
  BY <1>1 DEF OwnInv, AtMostOnce
<1> QED BY <1>8, <1>9, <1>10, <1>11 DEF OwnInv

\* A thread that halts the endpoint takes the whole parked list.
LEMMA StallKeepsOwn ==
  ASSUME TypeInv, OwnInv, NEW t \in Threads, EpStall(t)
  PROVE  OwnInv'
<1>1. /\ hand[t] = <<>>
      /\ hand' = [hand EXCEPT ![t] = pend]
      /\ pend' = <<>>
      /\ UNCHANGED <<submitted, replies>>
  BY DEF EpStall, DetachPend, Free, TypeInv, HandShape, hostvars
<1>2. hand \in [Threads -> Seq(Urbs)]
  BY DEF TypeInv, TypeOK
<1>3. hand'[t] = pend /\ DOMAIN pend' = {} /\ \A v \in Threads \ {t} : hand'[v] = hand[v]
  BY <1>1, <1>2
<1>4. Known'
  BY <1>1, <1>3 DEF OwnInv, Known
<1>5. OneOwner'
  <2>1. \A v, w \in Threads : \A i \in DOMAIN hand'[v], j \in DOMAIN hand'[w] :
          hand'[v][i] = hand'[w][j] => v = w /\ i = j
    BY <1>3 DEF OwnInv, OneOwner
  <2> QED BY <1>3, <2>1 DEF OneOwner
<1>6. AnsweredIsGone'
  BY <1>1, <1>3 DEF OwnInv, AnsweredIsGone
<1>7. AtMostOnce'
  BY <1>1 DEF OwnInv, AtMostOnce
<1> QED BY <1>4, <1>5, <1>6, <1>7 DEF OwnInv

LEMMA OwnNext == TypeInv /\ OwnInv /\ [Next]_vars => OwnInv'
<1> SUFFICES ASSUME TypeInv, OwnInv, [Next]_vars PROVE OwnInv'
  OBVIOUS
<1> USE DEF Goto, epvars, hostvars, threadvars
<1>1. CASE UNCHANGED vars
  BY <1>1, IdleKeepsOwn DEF vars
<1>2. ASSUME NEW c \in Conns, Connect(c) \/ Close(c) \/ EpClearHalt(c) \/ Dispatch_Slice(c)
      PROVE  OwnInv'
  BY <1>2, IdleKeepsOwn DEF Connect, Close, EpClearHalt, Dispatch_Slice
<1>3. ASSUME NEW c \in Conns, Dispatch_Reply(c)
      PROVE  OwnInv'
  <2>1. c \in Threads /\ Len(hand[c]) = 1 /\ hand[c] \in Seq(Urbs) /\ data[c] \in Seq(Nat)
    BY <1>3 DEF Dispatch_Reply, TypeInv, HandShape, TypeOK, Threads
  <2>2. hand[c] # <<>> /\ Tail(hand[c]) = <<>>
    BY <2>1, SingletonTail
  <2> DEFINE st == IF pc[c] = "reply" THEN "ok" ELSE "stall"
  <2>3. st \in {"ok", "stall"}
    OBVIOUS
  <2>4. Send(hand[c][1], st, data[c])
    BY <1>3 DEF Dispatch_Reply
  <2>5. hand' = [hand EXCEPT ![c] = Tail(hand[c])] /\ UNCHANGED <<pend, submitted>>
    BY <1>3, <2>2 DEF Dispatch_Reply
  <2> HIDE DEF st
  <2> QED BY <2>1, <2>2, <2>3, <2>4, <2>5, SendKeepsOwn
<1>4. ASSUME NEW t \in Threads, DeviceWrite_Send(t)
      PROVE  OwnInv'
  <2>1. Len(hand[t]) = 1 /\ hand[t] \in Seq(Urbs) /\ data[t] \in Seq(Nat)
    BY <1>4 DEF DeviceWrite_Send, TypeInv, HandShape, TypeOK
  <2>2. hand[t] # <<>> /\ Tail(hand[t]) = <<>>
    BY <2>1, SingletonTail
  <2>3. Send(hand[t][1], "ok", data[t])
    BY <1>4 DEF DeviceWrite_Send
  <2>4. hand' = [hand EXCEPT ![t] = Tail(hand[t])] /\ UNCHANGED <<pend, submitted>>
    BY <1>4, <2>2 DEF DeviceWrite_Send
  <2> QED BY <2>1, <2>2, <2>3, <2>4, SendKeepsOwn
<1>5. ASSUME NEW t \in Threads, EpStall_Send(t)
      PROVE  OwnInv'
  <2>1. hand[t] # <<>> /\ hand[t] \in Seq(Urbs) /\ <<>> \in Seq(Nat)
    BY <1>5 DEF EpStall_Send, TypeInv, HandShape, TypeOK
  <2>2. Head(hand[t]) = hand[t][1]
    BY <2>1
  <2>3. Send(hand[t][1], "stall", <<>>)
    BY <1>5, <2>2 DEF EpStall_Send
  <2>4. hand' = [hand EXCEPT ![t] = Tail(hand[t])] /\ UNCHANGED <<pend, submitted>>
    BY <1>5 DEF EpStall_Send
  <2> QED BY <2>1, <2>3, <2>4, SendKeepsOwn
<1>6. ASSUME NEW t \in Threads, DeviceWrite_Queue(t) \/ \E n \in 1..MaxBytes : DeviceWrite(t, n)
      PROVE  OwnInv'
  BY <1>6, IdleKeepsOwn DEF DeviceWrite_Queue, DeviceWrite
<1> QED
  BY <1>1, <1>2, <1>3, <1>4, <1>5, <1>6, ArriveKeepsOwn, ParkKeepsOwn, UnlinkKeepsOwn,
     UnlinkReplyKeepsOwn, FeedKeepsOwn, StallKeepsOwn
     DEF Next, ServeStep, CallStep

LEMMA OwnInvariant == Spec => []OwnInv
<1>1. Init => TypeInv /\ OwnInv
  BY TypeInit, OwnInit
<1>2. (TypeInv /\ OwnInv) /\ [Next]_vars => (TypeInv /\ OwnInv)'
  BY TypeNext, OwnNext
<1> QED BY <1>1, <1>2, PTL DEF Spec

\* Whatever the interleaving of dispatch, writes, halts, unlinks and disconnects, a
\* parked node has one owner: none is freed or answered by two threads.
THEOREM OneOwnerHolds == Spec => []OneOwner
<1>1. OwnInv => OneOwner
  BY DEF OwnInv
<1> QED BY <1>1, OwnInvariant, PTL

\* The host gets at most one RET_SUBMIT for each URB.
THEOREM AtMostOnceHolds == Spec => []AtMostOnce
<1>1. OwnInv => AtMostOnce
  BY DEF OwnInv
<1> QED BY <1>1, OwnInvariant, PTL
-----------------------------------------------------------------------------
(* No URB falls off the parked list                                        *)

\* The tail pointer is NULL exactly when nothing is parked.  An unlink of the last node
\* breaks this (usbip_device_handle_unlink leaves the other nodes behind a NULL tail).
TailAgrees == pend_tail = <<>> <=> pend = <<>>

\* A URB that some thread or some list is responsible for.
Tracked(u) == Answered(u) \/ Parked(u) \/ Held(u) \/ Unlinked(u)

LEMMA TailInit == Init => TailAgrees
BY DEF Init, TailAgrees

LEMMA TailNext ==
  ASSUME Cancellers = {}, TypeInv, TailAgrees, [Next]_vars
  PROVE  TailAgrees'
<1> USE DEF TailAgrees, Goto, epvars, hostvars, threadvars
<1>0. pend \in Seq(Urbs) /\ pend_tail \in Seq(Urbs)
  BY DEF TypeInv, TypeOK
<1>1. CASE UNCHANGED vars
  BY <1>1 DEF vars
<1>2. ASSUME NEW c \in Conns,
             \/ Connect(c) \/ Close(c) \/ EpClearHalt(c) \/ Dispatch_Reply(c)
             \/ Unlink_Reply(c) \/ Dispatch_Slice(c)
      PROVE  TailAgrees'
  BY <1>2 DEF Connect, Close, EpClearHalt, Dispatch_Reply, Unlink_Reply, Dispatch_Slice
<1>3. ASSUME NEW c \in Conns, NEW l \in Lengths, Dispatch_HaltCheck(c, l)
      PROVE  TailAgrees'
  BY <1>3 DEF Dispatch_HaltCheck
<1>4. ASSUME NEW c \in Conns, Dispatch_Park(c)
      PROVE  TailAgrees'
  <2>1. pend' = Append(pend, hand[c][1]) \/ pend' = <<hand[c][1]>>
    BY <1>4 DEF Dispatch_Park
  <2>2. c \in Threads /\ hand[c][1] \in Urbs
    BY <1>4 DEF Dispatch_Park, Threads, TypeInv, TypeOK, HandShape
  <2>3. pend' # <<>>
    <3>1. CASE pend' = Append(pend, hand[c][1])
      <4>1. Len(pend') = Len(pend) + 1 /\ Len(pend) \in Nat
        BY <1>0, <2>2, <3>1, AppendProperties
      <4> QED BY <4>1
    <3>2. CASE pend' = <<hand[c][1]>>
      BY <3>2
    <3> QED BY <2>1, <3>1, <3>2
  <2>4. pend_tail' = <<hand[c][1]>>
    BY <1>4 DEF Dispatch_Park
  <2> QED BY <2>3, <2>4
<1>5. ASSUME NEW c \in Conns, NEW s \in 1..MaxSeq, Unlink(c, s)
      PROVE  TailAgrees'
  BY <1>5 DEF Unlink
<1>6. ASSUME NEW t \in Threads,
             \/ DeviceWrite_Send(t) \/ EpStall_Send(t) \/ DeviceWrite_Queue(t)
             \/ \E n \in 1..MaxBytes : DeviceWrite(t, n)
      PROVE  TailAgrees'
  BY <1>6 DEF DeviceWrite_Send, EpStall_Send, DeviceWrite, DeviceWrite_Queue
<1>7. ASSUME NEW t \in Threads, EpStall(t)
      PROVE  TailAgrees'
  BY <1>7 DEF EpStall, DetachPend
<1>8. ASSUME NEW t \in Threads, DeviceWrite_Feed(t)
      PROVE  TailAgrees'
  BY <1>8 DEF DeviceWrite_Feed, PopPend
<1> QED BY <1>1, <1>2, <1>3, <1>4, <1>5, <1>6, <1>7, <1>8 DEF Next, ServeStep, CallStep

\* A reply sent is never taken back, and a RET_SUBMIT answers its URB.
LEMMA SendTracks ==
  ASSUME TypeInv, NEW v, NEW st, NEW b, Send(v, st, b), NEW u
  PROVE  /\ Answered(u) => Answered(u)'
         /\ (\E i \in DOMAIN replies : ~IsRet(replies[i]) /\ replies[i].urb = u)
              => \E i \in DOMAIN replies' : ~IsRet(replies'[i]) /\ replies'[i].urb = u
         /\ st # "unlink" => Answered(v)'
         /\ st = "unlink" => \E i \in DOMAIN replies' : ~IsRet(replies'[i]) /\ replies'[i].urb = v
<1>1. PICK to : replies' = Append(replies, [to |-> to, urb |-> v, status |-> st, data |-> b])
  BY DEF Send
<1> DEFINE r == [to |-> to, urb |-> v, status |-> st, data |-> b]
<1>2. r.urb = v /\ r.status = st
  OBVIOUS
<1>3. replies' = Append(replies, r) /\ replies \in Seq(Replies)
  BY <1>1 DEF TypeInv, TypeOK
<1> HIDE DEF r
<1>4. /\ \A k \in DOMAIN replies : k \in DOMAIN replies' /\ replies'[k] = replies[k]
      /\ Len(replies) + 1 \in DOMAIN replies' /\ replies'[Len(replies) + 1] = r
  BY <1>3
<1>5. Answered(u) => Answered(u)'
  BY <1>4 DEF Answered, IsRet
<1>6. st # "unlink" => Answered(v)'
  BY <1>2, <1>4 DEF Answered, IsRet
<1>7. st = "unlink" => \E i \in DOMAIN replies' : ~IsRet(replies'[i]) /\ replies'[i].urb = v
  BY <1>2, <1>4 DEF IsRet
<1>8. (\E i \in DOMAIN replies : ~IsRet(replies[i]) /\ replies[i].urb = u)
        => \E i \in DOMAIN replies' : ~IsRet(replies'[i]) /\ replies'[i].urb = u
  BY <1>4 DEF IsRet
<1> QED BY <1>5, <1>6, <1>7, <1>8

\* A thread that answers the first URB in its hands loses no other.
LEMMA AnswerTracks ==
  ASSUME TypeInv, NEW t \in Threads, hand[t] # <<>>, NEW st, st # "unlink", NEW b,
         Send(hand[t][1], st, b),
         hand' = [hand EXCEPT ![t] = Tail(hand[t])],
         UNCHANGED <<pend, unlinking>>,
         NEW u \in Urbs, Tracked(u)
  PROVE  Tracked(u)'
<1>1. hand \in [Threads -> Seq(Urbs)] /\ hand[t] \in Seq(Urbs)
  BY DEF TypeInv, TypeOK
<1>2. CASE Answered(u)
  BY <1>2, SendTracks DEF Tracked
<1>3. CASE Parked(u)
  BY <1>3 DEF Tracked, Parked
<1>4. CASE Unlinked(u)
  BY <1>4, SendTracks DEF Tracked, Unlinked
<1>5. CASE Held(u)
  <2>1a. PICK v \in Threads : \E i \in DOMAIN hand[v] : hand[v][i] = u
    BY <1>5 DEF Held
  <2>1. PICK i \in DOMAIN hand[v] : hand[v][i] = u
    BY <2>1a
  <2>2. CASE v # t
    <3>1. hand'[v] = hand[v]
      BY <1>1, <2>2
    <3> QED BY <2>1, <3>1 DEF Tracked, Held
  <2>3. CASE v = t /\ i = 1
    BY <2>1, <2>3, SendTracks DEF Tracked
  <2>4. CASE v = t /\ i # 1
    <3>1. i - 1 \in DOMAIN hand'[t] /\ hand'[t][i - 1] = hand[t][i]
      BY <1>1, <2>1, <2>4
    <3> QED BY <2>1, <2>4, <3>1 DEF Tracked, Held
  <2> QED BY <2>2, <2>3, <2>4
<1> QED BY <1>2, <1>3, <1>4, <1>5 DEF Tracked

\* A URB that leaves the parked list goes into a thread's hands.
LEMMA TakeTracks ==
  ASSUME TypeInv, NEW t \in Threads, hand[t] = <<>>,
         DeviceWrite_Feed(t) \/ EpStall(t),
         NEW u \in Urbs, Tracked(u)
  PROVE  Tracked(u)'
<1> USE DEF epvars, hostvars, threadvars, Goto
<1>0. hand \in [Threads -> Seq(Urbs)] /\ pend \in Seq(Urbs)
  BY DEF TypeInv, TypeOK
<1>1. UNCHANGED <<replies, unlinking>>
  BY DEF DeviceWrite_Feed, EpStall
<1>2. (Answered(u) => Answered(u)') /\ (Unlinked(u) => Unlinked(u)')
  BY <1>1 DEF Answered, Unlinked, IsRet
<1>3. Held(u) => Held(u)'
  <2> SUFFICES ASSUME Held(u) PROVE Held(u)'
    OBVIOUS
  <2>1a. PICK v \in Threads : \E i \in DOMAIN hand[v] : hand[v][i] = u
    BY DEF Held
  <2>1. PICK i \in DOMAIN hand[v] : hand[v][i] = u
    BY <2>1a
  <2>2. v # t
    BY <2>1
  <2>3. hand'[v] = hand[v]
    BY <1>0, <2>2 DEF DeviceWrite_Feed, EpStall, DetachPend
  <2> QED BY <2>1, <2>3 DEF Held
<1>4. Parked(u) => Parked(u)' \/ Held(u)'
  <2> SUFFICES ASSUME Parked(u) PROVE Parked(u)' \/ Held(u)'
    OBVIOUS
  <2>1. PICK i \in DOMAIN pend : pend[i] = u
    BY DEF Parked
  <2>2. CASE EpStall(t)
    <3>1. hand'[t] = pend
      BY <1>0, <2>2 DEF EpStall, DetachPend
    <3> QED BY <2>1, <3>1 DEF Held
  <2>3. CASE DeviceWrite_Feed(t)
    <3>1. hand'[t] = <<Head(pend)>> /\ pend' = Tail(pend)
      BY <1>0, <2>3 DEF DeviceWrite_Feed, PopPend
    <3>2. CASE i = 1
      <4>1. 1 \in DOMAIN hand'[t] /\ hand'[t][1] = u
        BY <1>0, <2>1, <3>1, <3>2
      <4> QED BY <4>1 DEF Held
    <3>3. CASE i # 1
      <4>1. i - 1 \in DOMAIN pend' /\ pend'[i - 1] = pend[i]
        BY <1>0, <2>1, <3>1, <3>3
      <4> QED BY <2>1, <4>1 DEF Parked
    <3> QED BY <3>2, <3>3
  <2> QED BY <2>2, <2>3
<1> QED BY <1>2, <1>3, <1>4 DEF Tracked

\* Parking appends to the list, and so keeps what is on it.
LEMMA ParkTracks ==
  ASSUME TypeInv, TailAgrees, NEW c \in Conns, Dispatch_Park(c),
         NEW u \in Urbs, Tracked(u)
  PROVE  Tracked(u)'
<1> USE DEF epvars, hostvars, threadvars, Goto
<1>1. /\ c \in Threads
      /\ hand \in [Threads -> Seq(Urbs)] /\ pend \in Seq(Urbs) /\ pend_tail \in Seq(Urbs)
      /\ Len(hand[c]) = 1
  BY DEF Dispatch_Park, TypeInv, TypeOK, HandShape, Threads
<1>2. hand[c][1] \in Urbs
  <2>1. hand[c] \in Seq(Urbs) /\ 1 \in 1..Len(hand[c])
    BY <1>1
  <2> QED BY <2>1, ElementOfSeq
<1>3. pend' = Append(pend, hand[c][1])
  <2>1. CASE pend_tail # <<>>
    BY <2>1 DEF Dispatch_Park
  <2>2. CASE pend_tail = <<>>
    <3>1. pend = <<>> /\ pend' = <<hand[c][1]>>
      BY <2>2 DEF Dispatch_Park, TailAgrees
    <3> QED BY <1>2, <3>1
  <2> QED BY <2>1, <2>2
<1>4. /\ \A i \in DOMAIN pend : i \in DOMAIN pend' /\ pend'[i] = pend[i]
      /\ Len(pend) + 1 \in DOMAIN pend' /\ pend'[Len(pend) + 1] = hand[c][1]
  BY <1>1, <1>2, <1>3
<1>5. \A v \in Threads \ {c} : hand'[v] = hand[v]
  BY <1>1 DEF Dispatch_Park
<1>6. UNCHANGED <<replies, unlinking>>
  BY DEF Dispatch_Park
<1>7. (Answered(u) => Answered(u)') /\ (Unlinked(u) => Unlinked(u)')
  BY <1>6 DEF Answered, Unlinked, IsRet
<1>8. Parked(u) => Parked(u)'
  BY <1>4 DEF Parked
<1>9. Held(u) => Held(u)' \/ Parked(u)'
  <2> SUFFICES ASSUME Held(u) PROVE Held(u)' \/ Parked(u)'
    OBVIOUS
  <2>1a. PICK v \in Threads : \E i \in DOMAIN hand[v] : hand[v][i] = u
    BY DEF Held
  <2>1. PICK i \in DOMAIN hand[v] : hand[v][i] = u
    BY <2>1a
  <2>2. CASE v # c
    BY <1>5, <2>1, <2>2 DEF Held
  <2>3. CASE v = c
    <3>1. i = 1
      BY <1>1, <2>1, <2>3
    <3> QED BY <1>4, <2>1, <2>3, <3>1 DEF Parked
  <2> QED BY <2>2, <2>3
<1> QED BY <1>7, <1>8, <1>9 DEF Tracked

\* An arriving URB is in the hands of its serve thread, which held nothing.
LEMMA ArriveTracks ==
  ASSUME TypeInv, NoUrbForgotten, NEW c \in Conns, NEW l \in Lengths, Dispatch_HaltCheck(c, l)
  PROVE  NoUrbForgotten'
<1> USE DEF epvars, hostvars, threadvars, Goto
<1>1. /\ c \in Threads
      /\ hand \in [Threads -> Seq(Urbs)]
      /\ submitted \in [Conns -> 0..MaxSeq]
      /\ hand[c] = <<>>
      /\ submitted' = [submitted EXCEPT ![c] = @ + 1]
      /\ hand' = [hand EXCEPT ![c] = <<Arrived(c)>>]
      /\ UNCHANGED <<pend, replies, unlinking>>
  BY DEF Dispatch_HaltCheck, Free, TypeInv, TypeOK, HandShape, Threads
<1>2. SUFFICES ASSUME NEW u \in Urbs, u.seq <= submitted'[u.conn] PROVE Tracked(u)'
  BY DEF NoUrbForgotten, Tracked
<1>3. u.conn \in Conns /\ u.seq \in 1..MaxSeq /\ u = [conn |-> u.conn, seq |-> u.seq] /\ MaxSeq \in Nat
  BY BoundAssumption DEF Urbs
<1>4. CASE u.seq <= submitted[u.conn]
  <2>1. Tracked(u)
    BY <1>4 DEF NoUrbForgotten, Tracked
  <2>2. (Answered(u) => Answered(u)') /\ (Unlinked(u) => Unlinked(u)') /\ (Parked(u) => Parked(u)')
    BY <1>1 DEF Answered, Unlinked, Parked, IsRet
  <2>3. Held(u) => Held(u)'
    <3> SUFFICES ASSUME Held(u) PROVE Held(u)'
      OBVIOUS
    <3>1a. PICK v \in Threads : \E i \in DOMAIN hand[v] : hand[v][i] = u
      BY DEF Held
    <3>1. PICK i \in DOMAIN hand[v] : hand[v][i] = u
      BY <3>1a
    <3>2. v # c
      BY <1>1, <3>1
    <3>3. hand'[v] = hand[v]
      BY <1>1, <3>2
    <3> QED BY <3>1, <3>3 DEF Held
  <2> QED BY <2>1, <2>2, <2>3 DEF Tracked
<1>5. CASE ~(u.seq <= submitted[u.conn])
  <2>1. u.conn = c /\ u.seq = submitted[c] + 1
    <3>1. submitted[u.conn] \in Nat /\ submitted[c] \in Nat
      BY <1>1, <1>3
    <3>2. u.conn = c
      BY <1>1, <1>2, <1>3, <1>5
    <3> QED BY <1>1, <1>2, <1>3, <1>5, <3>1, <3>2
  <2>2. u = Arrived(c)
    BY <1>3, <2>1 DEF Arrived
  <2>3. 1 \in DOMAIN hand'[c] /\ hand'[c][1] = u
    BY <1>1, <2>2
  <2> QED BY <1>1, <2>3 DEF Tracked, Held
<1> QED BY <1>4, <1>5

LEMMA ForgottenNext ==
  ASSUME Cancellers = {}, TypeInv, TailAgrees, NoUrbForgotten, [Next]_vars
  PROVE  NoUrbForgotten'
<1> USE DEF epvars, hostvars, threadvars, Goto
<1>0. ASSUME UNCHANGED submitted, \A u \in Urbs : Tracked(u) => Tracked(u)'
      PROVE  NoUrbForgotten'
  BY <1>0 DEF NoUrbForgotten, Tracked
<1>a. ASSUME UNCHANGED <<pend, hand, submitted, replies, unlinking>>
      PROVE  NoUrbForgotten'
  BY <1>a DEF NoUrbForgotten, Answered, Parked, Held, Unlinked, IsRet
<1>1. CASE UNCHANGED vars
  BY <1>1, <1>a DEF vars
<1>2. ASSUME NEW c \in Conns,
             Connect(c) \/ Close(c) \/ EpClearHalt(c) \/ Dispatch_Slice(c)
      PROVE  NoUrbForgotten'
  BY <1>2, <1>a DEF Connect, Close, EpClearHalt, Dispatch_Slice
<1>3. ASSUME NEW c \in Conns, NEW l \in Lengths, Dispatch_HaltCheck(c, l)
      PROVE  NoUrbForgotten'
  BY <1>3, ArriveTracks
<1>4. ASSUME NEW c \in Conns, Dispatch_Park(c)
      PROVE  NoUrbForgotten'
  <2>1. UNCHANGED submitted
    BY <1>4 DEF Dispatch_Park
  <2> QED BY <1>0, <1>4, <2>1, ParkTracks
<1>5. ASSUME NEW c \in Conns, Dispatch_Reply(c)
      PROVE  NoUrbForgotten'
  <2>1. c \in Threads /\ Len(hand[c]) = 1 /\ hand[c] \in Seq(Urbs)
    BY <1>5 DEF Dispatch_Reply, TypeInv, HandShape, TypeOK, Threads
  <2>2. hand[c] # <<>> /\ Tail(hand[c]) = <<>>
    BY <2>1, SingletonTail
  <2> DEFINE st == IF pc[c] = "reply" THEN "ok" ELSE "stall"
  <2>3. st # "unlink"
    OBVIOUS
  <2>4. Send(hand[c][1], st, data[c]) /\ UNCHANGED <<submitted, pend, unlinking>>
    BY <1>5 DEF Dispatch_Reply
  <2>5. hand' = [hand EXCEPT ![c] = Tail(hand[c])]
    BY <1>5, <2>2 DEF Dispatch_Reply
  <2> HIDE DEF st
  <2>6. \A u \in Urbs : Tracked(u) => Tracked(u)'
    BY <2>1, <2>2, <2>3, <2>4, <2>5, AnswerTracks
  <2> QED BY <1>0, <2>4, <2>6
<1>6. ASSUME NEW c \in Conns, Unlink_Reply(c)
      PROVE  NoUrbForgotten'
  <2> DEFINE v == [conn |-> c, seq |-> unlinking[c]]
  <2>1. Send(v, "unlink", <<>>) /\ UNCHANGED <<submitted, pend, hand>>
    BY <1>6 DEF Unlink_Reply
  <2>2. unlinking' = [unlinking EXCEPT ![c] = 0] /\ unlinking \in [Conns -> 0..MaxSeq]
    BY <1>6 DEF Unlink_Reply, TypeInv, TypeOK
  <2>3. ASSUME NEW u \in Urbs, Unlinked(u) PROVE Unlinked(u)'
    <3>1. CASE \E i \in DOMAIN replies : ~IsRet(replies[i]) /\ replies[i].urb = u
      BY <2>1, <3>1, SendTracks DEF Unlinked
    <3>2. CASE unlinking[u.conn] = u.seq /\ u.conn # c
      <4>1. unlinking'[u.conn] = unlinking[u.conn]
        BY <2>2, <3>2 DEF Urbs
      <4> QED BY <3>2, <4>1 DEF Unlinked
    <3>3. CASE unlinking[u.conn] = u.seq /\ u.conn = c
      <4>1. u = v
        BY <3>3 DEF Urbs
      <4> QED BY <2>1, <4>1, SendTracks DEF Unlinked
    <3> QED BY <2>3, <3>1, <3>2, <3>3 DEF Unlinked
  <2>4. ASSUME NEW u \in Urbs PROVE Answered(u) => Answered(u)'
    BY <2>1, SendTracks
  <2>5. ASSUME NEW u \in Urbs PROVE (Parked(u) => Parked(u)') /\ (Held(u) => Held(u)')
    BY <2>1 DEF Parked, Held
  <2>6. \A u \in Urbs : Tracked(u) => Tracked(u)'
    BY <2>3, <2>4, <2>5 DEF Tracked
  <2> QED BY <1>0, <2>1, <2>6
<1>7. ASSUME NEW c \in Conns, NEW s \in 1..MaxSeq, Unlink(c, s)
      PROVE  NoUrbForgotten'
  BY <1>7 DEF Unlink
<1>8. ASSUME NEW t \in Threads,
             DeviceWrite_Queue(t) \/ \E n \in 1..MaxBytes : DeviceWrite(t, n)
      PROVE  NoUrbForgotten'
  BY <1>8, <1>a DEF DeviceWrite, DeviceWrite_Queue
<1>9. ASSUME NEW t \in Threads, DeviceWrite_Send(t)
      PROVE  NoUrbForgotten'
  <2>1. Len(hand[t]) = 1 /\ hand[t] \in Seq(Urbs)
    BY <1>9 DEF DeviceWrite_Send, TypeInv, HandShape, TypeOK
  <2>2. hand[t] # <<>> /\ Tail(hand[t]) = <<>>
    BY <2>1, SingletonTail
  <2>3. Send(hand[t][1], "ok", data[t]) /\ UNCHANGED <<submitted, pend, unlinking>>
    BY <1>9 DEF DeviceWrite_Send
  <2>4. hand' = [hand EXCEPT ![t] = Tail(hand[t])]
    BY <1>9, <2>2 DEF DeviceWrite_Send
  <2>5. "ok" # "unlink"
    OBVIOUS
  <2>6. \A u \in Urbs : Tracked(u) => Tracked(u)'
    BY <2>2, <2>3, <2>4, <2>5, AnswerTracks
  <2> QED BY <1>0, <2>3, <2>6
<1>10. ASSUME NEW t \in Threads, EpStall_Send(t)
       PROVE  NoUrbForgotten'
  <2>1. hand[t] # <<>> /\ hand[t] \in Seq(Urbs)
    BY <1>10 DEF EpStall_Send, TypeInv, HandShape, TypeOK
  <2>2. Head(hand[t]) = hand[t][1]
    BY <2>1
  <2>3. Send(hand[t][1], "stall", <<>>) /\ UNCHANGED <<submitted, pend, unlinking>>
    BY <1>10, <2>2 DEF EpStall_Send
  <2>4. hand' = [hand EXCEPT ![t] = Tail(hand[t])]
    BY <1>10 DEF EpStall_Send
  <2>5. "stall" # "unlink"
    OBVIOUS
  <2>6. \A u \in Urbs : Tracked(u) => Tracked(u)'
    BY <2>1, <2>3, <2>4, <2>5, AnswerTracks
  <2> QED BY <1>0, <2>3, <2>6
<1>11. ASSUME NEW t \in Threads, DeviceWrite_Feed(t) \/ EpStall(t)
       PROVE  NoUrbForgotten'
  <2>1. hand[t] = <<>> /\ UNCHANGED submitted
    BY <1>11 DEF DeviceWrite_Feed, EpStall, Free, TypeInv, HandShape
  <2> QED BY <1>0, <1>11, <2>1, TakeTracks
<1> QED
  BY <1>1, <1>2, <1>3, <1>4, <1>5, <1>6, <1>7, <1>8, <1>9, <1>10, <1>11
     DEF Next, ServeStep, CallStep

\* However many hosts, writers and halting threads share the endpoint, a submitted URB is
\* answered, parked or in a thread's hands, as long as no host unlinks one: the head and
\* tail links of the parked list lose a node only through usbip_device_handle_unlink.
THEOREM NoUrbForgottenHolds ==
  ASSUME Cancellers = {}
  PROVE  Spec => []NoUrbForgotten
<1>1. Init => TypeInv /\ TailAgrees /\ NoUrbForgotten
  <2>1. Init => NoUrbForgotten
    BY BoundAssumption DEF Init, NoUrbForgotten, Urbs
  <2> QED BY <2>1, TypeInit, TailInit
<1>2. TypeInv /\ TailAgrees /\ NoUrbForgotten /\ [Next]_vars
        => (TypeInv /\ TailAgrees /\ NoUrbForgotten)'
  BY TypeNext, TailNext, ForgottenNext
<1> QED BY <1>1, <1>2, PTL DEF Spec

-----------------------------------------------------------------------------
(* Nothing is parked on a halted endpoint                                  *)

\* Between the halt check and the parking of a URB its own serve thread is the only one
\* that can halt, and it is busy with the URB.
QuietHalt == halted => pend = <<>> /\ \A c \in Conns : pc[c] # "dispatch"

LEMMA HaltNext ==
  ASSUME \A c, d \in Conns : c = d, Stallers \subseteq Conns, Cancellers = {},
         TypeInv, QuietHalt, [Next]_vars
  PROVE  QuietHalt'
<1> USE DEF QuietHalt, Goto, epvars, hostvars, threadvars
<1>0. Conns \subseteq Threads /\ pc \in [Threads -> PCs] /\ halted \in BOOLEAN
  BY DEF TypeInv, TypeOK, Threads
<1>1. CASE UNCHANGED vars
  BY <1>1 DEF vars
<1>2. ASSUME NEW c \in Conns,
             \/ Connect(c) \/ Close(c) \/ EpClearHalt(c) \/ Dispatch_Reply(c)
             \/ Unlink_Reply(c) \/ Dispatch_Slice(c)
      PROVE  QuietHalt'
  BY <1>0, <1>2 DEF Connect, Close, EpClearHalt, Dispatch_Reply, Unlink_Reply, Dispatch_Slice
<1>3. ASSUME NEW c \in Conns, NEW l \in Lengths, Dispatch_HaltCheck(c, l)
      PROVE  QuietHalt'
  BY <1>0, <1>3 DEF Dispatch_HaltCheck
<1>4. ASSUME NEW c \in Conns, Dispatch_Park(c)
      PROVE  QuietHalt'
  BY <1>0, <1>4 DEF Dispatch_Park
<1>5. ASSUME NEW c \in Conns, NEW s \in 1..MaxSeq, Unlink(c, s)
      PROVE  QuietHalt'
  BY <1>5 DEF Unlink
<1>6. ASSUME NEW t \in Threads,
             \/ DeviceWrite_Send(t) \/ EpStall_Send(t) \/ DeviceWrite_Queue(t)
             \/ \E n \in 1..MaxBytes : DeviceWrite(t, n)
      PROVE  QuietHalt'
  BY <1>0, <1>6 DEF DeviceWrite_Send, EpStall_Send, DeviceWrite, DeviceWrite_Queue
<1>7. ASSUME NEW t \in Threads, EpStall(t)
      PROVE  QuietHalt'
  <2>1. t \in Conns /\ pc[t] = "idle" /\ pend' = <<>>
    BY <1>7 DEF EpStall, Free, DetachPend
  <2>2. \A c \in Conns : c = t
    BY <2>1
  <2>3. pc'[t] # "dispatch"
    BY <1>0, <1>7 DEF EpStall
  <2> QED BY <2>1, <2>2, <2>3
<1>8. ASSUME NEW t \in Threads, DeviceWrite_Feed(t)
      PROVE  QuietHalt'
  BY <1>0, <1>8 DEF DeviceWrite_Feed, PopPend
<1> QED BY <1>1, <1>2, <1>3, <1>4, <1>5, <1>6, <1>7, <1>8 DEF Next, ServeStep, CallStep

\* With one host that does not unlink, and an endpoint that only class callbacks and
\* SET_FEATURE(HALT) halt (both on the serve thread), the parked list is exact, for any
\* number of writing threads: no URB is lost, and the gap between usbip_ep_is_halted and
\* the parking of the URB parks nothing on a halted endpoint.
THEOREM ParkedIsExactHolds ==
  ASSUME Cancellers = {}, Stallers \subseteq Conns, \A c, d \in Conns : c = d
  PROVE  Spec => []ParkedIsExact
<1>1. Init => TypeInv /\ QuietHalt
  BY TypeInit DEF Init, QuietHalt
<1>2. (TypeInv /\ QuietHalt) /\ [Next]_vars => (TypeInv /\ QuietHalt)'
  BY TypeNext, HaltNext
<1>3. QuietHalt /\ NoUrbForgotten => ParkedIsExact
  BY DEF QuietHalt, HaltedParksNothing, ParkedIsExact
<1>4. Spec => []NoUrbForgotten
  BY NoUrbForgottenHolds
<1> QED BY <1>1, <1>2, <1>3, <1>4, PTL DEF Spec
-----------------------------------------------------------------------------
(* Concatenation, which the library defines by a recursive function        *)

\* Every non-empty set of numbers has a least element.
LEMMA LeastElement ==
  ASSUME NEW T \in SUBSET Nat, T # {}
  PROVE  \E x \in T : \A y \in T : ~(y < x)
<1>1. IsWellFoundedOn(OpToRel(<, Nat), Nat)
  BY NatLessThanWellFounded
<1>2. \E x \in T : \A y \in T : <<y, x>> \notin OpToRel(<, Nat)
  BY <1>1, WFMin
<1> QED BY <1>2 DEF OpToRel

\* The equation FlattenSeq's recursive function solves, for the first n sequences.
IsFlat(g, seqs, n) ==
  g = [i \in 1..n |-> IF i = 1 THEN seqs[i] ELSE g[i - 1] \o seqs[i]]

\* The equation has a solution ...
LEMMA FlatExists ==
  ASSUME NEW seqs, NEW n \in Nat
  PROVE  \E g : IsFlat(g, seqs, n)
<1> DEFINE T == {m \in Nat : ~\E g : IsFlat(g, seqs, m)}
<1>1. SUFFICES ASSUME T # {} PROVE FALSE
  OBVIOUS
<1>2. PICK m \in T : \A y \in T : ~(y < m)
  BY <1>1, LeastElement
<1>3. CASE m = 0
  <2>1. IsFlat(<<>>, seqs, 0)
    BY DEF IsFlat
  <2> QED BY <1>2, <1>3, <2>1
<1>4. CASE m # 0
  <2>1. m - 1 \in Nat /\ m - 1 \notin T
    BY <1>2, <1>4
  <2>2. PICK g : IsFlat(g, seqs, m - 1)
    BY <2>1
  <2> DEFINE h == [i \in 1..m |-> IF i = m THEN IF i = 1 THEN seqs[i] ELSE g[i - 1] \o seqs[i]
                                  ELSE g[i]]
  <2>3. \A i \in 1..m - 1 : g[i] = IF i = 1 THEN seqs[i] ELSE g[i - 1] \o seqs[i]
    BY <2>2 DEF IsFlat
  <2>4. \A i \in 1..m : h[i] = IF i = 1 THEN seqs[i] ELSE h[i - 1] \o seqs[i]
    <3> SUFFICES ASSUME NEW i \in 1..m
                 PROVE  h[i] = IF i = 1 THEN seqs[i] ELSE h[i - 1] \o seqs[i]
      OBVIOUS
    <3>1. i # 1 => h[i - 1] = g[i - 1]
      OBVIOUS
    <3>2. CASE i = m
      BY <3>1, <3>2
    <3>3. CASE i # m
      <4>1. h[i] = g[i] /\ i \in 1..m-1
        BY <3>3
      <4> QED BY <2>3, <3>1, <4>1
    <3> QED BY <3>2, <3>3
  <2>5. h = [i \in 1..m |-> h[i]]
    OBVIOUS
  <2> HIDE DEF h
  <2>6. IsFlat(h, seqs, m)
    BY <2>4, <2>5 DEF IsFlat
  <2> QED BY <1>2, <2>6
<1> QED BY <1>3, <1>4

\* ... and one only, which a longer list of sequences extends ...
LEMMA FlatUnique ==
  ASSUME NEW seqs, NEW n \in Nat, NEW k \in Nat, k <= n, NEW g, NEW h,
         IsFlat(g, seqs, n), IsFlat(h, seqs, k)
  PROVE  \A i \in 1..k : g[i] = h[i]
<1> DEFINE T == {m \in 1..k : g[m] # h[m]}
<1>1. SUFFICES ASSUME T # {} PROVE FALSE
  OBVIOUS
<1>a. T \in SUBSET Nat
  OBVIOUS
<1>2. PICK m \in T : \A y \in T : ~(y < m)
  BY <1>1, <1>a, LeastElement
<1>b. g = [i \in 1..n |-> IF i = 1 THEN seqs[i] ELSE g[i - 1] \o seqs[i]]
  BY DEF IsFlat
<1>c. h = [i \in 1..k |-> IF i = 1 THEN seqs[i] ELSE h[i - 1] \o seqs[i]]
  BY DEF IsFlat
<1>d. m \in 1..k /\ m \in 1..n
  BY <1>2
<1>3. /\ g[m] = IF m = 1 THEN seqs[m] ELSE g[m - 1] \o seqs[m]
      /\ h[m] = IF m = 1 THEN seqs[m] ELSE h[m - 1] \o seqs[m]
  BY <1>b, <1>c, <1>d
<1>4. CASE m = 1
  BY <1>2, <1>3, <1>4
<1>5. CASE m # 1
  <2>1. m - 1 \in 1..k /\ m - 1 \notin T
    BY <1>2, <1>5
  <2> QED BY <1>2, <1>3, <1>5, <2>1
<1> QED BY <1>4, <1>5

\* ... so FlattenSeq is its last value ...
LEMMA FlattenIsFlat ==
  ASSUME NEW S, NEW seqs \in Seq(S), seqs # <<>>
  PROVE  \E g : IsFlat(g, seqs, Len(seqs)) /\ FlattenSeq(seqs) = g[Len(seqs)]
<1> DEFINE f == CHOOSE g : IsFlat(g, seqs, Len(seqs))
<1>1. Len(seqs) \in Nat /\ Len(seqs) # 0
  BY EmptySeq
<1>2. \E g : IsFlat(g, seqs, Len(seqs))
  BY <1>1, FlatExists
<1>3. IsFlat(f, seqs, Len(seqs))
  BY <1>2
<1>4. FlattenSeq(seqs) = f[Len(seqs)]
  BY <1>1 DEF FlattenSeq, IsFlat
<1> QED BY <1>3, <1>4

\* ... and one more sequence comes last in the concatenation.
LEMMA FlattenAppend ==
  ASSUME NEW S, NEW seqs \in Seq(S), NEW e \in S
  PROVE  FlattenSeq(Append(seqs, e)) = IF seqs = <<>> THEN e ELSE FlattenSeq(seqs) \o e
<1> DEFINE t == Append(seqs, e)
           n == Len(seqs)
<1>1. t \in Seq(S) /\ Len(t) = n + 1 /\ n \in Nat /\ t[n + 1] = e /\ \A i \in 1..n : t[i] = seqs[i]
  BY AppendProperties
<1>2. t # <<>>
  BY <1>1
<1> HIDE DEF t, n
<1>3. PICK g : IsFlat(g, t, n + 1) /\ FlattenSeq(t) = g[n + 1]
  BY <1>1, <1>2, FlattenIsFlat
<1>4. g[n + 1] = IF n + 1 = 1 THEN t[n + 1] ELSE g[n] \o t[n + 1]
  <2>1. g = [i \in 1..n + 1 |-> IF i = 1 THEN t[i] ELSE g[i - 1] \o t[i]]
    BY <1>3 DEF IsFlat
  <2>2. n + 1 \in 1..n + 1 /\ (n + 1) - 1 = n
    BY <1>1
  <2> QED BY <2>1, <2>2
<1>5. CASE seqs = <<>>
  <2>1. n = 0
    BY <1>5 DEF n
  <2> QED BY <1>1, <1>3, <1>4, <1>5, <2>1 DEF t
<1>6. CASE seqs # <<>>
  <2>1. n # 0
    BY <1>6, EmptySeq DEF n
  <2>2. PICK h : IsFlat(h, seqs, n) /\ FlattenSeq(seqs) = h[n]
    BY <1>6, FlattenIsFlat DEF n
  <2>3. IsFlat(h, t, n)
    <3>1. h = [i \in 1..n |-> IF i = 1 THEN seqs[i] ELSE h[i - 1] \o seqs[i]]
      BY <2>2 DEF IsFlat
    <3>2. [i \in 1..n |-> IF i = 1 THEN seqs[i] ELSE h[i - 1] \o seqs[i]]
           = [i \in 1..n |-> IF i = 1 THEN t[i] ELSE h[i - 1] \o t[i]]
      BY <1>1
    <3> QED BY <3>1, <3>2 DEF IsFlat
  <2>4. g[n] = h[n]
    BY <1>1, <1>3, <2>1, <2>3, FlatUnique
  <2> QED BY <1>1, <1>3, <1>4, <1>6, <2>1, <2>2, <2>4 DEF t
<1> QED BY <1>5, <1>6

-----------------------------------------------------------------------------
(* The endpoint is a byte pipe                                             *)

\* The n bytes after byte a of the stream, and a byte string that is such a run.
Run(a, n) == [i \in 1..n |-> a + i]
IsRun(s, a) == s = Run(a, Len(s))

\* The dbufs of the queue hold the bytes after a up to b, in order.
Queued(q, a, b) ==
  \E pos \in [1..(Len(q) + 1) -> Nat] :
    /\ pos[1] = a
    /\ pos[Len(q) + 1] = b
    /\ \A k \in 1..Len(q) : IsRun(q[k], pos[k]) /\ pos[k + 1] = pos[k] + Len(q[k])

\* Who holds bytes where: while the serve thread answers with a slice of the queue
\* nothing is parked, so no writer feeds past it; while a writer answers a parked URB
\* the queue is empty and no slice is on its way.
PipePhases ==
  /\ \A t \in Threads :
       /\ pc[t] \in {"write", "write_send"} => t \in Writers
       /\ pc[t] \notin {"reply", "write_send"} => data[t] = <<>>
       /\ pc[t] \notin {"write", "write_send"} => remaining[t] = <<>>
       /\ pc[t] = "write_send" => in_queue = <<>> /\ \A c \in Conns : pc[c] # "reply"
  /\ \A c \in Conns : pc[c] = "reply" => pend = <<>>

\* The stream, cut at d, a and b: what the host has, what is on its way with one reply,
\* what is queued, and what a call of usbip_device_write has not placed yet.
StreamAt(d, a, b) ==
  /\ DeliveredBytes = Run(0, d)
  /\ \A t \in Threads : data[t] # <<>> => IsRun(data[t], d) /\ a = d + Len(data[t])
  /\ (\A t \in Threads : data[t] = <<>>) => a = d
  /\ Queued(in_queue, a, b)
  /\ \A t \in Threads :
       remaining[t] # <<>> => IsRun(remaining[t], b) /\ b + Len(remaining[t]) = written
  /\ (\A t \in Threads : remaining[t] = <<>>) => b = written

StreamInv == \E d, a, b \in Nat : StreamAt(d, a, b)

\* Cutting a run gives two runs, joining neighbours gives one.
LEMMA RunCut ==
  ASSUME NEW s \in Seq(Nat), NEW a \in Nat, IsRun(s, a), NEW n \in 0..Len(s)
  PROVE  /\ IsRun(First(s, n), a) /\ Len(First(s, n)) = n
         /\ IsRun(Rest(s, n), a + n) /\ Len(Rest(s, n)) = Len(s) - n
<1>0. Len(s) \in Nat /\ s = [i \in 1..Len(s) |-> a + i]
  BY DEF IsRun, Run
<1>1. IsRun(First(s, n), a) /\ Len(First(s, n)) = n
  <2>1. First(s, n) = [i \in 1..n |-> s[i]]
    BY DEF First
  <2>2. [i \in 1..n |-> s[i]] = [i \in 1..n |-> a + i]
    BY <1>0
  <2>3. Len([i \in 1..n |-> a + i]) = n
    OBVIOUS
  <2> QED BY <2>1, <2>2, <2>3 DEF IsRun, Run
<1>2. IsRun(Rest(s, n), a + n) /\ Len(Rest(s, n)) = Len(s) - n
  <2> DEFINE m == Len(s) - n
  <2>0. m \in Nat
    BY <1>0
  <2>1. /\ Rest(s, n) = [i \in 1..m |-> s[i + n]]
    BY <1>0, <2>0 DEF Rest
  <2>2. \A i \in 1..m : s[i + n] = (a + n) + i
    BY <1>0
  <2>3. [i \in 1..m |-> s[i + n]] = [i \in 1..m |-> (a + n) + i]
    BY <2>2
  <2> HIDE DEF m
  <2>4. Len([i \in 1..m |-> (a + n) + i]) = m
    BY <2>0
  <2> QED BY <2>1, <2>3, <2>4 DEF IsRun, Run, m
<1> QED BY <1>1, <1>2

LEMMA RunJoin ==
  ASSUME NEW d \in Nat, NEW s \in Seq(Nat), IsRun(s, d)
  PROVE  Run(0, d) \o s = Run(0, d + Len(s))
<1>1. Run(0, d) \in Seq(Nat) /\ Len(Run(0, d)) = d /\ \A i \in 1..d : Run(0, d)[i] = i
  BY DEF Run
<1>2. Len(s) \in Nat /\ \A i \in 1..Len(s) : s[i] = d + i
  BY DEF IsRun, Run
<1> DEFINE t == Run(0, d) \o s
           r == Run(0, d + Len(s))
<1>3. /\ t \in Seq(Nat) /\ Len(t) = d + Len(s)
      /\ \A i \in 1..(d + Len(s)) : t[i] = IF i <= d THEN Run(0, d)[i] ELSE s[i - d]
  <2> DEFINE x == Run(0, d)
  <2>1. x \in Seq(Nat) /\ Len(x) = d
    BY <1>1
  <2> HIDE DEF x
  <2>2. /\ x \o s \in Seq(Nat) /\ Len(x \o s) = Len(x) + Len(s)
        /\ \A i \in 1..(Len(x) + Len(s)) : (x \o s)[i] = IF i <= Len(x) THEN x[i] ELSE s[i - Len(x)]
    BY <2>1, ConcatProperties
  <2> QED BY <2>1, <2>2 DEF x
<1>4. \A i \in 1..(d + Len(s)) : t[i] = i
  <2> SUFFICES ASSUME NEW i \in 1..(d + Len(s)) PROVE t[i] = i
    OBVIOUS
  <2>1. CASE i <= d
    BY <1>1, <1>3, <2>1
  <2>2. CASE ~(i <= d)
    <3>1. i - d \in 1..Len(s) /\ d + (i - d) = i
      BY <1>2, <2>2
    <3> QED BY <1>2, <1>3, <2>2, <3>1
  <2> QED BY <2>1, <2>2
<1>5. r \in Seq(Nat) /\ Len(r) = d + Len(s) /\ \A i \in 1..(d + Len(s)) : r[i] = i
  BY <1>2 DEF Run
<1> HIDE DEF t, r
<1>6. t = r
  BY <1>3, <1>4, <1>5, SeqEqual
<1> QED BY <1>6 DEF t, r

LEMMA RunEmpty ==
  ASSUME NEW a \in Nat
  PROVE  IsRun(<<>>, a)
BY DEF IsRun, Run

LEMMA QueuedEmpty ==
  ASSUME NEW a \in Nat, NEW b \in Nat
  PROVE  Queued(<<>>, a, b) <=> a = b
<1>1. Len(<<>>) = 0
  OBVIOUS
<1>2. Queued(<<>>, a, b) => a = b
  BY <1>1 DEF Queued
<1>3. ASSUME a = b PROVE Queued(<<>>, a, b)
  <2> DEFINE pos == [k \in 1..1 |-> a]
  <2>1. pos \in [1..(Len(<<>>) + 1) -> Nat] /\ pos[1] = a
    BY <1>1
  <2> HIDE DEF pos
  <2> QED BY <1>1, <1>3, <2>1 DEF Queued
<1> QED BY <1>2, <1>3

LEMMA QueuedHead ==
  ASSUME NEW q \in Seq(Seq(Nat)), q # <<>>, NEW a \in Nat, NEW b \in Nat, Queued(q, a, b)
  PROVE  /\ IsRun(Head(q), a)
         /\ Queued(Tail(q), a + Len(Head(q)), b)
<1>1. PICK pos \in [1..(Len(q) + 1) -> Nat] :
        /\ pos[1] = a
        /\ pos[Len(q) + 1] = b
        /\ \A k \in 1..Len(q) : IsRun(q[k], pos[k]) /\ pos[k + 1] = pos[k] + Len(q[k])
  BY DEF Queued
<1>2. Len(q) \in Nat /\ Len(q) # 0 /\ Head(q) = q[1]
  BY EmptySeq
<1>3. IsRun(Head(q), a) /\ pos[2] = a + Len(Head(q))
  <2>1. 1 \in 1..Len(q) /\ 1 + 1 = 2
    BY <1>2
  <2>2. IsRun(q[1], pos[1]) /\ pos[1 + 1] = pos[1] + Len(q[1])
    BY <1>1, <2>1
  <2> QED BY <1>1, <1>2, <2>2
<1> DEFINE t == Tail(q)
           p == [k \in 1..Len(q) |-> pos[k + 1]]
<1>4. t \in Seq(Seq(Nat)) /\ Len(t) = Len(q) - 1 /\ \A k \in 1..Len(t) : t[k] = q[k + 1]
  BY <1>2
<1>5. p \in [1..(Len(t) + 1) -> Nat] /\ p[1] = pos[2] /\ p[Len(t) + 1] = b
  BY <1>1, <1>2, <1>4, SMTT(30)
<1>6. \A k \in 1..Len(t) : p[k] = pos[k + 1] /\ p[k + 1] = pos[(k + 1) + 1] /\ k + 1 \in 1..Len(q)
  BY <1>2, <1>4
<1>7. \A k \in 1..Len(t) : IsRun(t[k], p[k]) /\ p[k + 1] = p[k] + Len(t[k])
  BY <1>1, <1>4, <1>6
<1> HIDE DEF t, p
<1>8. Queued(t, pos[2], b)
  BY <1>5, <1>7 DEF Queued
<1> QED BY <1>3, <1>8 DEF t

LEMMA QueuedCons ==
  ASSUME NEW q \in Seq(Seq(Nat)), NEW h \in Seq(Nat), NEW a \in Nat, NEW b \in Nat,
         IsRun(h, a), Queued(q, a + Len(h), b)
  PROVE  Queued(<<h>> \o q, a, b)
<1>1. PICK pos \in [1..(Len(q) + 1) -> Nat] :
        /\ pos[1] = a + Len(h)
        /\ pos[Len(q) + 1] = b
        /\ \A k \in 1..Len(q) : IsRun(q[k], pos[k]) /\ pos[k + 1] = pos[k] + Len(q[k])
  BY DEF Queued
<1> DEFINE t == <<h>> \o q
           p == [k \in 1..(Len(q) + 2) |-> IF k = 1 THEN a ELSE pos[k - 1]]
<1>2. Len(q) \in Nat /\ <<h>> \in Seq(Seq(Nat)) /\ Len(<<h>>) = 1 /\ <<h>>[1] = h
  OBVIOUS
<1>3. /\ t \in Seq(Seq(Nat)) /\ Len(t) = Len(q) + 1
      /\ \A k \in 1..(Len(q) + 1) : t[k] = IF k <= 1 THEN <<h>>[k] ELSE q[k - 1]
  BY <1>2, ConcatProperties
<1>4. p \in [1..(Len(t) + 1) -> Nat] /\ p[1] = a /\ p[Len(t) + 1] = b
  BY <1>1, <1>2, <1>3
<1>5. \A k \in 1..Len(t) : IsRun(t[k], p[k]) /\ p[k + 1] = p[k] + Len(t[k])
  <2> SUFFICES ASSUME NEW k \in 1..Len(t)
               PROVE  IsRun(t[k], p[k]) /\ p[k + 1] = p[k] + Len(t[k])
    OBVIOUS
  <2>1. CASE k = 1
    <3>1. t[k] = h /\ p[k] = a /\ p[k + 1] = pos[1]
      BY <1>2, <1>3, <2>1
    <3> QED BY <1>1, <3>1
  <2>2. CASE k # 1
    <3>0. k \in 1..(Len(q) + 1) /\ Len(q) \in Nat
      BY <1>2, <1>3
    <3>a. k - 1 \in 1..Len(q) /\ (k + 1) - 1 = (k - 1) + 1 /\ k + 1 \in 1..(Len(q) + 2) /\ k + 1 # 1
      BY <2>2, <3>0
    <3>b. t[k] = q[k - 1]
      BY <1>3, <2>2, <3>0
    <3>c. p[k] = pos[k - 1]
      BY <2>2, <3>0
    <3>d. p[k + 1] = pos[(k - 1) + 1]
      BY <3>a
    <3>1. k - 1 \in 1..Len(q) /\ t[k] = q[k - 1] /\ p[k] = pos[k - 1] /\ p[k + 1] = pos[(k - 1) + 1]
      BY <3>a, <3>b, <3>c, <3>d
    <3> QED BY <1>1, <3>1
  <2> QED BY <2>1, <2>2
<1> HIDE DEF t, p
<1>6. Queued(t, a, b)
  BY <1>4, <1>5 DEF Queued
<1> QED BY <1>6 DEF t

LEMMA QueuedAppend ==
  ASSUME NEW q \in Seq(Seq(Nat)), NEW s \in Seq(Nat), NEW a \in Nat, NEW b \in Nat,
         IsRun(s, b), Queued(q, a, b)
  PROVE  Queued(Append(q, s), a, b + Len(s))
<1>1. PICK pos \in [1..(Len(q) + 1) -> Nat] :
        /\ pos[1] = a
        /\ pos[Len(q) + 1] = b
        /\ \A k \in 1..Len(q) : IsRun(q[k], pos[k]) /\ pos[k + 1] = pos[k] + Len(q[k])
  BY DEF Queued
<1> DEFINE t == Append(q, s)
           p == [k \in 1..(Len(q) + 2) |-> IF k = Len(q) + 2 THEN b + Len(s) ELSE pos[k]]
<1>2. Len(q) \in Nat /\ Len(s) \in Nat
  OBVIOUS
<1>3. /\ Len(t) = Len(q) + 1
      /\ \A k \in 1..Len(q) : t[k] = q[k]
      /\ t[Len(q) + 1] = s
  BY AppendProperties
<1>4. p \in [1..(Len(t) + 1) -> Nat] /\ p[1] = a /\ p[Len(t) + 1] = b + Len(s)
  BY <1>1, <1>2, <1>3
<1>5. \A k \in 1..Len(t) : IsRun(t[k], p[k]) /\ p[k + 1] = p[k] + Len(t[k])
  <2> SUFFICES ASSUME NEW k \in 1..Len(t)
               PROVE  IsRun(t[k], p[k]) /\ p[k + 1] = p[k] + Len(t[k])
    OBVIOUS
  <2>1. CASE k = Len(q) + 1
    <3>1. t[k] = s /\ p[k] = b /\ p[k + 1] = b + Len(s)
      BY <1>1, <1>2, <1>3, <2>1
    <3> QED BY <3>1
  <2>2. CASE k # Len(q) + 1
    <3>1. k \in 1..Len(q) /\ t[k] = q[k] /\ p[k] = pos[k] /\ p[k + 1] = pos[k + 1]
      BY <1>2, <1>3, <2>2
    <3> QED BY <1>1, <3>1
  <2> QED BY <2>1, <2>2
<1> HIDE DEF t, p
<1>6. Queued(t, a, b + Len(s))
  BY <1>4, <1>5 DEF Queued
<1> QED BY <1>6 DEF t

\* A reply adds its bytes to what the host has read.
LEMMA SendDelivers ==
  ASSUME TypeInv, NEW u, NEW st, NEW bytes \in Seq(Nat), Send(u, st, bytes),
         NEW d \in Nat, DeliveredBytes = Run(0, d), IsRun(bytes, d)
  PROVE  DeliveredBytes' = Run(0, d + Len(bytes))
<1>1. PICK to : replies' = Append(replies, [to |-> to, urb |-> u, status |-> st, data |-> bytes])
  BY DEF Send
<1> DEFINE r == [to |-> to, urb |-> u, status |-> st, data |-> bytes]
           old == [i \in DOMAIN replies |-> replies[i].data]
           new == [i \in DOMAIN replies' |-> replies'[i].data]
<1>2. r.data = bytes
  OBVIOUS
<1>3. replies' = Append(replies, r) /\ replies \in Seq(Replies)
  BY <1>1 DEF TypeInv, TypeOK
<1> HIDE DEF r
<1>4. /\ Len(replies) \in Nat /\ DOMAIN replies = 1..Len(replies)
      /\ DOMAIN replies' = 1..(Len(replies) + 1)
      /\ \A k \in 1..Len(replies) : replies'[k] = replies[k]
      /\ replies'[Len(replies) + 1] = r
  BY <1>3
<1>5. old \in Seq(Seq(Nat)) /\ Len(old) = Len(replies)
  <2>1. \A k \in DOMAIN replies : replies[k] \in Replies
    BY <1>3
  <2>2. \A k \in DOMAIN replies : replies[k].data \in Seq(Nat)
    BY <2>1 DEF Replies
  <2> QED BY <1>4, <2>2
<1>6. new = Append(old, bytes)
  <2>1. Append(old, bytes) \in Seq(Seq(Nat))
    BY <1>5
  <2>2. /\ Len(Append(old, bytes)) = Len(replies) + 1
        /\ \A k \in 1..Len(replies) : Append(old, bytes)[k] = old[k]
        /\ Append(old, bytes)[Len(replies) + 1] = bytes
    BY <1>5, AppendProperties
  <2>3. /\ new \in Seq(Seq(Nat))
        /\ Len(new) = Len(replies) + 1
        /\ \A k \in 1..Len(replies) : new[k] = old[k]
        /\ new[Len(replies) + 1] = bytes
    <3>1. \A k \in 1..Len(replies) : new[k] = old[k] /\ new[k] \in Seq(Nat)
      <4>1. \A k \in 1..Len(replies) : old[k] \in Seq(Nat)
        <5> HIDE DEF old
        <5> QED BY <1>5, ElementOfSeq
      <4>2. \A k \in 1..Len(replies) : new[k] = old[k]
        BY <1>4
      <4> QED BY <4>1, <4>2
    <3>2. new[Len(replies) + 1] = bytes
      BY <1>2, <1>4
    <3>3. \A k \in 1..(Len(replies) + 1) : new[k] \in Seq(Nat)
      <4> HIDE DEF new, old
      <4>1. \A k \in 1..(Len(replies) + 1) : k \in 1..Len(replies) \/ k = Len(replies) + 1
        BY <1>4
      <4> QED BY <3>1, <3>2, <4>1
    <3>4. new = [k \in 1..(Len(replies) + 1) |-> replies'[k].data]
      BY <1>4
    <3> HIDE DEF new
    <3> QED BY <1>4, <3>1, <3>2, <3>3, <3>4
  <2> HIDE DEF new, old
  <2>4. \A k \in 1..(Len(replies) + 1) : new[k] = Append(old, bytes)[k]
    BY <1>4, <2>2, <2>3
  <2> QED BY <2>1, <2>2, <2>3, <2>4, SeqEqual
<1>7. DeliveredBytes = FlattenSeq(old) /\ DeliveredBytes' = FlattenSeq(new)
  BY DEF DeliveredBytes
<1> HIDE DEF old, new
<1>8. FlattenSeq(new) = IF old = <<>> THEN bytes ELSE FlattenSeq(old) \o bytes
  BY <1>5, <1>6, FlattenAppend
<1>9. CASE old # <<>>
  BY <1>7, <1>8, <1>9, RunJoin
<1>10. CASE old = <<>>
  <2>1. FlattenSeq(old) = <<>>
    BY <1>10 DEF FlattenSeq
  <2>2. Len(Run(0, d)) = d
    BY DEF Run
  <2>3. d = 0
    BY <1>7, <2>1, <2>2
  <2> QED BY <1>7, <1>8, <1>10, <2>3 DEF IsRun
<1> QED BY <1>9, <1>10

\* One host and one writing thread: the setting in which the order of bytes means
\* something (two serve threads may send their slices in either order).
OnePipe ==
  /\ \A c, d \in Conns : c = d
  /\ \A t, v \in Writers : t = v

LEMMA PhasesNext ==
  ASSUME OnePipe, TypeInv, NoStarvedUrb, PipePhases, [Next]_vars
  PROVE  PipePhases'
<1> USE DEF Goto, epvars, hostvars, threadvars
<1>0. /\ Conns \subseteq Threads
      /\ pc \in [Threads -> PCs]
      /\ data \in [Threads -> Seq(Nat)]
      /\ remaining \in [Threads -> Seq(Nat)]
      /\ pend \in Seq(Urbs)
  BY DEF TypeInv, TypeOK, Threads
<1>1. CASE UNCHANGED vars
  BY <1>1 DEF vars, PipePhases
<1>2. ASSUME NEW c \in Conns, Connect(c) \/ Close(c) \/ EpClearHalt(c)
      PROVE  PipePhases'
  BY <1>2 DEF Connect, Close, EpClearHalt, PipePhases
<1>3. ASSUME NEW c \in Conns, NEW l \in Lengths, Dispatch_HaltCheck(c, l)
      PROVE  PipePhases'
  BY <1>0, <1>3 DEF Dispatch_HaltCheck, Free, PipePhases
<1>4. ASSUME NEW c \in Conns, Dispatch_Slice(c)
      PROVE  PipePhases'
  <2>1. pend = <<>> /\ pend' = pend /\ remaining' = remaining /\ in_queue # <<>>
    BY <1>4 DEF Dispatch_Slice, NoStarvedUrb
  <2>2. \A t \in Threads : pc[t] # "write_send"
    BY <2>1 DEF PipePhases
  <2>3. \A t \in Threads \ {c} : pc'[t] = pc[t] /\ data'[t] = data[t]
    BY <1>0, <1>4 DEF Dispatch_Slice
  <2>4. pc[c] = "dispatch" /\ pc'[c] = "reply"
    BY <1>0, <1>4 DEF Dispatch_Slice
  <2>5. ASSUME NEW t \in Threads
        PROVE  /\ pc'[t] \in {"write", "write_send"} => t \in Writers
               /\ pc'[t] \notin {"reply", "write_send"} => data'[t] = <<>>
               /\ pc'[t] \notin {"write", "write_send"} => remaining'[t] = <<>>
               /\ pc'[t] # "write_send"
    <3>1. CASE t = c
      BY <2>1, <2>4, <3>1 DEF PipePhases
    <3>2. CASE t # c
      BY <2>1, <2>2, <2>3, <3>2 DEF PipePhases
    <3> QED BY <3>1, <3>2
  <2> QED BY <2>1, <2>5 DEF PipePhases
<1>5. ASSUME NEW c \in Conns, Dispatch_Park(c)
      PROVE  PipePhases'
  <2>1. \A d \in Conns : d = c
    BY DEF OnePipe
  <2>2. pc[c] = "dispatch" /\ pc' = [pc EXCEPT ![c] = "idle"] /\ UNCHANGED <<data, remaining, in_queue>>
    BY <1>5 DEF Dispatch_Park
  <2>3. pc'[c] = "idle" /\ \A t \in Threads \ {c} : pc'[t] = pc[t]
    BY <1>0, <2>2
  <2> QED BY <1>0, <2>1, <2>2, <2>3 DEF PipePhases
<1>6. ASSUME NEW c \in Conns, Dispatch_Reply(c)
      PROVE  PipePhases'
  BY <1>0, <1>6 DEF Dispatch_Reply, PipePhases
<1>7. ASSUME NEW c \in Conns, Unlink_Reply(c)
      PROVE  PipePhases'
  BY <1>0, <1>7 DEF Unlink_Reply, PipePhases
<1>8. ASSUME NEW c \in Conns, NEW s \in 1..MaxSeq, Unlink(c, s)
      PROVE  PipePhases'
  <2>1. \A d \in Conns : d = c
    BY DEF OnePipe
  <2>2. pc[c] = "idle" /\ pc' = [pc EXCEPT ![c] = "reply_unlink"] /\ UNCHANGED <<data, remaining, in_queue>>
    BY <1>8 DEF Unlink, Free
  <2>3. pc'[c] = "reply_unlink" /\ \A t \in Threads \ {c} : pc'[t] = pc[t]
    BY <1>0, <2>2
  <2> QED BY <1>0, <2>1, <2>2, <2>3 DEF PipePhases
<1>9. ASSUME NEW t \in Threads, NEW n \in 1..MaxBytes, DeviceWrite(t, n)
      PROVE  PipePhases'
  BY <1>0, <1>9 DEF DeviceWrite, Free, PipePhases
<1>10. ASSUME NEW t \in Threads, DeviceWrite_Feed(t)
       PROVE  PipePhases'
  <2>1. /\ pc[t] = "write" /\ pend # <<>> /\ in_queue = <<>> /\ in_queue' = in_queue
        /\ pend' = Tail(pend)
    BY <1>10 DEF DeviceWrite_Feed, NoStarvedUrb, PopPend
  <2>2. \A c \in Conns : pc[c] # "reply"
    BY <2>1 DEF PipePhases
  <2>3. \A v \in Threads \ {t} : pc'[v] = pc[v] /\ data'[v] = data[v] /\ remaining'[v] = remaining[v]
    BY <1>0, <1>10 DEF DeviceWrite_Feed
  <2>4. pc'[t] = "write_send" /\ t \in Writers
    BY <1>0, <1>10 DEF DeviceWrite_Feed, PipePhases
  <2>5. \A c \in Conns : pc'[c] # "reply"
    BY <1>0, <2>2, <2>3, <2>4
  <2>6. ASSUME NEW v \in Threads
        PROVE  /\ pc'[v] \in {"write", "write_send"} => v \in Writers
               /\ pc'[v] \notin {"reply", "write_send"} => data'[v] = <<>>
               /\ pc'[v] \notin {"write", "write_send"} => remaining'[v] = <<>>
    <3>1. CASE v = t
      BY <2>4, <3>1
    <3>2. CASE v # t
      BY <2>3, <3>2 DEF PipePhases
    <3> QED BY <3>1, <3>2
  <2> QED BY <2>1, <2>5, <2>6 DEF PipePhases
<1>11. ASSUME NEW t \in Threads, DeviceWrite_Send(t)
       PROVE  PipePhases'
  BY <1>0, <1>11 DEF DeviceWrite_Send, PipePhases
<1>12. ASSUME NEW t \in Threads, DeviceWrite_Queue(t)
       PROVE  PipePhases'
  <2>1. pc[t] = "write" /\ t \in Writers
    BY <1>12 DEF DeviceWrite_Queue, PipePhases
  <2>2. \A v \in Threads : pc[v] # "write_send"
    BY <2>1 DEF PipePhases, OnePipe
  <2>3. /\ pc'[t] = "idle" /\ remaining'[t] = <<>> /\ data' = data /\ pend' = pend
        /\ \A v \in Threads \ {t} : pc'[v] = pc[v] /\ remaining'[v] = remaining[v]
    BY <1>0, <1>12 DEF DeviceWrite_Queue
  <2>4. data[t] = <<>>
    BY <2>1 DEF PipePhases
  <2>5. ASSUME NEW v \in Threads
        PROVE  /\ pc'[v] \in {"write", "write_send"} => v \in Writers
               /\ pc'[v] \notin {"reply", "write_send"} => data'[v] = <<>>
               /\ pc'[v] \notin {"write", "write_send"} => remaining'[v] = <<>>
               /\ pc'[v] # "write_send"
    <3>1. CASE v = t
      BY <2>3, <2>4, <3>1
    <3>2. CASE v # t
      BY <2>2, <2>3, <3>2 DEF PipePhases
    <3> QED BY <3>1, <3>2
  <2>6. \A c \in Conns : pc'[c] = "reply" => pend' = <<>>
    BY <1>0, <2>3 DEF PipePhases
  <2> QED BY <2>5, <2>6 DEF PipePhases
<1>13. ASSUME NEW t \in Threads, EpStall(t)
       PROVE  PipePhases'
  <2>1. /\ pc[t] = "idle" /\ pc'[t] \in {"idle", "stall_send"} /\ pend' = <<>>
        /\ \A v \in Threads \ {t} : pc'[v] = pc[v]
        /\ UNCHANGED <<data, remaining, in_queue>>
    BY <1>0, <1>13 DEF EpStall, Free, DetachPend
  <2> QED BY <1>0, <2>1 DEF PipePhases
<1>14. ASSUME NEW t \in Threads, EpStall_Send(t)
       PROVE  PipePhases'
  BY <1>0, <1>14 DEF EpStall_Send, PipePhases
<1> QED
  BY <1>1, <1>2, <1>3, <1>4, <1>5, <1>6, <1>7, <1>8, <1>9, <1>10, <1>11, <1>12, <1>13, <1>14
     DEF Next, ServeStep, CallStep

\* At most one reply with bytes is on its way.
LEMMA OneFlight ==
  ASSUME OnePipe, TypeInv, PipePhases, NEW t \in Threads, NEW v \in Threads,
         data[t] # <<>>, data[v] # <<>>
  PROVE  t = v
<1>1. pc[t] \in {"reply", "write_send"} /\ pc[v] \in {"reply", "write_send"}
  BY DEF PipePhases
<1>2. (pc[t] = "reply" => t \in Conns) /\ (pc[v] = "reply" => v \in Conns)
  BY DEF TypeInv, HandShape
<1>3. (pc[t] = "write_send" => t \in Writers) /\ (pc[v] = "write_send" => v \in Writers)
  BY DEF PipePhases
<1>4. ~(pc[t] = "reply" /\ pc[v] = "write_send") /\ ~(pc[v] = "reply" /\ pc[t] = "write_send")
  BY <1>2 DEF PipePhases
<1> QED BY <1>1, <1>2, <1>3, <1>4 DEF OnePipe

\* A step that moves no bytes.
LEMMA StreamIdle ==
  ASSUME NEW d \in Nat, NEW a \in Nat, NEW b \in Nat, StreamAt(d, a, b),
         UNCHANGED <<replies, data, in_queue, remaining, written>>
  PROVE  StreamAt(d, a, b)' /\ DeliveredBytes' = DeliveredBytes
<1>1. DeliveredBytes' = DeliveredBytes
  BY DEF DeliveredBytes
<1>2. (data' = data) /\ (in_queue' = in_queue) /\ (remaining' = remaining) /\ (written' = written)
  OBVIOUS
<1>3. StreamAt(d, a, b)'
  BY <1>1, <1>2 DEF StreamAt
<1> QED BY <1>1, <1>3

\* A thread sends the bytes it holds -- none, or those that come next.
LEMMA StreamSend ==
  ASSUME OnePipe, TypeInv, PipePhases, NEW t \in Threads, NEW u, NEW st, Send(u, st, data[t]),
         data' = [data EXCEPT ![t] = <<>>],
         UNCHANGED <<in_queue, remaining, written>>,
         NEW d \in Nat, NEW a \in Nat, NEW b \in Nat, StreamAt(d, a, b),
         NEW n \in Nat, n = Len(data[t])
  PROVE  IsRun(data[t], d) /\ StreamAt(d + n, a, b)'
<1>0. data \in [Threads -> Seq(Nat)] /\ data[t] \in Seq(Nat)
  BY DEF TypeInv, TypeOK
<1>1. IsRun(data[t], d)
  BY RunEmpty DEF StreamAt
<1>2. DeliveredBytes' = Run(0, d + n)
  BY <1>0, <1>1, SendDelivers DEF StreamAt
<1>3. CASE data[t] = <<>>
  <2>1. data' = data /\ n = 0 /\ d + n = d
    BY <1>0, <1>3
  <2> QED BY <1>1, <1>2, <2>1 DEF StreamAt
<1>4. CASE data[t] # <<>>
  <2>1. \A v \in Threads : data'[v] = <<>>
    BY <1>0, <1>4, OneFlight
  <2>2. a = d + n
    BY <1>4 DEF StreamAt
  <2> QED BY <1>1, <1>2, <2>1, <2>2 DEF StreamAt
<1> QED BY <1>3, <1>4

\* The serve thread takes the next bytes off the queue.
LEMMA StreamSlice ==
  ASSUME OnePipe, TypeInv, PipePhases, NEW c \in Conns, Dispatch_Slice(c),
         NEW d \in Nat, NEW a \in Nat, NEW b \in Nat, StreamAt(d, a, b)
  PROVE  \E x \in Nat : StreamAt(d, x, b)'
<1> USE DEF Goto, epvars, hostvars, threadvars
<1> DEFINE dbuf == Head(in_queue)
           chunk == Chunk(Len(dbuf), LengthOf(hand[c][1]))
<1>1. /\ c \in Threads /\ data \in [Threads -> Seq(Nat)] /\ hand[c][1] \in Urbs
      /\ dbuf \in Seq(Nat) /\ Tail(in_queue) \in Seq(Seq(Nat)) /\ in_queue \in Seq(Seq(Nat))
      /\ in_queue # <<>> /\ pc[c] = "dispatch"
  BY SMTT(30) DEF TypeInv, TypeOK, HandShape, Dispatch_Slice, Threads
<1>2. /\ data' = [data EXCEPT ![c] = First(dbuf, chunk)]
      /\ in_queue' = Undrained(dbuf, chunk) \o Tail(in_queue)
      /\ UNCHANGED <<remaining, written, replies>>
  BY DEF Dispatch_Slice
<1>3. LengthOf(hand[c][1]) \in Nat /\ Len(dbuf) \in Nat
  BY <1>1, LengthOfType DEF TypeInv
<1>4. chunk \in 0..Len(dbuf)
  BY <1>3, ChunkBounds
<1>5. \A t \in Threads : data[t] = <<>>
  <2> SUFFICES ASSUME NEW t \in Threads, data[t] # <<>> PROVE FALSE
    OBVIOUS
  <2>1. pc[t] \in {"reply", "write_send"}
    BY DEF PipePhases
  <2>2. pc[t] # "write_send"
    BY <1>1 DEF PipePhases
  <2>3. t \in Conns
    BY <2>1, <2>2 DEF TypeInv, HandShape
  <2> QED BY <1>1, <2>1, <2>2, <2>3 DEF OnePipe
<1>6. a = d
  BY <1>5 DEF StreamAt
<1>7. IsRun(dbuf, d) /\ Queued(Tail(in_queue), d + Len(dbuf), b)
  BY <1>1, <1>6, QueuedHead DEF StreamAt
<1> HIDE DEF dbuf, chunk
<1>8. /\ IsRun(First(dbuf, chunk), d) /\ Len(First(dbuf, chunk)) = chunk
      /\ IsRun(Rest(dbuf, chunk), d + chunk) /\ Len(Rest(dbuf, chunk)) = Len(dbuf) - chunk
  BY <1>1, <1>4, <1>7, RunCut
<1>9. Queued(in_queue', d + chunk, b)
  <2>1. CASE chunk >= Len(dbuf)
    <3>1. chunk = Len(dbuf)
      BY <1>3, <1>4, <2>1
    <3>2. in_queue' = <<>> \o Tail(in_queue)
      BY <1>2, <2>1 DEF Undrained
    <3>3. in_queue' = Tail(in_queue)
      BY <1>1, <3>2, ConcatEmptySeq
    <3> QED BY <1>7, <3>1, <3>3
  <2>2. CASE ~(chunk >= Len(dbuf))
    <3>1. in_queue' = <<Rest(dbuf, chunk)>> \o Tail(in_queue)
      BY <1>2, <2>2 DEF Undrained
    <3>2. Rest(dbuf, chunk) \in Seq(Nat) /\ d + chunk \in Nat
      BY <1>1, <1>4, CutType
    <3>3. (d + chunk) + Len(Rest(dbuf, chunk)) = d + Len(dbuf)
      BY <1>3, <1>4, <1>8
    <3> QED BY <1>1, <1>7, <1>8, <3>1, <3>2, <3>3, QueuedCons
  <2> QED BY <2>1, <2>2
<1> DEFINE x == d + chunk
<1>10. x \in Nat
  BY <1>4
<1>11. PICK y \in Nat : y = x
  BY <1>10
<1>12. /\ data'[c] = First(dbuf, chunk)
       /\ \A t \in Threads \ {c} : data'[t] = <<>>
  BY <1>1, <1>2, <1>5
<1>13. \A t \in Threads : data'[t] # <<>> => IsRun(data'[t], d) /\ y = d + Len(data'[t])
  BY <1>8, <1>11, <1>12
<1>14. (\A t \in Threads : data'[t] = <<>>) => y = d
  <2> SUFFICES ASSUME data'[c] = <<>> PROVE y = d
    BY <1>1
  <2>1. Len(First(dbuf, chunk)) = 0
    BY <1>12
  <2>2. chunk = 0
    BY <1>8, <2>1
  <2> QED BY <1>11, <2>2
<1>15. DeliveredBytes' = DeliveredBytes /\ remaining' = remaining /\ written' = written
  BY <1>2 DEF DeliveredBytes
<1>16. Queued(in_queue', y, b)
  BY <1>9, <1>11
<1> HIDE DEF x
<1>17. StreamAt(d, y, b)'
  BY <1>13, <1>14, <1>15, <1>16 DEF StreamAt
<1> QED BY <1>17

\* A writer takes the next bytes for a parked URB: nothing is queued before them.
LEMMA StreamFeed ==
  ASSUME OnePipe, TypeInv, NoStarvedUrb, PipePhases, NEW t \in Threads, DeviceWrite_Feed(t),
         NEW d \in Nat, NEW a \in Nat, NEW b \in Nat, StreamAt(d, a, b)
  PROVE  \E x \in Nat : StreamAt(d, x, x)'
<1> USE DEF Goto, epvars, hostvars, threadvars
<1> DEFINE urb == Head(pend)
           chunk == Chunk(Len(remaining[t]), LengthOf(urb))
<1>1. /\ data \in [Threads -> Seq(Nat)] /\ remaining \in [Threads -> Seq(Nat)]
      /\ remaining[t] \in Seq(Nat) /\ urb \in Urbs
      /\ pc[t] = "write" /\ pend # <<>> /\ remaining[t] # <<>>
  BY DEF TypeInv, TypeOK, DeviceWrite_Feed
<1>2. /\ data' = [data EXCEPT ![t] = First(remaining[t], chunk)]
      /\ remaining' = [remaining EXCEPT ![t] = Rest(remaining[t], chunk)]
      /\ UNCHANGED <<in_queue, written, replies>>
  BY DEF DeviceWrite_Feed
<1>3. in_queue = <<>>
  BY <1>1 DEF NoStarvedUrb
<1>4. LengthOf(urb) \in Nat /\ Len(remaining[t]) \in Nat
  BY <1>1, LengthOfType DEF TypeInv
<1>5. chunk \in 0..Len(remaining[t])
  BY <1>4, ChunkBounds
<1>6. t \in Writers
  BY <1>1 DEF PipePhases
<1>7. \A v \in Threads : data[v] = <<>>
  <2> SUFFICES ASSUME NEW v \in Threads, data[v] # <<>> PROVE FALSE
    OBVIOUS
  <2>1. pc[v] \in {"reply", "write_send"}
    BY DEF PipePhases
  <2>2. pc[v] # "reply"
    BY <1>1 DEF PipePhases, TypeInv, HandShape
  <2>3. v \in Writers
    BY <2>1, <2>2 DEF PipePhases
  <2> QED BY <1>1, <1>6, <2>1, <2>2, <2>3 DEF OnePipe
<1>8. \A v \in Threads \ {t} : remaining[v] = <<>>
  BY <1>6 DEF PipePhases, OnePipe
<1>9. a = d /\ b = d
  <2>1. a = d
    BY <1>7 DEF StreamAt
  <2>2. Queued(<<>>, a, b)
    BY <1>3 DEF StreamAt
  <2> QED BY <2>1, <2>2, QueuedEmpty
<1>10. IsRun(remaining[t], d) /\ d + Len(remaining[t]) = written
  BY <1>1, <1>9 DEF StreamAt
<1> HIDE DEF urb, chunk
<1>11. /\ IsRun(First(remaining[t], chunk), d) /\ Len(First(remaining[t], chunk)) = chunk
       /\ IsRun(Rest(remaining[t], chunk), d + chunk)
       /\ Len(Rest(remaining[t], chunk)) = Len(remaining[t]) - chunk
  BY <1>1, <1>5, <1>10, RunCut
<1>12. PICK y \in Nat : y = d + chunk
  BY <1>5
<1>13. /\ data'[t] = First(remaining[t], chunk)
       /\ remaining'[t] = Rest(remaining[t], chunk)
       /\ \A v \in Threads \ {t} : data'[v] = <<>> /\ remaining'[v] = <<>>
  BY <1>1, <1>2, <1>7, <1>8
<1>14. \A v \in Threads : data'[v] # <<>> => IsRun(data'[v], d) /\ y = d + Len(data'[v])
  BY <1>11, <1>12, <1>13
<1>15. (\A v \in Threads : data'[v] = <<>>) => y = d
  <2> SUFFICES ASSUME data'[t] = <<>> PROVE y = d
    OBVIOUS
  <2>1. Len(First(remaining[t], chunk)) = 0
    BY <1>13
  <2>2. chunk = 0
    BY <1>11, <2>1
  <2> QED BY <1>12, <2>2
<1>16. y + Len(remaining'[t]) = written /\ IsRun(remaining'[t], y)
  BY <1>4, <1>5, <1>10, <1>11, <1>12, <1>13
<1>17. \A v \in Threads : remaining'[v] # <<>> => IsRun(remaining'[v], y) /\ y + Len(remaining'[v]) = written
  BY <1>13, <1>16
<1>18. (\A v \in Threads : remaining'[v] = <<>>) => y = written
  <2> SUFFICES ASSUME remaining'[t] = <<>> PROVE y = written
    OBVIOUS
  <2>1. Len(remaining'[t]) = 0
    OBVIOUS
  <2> QED BY <1>12, <1>16, <2>1
<1>19. DeliveredBytes' = DeliveredBytes /\ written' = written /\ in_queue' = <<>>
  BY <1>2, <1>3 DEF DeliveredBytes
<1>20. Queued(<<>>, y, y)
  BY QueuedEmpty
<1>21. StreamAt(d, y, y)'
  BY <1>14, <1>15, <1>17, <1>18, <1>19, <1>20 DEF StreamAt
<1> QED BY <1>21

\* What a writer has not placed goes to the end of the queue.
LEMMA StreamQueue ==
  ASSUME OnePipe, TypeInv, PipePhases, NEW t \in Threads, DeviceWrite_Queue(t),
         NEW d \in Nat, NEW a \in Nat, NEW b \in Nat, StreamAt(d, a, b)
  PROVE  \E x \in Nat : StreamAt(d, a, x)'
<1> USE DEF Goto, epvars, hostvars, threadvars
<1>1. /\ remaining \in [Threads -> Seq(Nat)] /\ remaining[t] \in Seq(Nat)
      /\ in_queue \in Seq(Seq(Nat)) /\ pc[t] = "write"
      /\ written \in Nat
  BY BoundAssumption DEF TypeInv, TypeOK, DeviceWrite_Queue
<1>2. t \in Writers
  BY <1>1 DEF PipePhases
<1>3. \A v \in Threads \ {t} : remaining[v] = <<>>
  BY <1>2 DEF PipePhases, OnePipe
<1>4. /\ in_queue' = IF remaining[t] # <<>> THEN Append(in_queue, remaining[t]) ELSE in_queue
      /\ remaining' = [remaining EXCEPT ![t] = <<>>]
      /\ UNCHANGED <<data, written, replies>>
  BY DEF DeviceWrite_Queue, enq_dbuf
<1>5. \A v \in Threads : remaining'[v] = <<>>
  BY <1>1, <1>3, <1>4
<1>6. DeliveredBytes' = DeliveredBytes /\ data' = data /\ written' = written
  BY <1>4 DEF DeliveredBytes
<1>7. Queued(in_queue', a, written)
  <2>1. CASE remaining[t] # <<>>
    <3>1. IsRun(remaining[t], b) /\ b + Len(remaining[t]) = written /\ Queued(in_queue, a, b)
      BY <2>1 DEF StreamAt
    <3>2. in_queue' = Append(in_queue, remaining[t])
      BY <1>4, <2>1
    <3> QED BY <1>1, <3>1, <3>2, QueuedAppend
  <2>2. CASE remaining[t] = <<>>
    <3>1. b = written /\ in_queue' = in_queue
      BY <1>3, <1>4, <2>2 DEF StreamAt
    <3> QED BY <3>1 DEF StreamAt
  <2> QED BY <2>1, <2>2
<1>8. PICK y \in Nat : y = written
  BY <1>1
<1>9. StreamAt(d, a, y)'
  BY <1>5, <1>6, <1>7, <1>8 DEF StreamAt
<1> QED BY <1>9

\* A call of usbip_device_write brings the next bytes.
LEMMA StreamWrite ==
  ASSUME OnePipe, TypeInv, PipePhases, NEW t \in Threads, NEW n \in 1..MaxBytes, DeviceWrite(t, n),
         NEW d \in Nat, NEW a \in Nat, NEW b \in Nat, StreamAt(d, a, b)
  PROVE  StreamAt(d, a, b)'
<1> USE DEF Goto, epvars, hostvars, threadvars
<1>1. /\ remaining \in [Threads -> Seq(Nat)] /\ t \in Writers /\ pc[t] = "idle"
      /\ written \in Nat /\ n \in Nat
  BY BoundAssumption DEF TypeInv, TypeOK, DeviceWrite, Free
<1>2. \A v \in Threads : remaining[v] = <<>>
  BY <1>1 DEF PipePhases, OnePipe
<1>3. b = written
  BY <1>2 DEF StreamAt
<1>4. /\ remaining' = [remaining EXCEPT ![t] = Run(written, n)] /\ written' = written + n
      /\ UNCHANGED <<data, in_queue, replies>>
  BY DEF DeviceWrite, Run
<1>5. Len(Run(written, n)) = n
  BY <1>1 DEF Run
<1>6. /\ remaining'[t] = Run(written, n)
      /\ \A v \in Threads \ {t} : remaining'[v] = <<>>
  BY <1>1, <1>2, <1>4
<1>7. \A v \in Threads : remaining'[v] # <<>> => IsRun(remaining'[v], b) /\ b + Len(remaining'[v]) = written'
  BY <1>3, <1>4, <1>5, <1>6 DEF IsRun
<1>8. remaining'[t] # <<>>
  <2>1. Len(<<>>) = 0 /\ n # 0
    OBVIOUS
  <2> QED BY <1>5, <1>6, <2>1
<1>9. DeliveredBytes' = DeliveredBytes /\ data' = data /\ in_queue' = in_queue
  BY <1>4 DEF DeliveredBytes
<1> QED BY <1>7, <1>8, <1>9 DEF StreamAt

\* The bytes a thread sends are there to be sent.
LEMMA StreamBound ==
  ASSUME TypeInv, NEW d \in Nat, NEW a \in Nat, NEW b \in Nat, StreamAt(d, a, b)
  PROVE  b <= written
<1>1. \A t \in Threads : remaining[t] \in Seq(Nat)
  BY DEF TypeInv, TypeOK
<1>2. \A t \in Threads : Len(remaining[t]) \in Nat
  BY <1>1
<1> QED BY <1>2 DEF StreamAt

\* The queue ends where it starts or later (the least position before the start would
\* have a predecessor).
LEMMA QueuedOrder ==
  ASSUME NEW q \in Seq(Seq(Nat)), NEW a \in Nat, NEW b \in Nat, Queued(q, a, b)
  PROVE  a <= b
<1>1. PICK pos \in [1..(Len(q) + 1) -> Nat] :
        /\ pos[1] = a
        /\ pos[Len(q) + 1] = b
        /\ \A k \in 1..Len(q) : IsRun(q[k], pos[k]) /\ pos[k + 1] = pos[k] + Len(q[k])
  BY DEF Queued
<1>2. Len(q) \in Nat /\ \A k \in 1..Len(q) : Len(q[k]) \in Nat
  <2>1. \A k \in 1..Len(q) : q[k] \in Seq(Nat)
    BY ElementOfSeq
  <2> QED BY <2>1
<1> DEFINE T == {k \in 1..(Len(q) + 1) : pos[k] < a}
<1>3. SUFFICES ASSUME T # {} PROVE FALSE
  <2>1. Len(q) + 1 \in 1..(Len(q) + 1)
    BY <1>2
  <2>2. b < a => Len(q) + 1 \in T
    BY <1>1, <2>1
  <2> QED BY <2>2
<1>4. T \in SUBSET Nat
  BY <1>2
<1>5. PICK k \in T : \A y \in T : ~(y < k)
  BY <1>3, <1>4, LeastElement
<1>6. k # 1 /\ k \in 1..(Len(q) + 1) /\ pos[k] < a
  BY <1>1, <1>5
<1>7. k - 1 \in 1..Len(q) /\ k - 1 \in 1..(Len(q) + 1) /\ k - 1 \notin T /\ (k - 1) + 1 = k
  BY <1>2, <1>5, <1>6
<1>8. pos[k] = pos[k - 1] + Len(q[k - 1]) /\ pos[k - 1] \in Nat /\ pos[k] \in Nat /\ ~(pos[k - 1] < a)
  BY <1>1, <1>6, <1>7
<1> QED BY <1>2, <1>6, <1>7, <1>8, SMTT(30)

\* A send is a delivery of the pipe, or delivers nothing.
LEMMA SendSimulates ==
  ASSUME OnePipe, TypeInv, PipePhases, NEW t \in Threads, NEW u, NEW st, Send(u, st, data[t]),
         data' = [data EXCEPT ![t] = <<>>],
         UNCHANGED <<in_queue, remaining, written>>, StreamInv
  PROVE  StreamInv' /\ [Pipe!Next]_(Pipe!vars)
<1>1. PICK d \in Nat, a \in Nat, b \in Nat : StreamAt(d, a, b)
  BY DEF StreamInv
<1>2. data[t] \in Seq(Nat) /\ in_queue \in Seq(Seq(Nat)) /\ written \in Nat
  BY BoundAssumption DEF TypeInv, TypeOK
<1>3. PICK n \in Nat : n = Len(data[t])
  BY <1>2
<1>4. IsRun(data[t], d) /\ StreamAt(d + n, a, b)'
  BY <1>1, <1>3, StreamSend
<1>5. StreamInv'
  BY <1>4 DEF StreamInv
<1>6. DeliveredBytes = Run(0, d) /\ DeliveredBytes' = Run(0, d + n)
  BY <1>1, <1>4 DEF StreamAt
<1>7. CASE n = 0
  <2>1. DeliveredBytes' = DeliveredBytes
    BY <1>6, <1>7
  <2> QED BY <1>5, <2>1 DEF Pipe!vars
<1>8. CASE n # 0
  <2>1. d + n <= written
    <3>1. data[t] # <<>>
      BY <1>3, <1>8
    <3>2. a = d + n /\ Queued(in_queue, a, b)
      BY <1>1, <1>3, <3>1 DEF StreamAt
    <3>3. a <= b /\ b <= written
      BY <1>1, <1>2, <3>2, QueuedOrder, StreamBound
    <3> QED BY <1>1, <1>2, <1>3, <3>2, <3>3
  <2>2. Len(DeliveredBytes) = d
    BY <1>1, <1>6 DEF Run
  <2>3. n \in 1..(written - Len(DeliveredBytes))
    BY <1>2, <1>3, <1>8, <2>1, <2>2
  <2>4. DeliveredBytes' = DeliveredBytes \o [i \in 1..n |-> Len(DeliveredBytes) + i]
    <3>1. data[t] = [i \in 1..n |-> d + i]
      BY <1>3, <1>4 DEF IsRun, Run
    <3>2. Run(0, d) \o data[t] = Run(0, d + n)
      BY <1>2, <1>3, <1>4, RunJoin
    <3> QED BY <1>6, <2>2, <3>1, <3>2
  <2>5. Pipe!Deliver
    BY <2>3, <2>4 DEF Pipe!Deliver
  <2> QED BY <1>5, <2>5 DEF Pipe!Next
<1> QED BY <1>7, <1>8

\* Every step of the endpoint is a step of the pipe, or one the pipe does not see.
LEMMA PipeStep ==
  ASSUME OnePipe, TypeInv, NoStarvedUrb, PipePhases, StreamInv, [Next]_vars
  PROVE  StreamInv' /\ [Pipe!Next]_(Pipe!vars)
<1> USE DEF Goto, epvars, hostvars, threadvars
<1>0. PICK d \in Nat, a \in Nat, b \in Nat : StreamAt(d, a, b)
  BY DEF StreamInv
<1>a. ASSUME UNCHANGED <<replies, data, in_queue, remaining, written>>
      PROVE  StreamInv' /\ [Pipe!Next]_(Pipe!vars)
  BY <1>0, <1>a, StreamIdle DEF StreamInv, Pipe!vars
<1>b. ASSUME UNCHANGED <<replies, written>>
      PROVE  [Pipe!Next]_(Pipe!vars)
  BY <1>b DEF DeliveredBytes, Pipe!vars
<1>c. data \in [Threads -> Seq(Nat)]
  BY DEF TypeInv, TypeOK
<1>1. CASE UNCHANGED vars
  BY <1>1, <1>a DEF vars
<1>2. ASSUME NEW c \in Conns,
             \/ Connect(c) \/ Close(c) \/ EpClearHalt(c) \/ Dispatch_Park(c)
             \/ \E l \in Lengths : Dispatch_HaltCheck(c, l)
             \/ \E s \in 1..MaxSeq : Unlink(c, s)
      PROVE  StreamInv' /\ [Pipe!Next]_(Pipe!vars)
  BY <1>2, <1>a DEF Connect, Close, EpClearHalt, Dispatch_Park, Dispatch_HaltCheck, Unlink
<1>3. ASSUME NEW c \in Conns, Dispatch_Slice(c)
      PROVE  StreamInv' /\ [Pipe!Next]_(Pipe!vars)
  <2>1. StreamInv'
    BY <1>0, <1>3, StreamSlice DEF StreamInv
  <2> QED BY <1>3, <1>b, <2>1 DEF Dispatch_Slice
<1>4. ASSUME NEW c \in Conns, Dispatch_Reply(c)
      PROVE  StreamInv' /\ [Pipe!Next]_(Pipe!vars)
  <2>1. c \in Threads /\ data' = [data EXCEPT ![c] = <<>>] /\ UNCHANGED <<in_queue, remaining, written>>
    BY <1>4 DEF Dispatch_Reply, Threads
  <2>2. \E u, st : Send(u, st, data[c])
    BY <1>4 DEF Dispatch_Reply
  <2> QED BY <2>1, <2>2, SendSimulates
<1>5. ASSUME NEW c \in Conns, Unlink_Reply(c)
      PROVE  StreamInv' /\ [Pipe!Next]_(Pipe!vars)
  <2>1. c \in Threads /\ data[c] = <<>> /\ UNCHANGED <<data, in_queue, remaining, written>>
    BY <1>5 DEF Unlink_Reply, Threads, PipePhases
  <2>2. data' = [data EXCEPT ![c] = <<>>]
    BY <1>c, <2>1
  <2>3. \E u, st : Send(u, st, data[c])
    BY <1>5, <2>1 DEF Unlink_Reply
  <2> QED BY <2>1, <2>2, <2>3, SendSimulates
<1>6. ASSUME NEW t \in Threads, NEW n \in 1..MaxBytes, DeviceWrite(t, n)
      PROVE  StreamInv' /\ [Pipe!Next]_(Pipe!vars)
  <2>1. StreamInv'
    BY <1>0, <1>6, StreamWrite DEF StreamInv
  <2>2. written \in Nat /\ n \in Nat /\ n > 0
    BY BoundAssumption DEF TypeInv, TypeOK
  <2>3. written' = written + n /\ replies' = replies
    BY <1>6 DEF DeviceWrite
  <2>4. DeliveredBytes' = DeliveredBytes
    BY <2>3 DEF DeliveredBytes
  <2>5. Pipe!Accept
    BY <2>2, <2>3, <2>4 DEF Pipe!Accept
  <2> QED BY <2>1, <2>5 DEF Pipe!Next
<1>7. ASSUME NEW t \in Threads, DeviceWrite_Feed(t)
      PROVE  StreamInv' /\ [Pipe!Next]_(Pipe!vars)
  <2>1. StreamInv'
    BY <1>0, <1>7, StreamFeed DEF StreamInv
  <2> QED BY <1>7, <1>b, <2>1 DEF DeviceWrite_Feed
<1>8. ASSUME NEW t \in Threads, DeviceWrite_Send(t)
      PROVE  StreamInv' /\ [Pipe!Next]_(Pipe!vars)
  <2>1. data' = [data EXCEPT ![t] = <<>>] /\ UNCHANGED <<in_queue, remaining, written>>
    BY <1>8 DEF DeviceWrite_Send
  <2>2. \E u, st : Send(u, st, data[t])
    BY <1>8 DEF DeviceWrite_Send
  <2> QED BY <2>1, <2>2, SendSimulates
<1>9. ASSUME NEW t \in Threads, DeviceWrite_Queue(t)
      PROVE  StreamInv' /\ [Pipe!Next]_(Pipe!vars)
  <2>1. StreamInv'
    BY <1>0, <1>9, StreamQueue DEF StreamInv
  <2> QED BY <1>9, <1>b, <2>1 DEF DeviceWrite_Queue
<1>10. ASSUME NEW t \in Threads, EpStall(t)
       PROVE  StreamInv' /\ [Pipe!Next]_(Pipe!vars)
  BY <1>10, <1>a DEF EpStall
<1>11. ASSUME NEW t \in Threads, EpStall_Send(t)
       PROVE  StreamInv' /\ [Pipe!Next]_(Pipe!vars)
  <2>1. data[t] = <<>> /\ UNCHANGED <<data, in_queue, remaining, written>>
    BY <1>11 DEF EpStall_Send, PipePhases
  <2>2. data' = [data EXCEPT ![t] = <<>>]
    BY <1>c, <2>1
  <2>3. \E u, st : Send(u, st, data[t])
    BY <1>11, <2>1 DEF EpStall_Send
  <2> QED BY <2>1, <2>2, <2>3, SendSimulates
<1> QED
  BY <1>1, <1>2, <1>3, <1>4, <1>5, <1>6, <1>7, <1>8, <1>9, <1>10, <1>11
     DEF Next, ServeStep, CallStep

LEMMA PipeInit == Init => PipePhases /\ StreamInv /\ Pipe!Init
<1> SUFFICES ASSUME Init PROVE PipePhases /\ StreamInv /\ Pipe!Init
  OBVIOUS
<1>1. PipePhases
  BY DEF Init, PipePhases, Threads
<1>2. DeliveredBytes = <<>>
  <2>1. [i \in DOMAIN replies |-> replies[i].data] = <<>>
    BY DEF Init
  <2> QED BY <2>1 DEF DeliveredBytes, FlattenSeq
<1>3. Pipe!Init
  BY <1>2 DEF Init, Pipe!Init
<1>4. Run(0, 0) = <<>> /\ Queued(<<>>, 0, 0)
  BY QueuedEmpty DEF Run
<1>5. StreamAt(0, 0, 0)
  BY <1>2, <1>4 DEF Init, StreamAt
<1> QED BY <1>1, <1>3, <1>5 DEF StreamInv

\* The endpoint implements the byte pipe for one host and one writing thread, whatever
\* the lengths of writes and URBs, and also when URBs are unlinked, the endpoint is
\* halted under way or the host leaves: usbip_device_write and usbip_device_dispatch
\* hand out the bytes in the order they were written, none twice and none skipped,
\* although every reply is sent with the mutex released.
THEOREM ImplementsPipeHolds ==
  ASSUME \A c, d \in Conns : c = d, \A t, v \in Writers : t = v
  PROVE  Spec => ImplementsPipe
<1>0. OnePipe
  BY DEF OnePipe
<1> DEFINE Inv == TypeInv /\ NoStarvedUrb /\ PipePhases /\ StreamInv
<1>1. Init => Inv /\ Pipe!Init
  BY TypeInit, PipeInit DEF Init, NoStarvedUrb
<1>2. Inv /\ [Next]_vars => Inv' /\ [Pipe!Next]_(Pipe!vars)
  BY <1>0, TypeNext, NoStarvedNext, PhasesNext, PipeStep
<1> HIDE DEF Inv
<1> QED BY <1>1, <1>2, PTL DEF Spec, ImplementsPipe, Pipe!Spec
=============================================================================
