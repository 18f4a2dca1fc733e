------------------------- MODULE OutEndpointProofs -------------------------
(***************************************************************************)
(* Theorems about OutEndpoint, for any hosts, any finite set of readers    *)
(* and any bounds.                                                         *)
(***************************************************************************)
EXTENDS OutEndpoint, FiniteSetTheorems, SequenceTheorems, TLAPS

Inv == TypeOK /\ NoLostWakeup

LEMMA InitInv == Init => Inv
<1> SUFFICES ASSUME Init
             PROVE  Inv
  OBVIOUS
<1> USE OutAssumption
<1>1. TypeOK
  <2>1. halted \in BOOLEAN
    BY DEF Init
  <2>5. sent \in 0..MaxBytes
    BY DEF Init
  <2>2. out_queue \in Seq(Seq(Byte)) /\ acked \in Seq(Seq(Byte)) /\ reads \in Seq(Seq(Byte))
    BY DEF Init
  <2>3. urb \in [Conns -> Seq(Byte)] /\ dbuf \in [Readers -> Seq(Byte)]
    BY DEF Init
  <2>4. /\ serve \in [Conns -> {"read", "queue", "reply", "stall"}]
        /\ reader \in [Readers -> {"idle", "locked", "wait", "copy"}]
        /\ cap \in [Readers -> Caps \cup {0}]
    BY DEF Init
  <2> QED BY <2>1, <2>2, <2>3, <2>4, <2>5 DEF TypeOK
<1>2. NoLostWakeup
  BY DEF Init, NoLostWakeup, Asleep
<1> QED BY <1>1, <1>2 DEF Inv

-----------------------------------------------------------------------------
(* Type correctness                                                        *)

\* What usbip_device_read copies out is a byte string.
LEMMA CopiedType ==
  ASSUME NEW s \in Seq(Byte), NEW n \in Nat
  PROVE  Copied(s, n) \in Seq(Byte)
<1>1. CASE Len(s) < n
  BY <1>1 DEF Copied
<1>2. CASE ~(Len(s) < n)
  <2>1. SubSeq(s, 1, n) \in Seq(Byte)
    BY <1>2, SubSeqProperties
  <2> QED BY <2>1, <1>2 DEF Copied
<1> QED BY <1>1, <1>2

LEMMA TypeNext ==
  ASSUME TypeOK, [Next]_vars
  PROVE  TypeOK'
<1> USE OutAssumption DEF TypeOK, servevars, readervars
<1>1. ASSUME NEW c \in Conns, NEW n \in Sizes, Dispatch_HaltCheck(c, n)
      PROVE  TypeOK'
  <2>1. n \in Nat /\ sent \in Nat
    OBVIOUS
  <2>2. [i \in 1..n |-> <<c, sent + i>>] \in Seq(Byte)
    BY <2>1 DEF Byte
  <2>3. urb' \in [Conns -> Seq(Byte)]
    BY <2>2, <1>1 DEF Dispatch_HaltCheck
  <2>4. sent' \in 0..MaxBytes /\ serve' \in [Conns -> {"read", "queue", "reply", "stall"}]
    BY <2>1, <1>1 DEF Dispatch_HaltCheck
  <2> QED BY <2>3, <2>4, <1>1 DEF Dispatch_HaltCheck
<1>2. ASSUME NEW c \in Conns, Dispatch_Queue(c)
      PROVE  TypeOK'
  <2>1. out_queue' \in Seq(Seq(Byte))
    BY <1>2 DEF Dispatch_Queue, enq_dbuf
  <2>2. reader' \in [Readers -> {"idle", "locked", "wait", "copy"}]
    BY <1>2 DEF Dispatch_Queue
  <2> QED BY <2>1, <2>2, <1>2 DEF Dispatch_Queue
<1>3. ASSUME NEW c \in Conns, Dispatch_Reply(c)
      PROVE  TypeOK'
  BY <1>3 DEF Dispatch_Reply
<1>4. ASSUME NEW v \in BOOLEAN, SetHalt(v)
      PROVE  TypeOK'
  BY <1>4 DEF SetHalt
<1>5. ASSUME NEW r \in Readers, NEW n \in Caps, DeviceRead(r, n)
      PROVE  TypeOK'
  BY <1>5 DEF DeviceRead
<1>6. ASSUME NEW r \in Readers, DeviceRead_Wait(r) \/ DeviceRead_Spurious(r)
      PROVE  TypeOK'
  BY <1>6 DEF DeviceRead_Wait, DeviceRead_Spurious
<1>7. ASSUME NEW r \in Readers, DeviceRead_Take(r)
      PROVE  TypeOK'
  <2>1. Head(out_queue) \in Seq(Byte) /\ Tail(out_queue) \in Seq(Seq(Byte))
    BY <1>7, HeadTailProperties DEF DeviceRead_Take
  <2> QED BY <2>1, <1>7 DEF DeviceRead_Take, deq_dbuf
<1>8. ASSUME NEW r \in Readers, DeviceRead_Return(r)
      PROVE  TypeOK'
  <2>1. cap[r] \in Nat
    <3>1. cap[r] \in Caps \/ cap[r] = 0
      OBVIOUS
    <3>2. \A n \in Caps : n \in Nat
      OBVIOUS
    <3> HIDE DEF TypeOK
    <3> QED BY ONLY <3>1, <3>2, SMT
  <2>3. dbuf[r] \in Seq(Byte)
    OBVIOUS
  <2>2. Copied(dbuf[r], cap[r]) \in Seq(Byte)
    BY <2>1, <2>3, CopiedType
  <2> QED BY <2>2, <1>8 DEF DeviceRead_Return
<1>9. CASE UNCHANGED vars
  BY <1>9 DEF vars
<1> QED BY <1>1, <1>2, <1>3, <1>4, <1>5, <1>6, <1>7, <1>8, <1>9 DEF Next, ServeStep, ReadStep

-----------------------------------------------------------------------------
(* No lost wake-up                                                         *)

\* Readers are finitely many, so they can be counted.
LEMMA AwakeCounted ==
  /\ IsFiniteSet(Awake)
  /\ Cardinality(Awake) \in Nat
<1>1. IsFiniteSet(Awake)
  BY OutAssumption, FS_Subset DEF Awake
<1> QED BY <1>1, FS_CardinalityType

\* A reader that was not awake and is now makes one more.
LEMMA OneMoreAwake ==
  ASSUME TypeOK, NEW r \in Readers, reader[r] # "locked",
         reader' = [reader EXCEPT ![r] = "locked"]
  PROVE  Cardinality(Awake') = Cardinality(Awake) + 1
<1>1. Awake' = Awake \cup {r} /\ r \notin Awake
  BY DEF TypeOK, Awake
<1> QED BY <1>1, AwakeCounted, FS_AddElement

\* A reader that takes a transfer makes one less.
LEMMA OneLessAwake ==
  ASSUME TypeOK, NEW r \in Readers, reader[r] = "locked", NEW s \in {"copy"},
         reader' = [reader EXCEPT ![r] = s]
  PROVE  Cardinality(Awake') = Cardinality(Awake) - 1
<1>1. Awake' = Awake \ {r} /\ r \in Awake
  BY DEF TypeOK, Awake
<1> QED BY <1>1, AwakeCounted, FS_RemoveElement

LEMMA NextInv == Inv /\ [Next]_vars => Inv'
<1> SUFFICES ASSUME Inv, [Next]_vars
             PROVE  Inv'
  OBVIOUS
<1>1. TypeOK /\ TypeOK'
  BY TypeNext DEF Inv
<1>2. Len(out_queue) \in Nat /\ Cardinality(Awake) \in Nat
  BY <1>1, AwakeCounted DEF TypeOK
<1>3. Asleep # {} => Len(out_queue) <= Cardinality(Awake)
  BY DEF Inv, NoLostWakeup
<1>4. ASSUME UNCHANGED <<out_queue, reader>>
      PROVE  NoLostWakeup'
  BY <1>3, <1>4 DEF NoLostWakeup, Asleep, Awake
<1>5. ASSUME NEW c \in Conns, Dispatch_Queue(c)
      PROVE  NoLostWakeup'
  <2>1. CASE Asleep = {}
    <3>1. UNCHANGED reader
      BY <2>1, <1>5 DEF Dispatch_Queue, Asleep
    <3> QED BY <2>1, <3>1 DEF NoLostWakeup, Asleep
  <2>2. CASE Asleep # {}
    <3>1. PICK r \in Asleep : reader' = [reader EXCEPT ![r] = "locked"]
      BY <2>2, <1>5 DEF Dispatch_Queue, Signals, Asleep
    <3>2. Cardinality(Awake') = Cardinality(Awake) + 1
      BY <3>1, <1>1, OneMoreAwake DEF Asleep
    <3>3. Len(out_queue') = Len(out_queue) + 1
      BY <1>1, <1>5 DEF Dispatch_Queue, enq_dbuf, TypeOK
    <3> QED BY <2>2, <3>2, <3>3, <1>2, <1>3 DEF NoLostWakeup
  <2> QED BY <2>1, <2>2
<1>6. ASSUME NEW r \in Readers, DeviceRead_Spurious(r) \/ \E n \in Caps : DeviceRead(r, n)
      PROVE  NoLostWakeup'
  <2>1. /\ reader[r] # "locked" /\ reader' = [reader EXCEPT ![r] = "locked"]
        /\ UNCHANGED out_queue
    BY <1>6 DEF DeviceRead_Spurious, DeviceRead
  <2>2. Cardinality(Awake') = Cardinality(Awake) + 1
    BY <2>1, <1>1, OneMoreAwake
  <2>3. Asleep' \subseteq Asleep
    BY <2>1, <1>1 DEF TypeOK, Asleep
  <2> QED BY <2>1, <2>2, <2>3, <1>2, <1>3 DEF NoLostWakeup
<1>7. ASSUME NEW r \in Readers, DeviceRead_Wait(r)
      PROVE  NoLostWakeup'
  <2>1. Len(out_queue') = 0
    BY <1>7 DEF DeviceRead_Wait
  <2>2. Cardinality(Awake)' \in Nat
    <3>1. IsFiniteSet(Awake')
      BY OutAssumption, FS_Subset DEF Awake
    <3> QED BY <3>1, FS_CardinalityType
  <2> QED BY <2>1, <2>2 DEF NoLostWakeup
<1>8. ASSUME NEW r \in Readers, DeviceRead_Take(r)
      PROVE  NoLostWakeup'
  <2>1. /\ reader[r] = "locked" /\ reader' = [reader EXCEPT ![r] = "copy"]
        /\ out_queue # <<>> /\ out_queue' = Tail(out_queue)
    BY <1>8 DEF DeviceRead_Take, deq_dbuf
  <2>2. Cardinality(Awake') = Cardinality(Awake) - 1
    BY <2>1, <1>1, OneLessAwake
  <2>3. Len(out_queue') = Len(out_queue) - 1
    BY <2>1, <1>1, HeadTailProperties DEF TypeOK
  <2>4. Asleep' = Asleep
    BY <2>1, <1>1 DEF TypeOK, Asleep
  <2> QED BY <2>2, <2>3, <2>4, <1>2, <1>3 DEF NoLostWakeup
<1>9. ASSUME NEW r \in Readers, DeviceRead_Return(r)
      PROVE  NoLostWakeup'
  <2>1. Awake' = Awake /\ Asleep' = Asleep /\ UNCHANGED out_queue
    BY <1>1, <1>9 DEF DeviceRead_Return, TypeOK, Awake, Asleep
  <2> QED BY <2>1, <1>3 DEF NoLostWakeup
<1>10. ASSUME NEW c \in Conns, Dispatch_Reply(c) \/ \E n \in Sizes : Dispatch_HaltCheck(c, n)
       PROVE  NoLostWakeup'
  <2>1. UNCHANGED <<out_queue, reader>>
    BY <1>10 DEF Dispatch_Reply, Dispatch_HaltCheck, readervars
  <2> QED BY <2>1, <1>4
<1>11. ASSUME NEW v \in BOOLEAN, SetHalt(v)
       PROVE  NoLostWakeup'
  <2>1. UNCHANGED <<out_queue, reader>>
    BY <1>11 DEF SetHalt, readervars
  <2> QED BY <2>1, <1>4
<1>12. ASSUME UNCHANGED vars
       PROVE  NoLostWakeup'
  <2>1. UNCHANGED <<out_queue, reader>>
    BY <1>12 DEF vars, readervars
  <2> QED BY <2>1, <1>4
<1>13. NoLostWakeup'
  BY <1>5, <1>6, <1>7, <1>8, <1>9, <1>10, <1>11, <1>12 DEF Next, ServeStep, ReadStep
<1> QED BY <1>1, <1>13 DEF Inv

-----------------------------------------------------------------------------
(* The theorems                                                            *)

LEMMA InvHolds == Spec => []Inv
<1>1. Init => Inv
  BY InitInv
<1>2. Inv /\ [Next]_vars => Inv'
  BY NextInv
<1> QED BY <1>1, <1>2, PTL DEF Spec

\* The endpoint keeps its types: no reader gets anything but bytes of a transfer.
THEOREM TypeCorrect == Spec => []TypeOK
<1>1. Inv => TypeOK
  BY DEF Inv
<1> QED BY <1>1, InvHolds, PTL

\* The one pthread_cond_signal per transfer of usbip_device_dispatch is enough for any
\* number of hosts and readers: no reader of usbip_device_read sleeps while more is queued
\* than the readers that are awake will take.
THEOREM NoLostWakeupHolds == Spec => []NoLostWakeup
<1>1. Inv => NoLostWakeup
  BY DEF Inv
<1> QED BY <1>1, InvHolds, PTL

-----------------------------------------------------------------------------
(* Transfers are exact                                                     *)

\* A reader holds a transfer only while it copies, into a buffer it was given.
BufferInv ==
  /\ \A r \in Readers : reader[r] # "copy" => dbuf[r] = <<>>
  /\ \A r \in Readers : reader[r] # "idle" => cap[r] \in Caps

\* Bytes are numbered as they arrive, and a URB holds bytes of its own host.
Numbered(s) == \A k \in DOMAIN s : s[k][2] <= sent
NumberInv ==
  /\ \A i \in DOMAIN out_queue : Numbered(out_queue[i])
  /\ \A r \in Readers : Numbered(dbuf[r])
  /\ \A i \in DOMAIN reads : Numbered(reads[i])
  /\ \A c \in Conns : Numbered(urb[c]) /\ \A k \in DOMAIN urb[c] : urb[c][k][1] = c

\* A URB on its way to the queue comes after everything its host sent before.
ComesLast(t) ==
  /\ \A i \in DOMAIN out_queue : Precedes(out_queue[i], t)
  /\ \A r \in Readers : Precedes(dbuf[r], t)
  /\ \A i \in DOMAIN reads : Precedes(reads[i], t)
ArrivalInv == \A c \in Conns : serve[c] = "queue" => ComesLast(urb[c])

\* No transfer was taken twice.
SameStart(s, t) == s # <<>> /\ t # <<>> /\ s[1] = t[1]
OnceInv ==
  /\ \A r, q \in Readers : SameStart(dbuf[r], dbuf[q]) => r = q
  /\ \A r \in Readers, i \in DOMAIN reads : ~SameStart(dbuf[r], reads[i])
  /\ \A i, j \in DOMAIN reads : SameStart(reads[i], reads[j]) => i = j

\* What was or will be acknowledged is somewhere.
HasCopy(b) ==
  \/ \E i \in DOMAIN out_queue : Starts(out_queue[i], b)
  \/ \E r \in Readers : Starts(dbuf[r], b)
  \/ \E i \in DOMAIN reads : Starts(reads[i], b)
KeptInv ==
  /\ \A i \in DOMAIN acked : acked[i] # <<>> => HasCopy(acked[i][1])
  /\ \A c \in Conns : serve[c] = "reply" /\ urb[c] # <<>> => HasCopy(urb[c][1])

ExactInv == BufferInv /\ NumberInv /\ ArrivalInv /\ TakenInOrder /\ OnceInv /\ KeptInv

\* Where two transfers of one stream are in order they are not the same.
LEMMA PrecedesDiffer ==
  ASSUME NEW s \in Seq(Byte), NEW t \in Seq(Byte), Precedes(s, t)
  PROVE  ~SameStart(s, t)
<1> SUFFICES ASSUME s # <<>>, t # <<>>, s[1] = t[1]
             PROVE  FALSE
  BY DEF SameStart
<1>1. 1 \in DOMAIN s /\ 1 \in DOMAIN t
  BY EmptySeq, LenProperties
<1>2. s[1][2] < t[1][2] /\ t[1] \in Byte
  BY <1>1 DEF Precedes
<1> QED BY <1>2 DEF Byte

\* A buffer takes the first bytes of a transfer, at least one of them.
LEMMA CopiedPrefix ==
  ASSUME NEW s \in Seq(Byte), NEW n \in Nat \ {0}
  PROVE  /\ Copied(s, n) \in Seq(Byte)
         /\ DOMAIN Copied(s, n) \subseteq DOMAIN s
         /\ \A k \in DOMAIN Copied(s, n) : Copied(s, n)[k] = s[k]
         /\ Copied(s, n) = <<>> <=> s = <<>>
<1>1. CASE Len(s) < n
  BY <1>1 DEF Copied
<1>2. CASE ~(Len(s) < n)
  <2>1. n <= Len(s) /\ Len(s) \in Nat /\ DOMAIN s = 1..Len(s)
    BY <1>2, LenProperties
  <2>2. \A k \in 1..n : s[k] \in Byte
    BY <2>1
  <2>3. /\ SubSeq(s, 1, n) \in Seq(Byte) /\ Len(SubSeq(s, 1, n)) = n
        /\ \A k \in 1..n : SubSeq(s, 1, n)[k] = s[k]
    BY <2>2, SubSeqProperties
  <2>4. DOMAIN SubSeq(s, 1, n) = 1..n
    BY <2>3, LenProperties
  <2>5. SubSeq(s, 1, n) # <<>> /\ s # <<>>
    BY <2>1, <2>3, EmptySeq
  <2> QED BY <2>1, <2>3, <2>4, <2>5, <1>2 DEF Copied
<1> QED BY <1>1, <1>2

LEMMA ExactInit == Init => ExactInv
BY DEF Init, ExactInv, BufferInv, NumberInv, Numbered, ArrivalInv, TakenInOrder, OnceInv, SameStart, KeptInv

\* A URB that arrives is numbered behind everything there is.
LEMMA ArriveExact ==
  ASSUME TypeOK, ExactInv, NEW c \in Conns, NEW n \in Sizes, Dispatch_HaltCheck(c, n)
  PROVE  ExactInv'
<1> DEFINE u == [i \in 1..n |-> <<c, sent + i>>]
<1>1. /\ sent' = sent + n /\ urb' = [urb EXCEPT ![c] = u]
      /\ serve' = [serve EXCEPT ![c] = IF halted THEN "stall" ELSE "queue"]
      /\ UNCHANGED <<halted, out_queue, reader, cap, dbuf, acked, reads>>
  BY DEF Dispatch_HaltCheck, readervars
<1>2. sent \in Nat /\ n \in Nat /\ sent' \in Nat /\ sent <= sent'
  BY <1>1, OutAssumption DEF TypeOK
<1>3. \A s : (\A k \in DOMAIN s : s[k] \in Byte) /\ Numbered(s) =>
        Numbered(s)' /\ Precedes(s, u)
  BY <1>1, <1>2 DEF Numbered, Precedes, Byte
<1>4. /\ \A i \in DOMAIN out_queue : \A k \in DOMAIN out_queue[i] : out_queue[i][k] \in Byte
      /\ \A i \in DOMAIN reads : \A k \in DOMAIN reads[i] : reads[i][k] \in Byte
      /\ \A r \in Readers : \A k \in DOMAIN dbuf[r] : dbuf[r][k] \in Byte
      /\ \A d \in Conns : \A k \in DOMAIN urb[d] : urb[d][k] \in Byte
  BY DEF TypeOK
<1>5. /\ \A k \in DOMAIN u : u[k][1] = c /\ u[k][2] <= sent'
  BY <1>1, <1>2
<1> HIDE DEF u
<1>6. urb'[c] = u /\ \A d \in Conns : d # c => urb'[d] = urb[d]
  BY <1>1 DEF TypeOK
<1>7. NumberInv'
  <2>1. \A d \in Conns : Numbered(urb[d])' /\ \A k \in DOMAIN urb'[d] : urb'[d][k][1] = d
    BY <1>1, <1>3, <1>4, <1>5, <1>6 DEF ExactInv, NumberInv, Numbered
  <2> QED BY <2>1, <1>1, <1>3, <1>4 DEF ExactInv, NumberInv
<1>8. ArrivalInv'
  <2>1. ComesLast(u)
    BY <1>3, <1>4 DEF ExactInv, NumberInv, ComesLast
  <2>2. \A d \in Conns : serve'[d] = "queue" => ComesLast(urb'[d])
    BY <2>1, <1>1, <1>6 DEF ExactInv, ArrivalInv, TypeOK
  <2> QED BY <2>2, <1>1 DEF ArrivalInv, ComesLast
<1>9. BufferInv' /\ TakenInOrder' /\ OnceInv'
  BY <1>1 DEF ExactInv, BufferInv, TakenInOrder, OnceInv
<1>10. KeptInv'
  BY <1>1, <1>6 DEF ExactInv, KeptInv, HasCopy, TypeOK
<1> QED BY <1>7, <1>8, <1>9, <1>10 DEF ExactInv

\* The transfer moves from the URB to the end of the queue.
LEMMA QueueExact ==
  ASSUME TypeOK, ExactInv, NEW c \in Conns, Dispatch_Queue(c)
  PROVE  ExactInv'
<1>1. /\ serve[c] = "queue" /\ out_queue' = Append(out_queue, urb[c])
      /\ serve' = [serve EXCEPT ![c] = "reply"]
      /\ UNCHANGED <<halted, urb, cap, dbuf, sent, acked, reads>>
  BY DEF Dispatch_Queue, enq_dbuf
<1>2. \A r \in Readers : reader'[r] = reader[r] \/ (reader[r] = "wait" /\ reader'[r] = "locked")
  BY DEF Dispatch_Queue, TypeOK
<1> DEFINE n == Len(out_queue) + 1
<1>3. /\ DOMAIN out_queue = 1..(n - 1) /\ DOMAIN out_queue' = 1..n /\ n \in Nat \ {0}
      /\ out_queue'[n] = urb[c] /\ \A i \in 1..(n - 1) : out_queue'[i] = out_queue[i]
  BY <1>1 DEF TypeOK
<1> HIDE DEF n
<1>4. BufferInv'
  BY <1>1, <1>2 DEF ExactInv, BufferInv
<1>5. NumberInv'
  <2>1. \A i \in DOMAIN out_queue' : Numbered(out_queue'[i])
    BY <1>3 DEF ExactInv, NumberInv
  <2> QED BY <2>1, <1>1 DEF ExactInv, NumberInv, Numbered
<1>6. ComesLast(urb[c])
  BY <1>1 DEF ExactInv, ArrivalInv
<1>7. TakenInOrder'
  <2>1. ASSUME NEW j \in 1..n, j # n
        PROVE  /\ \A i \in 1..(j - 1) : Precedes(out_queue'[i], out_queue'[j])
               /\ \A r \in Readers : Precedes(dbuf[r], out_queue'[j])
               /\ \A i \in DOMAIN reads : Precedes(reads[i], out_queue'[j])
    <3>1. j \in DOMAIN out_queue /\ \A i \in 1..(j - 1) : i \in 1..(n - 1)
      BY <2>1, <1>3
    <3> QED BY <3>1, <1>3 DEF ExactInv, TakenInOrder
  <2>2. /\ \A i \in 1..(n - 1) : Precedes(out_queue'[i], out_queue'[n])
        /\ \A r \in Readers : Precedes(dbuf[r], out_queue'[n])
        /\ \A i \in DOMAIN reads : Precedes(reads[i], out_queue'[n])
    BY <1>3, <1>6 DEF ComesLast
  <2> QED BY <2>1, <2>2, <1>1, <1>3 DEF TakenInOrder
<1>8. ArrivalInv'
  <2> SUFFICES ASSUME NEW d \in Conns, serve'[d] = "queue"
               PROVE  ComesLast(urb[d])'
    BY DEF ArrivalInv
  <2>1. d # c /\ ComesLast(urb[d])
    BY <1>1 DEF ExactInv, ArrivalInv, TypeOK
  <2>2. Precedes(urb[c], urb[d])
    BY <2>1 DEF ExactInv, NumberInv, Precedes
  <2> QED BY <2>1, <2>2, <1>1, <1>3 DEF ComesLast
<1>9. OnceInv'
  BY <1>1 DEF ExactInv, OnceInv
<1>10. KeptInv'
  <2>1. \A b : HasCopy(b) => HasCopy(b)'
    BY <1>1, <1>3 DEF HasCopy
  <2>2. urb[c] # <<>> => HasCopy(urb[c][1])'
    <3>1. n \in DOMAIN out_queue' /\ urb' = urb /\ out_queue'[n] = urb[c]
      BY <1>1, <1>3
    <3>2. urb[c] # <<>> => Starts(out_queue'[n], urb'[c][1])
      BY <3>1 DEF Starts
    <3> QED BY <3>1, <3>2 DEF HasCopy
  <2>3. \A d \in Conns : serve'[d] = "reply" => d = c \/ serve[d] = "reply"
    BY <1>1 DEF TypeOK
  <2> QED BY <2>1, <2>2, <2>3, <1>1 DEF ExactInv, KeptInv
<1> QED BY <1>4, <1>5, <1>7, <1>8, <1>9, <1>10 DEF ExactInv

LEMMA ReplyExact ==
  ASSUME TypeOK, ExactInv, NEW c \in Conns, Dispatch_Reply(c)
  PROVE  ExactInv'
<1>1. /\ serve[c] \in {"reply", "stall"}
      /\ acked' = IF serve[c] = "reply" THEN Append(acked, urb[c]) ELSE acked
      /\ urb' = [urb EXCEPT ![c] = <<>>] /\ serve' = [serve EXCEPT ![c] = "read"]
      /\ UNCHANGED <<halted, out_queue, reader, cap, dbuf, sent, reads>>
  BY DEF Dispatch_Reply, readervars
<1>2. /\ urb'[c] = <<>> /\ \A d \in Conns : d # c => urb'[d] = urb[d] /\ serve'[d] = serve[d]
      /\ serve'[c] = "read"
  BY <1>1 DEF TypeOK
<1>3. BufferInv' /\ TakenInOrder' /\ OnceInv'
  BY <1>1 DEF ExactInv, BufferInv, TakenInOrder, OnceInv
<1>4. NumberInv'
  <2>1. \A d \in Conns : (\A k \in DOMAIN urb'[d] : urb'[d][k][2] <= sent /\ urb'[d][k][1] = d)
    BY <1>2 DEF ExactInv, NumberInv, Numbered
  <2> QED BY <2>1, <1>1 DEF ExactInv, NumberInv, Numbered
<1>5. ArrivalInv'
  <2>1. \A d \in Conns : serve'[d] = "queue" => d # c /\ ComesLast(urb'[d])
    BY <1>2 DEF ExactInv, ArrivalInv
  <2> QED BY <2>1, <1>1 DEF ArrivalInv, ComesLast
<1>6. KeptInv'
  <2>1. \A b : HasCopy(b)' <=> HasCopy(b)
    BY <1>1 DEF HasCopy
  <2>2. \A i \in DOMAIN acked' : acked'[i] # <<>> => HasCopy(acked'[i][1])
    <3>1. CASE serve[c] = "reply"
      <4>1. \A i \in DOMAIN acked' : (i \in DOMAIN acked /\ acked'[i] = acked[i]) \/ acked'[i] = urb[c]
        <5>1. acked \in Seq(Seq(Byte)) /\ urb[c] \in Seq(Byte) /\ acked' = Append(acked, urb[c])
          BY <1>1, <3>1 DEF TypeOK
        <5> QED BY <5>1
      <4> QED BY <4>1, <3>1 DEF ExactInv, KeptInv
    <3>2. CASE serve[c] # "reply"
      BY <1>1, <3>2 DEF ExactInv, KeptInv
    <3> QED BY <3>1, <3>2
  <2>3. \A d \in Conns : serve'[d] = "reply" /\ urb'[d] # <<>> => HasCopy(urb'[d][1])
    BY <1>2 DEF ExactInv, KeptInv
  <2> QED BY <2>1, <2>2, <2>3 DEF KeptInv
<1> QED BY <1>3, <1>4, <1>5, <1>6 DEF ExactInv

\* A reader takes the first transfer of the queue.
LEMMA TakeExact ==
  ASSUME TypeOK, ExactInv, NEW r \in Readers, DeviceRead_Take(r)
  PROVE  ExactInv'
<1> DEFINE n == Len(out_queue)  t == Head(out_queue)
<1>1. /\ reader[r] = "locked" /\ out_queue # <<>> /\ dbuf' = [dbuf EXCEPT ![r] = t]
      /\ out_queue' = Tail(out_queue) /\ reader' = [reader EXCEPT ![r] = "copy"]
      /\ UNCHANGED <<halted, serve, urb, cap, sent, acked, reads>>
  BY DEF DeviceRead_Take, deq_dbuf, servevars
<1>2. /\ n \in Nat \ {0} /\ DOMAIN out_queue = 1..n /\ t = out_queue[1] /\ t \in Seq(Byte)
      /\ DOMAIN out_queue' = 1..(n - 1) /\ \A i \in 1..(n - 1) : out_queue'[i] = out_queue[i + 1]
  <2>1. out_queue \in Seq(Seq(Byte)) /\ n \in Nat \ {0}
    BY <1>1, EmptySeq DEF TypeOK
  <2> QED BY <2>1, <1>1, HeadTailProperties, LenProperties
<1>3. dbuf'[r] = t /\ \A q \in Readers : q # r => dbuf'[q] = dbuf[q] /\ reader'[q] = reader[q]
  BY <1>1 DEF TypeOK
<1>4. dbuf[r] = <<>>
  BY <1>1 DEF ExactInv, BufferInv
<1> HIDE DEF n, t
<1>5. BufferInv'
  BY <1>1, <1>3 DEF ExactInv, BufferInv, TypeOK
<1>6. NumberInv'
  <2>1. Numbered(t) /\ \A q \in Readers : Numbered(dbuf'[q])
    BY <1>2, <1>3 DEF ExactInv, NumberInv
  <2>2. \A i \in DOMAIN out_queue' : Numbered(out_queue'[i])
    BY <1>2 DEF ExactInv, NumberInv
  <2> QED BY <2>1, <2>2, <1>1 DEF ExactInv, NumberInv, Numbered
<1>7. ArrivalInv'
  <2> SUFFICES ASSUME NEW d \in Conns, serve[d] = "queue", ComesLast(urb[d])
               PROVE  ComesLast(urb[d])'
    BY <1>1 DEF ArrivalInv, ExactInv
  <2>1. \A i \in DOMAIN out_queue' : Precedes(out_queue'[i], urb[d])
    BY <1>2 DEF ComesLast
  <2>2. \A q \in Readers : Precedes(dbuf'[q], urb[d])
    BY <1>2, <1>3 DEF ComesLast
  <2> QED BY <2>1, <2>2, <1>1 DEF ComesLast
<1>8. TakenInOrder'
  <2> SUFFICES ASSUME NEW j \in 1..(n - 1)
               PROVE  /\ \A i \in 1..(j - 1) : Precedes(out_queue'[i], out_queue'[j])
                      /\ \A q \in Readers : Precedes(dbuf'[q], out_queue'[j])
                      /\ \A i \in DOMAIN reads : Precedes(reads[i], out_queue'[j])
    BY <1>1, <1>2 DEF TakenInOrder
  <2>1. /\ \A i \in 1..j : Precedes(out_queue[i], out_queue[j + 1])
        /\ \A q \in Readers : Precedes(dbuf[q], out_queue[j + 1])
        /\ \A i \in DOMAIN reads : Precedes(reads[i], out_queue[j + 1])
    <3>1. j + 1 \in DOMAIN out_queue /\ (j + 1) - 1 = j
      BY <1>2
    <3> QED BY <3>1 DEF ExactInv, TakenInOrder
  <2>2. \A i \in 1..(j - 1) : Precedes(out_queue'[i], out_queue'[j])
    BY <2>1, <1>2
  <2>3. Precedes(t, out_queue'[j])
    BY <2>1, <1>2
  <2> QED BY <2>1, <2>2, <2>3, <1>2, <1>3
<1>9. OnceInv'
  <2>1. /\ \A q \in Readers : ~SameStart(dbuf[q], t) /\ ~SameStart(t, dbuf[q])
        /\ \A i \in DOMAIN reads : ~SameStart(reads[i], t) /\ ~SameStart(t, reads[i])
    <3>1. /\ \A q \in Readers : Precedes(dbuf[q], t) /\ dbuf[q] \in Seq(Byte)
          /\ \A i \in DOMAIN reads : Precedes(reads[i], t) /\ reads[i] \in Seq(Byte)
      <4>1. 1 \in DOMAIN out_queue
        BY <1>2
      <4>2. /\ \A q \in Readers : Precedes(dbuf[q], t)
            /\ \A i \in DOMAIN reads : Precedes(reads[i], t)
        BY <4>1, <1>2 DEF ExactInv, TakenInOrder
      <4> QED BY <4>2 DEF TypeOK
    <3>2. /\ \A q \in Readers : ~SameStart(dbuf[q], t)
          /\ \A i \in DOMAIN reads : ~SameStart(reads[i], t)
      BY <3>1, <1>2, PrecedesDiffer
    <3> QED BY <3>2 DEF SameStart
  <2>2. \A q, p \in Readers : SameStart(dbuf'[q], dbuf'[p]) => q = p
    BY <2>1, <1>3 DEF ExactInv, OnceInv
  <2>3. \A q \in Readers, i \in DOMAIN reads : ~SameStart(dbuf'[q], reads[i])
    BY <2>1, <1>3 DEF ExactInv, OnceInv
  <2> QED BY <2>2, <2>3, <1>1 DEF ExactInv, OnceInv
<1>10. KeptInv'
  <2> SUFFICES ASSUME NEW b, HasCopy(b)
               PROVE  HasCopy(b)'
    BY <1>1 DEF ExactInv, KeptInv
  <2>1. CASE \E i \in DOMAIN out_queue : Starts(out_queue[i], b)
    <3>1. PICK i \in 1..n : Starts(out_queue[i], b)
      BY <2>1, <1>2
    <3>2. CASE i = 1
      BY <3>1, <3>2, <1>2, <1>3 DEF HasCopy
    <3>3. CASE i # 1
      <4>1. i - 1 \in DOMAIN out_queue' /\ out_queue'[i - 1] = out_queue[i]
        BY <3>3, <1>2
      <4> QED BY <4>1, <3>1 DEF HasCopy
    <3> QED BY <3>2, <3>3
  <2>2. CASE \E q \in Readers : Starts(dbuf[q], b)
    BY <2>2, <1>3, <1>4 DEF HasCopy, Starts
  <2>3. CASE \E i \in DOMAIN reads : Starts(reads[i], b)
    BY <2>3, <1>1 DEF HasCopy
  <2> QED BY <2>1, <2>2, <2>3 DEF HasCopy
<1> QED BY <1>5, <1>6, <1>7, <1>8, <1>9, <1>10 DEF ExactInv

\* A reader returns the first bytes of what it took.
LEMMA ReturnExact ==
  ASSUME TypeOK, ExactInv, 0 \notin Caps, NEW r \in Readers, DeviceRead_Return(r)
  PROVE  ExactInv'
<1> DEFINE t == Copied(dbuf[r], cap[r])  n == Len(reads) + 1
<1>1. /\ reader[r] = "copy" /\ reads' = Append(reads, t) /\ dbuf' = [dbuf EXCEPT ![r] = <<>>]
      /\ cap' = [cap EXCEPT ![r] = 0] /\ reader' = [reader EXCEPT ![r] = "idle"]
      /\ UNCHANGED <<halted, out_queue, serve, urb, sent, acked>>
  BY DEF DeviceRead_Return, servevars
<1>2. /\ t \in Seq(Byte) /\ DOMAIN t \subseteq DOMAIN dbuf[r]
      /\ \A k \in DOMAIN t : t[k] = dbuf[r][k]
      /\ t = <<>> <=> dbuf[r] = <<>>
  <2>1. cap[r] \in Caps
    BY <1>1 DEF ExactInv, BufferInv
  <2>2. \A k \in Caps : k \in Nat \ {0}
    BY OutAssumption
  <2>3. dbuf[r] \in Seq(Byte)
    BY DEF TypeOK
  <2> QED BY <2>1, <2>2, <2>3, CopiedPrefix
<1>3. t # <<>> => t[1] = dbuf[r][1]
  <2>1. t # <<>> => 1 \in DOMAIN t
    BY <1>2, EmptySeq, LenProperties
  <2> QED BY <2>1, <1>2
<1> HIDE DEF t
<1>4. /\ DOMAIN reads = 1..(n - 1) /\ DOMAIN reads' = 1..n /\ n \in Nat \ {0}
      /\ reads'[n] = t /\ \A i \in 1..(n - 1) : reads'[i] = reads[i]
  BY <1>1, <1>2 DEF TypeOK
<1> HIDE DEF n
<1>5. dbuf'[r] = <<>> /\ \A q \in Readers : q # r => dbuf'[q] = dbuf[q] /\ reader'[q] = reader[q] /\ cap'[q] = cap[q]
  BY <1>1 DEF TypeOK
<1>6. \A u : Precedes(dbuf[r], u) => Precedes(t, u)
  BY <1>2 DEF Precedes
<1>7. \A u : Precedes(<<>>, u)
  BY DEF Precedes
<1>8. BufferInv'
  BY <1>1, <1>5 DEF ExactInv, BufferInv, TypeOK
<1>9. NumberInv'
  <2>1. Numbered(t) /\ Numbered(<<>>)
    BY <1>2 DEF ExactInv, NumberInv, Numbered
  <2>2. \A q \in Readers : Numbered(dbuf'[q])
    BY <2>1, <1>5 DEF ExactInv, NumberInv
  <2>3. \A i \in DOMAIN reads' : Numbered(reads'[i])
    BY <2>1, <1>4 DEF ExactInv, NumberInv
  <2> QED BY <2>2, <2>3, <1>1 DEF ExactInv, NumberInv, Numbered
<1>10. ArrivalInv'
  <2> SUFFICES ASSUME NEW d \in Conns, serve[d] = "queue", ComesLast(urb[d])
               PROVE  ComesLast(urb[d])'
    BY <1>1 DEF ArrivalInv, ExactInv
  <2> QED BY <1>1, <1>4, <1>5, <1>6, <1>7 DEF ComesLast
<1>11. TakenInOrder'
  BY <1>1, <1>4, <1>5, <1>6, <1>7 DEF ExactInv, TakenInOrder
<1>12. OnceInv'
  <2>1. \A u : (SameStart(t, u) => SameStart(dbuf[r], u)) /\ (SameStart(u, t) => SameStart(dbuf[r], u))
    BY <1>2, <1>3 DEF SameStart
  <2>2. \A u : ~SameStart(<<>>, u) /\ ~SameStart(u, <<>>)
    BY DEF SameStart
  <2>3. \A q, p \in Readers : SameStart(dbuf'[q], dbuf'[p]) => q = p
    BY <2>2, <1>5 DEF ExactInv, OnceInv
  <2>4. \A q \in Readers : q # r => ~SameStart(dbuf[q], t)
    <3>1. \A q \in Readers : SameStart(dbuf[q], t) => SameStart(dbuf[r], dbuf[q])
      BY <2>1
    <3> QED BY <3>1 DEF ExactInv, OnceInv
  <2>5. \A i \in DOMAIN reads : ~SameStart(t, reads[i]) /\ ~SameStart(reads[i], t)
    BY <2>1 DEF ExactInv, OnceInv
  <2>6. \A q \in Readers, i \in DOMAIN reads' : ~SameStart(dbuf'[q], reads'[i])
    BY <2>2, <2>4, <1>4, <1>5 DEF ExactInv, OnceInv
  <2>7. \A i, j \in DOMAIN reads' : SameStart(reads'[i], reads'[j]) => i = j
    BY <2>5, <1>4 DEF ExactInv, OnceInv
  <2> QED BY <2>3, <2>6, <2>7 DEF OnceInv
<1>13. KeptInv'
  <2> SUFFICES ASSUME NEW b, HasCopy(b)
               PROVE  HasCopy(b)'
    BY <1>1 DEF ExactInv, KeptInv
  <2>1. CASE \E i \in DOMAIN out_queue : Starts(out_queue[i], b)
    BY <2>1, <1>1 DEF HasCopy
  <2>2. CASE Starts(dbuf[r], b)
    <3>1. Starts(reads'[n], b)
      BY <2>2, <1>2, <1>3, <1>4 DEF Starts
    <3> QED BY <3>1, <1>4 DEF HasCopy
  <2>3. CASE \E q \in Readers : q # r /\ Starts(dbuf[q], b)
    BY <2>3, <1>5 DEF HasCopy
  <2>4. CASE \E i \in DOMAIN reads : Starts(reads[i], b)
    BY <2>4, <1>4 DEF HasCopy
  <2> QED BY <2>1, <2>2, <2>3, <2>4 DEF HasCopy
<1> QED BY <1>8, <1>9, <1>10, <1>11, <1>12, <1>13 DEF ExactInv

\* Steps that move no transfer.
LEMMA IdleExact ==
  ASSUME TypeOK, ExactInv, UNCHANGED <<out_queue, serve, urb, dbuf, sent, acked, reads>>,
         \A r \in Readers : reader'[r] # "copy" => dbuf[r] = <<>>,
         \A r \in Readers : reader'[r] # "idle" => cap'[r] \in Caps
  PROVE  ExactInv'
BY DEF ExactInv, BufferInv, NumberInv, Numbered, ArrivalInv, ComesLast, TakenInOrder, OnceInv,
       KeptInv, HasCopy

LEMMA ExactNext ==
  ASSUME TypeOK, ExactInv, 0 \notin Caps, [Next]_vars
  PROVE  ExactInv'
<1>1. ASSUME NEW v \in BOOLEAN, SetHalt(v)
      PROVE  ExactInv'
  BY <1>1, IdleExact DEF SetHalt, servevars, readervars, ExactInv, BufferInv
<1>2. ASSUME NEW r \in Readers, NEW n \in Caps, DeviceRead(r, n)
      PROVE  ExactInv'
  <2>1. /\ \A q \in Readers : reader'[q] # "copy" => dbuf[q] = <<>>
        /\ \A q \in Readers : reader'[q] # "idle" => cap'[q] \in Caps
    BY <1>2 DEF DeviceRead, ExactInv, BufferInv, TypeOK
  <2> QED BY <2>1, <1>2, IdleExact DEF DeviceRead, servevars
<1>3. ASSUME NEW r \in Readers, DeviceRead_Wait(r) \/ DeviceRead_Spurious(r)
      PROVE  ExactInv'
  <2>1. /\ \A q \in Readers : reader'[q] # "copy" => dbuf[q] = <<>>
        /\ \A q \in Readers : reader'[q] # "idle" => cap'[q] \in Caps
    BY <1>3 DEF DeviceRead_Wait, DeviceRead_Spurious, ExactInv, BufferInv, TypeOK
  <2> QED BY <2>1, <1>3, IdleExact DEF DeviceRead_Wait, DeviceRead_Spurious, servevars
<1>4. CASE UNCHANGED vars
  BY <1>4, IdleExact DEF vars, servevars, readervars, ExactInv, BufferInv
<1> QED BY <1>1, <1>2, <1>3, <1>4, ArriveExact, QueueExact, ReplyExact, TakeExact, ReturnExact
        DEF Next, ServeStep, ReadStep

\* A set that holds nothing but one place counts for one, or for none.
LEMMA AtMostOne ==
  ASSUME NEW S, IsFiniteSet(S), \A x, y \in S : x = y
  PROVE  Cardinality(S) = IF S = {} THEN 0 ELSE 1
<1>1. S # {} => \E x : S = {x}
  OBVIOUS
<1> QED BY <1>1, FS_EmptySet, FS_Singleton

\* A byte begins a transfer in at most one place, and what has a copy has one.
LEMMA ExactCounts ==
  ASSUME TypeOK, ExactInv, NEW b
  PROVE  CopiesOf(b) = IF HasCopy(b) THEN 1 ELSE 0
<1> DEFINE Q == {i \in DOMAIN out_queue : Starts(out_queue[i], b)}
           D == {r \in Readers : Starts(dbuf[r], b)}
           R == {i \in DOMAIN reads : Starts(reads[i], b)}
<1>1. IsFiniteSet(Q) /\ IsFiniteSet(D) /\ IsFiniteSet(R)
  <2>1. /\ DOMAIN out_queue = 1..Len(out_queue) /\ DOMAIN reads = 1..Len(reads)
        /\ Len(out_queue) \in Nat /\ Len(reads) \in Nat
    BY DEF TypeOK
  <2>2. IsFiniteSet(DOMAIN out_queue) /\ IsFiniteSet(DOMAIN reads)
    BY <2>1, FS_Interval
  <2> QED BY <2>2, OutAssumption, FS_Subset
<1>2. ASSUME NEW s \in Seq(Byte), NEW t \in Seq(Byte), Starts(s, b), Starts(t, b)
      PROVE  SameStart(s, t)
  BY <1>2 DEF Starts, SameStart
<1>3. /\ \A i \in DOMAIN out_queue : out_queue[i] \in Seq(Byte)
      /\ \A r \in Readers : dbuf[r] \in Seq(Byte)
      /\ \A i \in DOMAIN reads : reads[i] \in Seq(Byte)
  BY DEF TypeOK
<1>4. \A i, j \in Q : i = j
  <2>1. ASSUME NEW i \in Q, NEW j \in Q, i < j
        PROVE  FALSE
    <3>1. i \in 1..(j - 1)
      BY <2>1 DEF TypeOK
    <3>2. Precedes(out_queue[i], out_queue[j])
      BY <3>1 DEF ExactInv, TakenInOrder
    <3> QED BY <3>2, <1>2, <1>3, PrecedesDiffer
  <2>2. \A i, j \in Q : i \in Int /\ j \in Int
    BY DEF TypeOK
  <2> QED BY <2>1, <2>2
<1>5. \A r, q \in D : r = q
  BY <1>2, <1>3 DEF ExactInv, OnceInv
<1>6. \A i, j \in R : i = j
  BY <1>2, <1>3 DEF ExactInv, OnceInv
<1>7. D = {} \/ R = {}
  BY <1>2, <1>3 DEF ExactInv, OnceInv
<1>8. Q = {} \/ (D = {} /\ R = {})
  <2>1. ASSUME NEW j \in Q, NEW r \in D
        PROVE  FALSE
    BY <1>2, <1>3, PrecedesDiffer DEF ExactInv, TakenInOrder
  <2>2. ASSUME NEW j \in Q, NEW i \in R
        PROVE  FALSE
    BY <1>2, <1>3, PrecedesDiffer DEF ExactInv, TakenInOrder
  <2> QED BY <2>1, <2>2
<1>9. HasCopy(b) <=> Q # {} \/ D # {} \/ R # {}
  BY DEF HasCopy
<1>10. CopiesOf(b) = Cardinality(Q) + Cardinality(D) + Cardinality(R)
  BY DEF CopiesOf
<1>11. /\ Cardinality(Q) = IF Q = {} THEN 0 ELSE 1
       /\ Cardinality(D) = IF D = {} THEN 0 ELSE 1
       /\ Cardinality(R) = IF R = {} THEN 0 ELSE 1
  BY <1>1, <1>4, <1>5, <1>6, AtMostOne
<1> HIDE DEF Q, D, R
<1> QED BY <1>7, <1>8, <1>9, <1>10, <1>11

\* For any number of hosts and readers, and buffers of any size but none: a transfer that
\* was acknowledged is queued, being copied or was read, in one place, and what is queued
\* comes after everything of its host that a reader has taken.  (usbip_device_read into a
\* buffer of no bytes takes a transfer and returns nothing of it.)
THEOREM TransfersAreExactHold ==
  ASSUME 0 \notin Caps
  PROVE  Spec => []TransfersAreExact
<1>1. Init => ExactInv
  BY ExactInit
<1>2. TypeOK /\ ExactInv /\ [Next]_vars => ExactInv'
  BY ExactNext
<1>3. TypeOK /\ ExactInv => TransfersAreExact
  <2> SUFFICES ASSUME TypeOK, ExactInv
               PROVE  EachTransferOnce
    BY DEF TransfersAreExact, ExactInv
  <2>1. \A i \in DOMAIN acked : acked[i] # <<>> => CopiesOf(acked[i][1]) = 1
    BY ExactCounts DEF ExactInv, KeptInv
  <2>2. \A c \in Conns, k \in 1..sent : CopiesOf(<<c, k>>) <= 1
    BY ExactCounts
  <2> QED BY <2>1, <2>2 DEF EachTransferOnce
<1> QED BY <1>1, <1>2, <1>3, TypeCorrect, PTL DEF Spec
=============================================================================
