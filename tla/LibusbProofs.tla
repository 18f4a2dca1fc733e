---------------------------- MODULE LibusbProofs ----------------------------
(***************************************************************************)
(* Theorems about Libusb and the client below it, for any handles,         *)
(* devices, transfers and event threads, any size of the self-pipe, and    *)
(* isochronous transfers that may run out of memory.                       *)
(***************************************************************************)
EXTENDS Libusb, SequenceTheorems, TLAPS

\* A thread inside a transfer has a handle, which is open and has no result until the
\* call returns.
CallShape ==
  \A t \in Threads :
    /\ call[t].pc # "idle" => call[t].h \in Handles
    /\ call[t].pc \in {"lock", "send", "wait"} => conn[call[t].h].open /\ call[t].rc = "none"

\* iolock is held by the thread between Lock and Return, and by one at a time.
LockInv ==
  \A h \in Handles :
    /\ \A t \in Threads : t \in iolock[h] <=> call[t].h = h /\ call[t].pc \in {"send", "wait"}
    /\ \A t, u \in iolock[h] : t = u

\* What is under way on a connection that has not been left half-way through a
\* message: the request or the reply of the thread that waits, and nothing else.
Empty(c) == c.wire = <<>> /\ c.replies = <<>>

Waits(cl, t, h) == cl[t].h = h /\ cl[t].pc = "wait"

Wire(c, h, cl) ==
  /\ ~c.up => c.wire = <<>>
  /\ ~c.skew =>
       /\ c.torn = 0
       /\ (\A t \in Threads : ~Waits(cl, t, h)) => Empty(c)
       /\ \A t \in Threads : Waits(cl, t, h) =>
            \/ Empty(c)
            \/ c.wire = <<cl[t].seq>> /\ c.replies = <<>>
            \/ c.wire = <<>> /\ c.replies = <<[part |-> "reply", seq |-> cl[t].seq]>>

WireInv == \A h \in Handles : Wire(conn[h], h, call)

ClientInv == ClientTypeOK /\ CallShape /\ LockInv /\ WireInv /\ ReplyIsMine

-----------------------------------------------------------------------------
(* The client's steps *)

Conns == [open : BOOLEAN, up : BOOLEAN, devnum : 0..MaxDevnum, devid : 0..MaxDevnum, seq : 0..MaxSeq,
          wire : Seq(1..MaxSeq), torn : 0..MaxSeq, replies : Seq(Units), skew : BOOLEAN]
Calls == [pc : {"idle", "lock", "send", "wait", "returned"}, h : Handles \cup {"none"},
          kind : {"plain", "iso"}, seq : 0..MaxSeq, got : 0..MaxSeq,
          rc : {"none", "ok", "stall", "io", "nomem", "misread"}, skew : BOOLEAN]

LEMMA HeadTail ==
  ASSUME NEW S, NEW s \in Seq(S), s # <<>>
  PROVE  Head(s) \in S /\ Tail(s) \in Seq(S)
OBVIOUS

LEMMA OneUnit ==
  ASSUME NEW x, NEW y
  PROVE  Head(<<x>>) = x /\ Tail(<<x>>) = <<>> /\ Append(<<>>, y) = <<y>> /\ <<x>> # <<>>
OBVIOUS

LEMMA ClientInitial == ClientInit => ClientInv
<1> SUFFICES ASSUME ClientInit PROVE ClientInv
  OBVIOUS
<1>1. MaxDevnum \in Nat /\ MaxSeq \in Nat \ {0}
  BY ClientAssumption
<1>2. ClientTypeOK
  BY <1>1 DEF ClientInit, ClientTypeOK, Closed, NoCall, Units
<1>3. CallShape /\ LockInv /\ ReplyIsMine
  BY DEF ClientInit, CallShape, LockInv, ReplyIsMine, NoCall
<1>4. WireInv
  BY DEF ClientInit, WireInv, Wire, Waits, Empty, Closed, NoCall
<1> QED
  BY <1>2, <1>3, <1>4 DEF ClientInv

\* A step that leaves the connections, the locks and the calls alone.
LEMMA PlugStep ==
  ASSUME ClientInv, NEW b \in Busids, Plug(b)
  PROVE  ClientInv'
<1>1. MaxDevnum \in Nat
  BY ClientAssumption
<1>2. ClientTypeOK'
  BY <1>1 DEF ClientInv, ClientTypeOK, Plug
<1>3. UNCHANGED <<conn, iolock, call>>
  BY DEF Plug
<1>4. CallShape' /\ LockInv' /\ WireInv' /\ ReplyIsMine'
  BY <1>3 DEF ClientInv, CallShape, LockInv, WireInv, ReplyIsMine
<1> QED
  BY <1>2, <1>4 DEF ClientInv

\* The server answers: the request that was under way becomes the reply.
LEMMA AnswerStep ==
  ASSUME ClientInv, NEW h \in Handles, ServerAnswers(h)
  PROVE  ClientInv'
<1> DEFINE c == conn[h]
           r == [part |-> "reply", seq |-> Head(c.wire)]
           d == [c EXCEPT !.wire = Tail(c.wire), !.replies = Append(c.replies, r)]
<1>1. /\ c \in Conns /\ conn \in [Handles -> Conns]
      /\ UNCHANGED <<exported, next_devnum, iolock, call>>
      /\ c.up /\ c.wire # <<>>
      /\ conn' = [conn EXCEPT ![h] = d]
  BY DEF ClientInv, ClientTypeOK, ServerAnswers, Conns
<1>a. c.wire \in Seq(1..MaxSeq) /\ c.replies \in Seq(Units)
  BY <1>1 DEF Conns
<1>b. Head(c.wire) \in 1..MaxSeq /\ Tail(c.wire) \in Seq(1..MaxSeq)
  BY <1>1, <1>a, HeadTail
<1>c. r \in Units
  BY <1>b DEF Units
<1>2. Append(c.replies, r) \in Seq(Units)
  BY <1>a, <1>c, AppendProperties
<1>3. d \in Conns
  BY <1>1, <1>2, <1>b DEF Conns
<1>4. conn' \in [Handles -> Conns]
  BY <1>1, <1>3
<1>5. ClientTypeOK'
  BY <1>1, <1>4 DEF ClientInv, ClientTypeOK, Conns
<1>6. d.open = c.open /\ d.up = c.up /\ d.skew = c.skew /\ d.torn = c.torn
      /\ d.wire = Tail(c.wire) /\ d.replies = Append(c.replies, r)
  BY <1>1 DEF Conns
<1>7. conn'[h] = d /\ \A g \in Handles : g # h => conn'[g] = conn[g]
  BY <1>1
<1> HIDE DEF d, r
<1>8. CallShape'
  BY <1>1, <1>6, <1>7 DEF ClientInv, CallShape
<1>9. LockInv' /\ ReplyIsMine'
  BY <1>1 DEF ClientInv, LockInv, ReplyIsMine
<1>10. Wire(c, h, call)
  BY DEF ClientInv, WireInv
<1>11. ASSUME ~c.skew, NEW t \in Threads, Waits(call, t, h)
       PROVE  d.wire = <<>> /\ d.replies = <<[part |-> "reply", seq |-> call[t].seq]>>
  <2>1. c.wire = <<call[t].seq>> /\ c.replies = <<>>
    BY <1>1, <1>10, <1>11 DEF Wire, Empty
  <2>2. Head(c.wire) = call[t].seq /\ Tail(c.wire) = <<>>
    BY <2>1, OneUnit
  <2>3. r = [part |-> "reply", seq |-> call[t].seq]
    BY <2>2 DEF r
  <2> QED
    BY <2>1, <2>2, <2>3, <1>6, OneUnit
<1>12. Wire(d, h, call)
  BY <1>1, <1>6, <1>10, <1>11 DEF Wire, Empty
<1>13. WireInv'
  BY <1>1, <1>7, <1>12 DEF ClientInv, WireInv
<1> QED
  BY <1>5, <1>8, <1>9, <1>13 DEF ClientInv

\* The connection breaks: a request that was under way is lost.
LEMMA DropStep ==
  ASSUME ClientInv, NEW h \in Handles, ServerDrops(h)
  PROVE  ClientInv'
<1> DEFINE c == conn[h]
           d == [c EXCEPT !.up = FALSE, !.wire = <<>>]
<1>1. /\ c \in Conns /\ conn \in [Handles -> Conns]
      /\ UNCHANGED <<exported, next_devnum, iolock, call>>
      /\ conn' = [conn EXCEPT ![h] = d]
  BY DEF ClientInv, ClientTypeOK, ServerDrops, Conns
<1>a. <<>> \in Seq(1..MaxSeq)
  OBVIOUS
<1>2. d \in Conns
  BY <1>1, <1>a DEF Conns
<1>3. /\ d.open = c.open /\ ~d.up /\ d.skew = c.skew /\ d.torn = c.torn
      /\ d.wire = <<>> /\ d.replies = c.replies
  BY <1>1 DEF Conns
<1>4. conn'[h] = d /\ \A g \in Handles : g # h => conn'[g] = conn[g]
  BY <1>1
<1> HIDE DEF d
<1>5. ClientTypeOK'
  BY <1>1, <1>2 DEF ClientInv, ClientTypeOK, Conns
<1>6. CallShape'
  BY <1>1, <1>3, <1>4 DEF ClientInv, CallShape
<1>7. LockInv' /\ ReplyIsMine'
  BY <1>1 DEF ClientInv, LockInv, ReplyIsMine
<1>8. Wire(d, h, call)
  BY <1>3 DEF ClientInv, WireInv, Wire, Empty
<1>9. WireInv'
  BY <1>1, <1>4, <1>8 DEF ClientInv, WireInv
<1> QED
  BY <1>5, <1>6, <1>7, <1>9 DEF ClientInv

\* A connection is opened or closed while no thread is inside a transfer on it.
LEMMA FreshConnection ==
  ASSUME ClientInv, NEW h \in Handles, NEW d \in Conns,
         Empty(d), d.torn = 0,
         \A t \in Threads : call[t].pc \in {"lock", "send", "wait"} => call[t].h # h,
         UNCHANGED <<exported, next_devnum, iolock, call>>,
         conn' = [conn EXCEPT ![h] = d]
  PROVE  ClientInv'
<1>1. conn \in [Handles -> Conns]
  BY DEF ClientInv, ClientTypeOK, Conns
<1>2. conn'[h] = d /\ \A g \in Handles : g # h => conn'[g] = conn[g]
  BY <1>1
<1>3. ClientTypeOK'
  BY <1>1 DEF ClientInv, ClientTypeOK, Conns
<1>4. CallShape'
  BY <1>2 DEF ClientInv, CallShape
<1>5. LockInv' /\ ReplyIsMine'
  BY DEF ClientInv, LockInv, ReplyIsMine
<1>6. Wire(d, h, call)
  BY DEF Wire, Waits, Empty
<1>7. WireInv'
  BY <1>2, <1>6 DEF ClientInv, WireInv
<1> QED
  BY <1>3, <1>4, <1>5, <1>7 DEF ClientInv

LEMMA ImportStep ==
  ASSUME ClientInv, NEW h \in Handles, NEW b \in Busids, NEW listed, Import(h, b, listed),
         UNCHANGED <<exported, next_devnum, iolock, call>>
  PROVE  ClientInv'
<1> DEFINE d == [Closed EXCEPT !.open = TRUE, !.up = TRUE, !.devnum = exported[b], !.devid = exported[b]]
<1>1. exported[b] \in 0..MaxDevnum /\ MaxSeq \in Nat /\ MaxDevnum \in Nat
  BY ClientAssumption DEF ClientInv, ClientTypeOK
<1>a. Closed \in Conns /\ <<>> \in Seq(1..MaxSeq) /\ <<>> \in Seq(Units)
  BY <1>1 DEF Conns, Closed
<1>2. d \in Conns /\ Empty(d) /\ d.torn = 0
  BY <1>1, <1>a DEF Conns, Closed, Empty
<1>3. conn' = [conn EXCEPT ![h] = d] /\ ~conn[h].open
  BY DEF Import, Devid
<1>4. \A t \in Threads : call[t].pc \in {"lock", "send", "wait"} => call[t].h # h
  BY <1>3 DEF ClientInv, CallShape
<1> QED
  BY <1>2, <1>3, <1>4, FreshConnection

LEMMA CloseStep ==
  ASSUME ClientInv, NEW h \in Handles, CloseSocket(h),
         \A t \in Threads : call[t].pc \in {"lock", "send", "wait"} => call[t].h # h,
         UNCHANGED <<exported, next_devnum, iolock, call>>
  PROVE  ClientInv'
<1>1. MaxSeq \in Nat /\ MaxDevnum \in Nat
  BY ClientAssumption
<1>2. Closed \in Conns /\ Empty(Closed) /\ Closed.torn = 0
  BY <1>1 DEF Conns, Closed, Empty
<1> QED
  BY <1>2, FreshConnection DEF CloseSocket

-----------------------------------------------------------------------------
(* Steps of a thread *)

\* A step of thread t that neither leaves nor enters the wait, and leaves the
\* connections alone.
LEMMA CallStep ==
  ASSUME ClientInv, NEW t \in Threads, NEW k \in Calls,
         call' = [call EXCEPT ![t] = k],
         UNCHANGED <<exported, next_devnum, conn>>,
         iolock' \in [Handles -> SUBSET Threads], LockInv',
         call[t].pc # "wait", k.pc # "wait",
         k.pc # "idle" => k.h \in Handles,
         k.pc \in {"lock", "send"} => conn[k.h].open,
         k.rc = "none"
  PROVE  ClientInv'
<1>1. call \in [Threads -> Calls]
  BY DEF ClientInv, ClientTypeOK, Calls
<1>2. call'[t] = k /\ \A u \in Threads : u # t => call'[u] = call[u]
  BY <1>1
<1>3. ClientTypeOK'
  BY <1>1 DEF ClientInv, ClientTypeOK, Calls
<1>4. CallShape'
  <2>1. k.pc \in {"idle", "lock", "send", "wait", "returned"}
    BY DEF Calls
  <2> QED
    BY <1>2, <2>1 DEF ClientInv, CallShape
<1>5. ReplyIsMine'
  BY <1>2 DEF ClientInv, ReplyIsMine
<1>6. \A h \in Handles, u \in Threads :
        /\ Waits(call', u, h) <=> Waits(call, u, h)
        /\ Waits(call, u, h) => call'[u] = call[u]
  BY <1>2 DEF Waits
<1>7. ASSUME NEW h \in Handles
      PROVE  Wire(conn[h], h, call')
  <2>1. Wire(conn[h], h, call)
    BY DEF ClientInv, WireInv
  <2> QED
    BY <2>1, <1>6 DEF Wire
<1>8. WireInv'
  BY <1>7 DEF WireInv
<1> QED
  BY <1>3, <1>4, <1>5, <1>8 DEF ClientInv

\* The lock of a handle after a step of t, which held or holds none of the others.
LEMMA EnterStep ==
  ASSUME ClientInv, NEW t \in Threads, NEW h \in Handles, NEW kind \in {"plain", "iso"},
         Enter(t, h, kind, TRUE),
         UNCHANGED <<exported, next_devnum, conn, iolock>>
  PROVE  ClientInv'
<1> DEFINE k == [NoCall EXCEPT !.h = h, !.kind = kind, !.pc = "lock"]
<1>1. MaxSeq \in Nat
  BY ClientAssumption
<1>a. NoCall \in Calls /\ NoCall.rc = "none"
  BY <1>1 DEF Calls, NoCall
<1>2. k \in Calls /\ k.pc = "lock" /\ k.h = h /\ k.rc = "none"
  BY <1>a DEF Calls
<1>3. call' = [call EXCEPT ![t] = k] /\ conn[h].open /\ call[t].pc = "idle"
  BY DEF Enter
<1> HIDE DEF k
<1>4. iolock' \in [Handles -> SUBSET Threads] /\ call \in [Threads -> Calls]
  BY DEF ClientInv, ClientTypeOK, Calls
<1>5. LockInv'
  BY <1>2, <1>3, <1>4 DEF ClientInv, LockInv
<1> QED
  BY <1>2, <1>3, <1>4, <1>5, CallStep

LEMMA ForgetStep ==
  ASSUME ClientInv, NEW t \in Threads, Forget(t),
         UNCHANGED <<exported, next_devnum, conn, iolock>>
  PROVE  ClientInv'
<1>1. MaxSeq \in Nat
  BY ClientAssumption
<1>2. NoCall \in Calls /\ NoCall.pc = "idle" /\ NoCall.rc = "none"
  BY <1>1 DEF Calls, NoCall
<1>3. call' = [call EXCEPT ![t] = NoCall] /\ call[t].pc = "returned"
  BY DEF Forget
<1>4. iolock' \in [Handles -> SUBSET Threads] /\ call \in [Threads -> Calls]
  BY DEF ClientInv, ClientTypeOK, Calls
<1>5. LockInv'
  BY <1>2, <1>3, <1>4 DEF ClientInv, LockInv
<1> QED
  BY <1>2, <1>3, <1>4, <1>5, CallStep

LEMMA LockStep ==
  ASSUME ClientInv, NEW t \in Threads, Lock(t)
  PROVE  ClientInv'
<1> DEFINE h == call[t].h
           k == [call[t] EXCEPT !.pc = "send"]
<1>1. call \in [Threads -> Calls] /\ iolock \in [Handles -> SUBSET Threads]
  BY DEF ClientInv, ClientTypeOK, Calls
<1>2. /\ call[t].pc = "lock" /\ h \in Handles /\ conn[h].open /\ iolock[h] = {}
      /\ call' = [call EXCEPT ![t] = k]
      /\ iolock' = [iolock EXCEPT ![h] = {t}]
      /\ UNCHANGED <<exported, next_devnum, conn>>
  BY <1>1 DEF Lock, MayLock, ClientInv, CallShape
<1>3. k \in Calls /\ k.pc = "send" /\ k.h = h /\ k.rc = "none"
  BY <1>1, <1>2 DEF Calls, ClientInv, CallShape
<1>4. /\ call'[t] = k /\ \A u \in Threads : u # t => call'[u] = call[u]
      /\ iolock'[h] = {t} /\ \A g \in Handles : g # h => iolock'[g] = iolock[g]
  BY <1>1, <1>2
<1> HIDE DEF k
<1>5. LockInv'
  BY <1>2, <1>3, <1>4 DEF ClientInv, LockInv
<1>6. iolock' \in [Handles -> SUBSET Threads]
  BY <1>1, <1>2
<1> QED
  BY <1>2, <1>3, <1>5, <1>6, CallStep

-----------------------------------------------------------------------------
(* Send and Receive *)

\* The thread that sends or waits is alone on its handle.
LEMMA Alone ==
  ASSUME ClientInv, NEW t \in Threads, call[t].pc \in {"send", "wait"}
  PROVE  /\ call[t].h \in Handles /\ conn[call[t].h].open /\ call[t].rc = "none"
         /\ iolock[call[t].h] = {t}
         /\ \A u \in Threads : u # t /\ call[u].h = call[t].h => call[u].pc \notin {"send", "wait"}
<1>1. call[t].h \in Handles /\ conn[call[t].h].open /\ call[t].rc = "none"
  BY DEF ClientInv, CallShape
<1>2. iolock[call[t].h] \in SUBSET Threads
  BY <1>1 DEF ClientInv, ClientTypeOK
<1> QED
  BY <1>1, <1>2 DEF ClientInv, LockInv

\* The call of t on h ends with rc and got, and d is what becomes of the
\* connection: right when a connection that was not skewed is empty afterwards
\* and the reply was t's own.
LEMMA ReturnStep ==
  ASSUME ClientInv, NEW t \in Threads, NEW h \in Handles, NEW d \in Conns,
         NEW rc \in {"ok", "stall", "io", "nomem", "misread"}, NEW got \in 0..MaxSeq,
         call[t].h = h, call[t].pc \in {"send", "wait"},
         Return(t, rc, got),
         conn' = [conn EXCEPT ![h] = d],
         d.open = conn[h].open, ~d.up => d.wire = <<>>,
         conn[h].skew => d.skew,
         ~d.skew => Empty(d) /\ d.torn = 0,
         rc \in {"ok", "stall"} => got = call[t].seq \/ conn[h].skew,
         UNCHANGED <<exported, next_devnum>>
  PROVE  ClientInv'
<1> DEFINE k == [call[t] EXCEPT !.pc = "returned", !.rc = rc, !.got = got, !.skew = conn[h].skew]
<1>1. /\ call \in [Threads -> Calls] /\ iolock \in [Handles -> SUBSET Threads]
      /\ conn \in [Handles -> Conns]
  BY DEF ClientInv, ClientTypeOK, Calls, Conns
<1>2. call' = [call EXCEPT ![t] = k] /\ iolock' = [iolock EXCEPT ![h] = @ \ {t}]
  BY <1>1 DEF Return
<1>3. conn[h].skew \in BOOLEAN
  BY <1>1 DEF Conns
<1>4. /\ k \in Calls /\ k.pc = "returned" /\ k.rc = rc /\ k.got = got /\ k.seq = call[t].seq
      /\ k.h = h /\ k.skew = conn[h].skew
  <2>1. call[t] \in Calls
    BY <1>1
  <2>2. k.pc = "returned" /\ k.rc = rc /\ k.got = got /\ k.seq = call[t].seq /\ k.h = h
    BY <2>1 DEF Calls
  <2>3. k.skew = conn[h].skew
    BY <2>1 DEF Calls
  <2>4. \A b \in BOOLEAN : [call[t] EXCEPT !.pc = "returned", !.rc = rc, !.got = got, !.skew = b] \in Calls
    BY <2>1 DEF Calls
  <2>5. k \in Calls
    BY <1>3, <2>4
  <2> QED
    BY <2>2, <2>3, <2>5
<1>5. /\ call'[t] = k /\ \A u \in Threads : u # t => call'[u] = call[u]
      /\ iolock'[h] = iolock[h] \ {t} /\ \A g \in Handles : g # h => iolock'[g] = iolock[g]
      /\ conn'[h] = d /\ \A g \in Handles : g # h => conn'[g] = conn[g]
  BY <1>1, <1>2
<1>6. ClientTypeOK'
  <2>1. call' \in [Threads -> Calls] /\ conn' \in [Handles -> Conns]
    BY <1>1, <1>2, <1>4
  <2>2. iolock' \in [Handles -> SUBSET Threads]
    BY <1>1, <1>2
  <2> QED
    BY <2>1, <2>2 DEF ClientInv, ClientTypeOK, Calls, Conns
<1> HIDE DEF k
<1>7. CallShape'
  BY <1>4, <1>5 DEF ClientInv, CallShape
<1>8. LockInv'
  BY <1>4, <1>5, Alone DEF ClientInv, LockInv
<1>9. ReplyIsMine'
  BY <1>4, <1>5 DEF ClientInv, ReplyIsMine
<1>10. ASSUME NEW g \in Handles
       PROVE  Wire(conn'[g], g, call')
  <2>1. CASE g = h
    <3>1. \A u \in Threads : ~Waits(call', u, h)
      BY <1>4, <1>5, Alone DEF Waits
    <3> QED
      BY <2>1, <3>1, <1>5 DEF Wire
  <2>2. CASE g # h
    <3>1. \A u \in Threads : (Waits(call', u, g) <=> Waits(call, u, g)) /\ (Waits(call, u, g) => call'[u] = call[u])
      BY <2>2, <1>4, <1>5 DEF Waits
    <3>2. Wire(conn[g], g, call) /\ conn'[g] = conn[g]
      BY <2>2, <1>5 DEF ClientInv, WireInv
    <3> QED
      BY <3>1, <3>2 DEF Wire
  <2> QED
    BY <2>1, <2>2
<1>11. WireInv'
  BY <1>10 DEF WireInv
<1> QED
  BY <1>6, <1>7, <1>8, <1>9, <1>11 DEF ClientInv

\* Nothing is under way on a connection whose only thread has not sent yet.
LEMMA QuietBeforeSend ==
  ASSUME ClientInv, NEW t \in Threads, call[t].pc = "send", ~conn[call[t].h].skew
  PROVE  Empty(conn[call[t].h]) /\ conn[call[t].h].torn = 0
<1>1. call[t].h \in Handles /\ \A u \in Threads : ~Waits(call, u, call[t].h)
  BY Alone DEF Waits
<1> QED
  BY <1>1 DEF ClientInv, WireInv, Wire

LEMMA NextSeq ==
  ASSUME NEW n \in 0..MaxSeq
  PROVE  (n % MaxSeq) + 1 \in 1..MaxSeq
<1>1. MaxSeq \in Nat \ {0}
  BY ClientAssumption
<1>2. n % MaxSeq \in 0..(MaxSeq - 1)
  BY <1>1
<1> QED
  BY <1>1, <1>2

LEMMA SendStep ==
  ASSUME ClientInv, NEW t \in Threads, Send(t)
  PROVE  ClientInv'
<1> DEFINE h == call[t].h
           c == conn[h]
           n == (c.seq % MaxSeq) + 1
           sent == IF c.torn # 0 THEN c.torn ELSE n
           d1 == [c EXCEPT !.seq = n, !.torn = 0, !.wire = Append(c.wire, sent)]
           d2 == [c EXCEPT !.seq = n]
           d3 == [c EXCEPT !.seq = n, !.torn = n, !.skew = TRUE]
           k == [call[t] EXCEPT !.pc = "wait", !.seq = n]
<1>1. /\ call \in [Threads -> Calls] /\ iolock \in [Handles -> SUBSET Threads]
      /\ conn \in [Handles -> Conns] /\ MaxSeq \in Nat \ {0}
  BY ClientAssumption DEF ClientInv, ClientTypeOK, Calls, Conns
<1>2. h \in Handles /\ call[t].pc = "send" /\ call[t].rc = "none" /\ c.open
  BY Alone DEF Send
<1>3. c \in Conns /\ call[t] \in Calls
  BY <1>1, <1>2
<1>4. /\ c.seq \in 0..MaxSeq /\ c.torn \in 0..MaxSeq /\ c.wire \in Seq(1..MaxSeq)
      /\ c.replies \in Seq(Units) /\ (~c.up => c.wire = <<>>)
  BY <1>2, <1>3 DEF Conns, ClientInv, WireInv, Wire
<1>5. n \in 1..MaxSeq /\ n \in 0..MaxSeq /\ 0 \in 0..MaxSeq
  <2>1. n \in 1..MaxSeq
    BY <1>4, NextSeq
  <2> QED
    BY <1>1, <2>1
<1>6. ~c.skew => Empty(c) /\ c.torn = 0
  BY <1>2, QuietBeforeSend
<1> HIDE DEF n
<1>7. CASE /\ c.up /\ UNCHANGED <<exported, next_devnum, iolock>>
           /\ conn' = [conn EXCEPT ![h] = d1] /\ call' = [call EXCEPT ![t] = k]
  <2>1. sent \in 1..MaxSeq
    BY <1>1, <1>4, <1>5
  <2> HIDE DEF sent
  <2>2. Append(c.wire, sent) \in Seq(1..MaxSeq)
    BY <1>4, <2>1, AppendProperties
  <2>3. d1 \in Conns
    BY <1>3, <1>5, <2>2 DEF Conns
  <2>4. d1.open = c.open /\ d1.up = c.up /\ d1.torn = 0 /\ d1.skew = c.skew
        /\ d1.wire = Append(c.wire, sent) /\ d1.replies = c.replies
    BY <1>3 DEF Conns
  <2>5. k \in Calls /\ k.pc = "wait" /\ k.seq = n /\ k.h = h /\ k.rc = "none"
    BY <1>2, <1>3, <1>5 DEF Calls
  <2> HIDE DEF d1, k
  <2>6. /\ call'[t] = k /\ \A u \in Threads : u # t => call'[u] = call[u]
        /\ conn'[h] = d1 /\ \A g \in Handles : g # h => conn'[g] = conn[g]
    BY <1>1, <1>2, <1>7
  <2>7. ClientTypeOK'
    <3>1. call' \in [Threads -> Calls] /\ conn' \in [Handles -> Conns]
      BY <1>1, <1>7, <2>3, <2>5
    <3> QED
      BY <3>1, <1>7 DEF ClientInv, ClientTypeOK, Calls, Conns
  <2>8. CallShape'
    <3>1. CallShape
      BY DEF ClientInv
    <3>2. \A g \in Handles : conn[g].open => conn'[g].open
      BY <1>2, <2>4, <2>6
    <3>3. ASSUME NEW u \in Threads
          PROVE  /\ call'[u].pc # "idle" => call'[u].h \in Handles
                 /\ call'[u].pc \in {"lock", "send", "wait"} => conn'[call'[u].h].open /\ call'[u].rc = "none"
      <4>1. CASE u = t
        BY <1>2, <2>4, <2>5, <2>6, <4>1
      <4>2. CASE u # t
        <5>1. call'[u] = call[u]
          BY <2>6, <4>2
        <5>2. call[u].pc \in {"lock", "send", "wait"} => call[u].h \in Handles /\ conn[call[u].h].open /\ call[u].rc = "none"
          BY <3>1 DEF CallShape
        <5> QED
          BY <3>1, <3>2, <5>1, <5>2 DEF CallShape
      <4> QED
        BY <4>1, <4>2
    <3> QED
      BY <3>3 DEF CallShape
  <2>9. LockInv'
    BY <1>2, <1>7, <2>5, <2>6 DEF ClientInv, LockInv
  <2>10. ReplyIsMine'
    BY <2>5, <2>6 DEF ClientInv, ReplyIsMine
  <2>11. ASSUME NEW g \in Handles
         PROVE  Wire(conn'[g], g, call')
    <3>1. CASE g = h
      <4>1. \A u \in Threads : u # t => ~Waits(call', u, h)
        BY <1>2, <2>6, Alone DEF Waits
      <4>2. ~d1.skew => d1.wire = <<n>> /\ d1.replies = <<>>
        BY <2>4, <1>6, OneUnit DEF Empty, sent
      <4>3. Waits(call', t, h) /\ call'[t].seq = n
        BY <2>5, <2>6 DEF Waits
      <4> QED
        BY <3>1, <4>1, <4>2, <4>3, <1>7, <2>4, <2>6 DEF Wire
    <3>2. CASE g # h
      <4>1. \A u \in Threads : (Waits(call', u, g) <=> Waits(call, u, g)) /\ (Waits(call, u, g) => call'[u] = call[u])
        BY <3>2, <1>2, <2>5, <2>6 DEF Waits
      <4>2. Wire(conn[g], g, call) /\ conn'[g] = conn[g]
        BY <3>2, <2>6 DEF ClientInv, WireInv
      <4> QED
        BY <4>1, <4>2 DEF Wire
    <3> QED
      BY <3>1, <3>2
  <2>12. WireInv'
    BY <2>11 DEF WireInv
  <2> QED
    BY <2>7, <2>8, <2>9, <2>10, <2>12 DEF ClientInv
<1>8. CASE /\ conn' = [conn EXCEPT ![h] = d2] /\ Return(t, "io", 0)
           /\ UNCHANGED <<exported, next_devnum>>
  <2>1. d2 \in Conns
    BY <1>3, <1>5 DEF Conns
  <2>2. d2.open = c.open /\ d2.up = c.up /\ d2.torn = c.torn /\ d2.skew = c.skew
        /\ d2.wire = c.wire /\ d2.replies = c.replies
    BY <1>3 DEF Conns
  <2> HIDE DEF d2
  <2> QED
    BY <1>2, <1>4, <1>5, <1>6, <1>8, <2>1, <2>2, ReturnStep DEF Empty
<1>9. CASE /\ conn' = [conn EXCEPT ![h] = d3] /\ Return(t, "nomem", 0)
           /\ UNCHANGED <<exported, next_devnum>>
  <2>1. d3 \in Conns
    BY <1>3, <1>5 DEF Conns
  <2>2. d3.open = c.open /\ d3.up = c.up /\ d3.skew = TRUE /\ d3.wire = c.wire
    BY <1>3 DEF Conns
  <2> HIDE DEF d3
  <2> QED
    BY <1>2, <1>4, <1>5, <1>9, <2>1, <2>2, ReturnStep
<1> QED
  BY <1>7, <1>8, <1>9, ZenonT(30) DEF Send, n

LEMMA ReceiveStep ==
  ASSUME ClientInv, NEW t \in Threads, Receive(t)
  PROVE  ClientInv'
<1> DEFINE h == call[t].h
           c == conn[h]
           u == Head(c.replies)
           d1 == [c EXCEPT !.replies = Tail(c.replies)]
           d2 == [c EXCEPT !.replies = <<[u EXCEPT !.part = "tail"]>> \o Tail(c.replies), !.skew = TRUE]
<1>1. conn \in [Handles -> Conns] /\ MaxSeq \in Nat \ {0}
  BY ClientAssumption DEF ClientInv, ClientTypeOK, Conns
<1>2. h \in Handles /\ call[t].pc = "wait" /\ c \in Conns
  BY <1>1, Alone DEF Receive
<1>3. /\ c.replies \in Seq(Units) /\ (~c.up => c.wire = <<>>)
      /\ ~c.skew => c.torn = 0
  BY <1>2 DEF Conns, ClientInv, WireInv, Wire
<1>4. ASSUME c.replies # <<>>
      PROVE  u \in Units /\ Tail(c.replies) \in Seq(Units)
  BY <1>3, <1>4, HeadTail
<1>5. ASSUME ~c.skew
      PROVE  \/ Empty(c)
             \/ c.wire = <<call[t].seq>> /\ c.replies = <<>>
             \/ c.wire = <<>> /\ c.replies = <<[part |-> "reply", seq |-> call[t].seq]>>
  BY <1>2, <1>5 DEF ClientInv, WireInv, Wire, Waits
<1>6. ASSUME ~c.skew, c.replies # <<>>
      PROVE  c.wire = <<>> /\ Tail(c.replies) = <<>> /\ u.seq = call[t].seq
  <2> DEFINE r == [part |-> "reply", seq |-> call[t].seq]
  <2>1. c.wire = <<>> /\ c.replies = <<r>>
    BY <1>5, <1>6 DEF Empty
  <2>2. r.seq = call[t].seq
    OBVIOUS
  <2> HIDE DEF r
  <2>3. Head(c.replies) = r /\ Tail(c.replies) = <<>>
    BY <2>1, OneUnit
  <2> QED
    BY <2>1, <2>2, <2>3
<1>7. ASSUME c.replies # <<>>
      PROVE  /\ d1 \in Conns /\ d1.open = c.open /\ d1.up = c.up /\ d1.torn = c.torn /\ d1.skew = c.skew
             /\ d1.wire = c.wire /\ d1.replies = Tail(c.replies) /\ u.seq \in 0..MaxSeq
  <2>1. u.seq \in 0..MaxSeq
    BY <1>4, <1>7, <1>1 DEF Units
  <2>2. d1 \in Conns
    BY <1>2, <1>4, <1>7 DEF Conns
  <2> QED
    BY <1>2, <2>1, <2>2 DEF Conns
<1>8. CASE c.replies # <<>> /\ conn' = [conn EXCEPT ![h] = d1] /\ UNCHANGED <<exported, next_devnum>>
           /\ \E rc \in {"ok", "stall", "misread"} : Return(t, rc, u.seq)
  <2>1. PICK rc \in {"ok", "stall", "misread"} : Return(t, rc, u.seq)
    BY <1>8
  <2> HIDE DEF d1
  <2> QED
    BY <1>2, <1>3, <1>6, <1>7, <1>8, <2>1, ReturnStep, ZenonT(30) DEF Empty
<1>9. CASE c.replies = <<>> /\ ~c.up /\ Return(t, "io", 0) /\ UNCHANGED <<conn, exported, next_devnum>>
  <2>1. conn' = [conn EXCEPT ![h] = c] /\ 0 \in 0..MaxSeq
    BY <1>1, <1>2, <1>9
  <2> QED
    BY <1>2, <1>3, <1>9, <2>1, ReturnStep, ZenonT(30) DEF Empty
<1>10. CASE c.replies # <<>> /\ conn' = [conn EXCEPT ![h] = d2] /\ Return(t, "io", 0)
            /\ UNCHANGED <<exported, next_devnum>>
  <2>1. [u EXCEPT !.part = "tail"] \in Units
    BY <1>4, <1>10 DEF Units
  <2>2. <<[u EXCEPT !.part = "tail"]>> \o Tail(c.replies) \in Seq(Units)
    BY <1>4, <1>10, <2>1, ConcatProperties
  <2>3. d2 \in Conns
    BY <1>2, <2>2 DEF Conns
  <2>4. d2.open = c.open /\ d2.up = c.up /\ d2.skew = TRUE /\ d2.wire = c.wire /\ 0 \in 0..MaxSeq
    BY <1>1, <1>2 DEF Conns
  <2> HIDE DEF d2
  <2> QED
    BY <1>2, <1>3, <1>10, <2>3, <2>4, ReturnStep
<1> QED
  BY <1>8, <1>9, <1>10 DEF Receive

LEMMA ThreadStep ==
  ASSUME ClientInv, NEW t \in Threads, Step(t)
  PROVE  ClientInv'
BY LockStep, SendStep, ReceiveStep DEF Step

\* A step that keeps the open field of the one connection it changes.
LEMMA SameOpen ==
  ASSUME ClientInv, NEW g \in Handles, NEW d, conn' = [conn EXCEPT ![g] = d], d.open = conn[g].open
  PROVE  \A h \in Handles : conn'[h].open = conn[h].open
<1>1. conn \in [Handles -> Conns]
  BY DEF ClientInv, ClientTypeOK, Conns
<1>2. conn'[g] = d /\ \A h \in Handles : h # g => conn'[h] = conn[h]
  BY <1>1
<1> QED
  BY <1>2

\* No step of a thread inside a transfer, and none of the server's, opens or closes a handle.
LEMMA ThreadKeepsOpen ==
  ASSUME ClientInv, NEW t \in Threads, Step(t)
  PROVE  \A h \in Handles : conn'[h].open = conn[h].open
<1> DEFINE h == call[t].h
           c == conn[h]
           n == (c.seq % MaxSeq) + 1
           w == Append(c.wire, IF c.torn # 0 THEN c.torn ELSE n)
           r == <<[Head(c.replies) EXCEPT !.part = "tail"]>> \o Tail(c.replies)
           d1 == [c EXCEPT !.seq = n, !.torn = 0, !.wire = w]
           d2 == [c EXCEPT !.seq = n]
           d3 == [c EXCEPT !.seq = n, !.torn = n, !.skew = TRUE]
           d4 == [c EXCEPT !.replies = Tail(c.replies)]
           d5 == [c EXCEPT !.replies = r, !.skew = TRUE]
<1>1. CASE Lock(t)
  BY <1>1 DEF Lock
<1>2. CASE Send(t) \/ Receive(t)
  <2>1. h \in Handles
    BY <1>2, Alone DEF Send, Receive
  <2>2. c \in Conns
    BY <2>1 DEF ClientInv, ClientTypeOK, Conns
  <2>3. UNCHANGED conn \/ \E d \in {d1, d2, d3, d4, d5} : conn' = [conn EXCEPT ![h] = d]
    BY <1>2, ZenonT(30) DEF Send, Receive
  <2> HIDE DEF n, w, r
  <2>4. d1.open = c.open /\ d2.open = c.open /\ d3.open = c.open /\ d4.open = c.open /\ d5.open = c.open
    BY <2>2 DEF Conns
  <2> HIDE DEF d1, d2, d3, d4, d5
  <2> QED
    BY <2>1, <2>3, <2>4, SameOpen
<1> QED
  BY <1>1, <1>2 DEF Step

LEMMA ServerKeepsOpen ==
  ASSUME ClientInv, NEW h \in Handles, ServerAnswers(h) \/ ServerDrops(h)
  PROVE  \A g \in Handles : conn'[g].open = conn[g].open
<1> DEFINE c == conn[h]
           r == Append(c.replies, [part |-> "reply", seq |-> Head(c.wire)])
           d1 == [c EXCEPT !.wire = Tail(c.wire), !.replies = r]
           d2 == [c EXCEPT !.up = FALSE, !.wire = <<>>]
<1>1. c \in Conns
  BY DEF ClientInv, ClientTypeOK, Conns
<1>2. \E d \in {d1, d2} : conn' = [conn EXCEPT ![h] = d]
  BY DEF ServerAnswers, ServerDrops
<1> HIDE DEF r
<1>3. d1.open = c.open /\ d2.open = c.open
  BY <1>1 DEF Conns
<1> HIDE DEF d1, d2
<1> QED
  BY <1>2, <1>3, SameOpen

-----------------------------------------------------------------------------
(* The library's queues *)

\* The worker has a transfer while it runs and finishes one, and is inside a
\* submit only while it runs one.
WorkerShape ==
  /\ worker.pc \in {"run", "finish"} <=> worker.it # NoXfer
  /\ call[Worker].pc # "idle" => worker.pc = "run"

\* The context lives as long as it is counted, and no handle outlives it.
CtxShape ==
  /\ ctx = "live" <=> rc_ctx > 0
  /\ ctx # "live" => \A h \in Handles : ~conn[h].open

\* With every handle closed, nothing is left that was submitted.
NothingLeft ==
  (\A h \in Handles : ~conn[h].open) => subq = <<>> /\ doneq = <<>> /\ worker.it = NoXfer

\* An event thread that delivers has something to deliver.
EvShape ==
  \A e \in EventThreads : ev[e].pc \in {"deliver", "callback"} => ev[e].list # <<>>

Shape == WorkerShape /\ CtxShape /\ NothingLeft /\ EvShape /\ NoLostCompletion

LibInv == TypeOK /\ ClientInv /\ Shape

Workers == [pc : {"none", "loop", "asleep", "run", "finish", "wake", "exited"},
            it : Transfers \cup {NoXfer}]
Xfers == [state : {"idle", "queued", "inflight", "done"}, cancelled : BOOLEAN,
          status : {"none", "completed", "stall", "error", "cancelled"}]
Events == [pc : {"idle", "drained", "deliver", "callback"}, list : Seq(Transfers)]

LEMMA LibInitial == Init => LibInv
<1> SUFFICES ASSUME Init PROVE LibInv
  OBVIOUS
<1>1. ClientInv
  BY ClientInitial DEF Init
<1>2. PipeCap \in Nat \ {0} /\ MaxInit \in Nat \ {0} /\ <<>> \in Seq(Transfers)
  BY LibusbAssumption
<1>a. FreshXfer \in Xfers /\ Gone \in Workers /\ [pc |-> "idle", list |-> <<>>] \in Events
  BY <1>2 DEF FreshXfer, Gone, Xfers, Workers, Events
<1>b. /\ xfer \in [Transfers -> Xfers] /\ worker \in Workers /\ ev \in [EventThreads -> Events]
      /\ pipe \in 0..PipeCap /\ rc_ctx \in 0..MaxInit
  BY <1>2, <1>a DEF Init
<1>3. TypeOK
  BY <1>1, <1>2, <1>b DEF Init, TypeOK, ClientInv, Xfers, Workers, Events
<1>4. Worker \in Threads
  BY LibusbAssumption
<1>5. Shape
  BY <1>4 DEF Init, Shape, WorkerShape, CtxShape, NothingLeft, EvShape, NoLostCompletion, Gone, ClientInit,
              Closed, NoCall
<1> QED
  BY <1>1, <1>3, <1>5 DEF LibInv

\* A step of the client below or of the server changes none of the library's own variables.
LEMMA BelowStep ==
  ASSUME LibInv, ClientInv', Aside,
         \A h \in Handles : conn'[h].open = conn[h].open,
         call[Worker].pc = "idle" => call'[Worker].pc = "idle"
  PROVE  LibInv'
<1>1. TypeOK'
  BY DEF LibInv, TypeOK, ClientInv, Aside, asyncvars, queuevars
<1>2. Shape'
  BY DEF LibInv, Shape, WorkerShape, CtxShape, NothingLeft, EvShape, NoLostCompletion, Aside,
         asyncvars, queuevars
<1> QED
  BY <1>1, <1>2 DEF LibInv

LEMMA ClientNextStep ==
  ASSUME LibInv, ClientNext
  PROVE  LibInv'
<1>1. PICK t \in Threads : Step(t)
  BY DEF ClientNext
<1>2. ClientInv' /\ \A h \in Handles : conn'[h].open = conn[h].open
  BY <1>1, ThreadStep, ThreadKeepsOpen DEF LibInv
<1>3. call \in [Threads -> Calls] /\ Worker \in Threads
  BY LibusbAssumption DEF LibInv, ClientInv, ClientTypeOK, Calls
<1>4. call[t].pc # "idle" /\ \A u \in Threads : u # t => call'[u] = call[u]
  BY <1>1, <1>3 DEF Step, Lock, Send, Receive, Return
<1> QED
  BY <1>2, <1>3, <1>4, BelowStep DEF ClientNext

LEMMA ServerNextStep ==
  ASSUME LibInv, ServerNext
  PROVE  LibInv'
<1>1. CASE \E b \in Busids : Plug(b)
  <2>1. ClientInv' /\ UNCHANGED <<conn, call>>
    BY <1>1, PlugStep DEF LibInv, Plug
  <2> QED
    BY <2>1, BelowStep DEF ServerNext
<1>2. CASE \E h \in Handles : ServerAnswers(h) \/ ServerDrops(h)
  <2>1. ClientInv' /\ (\A h \in Handles : conn'[h].open = conn[h].open) /\ UNCHANGED call
    BY <1>2, AnswerStep, DropStep, ServerKeepsOpen DEF LibInv, ServerAnswers, ServerDrops
  <2> QED
    BY <2>1, BelowStep DEF ServerNext
<1> QED
  BY <1>1, <1>2 DEF ServerNext

-----------------------------------------------------------------------------
(* The program's steps *)

\* What the proofs below use of the type invariant.
LEMMA Types ==
  ASSUME LibInv
  PROVE  /\ ctx \in {"none", "live", "stopping"} /\ rc_ctx \in 0..MaxInit
         /\ xfer \in [Transfers -> Xfers] /\ worker \in Workers /\ ev \in [EventThreads -> Events]
         /\ subq \in Seq(Transfers) /\ doneq \in Seq(Transfers) /\ pipe \in 0..PipeCap
         /\ call \in [Threads -> Calls] /\ Worker \in Threads /\ NoXfer \notin Transfers
         /\ PipeCap \in Nat \ {0} /\ MaxInit \in Nat \ {0}
BY LibusbAssumption DEF LibInv, TypeOK, ClientInv, ClientTypeOK, Xfers, Workers, Events, Calls

LEMMA SameClient ==
  ASSUME ClientInv, UNCHANGED clientvars
  PROVE  ClientInv'
BY DEF ClientInv, ClientTypeOK, CallShape, LockInv, WireInv, ReplyIsMine, clientvars

\* Wake-ups of the worker: only where it is changes, and only if it had nothing to do.
LEMMA WakeWorker ==
  ASSUME NEW w \in Workers
  PROVE  LET v == [w EXCEPT !.pc = "loop"] IN
         v \in Workers /\ v.pc = "loop" /\ v.it = w.it
BY DEF Workers

LEMMA WakeFacts ==
  ASSUME NEW w \in Workers
  PROVE  /\ SubmitWakes(w) \in Workers /\ SubmitWakes(w).it = w.it
         /\ SubmitWakes(w).pc = w.pc \/ (w.pc \in {"none", "asleep"} /\ SubmitWakes(w).pc = "loop")
BY WakeWorker DEF SubmitWakes, Signalled

LEMMA LibInitStep ==
  ASSUME LibInv, LibInit
  PROVE  LibInv'
<1>1. ClientInv' /\ UNCHANGED <<conn, call>>
  BY SameClient DEF LibInit, LibInv, clientvars
<1>2. ctx' = "live" /\ rc_ctx' \in 0..MaxInit /\ rc_ctx' > 0
  BY Types DEF LibInit
<1>3. TypeOK'
  BY <1>1, <1>2 DEF LibInit, LibInv, TypeOK, ClientInv, asyncvars, queuevars
<1>4. Shape'
  BY <1>1, <1>2 DEF LibInit, LibInv, Shape, WorkerShape, CtxShape, NothingLeft, EvShape, NoLostCompletion,
                    asyncvars, queuevars
<1> QED
  BY <1>1, <1>3, <1>4 DEF LibInv

LEMMA LibExitStep ==
  ASSUME LibInv, LibExit
  PROVE  LibInv'
<1>1. ClientInv' /\ UNCHANGED <<conn, call>>
  BY SameClient DEF LibExit, LibInv, clientvars
<1>2. /\ rc_ctx > 0 /\ rc_ctx' \in 0..MaxInit /\ rc_ctx' = rc_ctx - 1
      /\ ctx' \in {"none", "live", "stopping"} /\ (ctx' = "live" <=> rc_ctx' > 0)
      /\ ctx' # "live" => \A h \in Handles : ~conn[h].open
  <2>1. rc_ctx > 0 /\ ctx = "live" /\ rc_ctx' = rc_ctx - 1 /\ rc_ctx \in 0..MaxInit
    BY Types DEF LibInv, Shape, CtxShape, LibExit
  <2> QED
    BY <2>1, Types DEF LibExit, Quiet
<1>3. /\ worker' \in Workers /\ worker'.it = worker.it
      /\ worker'.pc = worker.pc \/ (worker.pc = "asleep" /\ worker'.pc = "loop")
  BY Types, WakeWorker DEF LibExit
<1>4. shutting' \in BOOLEAN
  BY DEF LibExit, LibInv, TypeOK
<1>5. TypeOK'
  BY <1>1, <1>2, <1>3, <1>4 DEF LibExit, LibInv, TypeOK, ClientInv, Workers
<1>6. Shape'
  <2>1. WorkerShape' /\ NothingLeft' /\ EvShape' /\ NoLostCompletion'
    BY <1>1, <1>3 DEF LibExit, LibInv, Shape, WorkerShape, NothingLeft, EvShape, NoLostCompletion
  <2>2. CtxShape'
    BY <1>1, <1>2 DEF CtxShape
  <2> QED
    BY <2>1, <2>2 DEF Shape
<1> QED
  BY <1>1, <1>5, <1>6 DEF LibInv

\* The self-pipe goes with the context: no completion is waiting in it.
LEMMA CtxFreedStep ==
  ASSUME LibInv, CtxFreed
  PROVE  LibInv'
<1>1. ClientInv' /\ UNCHANGED <<conn, call>>
  BY SameClient DEF CtxFreed, LibInv, clientvars
<1>2. (\A h \in Handles : ~conn[h].open) /\ doneq = <<>> /\ subq = <<>>
  BY DEF CtxFreed, LibInv, Shape, CtxShape, NothingLeft
<1>3. Gone \in Workers /\ Gone.pc = "none" /\ Gone.it = NoXfer
  BY DEF Gone, Workers
<1>4. 0 \in 0..PipeCap
  BY Types
<1>5. TypeOK'
  BY <1>1, <1>3, <1>4 DEF CtxFreed, LibInv, TypeOK, ClientInv, Workers
<1>6. call[Worker].pc = "idle"
  BY DEF CtxFreed, LibInv, Shape, WorkerShape
<1>7. Shape'
  BY <1>1, <1>2, <1>3, <1>6 DEF CtxFreed, LibInv, Shape, WorkerShape, CtxShape, NothingLeft, EvShape, NoLostCompletion
<1> QED
  BY <1>1, <1>5, <1>7 DEF LibInv

LEMMA OpenStep ==
  ASSUME LibInv, NEW h \in Handles, NEW b \in Busids, Open(h, b)
  PROVE  LibInv'
<1>1. ClientInv'
  BY ImportStep DEF Open, LibInv
<1>2. ctx' = "live" /\ UNCHANGED call
  BY DEF Open
<1>3. conn'[h].open
  <2>1. conn' = [conn EXCEPT ![h] = [Closed EXCEPT !.open = TRUE, !.up = TRUE,
                  !.devnum = exported[b], !.devid = Devid(b, exported[b])]]
    BY DEF Open, Import
  <2>2. [Closed EXCEPT !.open = TRUE, !.up = TRUE,
                  !.devnum = exported[b], !.devid = Devid(b, exported[b])].open
    BY DEF Closed
  <2>3. conn \in [Handles -> Conns]
    BY DEF LibInv, ClientInv, ClientTypeOK, Conns
  <2> QED
    BY <2>1, <2>2, <2>3
<1>4. TypeOK'
  BY <1>1 DEF Open, LibInv, TypeOK, ClientInv, asyncvars, queuevars
<1>5. Shape'
  BY <1>2, <1>3 DEF Open, LibInv, Shape, WorkerShape, CtxShape, NothingLeft, EvShape, NoLostCompletion,
                    asyncvars, queuevars
<1> QED
  BY <1>1, <1>4, <1>5 DEF LibInv

\* A handle is closed when no transfer is pending, so no thread is inside one on it.
LEMMA CloseHandleStep ==
  ASSUME LibInv, NEW h \in Handles, Close(h)
  PROVE  LibInv'
<1>1. worker.it = NoXfer /\ subq = <<>> /\ doneq = <<>>
  <2>1. \A x \in Transfers : x \notin ToSet(subq) /\ x \notin ToSet(doneq) /\ worker.it # x
    BY DEF Close, Pending
  <2>2. worker.it = NoXfer
    BY <2>1, Types DEF Workers
  <2>3. ASSUME NEW s \in Seq(Transfers), s # <<>>
        PROVE  \E x \in Transfers : x \in ToSet(s)
    <3>1. 1 \in DOMAIN s /\ s[1] \in Transfers
      BY <2>3
    <3> QED
      BY <3>1 DEF ToSet
  <2> QED
    BY <2>1, <2>2, <2>3, Types
<1>2. call[Worker].pc = "idle" /\ call[App].pc = "idle"
  BY <1>1 DEF LibInv, Shape, WorkerShape, Close, Idle
<1>3. \A t \in Threads : call[t].pc = "idle"
  BY <1>2, LibusbAssumption
<1>4. ClientInv'
  BY <1>3, CloseStep DEF Close, LibInv
<1>5. \A g \in Handles : conn'[g].open => conn[g].open
  <2>1. conn \in [Handles -> Conns]
    BY DEF LibInv, ClientInv, ClientTypeOK, Conns
  <2>2. conn' = [conn EXCEPT ![h] = Closed] /\ ~Closed.open
    BY DEF Close, CloseSocket, Closed
  <2> QED
    BY <2>1, <2>2
<1>6. TypeOK'
  BY <1>4 DEF Close, LibInv, TypeOK, ClientInv, asyncvars, queuevars
<1>7. Shape'
  BY <1>1, <1>5 DEF Close, LibInv, Shape, WorkerShape, CtxShape, NothingLeft, EvShape, NoLostCompletion,
                    asyncvars, queuevars
<1> QED
  BY <1>4, <1>6, <1>7 DEF LibInv

\* The program's own transfers leave the library's variables alone.
LEMMA SyncStep ==
  ASSUME LibInv, SyncReturn \/ \E h \in Handles : SyncTransfer(h)
  PROVE  LibInv'
<1>1. App \in Threads /\ Worker \in Threads /\ App # Worker
  BY LibusbAssumption
<1>2. ClientInv'
  <2>1. CASE SyncReturn
    BY <1>1, <2>1, ForgetStep DEF SyncReturn, LibInv
  <2>2. CASE \E h \in Handles : SyncTransfer(h)
    BY <1>1, <2>2, EnterStep DEF SyncTransfer, LibInv
  <2> QED
    BY <2>1, <2>2
<1>3. call'[Worker] = call[Worker] /\ UNCHANGED conn /\ Aside
  BY <1>1, Types DEF SyncReturn, SyncTransfer, Forget, Enter, Aside
<1> QED
  BY <1>2, <1>3, BelowStep

\* A submit, by the program or from a callback, onto an open handle.
LEMMA SubmittedFacts ==
  ASSUME LibInv, NEW x \in Transfers, Submitted(x)
  PROVE  /\ xfer' \in [Transfers -> Xfers] /\ subq' \in Seq(Transfers)
         /\ worker' \in Workers /\ worker'.it = worker.it
         /\ worker'.pc = worker.pc \/ (worker.pc \in {"none", "asleep"} /\ worker'.pc = "loop")
         /\ early' \subseteq Transfers /\ ran' \subseteq Transfers
         /\ \E h \in Handles : conn[h].open
<1>1. [state |-> "queued", cancelled |-> FALSE, status |-> "completed"] \in Xfers
  BY DEF Xfers
<1>2. xfer' \in [Transfers -> Xfers]
  BY <1>1, Types DEF Submitted
<1>3. subq' \in Seq(Transfers)
  BY Types, AppendProperties DEF Submitted
<1>4. early' \subseteq Transfers /\ ran' \subseteq Transfers
  BY DEF Submitted, LibInv, TypeOK
<1> QED
  BY <1>2, <1>3, <1>4, Types, WakeFacts DEF Submitted

LEMMA SubmitStep ==
  ASSUME LibInv, NEW x \in Transfers, SubmitTransfer(x)
  PROVE  LibInv'
<1>1. ClientInv' /\ UNCHANGED <<conn, call>>
  BY SameClient DEF SubmitTransfer, LibInv, clientvars
<1>2. Submitted(x) /\ UNCHANGED <<ctx, rc_ctx, doneq, shutting, pipe, ev>>
  BY DEF SubmitTransfer
<1>3. TypeOK'
  BY <1>1, <1>2, Types, SubmittedFacts DEF LibInv, TypeOK, ClientInv, Workers, Xfers
<1>4. Shape'
  BY <1>1, <1>2, SubmittedFacts DEF LibInv, Shape, WorkerShape, CtxShape, NothingLeft, EvShape, NoLostCompletion
<1> QED
  BY <1>1, <1>3, <1>4 DEF LibInv

LEMMA CancelStep ==
  ASSUME LibInv, NEW x \in Transfers, CancelTransfer(x)
  PROVE  LibInv'
<1>1. ClientInv' /\ UNCHANGED <<conn, call>>
  BY SameClient DEF CancelTransfer, LibInv, clientvars
<1>2. [xfer[x] EXCEPT !.cancelled = TRUE] \in Xfers
  BY Types DEF Xfers
<1>3. xfer' \in [Transfers -> Xfers]
  BY <1>2, Types DEF CancelTransfer
<1>4. /\ worker' \in Workers /\ worker'.it = worker.it
      /\ worker'.pc = worker.pc \/ (worker.pc = "asleep" /\ worker'.pc = "loop")
  BY Types, WakeWorker DEF CancelTransfer
<1>5. early' \subseteq Transfers
  BY DEF CancelTransfer, LibInv, TypeOK
<1>6. UNCHANGED <<ctx, rc_ctx, subq, doneq, shutting, pipe, ev, ran>>
  BY DEF CancelTransfer
<1>7. TypeOK'
  BY <1>1, <1>3, <1>4, <1>5, <1>6 DEF LibInv, TypeOK, ClientInv, Workers, Xfers
<1>8. Shape'
  BY <1>1, <1>4, <1>6 DEF LibInv, Shape, WorkerShape, CtxShape, NothingLeft, EvShape, NoLostCompletion
<1> QED
  BY <1>1, <1>7, <1>8 DEF LibInv

-----------------------------------------------------------------------------
(* The worker's steps *)

LEMMA WorkerLoopStep ==
  ASSUME LibInv, WorkerLoop
  PROVE  LibInv'
<1>1. ClientInv' /\ UNCHANGED <<conn, call>>
  BY SameClient DEF WorkerLoop, LibInv, clientvars
<1>2. UNCHANGED <<ctx, rc_ctx, xfer, subq, doneq, shutting, pipe, ev, early, ran>> /\ worker.pc = "loop"
  BY DEF WorkerLoop
<1>3. worker' \in Workers /\ worker'.it = worker.it /\ worker'.pc \in {"exited", "asleep"}
  BY Types DEF WorkerLoop, Workers
<1>4. TypeOK'
  BY <1>1, <1>2, <1>3 DEF LibInv, TypeOK, ClientInv, Workers
<1>5. Shape'
  BY <1>1, <1>2, <1>3 DEF LibInv, Shape, WorkerShape, CtxShape, NothingLeft, EvShape, NoLostCompletion
<1> QED
  BY <1>1, <1>4, <1>5 DEF LibInv

LEMMA WorkerTakeStep ==
  ASSUME LibInv, NEW h \in Handles, WorkerTake(h)
  PROVE  LibInv'
<1> DEFINE x == Head(subq)
<1>1. /\ subq # <<>> /\ worker.pc = "loop" /\ subq' = Tail(subq)
      /\ UNCHANGED <<exported, next_devnum, conn, iolock, ctx, rc_ctx, doneq, shutting, pipe, ev, early>>
  BY DEF WorkerTake
<1>2. x \in Transfers /\ subq' \in Seq(Transfers)
  BY <1>1, Types, HeadTail
<1>3. xfer' \in [Transfers -> Xfers]
  <2>1. xfer[x] \in Xfers
    BY <1>2, Types
  <2>2. [xfer[x] EXCEPT !.state = "inflight", !.status = "cancelled"] \in Xfers
        /\ [xfer[x] EXCEPT !.state = "inflight"] \in Xfers
    BY <2>1 DEF Xfers
  <2>3. \/ xfer' = [xfer EXCEPT ![x] = [xfer[x] EXCEPT !.state = "inflight", !.status = "cancelled"]]
        \/ xfer' = [xfer EXCEPT ![x] = [xfer[x] EXCEPT !.state = "inflight"]]
    BY DEF WorkerTake
  <2> QED
    BY <2>2, <2>3, Types
<1>4. worker' \in Workers /\ worker'.it = x /\ worker'.pc \in {"finish", "run"}
  <2>1. worker' = [pc |-> "finish", it |-> x] \/ worker' = [pc |-> "run", it |-> x]
    BY DEF WorkerTake
  <2> QED
    BY <1>2, <2>1 DEF Workers
<1>5. ran' \subseteq Transfers
  BY <1>2 DEF WorkerTake, LibInv, TypeOK
<1>6. ClientInv' /\ (worker'.pc = "run" \/ call'[Worker].pc = "idle")
  <2>1. call[Worker].pc = "idle"
    BY <1>1 DEF LibInv, Shape, WorkerShape
  <2>2. CASE UNCHANGED call
    BY <1>1, <2>1, <2>2, SameClient DEF clientvars, LibInv
  <2>3. CASE worker' = [pc |-> "run", it |-> x] /\ \E kind \in Kinds : Enter(Worker, h, kind, TRUE)
    <3>1. PICK kind \in Kinds : Enter(Worker, h, kind, TRUE)
      BY <2>3
    <3>2. kind \in {"plain", "iso"}
      BY ClientAssumption
    <3> QED
      BY <1>1, <2>3, <3>1, <3>2, EnterStep, Types DEF LibInv
  <2> QED
    BY <2>2, <2>3 DEF WorkerTake
<1>7. TypeOK'
  BY <1>1, <1>2, <1>3, <1>4, <1>5, <1>6 DEF LibInv, TypeOK, ClientInv, Workers, Xfers
<1>8. ~ \A g \in Handles : ~conn[g].open
  BY <1>1 DEF LibInv, Shape, NothingLeft
<1>9. WorkerShape'
  BY <1>2, <1>4, <1>6, Types DEF WorkerShape
<1>10. Shape'
  BY <1>1, <1>4, <1>8, <1>9 DEF LibInv, Shape, CtxShape, NothingLeft, EvShape, NoLostCompletion
<1> QED
  BY <1>6, <1>7, <1>10 DEF LibInv

LEMMA WorkerRanStep ==
  ASSUME LibInv, WorkerRan
  PROVE  LibInv'
<1> DEFINE x == worker.it
           s == map_status(call[Worker].rc)
<1>1. /\ worker.pc = "run"
      /\ UNCHANGED <<exported, next_devnum, conn, iolock, ctx, rc_ctx, subq, doneq, shutting, pipe, ev, early, ran>>
  BY DEF WorkerRan
<1>2. ClientInv' /\ call'[Worker].pc = "idle"
  <2>1. call' = [call EXCEPT ![Worker] = NoCall] /\ NoCall.pc = "idle"
    BY DEF WorkerRan, Forget, NoCall
  <2> QED
    BY <1>1, <2>1, Types, ForgetStep DEF WorkerRan, LibInv
<1>3. x \in Transfers
  BY <1>1, Types DEF LibInv, Shape, WorkerShape, Workers
<1>4. s \in {"completed", "stall", "error"}
  BY DEF map_status
<1>5. xfer' \in [Transfers -> Xfers]
  <2> HIDE DEF s
  <2>1. [xfer[x] EXCEPT !.status = s] \in Xfers
    BY <1>3, <1>4, Types, ZenonT(30) DEF Xfers
  <2>2. xfer' = [xfer EXCEPT ![x] = [xfer[x] EXCEPT !.status = s]]
    BY DEF WorkerRan, s
  <2> QED
    BY <2>1, <2>2, Types
<1>6. worker' \in Workers /\ worker'.it = x /\ worker'.pc = "finish"
  BY Types DEF WorkerRan, Workers
<1>7. TypeOK'
  BY <1>1, <1>2, <1>5, <1>6 DEF LibInv, TypeOK, ClientInv, Workers, Xfers
<1>8. WorkerShape'
  BY <1>2, <1>3, <1>6, Types DEF WorkerShape
<1>9. Shape'
  BY <1>1, <1>6, <1>8 DEF LibInv, Shape, CtxShape, NothingLeft, EvShape, NoLostCompletion
<1> QED
  BY <1>2, <1>7, <1>9 DEF LibInv

\* A completion enters the done queue and the worker is due to write its byte.
LEMMA WorkerFinishStep ==
  ASSUME LibInv, WorkerFinish
  PROVE  LibInv'
<1>1. ClientInv' /\ UNCHANGED <<conn, call>>
  BY SameClient DEF WorkerFinish, LibInv, clientvars
<1>2. UNCHANGED <<ctx, rc_ctx, xfer, subq, shutting, pipe, ev, early, ran>> /\ worker.pc = "finish"
  BY DEF WorkerFinish
<1>3. worker.it \in Transfers /\ worker.it # NoXfer
  BY <1>2, Types DEF LibInv, Shape, WorkerShape, Workers
<1>4. doneq' \in Seq(Transfers)
  BY <1>3, Types, AppendProperties DEF WorkerFinish
<1>5. worker' \in Workers /\ worker'.it = NoXfer /\ worker'.pc = "wake"
  BY DEF WorkerFinish, Workers
<1>6. TypeOK'
  BY <1>1, <1>2, <1>4, <1>5 DEF LibInv, TypeOK, ClientInv, Workers
<1>7. call[Worker].pc = "idle" /\ ~ \A g \in Handles : ~conn[g].open
  BY <1>2, <1>3 DEF LibInv, Shape, WorkerShape, NothingLeft
<1>8. Shape'
  BY <1>1, <1>2, <1>5, <1>7 DEF LibInv, Shape, WorkerShape, CtxShape, NothingLeft, EvShape, NoLostCompletion
<1> QED
  BY <1>1, <1>6, <1>8 DEF LibInv

LEMMA WorkerWakeStep ==
  ASSUME LibInv, WorkerWake
  PROVE  LibInv'
<1>1. ClientInv' /\ UNCHANGED <<conn, call>>
  BY SameClient DEF WorkerWake, LibInv, clientvars
<1>2. UNCHANGED <<ctx, rc_ctx, xfer, subq, doneq, shutting, ev, early, ran>> /\ worker.pc = "wake"
  BY DEF WorkerWake
<1>3. pipe' \in 0..PipeCap /\ pipe' > 0
  BY Types DEF WorkerWake
<1>4. worker' \in Workers /\ worker'.it = worker.it /\ worker'.pc = "loop"
  BY Types DEF WorkerWake, Workers
<1>5. TypeOK'
  BY <1>1, <1>2, <1>3, <1>4 DEF LibInv, TypeOK, ClientInv, Workers
<1>6. Shape'
  BY <1>1, <1>2, <1>3, <1>4 DEF LibInv, Shape, WorkerShape, CtxShape, NothingLeft, EvShape, NoLostCompletion
<1> QED
  BY <1>1, <1>5, <1>6 DEF LibInv

LEMMA WorkerNextStep ==
  ASSUME LibInv, WorkerNext
  PROVE  LibInv'
BY WorkerLoopStep, WorkerTakeStep, WorkerRanStep, WorkerFinishStep, WorkerWakeStep DEF WorkerNext

-----------------------------------------------------------------------------
(* The event threads' steps *)

LEMMA PollStep ==
  ASSUME LibInv, NEW e \in EventThreads, Poll(e) \/ PollTimeout(e)
  PROVE  LibInv'
<1>1. ClientInv' /\ UNCHANGED <<conn, call>>
  BY SameClient DEF Poll, PollTimeout, LibInv, clientvars
<1>2. UNCHANGED <<ctx, rc_ctx, xfer, subq, doneq, worker, shutting, early, ran>>
  BY DEF Poll, PollTimeout, queuevars
<1>3. ev' = [ev EXCEPT ![e] = [ev[e] EXCEPT !.pc = "drained"]] /\ ev[e].pc = "idle"
  BY DEF Poll, PollTimeout
<1>4. [ev[e] EXCEPT !.pc = "drained"] \in Events /\ [ev[e] EXCEPT !.pc = "drained"].pc = "drained"
  BY Types DEF Events
<1>5. ev' \in [EventThreads -> Events] /\ ev'[e].pc = "drained" /\ \A f \in EventThreads : f # e => ev'[f] = ev[f]
  BY <1>3, <1>4, Types
<1>6. pipe' \in 0..PipeCap
  BY Types DEF Poll, PollTimeout, queuevars
<1>7. TypeOK'
  BY <1>1, <1>2, <1>5, <1>6 DEF LibInv, TypeOK, ClientInv, Events
<1>8. Shape'
  BY <1>1, <1>2, <1>5 DEF LibInv, Shape, WorkerShape, CtxShape, NothingLeft, EvShape, NoLostCompletion
<1> QED
  BY <1>1, <1>7, <1>8 DEF LibInv

LEMMA TakeStep ==
  ASSUME LibInv, NEW e \in EventThreads, Take(e)
  PROVE  LibInv'
<1> DEFINE n == [pc |-> IF doneq = <<>> THEN "idle" ELSE "deliver", list |-> doneq]
<1>1. ClientInv' /\ UNCHANGED <<conn, call>>
  BY SameClient DEF Take, LibInv, clientvars
<1>2. UNCHANGED <<ctx, rc_ctx, xfer, subq, worker, shutting, pipe, early, ran>> /\ doneq' = <<>>
  BY DEF Take
<1>3. n \in Events /\ (n.pc \in {"deliver", "callback"} => n.list # <<>>)
  BY Types DEF Events
<1>4. ev' = [ev EXCEPT ![e] = n]
  BY DEF Take
<1> HIDE DEF n
<1>5. ev' \in [EventThreads -> Events] /\ ev'[e] = n /\ \A f \in EventThreads : f # e => ev'[f] = ev[f]
  BY <1>3, <1>4, Types
<1>6. <<>> \in Seq(Transfers)
  OBVIOUS
<1>7. TypeOK'
  BY <1>1, <1>2, <1>5, <1>6 DEF LibInv, TypeOK, ClientInv, Events
<1>8. Shape'
  BY <1>1, <1>2, <1>3, <1>5 DEF LibInv, Shape, WorkerShape, CtxShape, NothingLeft, EvShape, NoLostCompletion
<1> QED
  BY <1>1, <1>7, <1>8 DEF LibInv

LEMMA CallbackBeginStep ==
  ASSUME LibInv, NEW e \in EventThreads, CallbackBegin(e)
  PROVE  LibInv'
<1> DEFINE x == Head(ev[e].list)
           n == [ev[e] EXCEPT !.pc = "callback"]
<1>1. ClientInv' /\ UNCHANGED <<conn, call>>
  BY SameClient DEF CallbackBegin, LibInv, clientvars
<1>2. /\ UNCHANGED <<ctx, rc_ctx, subq, doneq, worker, shutting, pipe, early, ran>>
      /\ ev[e].pc = "deliver" /\ ev' = [ev EXCEPT ![e] = n]
      /\ xfer' = [xfer EXCEPT ![x] = [xfer[x] EXCEPT !.state = "done"]]
  BY DEF CallbackBegin
<1>3. ev[e].list \in Seq(Transfers) /\ ev[e].list # <<>> /\ ev[e] \in Events
  BY <1>2, Types DEF LibInv, Shape, EvShape, Events
<1>4. x \in Transfers
  BY <1>3, HeadTail
<1>5. xfer' \in [Transfers -> Xfers]
  <2>1. [xfer[x] EXCEPT !.state = "done"] \in Xfers
    BY <1>4, Types DEF Xfers
  <2> QED
    BY <1>2, <2>1, Types
<1>6. n \in Events /\ n.pc = "callback" /\ n.list = ev[e].list
  BY <1>3 DEF Events
<1> HIDE DEF n
<1>7. ev' \in [EventThreads -> Events] /\ ev'[e] = n /\ \A f \in EventThreads : f # e => ev'[f] = ev[f]
  BY <1>2, <1>6, Types
<1>8. TypeOK'
  BY <1>1, <1>2, <1>5, <1>7 DEF LibInv, TypeOK, ClientInv, Events, Xfers
<1>9. Shape'
  BY <1>1, <1>2, <1>3, <1>6, <1>7 DEF LibInv, Shape, WorkerShape, CtxShape, NothingLeft, EvShape, NoLostCompletion
<1> QED
  BY <1>1, <1>8, <1>9 DEF LibInv

LEMMA CallbackEndStep ==
  ASSUME LibInv, NEW e \in EventThreads, CallbackEnd(e)
  PROVE  LibInv'
<1> DEFINE l == ev[e].list
           x == Head(l)
           n == [pc |-> IF Len(l) = 1 THEN "idle" ELSE "deliver", list |-> Tail(l)]
<1>1. ClientInv' /\ UNCHANGED <<conn, call>>
  BY SameClient DEF CallbackEnd, LibInv, clientvars
<1>2. /\ UNCHANGED <<ctx, rc_ctx, doneq, shutting, pipe>>
      /\ ev[e].pc = "callback" /\ ev' = [ev EXCEPT ![e] = n]
  BY DEF CallbackEnd
<1>3. l \in Seq(Transfers) /\ l # <<>>
  BY <1>2, Types DEF LibInv, Shape, EvShape, Events
<1>4. x \in Transfers /\ Tail(l) \in Seq(Transfers) /\ (Len(l) # 1 => Tail(l) # <<>>)
  <2> HIDE DEF l
  <2>1. x \in Transfers /\ Tail(l) \in Seq(Transfers)
    BY <1>3, HeadTail
  <2>2. Len(l) # 1 => Len(Tail(l)) # 0
    BY <1>3
  <2> QED
    BY <2>1, <2>2, EmptySeq
<1>5. n \in Events /\ (n.pc \in {"deliver", "callback"} => n.list # <<>>) /\ n.pc # "drained"
  BY <1>4 DEF Events
<1> HIDE DEF n
<1>6. ev' \in [EventThreads -> Events] /\ ev'[e] = n /\ \A f \in EventThreads : f # e => ev'[f] = ev[f]
  BY <1>2, <1>5, Types
<1>7. /\ xfer' \in [Transfers -> Xfers] /\ subq' \in Seq(Transfers)
      /\ worker' \in Workers /\ worker'.it = worker.it
      /\ worker'.pc = worker.pc \/ (worker.pc \in {"none", "asleep"} /\ worker'.pc = "loop")
      /\ early' \subseteq Transfers /\ ran' \subseteq Transfers
      /\ UNCHANGED subq \/ \E h \in Handles : conn[h].open
  <2>1. CASE Submitted(x)
    BY <1>4, <2>1, SubmittedFacts
  <2>2. CASE /\ early' = early \ {x} /\ ran' = ran \ {x}
             /\ xfer' = [xfer EXCEPT ![x] = [FreshXfer EXCEPT !.state = "done"]]
             /\ UNCHANGED <<subq, worker>>
    <3>1. [FreshXfer EXCEPT !.state = "done"] \in Xfers
      BY DEF FreshXfer, Xfers
    <3>2. early' \subseteq Transfers /\ ran' \subseteq Transfers
      BY <2>2 DEF LibInv, TypeOK
    <3> QED
      BY <2>2, <3>1, <3>2, Types
  <2> QED
    BY <2>1, <2>2 DEF CallbackEnd
<1>8. TypeOK'
  BY <1>1, <1>2, <1>6, <1>7 DEF LibInv, TypeOK, ClientInv, Events, Xfers, Workers
<1>9. WorkerShape' /\ CtxShape' /\ NothingLeft' /\ EvShape'
  BY <1>1, <1>2, <1>5, <1>6, <1>7 DEF LibInv, Shape, WorkerShape, CtxShape, NothingLeft, EvShape
<1>10. NoLostCompletion'
  BY <1>2, <1>6, <1>7 DEF LibInv, Shape, NoLostCompletion
<1> QED
  BY <1>1, <1>8, <1>9, <1>10 DEF LibInv, Shape

-----------------------------------------------------------------------------
LEMMA LibStep == LibInv /\ [Next]_vars => LibInv'
<1> SUFFICES ASSUME LibInv, [Next]_vars PROVE LibInv'
  OBVIOUS
<1>1. CASE AppNext
  BY <1>1, LibInitStep, LibExitStep, CtxFreedStep, SyncStep, OpenStep, CloseHandleStep, SubmitStep, CancelStep
     DEF AppNext
<1>2. CASE EventNext
  BY <1>2, PollStep, TakeStep, CallbackBeginStep, CallbackEndStep DEF EventNext
<1>3. CASE UNCHANGED vars
  <2>1. ClientInv' /\ Aside /\ UNCHANGED <<conn, call>>
    BY <1>3, SameClient DEF LibInv, vars, clientvars, Aside
  <2> QED
    BY <2>1, BelowStep
<1> QED
  BY <1>1, <1>2, <1>3, WorkerNextStep, ClientNextStep, ServerNextStep DEF Next

LEMMA LibInvariant == Spec => []LibInv
BY LibInitial, LibStep, PTL DEF Spec

\* The variables of the library and of the client keep their types; in particular a
\* step never takes the head of an empty queue and never runs "no transfer".
THEOREM TypeCorrect == Spec => []TypeOK
<1>1. LibInv => TypeOK
  BY DEF LibInv
<1> QED
  BY <1>1, LibInvariant, PTL

\* However many transfers and event threads there are and however small the
\* self-pipe is, no completion is left in the done queue with nobody due to
\* look at it, although worker_main writes its byte after it has released
\* ctx->lock, the pipe may be full, and ctx_free closes it.
THEOREM NoLostCompletionHolds == Spec => []NoLostCompletion
<1>1. LibInv => NoLostCompletion
  BY DEF LibInv, Shape
<1> QED
  BY <1>1, LibInvariant, PTL

\* usbip_client_submit never compares seqnums, and yet every submit that came to
\* an answer was given the answer to its own request: handle->iolock lets one
\* thread of the program at a time onto a connection, a transfer is over before
\* the handle is closed, and only a submit_iso that runs out of memory leaves a
\* connection half-way through a message.
THEOREM ReplyIsMineHolds == Spec => []ReplyIsMine
<1>1. LibInv => ReplyIsMine
  BY DEF LibInv, ClientInv
<1> QED
  BY <1>1, LibInvariant, PTL
-----------------------------------------------------------------------------
(* Cancelling *)

\* A submitted transfer is in one place: once in one of the queues, in one event
\* thread's list, or in the worker's hands.
Once(s) == \A i, j \in DOMAIN s : s[i] = s[j] => i = j

Disjoint(s, t) == ToSet(s) \cap ToSet(t) = {}

OnePlace ==
  /\ Once(subq) /\ Once(doneq) /\ Disjoint(subq, doneq)
  /\ worker.it \notin ToSet(subq) /\ worker.it \notin ToSet(doneq)
  /\ \A e \in EventThreads :
       /\ Once(ev[e].list) /\ worker.it \notin ToSet(ev[e].list)
       /\ Disjoint(ev[e].list, subq) /\ Disjoint(ev[e].list, doneq)
       /\ \A f \in EventThreads : f # e => Disjoint(ev[e].list, ev[f].list)

\* Who was cancelled in the queue still has its flag up; what is queued has not been
\* run and is in the submit queue; what the worker runs has been run.
Marked ==
  /\ \A x \in early : xfer[x].cancelled
  /\ \A x \in Transfers : xfer[x].state = "queued" => x \in ToSet(subq) /\ x \notin ran
  /\ worker.pc = "run" => worker.it \in ran

CancelInv == OnePlace /\ Marked /\ CancelIsExact

LEMMA Elements ==
  ASSUME NEW s \in Seq(Transfers)
  PROVE  ToSet(s) \subseteq Transfers /\ NoXfer \notin ToSet(s)
<1>1. \A i \in DOMAIN s : s[i] \in Transfers
  OBVIOUS
<1> QED
  BY <1>1, LibusbAssumption DEF ToSet

LEMMA NoElements == ToSet(<<>>) = {} /\ Once(<<>>)
BY DEF ToSet, Once

LEMMA AppendOnce ==
  ASSUME NEW s \in Seq(Transfers), NEW x \in Transfers, Once(s), x \notin ToSet(s)
  PROVE  Once(Append(s, x)) /\ ToSet(Append(s, x)) = ToSet(s) \cup {x}
<1> DEFINE n == Len(s)
           t == Append(s, x)
<1>1. n \in Nat /\ DOMAIN s = 1..n /\ DOMAIN t = 1..(n + 1) /\ t[n + 1] = x
  BY AppendProperties
<1>2. \A i \in 1..n : t[i] = s[i]
  BY AppendProperties
<1> HIDE DEF n, t
<1>3. \A i \in 1..n : s[i] # x
  BY <1>1 DEF ToSet
<1>4. Once(t)
  <2> SUFFICES ASSUME NEW i \in 1..(n + 1), NEW j \in 1..(n + 1), t[i] = t[j]
               PROVE  i = j
    BY <1>1 DEF Once
  <2>1. (i \in 1..n \/ i = n + 1) /\ (j \in 1..n \/ j = n + 1)
    BY <1>1
  <2> QED
    BY <1>1, <1>2, <1>3, <2>1 DEF Once
<1>5. ToSet(t) = ToSet(s) \cup {x}
  <2>1. \A i \in 1..(n + 1) : i \in 1..n \/ i = n + 1
    BY <1>1
  <2>2. \A i \in 1..n : i \in 1..(n + 1)
    BY <1>1
  <2>3. n + 1 \in 1..(n + 1)
    BY <1>1
  <2>4. \A y \in ToSet(t) : y \in ToSet(s) \cup {x}
    BY <1>1, <1>2, <2>1 DEF ToSet
  <2>5. \A y \in ToSet(s) : y \in ToSet(t)
    BY <1>1, <1>2, <2>2 DEF ToSet
  <2>6. x \in ToSet(t)
    BY <1>1, <2>3 DEF ToSet
  <2> QED
    BY <2>4, <2>5, <2>6
<1> QED
  BY <1>4, <1>5 DEF t

LEMMA TailOnce ==
  ASSUME NEW s \in Seq(Transfers), s # <<>>, Once(s)
  PROVE  /\ Head(s) \in ToSet(s) /\ Once(Tail(s)) /\ Head(s) \notin ToSet(Tail(s))
         /\ ToSet(Tail(s)) \subseteq ToSet(s) /\ ToSet(s) \subseteq ToSet(Tail(s)) \cup {Head(s)}
<1> DEFINE n == Len(s)
           t == Tail(s)
<1>1. n \in Nat \ {0} /\ DOMAIN s = 1..n /\ Head(s) = s[1]
  BY EmptySeq
<1>2. DOMAIN t = 1..(n - 1) /\ \A i \in 1..(n - 1) : t[i] = s[i + 1]
  BY <1>1
<1> HIDE DEF n, t
<1>3. 1 \in DOMAIN s /\ \A i \in 1..(n - 1) : i + 1 \in 1..n /\ i + 1 # 1
  BY <1>1
<1>4. Head(s) \in ToSet(s)
  BY <1>1, <1>3 DEF ToSet
<1>5. Once(t)
  <2> SUFFICES ASSUME NEW i \in 1..(n - 1), NEW j \in 1..(n - 1), t[i] = t[j]
               PROVE  i = j
    BY <1>2 DEF Once
  <2>1. i + 1 = j + 1
    BY <1>1, <1>2, <1>3, SMTT(30) DEF Once
  <2> QED
    BY <1>1, <2>1
<1>6. Head(s) \notin ToSet(t)
  BY <1>1, <1>2, <1>3 DEF ToSet, Once
<1>7. ToSet(t) \subseteq ToSet(s)
  BY <1>1, <1>2, <1>3, SMTT(30) DEF ToSet
<1>8. ASSUME NEW y \in ToSet(s), y # Head(s)
      PROVE  y \in ToSet(t)
  <2>1. PICK i \in 1..n : y = s[i]
    BY <1>1 DEF ToSet
  <2>2. i # 1
    BY <1>1, <1>8, <2>1
  <2>3. i - 1 \in 1..(n - 1) /\ (i - 1) + 1 = i
    BY <1>1, <2>2
  <2>4. t[i - 1] = y
    BY <1>2, <2>1, <2>3
  <2> QED
    BY <1>2, <2>3, <2>4 DEF ToSet
<1> QED
  BY <1>4, <1>5, <1>6, <1>7, <1>8 DEF t

LEMMA CancelInitial == Init => CancelInv
<1> SUFFICES ASSUME Init PROVE CancelInv
  OBVIOUS
<1>1. OnePlace
  BY NoElements DEF Init, OnePlace, Disjoint, Gone
<1>2. Marked /\ CancelIsExact
  BY DEF Init, Marked, CancelIsExact, Gone, FreshXfer
<1> QED
  BY <1>1, <1>2 DEF CancelInv

\* A step that moves no transfer: the worker may go to sleep, wake up or end.
LEMMA NothingMoves ==
  ASSUME CancelInv, UNCHANGED <<xfer, subq, doneq, early, ran>>,
         worker'.it = worker.it, worker'.pc = "run" => worker.pc = "run",
         \A e \in EventThreads : ev'[e].list = ev[e].list
  PROVE  CancelInv'
<1>1. OnePlace'
  BY DEF CancelInv, OnePlace, Disjoint
<1>2. Marked' /\ CancelIsExact'
  BY DEF CancelInv, Marked, CancelIsExact
<1> QED
  BY <1>1, <1>2 DEF CancelInv

\* libusb_submit_transfer on a transfer that is nowhere else.
LEMMA SubmittedMarks ==
  ASSUME LibInv, CancelInv, NEW x \in Transfers, Submitted(x), worker.it # x
  PROVE  Marked' /\ CancelIsExact'
<1> DEFINE q == [state |-> "queued", cancelled |-> FALSE, status |-> "completed"]
<1>1. /\ xfer' = [xfer EXCEPT ![x] = q] /\ early' = early \ {x} /\ ran' = ran \ {x}
      /\ subq' = Append(subq, x)
  BY DEF Submitted
<1>2. q.state = "queued"
  OBVIOUS
<1> HIDE DEF q
<1>3. xfer'[x] = q /\ \A y \in Transfers : y # x => xfer'[y] = xfer[y]
  BY <1>1, Types
<1>4. early \subseteq Transfers
  BY DEF LibInv, TypeOK
<1>5. \A y \in ToSet(subq) \cup {x} : y \in ToSet(subq')
  <2> DEFINE n == Len(subq)
  <2>1. n \in Nat /\ DOMAIN subq = 1..n /\ DOMAIN subq' = 1..(n + 1) /\ subq'[n + 1] = x
    BY <1>1, Types, AppendProperties
  <2>2. \A i \in 1..n : subq'[i] = subq[i]
    BY <1>1, Types, AppendProperties
  <2> HIDE DEF n
  <2>3. n + 1 \in 1..(n + 1) /\ \A i \in 1..n : i \in 1..(n + 1)
    BY <2>1
  <2> QED
    BY <2>1, <2>2, <2>3 DEF ToSet
<1>6. worker'.it = worker.it /\ (worker'.pc = "run" => worker.pc = "run")
  BY SubmittedFacts
<1>7. Marked'
  BY <1>1, <1>2, <1>3, <1>4, <1>5, <1>6 DEF CancelInv, Marked
<1>8. CancelIsExact'
  BY <1>1, <1>3, <1>4 DEF CancelInv, CancelIsExact
<1> QED
  BY <1>7, <1>8

LEMMA SubmitCancelInv ==
  ASSUME LibInv, CancelInv, NEW x \in Transfers, SubmitTransfer(x)
  PROVE  CancelInv'
<1>1. /\ x \notin ToSet(subq) /\ x \notin ToSet(doneq) /\ worker.it # x
      /\ \A e \in EventThreads : x \notin ToSet(ev[e].list)
  BY DEF SubmitTransfer, Pending
<1>2. Submitted(x) /\ UNCHANGED <<doneq, ev>> /\ subq' = Append(subq, x)
  BY DEF SubmitTransfer, Submitted
<1>3. Once(subq') /\ ToSet(subq') = ToSet(subq) \cup {x}
  BY <1>1, <1>2, AppendOnce, Types DEF CancelInv, OnePlace
<1>4. worker'.it = worker.it
  BY <1>2, SubmittedFacts
<1>5. OnePlace'
  BY <1>1, <1>2, <1>3, <1>4 DEF CancelInv, OnePlace, Disjoint
<1> QED
  BY <1>1, <1>2, <1>5, SubmittedMarks DEF CancelInv

LEMMA CancelCancelInv ==
  ASSUME LibInv, CancelInv, NEW x \in Transfers, CancelTransfer(x)
  PROVE  CancelInv'
<1> DEFINE c == [xfer[x] EXCEPT !.cancelled = TRUE]
<1>1. /\ xfer' = [xfer EXCEPT ![x] = c] /\ UNCHANGED <<subq, doneq, ev, ran>>
      /\ early' = IF xfer[x].state = "queued" THEN early \cup {x} ELSE early
  BY DEF CancelTransfer
<1>2. c.cancelled /\ c.state = xfer[x].state /\ c.status = xfer[x].status
  BY Types DEF Xfers
<1> HIDE DEF c
<1>3. xfer'[x] = c /\ \A y \in Transfers : y # x => xfer'[y] = xfer[y]
  BY <1>1, Types
<1>4. worker'.it = worker.it /\ (worker'.pc = "run" => worker.pc = "run")
  BY Types, WakeWorker DEF CancelTransfer
<1>5. early \subseteq Transfers
  BY DEF LibInv, TypeOK
<1>6. OnePlace'
  BY <1>1, <1>4 DEF CancelInv, OnePlace, Disjoint
<1>7. Marked'
  BY <1>1, <1>2, <1>3, <1>4, <1>5 DEF CancelInv, Marked
<1>8. CancelIsExact'
  BY <1>1, <1>2, <1>3, <1>5 DEF CancelInv, Marked, CancelIsExact
<1> QED
  BY <1>6, <1>7, <1>8 DEF CancelInv

\* The worker looks at the flag under the lock of the queue: what was cancelled in
\* the queue is not run.
LEMMA TakeCancelInv ==
  ASSUME LibInv, CancelInv, NEW h \in Handles, WorkerTake(h)
  PROVE  CancelInv'
<1>0. PICK x : x = Head(subq)
  OBVIOUS
<1>1. subq # <<>> /\ worker.pc = "loop" /\ subq' = Tail(subq) /\ UNCHANGED <<doneq, ev, early>>
  BY DEF WorkerTake
<1>2. /\ x \in ToSet(subq) /\ Once(subq') /\ x \notin ToSet(subq')
      /\ ToSet(subq') \subseteq ToSet(subq) /\ ToSet(subq) \subseteq ToSet(subq') \cup {x}
  BY <1>0, <1>1, TailOnce, Types DEF CancelInv, OnePlace
<1>3. x \in Transfers
  BY <1>2, Elements, Types
<1>4. worker'.it = x
  <2>1. worker' = [pc |-> "finish", it |-> x] \/ worker' = [pc |-> "run", it |-> x]
    BY <1>0 DEF WorkerTake
  <2> QED
    BY <2>1
<1>5. OnePlace'
  BY <1>1, <1>2, <1>4 DEF CancelInv, OnePlace, Disjoint
<1>6. early \subseteq Transfers
  BY DEF LibInv, TypeOK
<1>7. CASE xfer[x].cancelled
  <2> DEFINE c == [xfer[x] EXCEPT !.state = "inflight", !.status = "cancelled"]
  <2>a. Skips(x)
    BY <1>7 DEF Skips
  <2>b. /\ xfer' = [xfer EXCEPT ![x].state = "inflight", ![x].status = "cancelled"]
        /\ worker' = [pc |-> "finish", it |-> x] /\ UNCHANGED ran
    BY <1>0, <2>a, Zenon DEF WorkerTake
  <2>1. xfer' = [xfer EXCEPT ![x] = c] /\ worker'.pc = "finish" /\ UNCHANGED ran
    BY <1>3, <2>b, Types
  <2>2. c.state = "inflight" /\ c.status = "cancelled" /\ c.cancelled = xfer[x].cancelled
    BY <1>3, Types DEF Xfers
  <2> HIDE DEF c
  <2>3. xfer'[x] = c /\ \A y \in Transfers : y # x => xfer'[y] = xfer[y]
    BY <2>1, <1>3, Types
  <2>4. Marked'
    BY <1>1, <1>2, <1>6, <1>7, <2>1, <2>2, <2>3 DEF CancelInv, Marked
  <2>5. CancelIsExact'
    BY <1>1, <1>6, <2>1, <2>2, <2>3 DEF CancelInv, CancelIsExact
  <2> QED
    BY <1>5, <2>4, <2>5 DEF CancelInv
<1>8. CASE ~xfer[x].cancelled
  <2> DEFINE c == [xfer[x] EXCEPT !.state = "inflight"]
  <2>1. xfer' = [xfer EXCEPT ![x] = c] /\ ran' = ran \cup {x}
    BY <1>0, <1>8 DEF WorkerTake, Skips
  <2>2. c.state = "inflight"
    BY <1>3, Types DEF Xfers
  <2> HIDE DEF c
  <2>3. xfer'[x] = c /\ \A y \in Transfers : y # x => xfer'[y] = xfer[y]
    BY <2>1, <1>3, Types
  <2>4. x \notin early
    BY <1>8 DEF CancelInv, Marked
  <2>5. Marked'
    BY <1>1, <1>2, <1>4, <1>6, <2>1, <2>2, <2>3, <2>4 DEF CancelInv, Marked
  <2>6. CancelIsExact'
    BY <1>1, <1>6, <2>1, <2>3, <2>4 DEF CancelInv, CancelIsExact
  <2> QED
    BY <1>5, <2>5, <2>6 DEF CancelInv
<1> QED
  BY <1>7, <1>8

LEMMA RanCancelInv ==
  ASSUME LibInv, CancelInv, WorkerRan
  PROVE  CancelInv'
<1>0. PICK x : x = worker.it
  OBVIOUS
<1> DEFINE s == map_status(call[Worker].rc)
           c == [xfer[x] EXCEPT !.status = s]
<1>1. worker.pc = "run" /\ UNCHANGED <<subq, doneq, ev, early, ran>> /\ xfer' = [xfer EXCEPT ![x] = c]
  BY <1>0 DEF WorkerRan
<1>2. x \in Transfers
  BY <1>0, <1>1, Types DEF LibInv, Shape, WorkerShape, Workers
<1>3. c.state = xfer[x].state /\ c.cancelled = xfer[x].cancelled
  BY <1>2, Types DEF Xfers
<1> HIDE DEF s, c
<1>4. xfer'[x] = c /\ \A y \in Transfers : y # x => xfer'[y] = xfer[y]
  BY <1>1, <1>2, Types
<1>5. worker'.it = x /\ worker'.pc = "finish"
  BY <1>0, Types DEF WorkerRan, Workers
<1>6. early \subseteq Transfers /\ x \notin early
  BY <1>0, <1>1 DEF LibInv, TypeOK, CancelInv, Marked, CancelIsExact
<1>7. OnePlace'
  BY <1>0, <1>1, <1>5 DEF CancelInv, OnePlace, Disjoint
<1>8. Marked'
  BY <1>1, <1>3, <1>4, <1>5, <1>6 DEF CancelInv, Marked
<1>9. CancelIsExact'
  BY <1>1, <1>4, <1>6 DEF CancelInv, CancelIsExact
<1> QED
  BY <1>7, <1>8, <1>9 DEF CancelInv

LEMMA FinishCancelInv ==
  ASSUME LibInv, CancelInv, WorkerFinish
  PROVE  CancelInv'
<1>0. PICK x : x = worker.it
  OBVIOUS
<1>1. /\ worker.pc = "finish" /\ doneq' = Append(doneq, x) /\ worker'.it = NoXfer /\ worker'.pc = "wake"
      /\ UNCHANGED <<xfer, subq, ev, early, ran>>
  BY <1>0 DEF WorkerFinish
<1>2. x \in Transfers
  BY <1>0, <1>1, Types DEF LibInv, Shape, WorkerShape, Workers
<1>3. Once(doneq') /\ ToSet(doneq') = ToSet(doneq) \cup {x}
  BY <1>0, <1>1, <1>2, AppendOnce, Types DEF CancelInv, OnePlace
<1>4. NoXfer \notin ToSet(subq) /\ NoXfer \notin ToSet(doneq) /\ NoXfer # x
      /\ \A e \in EventThreads : NoXfer \notin ToSet(ev[e].list)
  <2>1. \A e \in EventThreads : ev[e].list \in Seq(Transfers)
    BY Types DEF Events
  <2> QED
    BY <1>2, <2>1, Elements, Types
<1>5. OnePlace'
  BY <1>0, <1>1, <1>3, <1>4 DEF CancelInv, OnePlace, Disjoint
<1>6. Marked' /\ CancelIsExact'
  BY <1>1 DEF CancelInv, Marked, CancelIsExact
<1> QED
  BY <1>5, <1>6 DEF CancelInv

LEMMA FreedCancelInv ==
  ASSUME LibInv, CancelInv, CtxFreed
  PROVE  CancelInv'
<1>1. /\ worker'.it = NoXfer /\ worker'.pc = "none" /\ worker.pc \in {"none", "exited"}
      /\ UNCHANGED <<xfer, subq, doneq, ev, early, ran>>
  BY DEF CtxFreed, Gone
<1>2. worker.it = NoXfer
  BY <1>1 DEF LibInv, Shape, WorkerShape
<1> QED
  BY <1>1, <1>2, NothingMoves

LEMMA EvTakeCancelInv ==
  ASSUME LibInv, CancelInv, NEW e \in EventThreads, Take(e)
  PROVE  CancelInv'
<1>0. PICK l : l = doneq
  OBVIOUS
<1>1. UNCHANGED <<xfer, subq, worker, early, ran>> /\ doneq' = <<>>
  BY DEF Take
<1>2. ev'[e].list = l /\ \A f \in EventThreads : f # e => ev'[f] = ev[f]
  BY <1>0, Types DEF Take
<1>3. Once(doneq') /\ ToSet(doneq') = {}
  BY <1>1, NoElements
<1>4. ASSUME NEW f \in EventThreads
      PROVE  /\ Once(ev'[f].list) /\ worker'.it \notin ToSet(ev'[f].list)
             /\ Disjoint(ev'[f].list, subq') /\ Disjoint(ev'[f].list, doneq')
             /\ \A g \in EventThreads : g # f => Disjoint(ev'[f].list, ev'[g].list)
  BY <1>0, <1>1, <1>2, <1>3 DEF CancelInv, OnePlace, Disjoint
<1>5. Once(subq') /\ Disjoint(subq', doneq') /\ worker'.it \notin ToSet(subq') /\ worker'.it \notin ToSet(doneq')
  BY <1>1, <1>3 DEF CancelInv, OnePlace, Disjoint
<1>6. OnePlace'
  BY <1>3, <1>4, <1>5 DEF OnePlace, Disjoint
<1>7. Marked' /\ CancelIsExact'
  BY <1>1 DEF CancelInv, Marked, CancelIsExact
<1> QED
  BY <1>6, <1>7 DEF CancelInv

LEMMA BeginCancelInv ==
  ASSUME LibInv, CancelInv, NEW e \in EventThreads, CallbackBegin(e)
  PROVE  CancelInv'
<1>0. PICK x : x = Head(ev[e].list)
  OBVIOUS
<1> DEFINE c == [xfer[x] EXCEPT !.state = "done"]
<1>1. /\ UNCHANGED <<subq, doneq, worker, early, ran>> /\ ev[e].pc = "deliver"
      /\ ev' = [ev EXCEPT ![e].pc = "callback"] /\ xfer' = [xfer EXCEPT ![x] = c]
  BY <1>0 DEF CallbackBegin
<1>2. ev[e].list \in Seq(Transfers) /\ ev[e].list # <<>>
  BY <1>1, Types DEF LibInv, Shape, EvShape, Events
<1>3. x \in ToSet(ev[e].list)
  BY <1>0, <1>2, TailOnce DEF CancelInv, OnePlace
<1>4. x \in Transfers /\ xfer[x].state # "queued"
  BY <1>2, <1>3, Elements DEF CancelInv, OnePlace, Disjoint, Marked
<1>5. c.state = "done" /\ c.cancelled = xfer[x].cancelled /\ c.status = xfer[x].status
  BY <1>4, Types DEF Xfers
<1> HIDE DEF c
<1>6. xfer'[x] = c /\ \A y \in Transfers : y # x => xfer'[y] = xfer[y]
  BY <1>1, <1>4, Types
<1>7. \A f \in EventThreads : ev'[f].list = ev[f].list
  <2>1. ev[e] \in Events
    BY Types
  <2>2. [ev[e] EXCEPT !.pc = "callback"].list = ev[e].list
    BY <2>1 DEF Events
  <2> QED
    BY <1>1, <2>2, Types
<1>8. early \subseteq Transfers
  BY DEF LibInv, TypeOK
<1>9. OnePlace'
  BY <1>1, <1>7 DEF CancelInv, OnePlace, Disjoint
<1>10. Marked'
  BY <1>1, <1>5, <1>6, <1>8 DEF CancelInv, Marked
<1>11. CancelIsExact'
  BY <1>1, <1>4, <1>5, <1>6, <1>8 DEF CancelInv, CancelIsExact
<1> QED
  BY <1>9, <1>10, <1>11 DEF CancelInv

\* A callback that submits its transfer again: it has left the list by then.
LEMMA EndCancelInv ==
  ASSUME LibInv, CancelInv, NEW e \in EventThreads, CallbackEnd(e)
  PROVE  CancelInv'
<1>0. PICK x, l : l = ev[e].list /\ x = Head(l)
  OBVIOUS
<1>1. ev[e].pc = "callback" /\ UNCHANGED doneq
  BY DEF CallbackEnd
<1>2. l \in Seq(Transfers) /\ l # <<>> /\ Once(l)
  BY <1>0, <1>1, Types DEF LibInv, Shape, EvShape, Events, CancelInv, OnePlace
<1>3. /\ x \in ToSet(l) /\ Once(Tail(l)) /\ x \notin ToSet(Tail(l)) /\ ToSet(Tail(l)) \subseteq ToSet(l)
  BY <1>0, <1>2, TailOnce
<1>4. /\ x \in Transfers /\ x \notin ToSet(subq) /\ x \notin ToSet(doneq) /\ worker.it # x
      /\ \A f \in EventThreads : f # e => x \notin ToSet(ev[f].list)
  BY <1>0, <1>2, <1>3, Elements DEF CancelInv, OnePlace, Disjoint
<1>5. ev'[e].list = Tail(l) /\ \A f \in EventThreads : f # e => ev'[f] = ev[f]
  BY <1>0, Types DEF CallbackEnd
<1>6. \A f \in EventThreads : /\ Once(ev'[f].list) /\ x \notin ToSet(ev'[f].list)
                              /\ ToSet(ev'[f].list) \subseteq ToSet(ev[f].list)
  BY <1>0, <1>3, <1>4, <1>5 DEF CancelInv, OnePlace
<1>7. CASE Submitted(x)
  <2>1. subq' = Append(subq, x)
    BY <1>7 DEF Submitted
  <2>2. Once(subq') /\ ToSet(subq') = ToSet(subq) \cup {x}
    BY <1>4, <2>1, AppendOnce, Types DEF CancelInv, OnePlace
  <2>3. worker'.it = worker.it
    BY <1>4, <1>7, SubmittedFacts
  <2>4. OnePlace'
    <3>1. /\ Once(subq') /\ Once(doneq') /\ Disjoint(subq', doneq')
          /\ worker'.it \notin ToSet(subq') /\ worker'.it \notin ToSet(doneq')
      BY <1>1, <1>4, <2>2, <2>3 DEF CancelInv, OnePlace, Disjoint
    <3>2. ASSUME NEW f \in EventThreads
          PROVE  /\ Once(ev'[f].list) /\ worker'.it \notin ToSet(ev'[f].list)
                 /\ Disjoint(ev'[f].list, subq') /\ Disjoint(ev'[f].list, doneq')
      BY <1>1, <1>6, <2>2, <2>3 DEF CancelInv, OnePlace, Disjoint
    <3>3. \A f, g \in EventThreads : g # f => Disjoint(ev'[f].list, ev'[g].list)
      BY <1>6 DEF CancelInv, OnePlace, Disjoint
    <3> QED
      BY <3>1, <3>2, <3>3 DEF OnePlace, Disjoint
  <2> QED
    BY <1>4, <1>7, <2>4, SubmittedMarks DEF CancelInv
<1>8. CASE /\ early' = early \ {x} /\ ran' = ran \ {x}
           /\ xfer' = [xfer EXCEPT ![x] = [FreshXfer EXCEPT !.state = "done"]]
           /\ UNCHANGED <<subq, worker>>
  <2>1. [FreshXfer EXCEPT !.state = "done"].state = "done"
    BY DEF FreshXfer
  <2>2. xfer'[x].state = "done" /\ \A y \in Transfers : y # x => xfer'[y] = xfer[y]
    BY <1>4, <1>8, <2>1, Types
  <2>3. early \subseteq Transfers
    BY DEF LibInv, TypeOK
  <2>4. OnePlace'
    <3>1. /\ Once(subq') /\ Once(doneq') /\ Disjoint(subq', doneq')
          /\ worker'.it \notin ToSet(subq') /\ worker'.it \notin ToSet(doneq')
      BY <1>1, <1>8 DEF CancelInv, OnePlace, Disjoint
    <3>2. ASSUME NEW f \in EventThreads
          PROVE  /\ Once(ev'[f].list) /\ worker'.it \notin ToSet(ev'[f].list)
                 /\ Disjoint(ev'[f].list, subq') /\ Disjoint(ev'[f].list, doneq')
      BY <1>1, <1>6, <1>8 DEF CancelInv, OnePlace, Disjoint
    <3>3. \A f, g \in EventThreads : g # f => Disjoint(ev'[f].list, ev'[g].list)
      BY <1>6 DEF CancelInv, OnePlace, Disjoint
    <3> QED
      BY <3>1, <3>2, <3>3 DEF OnePlace, Disjoint
  <2>5. Marked'
    BY <1>4, <1>8, <2>2, <2>3 DEF CancelInv, Marked
  <2>6. CancelIsExact'
    BY <1>8, <2>2, <2>3 DEF CancelInv, CancelIsExact
  <2> QED
    BY <2>4, <2>5, <2>6 DEF CancelInv
<1> QED
  BY <1>0, <1>7, <1>8 DEF CallbackEnd

LEMMA CancelStepInv == LibInv /\ CancelInv /\ [Next]_vars => CancelInv'
<1> SUFFICES ASSUME LibInv, CancelInv, [Next]_vars PROVE CancelInv'
  OBVIOUS
<1>1. ASSUME UNCHANGED asyncvars PROVE CancelInv'
  BY <1>1, NothingMoves DEF asyncvars, queuevars
<1>2. CASE AppNext
  <2>1. CASE LibExit
    <3>1. worker'.it = worker.it /\ (worker'.pc = "run" => worker.pc = "run")
      BY <2>1, Types, WakeWorker DEF LibExit
    <3> QED
      BY <2>1, <3>1, NothingMoves DEF LibExit
  <2>2. CASE LibInit \/ SyncReturn \/ \E h \in Handles : (\E b \in Busids : Open(h, b)) \/ Close(h) \/ SyncTransfer(h)
    BY <1>1, <2>2 DEF LibInit, SyncReturn, Open, Close, SyncTransfer
  <2> QED
    BY <1>2, <2>1, <2>2, FreedCancelInv, SubmitCancelInv, CancelCancelInv DEF AppNext
<1>3. CASE WorkerNext
  <2>1. CASE WorkerLoop \/ WorkerWake
    <3>1. worker'.it = worker.it /\ worker'.pc # "run"
      BY <2>1, Types DEF WorkerLoop, WorkerWake, Workers
    <3> QED
      BY <2>1, <3>1, NothingMoves DEF WorkerLoop, WorkerWake
  <2> QED
    BY <1>3, <2>1, TakeCancelInv, RanCancelInv, FinishCancelInv DEF WorkerNext
<1>4. CASE EventNext
  <2>1. PICK e \in EventThreads : Poll(e) \/ PollTimeout(e) \/ Take(e) \/ CallbackBegin(e) \/ CallbackEnd(e)
    BY <1>4 DEF EventNext
  <2>2. CASE Poll(e) \/ PollTimeout(e)
    <3>1. ev' = [ev EXCEPT ![e] = [ev[e] EXCEPT !.pc = "drained"]]
      BY <2>2 DEF Poll, PollTimeout
    <3>2. [ev[e] EXCEPT !.pc = "drained"].list = ev[e].list
      BY Types DEF Events
    <3>3. \A f \in EventThreads : ev'[f].list = ev[f].list
      BY <3>1, <3>2, Types
    <3>4. UNCHANGED <<xfer, subq, doneq, worker, early, ran>>
      BY <2>2 DEF Poll, PollTimeout, queuevars
    <3> QED
      BY <3>3, <3>4, NothingMoves
  <2> QED
    BY <2>1, <2>2, EvTakeCancelInv, BeginCancelInv, EndCancelInv
<1>5. CASE ClientNext \/ ServerNext
  BY <1>1, <1>5 DEF ClientNext, ServerNext, Aside
<1>6. CASE UNCHANGED vars
  BY <1>1, <1>6 DEF vars
<1> QED
  BY <1>2, <1>3, <1>4, <1>5, <1>6 DEF Next

\* A transfer cancelled while it was queued never reaches the device and its callback
\* is told CANCELLED, however many transfers and event threads there are and whatever
\* the worker is doing when libusb_cancel_transfer is called: a transfer is never in
\* two places at once, so that the flag the worker looks at is the one that was set.
THEOREM CancelIsExactHolds == Spec => []CancelIsExact
<1>1. CancelInv => CancelIsExact
  BY DEF CancelInv
<1> QED
  BY <1>1, LibInvariant, CancelInitial, CancelStepInv, PTL DEF Spec
=============================================================================
