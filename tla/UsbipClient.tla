---------------------------- MODULE UsbipClient ----------------------------
(***************************************************************************)
(* The importing side of USB/IP (src/src/usbip.c, "Client side"): a        *)
(* connection per opened device and synchronous request/reply on it. The   *)
(* host API and both wrapper libraries are built on these primitives.      *)
(*                                                                         *)
(* A request is one write and the reply is read without looking at its     *)
(* seqnum: whatever bytes come next are taken for the answer. The payload  *)
(* of a message is left out; a reply is one unit, or a "tail" when its     *)
(* header has been read and its data has not. conn.skew remembers that an  *)
(* allocation failed half way through a message of the connection.         *)
(***************************************************************************)
EXTENDS Integers, Sequences, FiniteSets

CONSTANTS
  Threads,     \* threads of the importing program that run transfers
  Handles,     \* device handles the program can hold
  Busids,      \* names under which devices are exported
  MaxDevnum,   \* bound: devices plugged during a run
  MaxSeq,      \* seqnums run from 1 to MaxSeq and start over (32 bits in the code)
  Kinds,       \* transfers the program uses: "plain" is usbip_client_submit, "iso" usbip_client_submit_iso
  MayRunOut    \* whether malloc may fail inside an isochronous submit

ASSUME ClientAssumption ==
  /\ MaxDevnum \in Nat
  /\ MaxSeq \in Nat \ {0}
  /\ Kinds \subseteq {"plain", "iso"}
  /\ MayRunOut \in BOOLEAN

VARIABLES
  exported,    \* the server's table: per busid the devnum of its device, 0 for none
  next_devnum, \* the devnum of the next device to be plugged
  conn,        \* per handle: the socket, the server at its other end included
  iolock,      \* per handle: the threads inside handle->iolock
  call         \* per thread: the submit it is in, and how its last one ended

clientvars == <<exported, next_devnum, conn, iolock, call>>

Units == [part : {"reply", "tail"}, seq : 1..MaxSeq]
NoCall == [pc |-> "idle", h |-> "none", kind |-> "plain", seq |-> 0, got |-> 0, rc |-> "none", skew |-> FALSE]
Closed == [open |-> FALSE, up |-> FALSE, devnum |-> 0, devid |-> 0, seq |-> 0,
           wire |-> <<>>, torn |-> 0, replies |-> <<>>, skew |-> FALSE]

ClientTypeOK ==
  /\ exported \in [Busids -> 0..MaxDevnum]
  /\ next_devnum \in 1..(MaxDevnum + 1)
  /\ conn \in [Handles -> [open : BOOLEAN, up : BOOLEAN, devnum : 0..MaxDevnum,
                devid : 0..MaxDevnum, seq : 0..MaxSeq, wire : Seq(1..MaxSeq),
                torn : 0..MaxSeq, replies : Seq(Units), skew : BOOLEAN]]
  /\ iolock \in [Handles -> SUBSET Threads]
  /\ call \in [Threads -> [pc : {"idle", "lock", "send", "wait", "returned"},
                h : Handles \cup {"none"}, kind : {"plain", "iso"}, seq : 0..MaxSeq, got : 0..MaxSeq,
                rc : {"none", "ok", "stall", "io", "nomem", "misread"}, skew : BOOLEAN]]

ClientInit ==
  /\ exported = [b \in Busids |-> 0]
  /\ next_devnum = 1
  /\ conn = [h \in Handles |-> Closed]
  /\ iolock = [h \in Handles |-> {}]
  /\ call = [t \in Threads |-> NoCall]

---------------------------------------------------------------------------
(* The server, as the client sees it (usbip_serve_start, usbip_serve_stop, *)
(* the serve threads; modelled in Listener and InEndpoint).                *)

\* An idle listener starts counting anew.
Plug(b) ==
  LET n == IF \A c \in Busids : exported[c] = 0 THEN 1 ELSE next_devnum IN
  /\ exported[b] = 0
  /\ n <= MaxDevnum
  /\ exported' = [exported EXCEPT ![b] = n]
  /\ next_devnum' = n + 1
  /\ UNCHANGED <<conn, iolock, call>>

Unplug(b) ==
  /\ exported[b] # 0
  /\ exported' = [exported EXCEPT ![b] = 0]
  /\ UNCHANGED <<next_devnum, conn, iolock, call>>

\* The server answers the oldest request it has in full (bound: the socket holds MaxSeq replies).
ServerAnswers(h) ==
  /\ conn[h].up /\ conn[h].wire # <<>> /\ Len(conn[h].replies) < MaxSeq
  /\ conn' = [conn EXCEPT
       ![h].wire = Tail(@),
       ![h].replies = Append(@, [part |-> "reply", seq |-> Head(conn[h].wire)])]
  /\ UNCHANGED <<exported, next_devnum, iolock, call>>

\* The connection breaks: what the client has received can still be read.
ServerDrops(h) ==
  /\ conn[h].up
  /\ conn' = [conn EXCEPT ![h].up = FALSE, ![h].wire = <<>>]
  /\ UNCHANGED <<exported, next_devnum, iolock, call>>

---------------------------------------------------------------------------
(* OP_REQ_DEVLIST and OP_REQ_IMPORT, each on a connection of its own that  *)
(* nobody else can see: one step each, with the table as it is then.       *)

\* usbip_client_devlist: the busids and devnums exported now.
usbip_client_devlist == {[busid |-> b, devnum |-> exported[b]] : b \in {c \in Busids : exported[c] # 0}}

\* devid is put together from the import's own answer.
Devid(b, listed) == exported[b]

\* usbip_connect, usbip_client_import and the handle made of the answer; listed is what
\* the program's device list says.
Import(h, b, listed) ==
  /\ ~conn[h].open
  /\ exported[b] # 0
  /\ conn' = [conn EXCEPT ![h] = [Closed EXCEPT !.open = TRUE, !.up = TRUE,
                !.devnum = exported[b], !.devid = Devid(b, listed)]]

CloseSocket(h) == conn' = [conn EXCEPT ![h] = Closed]

---------------------------------------------------------------------------
(* usbip_client_submit and usbip_client_submit_iso. *)

\* A thread enters a transfer on h; with a lock it first waits for handle->iolock.
Enter(t, h, kind, locks) ==
  /\ call[t].pc = "idle"
  /\ conn[h].open
  /\ call' = [call EXCEPT ![t] = [NoCall EXCEPT !.h = h, !.kind = kind,
                !.pc = IF locks THEN "lock" ELSE "send"]]

\* Fault: the lock is not taken.
MayLock_Always(h) == TRUE

MayLock(h) == iolock[h] = {}

Lock(t) ==
  /\ call[t].pc = "lock" /\ MayLock(call[t].h)
  /\ iolock' = [iolock EXCEPT ![call[t].h] = @ \cup {t}]
  /\ call' = [call EXCEPT ![t].pc = "send"]
  /\ UNCHANGED <<exported, next_devnum, conn>>

\* The call returns, releasing the lock if it took it.
Return(t, rc, got) ==
  /\ call' = [call EXCEPT ![t].pc = "returned", ![t].rc = rc, ![t].got = got,
                ![t].skew = conn[call[t].h].skew]
  /\ iolock' = [iolock EXCEPT ![call[t].h] = @ \ {t}]

\* The header, and for OUT the data; for isochronous transfers the packet
\* descriptors follow. A request behind a torn one is read as the rest of it.
Send(t) ==
  LET h == call[t].h  n == (conn[h].seq % MaxSeq) + 1 IN
  /\ call[t].pc = "send" /\ Len(conn[h].wire) < MaxSeq   \* bound: the requests in the socket
  /\ \/ /\ conn[h].up
        /\ conn' = [conn EXCEPT ![h].seq = n, ![h].torn = 0,
             ![h].wire = Append(@, IF conn[h].torn # 0 THEN conn[h].torn ELSE n)]
        /\ call' = [call EXCEPT ![t].pc = "wait", ![t].seq = n]
        /\ UNCHANGED iolock
     \/ /\ ~conn[h].up
        /\ conn' = [conn EXCEPT ![h].seq = n]
        /\ Return(t, "io", 0)
     \/ /\ MayRunOut /\ conn[h].up /\ call[t].kind = "iso"   \* malloc for the descriptors fails
        /\ conn' = [conn EXCEPT ![h].seq = n, ![h].torn = n, ![h].skew = TRUE]
        /\ Return(t, "nomem", 0)
  /\ UNCHANGED <<exported, next_devnum>>

\* readn of the header and of what follows it.
Receive(t) ==
  LET h == call[t].h  u == Head(conn[h].replies) IN
  /\ call[t].pc = "wait"
  /\ \/ /\ conn[h].replies # <<>> /\ u.part = "reply"
        /\ conn' = [conn EXCEPT ![h].replies = Tail(@)]
        /\ \E rc \in {"ok", "stall"} : Return(t, rc, u.seq)
     \/ /\ conn[h].replies # <<>> /\ u.part = "tail"          \* data read as a header
        /\ conn' = [conn EXCEPT ![h].replies = Tail(@)]
        /\ Return(t, "misread", u.seq)
     \/ /\ conn[h].replies = <<>> /\ ~conn[h].up
        /\ Return(t, "io", 0)
        /\ UNCHANGED conn
     \/ /\ MayRunOut /\ call[t].kind = "iso" /\ conn[h].replies # <<>> /\ u.part = "reply"
        /\ conn' = [conn EXCEPT ![h].replies = <<[u EXCEPT !.part = "tail"]>> \o Tail(@),
             ![h].skew = TRUE]
        /\ Return(t, "io", 0)                                 \* malloc for the data fails
  /\ UNCHANGED <<exported, next_devnum>>

\* The caller has looked at the result.
Forget(t) == /\ call[t].pc = "returned"
             /\ call' = [call EXCEPT ![t] = NoCall]

Step(t) == Lock(t) \/ Send(t) \/ Receive(t)

---------------------------------------------------------------------------
\* A submit that came to an answer was given the answer to its own request,
\* although client_submit never compares seqnums, unless an isochronous
\* submit ran out of memory between two parts of a message of the connection.
ReplyIsMine ==
  \A t \in Threads : ~call[t].skew /\ call[t].rc \in {"ok", "stall"} => call[t].got = call[t].seq
=============================================================================
