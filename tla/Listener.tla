------------------------------ MODULE Listener ------------------------------
(***************************************************************************)
(* The listener of one address (src/src/usbip.c): devices are plugged onto *)
(* and unplugged from it by application threads, its accept thread takes   *)
(* connections, and the serve thread of each connection shakes hands and   *)
(* imports one device.                                                     *)
(*                                                                         *)
(* g_servers_lock is held over a whole plug or unplug, the join of the     *)
(* accept thread included; server->lock guards the device list alone and   *)
(* is held within single actions.                                          *)
(***************************************************************************)
EXTENDS Integers, Sequences

CONSTANTS
  Devs,          \* the devices of the process
  Apps,          \* application threads that plug and unplug
  Conns,         \* clients; each has one connection at a time
  PinnedBusid,   \* per device, n for a busid "1-n" set by usbip_device_set_busid, 0 for none
  MaxDevices,    \* USBIP_MAX_DEVICES
  FirstDevnum,   \* USBIP_DEV_DEVNUM
  MaxDevnum,     \* bound: devnums handed out before the listener stops
  CallsMayFail,  \* whether socket, bind, listen and pthread_create can fail
  AcceptMayFail, \* whether accept can fail on a listening socket (EMFILE, ECONNABORTED, ...)
  None           \* no thread, no device

ASSUME ListenerAssumption ==
  /\ None \notin Devs \cup Apps
  /\ PinnedBusid \in [Devs -> Nat]
  /\ MaxDevices \in Nat \ {0}
  /\ FirstDevnum \in Nat
  /\ MaxDevnum \in Nat
  /\ CallsMayFail \in BOOLEAN
  /\ AcceptMayFail \in BOOLEAN

VARIABLES
  devs,          \* server->devs[0..n_devs)
  next_devnum,   \* server->next_devnum
  running,       \* server->running
  listening,     \* server->srv_fd is a listening socket
  acceptor,      \* the accept thread
  busid,         \* dev->busid: n for "1-n", 0 for the empty string
  devnum,        \* dev->devnum
  plugged,       \* dev->server is set
  g_lock,        \* the holder of g_servers_lock
  pc,            \* where each application thread is
  target,        \* the device it plugs or unplugs
  backlog,       \* the connections accept has not taken yet, in order
  conn,          \* where each connection is
  snap,          \* the snapshot of devs its handshake works on
  imported       \* the device it imported

servervars == <<devs, next_devnum, running, listening, acceptor>>
devicevars == <<busid, devnum, plugged>>
appvars == <<g_lock, pc, target>>
connvars == <<backlog, conn, snap, imported>>
vars == <<servervars, devicevars, appvars, connvars>>

ConnStates == {"backlog", "accepted", "snap", "serving", "closed"}

TypeOK ==
  /\ devs \in Seq(Devs)
  /\ next_devnum \in Nat
  /\ running \in BOOLEAN
  /\ listening \in BOOLEAN
  /\ acceptor \in {"none", "loop", "accept", "exited"}
  /\ busid \in [Devs -> Nat]
  /\ devnum \in [Devs -> Nat]
  /\ plugged \in [Devs -> BOOLEAN]
  /\ g_lock \in Apps \cup {None}
  /\ pc \in [Apps -> {"idle", "start", "add", "stop", "shutdown", "join"}]
  /\ target \in [Apps -> Devs \cup {None}]
  /\ backlog \in Seq(Conns)
  /\ conn \in [Conns -> ConnStates]
  /\ snap \in [Conns -> Seq(Devs)]
  /\ imported \in [Conns -> Devs \cup {None}]

Init ==
  /\ devs = <<>>
  /\ next_devnum = 0
  /\ running = FALSE
  /\ listening = FALSE
  /\ acceptor = "none"
  /\ busid = PinnedBusid
  /\ devnum = [d \in Devs |-> 0]
  /\ plugged = [d \in Devs |-> FALSE]
  /\ g_lock = None
  /\ pc = [a \in Apps |-> "idle"]
  /\ target = [a \in Apps |-> None]
  /\ backlog = <<>>
  /\ conn = [c \in Conns |-> "closed"]
  /\ snap = [c \in Conns |-> <<>>]
  /\ imported = [c \in Conns |-> None]

-----------------------------------------------------------------------------
(* Calls of the application: the caller takes g_servers_lock, or waits     *)

Enter(a, d, label) ==
  /\ pc[a] = "idle"
  /\ g_lock = None
  /\ g_lock' = a
  /\ pc' = [pc EXCEPT ![a] = label]
  /\ target' = [target EXCEPT ![a] = d]

Goto(a, label) ==
  /\ pc' = [pc EXCEPT ![a] = label]
  /\ UNCHANGED <<g_lock, target>>

Leave(a) ==
  /\ g_lock' = None
  /\ pc' = [pc EXCEPT ![a] = "idle"]
  /\ target' = [target EXCEPT ![a] = None]

\* usbip_serve_start.  An application plugs a device that is not plugged; a full list
\* is an error that changes nothing.
Plug(a, d) ==
  /\ ~plugged[d]
  /\ running => next_devnum <= MaxDevnum
  /\ Len(devs) < MaxDevices
  /\ Enter(a, d, IF running THEN "add" ELSE "start")
  /\ UNCHANGED <<servervars, devicevars, connvars>>

\* server_start: bind, listen and start the accept thread.
ServerStart(a) ==
  /\ pc[a] = "start"
  /\ listening' = TRUE
  /\ running' = TRUE
  /\ next_devnum' = FirstDevnum
  /\ acceptor' = "loop"
  /\ Goto(a, "add")
  /\ UNCHANGED <<devs, devicevars, connvars>>

\* Fault: running stays set when the accept thread could not be created.
ServerStart_Fail_KeepsRunning(a) ==
  /\ CallsMayFail
  /\ pc[a] = "start"
  /\ running' = TRUE
  /\ Leave(a)
  /\ UNCHANGED <<devs, next_devnum, listening, acceptor, devicevars, connvars>>

\* A call fails: nothing is left behind but next_devnum, set once the socket was bound
\* (clients that reached the socket meanwhile are reset: they are as if they had not tried).
ServerStart_Fail(a) ==
  /\ CallsMayFail
  /\ pc[a] = "start"
  /\ next_devnum' \in {next_devnum, FirstDevnum}
  /\ Leave(a)
  /\ UNCHANGED <<devs, running, listening, acceptor, devicevars, connvars>>

\* Wire addresses are handed out one after the other, not by slot.
NewDevnum == next_devnum

\* The rest of usbip_serve_start: name the device and export it.
PlugAdd(a) ==
  /\ pc[a] = "add"
  /\ LET d == target[a]
     IN /\ busid' = [busid EXCEPT ![d] = IF @ = 0 THEN Len(devs) + 1 ELSE @]
        /\ devnum' = [devnum EXCEPT ![d] = NewDevnum]
        /\ plugged' = [plugged EXCEPT ![d] = TRUE]
        /\ devs' = Append(devs, d)
  /\ next_devnum' = next_devnum + 1
  /\ Leave(a)
  /\ UNCHANGED <<running, listening, acceptor, connvars>>

\* The list without its k-th entry (the memmove of usbip_serve_stop).
Without(list, k) == [i \in 1..(Len(list) - 1) |-> IF i < k THEN list[i] ELSE list[i + 1]]

\* The last device out stops the listener.
LastOut(list) == list = <<>>

\* usbip_serve_stop.
Unplug(a, d) ==
  /\ \E k \in DOMAIN devs :
       /\ devs[k] = d
       /\ \A j \in 1..(k - 1) : devs[j] # d
       /\ devs' = Without(devs, k)
  /\ plugged' = [plugged EXCEPT ![d] = FALSE]
  /\ IF LastOut(devs')
       THEN Enter(a, d, "stop")
       ELSE /\ pc[a] = "idle"
            /\ g_lock = None
            /\ UNCHANGED appvars
  /\ UNCHANGED <<next_devnum, running, listening, acceptor, busid, devnum, connvars>>

\* server_stop: first the flag ...
ServerStop(a) ==
  /\ pc[a] = "stop"
  /\ running' = FALSE
  /\ Goto(a, "shutdown")
  /\ UNCHANGED <<devs, next_devnum, listening, acceptor, devicevars, connvars>>

\* Fault: the socket is left alone, to close when the process ends.
ServerStop_Shutdown_Not(a) ==
  /\ pc[a] = "shutdown"
  /\ Goto(a, "join")
  /\ UNCHANGED <<servervars, devicevars, connvars>>

\* ... then the socket: the connections that were not accepted yet are reset, and
\* accept fails from here on ...
ServerStop_Shutdown(a) ==
  /\ pc[a] = "shutdown"
  /\ listening' = FALSE
  /\ backlog' = <<>>
  /\ conn' = [c \in Conns |-> IF conn[c] = "backlog" THEN "closed" ELSE conn[c]]
  /\ Goto(a, "join")
  /\ UNCHANGED <<devs, next_devnum, running, acceptor, devicevars, snap, imported>>

\* ... then the accept thread is joined, with g_servers_lock held.
ServerStop_Join(a) ==
  /\ pc[a] = "join"
  /\ acceptor = "exited"
  /\ acceptor' = "none"
  /\ Leave(a)
  /\ UNCHANGED <<devs, next_devnum, running, listening, devicevars, connvars>>

-----------------------------------------------------------------------------
(* The accept thread                                                       *)

\* while (server->running)
AcceptLoop ==
  /\ acceptor = "loop"
  /\ acceptor' = IF running THEN "accept" ELSE "exited"
  /\ UNCHANGED <<devs, next_devnum, running, listening, devicevars, appvars, connvars>>

AfterAccept == "loop"

\* accept returns a connection: its serve thread starts, or it is closed again.
Accept(c) ==
  /\ acceptor = "accept"
  /\ listening
  /\ backlog # <<>>
  /\ c = Head(backlog)
  /\ backlog' = Tail(backlog)
  /\ \/ conn' = [conn EXCEPT ![c] = "accepted"]
     \/ CallsMayFail /\ conn' = [conn EXCEPT ![c] = "closed"]
  /\ acceptor' = AfterAccept
  /\ UNCHANGED <<devs, next_devnum, running, listening, devicevars, appvars, snap, imported>>

\* accept fails: the thread ends, whatever the reason was.
AcceptFails ==
  /\ acceptor = "accept"
  /\ ~listening \/ AcceptMayFail
  /\ acceptor' = "exited"
  /\ UNCHANGED <<devs, next_devnum, running, listening, devicevars, appvars, connvars>>

-----------------------------------------------------------------------------
(* Clients and the handshake                                               *)

Connect(c) ==
  /\ conn[c] = "closed"
  /\ listening
  /\ conn' = [conn EXCEPT ![c] = "backlog"]
  /\ backlog' = Append(backlog, c)
  /\ UNCHANGED <<servervars, devicevars, appvars, snap, imported>>

\* The request header arrives: the handshake copies the device list before it knows
\* which busid the client asks for.
Handshake(c) ==
  /\ conn[c] = "accepted"
  /\ conn' = [conn EXCEPT ![c] = "snap"]
  /\ snap' = [snap EXCEPT ![c] = devs]
  /\ UNCHANGED <<servervars, devicevars, appvars, backlog, imported>>

\* The entries of a snapshot that go by the busid.
Matching(list, b) == {i \in DOMAIN list : busid[list[i]] = b}

\* OP_REQ_IMPORT: the busid arrives; the first match is served, no match is refused.
Handshake_Import(c, b) ==
  /\ conn[c] = "snap"
  /\ IF Matching(snap[c], b) # {}
       THEN \E i \in Matching(snap[c], b) :
              /\ \A j \in Matching(snap[c], b) : i <= j
              /\ imported' = [imported EXCEPT ![c] = snap[c][i]]
              /\ conn' = [conn EXCEPT ![c] = "serving"]
       ELSE /\ conn' = [conn EXCEPT ![c] = "closed"]
            /\ UNCHANGED imported
  /\ snap' = [snap EXCEPT ![c] = <<>>]
  /\ UNCHANGED <<servervars, devicevars, appvars, backlog>>

\* OP_REQ_DEVLIST was answered from the snapshot, the request was not understood, or
\* the client went away: the serve thread closes the socket.
Hangup(c) ==
  /\ conn[c] \in {"accepted", "snap", "serving"}
  /\ conn' = [conn EXCEPT ![c] = "closed"]
  /\ snap' = [snap EXCEPT ![c] = <<>>]
  /\ imported' = [imported EXCEPT ![c] = None]
  /\ UNCHANGED <<servervars, devicevars, appvars, backlog>>

-----------------------------------------------------------------------------

CallStep(a) ==
  \/ ServerStart(a) \/ ServerStart_Fail(a) \/ PlugAdd(a)
  \/ ServerStop(a) \/ ServerStop_Shutdown(a) \/ ServerStop_Join(a)

AcceptStep == AcceptLoop \/ AcceptFails \/ \E c \in Conns : Accept(c)

Busids == 1..MaxDevices

ConnStep(c) == Connect(c) \/ Handshake(c) \/ Hangup(c) \/ \E b \in Busids : Handshake_Import(c, b)

Next ==
  \/ \E a \in Apps, d \in Devs : Plug(a, d) \/ Unplug(a, d)
  \/ \E a \in Apps : CallStep(a)
  \/ AcceptStep
  \/ \E c \in Conns : ConnStep(c)

Spec == Init /\ [][Next]_vars

\* A call that holds g_servers_lock and the accept thread keep running.
Fairness == (\A a \in Apps : WF_vars(CallStep(a))) /\ WF_vars(AcceptStep)

FairSpec == Spec /\ Fairness

-----------------------------------------------------------------------------
(* Properties                                                              *)

\* Exported devices have distinct devnums whatever was plugged and unplugged before
\* (usbip_serve_start: the devnum "is what lets `lsusb -s` tell devices apart").
UniqueDevnum ==
  \A i, j \in DOMAIN devs : devnum[devs[i]] = devnum[devs[j]] => i = j

\* Between calls the listener runs, with a listening socket, exactly when devices are
\* exported: no failed plug and no unplug leaves it half up or half down.
ListenerMatchesExports ==
  g_lock = None =>
    /\ running <=> devs # <<>>
    /\ listening <=> devs # <<>>
    /\ \A d \in Devs : plugged[d] <=> \E i \in DOMAIN devs : devs[i] = d

\* Both: what is exported can be told apart, and the listener is up for exactly that.
ExportsAreSound == UniqueDevnum /\ ListenerMatchesExports

AcceptsWhileExported ==
  g_lock = None => (acceptor \in {"loop", "accept"} <=> devs # <<>>)

CallsReturn == \A a \in Apps : (pc[a] # "idle") ~> (pc[a] = "idle")

BacklogDrains == \A c \in Conns : (conn[c] = "backlog") ~> (conn[c] # "backlog")

\* The listener goes on serving.  Between calls an exported device can be reached: a thread
\* accepts connections, and none is left over when nothing is exported.  Plug and unplug
\* return: the accept thread that unplug joins under g_servers_lock always ends, wherever
\* shutdown catches it.  And a connection never waits in the backlog for ever: it is
\* accepted, or reset when the listener stops.
ListenerServes == []AcceptsWhileExported /\ CallsReturn /\ BacklogDrains
=============================================================================
