-------------------------------- MODULE Pcap --------------------------------
(***************************************************************************)
(* Packet capture (src/src/pcap.c), switched on by the application or, at  *)
(* the first packet, by the environment; and the table from which a client *)
(* tells the transfer type of an endpoint (src/src/usbip.c).  Threads log  *)
(* packets while others open and close the file: g_checked and g_fp are    *)
(* read without the lock, blocks are written under it.                     *)
(* The endpoint table has no lock at all; here one thread at a time        *)
(* imports devices, as the host API's programs do.                         *)
(***************************************************************************)
EXTENDS Integers, SequencesExt

CONSTANTS
  Loggers,       \* threads that log packets
  MaxLogged,   \* bound: packets a thread logs
  MaxOpens,      \* bound: files opened
  EnvAsks,       \* USBIP_PCAPNG is set
  Devids,        \* devices a client talks to
  MapSlots       \* PCAP_EPMAP_DEVS

ASSUME PcapAssumption ==
  MaxLogged \in Nat /\ MaxOpens \in Nat /\ EnvAsks \in BOOLEAN /\ MapSlots \in Nat \ {0}

Nobody == "nobody"

VARIABLES
  g_fp,        \* whether a file is open
  g_checked,   \* the environment has been consulted, or an open begun
  g_lock,      \* who holds the lock: Nobody, a logger, or "owner" (usbip_pcap_open of the application)
  file,        \* the blocks of the file, whole since they are written under the lock
  opens,       \* files opened
  logger,      \* per thread: where it is in usbip_pcap_packet, packets logged, and
               \* whether the file has been open since the call began
  lost,        \* a packet was left out of a file that was open all the while (history)
  epmap        \* pcap_epmap: the devid of each slot, in order

pcapvars == <<g_fp, g_checked, g_lock, file, opens, logger, lost, epmap>>

PcapInit ==
  /\ g_fp = FALSE /\ g_checked = FALSE /\ g_lock = Nobody /\ file = <<>> /\ opens = 0 /\ lost = FALSE
  /\ logger = [t \in Loggers |-> [pc |-> "out", n |-> 0, covered |-> FALSE]]
  /\ epmap = <<>>

Block(kind, t, n) == [kind |-> kind, by |-> t, n |-> n]
Goes(t, pc) == logger' = [logger EXCEPT ![t].pc = pc]

---------------------------------------------------------------------------
(* usbip_pcap_open: by the application ("owner"), or by a logger in ensure. *)

AlreadyOpen == g_fp

OpenBegin(who) ==
  /\ g_lock = Nobody
  /\ g_checked' = TRUE
  /\ g_lock' = IF AlreadyOpen THEN Nobody ELSE who
  /\ UNCHANGED <<g_fp, file, opens, lost, epmap>>

\* fopen may fail; otherwise a new file with its two header blocks.
OpenFile(who) ==
  /\ g_lock = who
  /\ \/ /\ opens < MaxOpens /\ opens' = opens + 1
        /\ g_fp' = TRUE /\ file' = <<Block("shb", Nobody, 0), Block("idb", Nobody, 0)>>
     \/ UNCHANGED <<opens, g_fp, file>>
  /\ g_lock' = Nobody
  /\ UNCHANGED <<g_checked, lost, epmap>>

AppOpens == OpenBegin("owner") /\ UNCHANGED logger
AppOpened == OpenFile("owner") /\ UNCHANGED logger

usbip_pcap_close ==
  /\ g_lock = Nobody /\ g_fp
  /\ g_fp' = FALSE
  /\ logger' = [t \in Loggers |-> [logger[t] EXCEPT !.covered = FALSE]]
  /\ UNCHANGED <<g_checked, g_lock, file, opens, lost, epmap>>

---------------------------------------------------------------------------
(* usbip_pcap_packet *)

\* ensure: unlocked.
Call(t) ==
  /\ logger[t].pc = "out" /\ logger[t].n < MaxLogged
  /\ logger' = [logger EXCEPT ![t] = [pc |-> IF ~g_checked /\ EnvAsks THEN "open" ELSE "look", n |-> @.n + 1, covered |-> g_fp]]
  /\ g_checked' = (g_checked \/ ~EnvAsks)
  /\ UNCHANGED <<g_fp, g_lock, file, opens, lost, epmap>>

EnvOpens(t) == logger[t].pc = "open" /\ OpenBegin(t) /\ Goes(t, IF AlreadyOpen THEN "look" ELSE "opening")
EnvOpened(t) == logger[t].pc = "opening" /\ OpenFile(t) /\ Goes(t, "look")

Returns(t) == Goes(t, "out") /\ lost' = (lost \/ logger[t].covered)

\* g_fp, unlocked: no file, no packet.
Look(t) ==
  /\ logger[t].pc = "look"
  /\ IF g_fp THEN Goes(t, "write") /\ UNCHANGED lost ELSE Returns(t)
  /\ UNCHANGED <<g_fp, g_checked, g_lock, file, opens, epmap>>

\* Fault: the file is taken for open once it was.
StillOpen_Assumed == TRUE

StillOpen == g_fp

\* The record is ready: under the lock the file is looked at again.
Write(t) ==
  /\ logger[t].pc = "write" /\ g_lock = Nobody
  /\ IF StillOpen THEN file' = Append(file, Block(IF g_fp THEN "epb" ELSE "stray", t, logger[t].n)) /\ Goes(t, "out") /\ UNCHANGED lost
     ELSE Returns(t) /\ UNCHANGED file
  /\ UNCHANGED <<g_fp, g_checked, g_lock, opens, epmap>>

---------------------------------------------------------------------------
(* pcap_epmap_learn, from the configuration descriptor of a device. *)

pcap_epmap_find(devid) == SelectInSeq(epmap, LAMBDA d : d = devid)

\* A slot for a device that has none: the next, or slot 0 when all are taken.
Recycled(devid) == IF Len(epmap) < MapSlots THEN Append(epmap, devid) ELSE [epmap EXCEPT ![1] = devid]

Learn(devid) ==
  /\ epmap' = IF pcap_epmap_find(devid) # 0 THEN epmap ELSE Recycled(devid)
  /\ UNCHANGED <<g_fp, g_checked, g_lock, file, opens, logger, lost>>

PcapNext ==
  \/ AppOpens \/ AppOpened \/ usbip_pcap_close
  \/ \E t \in Loggers : Call(t) \/ EnvOpens(t) \/ EnvOpened(t) \/ Look(t) \/ Write(t)
  \/ \E d \in Devids : Learn(d)

---------------------------------------------------------------------------
\* Threads log, open and close at once, and the file stays a capture: its two
\* headers first and once, then the packets of each thread in the order it
\* logged them and nothing behind the close; no packet is left out whose call
\* found the file open and saw no close.  The endpoint table has one slot for
\* a device and no more slots than there are.
CaptureIsSound ==
  /\ g_fp => Len(file) >= 2 /\ file[1].kind = "shb" /\ file[2].kind = "idb"
  /\ \A i \in 3..Len(file) : file[i].kind = "epb"
  /\ \A i, j \in 3..Len(file) : i < j /\ file[i].by = file[j].by => file[i].n < file[j].n
  /\ ~lost
  /\ Len(epmap) <= MapSlots /\ IsInjective(epmap)
=============================================================================
