------------------------------ MODULE HostApi ------------------------------
(***************************************************************************)
(* The host API (src/src/usbip_host.c): a device list without reference    *)
(* counts, handles that copy what they need of it, and synchronous         *)
(* transfers that take no lock: a handle belongs to one thread.            *)
(***************************************************************************)
EXTENDS UsbipClient

VARIABLES
  hostlist,   \* usbip_host_get_device_list's array, as the program holds it
  user        \* per handle: the thread that uses it

hostvars == <<hostlist, user>>

HostTypeOK ==
  /\ hostlist \subseteq [busid : Busids, devnum : 1..MaxDevnum]
  /\ user \in [Handles -> Threads]

HostInit == hostlist = {} /\ user \in [Handles -> Threads]

usbip_host_get_device_list ==
  /\ hostlist = {} /\ hostlist' = usbip_client_devlist
  /\ UNCHANGED <<clientvars, user>>

usbip_host_free_device_list ==
  /\ hostlist # {} /\ hostlist' = {}
  /\ UNCHANGED <<clientvars, user>>

\* By a listed device; the list is needed only while it runs.
usbip_host_open(h) ==
  /\ \E d \in hostlist : Import(h, d.busid, d.devnum)
  /\ UNCHANGED <<exported, next_devnum, iolock, call, hostvars>>

\* The search of a fresh list and the import are one step here; a replug between
\* them is a listed device opened by usbip_host_open.
usbip_host_open_vid_pid(h, b) ==
  /\ Import(h, b, exported[b])
  /\ UNCHANGED <<exported, next_devnum, iolock, call, hostvars>>

usbip_host_close(h) ==
  /\ conn[h].open /\ call[user[h]].h # h
  /\ CloseSocket(h)
  /\ UNCHANGED <<exported, next_devnum, iolock, call, hostvars>>

\* usbip_host_control_transfer, _bulk_transfer, _interrupt_transfer, _submit_transfer.
Transfer(h, kind) ==
  /\ Enter(user[h], h, kind, FALSE)
  /\ UNCHANGED <<exported, next_devnum, conn, iolock, hostvars>>

TransferReturns(t) ==
  /\ Forget(t)
  /\ UNCHANGED <<exported, next_devnum, conn, iolock, hostvars>>

HostNext ==
  \/ usbip_host_get_device_list \/ usbip_host_free_device_list
  \/ \E h \in Handles :
       \/ usbip_host_open(h) \/ usbip_host_close(h)
       \/ \E b \in Busids : usbip_host_open_vid_pid(h, b)
       \/ \E k \in Kinds : Transfer(h, k)
  \/ \E t \in Threads : TransferReturns(t) \/ (Step(t) /\ UNCHANGED hostvars)
=============================================================================
