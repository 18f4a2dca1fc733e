--------------------------- MODULE LibusbDevices ---------------------------
(***************************************************************************)
(* Device objects of the libusb-1.0 replacement                            *)
(* (src/wrapper/libusb-1.0/libusb.c): reference-counted snapshots of the   *)
(* server's device list, the handles opened through them and the           *)
(* configuration blob each caches. The program frees its list, takes and   *)
(* drops references and opens stale objects while devices come and go.     *)
(***************************************************************************)
EXTENDS UsbipClient

CONSTANTS
  Devs,     \* libusb_device objects that can be allocated
  NoDev

ASSUME DevicesAssumption == NoDev \notin Devs /\ IsFiniteSet(Handles)

VARIABLES
  dev,      \* per object: refcnt (0: freed), its busid and devnum, and whether its
            \* cfg_raw has been fetched
  list,     \* the array of libusb_get_device_list the program holds
  owned,    \* references the program holds itself
  hdev      \* handle->dev

devvars == <<dev, list, owned, hdev>>

NoObject == [refcnt |-> 0, busid |-> "none", devnum |-> 0, cfg |-> FALSE]

DevicesTypeOK ==
  /\ dev \in [Devs -> [refcnt : Int, busid : Busids \cup {"none"}, devnum : 0..MaxDevnum, cfg : BOOLEAN]]
  /\ list \subseteq Devs
  /\ owned \in [Devs -> 0..1]
  /\ hdev \in [Handles -> Devs \cup {NoDev}]

DevicesInit ==
  /\ dev = [d \in Devs |-> NoObject]
  /\ list = {} /\ owned = [d \in Devs |-> 0]
  /\ hdev = [h \in Handles |-> NoDev]

\* An object per exported device, each with one reference.
libusb_get_device_list ==
  /\ list = {}
  /\ \E ds \in SUBSET {d \in Devs : dev[d].refcnt = 0} :
       \E f \in [ds -> usbip_client_devlist] :
         /\ Cardinality(ds) = Cardinality(usbip_client_devlist) /\ ds # {}
         /\ \A d, e \in ds : d # e => f[d] # f[e]
         /\ list' = ds
         /\ dev' = [d \in Devs |-> IF d \notin ds THEN dev[d]
                      ELSE [refcnt |-> 1, busid |-> f[d].busid, devnum |-> f[d].devnum, cfg |-> FALSE]]
  /\ UNCHANGED <<clientvars, owned, hdev>>

\* libusb_unref_device of every object in ds: the last reference frees it.
Unreferenced(ds) ==
  [d \in Devs |-> IF d \notin ds THEN dev[d]
                  ELSE IF dev[d].refcnt <= 1 THEN NoObject ELSE [dev[d] EXCEPT !.refcnt = @ - 1]]

\* With unref_devices = 0 the references are the program's from now on.
libusb_free_device_list(unref_devices) ==
  /\ list # {}
  /\ list' = {}
  /\ IF unref_devices THEN dev' = Unreferenced(list) /\ UNCHANGED owned
     ELSE /\ \A d \in list : owned[d] = 0
          /\ owned' = [d \in Devs |-> IF d \in list THEN 1 ELSE owned[d]]
          /\ UNCHANGED dev
  /\ UNCHANGED <<clientvars, hdev>>

libusb_ref_device(d) ==
  /\ d \in list \cup {hdev[h] : h \in Handles} /\ owned[d] = 0
  /\ dev' = [dev EXCEPT ![d].refcnt = @ + 1]
  /\ owned' = [owned EXCEPT ![d] = 1]
  /\ UNCHANGED <<clientvars, list, hdev>>

libusb_unref_device(d) ==
  /\ owned[d] = 1
  /\ dev' = Unreferenced({d})
  /\ owned' = [owned EXCEPT ![d] = 0]
  /\ UNCHANGED <<clientvars, list, hdev>>

\* Fault: the handle borrows the caller's reference.
Kept_Borrowed(d) == dev[d].refcnt

\* A handle holds a reference of its own.
Kept(d) == dev[d].refcnt + 1

Usable(d) == d \in list \/ owned[d] = 1

\* libusb_open: the import is by busid, whatever is plugged there now.
libusb_open(d, h) ==
  /\ Usable(d)
  /\ Import(h, dev[d].busid, dev[d].devnum)
  /\ dev' = [dev EXCEPT ![d].refcnt = Kept(d)]
  /\ hdev' = [hdev EXCEPT ![h] = d]
  /\ UNCHANGED <<exported, next_devnum, iolock, call, list, owned>>

\* libusb_open_device_with_vid_pid: its list is freed again, the handle keeps the matched object.
libusb_open_device_with_vid_pid(b, d, h) ==
  /\ dev[d].refcnt = 0
  /\ Import(h, b, exported[b])
  /\ dev' = [dev EXCEPT ![d] = [refcnt |-> 1, busid |-> b, devnum |-> exported[b], cfg |-> FALSE]]
  /\ hdev' = [hdev EXCEPT ![h] = d]
  /\ UNCHANGED <<exported, next_devnum, iolock, call, list, owned>>

libusb_close(h) ==
  /\ conn[h].open
  /\ CloseSocket(h)
  /\ dev' = Unreferenced({hdev[h]})
  /\ hdev' = [hdev EXCEPT ![h] = NoDev]
  /\ UNCHANGED <<exported, next_devnum, iolock, call, list, owned>>

\* fetch_config_blob: once per object, over a connection of its own.
fetch_config_blob(d) ==
  /\ Usable(d) /\ ~dev[d].cfg /\ exported[dev[d].busid] # 0
  /\ dev' = [dev EXCEPT ![d].cfg = TRUE]
  /\ UNCHANGED <<clientvars, list, owned, hdev>>

DevicesNext ==
  \/ libusb_get_device_list \/ (\E u \in BOOLEAN : libusb_free_device_list(u))
  \/ \E d \in Devs :
       \/ libusb_ref_device(d) \/ libusb_unref_device(d) \/ fetch_config_blob(d)
       \/ \E h \in Handles :
            libusb_open(d, h) \/ \E b \in Busids : libusb_open_device_with_vid_pid(b, d, h)
  \/ \E h \in Handles : libusb_close(h)

---------------------------------------------------------------------------
\* An object lives exactly as long as the list, the program or an open handle
\* refers to it, in whatever order they let go, and a handle's requests carry
\* the devid of the device it imported, also when the object it was opened
\* through is a snapshot of a device that has been replugged since.
HandleIsSound ==
  /\ \A d \in Devs : dev[d].refcnt = (IF d \in list THEN 1 ELSE 0) + owned[d]
                       + Cardinality({h \in Handles : hdev[h] = d})
  /\ \A h \in Handles : conn[h].devid = conn[h].devnum
=============================================================================
