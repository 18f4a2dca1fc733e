-------------------------------- MODULE Mtp --------------------------------
(***************************************************************************)
(* The MTP class (src/src/classes/device/mtp.c) over the directory backend *)
(* of src/examples/device/mtp_device.c: sessions, the command -> data ->   *)
(* response protocol, and the table of object handles that every change of *)
(* a store is followed by a rescan of. Datasets are records of what the    *)
(* host reads in them; a file is "empty" or has "data".                     *)
(*                                                                         *)
(* The host sends the data of a data-out operation right behind its        *)
(* command, as MTP initiators do, and then waits for a response. It may    *)
(* cancel before the data, or reset the device.                            *)
(***************************************************************************)
EXTENDS Integers, FiniteSets, SequencesExt

CONSTANTS
  NStores,       \* ops.n_stores
  Listing,       \* bound: the entries the stores may have, store by store as scan_dir meets them
  MaxHandles,    \* bound: handles given out
  StoreMayFail   \* whether the backend may run out of space

Stores == 0..(NStores - 1)
MtpPath == Seq(Nat) \ {<<>>}        \* names are numbers, in the order of strcmp

\* By name, and a directory before what is in it.
PathBefore(p, q) == \/ IsStrictPrefix(p, q)
                    \/ \E i \in DOMAIN p \cap DOMAIN q : p[i] < q[i] /\ \A j \in 1..(i - 1) : p[j] = q[j]
Before(d, e) == d.si < e.si \/ (d.si = e.si /\ PathBefore(d.path, e.path))

ASSUME MtpAssumption ==
  /\ NStores \in Nat \ {0}
  /\ Listing \in Seq([si : Stores, path : MtpPath])
  /\ \A i, j \in DOMAIN Listing : i < j => Before(Listing[i], Listing[j])
  /\ \A e \in ToSet(Listing) : Len(e.path) > 1 => [e EXCEPT !.path = Front(e.path)] \in ToSet(Listing)
  /\ MaxHandles \in Nat /\ StoreMayFail \in BOOLEAN

Paths == [si \in Stores |-> {e.path : e \in {e \in ToSet(Listing) : e.si = si}}]
Names == {Last(e.path) : e \in ToSet(Listing)}
Bodies == {"empty", "data"}

VARIABLES
  node,         \* the stores: per store and path "none", "dir" or the contents of a file
  objs,         \* st->objs: a handle is an index, the table never shrinks
  session,      \* st->session # 0
  read_only,    \* st->read_only
  send_target,  \* st->send_target
  rx,           \* the data-out phase begun: its code and parameters
  initiator,    \* the host: idle, due to send the data of a command, or waiting
  answered      \* whether a response is queued on the IN pipe

mtpvars == <<node, objs, session, read_only, send_target, rx, initiator, answered>>

DataOut == {"SendObjectInfo", "SendObject", "SetObjectPropValue", "SetDevicePropValue", "SendPartialObject"}
NoRx == [code |-> "none", h |-> 0, si |-> 0, parent |-> 0]

MtpTypeOK ==
  /\ \A s \in Stores : node[s] \in [Paths[s] -> {"none", "dir"} \cup Bodies]
  /\ Len(objs) <= MaxHandles
  /\ session \in BOOLEAN /\ read_only \in BOOLEAN
  /\ send_target \in 0..MaxHandles
  /\ rx.code \in DataOut \cup {"none"}
  /\ initiator.phase \in {"idle", "data", "wait"} /\ initiator.code \in DataOut \cup {"none"}
  /\ answered \in BOOLEAN

---------------------------------------------------------------------------
(* The backend. A function of the contents n of the stores. *)

Inside(p, q) == IsPrefix(q, p)                     \* p is q or below it
Folder(n, si, p) == Len(p) = 1 \/ n[si][Front(p)] = "dir"

\* The states the stores may be in after a write to a file.
store_write(n, si, p, body) ==
  IF ~Folder(n, si, p) \/ n[si][p] = "dir" THEN {n}
  ELSE {[n EXCEPT ![si][p] = b] : b \in {body} \cup IF StoreMayFail THEN {n[si][p], "empty"} \ {"none"} ELSE {}}

store_make_dir(n, si, p) ==
  IF Folder(n, si, p) /\ n[si][p] = "none" THEN [n EXCEPT ![si][p] = "dir"] ELSE n

\* rmtree.
store_remove(n, si, p) == [n EXCEPT ![si] = [q \in Paths[si] |-> IF Inside(q, p) THEN "none" ELSE n[si][q]]]

\* rename(2): a file replaces a file, a directory an empty one.
MayRename(n, si, old, new) ==
  /\ n[si][old] # "none" /\ Folder(n, si, new)
  /\ old = new \/ ~Inside(new, old)
  /\ \/ old = new \/ n[si][new] = "none"
     \/ n[si][old] \in Bodies /\ n[si][new] \in Bodies
     \/ n[si][old] = "dir" /\ n[si][new] = "dir" /\ \A q \in Paths[si] : Inside(q, new) /\ q # new => n[si][q] = "none"

\* Where a path below old goes when old becomes new.
Rebased(q, old, new) == new \o SubSeq(q, Len(old) + 1, Len(q))

store_rename(n, si, old, new) ==
  [n EXCEPT ![si] = [q \in Paths[si] |->
     IF Inside(q, new) /\ Rebased(q, new, old) \in Paths[si] THEN n[si][Rebased(q, new, old)]
     ELSE IF Inside(q, old) THEN "none" ELSE n[si][q]]]

\* Everything in q's place fits below its new one (bound).
Fits(n, si, old, to, new) == \A q \in Paths[si] : n[si][q] # "none" /\ Inside(q, old) => Rebased(q, old, new) \in Paths[to]

---------------------------------------------------------------------------
(* The object table. *)

Live == {h \in 1..Len(objs) : objs[h].alive}

\* The first entry with a path; 0 when there is none.
obj_by_path(t, si, p) ==
  LET found == {i \in DOMAIN t : t[i].si = si /\ t[i].path = p}
  IN  IF found = {} THEN 0 ELSE CHOOSE i \in found : \A j \in found : i <= j

\* obj_upsert: an entry e the store has, under the handle its path had before.
obj_upsert(t, e, body) ==
  LET i == obj_by_path(t, e.si, e.path)
      o == [si |-> e.si, path |-> e.path, body |-> body, alive |-> TRUE,
            parent |-> IF Len(e.path) = 1 THEN 0 ELSE obj_by_path(t, e.si, Front(e.path))]
  IN  IF i = 0 THEN Append(t, o) ELSE [t EXCEPT ![i] = o]

\* scan_dir at an entry e, which the store may have or not.
scan_dir(n, t, e) ==
  IF n[e.si][e.path] = "none" THEN t ELSE obj_upsert(t, e, n[e.si][e.path])

\* Fault: what the scan does not find stays alive.
Forgotten_Kept(t) == t

\* What is not alive is only looked up by its path: its other fields are reset here.
Forgotten(t) == [h \in DOMAIN t |-> [t[h] EXCEPT !.alive = FALSE, !.body = "none", !.parent = 0]]

rescan(n, t) ==
  LET scanned[k \in 0..Len(Listing)] ==
        IF k = 0 THEN Forgotten(t) ELSE scan_dir(n, scanned[k - 1], Listing[k])
  IN  scanned[Len(Listing)]

\* Fault: what lies below a renamed directory keeps its path.
Below_Not(o, si, old) == o.si = si /\ o.path = old

Below(o, si, old) == o.si = si /\ Inside(o.path, old)

\* retag_paths: entries that are no longer alive too.
retag_paths(t, si, old, new) ==
  [h \in DOMAIN t |-> IF Below(t[h], si, old) THEN [t[h] EXCEPT !.path = Rebased(@, old, new)] ELSE t[h]]

\* target: the directory a new entry goes to; <<>> is a store's root.
target(si, parent) ==
  IF parent = 0 THEN {[si |-> IF si \in Stores THEN si ELSE 0, dir |-> <<>>]}
  ELSE {[si |-> objs[h].si, dir |-> objs[h].path] : h \in {h \in Live \cap {parent} : objs[h].body = "dir"}}

---------------------------------------------------------------------------
(* Datasets. *)

name(h) == Last(objs[h].path)
is_dir(h) == objs[h].body = "dir"
build_object_info(h) == [si |-> objs[h].si, parent |-> objs[h].parent, body |-> objs[h].body, name |-> name(h)]

\* list_handles for a folder, or with parent 0 for the top level of a store.
handle_matches(h, si, parent) == objs[h].alive /\ objs[h].si = si /\ objs[h].parent = parent

\* The parents of h, from its own up to the top level or to a handle that is not alive.
is_descendant(h, ancestor) ==
  LET up[k \in 0..Len(objs)] == IF k = 0 THEN h ELSE IF up[k - 1] \in Live THEN objs[up[k - 1]].parent ELSE 0
  IN  ancestor # 0 /\ \E k \in 1..Len(objs) : up[k] = ancestor

\* GetObjectPropValue; the persistent id is a hash of the path, and left out.
build_prop(h) == [storage |-> objs[h].si, protection |-> read_only, size |-> objs[h].body, parent |-> objs[h].parent, filename |-> name(h)]

\* GetObjectPropList for an object and everything below it.
build_prop_list(h) == {k \in Live : k = h \/ is_descendant(k, h)}

---------------------------------------------------------------------------
(* Responses and the operations that have no data-out phase. *)

MtpInit ==
  /\ node = [s \in Stores |-> [p \in Paths[s] |-> "none"]]
  /\ objs = <<>> /\ session = FALSE /\ read_only \in BOOLEAN
  /\ send_target = 0 /\ rx = NoRx
  /\ initiator = [phase |-> "idle", code |-> "none"] /\ answered = FALSE

\* The host reads a response to its last command before it sends another.
Unread == answered /\ initiator.phase # "wait"
respond == answered' = TRUE

\* An answer and nothing else: a refusal, or what the host asked for.
Answer == respond /\ UNCHANGED <<node, objs, session, send_target, rx>>

\* The stores have changed.
Changed(n, t) ==
  /\ objs' = rescan(n, t) /\ Len(objs') <= MaxHandles
  /\ node' = n
  /\ respond
  /\ UNCHANGED <<session, rx>>

DeleteObject(h) ==
  IF read_only \/ h \notin Live THEN Answer
  ELSE Changed(store_remove(node, objs[h].si, objs[h].path), objs) /\ UNCHANGED send_target

TruncateObject(h) ==
  IF read_only \/ h \notin Live \/ is_dir(h) THEN Answer
  ELSE Changed([node EXCEPT ![objs[h].si][objs[h].path] = "empty"], objs) /\ UNCHANGED send_target

\* A rename within a store, and its trace in the table.
Renamed(h, new) ==
  LET old == objs[h].path  si == objs[h].si IN
  /\ new \in Paths[si] /\ Fits(node, si, old, si, new)
  /\ IF MayRename(node, si, old, new)
     THEN Changed(store_rename(node, si, old, new), retag_paths(objs, si, old, new)) /\ UNCHANGED send_target
     ELSE Answer

\* copy_tree: one entry after the other, whether or not the one before could be made.
Copied(n, q, h, d) ==
  LET to == Rebased(q, Front(objs[h].path), d.dir)  body == n[objs[h].si][q] IN
  IF body = "dir" THEN {store_make_dir(n, d.si, to)} ELSE store_write(n, d.si, to, body)

copy_tree(h, d) ==
  LET tree == {[si |-> objs[k].si, path |-> objs[k].path] : k \in build_prop_list(h)}
      copied[k \in 0..Len(Listing)] ==
        IF k = 0 THEN {node}
        ELSE IF Listing[k] \in tree THEN UNION {Copied(n, Listing[k].path, h, d) : n \in copied[k - 1]}
        ELSE copied[k - 1]
  IN  copied[Len(Listing)]

MoveObject(h, si, parent) ==
  IF read_only \/ h \notin Live \/ target(si, parent) = {} THEN Answer
  ELSE \E d \in target(si, parent) :
    IF d.si = objs[h].si THEN Renamed(h, Append(d.dir, name(h)))
    ELSE /\ Fits(node, objs[h].si, objs[h].path, d.si, Append(d.dir, name(h)))
         /\ \E n \in copy_tree(h, d) : Changed(store_remove(n, objs[h].si, objs[h].path), objs)
         /\ UNCHANGED send_target

CopyObject(h, si, parent) ==
  IF read_only \/ h \notin Live \/ target(si, parent) = {} THEN Answer
  ELSE \E d \in target(si, parent) :
    /\ Fits(node, objs[h].si, objs[h].path, d.si, Append(d.dir, name(h)))
    /\ \E n \in copy_tree(h, d) : Changed(n, objs)
    /\ UNCHANGED send_target

\* Operations that only read: storages, handles, infos and contents of objects; and the
\* properties of the device and of objects.
GetObjects == Answer
GetProperties == Answer

OpenSession == session' = TRUE /\ respond /\ UNCHANGED <<node, objs, send_target, rx>>
CloseSession == session' = FALSE /\ respond /\ UNCHANGED <<node, objs, send_target, rx>>

---------------------------------------------------------------------------
(* The data-out phase. *)

begin_rx(code, h, si, parent) ==
  /\ rx' = [code |-> code, h |-> h, si |-> si, parent |-> parent]
  /\ answered' = Unread
  /\ UNCHANGED <<node, objs, session, send_target>>

\* What a command with a data-out phase meets before the data.
MayBegin(code, h) ==
  /\ code # "SetDevicePropValue" => ~read_only
  /\ code = "SendObject" => send_target # 0
  /\ code = "SendPartialObject" => h \in Live /\ ~is_dir(h)

Begin(code, h, si, parent) == IF MayBegin(code, h) THEN begin_rx(code, h, si, parent) ELSE Answer

Done == rx' = NoRx /\ respond /\ UNCHANGED session
Refused == Done /\ UNCHANGED <<node, objs, send_target>>

\* The file or directory is made; send_target is the handle of a new file.
recv_object_info(dir, nm) ==
  \/ target(rx.si, rx.parent) = {} /\ Refused
  \/ \E d \in target(rx.si, rx.parent) :
       LET full == Append(d.dir, nm) IN
       /\ full \in Paths[d.si]
       /\ \E n \in IF dir THEN {store_make_dir(node, d.si, full)} ELSE store_write(node, d.si, full, "empty") :
            LET t == rescan(n, objs)  i == obj_by_path(t, d.si, full) IN
            /\ Len(t) <= MaxHandles
            /\ node' = n /\ objs' = t
            /\ send_target' = IF dir \/ i = 0 THEN 0 ELSE IF t[i].alive THEN i ELSE 0
       /\ Done

\* The contents arrive, for SendObject at the handle SendObjectInfo reserved.
Received(h) ==
  IF h \notin Live THEN Refused
  ELSE \E n \in store_write(node, objs[h].si, objs[h].path, "data") :
    node' = n /\ objs' = rescan(n, objs) /\ Done

recv_object == Received(send_target) /\ send_target' = 0

recv_send_partial ==
  IF rx.h \notin Live \/ is_dir(rx.h) THEN Refused ELSE Received(rx.h) /\ UNCHANGED send_target

recv_set_object_prop(nm) ==
  LET new == Append(Front(objs[rx.h].path), nm)  old == objs[rx.h].path  si == objs[rx.h].si IN
  IF rx.h \notin Live THEN Refused
  ELSE /\ new \in Paths[si] /\ Fits(node, si, old, si, new)
       /\ IF ~MayRename(node, si, old, new) THEN Refused
          ELSE /\ node' = store_rename(node, si, old, new)
               /\ objs' = rescan(node', retag_paths(objs, si, old, new)) /\ Len(objs') <= MaxHandles
               /\ Done /\ UNCHANGED send_target

\* complete_rx: what arrives is the "data", or the next "command" and taken for it. A command
\* is too short for an ObjectInfo and may read as a name or as none.
complete_rx(kind) ==
  \/ /\ rx.code = "SendObjectInfo"
     /\ IF kind = "command" THEN Refused ELSE \E dir \in BOOLEAN, nm \in Names : recv_object_info(dir, nm)
  \/ rx.code = "SendObject" /\ recv_object
  \/ rx.code = "SendPartialObject" /\ recv_send_partial
  \/ rx.code = "SetObjectPropValue" /\ \E nm \in Names : recv_set_object_prop(nm)
  \/ rx.code = "SetObjectPropValue" /\ kind = "command" /\ Refused
  \/ rx.code = "SetDevicePropValue" /\ Refused

---------------------------------------------------------------------------
(* mtp_on_out, and the host. *)

\* Those of live objects, and one more: require_obj treats the handle of a deleted object
\* like one that was never given out.
Handles == Live \cup {Len(objs) + 1}

\* dispatch of a command container.
dispatch(code, h, si, parent) ==
  IF ~session /\ code # "OpenSession" THEN Answer
  ELSE CASE code = "OpenSession" -> OpenSession
         [] code = "CloseSession" -> CloseSession
         [] code = "GetObjects" -> GetObjects
         [] code = "GetProperties" -> GetProperties
         [] code = "DeleteObject" -> DeleteObject(h)
         [] code = "TruncateObject" -> TruncateObject(h)
         [] code = "MoveObject" -> MoveObject(h, si, parent)
         [] code = "CopyObject" -> CopyObject(h, si, parent)
         [] OTHER -> Begin(code, h, si, parent)

Codes == DataOut \cup {"OpenSession", "CloseSession", "GetObjects", "GetProperties", "DeleteObject", "TruncateObject",
                      "MoveObject", "CopyObject"}

\* Which parameters an operation looks at; the others are 0.
UsesHandle == {"DeleteObject", "TruncateObject", "MoveObject", "CopyObject", "SetObjectPropValue", "SendPartialObject"}
UsesPlace == {"MoveObject", "CopyObject", "SendObjectInfo"}

\* A command; a device that still expects data takes it for that.
SendCommand(code) ==
  /\ initiator.phase = "idle" \/ (initiator.phase = "wait" /\ answered)
  /\ IF rx # NoRx THEN complete_rx("command")
     ELSE \E h \in IF code \in UsesHandle THEN Handles ELSE {0} :
          \E parent \in IF code \in UsesPlace THEN {0} \cup Handles ELSE {0} :
          \E si \in IF code \in UsesPlace /\ parent = 0 THEN Stores ELSE {0} : dispatch(code, h, si, parent)
  /\ initiator' = IF code \in DataOut THEN [phase |-> "data", code |-> code] ELSE [phase |-> "wait", code |-> "none"]
  /\ UNCHANGED read_only

\* The data container, with the code of its command. A device that refused the command
\* takes it for another one, whose parameters are the first words of the data.
SendDataPhase ==
  /\ initiator.phase = "data"
  /\ IF rx # NoRx THEN complete_rx("data")
     ELSE \E h \in Handles : dispatch(initiator.code, h, 0, 0)
  /\ initiator' = [phase |-> "wait", code |-> "none"]
  /\ UNCHANGED read_only

\* MTP_REQ_CANCEL, in the middle of a file: it is answered, and changes nothing.
Cancel ==
  /\ initiator.phase = "data" /\ initiator.code \in {"SendObject", "SendPartialObject"}
  /\ initiator' = [phase |-> "idle", code |-> "none"]
  /\ UNCHANGED <<node, objs, session, read_only, send_target, rx, answered>>

\* MTP_REQ_DEVICE_RESET; the host reads what is left on the pipe.
DeviceReset ==
  /\ session' = FALSE /\ rx' = NoRx /\ send_target' = 0
  /\ initiator' = [phase |-> "idle", code |-> "none"] /\ answered' = FALSE
  /\ UNCHANGED <<node, objs, read_only>>

MtpNext == (\E c \in Codes : SendCommand(c)) \/ SendDataPhase \/ Cancel \/ DeviceReset

---------------------------------------------------------------------------
\* The handles tell the truth about the stores after any sequence of uploads,
\* renames, moves, copies and deletions: a host that asks for the handles of
\* each folder from the top down finds every entry of every store once, with
\* its name and contents, and the property list of a folder is what is in it.
TableIsTrue ==
  /\ \A s \in Stores : \A p \in Paths[s] :
       Cardinality({h \in Live : objs[h].si = s /\ objs[h].path = p}) = IF node[s][p] = "none" THEN 0 ELSE 1
  /\ \A h \in Live :
       /\ {build_object_info(h).body, build_prop(h).size} = {node[objs[h].si][objs[h].path]}
       /\ \E parent \in {0} \cup {k \in Live : is_dir(k) /\ objs[k].path = Front(objs[h].path)} :
            handle_matches(h, objs[h].si, parent) /\ (parent = 0 <=> Len(objs[h].path) = 1)
       /\ build_prop_list(h) = {k \in Live : objs[k].si = objs[h].si /\ Inside(objs[k].path, objs[h].path)}

Entries(store) == Cardinality({p \in DOMAIN store : store[p] # "none"})

\* A step that takes nothing out of a store leaves every handle into it valid.
\* What is renamed or moved keeps its handles, everything below a folder too,
\* and they name the same contents under the new path (retag_paths before the
\* rescan), unless the table still has the new path under an older handle.
RenameKeepsHandles ==
  [][\A h \in Live :
       LET s == objs[h].si IN
       /\ Entries(node'[s]) >= Entries(node[s])
       /\ ~\E k \in 1..(h - 1) : objs'[k].si = s /\ objs'[k].path = objs'[h].path
       => objs'[h].alive /\ (objs'[h].path # objs[h].path => objs'[h].body = objs[h].body)]_mtpvars
=============================================================================
