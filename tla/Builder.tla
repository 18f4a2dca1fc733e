------------------------------- MODULE Builder -------------------------------
(***************************************************************************)
(* A device while it is being built: the descriptor tables of the core     *)
(* (src/src/usbip_device.c) and the class layer that fills them function   *)
(* by function and takes a function out again when its build callback      *)
(* fails (src/src/classes/usb_class.c).  An application may also append    *)
(* descriptors of its own between two functions.                           *)
(*                                                                         *)
(* Building is sequential; every call is one action.  A call that finds a  *)
(* table full or no endpoint number free leaves the tables as they were;   *)
(* its caller may go on or give up (FailClass).                            *)
(***************************************************************************)
EXTENDS Integers, Sequences, FiniteSets

CONSTANTS
  MaxIf,        \* 16: interface numbers 0..MaxIf-1 have a table entry
  MaxAlt,       \* highest alternate setting
  MaxNumber,    \* 15: the endpoint numbers of one direction are 1..MaxNumber
  Dirs,         \* "in", "out"
  MaxDescr,     \* sizeof(dev->descr), in descriptors
  MaxIfalts,    \* 64
  MaxEps,       \* 128
  MaxGroups,    \* 8
  MaxMade       \* bound: functions ever begun

ASSUME BuilderAssumption ==
  /\ {MaxIf, MaxNumber, MaxDescr, MaxIfalts, MaxEps, MaxGroups} \subseteq Nat \ {0}
  /\ {MaxAlt, MaxMade} \subseteq Nat
  /\ MaxIf < 255                    \* USBIP_EP_NO_IFNUM is no interface's number

Addresses == (1..MaxNumber) \X Dirs
IfNums == 0..MaxIf                 \* also a number the tables have no entry for
NoIf == 255                        \* USBIP_EP_NO_IFNUM

VARIABLES
  descr,        \* the config blob: interface, endpoint and other descriptors
  ifalts,       \* (interface, alternate setting) and where its descriptor is
  cur_ifnum,    \* append cursor (-1: none)
  cur_alt,
  if_present,   \* interface numbers seen so far
  n_ifnums,
  eps,          \* dev->eps[0..n_eps)
  ep_map,       \* per address, the endpoint that answers it: its place in eps, 0 for NULL
  ep_reserved,  \* per address, the interface that claimed it, plus 1
  groups,
  gmark,        \* the snapshot of usbip_device_group_begin
  ctrl,         \* per interface, the function that handles its requests and its changes of
                \* alternate setting (ctrl and set_alt_tab; 0: none)
  ctrl_default, \* the function that handles all others
  msos,         \* the groups with a Microsoft OS advertisement; -1 is the device
  funcs,        \* the class layer's functions, by serial number
  building,     \* the function whose build callback runs (0: none)
  cur_iface,    \* whether it has declared an interface
  made,         \* functions begun so far
  before        \* the contents of the device when it was begun (history, 0 or 1 entries)

tables == <<descr, ifalts, cur_ifnum, cur_alt, if_present, n_ifnums, eps, ep_map, ep_reserved>>
routes == <<ctrl, ctrl_default>>
layer == <<funcs, building, cur_iface, made, before>>
vars == <<tables, groups, gmark, routes, msos, layer>>

Interface(ifnum, alt, n) ==
  [kind |-> "if", ifnum |-> ifnum, alt |-> alt, count |-> n, addr |-> <<>>]
Endpoint(addr) == [kind |-> "ep", ifnum |-> 0, alt |-> 0, count |-> 0, addr |-> addr]
Other == [kind |-> "other", ifnum |-> 0, alt |-> 0, count |-> 0, addr |-> <<>>]

TypeOK ==
  /\ \A i \in DOMAIN descr :
       \/ descr[i].kind = "if" /\ descr[i].ifnum \in IfNums
       \/ descr[i].kind = "ep" /\ descr[i].addr \in Addresses
       \/ descr[i] = Other
  /\ Len(descr) <= MaxDescr
  /\ \A i \in DOMAIN ifalts : ifalts[i].off \in DOMAIN descr
  /\ cur_ifnum \in IfNums \cup {-1}
  /\ cur_alt \in -1..MaxAlt
  /\ if_present \subseteq 0..(MaxIf - 1)
  /\ n_ifnums \in 0..(MaxIf + 1)
  /\ \A i \in DOMAIN eps : eps[i].addr \in Addresses /\ eps[i].ifnum \in IfNums \cup {NoIf}
  /\ ep_map \in [Addresses -> 0..Len(eps)]
  /\ ep_reserved \in [Addresses -> 0..(MaxIf + 1)]
  /\ Len(groups) <= MaxGroups
  /\ ctrl \in [0..(MaxIf - 1) -> 0..MaxMade]
  /\ ctrl_default \in 0..MaxMade
  /\ msos \subseteq -1..(MaxGroups - 1)
  /\ building \in 0..MaxMade
  /\ cur_iface \in BOOLEAN
  /\ made \in 0..MaxMade

\* Fault: the cursor is not part of the snapshot.
Mark_NoCursor ==
  [descr_len |-> Len(descr), n_ifalts |-> Len(ifalts), n_eps |-> Len(eps),
   n_ifnums |-> n_ifnums, cur_ifnum |-> -1, cur_alt |-> -1,
   if_present |-> if_present, ep_reserved |-> ep_reserved, ctrl |-> ctrl,
   ctrl_default |-> ctrl_default]

Mark ==
  [descr_len |-> Len(descr), n_ifalts |-> Len(ifalts), n_eps |-> Len(eps),
   n_ifnums |-> n_ifnums, cur_ifnum |-> cur_ifnum, cur_alt |-> cur_alt,
   if_present |-> if_present, ep_reserved |-> ep_reserved, ctrl |-> ctrl,
   ctrl_default |-> ctrl_default]

Contents ==
  [tables |-> tables, groups |-> groups, routes |-> routes, msos |-> msos \ {-1}]

Init ==
  /\ descr = <<>>
  /\ ifalts = <<>>
  /\ cur_ifnum = -1
  /\ cur_alt = -1
  /\ if_present = {}
  /\ n_ifnums = 0
  /\ eps = <<>>
  /\ ep_map = [a \in Addresses |-> 0]
  /\ ep_reserved = [a \in Addresses |-> 0]
  /\ groups = <<>>
  /\ ctrl = [i \in 0..(MaxIf - 1) |-> 0]
  /\ ctrl_default = 0
  /\ gmark = Mark
  /\ msos = {}
  /\ funcs = <<>>
  /\ building = 0
  /\ cur_iface = FALSE
  /\ made = 0
  /\ before = <<>>

-----------------------------------------------------------------------------
(* usbip_device_add_descriptor                                             *)

\* The record of an (interface, alternate setting), by its place in ifalts.
ifalt_for(ifnum, alt) == {i \in DOMAIN ifalts : ifalts[i].ifnum = ifnum /\ ifalts[i].alt = alt}

\* register_ifnum: a new number belongs to the open group.
Registered(ifnum) ==
  IF ifnum >= MaxIf \/ ifnum \in if_present \/ groups = <<>>
    THEN groups
    ELSE LET g == groups[Len(groups)]
         IN [groups EXCEPT ![Len(groups)] =
               [g EXCEPT !.first_ifnum = IF g.n_ifs = 0 THEN ifnum ELSE @, !.n_ifs = @ + 1]]

\* An interface descriptor becomes the append cursor.
AddInterface(ifnum, alt) ==
  /\ Len(descr) < MaxDescr
  /\ descr' = Append(descr, Interface(ifnum, alt, 0))
  /\ groups' = Registered(ifnum)
  /\ if_present' = if_present \cup ({ifnum} \cap 0..(MaxIf - 1))
  /\ n_ifnums' = IF ifnum + 1 > n_ifnums THEN ifnum + 1 ELSE n_ifnums
  /\ cur_ifnum' = ifnum
  /\ cur_alt' = alt
  /\ LET record == [ifnum |-> ifnum, alt |-> alt, off |-> Len(descr) + 1]
     IN ifalts' = IF ifalt_for(ifnum, alt) # {}
                    THEN [i \in DOMAIN ifalts |->
                            IF i \in ifalt_for(ifnum, alt) THEN record ELSE ifalts[i]]
                    ELSE IF Len(ifalts) < MaxIfalts THEN Append(ifalts, record) ELSE ifalts
  /\ UNCHANGED <<eps, ep_map, ep_reserved>>

AddOther ==
  /\ Len(descr) < MaxDescr
  /\ descr' = Append(descr, Other)
  /\ UNCHANGED <<ifalts, cur_ifnum, cur_alt, if_present, n_ifnums, eps, ep_map, ep_reserved,
                 groups>>

\* Fault: a claim without an endpoint is overlooked.
ep_reservation_allows_Always(owner, addr) == TRUE

ep_reservation_allows(owner, addr) == ep_reserved[addr] \in {0, owner + 1}

\* The preferred number: free, or an endpoint of the same interface has it.
Preferred(owner, addr) ==
  /\ ep_map[addr] # 0 => eps[ep_map[addr]].ifnum = owner
  /\ ep_reservation_allows(owner, addr)

\* ep_alloc_number: the preferred number, else the lowest that nothing holds (a set of
\* one number, or of none).
ep_alloc_number(owner, want, dir) ==
  LET free == {n \in 1..MaxNumber :
                 ep_map[<<n, dir>>] = 0 /\ ep_reservation_allows(owner, <<n, dir>>)}
  IN IF want # 0 /\ Preferred(owner, <<want, dir>>)
       THEN {want}
       ELSE {n \in free : \A k \in free : n <= k}

\* The interface whose bNumEndpoints an endpoint counts in.
Counted ==
  {ifalts[i].off : i \in IF cur_ifnum >= 0 THEN ifalt_for(cur_ifnum, cur_alt) ELSE {}}

CurrentOwner == IF cur_ifnum >= 0 THEN cur_ifnum ELSE NoIf

AddEndpoint(want, dir) ==
  /\ Len(descr) < MaxDescr
  /\ Len(eps) < MaxEps
  /\ \E number \in ep_alloc_number(CurrentOwner, want, dir) :
       LET addr == <<number, dir>>
       IN /\ eps' = Append(eps, [addr |-> addr, ifnum |-> CurrentOwner])
          /\ ep_map' = [ep_map EXCEPT ![addr] = Len(eps) + 1]
          /\ ep_reserved' = [ep_reserved EXCEPT ![addr] = 0]
          /\ descr' = Append([i \in DOMAIN descr |->
                                IF i \in Counted THEN [descr[i] EXCEPT !.count = @ + 1]
                                                 ELSE descr[i]],
                             Endpoint(addr))
  /\ UNCHANGED <<ifalts, cur_ifnum, cur_alt, if_present, n_ifnums, groups>>

\* usbip_device_reserve_endpoint: claim an address for an endpoint that comes later.
Reserve(want, dir) ==
  /\ cur_ifnum >= 0
  /\ \E number \in ep_alloc_number(cur_ifnum, want, dir) :
       ep_reserved' = [ep_reserved EXCEPT ![<<number, dir>>] = cur_ifnum + 1]
  /\ UNCHANGED <<descr, ifalts, cur_ifnum, cur_alt, if_present, n_ifnums, eps, ep_map, groups>>

-----------------------------------------------------------------------------
(* Descriptor groups and Microsoft OS advertisements                       *)

GroupBegin ==
  /\ Len(groups) < MaxGroups
  /\ gmark' = Mark
  /\ groups' = Append(groups, [first_ifnum |-> 0, n_ifs |-> 0, descr_off |-> Len(descr)])

\* Fault: the whole map is cleared.
Unmapped_All == [a \in Addresses |-> 0]

\* The endpoints of the group are freed and answer no address any more.
Unmapped ==
  [a \in Addresses |-> IF ep_map[a] \in (gmark.n_eps + 1)..Len(eps) THEN 0 ELSE ep_map[a]]

\* The advertisement of the group goes; the device's stays.
Unadvertised(gid) == msos \ {gid}

RestoredRoutes ==
  /\ ctrl' = gmark.ctrl
  /\ ctrl_default' = gmark.ctrl_default

GroupAbort ==
  /\ groups' = SubSeq(groups, 1, Len(groups) - 1)
  /\ ep_map' = Unmapped
  /\ eps' = SubSeq(eps, 1, gmark.n_eps)
  /\ msos' = Unadvertised(Len(groups) - 1)
  /\ descr' = SubSeq(descr, 1, gmark.descr_len)
  /\ ifalts' = SubSeq(ifalts, 1, gmark.n_ifalts)
  /\ n_ifnums' = gmark.n_ifnums
  /\ cur_ifnum' = gmark.cur_ifnum
  /\ cur_alt' = gmark.cur_alt
  /\ if_present' = gmark.if_present
  /\ ep_reserved' = gmark.ep_reserved
  /\ RestoredRoutes
  /\ UNCHANGED gmark

-----------------------------------------------------------------------------
(* The class layer                                                         *)

\* usbip_device_add_class, up to the build callback.  The first function also gets the
\* requests no interface handles.
AddClass ==
  /\ building = 0
  /\ made < MaxMade
  /\ GroupBegin
  /\ before' = <<Contents>>
  /\ made' = made + 1
  /\ building' = made + 1
  /\ funcs' = Append(funcs, made + 1)
  /\ cur_iface' = FALSE
  /\ ctrl_default' = IF funcs = <<>> THEN made + 1 ELSE ctrl_default
  /\ UNCHANGED <<tables, ctrl, msos>>

\* The interfaces a class declares: the next number (usbip_function_add_interface), or the
\* next alternate setting of the one it declared last (usbip_interface_add_altsetting).
ClassDeclares(ifnum, alt) ==
  \/ ifnum = n_ifnums /\ alt = 0
  \/ cur_iface /\ ifnum = cur_ifnum /\ alt = cur_alt + 1

\* usbip_function_add_descriptor of an interface: its requests go to the function.
FunctionAddInterface(ifnum, alt) ==
  /\ building # 0
  /\ ClassDeclares(ifnum, alt)
  /\ AddInterface(ifnum, alt)
  /\ ctrl' = [i \in DOMAIN ctrl |-> IF i = ifnum THEN building ELSE ctrl[i]]
  /\ cur_iface' = TRUE
  /\ UNCHANGED <<gmark, ctrl_default, msos, funcs, building, made, before>>

FunctionAddOther ==
  /\ building # 0
  /\ AddOther
  /\ UNCHANGED <<gmark, routes, msos, layer>>

\* A class declares its endpoints below an interface of its own.
FunctionAddEndpoint(want, dir) ==
  /\ building # 0
  /\ cur_iface
  /\ AddEndpoint(want, dir)
  /\ UNCHANGED <<gmark, routes, msos, layer>>

FunctionReserve(want, dir) ==
  /\ building # 0
  /\ cur_iface
  /\ Reserve(want, dir)
  /\ UNCHANGED <<gmark, routes, msos, layer>>

\* usbip_function_enable_msos, or usbip_device_enable_msos for the whole device.
EnableMsos(group) ==
  /\ group \in {Len(groups) - 1, -1}
  /\ building # 0
  /\ msos' = msos \cup {group}
  /\ UNCHANGED <<tables, groups, gmark, routes, layer>>

\* The build callback succeeds.
EndClass ==
  /\ building # 0
  /\ building' = 0
  /\ cur_iface' = FALSE
  /\ before' = <<>>
  /\ UNCHANGED <<tables, groups, gmark, routes, msos, funcs, made>>

\* The build callback fails, wherever it is: uc_function_free.
FailClass ==
  /\ building # 0
  /\ GroupAbort
  /\ funcs' = SubSeq(funcs, 1, Len(funcs) - 1)
  /\ building' = 0
  /\ cur_iface' = FALSE
  /\ before' = <<>>
  /\ UNCHANGED made

-----------------------------------------------------------------------------
(* The application's own descriptors, between two functions                *)

AppAddInterface(ifnum, alt) ==
  /\ building = 0
  /\ ifnum < n_ifnums \/ (ifnum = n_ifnums /\ alt = 0)
  /\ AddInterface(ifnum, alt)
  /\ UNCHANGED <<gmark, routes, msos, layer>>

AppAddEndpoint(want, dir) ==
  /\ building = 0
  /\ AddEndpoint(want, dir)
  /\ UNCHANGED <<gmark, routes, msos, layer>>

AppReserve(want, dir) ==
  /\ building = 0
  /\ Reserve(want, dir)
  /\ UNCHANGED <<gmark, routes, msos, layer>>

-----------------------------------------------------------------------------

Next ==
  \/ AddClass \/ EndClass \/ FailClass \/ FunctionAddOther
  \/ \E i \in IfNums, alt \in 0..MaxAlt :
       FunctionAddInterface(i, alt) \/ AppAddInterface(i, alt)
  \/ \E want \in 0..MaxNumber, dir \in Dirs :
       \/ FunctionAddEndpoint(want, dir) \/ AppAddEndpoint(want, dir)
       \/ FunctionReserve(want, dir) \/ AppReserve(want, dir)
  \/ \E g \in -1..(MaxGroups - 1) : EnableMsos(g)

Spec == Init /\ [][Next]_vars

-----------------------------------------------------------------------------
(* Properties                                                              *)

ClaimsOn(a) ==
  {eps[i].ifnum : i \in {k \in DOMAIN eps : eps[k].addr = a}}
  \cup {o \in IfNums : ep_reserved[a] = o + 1}
NoSharedAddress == \A a \in Addresses : Cardinality(ClaimsOn(a)) <= 1

\* A reserved address stays reserved until its interface gets it for an endpoint, or the
\* function that reserved it is taken out again.
ReservationKept ==
  [][\A a \in Addresses :
       ep_reserved[a] # 0 /\ ep_reserved'[a] # ep_reserved[a] =>
         \/ eps' = Append(eps, [addr |-> a, ifnum |-> ep_reserved[a] - 1])
         \/ Len(funcs') < Len(funcs) /\ ep_reserved[a] # before[1].tables[9][a]]_vars

MapIsComplete ==
  \A a \in Addresses :
    LET at == {i \in DOMAIN eps : eps[i].addr = a}
    IN ep_map[a] \in at \cup {0} /\ \A i \in at : i <= ep_map[a]

IsEp(d) == d.kind = "ep"
Above(j) == {i \in 1..(j - 1) : descr[i].kind = "if"}
EndpointsBelow(i) ==
  {j \in DOMAIN descr : IsEp(descr[j]) /\ i \in Above(j) /\ \A k \in Above(j) : k <= i}
Nth(j) == Cardinality({k \in 1..j : IsEp(descr[k])})
BlobMatchesTables ==
  /\ Nth(Len(descr)) = Len(eps)
  /\ \A j \in DOMAIN descr : IsEp(descr[j]) => descr[j].addr = eps[Nth(j)].addr
  /\ \A i \in DOMAIN descr : descr[i].kind = "if" =>
       /\ \A j \in EndpointsBelow(i) :
            eps[Nth(j)].ifnum = descr[i].ifnum
       /\ ifalt_for(descr[i].ifnum, descr[i].alt) # {} =>
            descr[i].count = Cardinality(EndpointsBelow(i))

\* A failed build leaves no trace: the tables, the groups, the request routes and the
\* advertisements of the other functions are what they were before the function was begun.
RollbackExact ==
  [][Len(funcs') < Len(funcs) => Contents' = before[1]]_vars

FirstAt(i, n) ==
  descr[n].kind = "if" /\ descr[n].ifnum = i
    /\ \A k \in 1..(n - 1) : ~(descr[k].kind = "if" /\ descr[k].ifnum = i)
SliceEnd(g) == IF g < Len(groups) THEN groups[g + 1].descr_off ELSE Len(descr)
GroupsPartition ==
  \A g \in DOMAIN groups :
    {i \in 0..(MaxIf - 1) : \E n \in (groups[g].descr_off + 1)..SliceEnd(g) : FirstAt(i, n)}
      = groups[g].first_ifnum..(groups[g].first_ifnum + groups[g].n_ifs - 1)

\* The tables of a device agree with each other through every append, relocation,
\* reservation and rollback.  All claims on an endpoint address are those of one interface
\* (what check_endpoint_conflicts looks for at plug time cannot be built); the endpoint
\* that answers an address is the last one declared there, and every declared address is
\* answered; the blob's endpoint descriptors are the endpoints, in order, each below the
\* interface that owns it and counted in its bNumEndpoints (as long as the setting is in
\* ifalts); and a group counts exactly the interfaces first declared in its slice of it.
TablesAgree == NoSharedAddress /\ MapIsComplete /\ BlobMatchesTables /\ GroupsPartition
=============================================================================
