--------------------------- MODULE DeviceRequests ---------------------------
(***************************************************************************)
(* What hosts make of a built device: the standard and Microsoft OS        *)
(* descriptors EP0 answers with and the routing of every other control     *)
(* request (src/src/usbip_device.c), the device list entry                 *)
(* (src/src/usbip.c), and the walks over the configuration blob in the     *)
(* libusb and libusbK replacements and in the capture code.  All are       *)
(* functions of the tables that Builder keeps; lengths are in bytes where  *)
(* the code computes them twice, elsewhere a descriptor is one element.    *)
(***************************************************************************)
EXTENDS Builder

CONSTANTS
  WithGuid,    \* the advertisements that carry a DeviceInterfaceGUID (groups; -1 the device)
  GuidLen      \* its characters

ASSUME RequestsAssumption == WithGuid \subseteq -1..(MaxGroups - 1) /\ GuidLen \in Nat

Positions(b, kind) == {i \in DOMAIN b : b[i].kind = kind}
Before(S, i) == Cardinality({j \in S : j < i})

-----------------------------------------------------------------------------
(* The walks over the blob b                                               *)

\* The endpoint descriptors between an interface descriptor and the next one.
Under(b, i) ==
  {j \in Positions(b, "ep") : j > i /\ \A k \in Positions(b, "if") : ~(k > i /\ k < j)}

\* parse_config: per interface number its alternate settings, in order, with their endpoints.
parse_config(b) ==
  LET alts(n) == {i \in Positions(b, "if") : b[i].ifnum = n}
  IN [n \in {b[i].ifnum : i \in Positions(b, "if")} |->
       [k \in 1..Cardinality(alts(n)) |->
          LET i == CHOOSE j \in alts(n) : Before(alts(n), j) = k - 1
          IN [alt |-> b[i].alt, eps |-> {b[j].addr : j \in Under(b, i)}]]]

\* libusb_get_max_packet_size: the addresses it finds an endpoint for.
FoundByAddress(b) ==
  LET tree == parse_config(b)
  IN UNION UNION {{tree[n][k].eps : k \in DOMAIN tree[n]} : n \in DOMAIN tree}

\* lk_iface_off: the first descriptor of a setting (none: the empty set).
lk_iface_off(b, ifnum, alt) ==
  LET at == {i \in Positions(b, "if") : b[i].ifnum = ifnum /\ b[i].alt = alt}
  IN {i \in at : Before(at, i) = 0}

\* lk_ep_off: the endpoint with this index below the descriptor at off.
lk_ep_off(b, off, index) == {j \in Under(b, off) : Before(Under(b, off), j) = index}

\* lk_iface_number_by_index: the interface numbers by their first settings, in order;
\* a setting 0 that repeats the number before it is passed over.
lk_iface_number_by_index(b, index) ==
  LET zero == {i \in Positions(b, "if") : b[i].alt = 0}
      counted == {i \in zero : \A j \in zero : Before(zero, j) + 1 = Before(zero, i) => b[j].ifnum # b[i].ifnum}
      found == {i \in counted : Before(counted, i) = index}
  IN IF found = {} THEN index ELSE b[CHOOSE i \in found : TRUE].ifnum

\* pcap_epmap_learn: the addresses whose type the capture knows.
pcap_epmap_learn(b) == {b[j].addr : j \in Positions(b, "ep")}

-----------------------------------------------------------------------------
(* The device list entry and the plug-time check                           *)

\* emit_iface_list sends a tuple per setting 0; pack_usbip_device announces n_ifnums of them,
\* and usbip_client_devlist reads as many.
emit_iface_list(b) == Cardinality({i \in Positions(b, "if") : b[i].alt = 0})
NumIfaces == n_ifnums

check_endpoint_conflicts ==
  \A i \in DOMAIN eps : ep_map[eps[i].addr] # 0 => eps[ep_map[eps[i].addr]].ifnum = eps[i].ifnum

-----------------------------------------------------------------------------
(* Microsoft OS and BOS descriptors                                        *)

msos_n_groups == IF groups = <<>> THEN 1 ELSE Len(groups)
group_first_ifnum(g) ==
  IF g >= Len(groups) THEN 0 ELSE IF groups[g + 1].n_ifs = 0 THEN 0 ELSE groups[g + 1].first_ifnum

\* The entry that covers a group: its own, else the device's (a set of at most one).
msos_entry_for_group(g) == IF g \in msos THEN {g} ELSE msos \cap {-1}

msos_needs_subsets == Len(groups) > 1 /\ msos # {}

InGroup(ifnum, g) ==
  groups[g + 1].first_ifnum <= ifnum /\ ifnum < groups[g + 1].first_ifnum + groups[g + 1].n_ifs

msos_entry_for_interface(ifnum) ==
  LET own == {g \in msos : g >= 0 /\ g < Len(groups) /\ InGroup(ifnum, g)}
  IN IF own # {} THEN own ELSE msos \cap {-1}

\* The groups a descriptor set has a section for.
Covered == {g \in 0..(msos_n_groups - 1) : msos_entry_for_group(g) # {}}

\* msos1_compatid: a section per covered group, naming its first interface.
msos1_compatid == {[first |-> group_first_ifnum(g), entry |-> msos_entry_for_group(g)] : g \in Covered}

utf16_len(chars, n_nul) == 2 * (chars + n_nul)
HasGuid(e) == e \subseteq WithGuid

msos2_feature_size(e) ==
  20 + IF HasGuid(e) THEN 8 + utf16_len(20, 1) + 2 + utf16_len(GuidLen, 2) ELSE 0

\* put_utf16 of "DeviceInterfaceGUIDs" and of the GUID, as msos2_feature lays them out.
msos2_feature(e) ==
  LET nlen == 2 * 20 + 2  dlen == 2 * GuidLen + 4
  IN IF HasGuid(e) THEN 20 + (8 + nlen + 2 + dlen) ELSE 20

\* The entry of the flat form: the first group's, else any.
FlatEntry == IF msos_entry_for_group(0) # {} THEN msos_entry_for_group(0)
             ELSE IF msos = {} THEN {} ELSE {CHOOSE g \in msos : TRUE}

Total(f, S) == LET sum[T \in SUBSET S] == IF T = {} THEN 0 ELSE LET g == CHOOSE g \in T : TRUE IN f[g] + sum[T \ {g}]
               IN sum[S]

\* Fault: the function subset headers are forgotten.
msos2_set_size_NoHeaders ==
  10 + IF ~msos_needs_subsets THEN (IF FlatEntry = {} THEN 0 ELSE msos2_feature_size(FlatEntry))
       ELSE 8 + Total([g \in Covered |-> msos2_feature_size(msos_entry_for_group(g))], Covered)

msos2_set_size ==
  10 + IF ~msos_needs_subsets THEN (IF FlatEntry = {} THEN 0 ELSE msos2_feature_size(FlatEntry))
       ELSE 8 + Total([g \in Covered |-> 8 + msos2_feature_size(msos_entry_for_group(g))], Covered)

\* msos2_set: its function subsets, and the bytes written.
msos2_set ==
  LET subset(g) == [first |-> group_first_ifnum(g), entry |-> msos_entry_for_group(g),
                    len |-> 8 + msos2_feature(msos_entry_for_group(g))]
      cfg == [g \in Covered |-> subset(g).len]
  IN IF ~msos_needs_subsets
       THEN [subsets |-> {}, len |-> 10 + IF FlatEntry = {} THEN 0 ELSE msos2_feature(FlatEntry)]
       ELSE [subsets |-> {[first |-> subset(g).first, entry |-> subset(g).entry] : g \in Covered},
             len |-> 10 + (8 + Total(cfg, Covered))]

\* build_bos_desc: the length its MS OS 2.0 capability announces.
build_bos_desc == IF msos = {} THEN 0 ELSE msos2_set_size

-----------------------------------------------------------------------------
(* handle_control: who answers a request                                   *)

Standard == {"get_device", "get_config", "get_string", "get_bos", "get_qualifier", "get_report_desc",
             "set_configuration", "get_configuration", "get_interface", "set_interface", "get_status",
             "clear_feature", "set_feature", "set_address", "synch_frame"}

\* Standard requests the core answers; the descriptors of a class and unknown requests are
\* left to the functions.
CoreStandard == Standard \ {"get_report_desc", "synch_frame"}

\* The vendor requests of the advertisements, each only while there is one.
CoreVendor(what) == what \in {"msos1_compatid", "msos1_extprops", "msos2_set"} /\ msos # {}

\* route: the interface's handler, else the device's (0: none, a STALL).
route(recip, ifnum) ==
  IF recip = "interface" /\ ifnum < MaxIf /\ ctrl[ifnum] # 0 THEN ctrl[ifnum] ELSE ctrl_default

\* Which function answers; the core's own answers are not asked for here.
HandledBy(what, recip, ifnum) ==
  IF what \in CoreStandard \/ CoreVendor(what) THEN {} ELSE {route(recip, ifnum)}

-----------------------------------------------------------------------------
(* Properties                                                              *)

\* Each setting once, and a setting 0 for every interface: what a class builds, and an
\* application that numbers its own interfaces as the header asks.
WellFormed ==
  /\ \A i, j \in Positions(descr, "if") :
       descr[i].ifnum = descr[j].ifnum /\ descr[i].alt = descr[j].alt => i = j
  /\ \A i \in Positions(descr, "if") : \E j \in Positions(descr, "if") : descr[j].ifnum = descr[i].ifnum /\ descr[j].alt = 0

BlobIsReadAlike ==
  LET parsed == parse_config(descr)
      found == FoundByAddress(descr)
      learnt == pcap_epmap_learn(descr)
  IN WellFormed =>
       /\ emit_iface_list(descr) = NumIfaces
       /\ {lk_iface_number_by_index(descr, i) : i \in 0..(NumIfaces - 1)} = DOMAIN parsed
       /\ \A i \in Positions(descr, "if") : ifalt_for(descr[i].ifnum, descr[i].alt) # {} =>
            LET tree == parsed[descr[i].ifnum]
                walked == {lk_ep_off(descr, i, k) : k \in 0..(descr[i].count - 1)}
            IN /\ lk_iface_off(descr, descr[i].ifnum, descr[i].alt) = {i}
               /\ \A w \in walked : Cardinality(w) = 1
               /\ lk_ep_off(descr, i, descr[i].count) = {}
               /\ \E k \in DOMAIN tree : /\ tree[k].alt = descr[i].alt
                                         /\ tree[k].eps = {descr[j].addr : j \in UNION walked}
       /\ learnt = {a \in Addresses : ep_map[a] # 0}
       /\ (\A j \in Positions(descr, "ep") : \E i \in Positions(descr, "if") : i < j) => found = learnt
       /\ check_endpoint_conflicts

MsosIsConsistent ==
  /\ build_bos_desc # 0 => build_bos_desc = msos2_set.len
  /\ (\A g \in DOMAIN groups : groups[g].n_ifs > 0) =>
       \A g \in 0..(Len(groups) - 1), ifnum \in if_present : InGroup(ifnum, g) =>
         /\ msos_entry_for_interface(ifnum) = msos_entry_for_group(g)
         /\ \A s \in msos1_compatid \cup msos2_set.subsets :
              s.first = groups[g + 1].first_ifnum => s.entry = msos_entry_for_group(g)

RequestsReachTheirFunction ==
  /\ ctrl_default = IF funcs = <<>> THEN 0 ELSE funcs[1]
  /\ \A what \in (Standard \ CoreStandard) \cup {"class", "vendor"}, ifnum \in if_present :
       \A f \in HandledBy(what, "interface", ifnum) :
         f = ctrl_default \/ \E g \in DOMAIN groups : InGroup(ifnum, g - 1) /\ f = funcs[g]

\* Every reader of the blob finds the device that was built: libusb's tree and libusbK's
\* walks agree with bNumEndpoints and with each other on the endpoints of every recorded
\* setting, indices enumerate the interfaces, the capture learns exactly the addresses that
\* are answered and libusb finds an endpoint for each of them (that is not declared before
\* the first interface), and the device list carries as many interface tuples as it announces (a
\* client that reads another number takes the next device for tuples).
\* The length the BOS descriptor announces is the one msos2_set writes, and all three ways
\* to ask which driver an interface wants (the 1.0 compatible IDs, the 1.0 properties of an
\* interface, the 2.0 function subsets) name the same advertisement, never that of another
\* function, as long as every advertised group has an interface.
\* A request to an interface is answered by the function in whose group the interface was
\* declared, or by the first function when the application declared it itself; no failed
\* build leaves a route to a function that is gone.
HostSeesWhatWasBuilt == BlobIsReadAlike /\ MsosIsConsistent /\ RequestsReachTheirFunction
=============================================================================
