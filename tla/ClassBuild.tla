----------------------------- MODULE ClassBuild -----------------------------
(***************************************************************************)
(* The build function of every device class (src/src/classes/device): the  *)
(* interfaces, alternate settings, endpoints and class descriptors it adds *)
(* to a device that may hold other functions already.  A descriptor is its *)
(* length, and what it says of the others: the total of its interface's    *)
(* class descriptors, the interfaces it names (relative to the function's  *)
(* first), and whether it names the endpoint that was reserved.            *)
(***************************************************************************)
EXTENDS Integers, FiniteSets, SequencesExt

CONSTANTS
  Classes,      \* the classes a device is put together from
  MaxFuncs,     \* bound: functions of a device
  LastNumber    \* endpoint numbers are 1..LastNumber (15 in the code)

ASSUME ClassBuildAssumption ==
  /\ Classes \subseteq {"cdc", "hid", "msc", "dfu", "mtp", "bt", "uac", "uvc"}
  /\ MaxFuncs \in Nat \ {0} /\ LastNumber \in Nat \ {0}

VARIABLES
  blob,         \* the descriptors of the device, placed
  n_ifs,        \* interfaces so far
  n_funcs,      \* functions so far
  composite     \* usbip_device_set_composite was called

buildvars == <<blob, n_ifs, n_funcs, composite>>

---------------------------------------------------------------------------
(* What a class asks the builder for. *)

Plain == [k |-> "cs", len |-> 0, total |-> 0, ifs |-> {}, named |-> FALSE, addr |-> <<0, "none">>, cover |-> 0]
NewInterface == [Plain EXCEPT !.k = "if", !.len = 9]
AltSetting == [Plain EXCEPT !.k = "alt", !.len = 9]
NewEndpoint(n, dir) == [Plain EXCEPT !.k = "ep", !.len = 7, !.addr = <<n, dir>>]
Reservation(n, dir) == [Plain EXCEPT !.k = "reserve", !.addr = <<n, dir>>]
Desc(len) == [Plain EXCEPT !.len = len]
Header(len, total, ifs) == [Plain EXCEPT !.len = len, !.total = total, !.ifs = ifs]
\* usbip_function_associate: an IAD for so many interfaces.
Associate(count) == [Plain EXCEPT !.k = "iad", !.len = 8, !.cover = count]

cdc_build ==
  {(IF composite THEN <<Associate(2)>> ELSE <<>>)
   \o <<NewInterface, Desc(5), Header(5, 0, {1}), Desc(4), Header(5, 0, {0, 1}), NewEndpoint(2, "in")>>
   \o <<NewInterface, NewEndpoint(1, "in"), NewEndpoint(1, "out")>>}

\* One report descriptor; an OUT pipe if the options have one.
hid_build ==
  {<<NewInterface, Desc(9), NewEndpoint(1, "in")>> \o out : out \in {<<>>, <<NewEndpoint(1, "out")>>}}

msc_build == {<<NewInterface, NewEndpoint(2, "in"), NewEndpoint(1, "out")>>}

\* A setting per target and one functional descriptor.
dfu_build == {<<NewInterface>> \o alts \o <<Desc(9)>> : alts \in {<<>>, <<AltSetting>>}}

mtp_build == {<<NewInterface, NewEndpoint(1, "out"), NewEndpoint(1, "in"), NewEndpoint(2, "in")>>}

\* The voice interface has its endpoints in every alternate setting (two of its six here).
bt_build ==
  LET sco == <<NewEndpoint(3, "out"), NewEndpoint(3, "in")>>
  IN {<<NewInterface, NewEndpoint(1, "in"), NewEndpoint(2, "out"), NewEndpoint(2, "in")>> \o voice :
        voice \in {<<>>, <<NewInterface>> \o sco \o <<AltSetting>> \o sco}}

\* AudioControl with its terminals and units, then one streaming interface a direction.
uac_build ==
  LET ac_total == 10 + 12 + 10 + 9 + 12 + 9 + 9
      streaming(n, dir) == <<NewInterface, AltSetting, Desc(7), Desc(11), NewEndpoint(n, dir), Desc(7)>>
  IN {<<NewInterface, Header(10, ac_total, {1, 2}), Desc(12), Desc(10), Desc(9), Desc(12), Desc(9), Desc(9)>>
      \o streaming(1, "out") \o streaming(2, "in")}

\* The formats a camera may offer, and the descriptors of each: format, frame, colours.
Offers == (SUBSET {"yuyv", "mjpeg"}) \ {{}}
FormatDescs(f) == IF f = "yuyv" THEN <<Desc(27), Desc(30), Desc(6)>> ELSE <<Desc(11), Desc(30), Desc(6)>>

\* The total of the streaming header: itself with a control byte a format, and the formats.
vs_total(offer) ==
  13 + Cardinality(offer) + (IF "yuyv" \in offer THEN 27 + 30 + 6 ELSE 0)
                          + (IF "mjpeg" \in offer THEN 11 + 30 + 6 ELSE 0)

uvc_build ==
  {<<Associate(2), NewInterface, Header(13, 13 + 18 + 9, {1}), Desc(18), Desc(9), NewInterface, Reservation(1, "in"),
     [Header(13 + Cardinality(offer), vs_total(offer), {}) EXCEPT !.named = TRUE]>>
   \o (IF "yuyv" \in offer THEN FormatDescs("yuyv") ELSE <<>>)
   \o (IF "mjpeg" \in offer THEN FormatDescs("mjpeg") ELSE <<>>)
   \o <<AltSetting, NewEndpoint(1, "in")>> : offer \in Offers}

Plans(class) ==
  CASE class = "cdc" -> cdc_build [] class = "hid" -> hid_build [] class = "msc" -> msc_build
    [] class = "dfu" -> dfu_build [] class = "mtp" -> mtp_build [] class = "bt" -> bt_build
    [] class = "uac" -> uac_build [] class = "uvc" -> uvc_build

---------------------------------------------------------------------------
(* The builder: ep_alloc_number for an endpoint or a reservation, and the   *)
(* numbers every descriptor gets.                                           *)

\* Who holds an address: placed endpoints, and reservations nobody else has.
Holds(b, addr) == {b[i].if : i \in {i \in DOMAIN b : b[i].k \in {"ep", "reserve"} /\ b[i].addr = addr}}

Allocated(b, ifnum, want) ==
  LET free == {n \in 1..LastNumber : Holds(b, <<n, want[2]>>) = {}}
  IN IF Holds(b, want) \subseteq {ifnum} THEN {want}
     ELSE {<<n, want[2]>> : n \in {n \in free : \A m \in free : n <= m}}

Reserved(b, ifnum) == {i \in DOMAIN b : b[i].k = "reserve" /\ b[i].if = ifnum}

\* Fault: the address a reservation got is not the one the class goes on with.
Claimed_Wanted(b, ifnum) == {<<1, "in">> : i \in Reserved(b, ifnum)}

\* The address that was reserved last for the current interface, if one was.
Claimed(b, ifnum) == {b[i].addr : i \in {i \in Reserved(b, ifnum) : \A j \in Reserved(b, ifnum) : j <= i}}

\* Where the next descriptor goes: the interface numbers so far, the setting of the last.
Cursor(b) == IF b = <<>> THEN [next |-> 0, alt |-> 0] ELSE Last(b)

\* The addresses that the next descriptor d, of interface ifnum, may get.
Addressed(b, d, ifnum) ==
  IF d.named THEN Claimed(b, ifnum)
  ELSE IF d.k = "ep" /\ Reserved(b, ifnum) # {} THEN UNION {Allocated(b, ifnum, want) : want \in Claimed(b, ifnum)}
  ELSE IF d.k \in {"ep", "reserve"} THEN Allocated(b, ifnum, d.addr)
  ELSE {d.addr}

\* The next descriptor d of function f, whose first interface is base. Nothing when no
\* endpoint number is left; the class then fails as a whole.
Place(b, d, f, base) ==
  LET next == Cursor(b).next + (IF d.k = "if" THEN 1 ELSE 0)
      alt == IF d.k = "if" THEN 0 ELSE Cursor(b).alt + (IF d.k = "alt" THEN 1 ELSE 0)
  IN {Append(b, [k |-> d.k, len |-> d.len, total |-> d.total, cover |-> d.cover, func |-> f,
                 if |-> next - 1, alt |-> alt, next |-> next, ifs |-> {base + i : i \in d.ifs},
                 addr |-> a]) : a \in Addressed(b, d, next - 1)}

\* The blobs there may be after all of a plan.
Placed(plan, f) ==
  LET after[i \in 0..Len(plan)] ==
        IF i = 0 THEN {blob} ELSE UNION {Place(b, plan[i], f, n_ifs) : b \in after[i - 1]}
  IN after[Len(plan)]

BuildInit == blob = <<>> /\ n_ifs = 0 /\ n_funcs = 0 /\ composite = FALSE

SetComposite == n_funcs = 0 /\ composite' = TRUE /\ UNCHANGED <<blob, n_ifs, n_funcs>>

\* usbip_device_add_class: a function that does not fit is taken out again.
AddFunction(class) ==
  /\ n_funcs < MaxFuncs
  /\ \E plan \in Plans(class) : \E b \in Placed(plan, n_funcs + 1) :
       blob' = b /\ n_ifs' = Last(b).next
  /\ n_funcs' = n_funcs + 1
  /\ UNCHANGED composite

BuildNext == SetComposite \/ \E c \in Classes : AddFunction(c)

---------------------------------------------------------------------------
InFunc(b, f, kinds) == {i \in DOMAIN b : b[i].func = f /\ b[i].k \in kinds}

\* The class descriptors that follow the interface descriptor a header belongs to.
Section(b, i) == {j \in DOMAIN b : b[j].k = "cs" /\ b[j].if = b[i].if /\ b[j].alt = b[i].alt}
SumLengths(b, is) ==
  LET sum[i \in 0..Len(b)] == IF i = 0 THEN 0 ELSE sum[i - 1] + (IF i \in is THEN b[i].len ELSE 0)
  IN sum[Len(b)]

Agrees(b, i) ==
  /\ b[i].k = "cs" /\ b[i].total # 0 => b[i].total = SumLengths(b, Section(b, i))
  /\ b[i].ifs \subseteq {b[j].if : j \in InFunc(b, b[i].func, {"if"})}
  /\ b[i].k = "cs" /\ b[i].addr[1] # 0 =>
       \E j \in InFunc(b, b[i].func, {"ep"}) : b[j].addr = b[i].addr /\ b[j].if = b[i].if
  /\ b[i].k = "iad" => b[i].cover = Cardinality(InFunc(b, b[i].func, {"if"}))

\* What a function's descriptors say of each other is so wherever in a device it
\* ends up and whatever had to be relocated: a header's total is the length of
\* what follows, the interfaces it names are interfaces of the same function,
\* the endpoint it names is the one the function got, and an association covers
\* the function's interfaces from the first to the last.
ClassDescriptorsAgree == \A i \in DOMAIN blob : Agrees(blob, i)

\* Two endpoints of one setting never share an address: alternate settings of
\* one interface may, and only they ("alt settings of one interface reuse an
\* address legitimately", usbip_device.c).
AddressesApart ==
  \A i, j \in {i \in DOMAIN blob : blob[i].k = "ep"} :
    i # j /\ blob[i].addr = blob[j].addr => blob[i].if = blob[j].if /\ blob[i].alt # blob[j].alt
=============================================================================
