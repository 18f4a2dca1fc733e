----------------------------- MODULE MCClasses -----------------------------
(***************************************************************************)
(* The device classes with no module of their own for TLC, and the packet  *)
(* capture.  They share no state here, so a behaviour picks one of them    *)
(* and the others stay as they were at the start.                          *)
(***************************************************************************)
EXTENDS Dfu, Mtp, ClassBuild, Uac, Uvc, Bluetooth, CdcAcm, Hid, Pcap, TLC

VARIABLE part        \* the class a behaviour is about

CONSTANT Parts       \* the classes that take part in a run

allvars == <<dfuvars, mtpvars, buildvars, uacvars, uvcvars, btvars, cdcvars, hidvars, pcapvars>>

Init ==
  /\ part \in Parts
  /\ DfuInit /\ MtpInit /\ BuildInit /\ UacInit /\ UvcInit /\ BtInit /\ CdcInit /\ HidInit /\ PcapInit
  /\ part # "mtp" => read_only          \* one initial state for each of the others

DfuStep == part = "dfu" /\ DfuNext
  /\ UNCHANGED <<part, mtpvars, buildvars, uacvars, uvcvars, btvars, cdcvars, hidvars, pcapvars>>
MtpStep == part = "mtp" /\ MtpNext
  /\ UNCHANGED <<part, dfuvars, buildvars, uacvars, uvcvars, btvars, cdcvars, hidvars, pcapvars>>
BuildStep == part = "build" /\ BuildNext
  /\ UNCHANGED <<part, dfuvars, mtpvars, uacvars, uvcvars, btvars, cdcvars, hidvars, pcapvars>>
UacStep == part = "uac" /\ UacNext
  /\ UNCHANGED <<part, dfuvars, mtpvars, buildvars, uvcvars, btvars, cdcvars, hidvars, pcapvars>>
UvcStep == part = "uvc" /\ UvcNext
  /\ UNCHANGED <<part, dfuvars, mtpvars, buildvars, uacvars, btvars, cdcvars, hidvars, pcapvars>>
BtStep == part = "bt" /\ BtNext
  /\ UNCHANGED <<part, dfuvars, mtpvars, buildvars, uacvars, uvcvars, cdcvars, hidvars, pcapvars>>
CdcStep == part = "cdc" /\ CdcNext
  /\ UNCHANGED <<part, dfuvars, mtpvars, buildvars, uacvars, uvcvars, btvars, hidvars, pcapvars>>
HidStep == part = "hid" /\ HidNext
  /\ UNCHANGED <<part, dfuvars, mtpvars, buildvars, uacvars, uvcvars, btvars, cdcvars, pcapvars>>
PcapStep == part = "pcap" /\ PcapNext
  /\ UNCHANGED <<part, dfuvars, mtpvars, buildvars, uacvars, uvcvars, btvars, cdcvars, hidvars>>

Next ==
  \/ DfuStep \/ MtpStep \/ BuildStep \/ UacStep
  \/ UvcStep \/ BtStep \/ CdcStep \/ HidStep \/ PcapStep

Spec == Init /\ [][Next]_<<part, allvars>>

---------------------------------------------------------------------------
\* Two names at the top of the first store, one of each below the other, and a second store.
MtpListing ==
  <<[si |-> 0, path |-> <<1>>], [si |-> 0, path |-> <<1, 1>>], [si |-> 0, path |-> <<2>>],
    [si |-> 0, path |-> <<2, 1>>], [si |-> 1, path |-> <<1>>]>>

\* 115200 8N1 and 9600 7O2.
MCCodings == {<<0, 194, 1, 0, 0, 0, 8>>, <<128, 37, 0, 0, 2, 1, 7>>}
=============================================================================
