------------------------------- MODULE CdcAcm -------------------------------
(***************************************************************************)
(* The serial port class (src/src/classes/device/cdc_acm.c): its class     *)
(* requests, what the application is told of them, and hosts that come and *)
(* go.  A line coding is a record, and seven bytes on the wire.             *)
(***************************************************************************)
EXTENDS Integers, SequencesExt

CONSTANT Codings      \* line codings a host may set, as they are on the wire

ASSUME CdcAssumption == \A w \in Codings : w \in [1..7 -> 0..255] /\ w[4] < 128

DefaultCoding == [baud |-> 9600, stop_bits |-> 0, parity |-> 0, data_bits |-> 8]

VARIABLES
  port,       \* st->pub: is_open and line_coding
  serial_app, \* the application: open as it was told, the coding it was told last
  terminal    \* the host: whether it holds DTR, and the coding it set (or <<>>)

cdcvars == <<port, serial_app, terminal>>

CdcInit ==
  /\ port = [is_open |-> FALSE, coding |-> DefaultCoding]
  /\ serial_app = [open |-> FALSE, opens |-> 0, coding |-> DefaultCoding]
  /\ terminal = [dtr |-> FALSE, coding |-> <<>>]

\* dwDTERate is little-endian.
coding_from_wire(wire) ==
  [baud |-> wire[1] + 2^8 * wire[2] + 2^16 * wire[3] + 2^24 * wire[4],
   stop_bits |-> wire[5], parity |-> wire[6], data_bits |-> wire[7]]

coding_to_wire(c) ==
  [i \in 1..4 |-> (c.baud \div 2^(8 * (i - 1))) % 256] \o <<c.stop_bits, c.parity, c.data_bits>>

\* SET_LINE_CODING; one that is too short is acknowledged and ignored.
SetLineCoding(c, short) ==
  /\ IF short THEN UNCHANGED <<port, serial_app, terminal>>
     ELSE /\ port' = [port EXCEPT !.coding = coding_from_wire(c)]
          /\ serial_app' = [serial_app EXCEPT !.coding = coding_from_wire(c)]
          /\ terminal' = [terminal EXCEPT !.coding = c]

\* Fault: the application is told to close a port it was not told to open.
Falls_Level(dtr) == ~dtr

Rises(dtr) == dtr /\ ~port.is_open
Falls(dtr) == ~dtr /\ port.is_open

\* SET_CONTROL_LINE_STATE: the application is told of the edges of DTR.
SetControlLineState(dtr) ==
  /\ port' = [port EXCEPT !.is_open = IF Rises(dtr) THEN TRUE ELSE IF Falls(dtr) THEN FALSE ELSE @]
  /\ serial_app' =
       IF Rises(dtr) THEN [open |-> TRUE, opens |-> serial_app.opens + 1, coding |-> port.coding]
       ELSE IF Falls(dtr) THEN [serial_app EXCEPT !.open = FALSE, !.opens = @ - 1] ELSE serial_app
  /\ terminal' = [terminal EXCEPT !.dtr = dtr]

\* A host goes away with the port as it is, and another one comes.
NewHost == terminal' = [dtr |-> FALSE, coding |-> <<>>] /\ UNCHANGED <<port, serial_app>>

CdcNext ==
  \/ \E c \in Codings, short \in BOOLEAN : SetLineCoding(c, short)
  \/ \E dtr \in BOOLEAN : SetControlLineState(dtr)
  \/ NewHost

---------------------------------------------------------------------------
\* While a host holds the port the application takes it for open and knows its
\* line coding, and it was told of one open for each close: also when hosts
\* leave without dropping DTR and the next one finds the port open.
PortIsTrue ==
  /\ terminal.dtr => serial_app.open
  /\ serial_app.opens = IF serial_app.open THEN 1 ELSE 0
  /\ terminal.coding # <<>> => coding_to_wire(port.coding) = terminal.coding
  /\ serial_app.coding = port.coding
=============================================================================
