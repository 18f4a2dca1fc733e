-------------------------------- MODULE Hid --------------------------------
(***************************************************************************)
(* The HID class (src/src/classes/device/hid.c): the poll interval it      *)
(* writes into an endpoint descriptor, its class requests, and the copy of *)
(* the last Input report that GET_REPORT echoes, which the application's   *)
(* thread writes in hid_send_report while the serve thread reads it.  No   *)
(* lock is taken: both copy byte by byte.                                  *)
(***************************************************************************)
EXTENDS Integers, SequencesExt

CONSTANTS
  InputMax,      \* HID_LAST_INPUT_MAX
  MaxReport,     \* bound: the longest report (longer than what is kept)
  MaxReports     \* bound: reports sent

ASSUME HidAssumption == InputMax \in Nat \ {0} /\ MaxReport \in Nat /\ MaxReports \in Nat

VARIABLES
  last_input,      \* st->last_input: the number of the report each byte is from, 0 at first
  last_input_len,  \* st->last_input_len
  sender,          \* hid_send_report: where it is, the report's number and length, bytes copied
  echo,            \* GET_REPORT: where it is, the length it copies, the bytes so far
  lengths,         \* the length of every report sent (history)
  settings         \* st->pub.idle and st->pub.protocol

hidvars == <<last_input, last_input_len, sender, echo, lengths, settings>>

HidInit ==
  /\ last_input = [i \in 1..InputMax |-> 0] /\ last_input_len = 0
  /\ sender = [at |-> "idle", n |-> 0, len |-> 0, copied |-> 0]
  /\ echo = [at |-> "idle", len |-> 0, bytes |-> <<>>]
  /\ lengths = <<>> /\ settings = [idle |-> 0, protocol |-> 1]

---------------------------------------------------------------------------
(* hid_encode_interval *)

\* The period of a high-speed bInterval, in microseconds.
Micro(n) == 125 * 2^(n - 1)
Off(n, ms) == IF Micro(n) > 1000 * ms THEN Micro(n) - 1000 * ms ELSE 1000 * ms - Micro(n)

\* The first of 1..16 that is off by the least; 0 ms never gets here (hid_build has defaults).
hid_encode_interval(ms) ==
  CHOOSE n \in 1..16 : \A k \in 1..16 : Off(n, ms) <= Off(k, ms) /\ (Off(n, ms) = Off(k, ms) => n <= k)

\* Every interval an application can ask for is met within a third of it (TLC evaluates this
\* for all of them before a run).
ASSUME IntervalIsNear == \A ms \in 1..255 : 3 * Off(hid_encode_interval(ms), ms) <= 1000 * ms

---------------------------------------------------------------------------
(* hid_send_report *)

SendReport(len) ==
  /\ sender.at = "idle" /\ Len(lengths) < MaxReports
  /\ lengths' = Append(lengths, len)
  /\ sender' = [at |-> IF len > 0 THEN "copy" ELSE "idle", n |-> Len(lengths) + 1, len |-> len, copied |-> 0]
  /\ UNCHANGED <<last_input, last_input_len, echo, settings>>

kept == IF sender.len < InputMax THEN sender.len ELSE InputMax

\* Fault: the length is stored before the bytes.
StoresLength_First == sender.copied = 0

\* The length is stored behind the bytes.
StoresLength == sender.copied = kept

CopyIn ==
  /\ sender.at = "copy" /\ sender.copied <= kept
  /\ last_input_len' = IF StoresLength THEN kept ELSE last_input_len
  /\ last_input' = IF sender.copied < kept THEN [last_input EXCEPT ![sender.copied + 1] = sender.n] ELSE last_input
  /\ sender' = IF sender.copied < kept THEN [sender EXCEPT !.copied = @ + 1]
               ELSE [at |-> "idle", n |-> 0, len |-> 0, copied |-> 0]
  /\ UNCHANGED <<echo, lengths, settings>>

---------------------------------------------------------------------------
(* hid_control, on the serve thread *)

\* GET_REPORT that the application leaves to the class: the length first.
GetReport(len) ==
  /\ echo.at # "copy"
  /\ LET n == IF last_input_len < len THEN last_input_len ELSE len IN
     echo' = [at |-> IF n = 0 THEN "done" ELSE "copy", len |-> n, bytes |-> <<>>]
  /\ UNCHANGED <<last_input, last_input_len, sender, lengths, settings>>

CopyOut ==
  /\ echo.at = "copy"
  /\ echo' = [echo EXCEPT !.bytes = Append(@, last_input[Len(@) + 1]),
                          !.at = IF Len(echo.bytes) + 1 = echo.len THEN "done" ELSE "copy"]
  /\ UNCHANGED <<last_input, last_input_len, sender, lengths, settings>>

\* SET_IDLE and SET_PROTOCOL: the high and the low byte of wValue.
SetSetting(which, wValue) ==
  /\ settings' = [settings EXCEPT ![which] = IF which = "idle" THEN wValue \div 256 ELSE wValue % 256]
  /\ UNCHANGED <<last_input, last_input_len, sender, echo, lengths>>

HidNext ==
  \/ \E len \in 0..MaxReport : SendReport(len)
  \/ CopyIn \/ CopyOut
  \/ \E len \in 1..MaxReport : GetReport(len)
  \/ \E v \in {0, 256} : SetSetting("idle", v)
  \/ \E v \in {0, 1} : SetSetting("protocol", v)

---------------------------------------------------------------------------
\* What GET_REPORT echoes may mix two reports when it races with
\* hid_send_report, but every byte of it is one that some report had at that
\* place, never one that was not yet written; and once no report is under way
\* the echo of a quiet device is the last report, as much of it as is kept.
EchoIsWritten ==
  /\ \A i \in DOMAIN echo.bytes : echo.bytes[i] \in DOMAIN lengths /\ i <= lengths[echo.bytes[i]]
  /\ sender.at = "idle" /\ lengths # <<>> /\ Last(lengths) > 0 =>
       \A i \in 1..last_input_len : last_input[i] = Len(lengths)
=============================================================================
