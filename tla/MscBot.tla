------------------------------- MODULE MscBot -------------------------------
(***************************************************************************)
(* The mass-storage class (src/src/classes/device/msc.c): the Bulk-Only    *)
(* Transport state machine and the SCSI commands behind it, together with  *)
(* the bulk pipes of the core it uses and a host that follows BOT: command *)
(* (CBW), data phase, status (CSW), clearing a halt it meets and resetting *)
(* the device when it gives up on a command.                               *)
(*                                                                         *)
(* The host has one URB outstanding at a time and all handlers run on its  *)
(* serve thread, so each URB is one action.  Sizes are in units; a block   *)
(* is BlockSize units, a CBW one unit, and a CSW one unit.                 *)
(***************************************************************************)
EXTENDS Integers, Sequences

CONSTANTS
  NLuns,           \* st->n_luns
  ReadOnly,        \* the write-protected units
  NBlocks,         \* opts->num_blocks
  BlockSize,       \* opts->block_size
  InfoLen,         \* length of the reply to INQUIRY, READ CAPACITY, MODE SENSE, ...
  Commands,        \* the commands the host issues
  MaxTag,          \* bound: commands issued
  MaxChunk,        \* largest OUT URB of a data phase
  ReadMayFail,     \* whether opts->read can fail
  WriteMayFail,    \* whether opts->write can fail
  HostMayReset     \* whether the host gives up on commands

Luns == 0..(NLuns - 1)
Blocks == 0..(NBlocks - 1)

ASSUME MscAssumption ==
  /\ NLuns \in Nat \ {0}
  /\ ReadOnly \subseteq Luns
  /\ NBlocks \in Nat
  /\ BlockSize \in Nat \ {0}
  /\ InfoLen \in Nat \ {0}
  /\ MaxTag \in Nat
  /\ MaxChunk \in Nat \ {0}
  /\ {ReadMayFail, WriteMayFail, HostMayReset} \subseteq BOOLEAN

\* What a host may ask for.  lun and the block range may be out of range; dlen is the
\* CBW's data transfer length and `in` its direction flag.
Ops == {"nodata", "info", "unsupported", "read", "write", "sense"}
IsCommand(c) ==
  /\ c.op \in Ops
  /\ {c.lun, c.lba, c.count, c.dlen} \subseteq Nat
  /\ c.in \in BOOLEAN

ASSUME CommandsAssumption == \A c \in Commands : IsCommand(c)

Reasons == {"none", "invalid", "range", "protect", "read_error", "write_error", "lun"}

VARIABLES
  sense,           \* lun[l].sense_key and its companions
  writing,         \* st->writing
  write,           \* wlun, wtag, wlba, wcount, wneed
  wbuf,            \* the wgot units collected
  disk,            \* the backend: per unit and block, the data units last written
  in_halted,
  out_halted,
  in_queue,        \* the bulk-IN queue: dbufs
  parked,          \* the IN URB that waits on it: its length (0 or 1 entries)
  inbox,           \* the reply of the host's URB (0 or 1 entries)
  phase,           \* where the host is
  cmd,             \* the command it issued (0 or 1 entries)
  tag,             \* its tag
  got,             \* units the data phase moved
  gave_up,         \* the host has reset the device (history)
  failed           \* why the device failed the last command it failed (history)

msc == <<sense, writing, write, wbuf, disk>>
pipes == <<in_halted, out_halted, in_queue, parked, inbox>>
host == <<phase, cmd, tag, got, gave_up>>
vars == <<msc, pipes, host, failed>>

Phases == {"idle", "data_in", "data_out", "status", "confused", "reset"}
NoWrite == [lun |-> 0, tag |-> 0, lba |-> 0, count |-> 0, need |-> 0]
Unwritten == [u \in 1..BlockSize |-> <<0, 0>>]
Dbufs == [kind : {"data", "csw", "stall"}, tag : Nat, len : Nat, residue : Int,
          status : {"passed", "failed"}]

TypeOK ==
  /\ sense \in [Luns -> Reasons]
  /\ writing \in BOOLEAN
  /\ write \in [lun : Luns, tag : Nat, lba : Nat, count : Nat, need : Nat]
  /\ wbuf \in Seq(Nat \X Nat)
  /\ disk \in [Luns -> [Blocks -> [1..BlockSize -> Nat \X Nat]]]
  /\ in_halted \in BOOLEAN
  /\ out_halted \in BOOLEAN
  /\ in_queue \in Seq(Dbufs)
  /\ parked \in Seq(Nat)
  /\ inbox \in Seq(Dbufs)
  /\ phase \in Phases
  /\ cmd \in Seq(Commands)
  /\ tag \in 0..MaxTag
  /\ got \in Nat
  /\ gave_up \in BOOLEAN
  /\ failed \in Reasons

Init ==
  /\ sense = [l \in Luns |-> "none"]
  /\ writing = FALSE
  /\ write = NoWrite
  /\ wbuf = <<>>
  /\ disk = [l \in Luns |-> [b \in Blocks |-> Unwritten]]
  /\ in_halted = FALSE
  /\ out_halted = FALSE
  /\ in_queue = <<>>
  /\ parked = <<>>
  /\ inbox = <<>>
  /\ phase = "idle"
  /\ cmd = <<>>
  /\ tag = 0
  /\ got = 0
  /\ gave_up = FALSE
  /\ failed = "none"

-----------------------------------------------------------------------------
(* The bulk pipes, as InEndpoint has them for one serve thread             *)

Csw(t, residue, status) ==
  [kind |-> "csw", tag |-> t, len |-> 1, residue |-> residue, status |-> status]
Data(t, len) ==
  [kind |-> "data", tag |-> t, len |-> len, residue |-> 0, status |-> "passed"]
Stall == [kind |-> "stall", tag |-> 0, len |-> 0, residue |-> 0, status |-> "passed"]

\* usbip_device_write of each dbuf: the first one answers a parked URB.
Emit(dbufs) ==
  IF parked = <<>>
    THEN /\ in_queue' = in_queue \o dbufs
         /\ UNCHANGED <<parked, inbox>>
    ELSE /\ in_queue' = in_queue \o Tail(dbufs)
         /\ parked' = <<>>
         /\ inbox' = <<Head(dbufs)>>

\* An IN URB of the host: a STALL, (a slice of) the first dbuf, or a wait.
SubmitIn(length) ==
  /\ \/ /\ in_halted
        /\ inbox' = <<Stall>>
        /\ UNCHANGED <<in_queue, parked>>
     \/ /\ ~in_halted
        /\ in_queue = <<>>
        /\ parked' = <<length>>
        /\ UNCHANGED <<in_queue, inbox>>
     \/ /\ ~in_halted
        /\ in_queue # <<>>
        /\ LET dbuf == Head(in_queue)
               chunk == IF dbuf.len > length THEN length ELSE dbuf.len
           IN /\ inbox' = <<[dbuf EXCEPT !.len = chunk]>>
              /\ in_queue' = (IF chunk < dbuf.len THEN <<[dbuf EXCEPT !.len = @ - chunk]>>
                                                  ELSE <<>>) \o Tail(in_queue)
        /\ UNCHANGED parked
  /\ UNCHANGED <<in_halted, out_halted>>

-----------------------------------------------------------------------------
(* msc_on_out                                                              *)

\* Fault: the CSW is sent and the data phase left open.
StallDataPhase_Not(dlen, in) == UNCHANGED <<in_halted, out_halted>>

\* msc_stall_data_phase: halt the pipe on which data was promised.  No URB is parked
\* while a CBW is handled, so usbip_ep_stall has none to complete.
StallDataPhase(dlen, in) ==
  /\ in_halted' = (in_halted \/ (dlen > 0 /\ in))
  /\ out_halted' = (out_halted \/ (dlen > 0 /\ ~in))

\* The unit whose sense a failure sets.
SenseUnit(lun) == lun

\* msc_fail
Fail(lun, c, t, reason) ==
  /\ sense' = [sense EXCEPT ![SenseUnit(lun)] = reason]
  /\ failed' = reason
  /\ StallDataPhase(c.dlen, c.in)
  /\ Emit(<<Csw(t, c.dlen, "failed")>>)
  /\ UNCHANGED <<writing, write, wbuf, disk>>

Residue(dlen, send) == dlen - send

\* msc_data_in
DataIn(c, t, len) ==
  LET send == IF len < c.dlen THEN len ELSE c.dlen
  IN IF send > 0
       THEN /\ Emit(<<Data(t, send), Csw(t, Residue(c.dlen, send), "passed")>>)
            /\ UNCHANGED <<in_halted, out_halted>>
       ELSE /\ StallDataPhase(c.dlen, c.in)
            /\ Emit(<<Csw(t, Residue(c.dlen, send), "passed")>>)

InRange(c) == c.lba + c.count <= NBlocks

\* WRITE(10) / WRITE(12): open the data phase.
StartWrite(c, t) ==
  /\ writing' = TRUE
  /\ write' = [lun |-> c.lun, tag |-> t, lba |-> c.lba, count |-> c.count,
               need |-> c.count * BlockSize]
  /\ wbuf' = <<>>
  /\ UNCHANGED <<sense, disk, in_halted, out_halted, in_queue, parked, inbox, failed>>

\* REQUEST SENSE clears what it reports.
Reported(l) == [sense EXCEPT ![l] = "none"]

\* dispatch: one command of an existing unit.
Dispatch(c, t) ==
  \/ /\ c.op = "nodata"
     /\ Emit(<<Csw(t, 0, "passed")>>)
     /\ UNCHANGED <<msc, in_halted, out_halted, failed>>
  \/ /\ c.op = "info"
     /\ DataIn(c, t, InfoLen)
     /\ UNCHANGED <<msc, failed>>
  \/ /\ c.op = "sense"
     /\ sense' = Reported(c.lun)
     /\ DataIn(c, t, InfoLen)
     /\ UNCHANGED <<writing, write, wbuf, disk, failed>>
  \/ /\ c.op = "unsupported"
     /\ Fail(c.lun, c, t, "invalid")
  \/ /\ c.op = "read"
     /\ ~InRange(c)
     /\ Fail(c.lun, c, t, "range")
  \/ /\ c.op = "read"
     /\ InRange(c)
     /\ DataIn(c, t, c.count * BlockSize)
     /\ UNCHANGED <<msc, failed>>
  \/ /\ c.op = "read"
     /\ InRange(c)
     /\ ReadMayFail
     /\ Fail(c.lun, c, t, "read_error")
  \/ /\ c.op = "write"
     /\ c.lun \in ReadOnly
     /\ Fail(c.lun, c, t, "protect")
  \/ /\ c.op = "write"
     /\ c.lun \notin ReadOnly
     /\ ~InRange(c)
     /\ Fail(c.lun, c, t, "range")
  \/ /\ c.op = "write"
     /\ c.lun \notin ReadOnly
     /\ InRange(c)
     /\ StartWrite(c, t)

\* The backend's write: the blocks in range take their units from the buffer.
Written(buf) ==
  LET range == write.lba..(write.lba + write.count - 1)
      unit(b, u) == (b - write.lba) * BlockSize + u
      old == disk[write.lun]
      new == [b \in Blocks |->
                IF b \in range THEN [u \in 1..BlockSize |-> buf[unit(b, u)]] ELSE old[b]]
  IN [disk EXCEPT ![write.lun] = new]

\* Data is collected in the order of the OUT URBs.
Collected(units) == wbuf \o units

\* OUT data while a write is open: collect it, and once it is all there hand it to the
\* backend and send the CSW.  A backend failure sets no sense.
CollectWrite(units) ==
  LET room == write.need - Len(wbuf)
      take == IF Len(units) > room THEN room ELSE Len(units)
      buf == Collected(SubSeq(units, 1, take))
  IN IF Len(buf) < write.need
       THEN /\ wbuf' = buf
            /\ UNCHANGED <<sense, writing, write, disk, in_queue, parked, inbox, failed>>
       ELSE /\ \/ /\ disk' = Written(buf)
                  /\ Emit(<<Csw(write.tag, 0, "passed")>>)
                  /\ UNCHANGED failed
               \/ /\ WriteMayFail
                  /\ Emit(<<Csw(write.tag, 0, "failed")>>)
                  /\ failed' = "write_error"
                  /\ UNCHANGED disk
            /\ writing' = FALSE
            /\ write' = NoWrite
            /\ wbuf' = <<>>
            /\ UNCHANGED sense

\* A CBW, whole and well formed: data of the open write if there is one, otherwise a
\* command; a unit that does not exist leaves its sense on unit 0.
OnOut_Cbw(c, t) ==
  \/ /\ writing
     /\ CollectWrite(<<<<t, 0>>>>)
     /\ UNCHANGED <<in_halted, out_halted>>
  \/ /\ ~writing
     /\ c.lun \notin Luns
     /\ Fail(0, c, t, "lun")
  \/ /\ ~writing
     /\ c.lun \in Luns
     /\ Dispatch(c, t)

-----------------------------------------------------------------------------
(* The host                                                                *)

TheCmd == cmd[1]

NextPhase(c) ==
  IF c.dlen = 0 THEN "status" ELSE IF c.in THEN "data_in" ELSE "data_out"

\* Issue a command: the CBW, one OUT URB.
SendCbw(c) ==
  /\ phase = "idle"
  /\ tag < MaxTag
  /\ ~out_halted
  /\ OnOut_Cbw(c, tag + 1)
  /\ tag' = tag + 1
  /\ cmd' = <<c>>
  /\ got' = 0
  /\ phase' = NextPhase(c)
  /\ UNCHANGED gave_up

Waiting == parked # <<>> \/ inbox # <<>>

\* Ask for the data, or for the status.
ReadIn ==
  /\ phase \in {"data_in", "status"}
  /\ ~Waiting
  /\ SubmitIn(IF phase = "data_in" THEN TheCmd.dlen ELSE 1)
  /\ UNCHANGED <<msc, host, failed>>

\* Send the next n units of the data phase; a STALL ends it.
SendData(n) ==
  /\ phase = "data_out"
  /\ n <= TheCmd.dlen - got
  /\ IF out_halted
       THEN /\ out_halted' = FALSE
            /\ phase' = "status"
            /\ UNCHANGED <<msc, in_queue, parked, inbox, got, failed>>
       ELSE /\ IF writing
                 THEN CollectWrite([i \in 1..n |-> <<tag, got + i>>])
                 ELSE UNCHANGED <<msc, in_queue, parked, inbox, failed>>
            /\ got' = got + n
            /\ phase' = IF got + n = TheCmd.dlen THEN "status" ELSE "data_out"
            /\ UNCHANGED out_halted
  /\ UNCHANGED <<in_halted, cmd, tag, gave_up>>

\* The IN URB is answered with a STALL: clear the halt.  A data phase is over, a status
\* is asked for again.
ReceiveStall ==
  /\ inbox = <<Stall>>
  /\ inbox' = <<>>
  /\ in_halted' = FALSE
  /\ phase' = "status"
  /\ UNCHANGED <<msc, out_halted, in_queue, parked, cmd, tag, got, gave_up, failed>>

\* ... with data, in a data phase; or with a CSW of this command, in the status phase.
\* Anything else confuses the host.
Receive ==
  /\ inbox # <<>>
  /\ inbox # <<Stall>>
  /\ inbox' = <<>>
  /\ LET r == inbox[1]
     IN \/ /\ phase = "data_in"
           /\ r.kind = "data"
           /\ r.tag = tag
           /\ got' = r.len
           /\ phase' = "status"
           /\ UNCHANGED cmd
        \/ /\ phase = "status"
           /\ r.kind = "csw"
           /\ r.tag = tag
           /\ phase' = "idle"
           /\ UNCHANGED <<cmd, got>>
        \/ /\ \/ r.tag # tag
              \/ r.kind # (IF phase = "data_in" THEN "data" ELSE "csw")
           /\ phase' = "confused"
           /\ UNCHANGED <<cmd, got>>
  /\ UNCHANGED <<msc, in_halted, out_halted, in_queue, parked, tag, gave_up, failed>>

\* Fault: a reset leaves the write open.
Reset_KeepsWrite == UNCHANGED <<writing, write, wbuf>>

\* BOT_RESET in msc_control.  The queue of the bulk-IN pipe stays as it is.
Reset ==
  /\ writing' = FALSE
  /\ write' = NoWrite
  /\ wbuf' = <<>>

\* Reset recovery: unlink the URB, Bulk-Only Mass Storage Reset, clear both halts.
HostReset ==
  /\ HostMayReset
  /\ phase # "idle"
  /\ Reset
  /\ parked' = <<>>
  /\ inbox' = <<>>
  /\ in_halted' = FALSE
  /\ out_halted' = FALSE
  /\ phase' = "idle"
  /\ gave_up' = TRUE
  /\ UNCHANGED <<sense, disk, in_queue, cmd, tag, got, failed>>

HostStep == ReadIn \/ ReceiveStall \/ Receive \/ \E n \in 1..MaxChunk : SendData(n)

Next ==
  \/ \E c \in Commands : SendCbw(c)
  \/ HostStep
  \/ HostReset

Spec == Init /\ [][Next]_vars

\* A host that issued a command carries it through.
FairSpec == Spec /\ WF_vars(HostStep)

-----------------------------------------------------------------------------
(* Properties                                                              *)

\* The host has the CSW of its command.
HasCsw == phase = "status" /\ inbox # <<>> /\ inbox[1].kind = "csw" /\ inbox[1].tag = tag

ResidueTrue == HasCsw /\ TheCmd.in => inbox[1].residue = TheCmd.dlen - got

SenseTellsFailure ==
  HasCsw /\ inbox[1].status = "failed" /\ failed # "write_error"
  => sense[IF TheCmd.lun \in Luns THEN TheCmd.lun ELSE 0] = failed

\* The device and a BOT host stay in step: a data phase never gets a CSW, a status phase
\* never gets data, and a CSW is that of the command, over every mix of short, absent
\* and failed data phases (msc_data_in, msc_fail and msc_stall_data_phase).  The residue
\* of the CSW is what the host asked for and did not get, and when it says failed, REQUEST
\* SENSE to that unit tells why (msc_fail).  Not so for a host that gave up on a command,
\* which may still find replies to it (HostReset), and for the sense of a write that the
\* backend fails, which sets none.
InStep == (~gave_up => phase # "confused") /\ ResidueTrue /\ SenseTellsFailure

WriteLands ==
  HasCsw /\ TheCmd.op = "write" /\ inbox[1].status = "passed"
  => \A b \in TheCmd.lba..(TheCmd.lba + TheCmd.count - 1) : \A u \in 1..BlockSize :
       disk[TheCmd.lun][b][u] = <<tag, (b - TheCmd.lba) * BlockSize + u>>

WholeWritesOnly ==
  [][disk' # disk =>
       \A l \in Luns : \A b \in Blocks :
         disk'[l][b] # disk[l][b] =>
           /\ l = TheCmd.lun
           /\ \A u \in 1..BlockSize : disk'[l][b][u][1] = tag]_vars

\* A write that passes has put the host's data into the blocks it named, on the unit it
\* named, in order; and the disk only ever changes by a whole write of the command under
\* way: no reset and no failure half-way leaves, or later lands, a part of one.
WritesLand == []WriteLands /\ WholeWritesOnly

\* Every command of a host that never gave up comes to its CSW.
EveryCommandEnds == (phase # "idle") ~> (phase = "idle" \/ gave_up)
=============================================================================
