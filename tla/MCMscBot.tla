------------------------------ MODULE MCMscBot ------------------------------
(* MscBot for TLC: command sets. *)
EXTENDS MscBot

Cmd(op, lun, lba, count, dlen, in) ==
  [op |-> op, lun |-> lun, lba |-> lba, count |-> count, dlen |-> dlen, in |-> in]

\* Transfers of 1 or 2 blocks, in range or not.
Reads == {Cmd("read", l, b, n, n * BlockSize, TRUE) : l \in 0..1, b \in 0..1, n \in 0..2}
Writes == {Cmd("write", l, b, n, n * BlockSize, FALSE) : l \in 0..2, b \in 0..1, n \in 1..2}

\* Replies longer, shorter and as long as asked for, and none asked for.
Infos == {Cmd(op, l, 0, 0, n, TRUE) : op \in {"info", "sense"}, l \in 0..2, n \in 0..3}

\* Commands the device refuses, with and without a data phase.
Refused == {Cmd("unsupported", l, 0, 0, n, in) : l \in 0..1, n \in {0, 2}, in \in BOOLEAN}
NoData == {Cmd("nodata", l, 0, 0, 0, FALSE) : l \in 0..2}

AllCommands == Reads \cup Writes \cup Infos \cup Refused \cup NoData
=============================================================================
