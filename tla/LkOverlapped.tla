---------------------------- MODULE LkOverlapped ----------------------------
(***************************************************************************)
(* Transfers of the libusbK replacement (UsbK_* and OvlK_* of              *)
(* src/wrapper/libusbK/libusbk.c) on one handle: synchronous ones by the   *)
(* program's thread, overlapped ones queued for the handle's worker, which *)
(* completes them into an OVERLAPPED of a pool; both clear a stalled pipe  *)
(* under the AUTO_CLEAR_STALL policy. The length a transfer reports is     *)
(* modelled by the number of the operation it belongs to.                  *)
(***************************************************************************)
EXTENDS UsbipClient, SequencesExt

CONSTANTS
  App, Worker,   \* the two Threads
  Handle,        \* the KUSB_HANDLE
  Ovls,          \* the overlappeds of the pool
  OvlKinds,      \* the transfers the program queues, of Kinds
  MaxOps,        \* bound: operations queued in a run
  NoOp

ASSUME OvlAssumption ==
  /\ Threads = {App, Worker} /\ App # Worker /\ Handle \in Handles
  /\ OvlKinds \subseteq Kinds /\ MaxOps \in Nat
  /\ NoOp \notin [ovl : Ovls, n : 1..MaxOps]

VARIABLES
  ovl,        \* per overlapped: Internal, InternalHigh, hEvent, and the op it was last queued for
  pool,       \* pool->free_list
  queue,      \* q_head..q_tail: the operations
  wk,         \* kusb_worker: where it is and its operation
  shutting,   \* handle->shutting
  freeing,    \* UsbK_Free waits for the worker
  clears,     \* pol[].auto_clear_stall of the pipe
  ops,        \* operations queued so far
  early       \* overlappeds queued again before the worker was through with them (history)

ovlvars == <<ovl, pool, queue, wk, shutting, freeing, clears, ops, early>>

Quiet == [internal |-> "ok", high |-> 0, event |-> FALSE, op |-> 0]

OvlTypeOK ==
  /\ ovl \in [Ovls -> [internal : {"pending", "ok", "fail"}, high : 0..MaxOps, event : BOOLEAN, op : 0..MaxOps]]
  /\ pool \in Seq(Ovls)
  /\ queue \in Seq([ovl : Ovls, n : 1..MaxOps])
  /\ wk.pc \in {"none", "loop", "asleep", "run", "clear", "high", "internal", "event", "exited"}
  /\ shutting \in BOOLEAN /\ freeing \in BOOLEAN /\ clears \in BOOLEAN
  /\ ops \in 0..MaxOps /\ early \subseteq Ovls

OvlInit ==
  /\ ovl = [o \in Ovls |-> Quiet]
  /\ pool = SetToSeq(Ovls)          \* OvlK_Init
  /\ queue = <<>> /\ wk = [pc |-> "none", op |-> NoOp, rc |-> "none"]
  /\ shutting = FALSE /\ freeing = FALSE /\ clears \in BOOLEAN
  /\ ops = 0 /\ early = {}

Free == call[App].pc = "idle" /\ ~freeing
Held(o) == o \notin ToSet(pool)

---------------------------------------------------------------------------
(* UsbK_Init (lk_open_busid) and UsbK_Free. *)

UsbK_Init(b) ==
  /\ Free /\ Import(Handle, b, exported[b])
  /\ UNCHANGED <<exported, next_devnum, iolock, call, ovlvars>>

UsbK_Free ==
  /\ Free /\ conn[Handle].open
  /\ freeing' = TRUE
  /\ shutting' = (wk.pc # "none")
  /\ wk' = IF wk.pc = "asleep" THEN [wk EXCEPT !.pc = "loop"] ELSE wk
  /\ UNCHANGED <<clientvars, ovl, pool, queue, clears, ops, early>>

UsbK_Freed ==
  /\ freeing /\ wk.pc \in {"none", "exited"}
  /\ CloseSocket(Handle)
  /\ freeing' = FALSE /\ shutting' = FALSE
  /\ wk' = [pc |-> "none", op |-> NoOp, rc |-> "none"]
  /\ UNCHANGED <<exported, next_devnum, iolock, call, ovl, pool, queue, clears, ops, early>>

---------------------------------------------------------------------------
(* The pool and the waits. *)

OvlK_Acquire ==
  /\ Free /\ pool # <<>>
  /\ pool' = Tail(pool)
  /\ ovl' = [ovl EXCEPT ![Head(pool)] = [Quiet EXCEPT !.op = 0]]
  /\ UNCHANGED <<clientvars, queue, wk, shutting, freeing, clears, ops, early>>

\* Released by a wait that was told to, pending or not.
OvlK_Release(o) ==
  /\ Held(o)
  /\ pool' = <<o>> \o pool

\* lk_ovl_wait: the event is set, or the wait times out; either may give the overlapped back.
Signalled(o) == ovl[o].event
OvlK_Wait(o, release_done, release_timeout) ==
  /\ Free /\ Held(o) /\ ovl[o].op # 0
  /\ IF Signalled(o) THEN release_done ELSE release_timeout
  /\ OvlK_Release(o)
  /\ UNCHANGED <<clientvars, ovl, queue, wk, shutting, freeing, clears, ops, early>>

\* UsbK_GetOverlappedResult without waiting looks at Internal, not at the event.
Completed(o) == ovl[o].internal # "pending"

---------------------------------------------------------------------------
(* Queueing and the worker. *)

\* The worker has still to complete an operation into o.
Busy(o) == \E p \in ToSet(queue) \cup ({wk.op} \ {NoOp}) : p.ovl = o

\* lk_pipe_io with an Overlapped, kusb_queue.
kusb_queue(o) ==
  /\ Free /\ conn[Handle].open /\ ops < MaxOps
  /\ Held(o) /\ Completed(o)
  /\ ops' = ops + 1
  /\ ovl' = [ovl EXCEPT ![o] = [internal |-> "pending", high |-> 0, event |-> FALSE, op |-> ops + 1]]
  /\ queue' = Append(queue, [ovl |-> o, n |-> ops + 1])
  /\ wk' = IF wk.pc \in {"none", "asleep"} THEN [wk EXCEPT !.pc = "loop"] ELSE wk
  /\ early' = IF Busy(o) THEN early \cup {o} ELSE early \ {o}
  /\ UNCHANGED <<clientvars, pool, shutting, freeing, clears>>

LeavesNow == shutting /\ queue = <<>>

WorkerRests ==
  /\ wk.pc = "loop" /\ (queue = <<>> \/ LeavesNow)
  /\ wk' = [wk EXCEPT !.pc = IF LeavesNow THEN "exited" ELSE "asleep"]
  /\ UNCHANGED <<clientvars, ovl, pool, queue, shutting, freeing, clears, ops, early>>

WorkerTakes(kind) ==
  /\ wk.pc = "loop" /\ queue # <<>> /\ ~LeavesNow
  /\ Enter(Worker, Handle, kind, TRUE)
  /\ wk' = [pc |-> "run", op |-> Head(queue), rc |-> "none"]
  /\ queue' = Tail(queue)
  /\ UNCHANGED <<exported, next_devnum, conn, iolock, ovl, pool, shutting, freeing, clears, ops, early>>

\* The submit returned; a stall is cleared by a control request of its own.
WorkerRan ==
  /\ wk.pc = "run" /\ call[Worker].pc = "returned"
  /\ IF call[Worker].rc = "stall" /\ clears
     THEN /\ call' = [call EXCEPT ![Worker] = [NoCall EXCEPT !.h = Handle, !.pc = "lock"]]
          /\ wk' = [wk EXCEPT !.pc = "clear", !.rc = "stall"]
     ELSE Forget(Worker) /\ wk' = [wk EXCEPT !.pc = "high", !.rc = call[Worker].rc]
  /\ UNCHANGED <<exported, next_devnum, conn, iolock, ovl, pool, queue, shutting, freeing, clears, ops, early>>

WorkerCleared ==
  /\ wk.pc = "clear" /\ Forget(Worker)
  /\ wk' = [wk EXCEPT !.pc = "high"]
  /\ UNCHANGED <<exported, next_devnum, conn, iolock, ovl, pool, queue, shutting, freeing, clears, ops, early>>

\* Fault: the status is published before the length.
CompleteSteps_StatusFirst == [high |-> "internal", internal |-> "event", event |-> "high"]

\* InternalHigh, then Internal, then the event.
CompleteSteps == [high |-> "high", internal |-> "internal", event |-> "event"]

WorkerCompletes ==
  LET o == wk.op.ovl  what == CompleteSteps[wk.pc] IN
  /\ wk.pc \in {"high", "internal", "event"}
  /\ ovl' = [ovl EXCEPT ![o] =
       CASE what = "high" -> [@ EXCEPT !.high = IF wk.rc = "ok" THEN wk.op.n ELSE 0]
         [] what = "internal" -> [@ EXCEPT !.internal = IF wk.rc = "ok" THEN "ok" ELSE "fail"]
         [] what = "event" -> [@ EXCEPT !.event = TRUE]]
  /\ wk' = IF wk.pc = "event" THEN [pc |-> "loop", op |-> NoOp, rc |-> "none"]
           ELSE [wk EXCEPT !.pc = IF wk.pc = "high" THEN "internal" ELSE "event"]
  /\ UNCHANGED <<clientvars, pool, queue, shutting, freeing, clears, ops, early>>

\* UsbK_ReadPipe, UsbK_WritePipe, UsbK_ControlTransfer, UsbK_ResetPipe without an Overlapped.
SyncIo ==
  /\ Free /\ Enter(App, Handle, "plain", TRUE)
  /\ UNCHANGED <<exported, next_devnum, conn, iolock, ovlvars>>

SyncReturns ==
  /\ call[App].pc = "returned"
  /\ IF call[App].rc = "stall" /\ clears
     THEN call' = [call EXCEPT ![App] = [NoCall EXCEPT !.h = Handle, !.pc = "lock"]]
     ELSE Forget(App)
  /\ UNCHANGED <<exported, next_devnum, conn, iolock, ovlvars>>

OvlNext ==
  \/ UsbK_Free \/ UsbK_Freed \/ (\E b \in Busids : UsbK_Init(b))
  \/ OvlK_Acquire \/ SyncIo \/ SyncReturns
  \/ \E o \in Ovls :
       \/ kusb_queue(o)
       \/ \E d, t \in BOOLEAN : OvlK_Wait(o, d, t)
  \/ WorkerRests \/ (\E k \in OvlKinds : WorkerTakes(k)) \/ WorkerRan \/ WorkerCleared \/ WorkerCompletes
  \/ (\E t \in Threads : Step(t) /\ UNCHANGED ovlvars)

---------------------------------------------------------------------------
\* What OvlK_Wait and UsbK_GetOverlappedResult let the program read is the
\* complete result of the operation it queued on that overlapped, unless it
\* queued it again before the event of the one before was set (a timed-out
\* wait gave it back, or polling saw Internal first); and when UsbK_Free
\* returns nothing that was queued is left pending.
OverlappedIsMine ==
  /\ \A o \in Ovls : o \notin early /\ ovl[o].op # 0 =>
       /\ Signalled(o) => Completed(o)
       /\ Completed(o) => ovl[o].high = IF ovl[o].internal = "ok" THEN ovl[o].op ELSE 0
  /\ wk.pc = "none" => queue = <<>> /\ \A o \in Ovls : Completed(o)
=============================================================================
