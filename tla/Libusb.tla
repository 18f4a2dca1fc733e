------------------------------- MODULE Libusb -------------------------------
(***************************************************************************)
(* The libusb-1.0 replacement (src/wrapper/libusb-1.0/libusb.c) on top of  *)
(* the client: the default context and its reference count, the            *)
(* synchronous transfers of the program's own thread, and the asynchronous *)
(* ones: a submit queue, one worker thread, a done queue, a self-pipe and  *)
(* threads in libusb_handle_events.                                        *)
(*                                                                         *)
(* The program keeps libusb's rules: it submits and frees only transfers   *)
(* that are not pending, closes a handle nothing is pending on, leaves the *)
(* library with all handles closed, and a callback may submit its transfer *)
(* again but does not free it.                                             *)
(***************************************************************************)
EXTENDS UsbipClient, SequencesExt

CONSTANTS
  App, Worker,     \* the two Threads: the program's and worker_main
  Transfers,       \* struct libusb_transfer
  EventThreads,    \* threads in libusb_handle_events
  PipeCap,         \* bytes the self-pipe holds
  MaxInit,         \* bound: nested libusb_init(NULL)
  NoXfer

ASSUME LibusbAssumption ==
  /\ Threads = {App, Worker} /\ App # Worker
  /\ NoXfer \notin Transfers
  /\ PipeCap \in Nat \ {0} /\ MaxInit \in Nat \ {0}

VARIABLES
  ctx,       \* g_default: "none", "live", or "stopping" while ctx_free joins the worker
  rc_ctx,    \* g_default_rc
  xfer,      \* per transfer: state, cancelled, status
  subq,      \* submitted, not yet run
  doneq,     \* run, awaiting handle_events
  worker,    \* worker_main: where it is, the transfer it runs
  shutting,  \* ctx->shutting
  pipe,      \* bytes in the self-pipe
  ev,        \* per event thread: where it is, the list it took
  early,     \* transfers whose cancel succeeded while they were queued (history)
  ran        \* transfers run_transfer was called for since they were submitted (history)

queuevars == <<xfer, subq, doneq, worker, shutting, pipe>>
asyncvars == <<queuevars, ev, early, ran>>
vars == <<clientvars, ctx, rc_ctx, asyncvars>>

FreshXfer == [state |-> "idle", cancelled |-> FALSE, status |-> "none"]
Gone == [pc |-> "none", it |-> NoXfer]

TypeOK ==
  /\ ClientTypeOK
  /\ ctx \in {"none", "live", "stopping"} /\ rc_ctx \in 0..MaxInit
  /\ xfer \in [Transfers -> [state : {"idle", "queued", "inflight", "done"}, cancelled : BOOLEAN,
                 status : {"none", "completed", "stall", "error", "cancelled"}]]
  /\ subq \in Seq(Transfers) /\ doneq \in Seq(Transfers)
  /\ worker \in [pc : {"none", "loop", "asleep", "run", "finish", "wake", "exited"},
                 it : Transfers \cup {NoXfer}]
  /\ shutting \in BOOLEAN /\ pipe \in 0..PipeCap
  /\ ev \in [EventThreads -> [pc : {"idle", "drained", "deliver", "callback"}, list : Seq(Transfers)]]
  /\ early \subseteq Transfers /\ ran \subseteq Transfers

Init ==
  /\ ClientInit
  /\ ctx = "none" /\ rc_ctx = 0
  /\ xfer = [x \in Transfers |-> FreshXfer]
  /\ subq = <<>> /\ doneq = <<>> /\ worker = Gone /\ shutting = FALSE /\ pipe = 0
  /\ ev = [e \in EventThreads |-> [pc |-> "idle", list |-> <<>>]]
  /\ early = {} /\ ran = {}

\* Submitted, and its callback has not run yet.
Pending(x) ==
  \/ x \in ToSet(subq) \cup ToSet(doneq) \/ worker.it = x
  \/ \E e \in EventThreads : x \in ToSet(ev[e].list)

Idle == call[App].pc = "idle"     \* the program's thread is not inside a transfer

---------------------------------------------------------------------------
(* libusb_init(NULL) and libusb_exit(NULL). *)

LibInit ==
  /\ Idle /\ ctx # "stopping" /\ rc_ctx < MaxInit
  /\ ctx' = "live" /\ rc_ctx' = rc_ctx + 1
  /\ UNCHANGED <<clientvars, asyncvars>>

Quiet == /\ \A h \in Handles : ~conn[h].open
         /\ \A e \in EventThreads : ev[e].pc = "idle"

\* The last exit frees the context: it wakes the worker and joins it.
LibExit ==
  /\ Idle /\ ctx = "live"
  /\ rc_ctx = 1 => Quiet
  /\ rc_ctx' = rc_ctx - 1
  /\ IF rc_ctx > 1 THEN UNCHANGED <<ctx, shutting, worker>>
     ELSE /\ ctx' = "stopping"
          /\ shutting' = (worker.pc # "none")
          /\ worker' = IF worker.pc = "asleep" THEN [worker EXCEPT !.pc = "loop"] ELSE worker
  /\ UNCHANGED <<clientvars, xfer, subq, doneq, pipe, ev, early, ran>>

CtxFreed ==
  /\ ctx = "stopping" /\ worker.pc \in {"none", "exited"}
  /\ ctx' = "none" /\ worker' = Gone /\ shutting' = FALSE /\ pipe' = 0
  /\ UNCHANGED <<clientvars, rc_ctx, xfer, subq, doneq, ev, early, ran>>

---------------------------------------------------------------------------
(* Handles. The device objects behind them are in LibusbDevices. *)

Open(h, b) ==
  /\ Idle /\ ctx = "live"
  /\ Import(h, b, exported[b])
  /\ UNCHANGED <<exported, next_devnum, iolock, call, ctx, rc_ctx, asyncvars>>

Close(h) ==
  /\ Idle /\ conn[h].open
  /\ \A x \in Transfers : ~Pending(x)
  /\ \A e \in EventThreads : ev[e].pc # "callback"
  /\ CloseSocket(h)
  /\ UNCHANGED <<exported, next_devnum, iolock, call, ctx, rc_ctx, asyncvars>>

\* libusb_control_transfer, libusb_bulk_transfer, libusb_set_configuration...
SyncTransfer(h) ==
  /\ Idle /\ ctx = "live" /\ conn[h].open
  /\ Enter(App, h, "plain", TRUE)
  /\ UNCHANGED <<exported, next_devnum, conn, iolock, ctx, rc_ctx, asyncvars>>

SyncReturn ==
  /\ Forget(App)
  /\ UNCHANGED <<exported, next_devnum, conn, iolock, ctx, rc_ctx, asyncvars>>

---------------------------------------------------------------------------
(* Asynchronous transfers. *)

\* pthread_cond_signal(&ctx->qcond), or the start of the worker.
Signalled(w) == IF w.pc \in {"none", "asleep"} THEN [w EXCEPT !.pc = "loop"] ELSE w

\* Fault: only the submit that starts the worker wakes it.
SubmitWakes_FirstOnly(w) == IF w.pc = "none" THEN [w EXCEPT !.pc = "loop"] ELSE w

SubmitWakes(w) == Signalled(w)

\* libusb_submit_transfer, by the program or from a callback.
Submitted(x) ==
  /\ ctx = "live" /\ \E h \in Handles : conn[h].open
  /\ xfer' = [xfer EXCEPT ![x] = [state |-> "queued", cancelled |-> FALSE, status |-> "completed"]]
  /\ subq' = Append(subq, x)
  /\ worker' = SubmitWakes(worker)
  /\ early' = early \ {x} /\ ran' = ran \ {x}

SubmitTransfer(x) ==
  /\ Idle /\ ~Pending(x)
  /\ \A e \in EventThreads : ev[e].pc # "callback"
  /\ Submitted(x)
  /\ UNCHANGED <<clientvars, ctx, rc_ctx, doneq, shutting, pipe, ev>>

\* libusb_cancel_transfer: success unless the callback has been reached.
CancelTransfer(x) ==
  /\ Idle /\ ctx = "live" /\ xfer[x].state \notin {"idle", "done"} /\ ~xfer[x].cancelled
  /\ xfer' = [xfer EXCEPT ![x].cancelled = TRUE]
  /\ worker' = IF worker.pc = "asleep" THEN [worker EXCEPT !.pc = "loop"] ELSE worker
  /\ early' = IF xfer[x].state = "queued" THEN early \cup {x} ELSE early
  /\ UNCHANGED <<clientvars, ctx, rc_ctx, subq, doneq, shutting, pipe, ev, ran>>

\* worker_main: the top of the loop, under ctx->lock.
WorkerLoop ==
  /\ worker.pc = "loop" /\ subq = <<>>
  /\ worker' = [worker EXCEPT !.pc = IF shutting THEN "exited" ELSE "asleep"]
  /\ UNCHANGED <<clientvars, ctx, rc_ctx, xfer, subq, doneq, shutting, pipe, ev, early, ran>>

\* Fault: the cancelled flag is not looked at.
Skips_Never(x) == FALSE

Skips(x) == xfer[x].cancelled

\* It takes the first transfer; a cancelled one completes at once, another is run.
WorkerTake(h) ==
  LET x == Head(subq) IN
  /\ worker.pc = "loop" /\ subq # <<>>
  /\ subq' = Tail(subq)
  /\ IF Skips(x)
     THEN /\ xfer' = [xfer EXCEPT ![x].state = "inflight", ![x].status = "cancelled"]
          /\ worker' = [pc |-> "finish", it |-> x]
          /\ UNCHANGED <<call, ran>>
     ELSE /\ conn[h].open
          /\ \E kind \in Kinds : Enter(Worker, h, kind, TRUE)
          /\ xfer' = [xfer EXCEPT ![x].state = "inflight"]
          /\ worker' = [pc |-> "run", it |-> x]
          /\ ran' = ran \cup {x}
  /\ UNCHANGED <<exported, next_devnum, conn, iolock, ctx, rc_ctx, doneq, shutting, pipe, ev, early>>

\* run_transfer returns: map_status of what the submit returned.
map_status(rc) == CASE rc = "ok" -> "completed" [] rc = "stall" -> "stall" [] OTHER -> "error"

WorkerRan ==
  /\ worker.pc = "run" /\ Forget(Worker)
  /\ xfer' = [xfer EXCEPT ![worker.it].status = map_status(call[Worker].rc)]
  /\ worker' = [worker EXCEPT !.pc = "finish"]
  /\ UNCHANGED <<exported, next_devnum, conn, iolock, ctx, rc_ctx, subq, doneq, shutting, pipe, ev, early, ran>>

WorkerFinish ==
  /\ worker.pc = "finish"
  /\ doneq' = Append(doneq, worker.it)
  /\ worker' = [pc |-> "wake", it |-> NoXfer]
  /\ UNCHANGED <<clientvars, ctx, rc_ctx, xfer, subq, shutting, pipe, ev, early, ran>>

\* One byte per completion; the pipe does not block when it is full.
WorkerWake ==
  /\ worker.pc = "wake"
  /\ pipe' = IF pipe < PipeCap THEN pipe + 1 ELSE pipe
  /\ worker' = [worker EXCEPT !.pc = "loop"]
  /\ UNCHANGED <<clientvars, ctx, rc_ctx, xfer, subq, doneq, shutting, ev, early, ran>>

WorkerNext ==
  \/ WorkerLoop \/ (\E h \in Handles : WorkerTake(h)) \/ WorkerRan \/ WorkerFinish \/ WorkerWake

---------------------------------------------------------------------------
(* libusb_handle_events. *)

\* poll, for 60 s at most or until there is a byte, and the drain.
Poll(e) ==
  /\ ctx = "live" /\ ev[e].pc = "idle" /\ pipe > 0
  /\ ev' = [ev EXCEPT ![e].pc = "drained"]
  /\ pipe' = 0
  /\ UNCHANGED <<clientvars, ctx, rc_ctx, xfer, subq, doneq, worker, shutting, early, ran>>

\* The poll times out; the queue is looked at all the same.
PollTimeout(e) ==
  /\ ctx = "live" /\ ev[e].pc = "idle"
  /\ ev' = [ev EXCEPT ![e].pc = "drained"]
  /\ UNCHANGED <<clientvars, ctx, rc_ctx, queuevars, early, ran>>

\* Fault: one completion is taken, although all their bytes were drained.
Take_One(e) ==
  /\ ev[e].pc = "drained"
  /\ ev' = [ev EXCEPT ![e] = [pc |-> IF doneq = <<>> THEN "idle" ELSE "deliver", list |-> IF doneq = <<>> THEN <<>> ELSE <<Head(doneq)>>]]
  /\ doneq' = IF doneq = <<>> THEN <<>> ELSE Tail(doneq)
  /\ UNCHANGED <<clientvars, ctx, rc_ctx, xfer, subq, worker, shutting, pipe, early, ran>>

Take(e) ==
  /\ ev[e].pc = "drained"
  /\ ev' = [ev EXCEPT ![e] = [pc |-> IF doneq = <<>> THEN "idle" ELSE "deliver", list |-> doneq]]
  /\ doneq' = <<>>
  /\ UNCHANGED <<clientvars, ctx, rc_ctx, xfer, subq, worker, shutting, pipe, early, ran>>

CallbackBegin(e) ==
  /\ ev[e].pc = "deliver"
  /\ xfer' = [xfer EXCEPT ![Head(ev[e].list)].state = "done"]
  /\ ev' = [ev EXCEPT ![e].pc = "callback"]
  /\ UNCHANGED <<clientvars, ctx, rc_ctx, subq, doneq, worker, shutting, pipe, early, ran>>

\* The callback returns, having submitted its transfer again or not. Nothing
\* reads the other fields of a transfer that is done: they are forgotten.
CallbackEnd(e) ==
  LET x == Head(ev[e].list) IN
  /\ ev[e].pc = "callback"
  /\ ev' = [ev EXCEPT ![e] = [pc |-> IF Len(ev[e].list) = 1 THEN "idle" ELSE "deliver",
                              list |-> Tail(@.list)]]
  /\ \/ Submitted(x)
     \/ /\ early' = early \ {x} /\ ran' = ran \ {x}
        /\ xfer' = [xfer EXCEPT ![x] = [FreshXfer EXCEPT !.state = "done"]]
        /\ UNCHANGED <<subq, worker>>
  /\ UNCHANGED <<clientvars, ctx, rc_ctx, doneq, shutting, pipe>>

EventNext == \E e \in EventThreads :
  Poll(e) \/ PollTimeout(e) \/ Take(e) \/ CallbackBegin(e) \/ CallbackEnd(e)

---------------------------------------------------------------------------
AppNext ==
  \/ LibInit \/ LibExit \/ CtxFreed \/ SyncReturn
  \/ \E h \in Handles : (\E b \in Busids : Open(h, b)) \/ Close(h) \/ SyncTransfer(h)
  \/ \E x \in Transfers : SubmitTransfer(x) \/ CancelTransfer(x)

Aside == UNCHANGED <<ctx, rc_ctx, asyncvars>>

\* The device stays plugged; its connection may break.
ServerNext ==
  /\ \/ \E b \in Busids : Plug(b)
     \/ \E h \in Handles : ServerAnswers(h) \/ ServerDrops(h)
  /\ Aside

ClientNext == (\E t \in Threads : Step(t)) /\ Aside

Next == AppNext \/ WorkerNext \/ EventNext \/ ClientNext \/ ServerNext

Spec == Init /\ [][Next]_vars

---------------------------------------------------------------------------
\* A completion is never left behind with nobody due to look at it: while
\* the done queue is not empty there is a byte in the self-pipe, or the worker
\* is about to write one, or an event thread has drained the pipe and has yet
\* to take the queue.
NoLostCompletion ==
  doneq # <<>> => \/ pipe > 0
                  \/ worker.pc = "wake"
                  \/ \E e \in EventThreads : ev[e].pc = "drained"

\* Cancelling is exact while the transfer is queued: it never reaches the
\* device, and what the callback is told is CANCELLED.
CancelIsExact ==
  \A x \in early : x \notin ran /\ (xfer[x].state # "queued" => xfer[x].status = "cancelled")

---------------------------------------------------------------------------
(* The threads run, with mutexes that let everyone in in the end; the      *)
(* server answers what it was asked; the program keeps an event loop going.*)
Fairness ==
  /\ SF_vars(WorkerNext \/ (Step(Worker) /\ Aside))
  /\ SF_vars(CtxFreed \/ SyncReturn \/ (Step(App) /\ Aside))
  /\ \A h \in Handles : WF_vars(ServerAnswers(h) /\ Aside)
  /\ \A e \in EventThreads : WF_vars(Poll(e) \/ Take(e) \/ CallbackBegin(e) \/ CallbackEnd(e))

FairSpec == Spec /\ Fairness

\* Every submitted transfer comes to its callback, a cancelled one too: no
\* wake-up of the worker is lost, and no transfer is stuck behind iolock.
CallbackComes ==
  \A x \in Transfers : xfer[x].state = "queued" ~> xfer[x].state = "done"
=============================================================================
