------------------------------ MODULE LkStream ------------------------------
(***************************************************************************)
(* Pipe streams of the libusbK replacement (StmK_* of                      *)
(* src/wrapper/libusbK/libusbk.c): a background thread moves slots between *)
(* a ring of free ones and a ring of ready ones, the program at the other  *)
(* end of the rings calls StmK_Read or StmK_Write. One condition variable  *)
(* serves both. What a submit carries is a number; it may fail.            *)
(***************************************************************************)
EXTENDS Integers, Sequences, FiniteSets

CONSTANTS
  n_slots,    \* MaxPendingTransfers
  Callers,    \* threads of the program that call StmK_Read / StmK_Write
  MaxData     \* bound: transfers during a run

ASSUME StreamAssumption ==
  /\ n_slots \in Nat \ {0} /\ MaxData \in Nat
  /\ {"stop", "thread"} \cap Callers = {}   \* the names of the other two that broadcast

VARIABLES
  dir,           \* stream->dir, from the pipe: "in" or "out"
  free, ready,   \* the rings: slot indices, head and count
  slot,          \* per slot: what its buffer holds
  stop, running, \* stream->stop, stream->running
  thread,        \* kstm_thread: where it is and its slot
  caller,        \* per caller: where it is and its slot
  stopper,       \* StmK_Stop: "idle" or "join"
  data,          \* transfers produced so far: by the device (in) or the program (out)
  delivered,     \* what came out at the other end, in order
  lost           \* OUT transfers whose submit failed (history)

streamvars == <<dir, free, ready, slot, stop, running, thread, caller, stopper, data, delivered, lost>>

Slots == 0..(n_slots - 1)
NoSlot == n_slots
Ring == [q : [Slots -> Slots], head : Slots, count : Nat]

StreamTypeOK ==
  /\ dir \in {"in", "out"}
  /\ free \in Ring /\ ready \in Ring
  /\ slot \in [Slots -> 0..MaxData]
  /\ stop \in BOOLEAN /\ running \in BOOLEAN
  /\ thread \in [pc : {"none", "loop", "asleep", "submit", "complete", "failed"}, slot : Slots \cup {NoSlot}]
  /\ caller \in [Callers -> [pc : {"idle", "check", "asleep", "copy"}, slot : Slots \cup {NoSlot}]]
  /\ stopper \in {"idle", "join"}
  /\ data \in 0..MaxData
  /\ delivered \in Seq(1..MaxData) /\ lost \subseteq 1..MaxData

\* StmK_Init: every slot starts free.
StreamInit ==
  /\ dir \in {"in", "out"}
  /\ free = [q |-> [s \in Slots |-> s], head |-> 0, count |-> n_slots]
  /\ ready = [q |-> [s \in Slots |-> 0], head |-> 0, count |-> 0]
  /\ slot = [s \in Slots |-> 0]
  /\ stop = FALSE /\ running = FALSE
  /\ thread = [pc |-> "none", slot |-> NoSlot]
  /\ caller = [c \in Callers |-> [pc |-> "idle", slot |-> NoSlot]]
  /\ stopper = "idle" /\ data = 0 /\ delivered = <<>> /\ lost = {}

\* Fault: the slot goes one place too far.
kstm_push_Skips(r, v) == [r EXCEPT !.q[(r.head + r.count + 1) % n_slots] = v, !.count = @ + 1]

kstm_push(r, v) == [r EXCEPT !.q[(r.head + r.count) % n_slots] = v, !.count = @ + 1]
kstm_pop(r) == [r EXCEPT !.head = (@ + 1) % n_slots, !.count = @ - 1]
First(r) == r.q[r.head]

\* pthread_cond_broadcast(&stream->cond): the callers' side of it.
Broadcast(t) == caller' = [c \in Callers |-> IF caller[c].pc = "asleep" /\ c # t
                             THEN [caller[c] EXCEPT !.pc = "check"] ELSE caller[c]]
ThreadWoken == IF thread.pc = "asleep" THEN [thread EXCEPT !.pc = "loop"] ELSE thread

---------------------------------------------------------------------------
(* StmK_Start and StmK_Stop. *)

StmK_Start ==
  /\ ~running /\ stopper = "idle"
  /\ stop' = FALSE /\ running' = TRUE
  /\ thread' = [pc |-> "loop", slot |-> NoSlot]
  /\ UNCHANGED <<dir, free, ready, slot, caller, stopper, data, delivered, lost>>

StmK_Stop ==
  /\ running /\ stopper = "idle"
  /\ stop' = TRUE /\ stopper' = "join"
  /\ thread' = ThreadWoken /\ Broadcast("stop")
  /\ UNCHANGED <<dir, free, ready, slot, running, data, delivered, lost>>

StmK_Stopped ==
  /\ stopper = "join" /\ thread.pc = "none"
  /\ stopper' = "idle" /\ running' = FALSE
  /\ UNCHANGED <<dir, free, ready, slot, stop, thread, caller, data, delivered, lost>>

---------------------------------------------------------------------------
(* kstm_thread *)

Source == IF dir = "in" THEN free ELSE ready

ThreadSleeps ==
  /\ thread.pc = "loop" /\ ~stop /\ Source.count = 0
  /\ thread' = [thread EXCEPT !.pc = "asleep"]
  /\ UNCHANGED <<dir, free, ready, slot, stop, running, caller, stopper, data, delivered, lost>>

ThreadExits ==
  /\ thread.pc = "loop" /\ stop
  /\ thread' = [pc |-> "none", slot |-> NoSlot]
  /\ UNCHANGED <<dir, free, ready, slot, stop, running, caller, stopper, data, delivered, lost>>

ThreadTakes ==
  /\ thread.pc = "loop" /\ ~stop /\ Source.count > 0
  /\ thread' = [pc |-> "submit", slot |-> First(Source)]
  /\ IF dir = "in" THEN free' = kstm_pop(free) /\ UNCHANGED ready
                   ELSE ready' = kstm_pop(ready) /\ UNCHANGED free
  /\ UNCHANGED <<dir, slot, stop, running, caller, stopper, data, delivered, lost>>

\* lk_submit succeeds: the device fills the buffer or takes what is in it.
ThreadSubmits ==
  /\ thread.pc = "submit"
  /\ IF dir = "in"
     THEN /\ data < MaxData /\ data' = data + 1
          /\ slot' = [slot EXCEPT ![thread.slot] = data + 1]
          /\ UNCHANGED delivered
     ELSE delivered' = Append(delivered, slot[thread.slot]) /\ UNCHANGED <<dir, slot, data>>
  /\ thread' = [thread EXCEPT !.pc = "complete"]
  /\ UNCHANGED <<dir, free, ready, stop, running, caller, stopper, lost>>

\* It fails: the slot is free again, with what an OUT slot held.
ThreadFails ==
  /\ thread.pc = "submit"
  /\ thread' = [thread EXCEPT !.pc = "failed"]
  /\ lost' = IF dir = "out" THEN lost \cup {slot[thread.slot]} ELSE lost
  /\ UNCHANGED <<dir, free, ready, slot, stop, running, caller, stopper, data, delivered>>

ThreadPuts ==
  /\ thread.pc \in {"complete", "failed"}
  /\ IF dir = "in" /\ thread.pc = "complete"
     THEN ready' = kstm_push(ready, thread.slot) /\ UNCHANGED free
     ELSE free' = kstm_push(free, thread.slot) /\ UNCHANGED ready
  /\ Broadcast("thread")
  /\ thread' = [pc |-> "loop", slot |-> NoSlot]
  /\ UNCHANGED <<dir, slot, stop, running, stopper, data, delivered, lost>>

---------------------------------------------------------------------------
(* StmK_Read (in) and StmK_Write (out). *)

Sink == IF dir = "in" THEN ready ELSE free

Call(c) ==
  /\ caller[c].pc = "idle"
  /\ running \/ stop
  /\ dir = "out" => data < MaxData
  /\ caller' = [caller EXCEPT ![c].pc = "check"]
  /\ UNCHANGED <<dir, free, ready, slot, stop, running, thread, stopper, data, delivered, lost>>

CallerSleeps(c) ==
  /\ caller[c].pc = "check" /\ Sink.count = 0 /\ ~stop
  /\ caller' = [caller EXCEPT ![c].pc = "asleep"]
  /\ UNCHANGED <<dir, free, ready, slot, stop, running, thread, stopper, data, delivered, lost>>

\* Stopped, and nothing left: the call returns FALSE.
CallerFails(c) ==
  /\ caller[c].pc = "check" /\ Sink.count = 0 /\ stop
  /\ caller' = [caller EXCEPT ![c].pc = "idle"]
  /\ UNCHANGED <<dir, free, ready, slot, stop, running, thread, stopper, data, delivered, lost>>

\* StmK_Read takes a slot, copies it outside the lock and returns it.
StmK_Read_Take(c) ==
  /\ dir = "in" /\ caller[c].pc = "check" /\ ready.count > 0
  /\ caller' = [caller EXCEPT ![c] = [pc |-> "copy", slot |-> First(ready)]]
  /\ ready' = kstm_pop(ready)
  /\ delivered' = Append(delivered, slot[First(ready)])
  /\ UNCHANGED <<dir, free, slot, stop, running, thread, stopper, data, lost>>

StmK_Read_Return(c) ==
  /\ caller[c].pc = "copy"
  /\ free' = kstm_push(free, caller[c].slot)
  /\ caller' = [d \in Callers |-> IF d = c THEN [pc |-> "idle", slot |-> NoSlot]
                  ELSE IF caller[d].pc = "asleep" THEN [caller[d] EXCEPT !.pc = "check"] ELSE caller[d]]
  /\ thread' = ThreadWoken
  /\ UNCHANGED <<dir, ready, slot, stop, running, stopper, data, delivered, lost>>

\* StmK_Write copies under the lock.
StmK_Write_Put(c) ==
  /\ dir = "out" /\ caller[c].pc = "check" /\ free.count > 0 /\ data < MaxData
  /\ data' = data + 1
  /\ slot' = [slot EXCEPT ![First(free)] = data + 1]
  /\ free' = kstm_pop(free)
  /\ ready' = kstm_push(ready, First(free))
  /\ caller' = [d \in Callers |-> IF d = c THEN [pc |-> "idle", slot |-> NoSlot]
                  ELSE IF caller[d].pc = "asleep" THEN [caller[d] EXCEPT !.pc = "check"] ELSE caller[d]]
  /\ thread' = ThreadWoken
  /\ UNCHANGED <<dir, stop, running, stopper, delivered, lost>>

---------------------------------------------------------------------------
StreamNext ==
  \/ StmK_Start \/ StmK_Stop \/ StmK_Stopped
  \/ ThreadSleeps \/ ThreadExits \/ ThreadTakes \/ ThreadSubmits \/ ThreadFails \/ ThreadPuts
  \/ \E c \in Callers : \/ Call(c) \/ CallerSleeps(c) \/ CallerFails(c)
                        \/ StmK_Read_Take(c) \/ StmK_Read_Return(c) \/ StmK_Write_Put(c)

InRing(r) == {r.q[(r.head + i) % n_slots] : i \in 0..(r.count - 1)}
InHand == ({thread.slot} \cup {caller[c].slot : c \in Callers}) \ {NoSlot}

SlotsAreSound ==
  /\ free.count + ready.count + Cardinality(InHand) = n_slots
  /\ InRing(free) \cup InRing(ready) \cup InHand = Slots
  /\ \A i, j \in DOMAIN delivered : i < j => delivered[i] < delivered[j]
  /\ dir = "out" => \A n \in 1..data : n \in lost \/ (\E i \in DOMAIN delivered : delivered[i] = n)
                      \/ (\E s \in InRing(ready) \cup InHand : slot[s] = n)
  /\ dir = "in" /\ Cardinality(Callers) = 1 => delivered = [i \in 1..Len(delivered) |-> i]

StreamWakes ==
  /\ \A c \in Callers : caller[c].pc = "asleep" => Sink.count = 0 /\ ~stop
  /\ thread.pc = "asleep" => Source.count = 0 /\ ~stop

\* Every slot is in exactly one place, the free ring, the ready ring or the
\* hands of one thread, also after errors and restarts, so a buffer is never
\* filled while it is being read; and the transfers come out in the order they
\* went in, none twice and none missing but the OUT ones whose submit failed.
\* Nobody sleeps on what is there: a caller waits only while its ring is empty
\* and the stream runs, the thread only while its own is.
StreamIsSound == SlotsAreSound /\ StreamWakes
=============================================================================
