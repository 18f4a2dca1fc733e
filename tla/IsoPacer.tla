------------------------------ MODULE IsoPacer ------------------------------
(***************************************************************************)
(* Isochronous pacing on one connection (src/src/usbip_device.c).  USB/IP  *)
(* has no frame clock: the serve thread gives each isochronous URB a       *)
(* deadline on its endpoint's clock and queues the completion, and the     *)
(* pacer thread sends it when it is due.  The queue is a list with the     *)
(* newest entry first, guarded by pace_lock; the pacer gives the lock up   *)
(* while it waits on pace_cond and while it sends.                         *)
(***************************************************************************)
EXTENDS Integers, Sequences, FiniteSets

CONSTANTS
  Eps,           \* isochronous endpoints
  Frame,         \* service interval of each endpoint, in clock ticks (frame_us)
  Packets,       \* number_of_packets values
  MaxSeq,        \* bound: isochronous URBs on the connection
  MaxTime,       \* bound: clock ticks, deadlines included
  MaySendNow,    \* whether completions may go out unpaced (no memory for the copy)
  Unlinks        \* whether the host unlinks URBs

ASSUME PacerAssumption ==
  /\ Frame \in [Eps -> Nat \ {0}]
  /\ Packets \subseteq Nat \ {0}
  /\ MaxSeq \in Nat
  /\ MaxTime \in Nat
  /\ MaySendNow \in BOOLEAN
  /\ Unlinks \in BOOLEAN

VARIABLES
  now,           \* usbip_mono_us
  clock,         \* ep->iso_deadline_us
  pace_list,     \* pace_head ..., newest first
  pace_started,
  pace_stop,
  pacer,         \* "none", "scan" (holds or wants the lock), "wait", "timed", "send", "exited"
  wake,          \* deadline of the timed wait
  entry,         \* the completion the pacer took and sends (0 or 1 entries)
  serve,         \* the serve thread: "read", "queue", "unlink", "stop", "join", "closed"
  work,          \* the URB it works on: its entry, or the seqnum to unlink
  submitted,     \* seqnum of the last URB
  taken,         \* per URB: endpoint, when it arrived and how long its packets last (history)
  replies        \* every reply: URB, RET_SUBMIT (paced or at once) or RET_UNLINK (history)

pacevars == <<pace_list, pace_started, pace_stop>>
pacervars == <<pacer, wake, entry>>
vars == <<now, clock, pacevars, pacervars, serve, work, submitted, taken, replies>>

Entries == [seq : 1..MaxSeq, ep : Eps, deadline : 0..MaxTime]

TypeOK ==
  /\ now \in 0..MaxTime
  /\ clock \in [Eps -> 0..MaxTime]
  /\ pace_list \in Seq(Entries)
  /\ pace_started \in BOOLEAN
  /\ pace_stop \in BOOLEAN
  /\ pacer \in {"none", "scan", "wait", "timed", "send", "exited"}
  /\ wake \in 0..MaxTime
  /\ entry \in Seq(Entries)
  /\ serve \in {"read", "queue", "unlink", "stop", "join", "closed"}
  /\ work \in Seq(Entries)
  /\ submitted \in 0..MaxSeq
  /\ taken \in Seq([ep : Eps, at : 0..MaxTime, length : 1..MaxTime])
  /\ replies \in Seq([seq : 1..MaxSeq, kind : {"submit", "now", "unlink"}])

Init ==
  /\ now = 0
  /\ clock = [e \in Eps |-> 0]
  /\ pace_list = <<>>
  /\ pace_started = FALSE
  /\ pace_stop = FALSE
  /\ pacer = "none"
  /\ wake = 0
  /\ entry = <<>>
  /\ serve = "read"
  /\ work = <<>>
  /\ submitted = 0
  /\ taken = <<>>
  /\ replies = <<>>

Send(seq, kind) ==
  replies' = Append(replies, [seq |-> seq, kind |-> kind])

Tick ==
  /\ now < MaxTime
  /\ now' = now + 1
  /\ UNCHANGED <<clock, pacevars, pacervars, serve, work, submitted, taken, replies>>

-----------------------------------------------------------------------------
(* The serve thread                                                        *)

Later(s, t) == IF s < t THEN t ELSE s

\* Fault: the schedule restarts with every URB.
iso_deadline_NoClock(e, npkts) == now + Frame[e] * npkts

\* The deadline of a URB: the endpoint's clock, or now after a gap, plus its packets.
iso_deadline(e, npkts) == Later(clock[e], now) + Frame[e] * npkts

\* An isochronous URB arrives; its packets are filled or consumed, its deadline is set.
Dispatch_Iso(e, npkts) ==
  /\ serve = "read"
  /\ submitted < MaxSeq
  /\ iso_deadline(e, npkts) <= MaxTime
  /\ submitted' = submitted + 1
  /\ clock' = [clock EXCEPT ![e] = iso_deadline(e, npkts)]
  /\ work' = <<[seq |-> submitted + 1, ep |-> e, deadline |-> iso_deadline(e, npkts)]>>
  /\ taken' = Append(taken, [ep |-> e, at |-> now, length |-> Frame[e] * npkts])
  /\ serve' = "queue"
  /\ UNCHANGED <<now, pacevars, pacervars, replies>>

\* Fault: a timed wait is left to run out.
Signalled_Untimed == IF pacer = "wait" THEN "scan" ELSE pacer

\* Fault: nobody wakes the pacer.
Signalled_Never == pacer

\* pthread_cond_signal: the pacer wakes if it waits; otherwise the signal is lost.
Signalled == IF pacer \in {"wait", "timed"} THEN "scan" ELSE pacer

Pushed == work \o pace_list

\* pace_submit, with pacer_init on the first paced URB.
PaceSubmit ==
  /\ serve = "queue"
  /\ pace_started' = TRUE
  /\ pace_list' = Pushed
  /\ pacer' = IF pace_started THEN Signalled ELSE "scan"
  /\ work' = <<>>
  /\ serve' = "read"
  /\ UNCHANGED <<now, clock, pace_stop, wake, entry, submitted, taken, replies>>

\* pace_submit without memory for the copy: the completion goes out at once.
PaceSubmit_Now ==
  /\ MaySendNow
  /\ serve = "queue"
  /\ Send(work[1].seq, "now")
  /\ pacer' = IF pace_started THEN pacer ELSE "scan"
  /\ pace_started' = TRUE
  /\ work' = <<>>
  /\ serve' = "read"
  /\ UNCHANGED <<now, clock, pace_list, pace_stop, wake, entry, submitted, taken>>

Unlinked(seq) ==
  \/ \E i \in DOMAIN replies : replies[i].kind = "unlink" /\ replies[i].seq = seq
  \/ serve = "unlink" /\ work[1].seq = seq

\* What is left of the list when only the positions in `kept` stay linked (one list).
Keeping(list, kept) ==
  LET n == Cardinality(kept)
      increasing == {f \in [1..n -> kept] : \A i, j \in 1..n : i < j => f[i] < f[j]}
  IN {[k \in 1..n |-> list[f[k]]] : f \in increasing}

\* usbip_device_handle_unlink on the paced completions.  The pacer is not told.
Unlink(seq) ==
  /\ Unlinks
  /\ serve = "read"
  /\ seq \in 1..submitted
  /\ ~Unlinked(seq)
  /\ pace_list' \in
       IF pace_started
         THEN Keeping(pace_list, {i \in DOMAIN pace_list : pace_list[i].seq # seq})
         ELSE {pace_list}
  /\ work' = <<[seq |-> seq, ep |-> taken[seq].ep, deadline |-> now]>>
  /\ serve' = "unlink"
  /\ UNCHANGED <<now, clock, pace_started, pace_stop, pacervars, submitted, taken, replies>>

Unlink_Reply ==
  /\ serve = "unlink"
  /\ Send(work[1].seq, "unlink")
  /\ work' = <<>>
  /\ serve' = "read"
  /\ UNCHANGED <<now, clock, pacevars, pacervars, submitted, taken>>

\* The host is gone: serve_conn leaves its loop.
HostGone ==
  /\ serve = "read"
  /\ serve' = "stop"
  /\ UNCHANGED <<now, clock, pacevars, pacervars, work, submitted, taken, replies>>

StopSignal == pacer' = Signalled

\* usbip_device_pacer_stop
PacerStop ==
  /\ serve = "stop"
  /\ IF pace_started
       THEN /\ pace_stop' = TRUE
            /\ StopSignal
            /\ serve' = "join"
       ELSE /\ serve' = "closed"
            /\ UNCHANGED <<pace_stop, pacer>>
  /\ UNCHANGED <<now, clock, pace_list, pace_started, wake, entry, work, submitted, taken,
                 replies>>

\* Fault: the connection is torn down without waiting for the pacer.
Joinable_Now == TRUE

Joinable == pacer = "exited"

PacerStop_Join ==
  /\ serve = "join"
  /\ Joinable
  /\ serve' = "closed"
  /\ pace_started' = FALSE
  /\ UNCHANGED <<now, clock, pace_list, pace_stop, pacervars, work, submitted, taken, replies>>

-----------------------------------------------------------------------------
(* The pacer thread                                                        *)

\* The first entry of the list with the earliest deadline.
Earliest ==
  {i \in DOMAIN pace_list :
     \A j \in DOMAIN pace_list :
       /\ pace_list[i].deadline <= pace_list[j].deadline
       /\ j < i => pace_list[i].deadline < pace_list[j].deadline}

\* Nothing queued: wait for work, or end.
Pacer_Empty ==
  /\ pacer = "scan"
  /\ pace_list = <<>>
  /\ pacer' = IF pace_stop THEN "exited" ELSE "wait"
  /\ UNCHANGED <<now, clock, pacevars, wake, entry, serve, work, submitted, taken, replies>>

\* The earliest completion is not due yet: wait until it is.
Pacer_Sleep ==
  /\ pacer = "scan"
  /\ ~pace_stop
  /\ \E i \in Earliest :
       /\ pace_list[i].deadline > now
       /\ wake' = pace_list[i].deadline
  /\ pacer' = "timed"
  /\ UNCHANGED <<now, clock, pacevars, entry, serve, work, submitted, taken, replies>>

\* Due, or draining: take it off the list and give up the lock.
Pacer_Take ==
  /\ pacer = "scan"
  /\ \E i \in Earliest :
       /\ pace_stop \/ pace_list[i].deadline <= now
       /\ entry' = <<pace_list[i]>>
       /\ pace_list' \in Keeping(pace_list, DOMAIN pace_list \ {i})
  /\ pacer' = "send"
  /\ UNCHANGED <<now, clock, pace_started, pace_stop, wake, serve, work, submitted, taken,
                 replies>>

Pacer_Send ==
  /\ pacer = "send"
  /\ Send(entry[1].seq, "submit")
  /\ entry' = <<>>
  /\ pacer' = "scan"
  /\ UNCHANGED <<now, clock, pacevars, wake, serve, work, submitted, taken>>

\* The timed wait runs out.
Pacer_Wake ==
  /\ pacer = "timed"
  /\ now >= wake
  /\ pacer' = "scan"
  /\ UNCHANGED <<now, clock, pacevars, wake, entry, serve, work, submitted, taken, replies>>

\* A wait may also end for no reason.
Pacer_Spurious ==
  /\ pacer \in {"wait", "timed"}
  /\ pacer' = "scan"
  /\ UNCHANGED <<now, clock, pacevars, wake, entry, serve, work, submitted, taken, replies>>

-----------------------------------------------------------------------------

ServeStep == PaceSubmit \/ PaceSubmit_Now \/ Unlink_Reply \/ PacerStop \/ PacerStop_Join
PacerStep == Pacer_Empty \/ Pacer_Sleep \/ Pacer_Take \/ Pacer_Send \/ Pacer_Wake

\* Both threads ended and no time is left: nothing more happens.
Done ==
  /\ serve = "closed"
  /\ pacer \in {"none", "exited"}
  /\ UNCHANGED vars

Next ==
  \/ Tick
  \/ \E e \in Eps, n \in Packets : Dispatch_Iso(e, n)
  \/ \E s \in 1..MaxSeq : Unlink(s)
  \/ HostGone
  \/ ServeStep
  \/ PacerStep
  \/ Pacer_Spurious
  \/ Done

Spec == Init /\ [][Next]_vars

\* Time passes, and a thread with work keeps running.  Spurious wake-ups and the host
\* owe nothing.
Fairness == WF_vars(Tick) /\ WF_vars(ServeStep) /\ WF_vars(PacerStep)

FairSpec == Spec /\ Fairness

-----------------------------------------------------------------------------
(* Properties                                                              *)

IsRet(r) == r.kind # "unlink"
IsPaced(r) == r.kind = "submit"
Answered(seq) == \E i \in DOMAIN replies : IsRet(replies[i]) /\ replies[i].seq = seq
InList(list, seq) == \E i \in DOMAIN list : list[i].seq = seq

\* Sum of the lengths of the URBs of endpoint e numbered from..to.
Span[p \in Eps \X (1..MaxSeq) \X (0..MaxSeq)] ==
  IF p[3] < p[2] THEN 0
  ELSE Span[<<p[1], p[2], p[3] - 1>>]
       + (IF taken[p[3]].ep = p[1] THEN taken[p[3]].length ELSE 0)

SendsInRealTime ==
  /\ replies' # replies
  /\ IsPaced(replies'[Len(replies')])
  /\ ~pace_stop
  => LET last == replies'[Len(replies')].seq
     IN \A first \in 1..last :
          taken[first].ep = taken[last].ep
            => now >= taken[first].at + Span[<<taken[last].ep, first, last>>]
RealTime == [][SendsInRealTime]_vars

InOrder ==
  \A i, j \in DOMAIN replies :
    /\ IsPaced(replies[i])
    /\ IsPaced(replies[j])
    /\ taken[replies[i].seq].ep = taken[replies[j].seq].ep
    /\ replies[i].seq < replies[j].seq
    => i < j

Accounted ==
  \A s \in 1..submitted :
    LET places == {serve = "queue" /\ InList(work, s), InList(pace_list, s),
                   InList(entry, s), Answered(s)}
    IN /\ Unlinked(s) \/ TRUE \in places
       /\ ~(InList(pace_list, s) /\ InList(entry, s))
       /\ ~(Answered(s) /\ (InList(pace_list, s) \/ InList(entry, s)))

\* The paced completions are exact.  Those of one endpoint leave in the order of its URBs,
\* although the list is last-in first-out and is drained without its deadlines when the
\* host has gone.  Every URB is in exactly one place (with the serve thread, queued, with
\* the pacer, answered or unlinked), and none is answered twice.  And while the connection
\* stands, the pacer never sends a completion before the packets of all the URBs its
\* endpoint got since any earlier moment could have been on the bus ("the host's engine
\* free-runs" otherwise).
CompletionsAreExact == [](InOrder /\ Accounted) /\ RealTime

\* The pacer never sleeps past a deadline: an untimed wait means an empty list, a timed
\* one ends no later than the earliest completion in it, whatever was queued or unlinked
\* while it slept.
NeverOversleeps ==
  /\ pacer = "wait" => pace_list = <<>> /\ ~pace_stop
  /\ pacer = "timed" =>
       ~pace_stop /\ \A i \in DOMAIN pace_list : wake <= pace_list[i].deadline

\* Once serve_conn is past usbip_device_pacer_stop, where it destroys the connection, the
\* pacer has ended and nothing is queued.
TeardownIsQuiet ==
  serve = "closed" => pacer \in {"none", "exited"} /\ pace_list = <<>> /\ entry = <<>>

\* Everything comes to an end: every URB is completed or unlinked, also when the host
\* goes away, and then its connection is closed, because the join of the pacer returns.
AllCompleted ==
  /\ \A s \in 1..MaxSeq : (s <= submitted) ~> (Answered(s) \/ Unlinked(s))
  /\ (serve = "stop") ~> (serve = "closed")
=============================================================================
