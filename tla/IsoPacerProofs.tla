--------------------------- MODULE IsoPacerProofs ---------------------------
(***************************************************************************)
(* Theorems about IsoPacer, for any endpoints, service intervals and       *)
(* bounds.                                                                 *)
(***************************************************************************)
EXTENDS IsoPacer, FiniteSetTheorems, SequenceTheorems, WellFoundedInduction, TLAPS

\* The serve thread has a URB in hand exactly where it needs one, the pacer has a
\* completion in hand only while it sends, and every URB is on record.
HandInv ==
  /\ serve \in {"queue", "unlink"} => Len(work) = 1
  /\ IF pacer = "send" THEN Len(entry) = 1 ELSE entry = <<>>
  /\ Len(taken) = submitted

\* Where the two threads can be relative to each other over the life of the connection.
LifeInv ==
  /\ pace_stop => serve \in {"join", "closed"}
  /\ serve = "join" => pace_stop /\ pace_started
  /\ pacer = "exited" => pace_stop /\ pace_list = <<>>
  /\ pacer = "none" => ~pace_started /\ pace_list = <<>>
  /\ ~pace_started => pacer = "none" \/ serve = "closed"
  /\ serve = "closed" => pacer \in {"none", "exited"}

Inv == TypeOK /\ HandInv /\ LifeInv /\ NeverOversleeps

-----------------------------------------------------------------------------

\* Taking completions out of the list leaves some of those that were there.
LEMMA KeepingSome ==
  ASSUME NEW S, NEW list \in Seq(S), NEW kept \in SUBSET (DOMAIN list),
         NEW r \in Keeping(list, kept)
  PROVE  /\ r \in Seq(S)
         /\ \A k \in DOMAIN r : \E i \in DOMAIN list : r[k] = list[i]
         /\ list = <<>> => r = <<>>
<1> DEFINE n == Cardinality(kept)
<1>1. IsFiniteSet(DOMAIN list)
  <2>1. DOMAIN list = 1..Len(list) /\ Len(list) \in Nat
    OBVIOUS
  <2> QED BY <2>1, FS_Interval
<1>2. n \in Nat
  BY <1>1, FS_Subset, FS_CardinalityType
<1>3. PICK f \in [1..n -> kept] : r = [k \in 1..n |-> list[f[k]]]
  BY DEF Keeping
<1>4. list = <<>> => n = 0
  <2>1. list = <<>> => kept = {}
    OBVIOUS
  <2> QED BY <2>1, FS_EmptySet
<1> HIDE DEF n
<1>5. DOMAIN r = 1..n /\ \A k \in 1..n : f[k] \in DOMAIN list /\ r[k] = list[f[k]]
  BY <1>3
<1>6. \A k \in 1..n : r[k] \in S
  BY <1>5
<1>7. r \in Seq(S)
  BY <1>2, <1>3, <1>6
<1>8. list = <<>> => r = <<>>
  BY <1>4, <1>5, <1>7, EmptySeq
<1> QED BY <1>5, <1>7, <1>8

LEMMA InitInv == Init => Inv
<1> SUFFICES ASSUME Init
             PROVE  Inv
  OBVIOUS
<1> USE PacerAssumption
<1>1. TypeOK
  <2>1. /\ now \in 0..MaxTime /\ wake \in 0..MaxTime /\ submitted \in 0..MaxSeq
        /\ clock \in [Eps -> 0..MaxTime]
    BY DEF Init
  <2>2. /\ pace_list \in Seq(Entries) /\ entry \in Seq(Entries) /\ work \in Seq(Entries)
        /\ taken \in Seq([ep : Eps, at : 0..MaxTime, length : 1..MaxTime])
        /\ replies \in Seq([seq : 1..MaxSeq, kind : {"submit", "now", "unlink"}])
    BY DEF Init
  <2>3. /\ pace_started \in BOOLEAN /\ pace_stop \in BOOLEAN
        /\ pacer \in {"none", "scan", "wait", "timed", "send", "exited"}
        /\ serve \in {"read", "queue", "unlink", "stop", "join", "closed"}
    BY DEF Init
  <2> QED BY <2>1, <2>2, <2>3 DEF TypeOK
<1>2. HandInv /\ LifeInv /\ NeverOversleeps
  BY DEF Init, HandInv, LifeInv, NeverOversleeps
<1> QED BY <1>1, <1>2 DEF Inv

\* Durations are positive.
LEMMA DurationPositive ==
  ASSUME NEW e \in Eps, NEW n \in Packets
  PROVE  Frame[e] * n \in Nat /\ Frame[e] * n >= 1
<1>1. Frame[e] \in Nat \ {0} /\ n \in Nat \ {0}
  BY PacerAssumption
<1>2. \A a, b \in Nat \ {0} : a * b \in Nat /\ a * b >= 1
  BY Z3
<1> QED BY <1>1, <1>2

-----------------------------------------------------------------------------
(* The serve thread                                                        *)

LEMMA DispatchStep ==
  ASSUME Inv, NEW e \in Eps, NEW n \in Packets, Dispatch_Iso(e, n)
  PROVE  Inv'
<1> USE DEF Inv
<1> DEFINE D == iso_deadline(e, n)
           urb == [seq |-> submitted + 1, ep |-> e, deadline |-> D]
           rec == [ep |-> e, at |-> now, length |-> Frame[e] * n]
<1>1. /\ serve = "read" /\ submitted < MaxSeq /\ D <= MaxTime
      /\ submitted' = submitted + 1 /\ clock' = [clock EXCEPT ![e] = D]
      /\ work' = <<urb>> /\ taken' = Append(taken, rec) /\ serve' = "queue"
      /\ UNCHANGED <<now, pace_list, pace_started, pace_stop, pacer, wake, entry, replies>>
  BY DEF Dispatch_Iso, pacevars, pacervars
<1>2. D \in 0..MaxTime /\ Frame[e] * n \in 1..MaxTime
  <2>1. Frame[e] * n \in Nat /\ Frame[e] * n >= 1
    BY DurationPositive
  <2>2. Later(clock[e], now) \in Nat
    BY DEF Later, TypeOK
  <2>3. D = Later(clock[e], now) + Frame[e] * n
    BY DEF iso_deadline
  <2> HIDE DEF D
  <2> QED BY <2>1, <2>2, <2>3, <1>1, PacerAssumption
<1> HIDE DEF D
<1>3. urb \in Entries /\ rec \in [ep : Eps, at : 0..MaxTime, length : 1..MaxTime]
  BY <1>1, <1>2, PacerAssumption DEF Entries, TypeOK
<1> HIDE DEF urb, rec
<1>4. TypeOK'
  <2>1. work' \in Seq(Entries)
    BY <1>1, <1>3
  <2>2. taken' \in Seq([ep : Eps, at : 0..MaxTime, length : 1..MaxTime])
    BY <1>1, <1>3 DEF TypeOK
  <2>3. clock' \in [Eps -> 0..MaxTime] /\ submitted' \in 0..MaxSeq
    BY <1>1, <1>2, PacerAssumption DEF TypeOK
  <2> QED BY <1>1, <2>1, <2>2, <2>3 DEF TypeOK
<1>5. HandInv'
  <2>1. Len(work') = 1
    BY <1>1
  <2>2. Len(taken') = submitted'
    BY <1>1, <1>3 DEF HandInv, TypeOK
  <2> QED BY <1>1, <2>1, <2>2 DEF HandInv
<1>6. LifeInv' /\ NeverOversleeps'
  BY <1>1 DEF LifeInv, NeverOversleeps
<1> QED BY <1>4, <1>5, <1>6

LEMMA SubmitStep ==
  ASSUME Inv, PaceSubmit
  PROVE  Inv'
<1> USE DEF Inv
<1>1. /\ serve = "queue" /\ pace_started' = TRUE /\ pace_list' = work \o pace_list
      /\ pacer' = (IF pace_started THEN Signalled ELSE "scan") /\ work' = <<>>
      /\ serve' = "read"
      /\ UNCHANGED <<now, clock, pace_stop, wake, entry, submitted, taken, replies>>
  BY DEF PaceSubmit, Pushed
<1>2. ~pace_stop
  BY <1>1 DEF LifeInv
<1>3. pacer' \in {"scan", "send"} /\ (pacer' = "send" <=> pacer = "send")
  BY <1>1, <1>2 DEF LifeInv, Signalled, TypeOK
<1>4. TypeOK'
  BY <1>1, <1>3 DEF TypeOK
<1>5. HandInv' /\ LifeInv' /\ NeverOversleeps'
  BY <1>1, <1>2, <1>3 DEF HandInv, LifeInv, NeverOversleeps
<1> QED BY <1>4, <1>5

\* A reply with the seqnum of a URB in hand has its type.
LEMMA SendType ==
  ASSUME TypeOK, NEW list \in Seq(Entries), Len(list) = 1, NEW kind \in {"submit", "now", "unlink"},
         Send(list[1].seq, kind)
  PROVE  replies' \in Seq([seq : 1..MaxSeq, kind : {"submit", "now", "unlink"}])
<1>1. list[1] \in Entries
  OBVIOUS
<1>2. list[1].seq \in 1..MaxSeq
  BY <1>1 DEF Entries
<1> QED BY <1>2 DEF Send, TypeOK

LEMMA SubmitNowStep ==
  ASSUME Inv, PaceSubmit_Now
  PROVE  Inv'
<1> USE DEF Inv
<1>1. /\ serve = "queue" /\ pace_started' = TRUE /\ pacer' = (IF pace_started THEN pacer ELSE "scan")
      /\ work' = <<>> /\ serve' = "read" /\ Send(work[1].seq, "now")
      /\ UNCHANGED <<now, clock, pace_list, pace_stop, wake, entry, submitted, taken>>
  BY DEF PaceSubmit_Now
<1>2. replies' \in Seq([seq : 1..MaxSeq, kind : {"submit", "now", "unlink"}])
  BY <1>1, SendType DEF HandInv, TypeOK
<1>3. TypeOK'
  BY <1>1, <1>2 DEF TypeOK
<1>4. HandInv' /\ LifeInv' /\ NeverOversleeps'
  BY <1>1 DEF HandInv, LifeInv, NeverOversleeps
<1> QED BY <1>3, <1>4

LEMMA UnlinkStep ==
  ASSUME Inv, NEW s \in 1..MaxSeq, Unlink(s)
  PROVE  Inv'
<1> USE DEF Inv
<1> DEFINE urb == [seq |-> s, ep |-> taken[s].ep, deadline |-> now]
           kept == {i \in DOMAIN pace_list : pace_list[i].seq # s}
<1>1. /\ serve = "read" /\ s \in 1..submitted /\ work' = <<urb>> /\ serve' = "unlink"
      /\ pace_list' \in Keeping(pace_list, kept) \/ pace_list' = pace_list
      /\ UNCHANGED <<now, clock, pace_started, pace_stop, pacer, wake, entry, submitted, taken,
                     replies>>
  BY DEF Unlink, pacervars
<1>2. /\ pace_list' \in Seq(Entries)
      /\ \A k \in DOMAIN pace_list' : \E i \in DOMAIN pace_list : pace_list'[k] = pace_list[i]
      /\ pace_list = <<>> => pace_list' = <<>>
  <2>1. CASE pace_list' \in Keeping(pace_list, kept)
    <3>1. kept \in SUBSET (DOMAIN pace_list) /\ pace_list \in Seq(Entries)
      BY DEF TypeOK
    <3> HIDE DEF kept, Inv
    <3> QED BY <2>1, <3>1, KeepingSome
  <2>2. CASE pace_list' = pace_list
    BY <2>2 DEF TypeOK
  <2> QED BY <1>1, <2>1, <2>2
<1>3. urb \in Entries
  <2> DEFINE Taken == [ep : Eps, at : 0..MaxTime, length : 1..MaxTime]
  <2>1. taken[s] \in Taken
    <3>1. taken \in Seq(Taken) /\ Len(taken) = submitted
      BY DEF HandInv, TypeOK
    <3> HIDE DEF Inv, Taken
    <3>2. s \in DOMAIN taken
      BY <3>1, <1>1
    <3> QED BY <3>1, <3>2
  <2>2. taken[s].ep \in Eps
    BY <2>1
  <2>3. now \in 0..MaxTime
    BY DEF TypeOK
  <2> HIDE DEF Inv
  <2> QED BY <2>2, <2>3 DEF Entries
<1> HIDE DEF urb, kept
<1>4. TypeOK'
  <2>1. work' \in Seq(Entries)
    BY <1>1, <1>3
  <2> QED BY <2>1, <1>1, <1>2 DEF TypeOK
<1>5. HandInv' /\ LifeInv'
  BY <1>1, <1>2 DEF HandInv, LifeInv
<1>6. NeverOversleeps'
  BY <1>1, <1>2 DEF NeverOversleeps
<1> QED BY <1>4, <1>5, <1>6

LEMMA UnlinkReplyStep ==
  ASSUME Inv, Unlink_Reply
  PROVE  Inv'
<1> USE DEF Inv
<1>1. /\ serve = "unlink" /\ work' = <<>> /\ serve' = "read" /\ Send(work[1].seq, "unlink")
      /\ UNCHANGED <<now, clock, pace_list, pace_started, pace_stop, pacer, wake, entry,
                     submitted, taken>>
  BY DEF Unlink_Reply, pacevars, pacervars
<1>2. replies' \in Seq([seq : 1..MaxSeq, kind : {"submit", "now", "unlink"}])
  BY <1>1, SendType DEF HandInv, TypeOK
<1>3. TypeOK'
  BY <1>1, <1>2 DEF TypeOK
<1>4. HandInv' /\ LifeInv' /\ NeverOversleeps'
  BY <1>1 DEF HandInv, LifeInv, NeverOversleeps
<1> QED BY <1>3, <1>4

LEMMA StopStep ==
  ASSUME Inv, HostGone \/ PacerStop \/ PacerStop_Join
  PROVE  Inv'
<1> USE DEF Inv
<1>1. CASE HostGone
  BY <1>1 DEF HostGone, pacevars, pacervars, TypeOK, HandInv, LifeInv, NeverOversleeps
<1>2. CASE PacerStop
  <2>1. TypeOK' /\ HandInv'
    BY <1>2 DEF PacerStop, StopSignal, Signalled, TypeOK, HandInv
  <2>2. LifeInv' /\ NeverOversleeps'
    BY <1>2 DEF PacerStop, StopSignal, Signalled, TypeOK, LifeInv, NeverOversleeps
  <2> QED BY <2>1, <2>2
<1>3. CASE PacerStop_Join
  BY <1>3 DEF PacerStop_Join, Joinable, pacervars, TypeOK, HandInv, LifeInv, NeverOversleeps
<1> QED BY <1>1, <1>2, <1>3

-----------------------------------------------------------------------------
(* The pacer thread                                                        *)

LEMMA EmptyStep ==
  ASSUME Inv, Pacer_Empty
  PROVE  Inv'
BY DEF Inv, Pacer_Empty, pacevars, TypeOK, HandInv, LifeInv, NeverOversleeps

LEMMA SleepStep ==
  ASSUME Inv, Pacer_Sleep
  PROVE  Inv'
<1> USE DEF Inv
<1>1. PICK i \in Earliest : wake' = pace_list[i].deadline
  BY DEF Pacer_Sleep
<1>2. /\ pacer = "scan" /\ ~pace_stop /\ pacer' = "timed"
      /\ UNCHANGED <<now, clock, pace_list, pace_started, pace_stop, entry, serve, work,
                     submitted, taken, replies>>
  BY DEF Pacer_Sleep, pacevars
<1>3. i \in DOMAIN pace_list /\ \A j \in DOMAIN pace_list : wake' <= pace_list[j].deadline
  BY <1>1 DEF Earliest
<1>4. wake' \in 0..MaxTime
  <2>1. pace_list[i] \in Entries
    BY <1>3 DEF TypeOK
  <2> QED BY <2>1, <1>1 DEF Entries
<1>5. TypeOK'
  BY <1>2, <1>4 DEF TypeOK
<1>6. HandInv' /\ LifeInv' /\ NeverOversleeps'
  BY <1>2, <1>3 DEF HandInv, LifeInv, NeverOversleeps
<1> QED BY <1>5, <1>6

LEMMA TakeStep ==
  ASSUME Inv, Pacer_Take
  PROVE  Inv'
<1>1. PICK i \in DOMAIN pace_list :
        entry' = <<pace_list[i]>> /\ pace_list' \in Keeping(pace_list, DOMAIN pace_list \ {i})
  BY DEF Pacer_Take, Earliest
<1>2. /\ pacer = "scan" /\ pacer' = "send"
      /\ UNCHANGED <<now, clock, pace_started, pace_stop, wake, serve, work, submitted, taken,
                     replies>>
  BY DEF Pacer_Take
<1>3. pace_list \in Seq(Entries) /\ TypeOK /\ HandInv /\ LifeInv
  BY DEF Inv, TypeOK
<1>4. pace_list' \in Seq(Entries)
  <2>1. DOMAIN pace_list \ {i} \in SUBSET (DOMAIN pace_list)
    OBVIOUS
  <2> QED BY <2>1, <1>1, <1>3, KeepingSome
<1>5. entry' \in Seq(Entries) /\ Len(entry') = 1
  <2>1. pace_list[i] \in Entries
    BY <1>3
  <2> QED BY <2>1, <1>1
<1>6. TypeOK'
  BY <1>2, <1>3, <1>4, <1>5 DEF TypeOK
<1>7. HandInv' /\ LifeInv' /\ NeverOversleeps'
  BY <1>2, <1>3, <1>5 DEF HandInv, LifeInv, NeverOversleeps
<1> QED BY <1>6, <1>7 DEF Inv

LEMMA SendStep ==
  ASSUME Inv, Pacer_Send
  PROVE  Inv'
<1> USE DEF Inv
<1>1. /\ pacer = "send" /\ pacer' = "scan" /\ entry' = <<>> /\ Send(entry[1].seq, "submit")
      /\ UNCHANGED <<now, clock, pace_list, pace_started, pace_stop, wake, serve, work,
                     submitted, taken>>
  BY DEF Pacer_Send, pacevars
<1>2. replies' \in Seq([seq : 1..MaxSeq, kind : {"submit", "now", "unlink"}])
  BY <1>1, SendType DEF HandInv, TypeOK
<1>3. TypeOK'
  BY <1>1, <1>2 DEF TypeOK
<1>4. HandInv' /\ LifeInv' /\ NeverOversleeps'
  BY <1>1 DEF HandInv, LifeInv, NeverOversleeps
<1> QED BY <1>3, <1>4

LEMMA WakeStep ==
  ASSUME Inv, Tick \/ Pacer_Wake \/ Pacer_Spurious
  PROVE  Inv'
<1> USE DEF Inv
<1>1. CASE Tick
  BY <1>1, PacerAssumption DEF Tick, pacevars, pacervars, TypeOK, HandInv, LifeInv, NeverOversleeps
<1>2. CASE Pacer_Wake
  BY <1>2 DEF Pacer_Wake, pacevars, TypeOK, HandInv, LifeInv, NeverOversleeps
<1>3. CASE Pacer_Spurious
  BY <1>3 DEF Pacer_Spurious, pacevars, TypeOK, HandInv, LifeInv, NeverOversleeps
<1> QED BY <1>1, <1>2, <1>3

LEMMA StutterStep ==
  ASSUME Inv, UNCHANGED vars
  PROVE  Inv'
BY DEF Inv, vars, pacevars, pacervars, TypeOK, HandInv, LifeInv, NeverOversleeps

LEMMA NextInv == Inv /\ [Next]_vars => Inv'
<1> SUFFICES ASSUME Inv, [Next]_vars
             PROVE  Inv'
  OBVIOUS
<1>1. CASE ServeStep
  BY <1>1, SubmitStep, SubmitNowStep, UnlinkReplyStep, StopStep DEF ServeStep
<1>2. CASE PacerStep
  BY <1>2, EmptyStep, SleepStep, TakeStep, SendStep, WakeStep DEF PacerStep
<1>3. CASE \E e \in Eps, n \in Packets : Dispatch_Iso(e, n)
  BY <1>3, DispatchStep
<1>4. CASE \E s \in 1..MaxSeq : Unlink(s)
  BY <1>4, UnlinkStep
<1>5. CASE Tick \/ Pacer_Spurious
  BY <1>5, WakeStep
<1>6. CASE HostGone
  BY <1>6, StopStep
<1>7. CASE Done \/ UNCHANGED vars
  BY <1>7, StutterStep DEF Done
<1> QED BY <1>1, <1>2, <1>3, <1>4, <1>5, <1>6, <1>7 DEF Next

-----------------------------------------------------------------------------
(* The theorems                                                            *)

LEMMA InvHolds == Spec => []Inv
<1>1. Init => Inv
  BY InitInv
<1>2. Inv /\ [Next]_vars => Inv'
  BY NextInv
<1> QED BY <1>1, <1>2, PTL DEF Spec

\* The pacing state keeps its types: deadlines stay on the clock, every queued or
\* answered completion is one of a URB that was submitted.
THEOREM TypeCorrect == Spec => []TypeOK
<1>1. Inv => TypeOK
  BY DEF Inv
<1> QED BY <1>1, InvHolds, PTL

\* pacer_loop never sleeps past a deadline, for any number of endpoints and URBs: each
\* change of the list either signals pace_cond or only takes completions away.
THEOREM NeverOversleepsHolds == Spec => []NeverOversleeps
<1>1. Inv => NeverOversleeps
  BY DEF Inv
<1> QED BY <1>1, InvHolds, PTL

\* serve_conn destroys the connection only when the pacer has ended, with nothing
\* queued and nothing in its hands.
THEOREM TeardownIsQuietHolds == Spec => []TeardownIsQuiet
<1>1. Inv => TeardownIsQuiet
  BY DEF Inv, HandInv, LifeInv, TeardownIsQuiet
<1> QED BY <1>1, InvHolds, PTL
-----------------------------------------------------------------------------
(* Where every URB is, and when it may go                                  *)

\* A completion that is still to be sent: queued, with the pacer, or with the serve
\* thread on its way into the queue.
InQueue(x) == \E i \in DOMAIN pace_list : pace_list[i] = x
InHand(x) == pacer = "send" /\ entry[1] = x
InWork(x) == serve = "queue" /\ work[1] = x
Live(x) == InQueue(x) \/ InHand(x) \/ InWork(x)

\* The deadline d leaves time for all the URBs of endpoint e from any one up to s.
Enough(d, e, s) ==
  \A first \in 1..s :
    taken[first].ep = e => taken[first].at + Span[<<e, first, s>>] <= d

\* The endpoint's clock is its schedule so far.
ClockInv == \A e \in Eps : Enough(clock[e], e, submitted)

\* A live completion is one of a URB that was taken and not answered, its deadline is on
\* the endpoint's schedule, and no later URB of its endpoint went out before it.
LiveInv ==
  \A x \in Entries : Live(x) =>
    /\ x.seq \in 1..submitted
    /\ taken[x.seq].ep = x.ep
    /\ x.deadline <= clock[x.ep]
    /\ Enough(x.deadline, x.ep, x.seq)
    /\ ~Answered(x.seq)
    /\ \A k \in DOMAIN replies :
         IsPaced(replies[k]) /\ taken[replies[k].seq].ep = x.ep => replies[k].seq < x.seq

\* Deadlines grow with the URBs of an endpoint, the pacer holds the first of them, and
\* the serve thread the last.
OrderInv ==
  \A x, y \in Entries :
    /\ Live(x) /\ Live(y) /\ x.ep = y.ep /\ x.seq < y.seq => x.deadline < y.deadline
    /\ InHand(x) /\ (InQueue(y) \/ InWork(y)) /\ x.ep = y.ep => x.seq < y.seq
    /\ InWork(y) /\ (InQueue(x) \/ InHand(x)) => x.seq < y.seq
    /\ InHand(x) /\ InQueue(y) => x.seq # y.seq

DistinctInv == \A i, j \in DOMAIN pace_list : pace_list[i].seq = pace_list[j].seq => i = j

\* No URB is lost.
PlaceInv ==
  \A s \in 1..submitted : Unlinked(s) \/ Answered(s) \/ \E x \in Entries : Live(x) /\ x.seq = s

\* Only what was submitted is answered, and not before it is due.
ReplyInv ==
  /\ \A k \in DOMAIN replies : replies[k].seq \in 1..submitted
  /\ pacer = "send" /\ ~pace_stop => entry[1].deadline <= now

\* Only what was submitted is unlinked.
UnlinkInv == serve = "unlink" => work[1].seq \in 1..submitted

ExactInv ==
  /\ ClockInv /\ LiveInv /\ OrderInv /\ DistinctInv /\ PlaceInv /\ ReplyInv
  /\ UnlinkInv /\ InOrder

-----------------------------------------------------------------------------
(* Facts about the operators                                               *)

\* Every non-empty set of numbers has a least element.
LEMMA LeastElement ==
  ASSUME NEW T \in SUBSET Nat, T # {}
  PROVE  \E x \in T : \A y \in T : ~(y < x)
<1>1. IsWellFoundedOn(OpToRel(<, Nat), Nat)
  BY NatLessThanWellFounded
<1>2. \E x \in T : \A y \in T : <<y, x>> \notin OpToRel(<, Nat)
  BY <1>1, WFMin
<1> QED BY <1>2 DEF OpToRel

\* The equation of Span for a record tk of URBs, up to URB m.
Spans(m) == Eps \X (1..MaxSeq) \X (0..m)
Part(tk, k, e) == IF tk[k].ep = e THEN tk[k].length ELSE 0
IsSpan(f, tk, m) ==
  f = [p \in Spans(m) |->
        IF p[3] < p[2] THEN 0
        ELSE f[<<p[1], p[2], p[3] - 1>>] + (IF tk[p[3]].ep = p[1] THEN tk[p[3]].length ELSE 0)]

LEMMA SpanExists ==
  ASSUME NEW tk, NEW n \in Nat
  PROVE  \E f : IsSpan(f, tk, n)
<1> DEFINE T == {m \in Nat : ~\E f : IsSpan(f, tk, m)}
<1>1. SUFFICES ASSUME T # {} PROVE FALSE
  OBVIOUS
<1>2. PICK m \in T : \A y \in T : ~(y < m)
  BY <1>1, LeastElement
<1>3. CASE m = 0
  <2> DEFINE h == [p \in Spans(0) |-> 0]
  <2>1. \A p \in Spans(0) : p[3] < p[2]
    BY DEF Spans
  <2>2. IsSpan(h, tk, 0)
    BY <2>1 DEF IsSpan
  <2> QED BY <1>2, <1>3, <2>2
<1>4. CASE m # 0
  <2>1. m - 1 \in Nat /\ m - 1 \notin T /\ m \in Nat
    BY <1>2, <1>4
  <2>2. PICK f : IsSpan(f, tk, m - 1)
    BY <2>1
  <2> DEFINE V(g, p) == IF p[3] < p[2] THEN 0
                        ELSE g[<<p[1], p[2], p[3] - 1>>]
                             + (IF tk[p[3]].ep = p[1] THEN tk[p[3]].length ELSE 0)
             h == [p \in Spans(m) |-> IF p[3] = m THEN V(f, p) ELSE f[p]]
  <2>3. \A p \in Spans(m - 1) : f[p] = V(f, p)
    BY <2>2 DEF IsSpan
  <2>4. \A p \in Spans(m) : h[p] = V(h, p)
    <3> SUFFICES ASSUME NEW p \in Spans(m) PROVE h[p] = V(h, p)
      OBVIOUS
    <3>1. p[1] \in Eps /\ p[2] \in 1..MaxSeq /\ p[3] \in 0..m
      BY DEF Spans
    <3>2. p[3] \in Nat /\ p[2] \in Nat
      BY <3>1, PacerAssumption
    <3>3. ~(p[3] < p[2]) => h[<<p[1], p[2], p[3] - 1>>] = f[<<p[1], p[2], p[3] - 1>>]
      <4> SUFFICES ASSUME ~(p[3] < p[2])
                   PROVE  h[<<p[1], p[2], p[3] - 1>>] = f[<<p[1], p[2], p[3] - 1>>]
        OBVIOUS
      <4>1. p[3] - 1 \in 0..m /\ p[3] - 1 # m
        BY <2>1, <3>1, <3>2
      <4>2. <<p[1], p[2], p[3] - 1>> \in Spans(m)
        BY <3>1, <4>1 DEF Spans
      <4> QED BY <4>1, <4>2
    <3>4. V(h, p) = V(f, p)
      BY <3>3
    <3>5. CASE p[3] = m
      BY <3>4, <3>5
    <3>6. CASE p[3] # m
      <4>1. p[3] \in 0..(m - 1)
        BY <2>1, <3>1, <3>6
      <4>2. p \in Spans(m - 1)
        BY <4>1 DEF Spans
      <4> QED BY <2>3, <3>4, <3>6, <4>2
    <3> QED BY <3>5, <3>6
  <2>5. h = [p \in Spans(m) |-> h[p]]
    OBVIOUS
  <2> HIDE DEF h
  <2>6. IsSpan(h, tk, m)
    BY <2>4, <2>5 DEF IsSpan
  <2> QED BY <1>2, <2>6
<1> QED BY <1>3, <1>4

\* Span is a solution of its equation, before and after every step.
LEMMA SpanIs == IsSpan(Span, taken, MaxSeq) /\ IsSpan(Span', taken', MaxSeq)
<1> DEFINE f == CHOOSE g : IsSpan(g, taken, MaxSeq)
           h == CHOOSE g : IsSpan(g, taken', MaxSeq)
<1>1. IsSpan(f, taken, MaxSeq) /\ IsSpan(h, taken', MaxSeq)
  BY SpanExists, PacerAssumption
<1>2. Span = f
  BY DEF Span, IsSpan, Spans
<1>3. Span' = h
  BY DEF Span, IsSpan, Spans
<1> QED BY <1>1, <1>2, <1>3

LEMMA SpanAt ==
  ASSUME NEW f, NEW tk, IsSpan(f, tk, MaxSeq), NEW e \in Eps, NEW a \in 1..MaxSeq,
         NEW k \in 0..MaxSeq
  PROVE  /\ k < a => f[<<e, a, k>>] = 0
         /\ ~(k < a) => f[<<e, a, k>>] = f[<<e, a, k - 1>>] + Part(tk, k, e)
<1> DEFINE p == <<e, a, k>>
<1>1. p \in Spans(MaxSeq) /\ p[1] = e /\ p[2] = a /\ p[3] = k
  BY DEF Spans
<1> HIDE DEF p
<1>2. f[p] = IF p[3] < p[2] THEN 0
             ELSE f[<<p[1], p[2], p[3] - 1>>] + (IF tk[p[3]].ep = p[1] THEN tk[p[3]].length ELSE 0)
  BY <1>1 DEF IsSpan
<1> QED BY <1>1, <1>2 DEF p, Part

\* The span of URBs that are on record is a number, and stays what it is when another
\* URB is recorded.
LEMMA SpanNat ==
  ASSUME NEW f, NEW tk, IsSpan(f, tk, MaxSeq), NEW m \in 0..MaxSeq,
         \A i \in 1..m : tk[i].length \in Nat,
         NEW e \in Eps, NEW a \in 1..MaxSeq
  PROVE  \A k \in 0..m : f[<<e, a, k>>] \in Nat
<1> DEFINE T == {k \in 0..m : f[<<e, a, k>>] \notin Nat}
<1>1. SUFFICES ASSUME T # {} PROVE FALSE
  OBVIOUS
<1>a. T \in SUBSET Nat
  OBVIOUS
<1>2. PICK k \in T : \A y \in T : ~(y < k)
  BY <1>1, <1>a, LeastElement
<1>3. k \in 0..m /\ k \in 0..MaxSeq /\ f[<<e, a, k>>] \notin Nat
  BY <1>2, PacerAssumption
<1>4. ~(k < a) /\ f[<<e, a, k>>] = f[<<e, a, k - 1>>] + Part(tk, k, e)
  BY <1>3, SpanAt
<1>5. k - 1 \in 0..m /\ k - 1 \notin T /\ k \in 1..m
  BY <1>2, <1>3, <1>4
<1>6. f[<<e, a, k - 1>>] \in Nat
  BY <1>5
<1>7. Part(tk, k, e) \in Nat
  BY <1>5 DEF Part
<1> QED BY <1>3, <1>4, <1>6, <1>7

LEMMA SpanAgrees ==
  ASSUME NEW f, NEW tk, IsSpan(f, tk, MaxSeq), NEW g, NEW tl, IsSpan(g, tl, MaxSeq),
         NEW m \in 0..MaxSeq, \A i \in 1..m : tk[i] = tl[i],
         NEW e \in Eps, NEW a \in 1..MaxSeq
  PROVE  \A k \in 0..m : f[<<e, a, k>>] = g[<<e, a, k>>]
<1> DEFINE T == {k \in 0..m : f[<<e, a, k>>] # g[<<e, a, k>>]}
<1>1. SUFFICES ASSUME T # {} PROVE FALSE
  OBVIOUS
<1>a. T \in SUBSET Nat
  OBVIOUS
<1>2. PICK k \in T : \A y \in T : ~(y < k)
  BY <1>1, <1>a, LeastElement
<1>3. k \in 0..m /\ k \in 0..MaxSeq /\ f[<<e, a, k>>] # g[<<e, a, k>>]
  BY <1>2, PacerAssumption
<1>4. /\ k < a => f[<<e, a, k>>] = 0 /\ g[<<e, a, k>>] = 0
      /\ ~(k < a) => /\ f[<<e, a, k>>] = f[<<e, a, k - 1>>] + Part(tk, k, e)
                     /\ g[<<e, a, k>>] = g[<<e, a, k - 1>>] + Part(tl, k, e)
  BY <1>3, SpanAt
<1>5. ~(k < a)
  BY <1>3, <1>4
<1>6. k - 1 \in 0..m /\ k - 1 \notin T /\ k \in 1..m
  BY <1>2, <1>3, <1>5
<1>7. f[<<e, a, k - 1>>] = g[<<e, a, k - 1>>] /\ Part(tk, k, e) = Part(tl, k, e)
  BY <1>6 DEF Part
<1> QED BY <1>3, <1>4, <1>5, <1>7

\* What is kept of a list is there, once each, and nothing else.
LEMMA KeepingExact ==
  ASSUME NEW S, NEW list \in Seq(S), NEW kept \in SUBSET (DOMAIN list), NEW r \in Keeping(list, kept)
  PROVE  /\ r \in Seq(S)
         /\ \E f \in [DOMAIN r -> kept] :
              /\ \A k \in DOMAIN r : r[k] = list[f[k]]
              /\ \A i, j \in DOMAIN r : f[i] = f[j] => i = j
              /\ \A p \in kept : \E k \in DOMAIN r : f[k] = p
<1>1. DOMAIN list = 1..Len(list) /\ Len(list) \in Nat
  OBVIOUS
<1>2. IsFiniteSet(kept) /\ kept \in SUBSET Nat
  <2>1. IsFiniteSet(DOMAIN list)
    BY <1>1, FS_Interval
  <2> QED BY <1>1, <2>1, FS_Subset
<1>3. PICK n \in Nat : n = Cardinality(kept)
  BY <1>2, FS_CardinalityType
<1>4. PICK f \in [1..n -> kept] :
        /\ \A i, j \in 1..n : i < j => f[i] < f[j]
        /\ r = [k \in 1..n |-> list[f[k]]]
  BY <1>3 DEF Keeping
<1>6. DOMAIN r = 1..n /\ \A k \in 1..n : r[k] = list[f[k]] /\ f[k] \in DOMAIN list
  BY <1>4
<1>7. \A k \in 1..n : r[k] \in S
  BY <1>6
<1>8. r \in Seq(S)
  BY <1>3, <1>4, <1>7
<1>9. /\ \A i, j \in 1..n : f[i] = f[j] => i = j
      /\ \A p \in kept : \E k \in 1..n : f[k] = p
  <2>1. \A i, j \in 1..n : f[i] = f[j] => i = j
    <3> SUFFICES ASSUME NEW i \in 1..n, NEW j \in 1..n, f[i] = f[j], i # j PROVE FALSE
      OBVIOUS
    <3>1. f[i] \in Nat /\ f[j] \in Nat
      BY <1>1, <1>6
    <3>2. i < j \/ j < i
      OBVIOUS
    <3>3. f[i] < f[j] \/ f[j] < f[i]
      BY <1>4, <3>2
    <3> QED BY <3>1, <3>3
  <2> DEFINE R == {f[k] : k \in 1..n}
  <2>2. R \subseteq kept /\ f \in [1..n -> R] /\ \A p \in R : \E k \in 1..n : f[k] = p
    OBVIOUS
  <2> HIDE DEF R
  <2>3. f \in Bijection(1..n, R)
    BY <2>1, <2>2 DEF Bijection, Injection, Surjection, IsInjective
  <2>4. Cardinality(R) = n
    BY <2>3, FS_CountingElements DEF ExistsBijection
  <2>5. R = kept
    BY <1>2, <1>3, <2>2, <2>4, FS_Subset
  <2> QED BY <2>1, <2>2, <2>5
<1>10. f \in [DOMAIN r -> kept]
  BY <1>6
<1>11. /\ \A k \in DOMAIN r : r[k] = list[f[k]]
       /\ \A i, j \in DOMAIN r : f[i] = f[j] => i = j
       /\ \A p \in kept : \E k \in DOMAIN r : f[k] = p
  BY <1>6, <1>9
<1> QED BY <1>8, <1>10, <1>11

-----------------------------------------------------------------------------
(* The steps keep ExactInv                                                 *)

LEMMA SpanKept ==
  ASSUME taken' = taken
  PROVE  Span' = Span
BY DEF Span

\* What is live is an entry, one of those the threads hold.
LEMMA HeldAreEntries ==
  ASSUME Inv
  PROVE  /\ serve \in {"queue", "unlink"} => work[1] \in Entries /\ DOMAIN work = {1}
         /\ pacer = "send" => entry[1] \in Entries /\ DOMAIN entry = {1}
         /\ \A i \in DOMAIN pace_list : pace_list[i] \in Entries
<1>1. work \in Seq(Entries) /\ entry \in Seq(Entries) /\ pace_list \in Seq(Entries)
  BY DEF Inv, TypeOK
<1>2. /\ serve \in {"queue", "unlink"} => Len(work) = 1
      /\ pacer = "send" => Len(entry) = 1
  BY DEF Inv, HandInv
<1> QED BY <1>1, <1>2

\* A step that answers nothing and adds nothing to what is live.
LEMMA QuietStep ==
  ASSUME Inv, ExactInv, UNCHANGED <<clock, submitted, taken, replies>>,
         \A x \in Entries : Live(x)' => Live(x)
  PROVE  /\ ClockInv' /\ LiveInv' /\ InOrder'
         /\ \A k \in DOMAIN replies' : replies'[k].seq \in 1..submitted'
         /\ \A s : Answered(s)' <=> Answered(s)
<1>1. Span' = Span
  BY SpanKept
<1>2. ClockInv'
  BY <1>1 DEF ExactInv, ClockInv, Enough
<1>3. \A s : Answered(s)' <=> Answered(s)
  BY DEF Answered
<1>4. LiveInv'
  <2> SUFFICES ASSUME NEW x \in Entries, Live(x)'
               PROVE  /\ x.seq \in 1..submitted'
                      /\ taken'[x.seq].ep = x.ep
                      /\ x.deadline <= clock'[x.ep]
                      /\ Enough(x.deadline, x.ep, x.seq)'
                      /\ ~Answered(x.seq)'
                      /\ \A k \in DOMAIN replies' :
                           IsPaced(replies'[k]) /\ taken'[replies'[k].seq].ep = x.ep
                             => replies'[k].seq < x.seq
    BY DEF LiveInv, IsPaced
  <2>1. Live(x)
    OBVIOUS
  <2>2. /\ x.seq \in 1..submitted
        /\ taken[x.seq].ep = x.ep
        /\ x.deadline <= clock[x.ep]
        /\ Enough(x.deadline, x.ep, x.seq)
        /\ ~Answered(x.seq)
        /\ \A k \in DOMAIN replies :
             IsPaced(replies[k]) /\ taken[replies[k].seq].ep = x.ep => replies[k].seq < x.seq
    BY <2>1 DEF ExactInv, LiveInv
  <2>3. Enough(x.deadline, x.ep, x.seq)'
    BY <1>1, <2>2 DEF Enough
  <2> QED BY <1>3, <2>2, <2>3
<1>5. InOrder'
  BY DEF ExactInv, InOrder, IsPaced
<1>6. \A k \in DOMAIN replies' : replies'[k].seq \in 1..submitted'
  BY DEF ExactInv, ReplyInv
<1> QED BY <1>2, <1>3, <1>4, <1>5, <1>6

\* A reply goes out, for a URB that is no longer live and, when it is paced, after all
\* the earlier ones of its endpoint.
LEMMA ReplyStep ==
  ASSUME Inv, ExactInv, UNCHANGED <<clock, submitted, taken>>,
         NEW r \in [seq : 1..MaxSeq, kind : {"submit", "now", "unlink"}],
         replies' = Append(replies, r), r.seq \in 1..submitted,
         \A x \in Entries : Live(x)' => Live(x),
         \A x \in Entries : Live(x)' /\ IsRet(r) => x.seq # r.seq,
         \A x \in Entries : Live(x)' /\ IsPaced(r) /\ taken[r.seq].ep = x.ep => r.seq < x.seq,
         IsPaced(r) => \A k \in DOMAIN replies :
            IsPaced(replies[k]) /\ taken[replies[k].seq].ep = taken[r.seq].ep
              => replies[k].seq < r.seq
  PROVE  /\ ClockInv' /\ LiveInv' /\ InOrder'
         /\ \A k \in DOMAIN replies' : replies'[k].seq \in 1..submitted'
         /\ \A s : Answered(s)' <=> Answered(s) \/ (IsRet(r) /\ r.seq = s)
         /\ DOMAIN replies \subseteq DOMAIN replies'
         /\ \A k \in DOMAIN replies : replies'[k] = replies[k]
         /\ \E k \in DOMAIN replies' : replies'[k] = r
<1> DEFINE n == Len(replies)
<1>0. /\ DOMAIN replies = 1..n /\ n \in Nat /\ DOMAIN replies' = 1..(n + 1)
      /\ \A k \in 1..n : replies'[k] = replies[k]
      /\ replies'[n + 1] = r
  BY DEF Inv, TypeOK
<1> HIDE DEF n
<1>a. \A k \in DOMAIN replies' : replies'[k] = r \/ (k \in DOMAIN replies /\ replies'[k] = replies[k])
  BY <1>0
<1>1. Span' = Span
  BY SpanKept
<1>2. ClockInv'
  BY <1>1 DEF ExactInv, ClockInv, Enough
<1>3. \A s : Answered(s)' <=> Answered(s) \/ (IsRet(r) /\ r.seq = s)
  <2> SUFFICES ASSUME NEW s PROVE Answered(s)' <=> Answered(s) \/ (IsRet(r) /\ r.seq = s)
    OBVIOUS
  <2>1. Answered(s)' <=> \E k \in DOMAIN replies' : IsRet(replies'[k]) /\ replies'[k].seq = s
    BY DEF Answered, IsRet
  <2>2. n + 1 \in DOMAIN replies' /\ \A k \in DOMAIN replies : k \in DOMAIN replies'
    BY <1>0
  <2> QED BY <1>0, <1>a, <2>1, <2>2 DEF Answered
<1>4. LiveInv'
  <2> SUFFICES ASSUME NEW x \in Entries, Live(x)'
               PROVE  /\ x.seq \in 1..submitted'
                      /\ taken'[x.seq].ep = x.ep
                      /\ x.deadline <= clock'[x.ep]
                      /\ Enough(x.deadline, x.ep, x.seq)'
                      /\ ~Answered(x.seq)'
                      /\ \A k \in DOMAIN replies' :
                           IsPaced(replies'[k]) /\ taken'[replies'[k].seq].ep = x.ep
                             => replies'[k].seq < x.seq
    BY DEF LiveInv, IsPaced
  <2>1. Live(x)
    OBVIOUS
  <2>2. /\ x.seq \in 1..submitted
        /\ taken[x.seq].ep = x.ep
        /\ x.deadline <= clock[x.ep]
        /\ Enough(x.deadline, x.ep, x.seq)
        /\ ~Answered(x.seq)
        /\ \A k \in DOMAIN replies :
             IsPaced(replies[k]) /\ taken[replies[k].seq].ep = x.ep => replies[k].seq < x.seq
    BY <2>1 DEF ExactInv, LiveInv
  <2>3. Enough(x.deadline, x.ep, x.seq)'
    BY <1>1, <2>2 DEF Enough
  <2>4. ~Answered(x.seq)'
    BY <1>3, <2>2
  <2>5. \A k \in DOMAIN replies' :
          IsPaced(replies'[k]) /\ taken'[replies'[k].seq].ep = x.ep => replies'[k].seq < x.seq
    BY <1>a, <2>2
  <2> QED BY <2>2, <2>3, <2>4, <2>5
<1>5. InOrder'
  <2> SUFFICES ASSUME NEW i \in DOMAIN replies', NEW j \in DOMAIN replies',
                      IsPaced(replies'[i]), IsPaced(replies'[j]),
                      taken[replies'[i].seq].ep = taken[replies'[j].seq].ep,
                      replies'[i].seq < replies'[j].seq
               PROVE  i < j
    BY DEF InOrder, IsPaced
  <2>1. i \in 1..(n + 1) /\ j \in 1..(n + 1)
    BY <1>0
  <2>2. CASE i \in 1..n /\ j \in 1..n
    BY <1>0, <2>2 DEF ExactInv, InOrder
  <2>3. CASE i \in 1..n /\ j = n + 1
    BY <1>0, <2>3
  <2>4. CASE i = n + 1
    <3>1. replies'[i] = r
      BY <1>0, <2>4
    <3>2. r.seq \in Nat
      OBVIOUS
    <3>3. replies'[j] # r
      BY <3>1, <3>2
    <3>4. j \in DOMAIN replies /\ replies'[j] = replies[j]
      BY <1>a, <3>3
    <3>5. replies[j].seq < r.seq
      BY <3>1, <3>4
    <3>6. replies[j].seq \in Nat
      <4>1. replies[j].seq \in 1..submitted
        BY <3>4 DEF ExactInv, ReplyInv
      <4> QED BY <4>1
    <3> QED BY <3>1, <3>2, <3>4, <3>5, <3>6
  <2> QED BY <1>0, <2>1, <2>2, <2>3, <2>4
<1>6. \A k \in DOMAIN replies' : replies'[k].seq \in 1..submitted'
  BY <1>a DEF ExactInv, ReplyInv
<1> QED BY <1>0, <1>2, <1>3, <1>4, <1>5, <1>6

\* The places do not change, except that completions leave them.
LEMMA OrderKept ==
  ASSUME ExactInv,
         \A x \in Entries : /\ InQueue(x)' => InQueue(x)
                            /\ InHand(x)' => InHand(x)
                            /\ InWork(x)' => InWork(x)
  PROVE  OrderInv' /\ \A x \in Entries : Live(x)' => Live(x)
<1>1. \A x \in Entries : Live(x)' => Live(x)
  BY DEF Live
<1>2. OrderInv'
  <2> SUFFICES ASSUME NEW x \in Entries, NEW y \in Entries
               PROVE /\ Live(x)' /\ Live(y)' /\ x.ep = y.ep /\ x.seq < y.seq
                          => x.deadline < y.deadline
                     /\ InHand(x)' /\ (InQueue(y)' \/ InWork(y)') /\ x.ep = y.ep => x.seq < y.seq
                     /\ InWork(y)' /\ (InQueue(x)' \/ InHand(x)') => x.seq < y.seq
                     /\ InHand(x)' /\ InQueue(y)' => x.seq # y.seq
    BY DEF OrderInv
  <2>1. /\ Live(x) /\ Live(y) /\ x.ep = y.ep /\ x.seq < y.seq => x.deadline < y.deadline
        /\ InHand(x) /\ (InQueue(y) \/ InWork(y)) /\ x.ep = y.ep => x.seq < y.seq
        /\ InWork(y) /\ (InQueue(x) \/ InHand(x)) => x.seq < y.seq
        /\ InHand(x) /\ InQueue(y) => x.seq # y.seq
    BY DEF ExactInv, OrderInv
  <2>2. /\ InQueue(x)' => InQueue(x)
        /\ InHand(x)' => InHand(x)
        /\ InWork(x)' => InWork(x)
        /\ InQueue(y)' => InQueue(y)
        /\ InHand(y)' => InHand(y)
        /\ InWork(y)' => InWork(y)
        /\ Live(x)' => Live(x)
        /\ Live(y)' => Live(y)
    BY <1>1
  <2> QED BY <2>1, <2>2
<1> QED BY <1>1, <1>2

\* Steps of the clock, the teardown and the pacer's waits.
Idle ==
  /\ UNCHANGED <<clock, pace_list, work, entry, submitted, taken, replies>>
  /\ pacer' = "send" <=> pacer = "send"
  /\ serve' = "queue" <=> serve = "queue"
  /\ serve' = "unlink" <=> serve = "unlink"
  /\ now' >= now
  /\ pace_stop => pace_stop'

LEMMA IdleStep ==
  ASSUME Inv, Inv', ExactInv, Idle
  PROVE  ExactInv'
<1>1. \A x \in Entries : /\ InQueue(x)' <=> InQueue(x)
                         /\ InHand(x)' <=> InHand(x)
                         /\ InWork(x)' <=> InWork(x)
  BY DEF Idle, InQueue, InHand, InWork
<1>2. OrderInv' /\ \A x \in Entries : Live(x)' => Live(x)
  BY <1>1, OrderKept
<1>3. /\ ClockInv' /\ LiveInv' /\ InOrder'
      /\ \A k \in DOMAIN replies' : replies'[k].seq \in 1..submitted'
      /\ \A s : Answered(s)' <=> Answered(s)
  BY <1>2, QuietStep DEF Idle
<1>4. DistinctInv'
  BY DEF Idle, ExactInv, DistinctInv
<1>5. PlaceInv'
  <2>1. \A s : Unlinked(s)' <=> Unlinked(s)
    BY DEF Idle, Unlinked
  <2>2. \A x \in Entries : Live(x)' <=> Live(x)
    BY <1>1 DEF Live
  <2> QED BY <1>3, <2>1, <2>2 DEF ExactInv, PlaceInv, Idle
<1>6. ReplyInv'
  <2>1. pacer' = "send" /\ ~pace_stop' => entry'[1].deadline <= now'
    <3> SUFFICES ASSUME pacer' = "send", ~pace_stop' PROVE entry'[1].deadline <= now'
      OBVIOUS
    <3>1. pacer = "send" /\ ~pace_stop /\ entry' = entry /\ now' >= now
      BY DEF Idle
    <3>2. entry[1].deadline <= now
      BY <3>1 DEF ExactInv, ReplyInv
    <3>3. now \in Nat /\ entry[1].deadline \in Nat /\ now' \in Nat
      <4>1. entry[1] \in Entries
        BY <3>1, HeldAreEntries
      <4>2. now \in Nat /\ now' \in Nat
        BY DEF Inv, TypeOK
      <4>3. entry[1].deadline \in Nat
        BY <4>1 DEF Entries
      <4> QED BY <4>2, <4>3
    <3> QED BY <3>1, <3>2, <3>3
  <2> QED BY <1>3, <2>1 DEF ReplyInv
<1>7. UnlinkInv'
  BY DEF Idle, ExactInv, UnlinkInv
<1> QED BY <1>2, <1>3, <1>4, <1>5, <1>6, <1>7 DEF ExactInv

LEMMA ExactSubmit ==
  ASSUME Inv, Inv', ExactInv, PaceSubmit
  PROVE  ExactInv'
<1>1. /\ serve = "queue" /\ pace_list' = work \o pace_list
      /\ pacer' = (IF pace_started THEN Signalled ELSE "scan") /\ serve' = "read"
      /\ UNCHANGED <<now, clock, pace_stop, entry, submitted, taken, replies>>
  BY DEF PaceSubmit, Pushed
<1>2. pacer' = "send" <=> pacer = "send"
  BY <1>1 DEF Inv, LifeInv, Signalled, TypeOK
<1> DEFINE w == work[1]
           n == Len(pace_list)
<1>3. w \in Entries
  BY <1>1, HeldAreEntries
<1>4. /\ n \in Nat /\ DOMAIN pace_list = 1..n /\ DOMAIN pace_list' = 1..(n + 1)
      /\ pace_list'[1] = w
      /\ \A i \in 1..(n + 1) : i # 1 => pace_list'[i] = pace_list[i - 1]
      /\ \A i \in 1..n : pace_list'[i + 1] = pace_list[i]
  <2>1. work \in Seq(Entries) /\ Len(work) = 1 /\ pace_list \in Seq(Entries)
    BY <1>1 DEF Inv, TypeOK, HandInv
  <2>2. /\ Len(pace_list') = n + 1 /\ pace_list' \in Seq(Entries)
        /\ \A i \in 1..(n + 1) :
             pace_list'[i] = IF i <= 1 THEN work[i] ELSE pace_list[i - 1]
    <3>1. /\ Len(work \o pace_list) = 1 + n
          /\ \A i \in 1..(1 + n) :
               (work \o pace_list)[i] = IF i <= 1 THEN work[i] ELSE pace_list[i - 1]
      <4>1. /\ Len(work \o pace_list) = Len(work) + Len(pace_list)
            /\ \A i \in 1..(Len(work) + Len(pace_list)) :
                 (work \o pace_list)[i]
                   = IF i <= Len(work) THEN work[i] ELSE pace_list[i - Len(work)]
        BY <2>1, ConcatProperties, Zenon
      <4> QED BY <2>1, <4>1
    <3>2. n \in Nat /\ 1 + n = n + 1
      BY <2>1
    <3>3. pace_list' \in Seq(Entries)
      BY DEF Inv, TypeOK
    <3> QED BY <1>1, <3>1, <3>2, <3>3
  <2>3. n \in Nat /\ DOMAIN pace_list = 1..n /\ DOMAIN pace_list' = 1..(n + 1)
    BY <2>1, <2>2
  <2>4. 1 \in 1..(n + 1) /\ \A i \in 1..n : i + 1 \in 1..(n + 1) /\ i + 1 - 1 = i /\ ~(i + 1 <= 1)
    BY <2>3
  <2>5. \A i \in 1..(n + 1) : i # 1 => ~(i <= 1)
    BY <2>3
  <2> QED BY <2>2, <2>3, <2>4, <2>5
<1> HIDE DEF w, n
<1>5. \A x \in Entries : /\ InQueue(x)' <=> InQueue(x) \/ x = w
                         /\ InHand(x)' <=> InHand(x)
                         /\ InWork(x) <=> x = w
                         /\ ~InWork(x)'
  <2> SUFFICES ASSUME NEW x \in Entries
               PROVE  /\ InQueue(x)' <=> InQueue(x) \/ x = w
                      /\ InHand(x)' <=> InHand(x)
                      /\ InWork(x) <=> x = w
                      /\ ~InWork(x)'
    OBVIOUS
  <2>1. InQueue(x)' => InQueue(x) \/ x = w
    <3> SUFFICES ASSUME NEW i \in 1..(n + 1), pace_list'[i] = x, x # w PROVE InQueue(x)
      BY <1>4 DEF InQueue
    <3>1. i - 1 \in 1..n /\ pace_list[i - 1] = x
      BY <1>4
    <3> QED BY <1>4, <3>1 DEF InQueue
  <2>2. InQueue(x) => InQueue(x)'
    <3> SUFFICES ASSUME NEW i \in 1..n, pace_list[i] = x PROVE InQueue(x)'
      BY <1>4 DEF InQueue
    <3>1. i + 1 \in 1..(n + 1) /\ pace_list'[i + 1] = x
      BY <1>4
    <3> QED BY <1>4, <3>1 DEF InQueue
  <2>3. x = w => InQueue(x)'
    <3>1. 1 \in DOMAIN pace_list'
      BY <1>4
    <3> QED BY <1>4, <3>1 DEF InQueue
  <2> QED BY <1>1, <1>2, <2>1, <2>2, <2>3 DEF InHand, InWork, w
<1>6. \A x \in Entries : Live(x)' <=> Live(x)
  BY <1>5 DEF Live
<1>7. /\ ClockInv' /\ LiveInv' /\ InOrder'
      /\ \A k \in DOMAIN replies' : replies'[k].seq \in 1..submitted'
      /\ \A s : Answered(s)' <=> Answered(s)
  BY <1>1, <1>6, QuietStep
<1>8. \A x \in Entries : InQueue(x) \/ InHand(x) => x.seq < w.seq
  BY <1>3, <1>5 DEF ExactInv, OrderInv
<1>9. OrderInv'
  <2> SUFFICES ASSUME NEW x \in Entries, NEW y \in Entries
               PROVE /\ Live(x)' /\ Live(y)' /\ x.ep = y.ep /\ x.seq < y.seq
                          => x.deadline < y.deadline
                     /\ InHand(x)' /\ InQueue(y)' /\ x.ep = y.ep => x.seq < y.seq
                     /\ InHand(x)' /\ InQueue(y)' => x.seq # y.seq
    BY <1>5 DEF OrderInv
  <2>1. /\ Live(x) /\ Live(y) /\ x.ep = y.ep /\ x.seq < y.seq => x.deadline < y.deadline
        /\ InHand(x) /\ (InQueue(y) \/ InWork(y)) /\ x.ep = y.ep => x.seq < y.seq
        /\ InHand(x) /\ InQueue(y) => x.seq # y.seq
    BY DEF ExactInv, OrderInv
  <2>2. InHand(x) => x.seq < w.seq
    BY <1>8
  <2>3. x.seq \in Int /\ w.seq \in Int
    BY <1>3 DEF Entries
  <2> QED BY <1>5, <1>6, <2>1, <2>2, <2>3
<1>10. DistinctInv'
  <2> SUFFICES ASSUME NEW i \in 1..(n + 1), NEW j \in 1..(n + 1),
                      pace_list'[i].seq = pace_list'[j].seq, i # j
               PROVE  FALSE
    BY <1>4 DEF DistinctInv
  <2>1. \A k \in 1..n : pace_list[k].seq < w.seq /\ pace_list[k].seq \in Int /\ w.seq \in Int
    <3> SUFFICES ASSUME NEW k \in 1..n
                 PROVE  pace_list[k].seq < w.seq /\ pace_list[k].seq \in Int /\ w.seq \in Int
      OBVIOUS
    <3>1. pace_list[k] \in Entries /\ InQueue(pace_list[k])
      BY <1>4, HeldAreEntries DEF InQueue
    <3>2. pace_list[k].seq \in Int /\ w.seq \in Int
      BY <3>1, <1>3 DEF Entries
    <3> QED BY <1>8, <3>1, <3>2
  <2>2. CASE i = 1
    <3>1. j - 1 \in 1..n /\ pace_list'[j] = pace_list[j - 1]
      BY <1>4, <2>2
    <3> QED BY <1>4, <2>1, <2>2, <3>1
  <2>3. CASE j = 1
    <3>1. i - 1 \in 1..n /\ pace_list'[i] = pace_list[i - 1]
      BY <1>4, <2>3
    <3> QED BY <1>4, <2>1, <2>3, <3>1
  <2>4. CASE i # 1 /\ j # 1
    <3>1. /\ i - 1 \in 1..n /\ pace_list'[i] = pace_list[i - 1]
          /\ j - 1 \in 1..n /\ pace_list'[j] = pace_list[j - 1]
      BY <1>4, <2>4
    <3>2. i - 1 = j - 1
      BY <1>4, <3>1 DEF ExactInv, DistinctInv
    <3> QED BY <1>4, <3>2
  <2> QED BY <2>2, <2>3, <2>4
<1>11. PlaceInv'
  <2>1. \A s : Unlinked(s)' <=> Unlinked(s)
    BY <1>1 DEF Unlinked
  <2> QED BY <1>1, <1>6, <1>7, <2>1 DEF ExactInv, PlaceInv
<1>12. ReplyInv'
  BY <1>1, <1>2, <1>7 DEF ExactInv, ReplyInv
<1>13. UnlinkInv'
  BY <1>1 DEF UnlinkInv
<1> QED BY <1>7, <1>9, <1>10, <1>11, <1>12, <1>13 DEF ExactInv

LEMMA ExactSubmitNow ==
  ASSUME Inv, Inv', ExactInv, PaceSubmit_Now
  PROVE  ExactInv'
<1> DEFINE w == work[1]
           r == [seq |-> w.seq, kind |-> "now"]
<1>1. /\ serve = "queue" /\ serve' = "read" /\ replies' = Append(replies, r)
      /\ pacer' = (IF pace_started THEN pacer ELSE "scan")
      /\ UNCHANGED <<now, clock, pace_list, pace_stop, entry, submitted, taken>>
  BY DEF PaceSubmit_Now, Send
<1>2. pacer' = "send" <=> pacer = "send"
  BY <1>1 DEF Inv, LifeInv
<1>3. w \in Entries /\ w.seq \in 1..MaxSeq
  BY <1>1, HeldAreEntries DEF Entries
<1>4. /\ r \in [seq : 1..MaxSeq, kind : {"submit", "now", "unlink"}]
      /\ r.seq = w.seq /\ IsRet(r) /\ ~IsPaced(r)
  BY <1>3 DEF IsRet, IsPaced
<1> HIDE DEF r
<1>5. \A x \in Entries : /\ InQueue(x)' <=> InQueue(x)
                         /\ InHand(x)' <=> InHand(x)
                         /\ InWork(x) <=> x = w
                         /\ ~InWork(x)'
  BY <1>1, <1>2 DEF InHand, InWork, InQueue
<1> HIDE DEF w
<1>6. OrderInv' /\ \A x \in Entries : Live(x)' => Live(x)
  BY <1>5, OrderKept
<1>7. \A x \in Entries : Live(x)' => x.seq # w.seq
  <2>1. \A x \in Entries : InQueue(x) \/ InHand(x) => x.seq < w.seq
    BY <1>3, <1>5 DEF ExactInv, OrderInv
  <2>2. \A x \in Entries : x.seq \in Int /\ w.seq \in Int
    BY <1>3 DEF Entries
  <2> QED BY <1>5, <2>1, <2>2 DEF Live
<1>8. w.seq \in 1..submitted
  BY <1>3, <1>5 DEF ExactInv, LiveInv, Live
<1>9. /\ ClockInv' /\ LiveInv' /\ InOrder'
      /\ \A k \in DOMAIN replies' : replies'[k].seq \in 1..submitted'
      /\ \A s : Answered(s)' <=> Answered(s) \/ (IsRet(r) /\ r.seq = s)
      /\ DOMAIN replies \subseteq DOMAIN replies'
      /\ \A k \in DOMAIN replies : replies'[k] = replies[k]
  BY <1>1, <1>4, <1>6, <1>7, <1>8, ReplyStep
<1>10. DistinctInv'
  BY <1>1 DEF ExactInv, DistinctInv
<1>11. PlaceInv'
  <2> SUFFICES ASSUME NEW s \in 1..submitted
               PROVE  Unlinked(s)' \/ Answered(s)' \/ \E x \in Entries : Live(x)' /\ x.seq = s
    BY <1>1 DEF PlaceInv
  <2>1. CASE Unlinked(s)
    <3>1. PICK k \in DOMAIN replies : replies[k].kind = "unlink" /\ replies[k].seq = s
      BY <1>1, <2>1 DEF Unlinked
    <3> QED BY <1>9, <3>1 DEF Unlinked
  <2>2. CASE Answered(s)
    BY <1>9, <2>2
  <2>3. CASE \E x \in Entries : Live(x) /\ x.seq = s
    <3>1. PICK x \in Entries : Live(x) /\ x.seq = s
      BY <2>3
    <3>2. CASE x = w
      BY <1>4, <1>9, <3>1, <3>2
    <3>3. CASE x # w
      BY <1>5, <3>1, <3>3 DEF Live
    <3> QED BY <3>2, <3>3
  <2> QED BY <2>1, <2>2, <2>3 DEF ExactInv, PlaceInv
<1>12. ReplyInv'
  BY <1>1, <1>2, <1>9 DEF ExactInv, ReplyInv
<1>13. UnlinkInv'
  BY <1>1 DEF UnlinkInv
<1> QED BY <1>6, <1>9, <1>10, <1>11, <1>12, <1>13 DEF ExactInv

LEMMA ExactUnlinkReply ==
  ASSUME Inv, Inv', ExactInv, Unlink_Reply
  PROVE  ExactInv'
<1> DEFINE w == work[1]
           r == [seq |-> w.seq, kind |-> "unlink"]
<1>1. /\ serve = "unlink" /\ serve' = "read" /\ replies' = Append(replies, r)
      /\ UNCHANGED <<now, clock, pace_list, pace_stop, pacer, entry, submitted, taken>>
  BY DEF Unlink_Reply, Send, pacevars, pacervars
<1>3. w \in Entries /\ w.seq \in 1..MaxSeq
  BY <1>1, HeldAreEntries DEF Entries
<1>4. /\ r \in [seq : 1..MaxSeq, kind : {"submit", "now", "unlink"}]
      /\ r.seq = w.seq /\ ~IsRet(r) /\ ~IsPaced(r) /\ r.kind = "unlink"
  BY <1>3 DEF IsRet, IsPaced
<1> HIDE DEF r
<1>5. \A x \in Entries : /\ InQueue(x)' <=> InQueue(x)
                         /\ InHand(x)' <=> InHand(x)
                         /\ ~InWork(x)
                         /\ ~InWork(x)'
  BY <1>1 DEF InHand, InWork, InQueue
<1>8. w.seq \in 1..submitted
  BY <1>1 DEF ExactInv, UnlinkInv
<1> HIDE DEF w
<1>6. OrderInv' /\ \A x \in Entries : Live(x)' => Live(x)
  BY <1>5, OrderKept
<1>9. /\ ClockInv' /\ LiveInv' /\ InOrder'
      /\ \A k \in DOMAIN replies' : replies'[k].seq \in 1..submitted'
      /\ \A s : Answered(s)' <=> Answered(s) \/ (IsRet(r) /\ r.seq = s)
      /\ DOMAIN replies \subseteq DOMAIN replies'
      /\ \A k \in DOMAIN replies : replies'[k] = replies[k]
      /\ \E k \in DOMAIN replies' : replies'[k] = r
  BY <1>1, <1>4, <1>6, <1>8, ReplyStep
<1>10. DistinctInv'
  BY <1>1 DEF ExactInv, DistinctInv
<1>11. PlaceInv'
  <2> SUFFICES ASSUME NEW s \in 1..submitted
               PROVE  Unlinked(s)' \/ Answered(s)' \/ \E x \in Entries : Live(x)' /\ x.seq = s
    BY <1>1 DEF PlaceInv
  <2>1. CASE Unlinked(s)
    <3>1. \/ \E k \in DOMAIN replies : replies[k].kind = "unlink" /\ replies[k].seq = s
          \/ r.seq = s
      BY <1>1, <1>4, <2>1 DEF Unlinked, w
    <3>2. \E k \in DOMAIN replies' : replies'[k].kind = "unlink" /\ replies'[k].seq = s
      BY <1>4, <1>9, <3>1
    <3> QED BY <3>2 DEF Unlinked
  <2>2. CASE Answered(s)
    BY <1>9, <2>2
  <2>3. CASE \E x \in Entries : Live(x) /\ x.seq = s
    BY <1>5, <2>3 DEF Live
  <2> QED BY <2>1, <2>2, <2>3 DEF ExactInv, PlaceInv
<1>12. ReplyInv'
  BY <1>1, <1>9 DEF ExactInv, ReplyInv
<1>13. UnlinkInv'
  BY <1>1 DEF UnlinkInv
<1> QED BY <1>6, <1>9, <1>10, <1>11, <1>12, <1>13 DEF ExactInv

LEMMA ExactUnlink ==
  ASSUME Inv, Inv', ExactInv, NEW q \in 1..MaxSeq, Unlink(q)
  PROVE  ExactInv'
<1> DEFINE kept == {i \in DOMAIN pace_list : pace_list[i].seq # q}
<1>1. /\ serve = "read" /\ serve' = "unlink" /\ q \in 1..submitted
      /\ pace_list' \in IF pace_started THEN Keeping(pace_list, kept) ELSE {pace_list}
      /\ work'[1].seq = q
      /\ UNCHANGED <<now, clock, pace_stop, pacer, entry, submitted, taken, replies>>
  BY DEF Unlink, pacervars
<1>2. /\ \A k \in DOMAIN pace_list' : \E i \in DOMAIN pace_list : pace_list'[k] = pace_list[i]
      /\ \A i \in kept : \E k \in DOMAIN pace_list' : pace_list'[k] = pace_list[i]
      /\ DistinctInv'
  <2>1. CASE pace_started
    <3>1. pace_list \in Seq(Entries) /\ kept \in SUBSET DOMAIN pace_list
          /\ pace_list' \in Keeping(pace_list, kept)
      BY <1>1, <2>1 DEF Inv, TypeOK
    <3> HIDE DEF kept
    <3>l. PICK l, r : l = pace_list /\ r = pace_list'
      OBVIOUS
    <3>k. l \in Seq(Entries) /\ kept \in SUBSET DOMAIN l /\ r \in Keeping(l, kept)
      BY <3>1, <3>l
    <3>f. \E f \in [DOMAIN r -> kept] :
              /\ \A k \in DOMAIN r : r[k] = l[f[k]]
              /\ \A i, j \in DOMAIN r : f[i] = f[j] => i = j
              /\ \A p \in kept : \E k \in DOMAIN r : f[k] = p
      BY <3>k, KeepingExact, SMTT(30)
    <3>2. PICK f \in [DOMAIN pace_list' -> kept] :
              /\ \A k \in DOMAIN pace_list' : pace_list'[k] = pace_list[f[k]]
              /\ \A i, j \in DOMAIN pace_list' : f[i] = f[j] => i = j
              /\ \A p \in kept : \E k \in DOMAIN pace_list' : f[k] = p
      BY <3>f, <3>l
    <3>3. \A k \in DOMAIN pace_list' : f[k] \in DOMAIN pace_list
      BY <3>1, <3>2
    <3>4. DistinctInv'
      BY <3>2, <3>3 DEF ExactInv, DistinctInv
    <3> QED BY <3>2, <3>3, <3>4
  <2>2. CASE ~pace_started
    BY <1>1, <2>2 DEF ExactInv, DistinctInv
  <2> QED BY <2>1, <2>2
<1>3. \A x \in Entries : /\ InQueue(x)' => InQueue(x)
                         /\ InQueue(x) /\ x.seq # q => InQueue(x)'
                         /\ InHand(x)' <=> InHand(x)
                         /\ ~InWork(x)
                         /\ ~InWork(x)'
  BY <1>1, <1>2 DEF InHand, InWork, InQueue
<1> HIDE DEF kept
<1>4. OrderInv' /\ \A x \in Entries : Live(x)' => Live(x)
  BY <1>3, OrderKept
<1>5. /\ ClockInv' /\ LiveInv' /\ InOrder'
      /\ \A k \in DOMAIN replies' : replies'[k].seq \in 1..submitted'
      /\ \A s : Answered(s)' <=> Answered(s)
  BY <1>1, <1>4, QuietStep
<1>6. PlaceInv'
  <2> SUFFICES ASSUME NEW s \in 1..submitted
               PROVE  Unlinked(s)' \/ Answered(s)' \/ \E x \in Entries : Live(x)' /\ x.seq = s
    BY <1>1 DEF PlaceInv
  <2>1. CASE Unlinked(s)
    BY <1>1, <2>1 DEF Unlinked
  <2>2. CASE Answered(s)
    BY <1>5, <2>2
  <2>3. CASE \E x \in Entries : Live(x) /\ x.seq = s
    <3>1. PICK x \in Entries : Live(x) /\ x.seq = s
      BY <2>3
    <3>2. CASE s = q
      BY <1>1, <3>2 DEF Unlinked
    <3>3. CASE s # q
      BY <1>3, <3>1, <3>3 DEF Live
    <3> QED BY <3>2, <3>3
  <2> QED BY <2>1, <2>2, <2>3 DEF ExactInv, PlaceInv
<1>7. ReplyInv' /\ UnlinkInv'
  BY <1>1, <1>5 DEF ExactInv, ReplyInv, UnlinkInv
<1> QED BY <1>2, <1>4, <1>5, <1>6, <1>7 DEF ExactInv

LEMMA ExactTake ==
  ASSUME Inv, Inv', ExactInv, Pacer_Take
  PROVE  ExactInv'
<1>0. PICK i \in Earliest :
         /\ pace_stop \/ pace_list[i].deadline <= now
         /\ entry' = <<pace_list[i]>>
         /\ pace_list' \in Keeping(pace_list, DOMAIN pace_list \ {i})
  BY DEF Pacer_Take
<1> DEFINE kept == DOMAIN pace_list \ {i}
           z == pace_list[i]
<1>1. /\ pacer = "scan" /\ pacer' = "send" /\ entry'[1] = z
      /\ UNCHANGED <<now, clock, pace_stop, serve, work, submitted, taken, replies>>
  BY <1>0 DEF Pacer_Take
<1>a. i \in DOMAIN pace_list /\ \A j \in DOMAIN pace_list : z.deadline <= pace_list[j].deadline
  BY <1>0 DEF Earliest
<1>b. z \in Entries /\ InQueue(z)
  BY <1>a, HeldAreEntries DEF InQueue
<1>2. PICK f \in [DOMAIN pace_list' -> kept] :
              /\ \A k \in DOMAIN pace_list' : pace_list'[k] = pace_list[f[k]]
              /\ \A k, j \in DOMAIN pace_list' : f[k] = f[j] => k = j
              /\ \A p \in kept : \E k \in DOMAIN pace_list' : f[k] = p
  <2>1. pace_list \in Seq(Entries) /\ kept \in SUBSET DOMAIN pace_list
        /\ pace_list' \in Keeping(pace_list, kept)
    BY <1>0 DEF Inv, TypeOK
  <2> HIDE DEF kept
  <2>l. PICK l, r : l = pace_list /\ r = pace_list'
    OBVIOUS
  <2>k. l \in Seq(Entries) /\ kept \in SUBSET DOMAIN l /\ r \in Keeping(l, kept)
    BY <2>1, <2>l
  <2>f. \E f \in [DOMAIN r -> kept] :
              /\ \A k \in DOMAIN r : r[k] = l[f[k]]
              /\ \A k, j \in DOMAIN r : f[k] = f[j] => k = j
              /\ \A p \in kept : \E k \in DOMAIN r : f[k] = p
    BY <2>k, KeepingExact, SMTT(30)
  <2> QED BY <2>f, <2>l
<1>3. \A k \in DOMAIN pace_list' : f[k] \in DOMAIN pace_list /\ f[k] # i
  BY <1>2
<1> HIDE DEF z
<1>4. DistinctInv'
  BY <1>2, <1>3 DEF ExactInv, DistinctInv
<1>5. \A x \in Entries : /\ InQueue(x)' => InQueue(x) /\ x.seq # z.seq
                         /\ InQueue(x) => InQueue(x)' \/ x = z
                         /\ InHand(x)' <=> x = z
                         /\ ~InHand(x)
                         /\ InWork(x)' <=> InWork(x)
  <2> SUFFICES ASSUME NEW x \in Entries
               PROVE  /\ InQueue(x)' => InQueue(x) /\ x.seq # z.seq
                      /\ InQueue(x) => InQueue(x)' \/ x = z
                      /\ InHand(x)' <=> x = z
                      /\ ~InHand(x)
                      /\ InWork(x)' <=> InWork(x)
    OBVIOUS
  <2>1. InQueue(x)' => InQueue(x) /\ x.seq # z.seq
    <3> SUFFICES ASSUME NEW k \in DOMAIN pace_list', pace_list'[k] = x
                 PROVE  InQueue(x) /\ x.seq # z.seq
      BY DEF InQueue
    <3>1. f[k] \in DOMAIN pace_list /\ f[k] # i /\ pace_list[f[k]] = x
      BY <1>2, <1>3
    <3> QED BY <1>a, <3>1 DEF InQueue, ExactInv, DistinctInv, z
  <2>2. InQueue(x) => InQueue(x)' \/ x = z
    BY <1>2 DEF InQueue, z
  <2>3. InHand(x)' <=> x = z
    BY <1>1 DEF InHand
  <2>4. ~InHand(x) /\ (InWork(x)' <=> InWork(x))
    BY <1>1 DEF InHand, InWork
  <2> QED BY <2>1, <2>2, <2>3, <2>4
<1> HIDE DEF kept
<1>6. \A x \in Entries : Live(x)' <=> Live(x)
  BY <1>b, <1>5 DEF Live
<1>7. /\ ClockInv' /\ LiveInv' /\ InOrder'
      /\ \A k \in DOMAIN replies' : replies'[k].seq \in 1..submitted'
      /\ \A s : Answered(s)' <=> Answered(s)
  BY <1>1, <1>6, QuietStep
<1>8. OrderInv'
  <2> SUFFICES ASSUME NEW x \in Entries, NEW y \in Entries
               PROVE /\ Live(x)' /\ Live(y)' /\ x.ep = y.ep /\ x.seq < y.seq
                          => x.deadline < y.deadline
                     /\ InHand(x)' /\ (InQueue(y)' \/ InWork(y)') /\ x.ep = y.ep => x.seq < y.seq
                     /\ InWork(y)' /\ (InQueue(x)' \/ InHand(x)') => x.seq < y.seq
                     /\ InHand(x)' /\ InQueue(y)' => x.seq # y.seq
    BY DEF OrderInv
  <2>1. Live(x)' /\ Live(y)' /\ x.ep = y.ep /\ x.seq < y.seq => x.deadline < y.deadline
    BY <1>6 DEF ExactInv, OrderInv
  <2>2. InWork(y) /\ (InQueue(x) \/ InHand(x)) => x.seq < y.seq
    BY DEF ExactInv, OrderInv
  <2>3. InWork(y)' /\ (InQueue(x)' \/ InHand(x)') => x.seq < y.seq
    BY <1>b, <1>5, <2>2
  <2>4. InHand(x)' /\ InQueue(y)' => x.seq # y.seq
    BY <1>5
  <2>5. InHand(x)' /\ InQueue(y)' /\ x.ep = y.ep => x.seq < y.seq
    <3> SUFFICES ASSUME x = z, InQueue(y)', x.ep = y.ep, ~(x.seq < y.seq) PROVE FALSE
      BY <1>5
    <3>1. x.seq \in Int /\ y.seq \in Int /\ x.deadline \in Int /\ y.deadline \in Int
      BY DEF Entries
    <3>2. y.seq < x.seq
      BY <1>5, <3>1
    <3>3. Live(y) /\ Live(x) /\ InQueue(y)
      BY <1>b, <1>5 DEF Live
    <3>4. y.deadline < x.deadline
      BY <3>2, <3>3 DEF ExactInv, OrderInv
    <3>5. x.deadline <= y.deadline
      BY <1>a, <3>3 DEF InQueue
    <3> QED BY <3>1, <3>4, <3>5
  <2> QED BY <1>5, <2>1, <2>3, <2>4, <2>5
<1>9. PlaceInv'
  <2>1. \A s : Unlinked(s)' <=> Unlinked(s)
    BY <1>1 DEF Unlinked
  <2> QED BY <1>1, <1>6, <1>7, <2>1 DEF ExactInv, PlaceInv
<1>10. ReplyInv' /\ UnlinkInv'
  <2>1. pacer' = "send" /\ ~pace_stop' => entry'[1].deadline <= now'
    BY <1>0, <1>1 DEF z
  <2> QED BY <1>1, <1>7, <2>1 DEF ExactInv, ReplyInv, UnlinkInv
<1> QED BY <1>4, <1>7, <1>8, <1>9, <1>10 DEF ExactInv

LEMMA ExactSend ==
  ASSUME Inv, Inv', ExactInv, Pacer_Send
  PROVE  ExactInv'
<1> DEFINE z == entry[1]
           r == [seq |-> z.seq, kind |-> "submit"]
<1>1. /\ pacer = "send" /\ pacer' = "scan" /\ replies' = Append(replies, r)
      /\ UNCHANGED <<now, clock, pace_list, pace_stop, serve, work, submitted, taken>>
  BY DEF Pacer_Send, Send, pacevars
<1>3. z \in Entries /\ z.seq \in 1..MaxSeq
  BY <1>1, HeldAreEntries DEF Entries
<1>4. /\ r \in [seq : 1..MaxSeq, kind : {"submit", "now", "unlink"}]
      /\ r.seq = z.seq /\ IsRet(r) /\ IsPaced(r) /\ r.kind # "unlink"
  BY <1>3 DEF IsRet, IsPaced
<1> HIDE DEF r
<1>5. \A x \in Entries : /\ InQueue(x)' <=> InQueue(x)
                         /\ ~InHand(x)'
                         /\ InHand(x) <=> x = z
                         /\ InWork(x)' <=> InWork(x)
  BY <1>1 DEF InHand, InWork, InQueue
<1> HIDE DEF z
<1>6. OrderInv' /\ \A x \in Entries : Live(x)' => Live(x)
  BY <1>5, OrderKept
<1>7. /\ z.seq \in 1..submitted /\ taken[z.seq].ep = z.ep
      /\ \A k \in DOMAIN replies :
           IsPaced(replies[k]) /\ taken[replies[k].seq].ep = z.ep => replies[k].seq < z.seq
  BY <1>3, <1>5 DEF ExactInv, LiveInv, Live
<1>8. \A x \in Entries : Live(x)' => x.seq # z.seq /\ (z.ep = x.ep => z.seq < x.seq)
  <2> SUFFICES ASSUME NEW x \in Entries, InQueue(x) \/ InWork(x)
               PROVE  x.seq # z.seq /\ (z.ep = x.ep => z.seq < x.seq)
    BY <1>5 DEF Live
  <2>1. /\ InHand(z) /\ (InQueue(x) \/ InWork(x)) /\ z.ep = x.ep => z.seq < x.seq
        /\ InWork(x) /\ (InQueue(z) \/ InHand(z)) => z.seq < x.seq
        /\ InHand(z) /\ InQueue(x) => z.seq # x.seq
    BY <1>3 DEF ExactInv, OrderInv
  <2>2. x.seq \in Int /\ z.seq \in Int
    BY <1>3 DEF Entries
  <2> QED BY <1>3, <1>5, <2>1, <2>2
<1>9. /\ ClockInv' /\ LiveInv' /\ InOrder'
      /\ \A k \in DOMAIN replies' : replies'[k].seq \in 1..submitted'
      /\ \A s : Answered(s)' <=> Answered(s) \/ (IsRet(r) /\ r.seq = s)
      /\ DOMAIN replies \subseteq DOMAIN replies'
      /\ \A k \in DOMAIN replies : replies'[k] = replies[k]
  BY <1>1, <1>4, <1>6, <1>7, <1>8, ReplyStep
<1>10. DistinctInv'
  BY <1>1 DEF ExactInv, DistinctInv
<1>11. PlaceInv'
  <2> SUFFICES ASSUME NEW s \in 1..submitted
               PROVE  Unlinked(s)' \/ Answered(s)' \/ \E x \in Entries : Live(x)' /\ x.seq = s
    BY <1>1 DEF PlaceInv
  <2>1. CASE Unlinked(s)
    BY <1>1, <1>9, <2>1 DEF Unlinked
  <2>2. CASE Answered(s)
    BY <1>9, <2>2
  <2>3. CASE \E x \in Entries : Live(x) /\ x.seq = s
    <3>1. PICK x \in Entries : Live(x) /\ x.seq = s
      BY <2>3
    <3>2. CASE x = z
      BY <1>4, <1>9, <3>1, <3>2
    <3>3. CASE x # z
      BY <1>5, <3>1, <3>3 DEF Live
    <3> QED BY <3>2, <3>3
  <2> QED BY <2>1, <2>2, <2>3 DEF ExactInv, PlaceInv
<1>12. ReplyInv' /\ UnlinkInv'
  BY <1>1, <1>9 DEF ExactInv, ReplyInv, UnlinkInv
<1> QED BY <1>6, <1>9, <1>10, <1>11, <1>12 DEF ExactInv

LEMMA ExactDispatch ==
  ASSUME Inv, Inv', ExactInv, NEW e \in Eps, NEW n \in Packets, Dispatch_Iso(e, n)
  PROVE  ExactInv'
<1> DEFINE D == iso_deadline(e, n)
           L == Frame[e] * n
           m == submitted
           w == [seq |-> m + 1, ep |-> e, deadline |-> D]
<1>1. /\ serve = "read" /\ m < MaxSeq /\ submitted' = m + 1 /\ clock' = [clock EXCEPT ![e] = D]
      /\ work' = <<w>> /\ taken' = Append(taken, [ep |-> e, at |-> now, length |-> L])
      /\ serve' = "queue"
      /\ UNCHANGED <<now, pace_list, pace_started, pace_stop, pacer, wake, entry, replies>>
  BY DEF Dispatch_Iso, pacevars, pacervars
<1>2. /\ clock \in [Eps -> 0..MaxTime] /\ clock[e] \in Nat /\ now \in Nat
      /\ m \in 0..MaxSeq /\ m + 1 \in 1..MaxSeq /\ m \in Nat /\ L \in Nat /\ L >= 1
      /\ MaxSeq \in Nat /\ MaxTime \in Nat
  <2>1. L \in Nat /\ L >= 1
    BY DurationPositive
  <2>2. clock \in [Eps -> 0..MaxTime] /\ now \in 0..MaxTime /\ m \in 0..MaxSeq
    BY DEF Inv, TypeOK
  <2> HIDE DEF L, m
  <2>3. clock[e] \in 0..MaxTime
    BY <2>2
  <2>4. m \in Nat /\ m + 1 \in 1..MaxSeq
    BY <1>1, <2>2, PacerAssumption
  <2> QED BY <2>1, <2>2, <2>3, <2>4, PacerAssumption
<1>3. D = Later(clock[e], now) + L
  BY DEF iso_deadline
<1> HIDE DEF D, L
<1>4. D \in Int /\ clock[e] < D /\ now + L <= D /\ clock[e] + L <= D
  <2>1. Later(clock[e], now) \in Nat /\ clock[e] <= Later(clock[e], now)
        /\ now <= Later(clock[e], now)
    BY <1>2 DEF Later
  <2> QED BY <1>2, <1>3, <2>1
<1>5. /\ \A i \in 1..m : taken'[i] = taken[i]
      /\ taken'[m + 1].ep = e /\ taken'[m + 1].at = now /\ taken'[m + 1].length = L
  <2>1. taken \in Seq([ep : Eps, at : 0..MaxTime, length : 1..MaxTime]) /\ Len(taken) = m
    BY DEF Inv, TypeOK, HandInv
  <2> HIDE DEF m
  <2>2. /\ \A i \in 1..m : taken'[i] = taken[i]
        /\ taken'[m + 1] = [ep |-> e, at |-> now, length |-> L]
    BY <1>1, <2>1
  <2> QED BY <2>2
<1>a. \A i \in 1..m : /\ taken[i].at \in Nat /\ taken[i].length \in Nat /\ taken[i].ep \in Eps
                      /\ i \in 1..MaxSeq
  <2>1. taken \in Seq([ep : Eps, at : 0..MaxTime, length : 1..MaxTime]) /\ Len(taken) = m
    BY DEF Inv, TypeOK, HandInv
  <2> HIDE DEF m
  <2>2. \A i \in 1..m : taken[i] \in [ep : Eps, at : 0..MaxTime, length : 1..MaxTime]
    BY <2>1, ElementOfSeq
  <2>3. \A i \in 1..m : i \in 1..MaxSeq
    BY <1>2
  <2> QED BY <1>2, <2>2, <2>3
<1>6. w \in Entries /\ w.seq = m + 1 /\ w.ep = e /\ w.deadline = D
  <2>1. serve' = "queue" /\ work'[1] = w
    BY <1>1
  <2>2. work'[1] \in Entries
    <3>1. work' \in Seq(Entries) /\ Len(work') = 1
      BY <1>1 DEF Inv, TypeOK
    <3> QED BY <3>1
  <2> QED BY <2>1, <2>2
<1> HIDE DEF w
\* The spans of the URBs so far are what they were; with the new one they grow by it.
<1>7. \A ee \in Eps, a \in 1..MaxSeq :
        /\ \A k \in 0..m : Span'[<<ee, a, k>>] = Span[<<ee, a, k>>] /\ Span[<<ee, a, k>>] \in Nat
        /\ m + 1 < a \/ Span'[<<ee, a, m + 1>>]
                          = Span'[<<ee, a, m>>] + (IF ee = e THEN L ELSE 0)
        /\ m < a => Span'[<<ee, a, m>>] = 0
  <2> HIDE DEF m
  <2> SUFFICES ASSUME NEW ee \in Eps, NEW a \in 1..MaxSeq
               PROVE
        /\ \A k \in 0..m : Span'[<<ee, a, k>>] = Span[<<ee, a, k>>] /\ Span[<<ee, a, k>>] \in Nat
        /\ m + 1 < a \/ Span'[<<ee, a, m + 1>>]
                          = Span'[<<ee, a, m>>] + (IF ee = e THEN L ELSE 0)
        /\ m < a => Span'[<<ee, a, m>>] = 0
    OBVIOUS
  <2>0. IsSpan(Span, taken, MaxSeq) /\ IsSpan(Span', taken', MaxSeq)
    BY SpanIs
  <2>a. \A i \in 1..m : taken[i] = taken'[i] /\ taken[i].length \in Nat
    BY <1>5, <1>a
  <2>1. \A k \in 0..m : Span[<<ee, a, k>>] = Span'[<<ee, a, k>>]
    BY <1>2, <2>0, <2>a, SpanAgrees
  <2>2. \A k \in 0..m : Span[<<ee, a, k>>] \in Nat
    BY <1>2, <2>0, <2>a, SpanNat
  <2>3. m + 1 < a \/ Span'[<<ee, a, m + 1>>] = Span'[<<ee, a, m + 1 - 1>>] + Part(taken', m + 1, ee)
    <3>1. m + 1 \in 0..MaxSeq
      BY <1>2
    <3>2. \A k \in 0..MaxSeq :
            ~(k < a) => Span'[<<ee, a, k>>] = Span'[<<ee, a, k - 1>>] + Part(taken', k, ee)
      BY <2>0, SpanAt
    <3>3. m \in Int /\ a \in Int
      BY <1>2
    <3> QED BY <3>1, <3>2, <3>3
  <2>4. m + 1 - 1 = m /\ Part(taken', m + 1, ee) = IF ee = e THEN L ELSE 0
    BY <1>2, <1>5 DEF Part
  <2>5. m < a => Span'[<<ee, a, m>>] = 0
    BY <1>2, <2>0, SpanAt
  <2> QED BY <2>1, <2>2, <2>3, <2>4, <2>5
<1>8. \A d, ee, s : ee \in Eps /\ s \in 0..m /\ Enough(d, ee, s)
                     => \A first \in 1..s : taken'[first].ep = ee
                          => taken'[first].at + Span'[<<ee, first, s>>] <= d
  <2> SUFFICES ASSUME NEW d, NEW ee \in Eps, NEW s \in 0..m, Enough(d, ee, s),
                      NEW first \in 1..s, taken'[first].ep = ee
               PROVE  taken'[first].at + Span'[<<ee, first, s>>] <= d
    OBVIOUS
  <2>1. first \in 1..m /\ first \in 1..MaxSeq
    BY <1>2
  <2>2. taken'[first] = taken[first] /\ Span'[<<ee, first, s>>] = Span[<<ee, first, s>>]
    BY <1>5, <1>7, <2>1
  <2> QED BY <2>2 DEF Enough
<1>9. ClockInv'
  <2> SUFFICES ASSUME NEW ee \in Eps, NEW first \in 1..(m + 1), taken'[first].ep = ee
               PROVE  taken'[first].at + Span'[<<ee, first, m + 1>>] <= clock'[ee]
    BY <1>1 DEF ClockInv, Enough
  <2>1. first \in 1..MaxSeq /\ ~(m + 1 < first)
    BY <1>2
  <2>2. Span'[<<ee, first, m + 1>>] = Span'[<<ee, first, m>>] + (IF ee = e THEN L ELSE 0)
    BY <1>7, <2>1
  <2>3. CASE first = m + 1
    <3>1. ee = e /\ taken'[first].at = now /\ clock'[ee] = D
      BY <1>1, <1>2, <1>5, <2>3
    <3>2. Span'[<<ee, first, m>>] = 0
      <4>1. m < first
        BY <1>2, <2>3
      <4> QED BY <1>7, <2>1, <4>1
    <3> QED BY <1>2, <1>4, <2>2, <3>1, <3>2
  <2>4. CASE first # m + 1
    <3>1. first \in 1..m
      BY <1>2, <2>4
    <3>2. Enough(clock[ee], ee, m)
      BY DEF ExactInv, ClockInv
    <3>3. taken'[first].at + Span'[<<ee, first, m>>] <= clock[ee]
      <4>1. m \in 0..m
        BY <1>2
      <4> QED BY <1>8, <3>1, <3>2, <4>1
    <3>4. taken'[first].at \in Nat /\ Span'[<<ee, first, m>>] \in Nat /\ clock[ee] \in Nat
      <4>1. taken'[first].at \in Nat
        BY <1>5, <1>a, <3>1
      <4>2. Span'[<<ee, first, m>>] \in Nat
        <5>1. m \in 0..m
          BY <1>2
        <5> QED BY <1>7, <2>1, <5>1
      <4> QED BY <1>2, <4>1, <4>2
    <3>5. CASE ee = e
      <4>1. clock'[ee] = D
        BY <1>1, <1>2, <3>5
      <4> QED BY <1>2, <1>4, <2>2, <3>3, <3>4, <3>5, <4>1
    <3>6. CASE ee # e
      <4>1. clock'[ee] = clock[ee]
        BY <1>1, <1>2, <3>6
      <4> QED BY <2>2, <3>3, <3>4, <3>6, <4>1
    <3> QED BY <3>5, <3>6
  <2> QED BY <2>3, <2>4
<1>10. \A x \in Entries : /\ InQueue(x)' <=> InQueue(x)
                          /\ InHand(x)' <=> InHand(x)
                          /\ InWork(x)' <=> x = w
                          /\ ~InWork(x)
                          /\ Live(x)' <=> Live(x) \/ x = w
  BY <1>1 DEF InQueue, InHand, InWork, Live
<1>11. \A x \in Entries : Live(x) => /\ x.seq \in 1..m /\ taken[x.seq].ep = x.ep
                                     /\ x.deadline <= clock[x.ep]
                                     /\ Enough(x.deadline, x.ep, x.seq) /\ ~Answered(x.seq)
                                     /\ \A k \in DOMAIN replies :
                                          IsPaced(replies[k]) /\ taken[replies[k].seq].ep = x.ep
                                            => replies[k].seq < x.seq
  BY DEF ExactInv, LiveInv
<1>12. /\ \A k \in DOMAIN replies : /\ replies[k].seq \in 1..m
                                    /\ taken'[replies[k].seq] = taken[replies[k].seq]
       /\ \A s : Answered(s)' <=> Answered(s)
  <2>1. \A k \in DOMAIN replies : replies[k].seq \in 1..m
    BY DEF ExactInv, ReplyInv
  <2> QED BY <1>1, <1>5, <2>1 DEF Answered
<1>13. LiveInv'
  <2> SUFFICES ASSUME NEW x \in Entries, Live(x)'
               PROVE  /\ x.seq \in 1..(m + 1)
                      /\ taken'[x.seq].ep = x.ep
                      /\ x.deadline <= clock'[x.ep]
                      /\ Enough(x.deadline, x.ep, x.seq)'
                      /\ ~Answered(x.seq)'
                      /\ \A k \in DOMAIN replies :
                           IsPaced(replies[k]) /\ taken'[replies[k].seq].ep = x.ep
                             => replies[k].seq < x.seq
    BY <1>1 DEF LiveInv, IsPaced
  <2>0. x.ep \in Eps /\ x.deadline \in Nat
    BY DEF Entries
  <2>1. CASE Live(x)
    <3>1. /\ x.seq \in 1..m /\ taken[x.seq].ep = x.ep /\ x.deadline <= clock[x.ep]
          /\ Enough(x.deadline, x.ep, x.seq) /\ ~Answered(x.seq)
          /\ \A k \in DOMAIN replies :
               IsPaced(replies[k]) /\ taken[replies[k].seq].ep = x.ep => replies[k].seq < x.seq
      BY <1>11, <2>1
    <3>2. x.seq \in 1..(m + 1) /\ x.seq \in 0..m /\ taken'[x.seq].ep = x.ep
      BY <1>2, <1>5, <3>1
    <3>3. x.deadline <= clock'[x.ep]
      <4>1. clock'[x.ep] = IF x.ep = e THEN D ELSE clock[x.ep]
        BY <1>1, <1>2, <2>0
      <4> QED BY <1>2, <1>4, <2>0, <3>1, <4>1
    <3>4. Enough(x.deadline, x.ep, x.seq)'
      BY <1>8, <2>0, <3>1, <3>2 DEF Enough
    <3> QED BY <1>12, <3>1, <3>2, <3>3, <3>4
  <2>2. CASE x = w
    <3>1. x.seq = m + 1 /\ x.ep = e /\ x.deadline = D /\ m + 1 \in 1..(m + 1)
      BY <1>2, <1>6, <2>2
    <3>2. taken'[x.seq].ep = x.ep
      BY <1>5, <3>1
    <3>3. clock'[e] = D
      BY <1>1, <1>2
    <3>4. x.deadline <= clock'[x.ep]
      BY <1>4, <3>1, <3>3
    <3>5. Enough(x.deadline, x.ep, x.seq)'
      BY <1>1, <1>9, <3>1, <3>3 DEF ClockInv, Enough
    <3>6. \A k \in DOMAIN replies : replies[k].seq < x.seq /\ replies[k].seq # x.seq
      BY <1>2, <1>12, <3>1
    <3>7. ~Answered(x.seq)'
      BY <1>12, <3>6 DEF Answered
    <3> QED BY <3>1, <3>2, <3>4, <3>5, <3>6, <3>7
  <2> QED BY <1>10, <2>1, <2>2
<1>14. OrderInv'
  <2> SUFFICES ASSUME NEW x \in Entries, NEW y \in Entries
               PROVE /\ Live(x)' /\ Live(y)' /\ x.ep = y.ep /\ x.seq < y.seq
                          => x.deadline < y.deadline
                     /\ InHand(x)' /\ (InQueue(y)' \/ InWork(y)') /\ x.ep = y.ep => x.seq < y.seq
                     /\ InWork(y)' /\ (InQueue(x)' \/ InHand(x)') => x.seq < y.seq
                     /\ InHand(x)' /\ InQueue(y)' => x.seq # y.seq
    BY DEF OrderInv
  <2>1. /\ Live(x) /\ Live(y) /\ x.ep = y.ep /\ x.seq < y.seq => x.deadline < y.deadline
        /\ InHand(x) /\ InQueue(y) /\ x.ep = y.ep => x.seq < y.seq
        /\ InHand(x) /\ InQueue(y) => x.seq # y.seq
    BY DEF ExactInv, OrderInv
  <2>2. /\ Live(x) => x.seq < w.seq /\ (x.ep = e => x.deadline < D)
        /\ Live(y) => y.seq < w.seq
        /\ w.seq \in Int /\ x.seq \in Int /\ y.seq \in Int
    <3>1. x.seq \in Int /\ y.seq \in Int /\ x.deadline \in Int /\ w.seq = m + 1
      BY <1>6 DEF Entries
    <3> QED BY <1>2, <1>4, <1>11, <3>1
  <2>3. InQueue(x) \/ InHand(x) => Live(x)
    BY DEF Live
  <2>4. Live(x)' /\ Live(y)' /\ x.ep = y.ep /\ x.seq < y.seq => x.deadline < y.deadline
    BY <1>6, <1>10, <2>1, <2>2
  <2> QED BY <1>10, <2>1, <2>2, <2>3, <2>4
<1>15. InOrder'
  <2>1. \A k \in DOMAIN replies' : /\ k \in DOMAIN replies /\ replies'[k] = replies[k]
                                   /\ taken'[replies'[k].seq] = taken[replies[k].seq]
    BY <1>1, <1>12
  <2> QED BY <2>1 DEF ExactInv, InOrder, IsPaced
<1>16. DistinctInv'
  BY <1>1 DEF ExactInv, DistinctInv
<1>17. PlaceInv'
  <2> SUFFICES ASSUME NEW s \in 1..(m + 1)
               PROVE  Unlinked(s)' \/ Answered(s)' \/ \E x \in Entries : Live(x)' /\ x.seq = s
    BY <1>1 DEF PlaceInv
  <2>1. CASE s = m + 1
    BY <1>6, <1>10, <2>1
  <2>2. CASE s # m + 1
    <3>1. s \in 1..m
      BY <1>2, <2>2
    <3>2. Unlinked(s) \/ Answered(s) \/ \E x \in Entries : Live(x) /\ x.seq = s
      BY <3>1 DEF ExactInv, PlaceInv
    <3>3. Unlinked(s) => Unlinked(s)'
      BY <1>1 DEF Unlinked
    <3> QED BY <1>10, <1>12, <3>2, <3>3
  <2> QED BY <2>1, <2>2
<1>18. ReplyInv' /\ UnlinkInv'
  <2>1. \A k \in DOMAIN replies : replies[k].seq \in 1..(m + 1)
    BY <1>2, <1>12
  <2> QED BY <1>1, <2>1 DEF ExactInv, ReplyInv, UnlinkInv
<1> QED BY <1>9, <1>13, <1>14, <1>15, <1>16, <1>17, <1>18 DEF ExactInv

LEMMA InitExact == Init => ExactInv
<1> SUFFICES ASSUME Init PROVE ExactInv
  OBVIOUS
<1>1. pace_list = <<>> /\ replies = <<>> /\ submitted = 0 /\ pacer = "none" /\ serve = "read"
  BY DEF Init
<1>2. \A x \in Entries : ~Live(x) /\ ~InQueue(x) /\ ~InHand(x) /\ ~InWork(x)
  BY <1>1 DEF Live, InQueue, InHand, InWork
<1>3. ClockInv /\ LiveInv /\ OrderInv
  BY <1>1, <1>2 DEF ClockInv, Enough, LiveInv, OrderInv
<1>4. DistinctInv /\ PlaceInv /\ ReplyInv /\ UnlinkInv /\ InOrder
  BY <1>1 DEF DistinctInv, PlaceInv, ReplyInv, UnlinkInv, InOrder
<1> QED BY <1>3, <1>4 DEF ExactInv

LEMMA NextExact ==
  ASSUME Inv, Inv', ExactInv, [Next]_vars
  PROVE  ExactInv'
<1>0. now \in Nat
  BY DEF Inv, TypeOK
<1>1. CASE \E e \in Eps, n \in Packets : Dispatch_Iso(e, n)
  BY <1>1, ExactDispatch
<1>2. CASE \E s \in 1..MaxSeq : Unlink(s)
  BY <1>2, ExactUnlink
<1>3. CASE PaceSubmit
  BY <1>3, ExactSubmit
<1>4. CASE PaceSubmit_Now
  BY <1>4, ExactSubmitNow
<1>5. CASE Unlink_Reply
  BY <1>5, ExactUnlinkReply
<1>6. CASE Pacer_Take
  BY <1>6, ExactTake
<1>7. CASE Pacer_Send
  BY <1>7, ExactSend
<1>8. CASE Tick \/ HostGone \/ PacerStop \/ PacerStop_Join
  <2>1. Tick => Idle
    BY <1>0 DEF Tick, Idle, pacevars, pacervars
  <2>2. HostGone => Idle
    BY <1>0 DEF HostGone, Idle, pacevars, pacervars
  <2>3. PacerStop => Idle
    BY <1>0 DEF PacerStop, StopSignal, Signalled, Idle
  <2>4. PacerStop_Join => Idle
    BY <1>0 DEF PacerStop_Join, Idle, pacervars
  <2> QED BY <1>8, <2>1, <2>2, <2>3, <2>4, IdleStep
<1>9. CASE Pacer_Empty \/ Pacer_Sleep \/ Pacer_Wake \/ Pacer_Spurious
  <2>1. Pacer_Empty \/ Pacer_Wake \/ Pacer_Spurious => Idle
    BY <1>0 DEF Pacer_Empty, Pacer_Wake, Pacer_Spurious, Idle, pacevars
  <2>2. Pacer_Sleep => Idle
    BY <1>0 DEF Pacer_Sleep, Idle, pacevars
  <2> QED BY <1>9, <2>1, <2>2, IdleStep
<1>10. CASE UNCHANGED vars
  <2>1. Idle
    BY <1>0, <1>10 DEF Idle, vars, pacevars, pacervars
  <2> QED BY <2>1, IdleStep
<1> QED BY <1>1, <1>2, <1>3, <1>4, <1>5, <1>6, <1>7, <1>8, <1>9, <1>10
        DEF Next, ServeStep, PacerStep, Done

\* Every URB is where the invariant says.
LEMMA ExactIsAccounted ==
  ASSUME Inv, ExactInv
  PROVE  Accounted
<1> SUFFICES ASSUME NEW s \in 1..submitted
             PROVE  /\ \/ Unlinked(s)
                       \/ TRUE \in {serve = "queue" /\ InList(work, s), InList(pace_list, s),
                                    InList(entry, s), Answered(s)}
                    /\ ~(InList(pace_list, s) /\ InList(entry, s))
                    /\ ~(Answered(s) /\ (InList(pace_list, s) \/ InList(entry, s)))
  BY DEF Accounted
<1>1. /\ serve = "queue" => work[1] \in Entries /\ DOMAIN work = {1}
      /\ pacer = "send" => entry[1] \in Entries /\ DOMAIN entry = {1}
      /\ \A i \in DOMAIN pace_list : pace_list[i] \in Entries
  BY HeldAreEntries
<1>2. pacer # "send" => entry = <<>>
  BY DEF Inv, HandInv
<1>3. InList(pace_list, s) => \E x \in Entries : InQueue(x) /\ x.seq = s
  BY <1>1 DEF InList, InQueue
<1>4. InList(entry, s) => \E x \in Entries : InHand(x) /\ x.seq = s
  BY <1>1, <1>2 DEF InList, InHand
<1>5. ~(InList(pace_list, s) /\ InList(entry, s))
  BY <1>3, <1>4 DEF ExactInv, OrderInv
<1>6. ~(Answered(s) /\ (InList(pace_list, s) \/ InList(entry, s)))
  BY <1>3, <1>4 DEF ExactInv, LiveInv, Live
<1>7. Unlinked(s) \/ Answered(s) \/ \E x \in Entries : Live(x) /\ x.seq = s
  BY DEF ExactInv, PlaceInv
<1>8. ASSUME NEW x \in Entries, Live(x), x.seq = s
      PROVE  (serve = "queue" /\ InList(work, s)) \/ InList(pace_list, s) \/ InList(entry, s)
  <2>1. CASE InQueue(x)
    BY <1>8, <2>1 DEF InList, InQueue
  <2>2. CASE InHand(x)
    BY <1>1, <1>8, <2>2 DEF InList, InHand
  <2>3. CASE InWork(x)
    BY <1>1, <1>8, <2>3 DEF InList, InWork
  <2> QED BY <1>8, <2>1, <2>2, <2>3 DEF Live
<1>9. \/ Unlinked(s)
      \/ serve = "queue" /\ InList(work, s)
      \/ InList(pace_list, s)
      \/ InList(entry, s)
      \/ Answered(s)
  BY <1>7, <1>8
<1>10. \/ Unlinked(s)
       \/ TRUE \in {serve = "queue" /\ InList(work, s), InList(pace_list, s),
                    InList(entry, s), Answered(s)}
  <2>1. (serve = "queue" /\ InList(work, s)) \in BOOLEAN /\ InList(pace_list, s) \in BOOLEAN
        /\ InList(entry, s) \in BOOLEAN /\ Answered(s) \in BOOLEAN
    BY DEF InList, Answered
  <2> QED BY <1>9, <2>1, Zenon
<1> QED BY <1>5, <1>6, <1>10

\* Only the pacer's send adds a paced reply, and what it sends is due.
LEMMA SendIsDue ==
  ASSUME Inv, ExactInv, [Next]_vars
  PROVE  SendsInRealTime
<1>1. CASE Pacer_Send
  <2> SUFFICES ASSUME ~pace_stop
               PROVE  \A first \in 1..(replies'[Len(replies')].seq) :
                        taken[first].ep = taken[replies'[Len(replies')].seq].ep
                          => now >= taken[first].at
                                    + Span[<<taken[replies'[Len(replies')].seq].ep, first,
                                             replies'[Len(replies')].seq>>]
    BY DEF SendsInRealTime
  <2> DEFINE z == entry[1]
  <2>1. pacer = "send" /\ replies' = Append(replies, [seq |-> z.seq, kind |-> "submit"])
    BY <1>1 DEF Pacer_Send, Send
  <2>2. replies'[Len(replies')].seq = z.seq
    BY <2>1 DEF Inv, TypeOK
  <2>3. z \in Entries /\ Live(z)
    BY <2>1, HeldAreEntries DEF Live, InHand
  <2>4. /\ z.seq \in 1..submitted /\ taken[z.seq].ep = z.ep
        /\ Enough(z.deadline, z.ep, z.seq) /\ z.deadline <= now
    BY <2>1, <2>3 DEF ExactInv, LiveInv, ReplyInv
  <2>5. z.deadline \in Int /\ now \in Int /\ z.seq \in 1..MaxSeq /\ z.ep \in Eps
    BY <2>3 DEF Inv, TypeOK, Entries
  <2> HIDE DEF z
  <2>6. SUFFICES ASSUME NEW first \in 1..z.seq, taken[first].ep = z.ep
                 PROVE  now >= taken[first].at + Span[<<z.ep, first, z.seq>>]
    BY <2>2, <2>4
  <2>7. taken[first].at + Span[<<z.ep, first, z.seq>>] <= z.deadline
    BY <2>4, <2>6 DEF Enough
  <2>8. taken[first].at \in Int /\ Span[<<z.ep, first, z.seq>>] \in Int
    <3>1. /\ taken \in Seq([ep : Eps, at : 0..MaxTime, length : 1..MaxTime])
          /\ Len(taken) = submitted /\ submitted \in 0..MaxSeq
      BY DEF Inv, TypeOK, HandInv
    <3>2. \A i \in 1..submitted : taken[i] \in [ep : Eps, at : 0..MaxTime, length : 1..MaxTime]
      BY <3>1, ElementOfSeq
    <3>3. first \in 1..submitted /\ first \in 1..MaxSeq /\ z.seq \in 0..submitted
      BY <2>4, <2>5, <3>1, PacerAssumption, SMTT(30)
    <3>4. \A i \in 1..submitted : taken[i].length \in Nat /\ taken[i].at \in Nat
      BY <3>2
    <3>5. \A k \in 0..submitted : Span[<<z.ep, first, k>>] \in Nat
      BY <2>5, <3>1, <3>3, <3>4, SpanIs, SpanNat
    <3> QED BY <3>3, <3>4, <3>5
  <2> QED BY <2>4, <2>5, <2>7, <2>8
<1>2. CASE PaceSubmit_Now \/ Unlink_Reply
  <2>1. PICK q, kind : kind # "submit" /\ replies' = Append(replies, [seq |-> q, kind |-> kind])
    <3>1. "now" # "submit" /\ "unlink" # "submit"
      OBVIOUS
    <3> QED BY <1>2, <3>1 DEF PaceSubmit_Now, Unlink_Reply, Send
  <2>2. replies'[Len(replies')] = [seq |-> q, kind |-> kind]
    BY <2>1 DEF Inv, TypeOK
  <2>3. ~IsPaced(replies'[Len(replies')])
    BY <2>1, <2>2 DEF IsPaced
  <2> QED BY <2>3 DEF SendsInRealTime
<1>3. CASE replies' = replies
  BY <1>3 DEF SendsInRealTime
<1>4. Pacer_Send \/ PaceSubmit_Now \/ Unlink_Reply \/ replies' = replies
  BY DEF Next, ServeStep, PacerStep, Tick, Dispatch_Iso, Unlink, HostGone, PaceSubmit, PacerStop,
         PacerStop_Join, Pacer_Empty, Pacer_Sleep, Pacer_Take, Pacer_Wake, Pacer_Spurious, Done,
         vars
<1> QED BY <1>1, <1>2, <1>3, <1>4

\* The paced completions are exact: they leave in the order of their endpoint's URBs, every
\* URB is in one place and answered at most once, and while the connection stands none is
\* sent before its packets and all before them could have been on the bus.
THEOREM CompletionsAreExactHold == Spec => CompletionsAreExact
<1>1. Spec => []Inv
  BY InvHolds
<1>2. Init => ExactInv
  BY InitExact
<1>3. Inv /\ Inv' /\ ExactInv /\ [Next]_vars => ExactInv'
  BY NextExact
<1>4. Inv /\ ExactInv => InOrder /\ Accounted
  BY ExactIsAccounted DEF ExactInv
<1>5. Inv /\ ExactInv /\ [Next]_vars => [SendsInRealTime]_vars
  BY SendIsDue
<1> QED BY <1>1, <1>2, <1>3, <1>4, <1>5, PTL DEF Spec, CompletionsAreExact, RealTime
=============================================================================
