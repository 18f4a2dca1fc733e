---------------------------- MODULE ClassProofs ----------------------------
(***************************************************************************)
(* Theorems about the device classes and the packet capture, for any       *)
(* number of targets, blocks, reports, threads and devices.  The model     *)
(* checker's composition of the classes runs one of them and leaves the    *)
(* others alone, so each has a specification of its own here.              *)
(***************************************************************************)
EXTENDS MscBot, Dfu, CdcAcm, Hid, Pcap, Bluetooth, Uac, Uvc, Mtp, SequenceTheorems,
        FiniteSetTheorems, WellFoundedInduction, TLAPS

-----------------------------------------------------------------------------
(* DFU                                                                     *)

DfuSpec == DfuInit /\ [][DfuNext]_dfuvars

DfuTypes ==
  /\ cur \in Targets
  /\ image \in [Targets -> [0..(BlockNumbers - 1) -> Nat]]
  /\ committed \in [Targets -> Seq([0..(BlockNumbers - 1) -> Nat])]
  /\ job \in [n : Nat, target : Targets, length : Nat, sent : Nat]
  /\ strays \in Nat
  /\ stage # "ready" => job.length \in ImageLengths

\* The first k blocks of download n, and nothing else.
Prefix(k, n) == [o \in 0..(BlockNumbers - 1) |-> IF o < k THEN n ELSE 0]

\* How far the backend of the download's target is, as long as no request came out of turn:
\* what the host was told of is there, and only that.
DfuProgress ==
  strays = 0 =>
    /\ stage # "ready" => cur = job.target
    /\ stage = "blocks" => /\ job.sent < job.length
                           /\ job.sent > 0 => image[cur] = Prefix(job.sent, job.n)
    /\ stage = "poll" => /\ job.sent \in 1..job.length
                         /\ state # "error" => image[cur] = Prefix(job.sent, job.n)
    /\ stage = "end" => image[cur] = Prefix(job.length, job.n)
    /\ stage = "done" => committed[cur] = <<Prefix(job.length, job.n)>>

DfuInv == DfuTypes /\ DfuProgress /\ StatusMatchesState

\* A backend that takes blocks up to k takes the next one, and block 0 starts over.
LEMMA PrefixGrows ==
  ASSUME NEW k \in 0..(BlockNumbers - 1), NEW n \in Nat, NEW img,
         k > 0 => img = Prefix(k, n)
  PROVE  [(IF k = 0 THEN Blank ELSE img) EXCEPT ![k] = n] = Prefix(k + 1, n)
<1> DEFINE old == IF k = 0 THEN Blank ELSE img
<1>1. BlockNumbers \in Nat
  BY DfuAssumption
<1>2. old = [o \in 0..(BlockNumbers - 1) |-> IF o < k THEN n ELSE 0]
  <2>1. CASE k = 0
    BY <1>1, <2>1 DEF Blank
  <2>2. CASE k > 0
    <3>1. k # 0 /\ img = Prefix(k, n)
      BY <2>2
    <3> QED BY <3>1 DEF Prefix
  <2> QED BY <1>1, <2>1, <2>2
<1> HIDE DEF old
<1>3. [old EXCEPT ![k] = n] = [o \in 0..(BlockNumbers - 1) |-> IF o = k THEN n ELSE old[o]]
  BY <1>2
<1>4. \A o \in 0..(BlockNumbers - 1) :
        (IF o = k THEN n ELSE old[o]) = IF o < k + 1 THEN n ELSE 0
  BY <1>1, <1>2
<1>5. [old EXCEPT ![k] = n] = Prefix(k + 1, n)
  BY <1>3, <1>4 DEF Prefix
<1> QED BY <1>5 DEF old

LEMMA DfuInitInv == DfuInit => DfuInv
<1> SUFFICES ASSUME DfuInit PROVE DfuInv
  OBVIOUS
<1>1. DfuTypes
  <2>1. Blank \in [0..(BlockNumbers - 1) -> Nat] /\ 0 \in Targets
    BY DfuAssumption DEF Blank
  <2> QED BY <2>1 DEF DfuInit, DfuTypes, NoJob
<1>2. DfuProgress /\ StatusMatchesState
  BY DEF DfuInit, DfuProgress, StatusMatchesState
<1> QED BY <1>1, <1>2 DEF DfuInv

\* Whatever the request, the targets keep their types and an error has its status.
DfuKeeps ==
  /\ cur' \in Targets
  /\ image' \in [Targets -> [0..(BlockNumbers - 1) -> Nat]]
  /\ committed' \in [Targets -> Seq([0..(BlockNumbers - 1) -> Nat])]
  /\ StatusMatchesState'

LEMMA DnloadKeeps ==
  ASSUME DfuInv, NEW b \in 0..(BlockNumbers - 1), NEW n \in Nat, Dnload(b, n)
  PROVE  DfuKeeps
<1> DEFINE I == [0..(BlockNumbers - 1) -> Nat]
<1>1. cur \in Targets /\ image \in [Targets -> I] /\ committed \in [Targets -> Seq(I)]
  BY DEF DfuInv, DfuTypes
<1>2. Begun(b) \in I /\ [Begun(b) EXCEPT ![b] = n] \in I
  <2>1. Blank \in I
    BY DEF Blank
  <2>2. Begun(b) \in I
    BY <1>1, <2>1 DEF Begun
  <2> QED BY <2>2
<1> HIDE DEF I
<1>3. image' \in [Targets -> I]
  BY <1>1, <1>2 DEF Dnload
<1>4. StatusMatchesState'
  BY DEF Dnload, FailedState, StatusMatchesState
<1>5. cur' \in Targets /\ committed' \in [Targets -> Seq(I)]
  BY <1>1 DEF Dnload
<1> QED BY <1>3, <1>4, <1>5 DEF DfuKeeps, I

LEMMA RequestKeeps ==
  ASSUME DfuInv,
         \/ DnloadEnd
         \/ Upload
         \/ GetStatus
         \/ ToIdle
         \/ \E a \in Alts : SetAlt(a)
  PROVE  DfuKeeps
<1> DEFINE I == [0..(BlockNumbers - 1) -> Nat]
<1>1. cur \in Targets /\ image \in [Targets -> I] /\ committed \in [Targets -> Seq(I)]
  BY DEF DfuInv, DfuTypes
<1>2. StatusMatchesState
  BY DEF DfuInv
<1> HIDE DEF I
<1>3. CASE DnloadEnd
  <2>1. <<image[cur]>> \in Seq(I)
    BY <1>1
  <2>2. committed' \in [Targets -> Seq(I)]
    BY <1>1, <1>3, <2>1 DEF DnloadEnd
  <2> QED BY <1>1, <1>3, <2>2 DEF DnloadEnd, DfuKeeps, StatusMatchesState, I
<1>4. CASE Upload \/ ToIdle
  BY <1>1, <1>4 DEF Upload, ToIdle, DfuKeeps, StatusMatchesState, I
<1>5. CASE GetStatus
  <2>1. state' = "error" <=> state = "error"
    <3>1. CASE state = "dnload_sync"
      BY <1>5, <3>1 DEF GetStatus
    <3>2. CASE state = "manifest_sync"
      BY <1>5, <3>2 DEF GetStatus
    <3>3. CASE state # "dnload_sync" /\ state # "manifest_sync"
      BY <1>5, <3>3 DEF GetStatus
    <3> QED BY <3>1, <3>2, <3>3
  <2> QED BY <1>1, <1>2, <1>5, <2>1 DEF GetStatus, DfuKeeps, StatusMatchesState, I
<1>6. CASE \E a \in Alts : SetAlt(a)
  <2>1. PICK a \in Alts : SetAlt(a)
    BY <1>6
  <2>2. cur' \in Targets
    BY <1>1, <2>1 DEF SetAlt, Selected
  <2>3. StatusMatchesState'
    BY <1>2, <2>1 DEF SetAlt, StatusMatchesState
  <2> QED BY <1>1, <2>1, <2>2, <2>3 DEF SetAlt, DfuKeeps, I
<1> QED BY <1>3, <1>4, <1>5, <1>6

LEMMA DfuNextInv ==
  ASSUME \A l \in ImageLengths : l <= BlockNumbers, DfuInv, [DfuNext]_dfuvars
  PROVE  DfuInv'
<1>0. /\ cur \in Targets /\ image \in [Targets -> [0..(BlockNumbers - 1) -> Nat]]
      /\ committed \in [Targets -> Seq([0..(BlockNumbers - 1) -> Nat])]
      /\ job \in [n : Nat, target : Targets, length : Nat, sent : Nat] /\ strays \in Nat
      /\ stage # "ready" => job.length \in ImageLengths
  BY DEF DfuInv, DfuTypes
<1>n. BlockNumbers \in Nat \ {0} /\ \A l \in ImageLengths : l \in Nat \ {0}
  BY DfuAssumption
<1>1. ASSUME NEW t \in Targets, NEW l \in ImageLengths, Start(t, l)
      PROVE  DfuInv'
  <2>1. DfuKeeps
    <3>1. t \in Alts
      BY DfuAssumption
    <3> QED BY <1>1, <3>1, RequestKeeps DEF Start
  <2>2. /\ stage' = "blocks" /\ strays' = strays /\ cur' = t
        /\ job' = [n |-> job.n + 1, target |-> t, length |-> l, sent |-> 0]
    BY <1>1 DEF Start, SetAlt, Selected
  <2>3. job'.n \in Nat /\ job'.target = t /\ job'.length = l /\ job'.sent = 0
        /\ job' \in [n : Nat, target : Targets, length : Nat, sent : Nat]
    BY <1>0, <1>n, <2>2, SMTT(30)
  <2>4. DfuTypes'
    BY <1>0, <1>1, <2>1, <2>2, <2>3 DEF DfuKeeps, DfuTypes
  <2>5. DfuProgress'
    <3>1. 0 < l /\ ~(0 > 0)
      BY <1>n
    <3> QED BY <2>2, <2>3, <3>1 DEF DfuProgress
  <2> QED BY <2>1, <2>4, <2>5 DEF DfuInv, DfuKeeps
<1>2. CASE SendBlock
  <2> DEFINE b == job.sent % BlockNumbers
  <2>1. /\ stage = "blocks" /\ Dnload(b, job.n) /\ stage' = "poll" /\ strays' = strays
        /\ job' = [job EXCEPT !.sent = @ + 1]
    BY <1>2 DEF SendBlock
  <2>2. b \in 0..(BlockNumbers - 1) /\ job.n \in Nat
    BY <1>0, <1>n
  <2>3. DfuKeeps
    BY <2>1, <2>2, DnloadKeeps
  <2>4. /\ job'.n = job.n /\ job'.target = job.target /\ job'.length = job.length
        /\ job'.sent = job.sent + 1
        /\ job' \in [n : Nat, target : Targets, length : Nat, sent : Nat]
    BY <1>0, <2>1
  <2>5. DfuTypes'
    BY <1>0, <2>1, <2>3, <2>4 DEF DfuKeeps, DfuTypes
  <2>6. DfuProgress'
    <3> SUFFICES ASSUME strays = 0
                 PROVE  /\ cur' = job.target /\ job.sent + 1 \in 1..job.length
                        /\ state' # "error" => image'[cur] = Prefix(job.sent + 1, job.n)
      <4>1. cur' = cur
        BY <2>1 DEF Dnload
      <4> QED BY <2>1, <2>4, <4>1 DEF DfuProgress, Prefix
    <3>1. /\ cur = job.target /\ job.sent < job.length
          /\ job.sent > 0 => image[cur] = Prefix(job.sent, job.n)
      BY <2>1 DEF DfuInv, DfuProgress
    <3>2. cur' = job.target
      BY <2>1, <3>1 DEF Dnload
    <3>3. job.sent \in Nat /\ job.length \in Nat /\ job.length <= BlockNumbers
      BY <1>0, <2>1
    <3>4. job.sent + 1 \in 1..job.length /\ b = job.sent
      BY <1>n, <3>1, <3>3
    <3> HIDE DEF b
    <3>5. state' # "error" => image'[cur] = Prefix(job.sent + 1, job.n)
      <4> SUFFICES ASSUME state' # "error" PROVE image'[cur] = Prefix(job.sent + 1, job.n)
        OBVIOUS
      <4>1. image' = [image EXCEPT ![cur] = [Begun(b) EXCEPT ![b] = job.n]]
        BY <2>1 DEF Dnload, FailedState
      <4>2. image'[cur] = [Begun(b) EXCEPT ![b] = job.n]
        BY <1>0, <4>1
      <4>3. [(IF b = 0 THEN Blank ELSE image[cur]) EXCEPT ![b] = job.n] = Prefix(b + 1, job.n)
        BY <2>2, <3>1, <3>4, PrefixGrows
      <4> QED BY <3>4, <4>2, <4>3 DEF Begun
    <3> QED BY <3>2, <3>4, <3>5
  <2> QED BY <2>3, <2>5, <2>6 DEF DfuInv, DfuKeeps
<1>3. CASE SendEnd
  <2>1. /\ stage = "end" /\ DnloadEnd /\ stage' = "done" /\ UNCHANGED <<job, strays>>
    BY <1>3 DEF SendEnd
  <2>2. DfuKeeps
    BY <2>1, RequestKeeps
  <2>3. DfuTypes'
    BY <1>0, <2>1, <2>2 DEF DfuKeeps, DfuTypes
  <2>4. committed'[cur] = <<image[cur]>> /\ cur' = cur
    BY <1>0, <2>1 DEF DnloadEnd
  <2>5. DfuProgress'
    <3>1. strays = 0 => cur = job.target /\ image[cur] = Prefix(job.length, job.n)
      BY <2>1 DEF DfuInv, DfuProgress
    <3> QED BY <2>1, <2>4, <3>1 DEF DfuProgress, Prefix
  <2> QED BY <2>2, <2>3, <2>5 DEF DfuInv, DfuKeeps
<1>4. CASE Poll
  <2>1. /\ stage = "poll" /\ state # "error" /\ GetStatus /\ UNCHANGED <<job, strays>>
        /\ stage' = IF job.sent = job.length THEN "end" ELSE "blocks"
    BY <1>4 DEF Poll
  <2>2. DfuKeeps
    BY <2>1, RequestKeeps
  <2>3. DfuTypes'
    BY <1>0, <2>1, <2>2 DEF DfuKeeps, DfuTypes
  <2>4. UNCHANGED <<cur, image, committed>>
    BY <2>1 DEF GetStatus
  <2>5. DfuProgress'
    <3>1. strays = 0 => /\ cur = job.target /\ image[cur] = Prefix(job.sent, job.n)
                        /\ job.sent \in 1..job.length
      BY <2>1 DEF DfuInv, DfuProgress
    <3>2. job.sent \in Nat /\ job.length \in Nat
      BY <1>0
    <3>3. CASE job.sent = job.length
      <4>1. stage' = "end"
        BY <2>1, <3>3
      <4> QED BY <2>1, <2>4, <3>1, <3>3, <4>1 DEF DfuProgress, Prefix
    <3>4. CASE job.sent # job.length
      <4>1. stage' = "blocks"
        BY <2>1, <3>4
      <4>2. strays = 0 => job.sent < job.length
        BY <3>1, <3>2, <3>4
      <4> QED BY <2>1, <2>4, <3>1, <4>1, <4>2 DEF DfuProgress, Prefix
    <3> QED BY <3>3, <3>4
  <2> QED BY <2>2, <2>3, <2>5 DEF DfuInv, DfuKeeps
<1>5. CASE PollError \/ Finish \/ Abort \/ ReadBack
  <2>1. /\ stage' = "ready" /\ UNCHANGED <<job, strays>>
        /\ ToIdle \/ GetStatus \/ Upload
    BY <1>5 DEF PollError, Finish, Abort, ReadBack, dfuhost
  <2>2. DfuKeeps
    BY <2>1, RequestKeeps
  <2>3. DfuTypes' /\ DfuProgress'
    BY <1>0, <2>1, <2>2 DEF DfuKeeps, DfuTypes, DfuProgress
  <2> QED BY <2>2, <2>3 DEF DfuInv, DfuKeeps
<1>6. CASE AnyRequest
  <2>1. strays' = strays + 1 /\ UNCHANGED <<stage, job>>
    BY <1>6 DEF AnyRequest, dfuhost
  <2>2. DfuKeeps
    <3>1. job.n \in Nat
      BY <1>0
    <3> QED BY <1>6, <3>1, DnloadKeeps, RequestKeeps DEF AnyRequest
  <2>3. strays' \in Nat /\ strays' # 0
    BY <1>0, <2>1
  <2>4. DfuTypes' /\ DfuProgress'
    BY <1>0, <2>1, <2>2, <2>3 DEF DfuKeeps, DfuTypes, DfuProgress
  <2> QED BY <2>2, <2>4 DEF DfuInv, DfuKeeps
<1>7. CASE UNCHANGED dfuvars
  BY <1>7 DEF DfuInv, DfuTypes, DfuProgress, StatusMatchesState, Prefix, dfuvars, dfudev, dfuhost
<1> QED BY <1>1, <1>2, <1>3, <1>4, <1>5, <1>6, <1>7 DEF DfuNext

\* What a target commits is the whole image of one download, what the host was told is
\* taken is there, and an error status goes with dfuERROR, for images of as many blocks as
\* a wValue can number (a longer one starts over at block 0) and requests in any order.
THEOREM DownloadIsSoundHolds ==
  ASSUME \A l \in ImageLengths : l <= BlockNumbers
  PROVE  DfuSpec => []DownloadIsSound
<1>1. DfuInv => DownloadIsSound
  <2> SUFFICES ASSUME DfuInv PROVE DownloadIsSound
    OBVIOUS
  <2>1. OneImage
    BY DEF DfuInv, DfuProgress, OneImage, Prefix
  <2>2. AckedIsKept
    <3> SUFFICES ASSUME stage = "end", strays = 0, NEW o \in 0..(job.length - 1)
                 PROVE  image[job.target][o % BlockNumbers] = job.n
      BY DEF AckedIsKept
    <3>1. cur = job.target /\ image[cur] = Prefix(job.length, job.n)
      BY DEF DfuInv, DfuProgress
    <3>2. job.length \in Nat /\ job.length <= BlockNumbers /\ BlockNumbers \in Nat
      BY DfuAssumption DEF DfuInv, DfuTypes
    <3>3. o % BlockNumbers = o /\ o \in 0..(BlockNumbers - 1) /\ o < job.length
      BY <3>2
    <3> QED BY <3>1, <3>3 DEF Prefix
  <2> QED BY <2>1, <2>2 DEF DfuInv, DownloadIsSound
<1> QED BY <1>1, DfuInitInv, DfuNextInv, PTL DEF DfuSpec

-----------------------------------------------------------------------------
(* CDC-ACM                                                                 *)

CdcSpec == CdcInit /\ [][CdcNext]_cdcvars

CdcTypes ==
  /\ port.is_open \in BOOLEAN
  /\ port = [is_open |-> port.is_open, coding |-> port.coding]
  /\ serial_app.open \in BOOLEAN
  /\ serial_app = [open |-> serial_app.open, opens |-> serial_app.opens, coding |-> serial_app.coding]
  /\ terminal.dtr \in BOOLEAN
  /\ terminal = [dtr |-> terminal.dtr, coding |-> terminal.coding]

\* The application's idea of the port is the port's.
CdcInv == CdcTypes /\ PortIsTrue /\ serial_app.open = port.is_open

\* The four bytes of a number below 2^31 are what it is put together from.
Rate(a, b, c, d) == a + 256 * b + (256 * 256) * c + (256 * 256 * 256) * d
IsRate(r, a, b, c, d) ==
  /\ r \in Nat
  /\ r % 256 = a
  /\ (r \div 256) % 256 = b
  /\ (r \div (256 * 256)) % 256 = c
  /\ (r \div (256 * 256 * 256)) % 256 = d

LEMMA RateBytes ==
  ASSUME NEW a \in 0..255, NEW b \in 0..255, NEW c \in 0..255, NEW d \in 0..127
  PROVE  IsRate(Rate(a, b, c, d), a, b, c, d)
<1> DEFINE r == a + 256 * b + (256 * 256) * c + (256 * 256 * 256) * d
<1>1. r \div 256 = b + 256 * c + (256 * 256) * d /\ r % 256 = a /\ r \in Nat
  OBVIOUS
<1>2. r \div (256 * 256) = c + 256 * d
  OBVIOUS
<1>3. r \div (256 * 256 * 256) = d
  OBVIOUS
<1>4. (b + 256 * c + (256 * 256) * d) % 256 = b /\ (c + 256 * d) % 256 = c /\ d % 256 = d
  OBVIOUS
<1> HIDE DEF r
<1>5. IsRate(r, a, b, c, d)
  BY <1>1, <1>2, <1>3, <1>4 DEF IsRate
<1> QED BY <1>5 DEF Rate, r

\* GET_LINE_CODING returns the bytes SET_LINE_CODING brought.
LEMMA CodingRoundTrip ==
  ASSUME NEW w \in Codings
  PROVE  coding_to_wire(coding_from_wire(w)) = w
<1>1. w \in [1..7 -> 0..255] /\ w[4] < 128
  BY CdcAssumption
<1>2. 2^8 = 256 /\ 2^16 = 256 * 256 /\ 2^24 = 256 * 256 * 256
      /\ 2^(8 * (1 - 1)) = 1 /\ 2^(8 * (2 - 1)) = 256 /\ 2^(8 * (3 - 1)) = 256 * 256
      /\ 2^(8 * (4 - 1)) = 256 * 256 * 256
  OBVIOUS
<1>3. w[1] \in 0..255 /\ w[2] \in 0..255 /\ w[3] \in 0..255 /\ w[4] \in 0..127
  BY <1>1
<1> DEFINE c == coding_from_wire(w)
           rate == Rate(w[1], w[2], w[3], w[4])
<1>4. c.baud = rate /\ c.stop_bits = w[5] /\ c.parity = w[6] /\ c.data_bits = w[7]
  BY <1>2 DEF coding_from_wire, Rate
<1>5. IsRate(rate, w[1], w[2], w[3], w[4])
  BY <1>3, RateBytes
<1> HIDE DEF c, rate
<1> DEFINE s == [i \in 1..4 |-> (c.baud \div 2^(8 * (i - 1))) % 256]
           t == <<c.stop_bits, c.parity, c.data_bits>>
<1>7. s[1] = w[1] /\ s[2] = w[2] /\ s[3] = w[3] /\ s[4] = w[4]
  <2>1. rate \div 1 = rate
    BY <1>5 DEF IsRate
  <2>2. /\ s[1] = (c.baud \div 2^(8 * (1 - 1))) % 256
        /\ s[2] = (c.baud \div 2^(8 * (2 - 1))) % 256
        /\ s[3] = (c.baud \div 2^(8 * (3 - 1))) % 256
        /\ s[4] = (c.baud \div 2^(8 * (4 - 1))) % 256
    OBVIOUS
  <2> HIDE DEF s
  <2> QED BY <1>2, <1>4, <1>5, <2>1, <2>2 DEF IsRate
<1>8. DOMAIN s = 1..4 /\ s = [i \in 1..4 |-> s[i]]
  OBVIOUS
<1>9. t \in Seq(0..255) /\ Len(t) = 3 /\ t[1] = w[5] /\ t[2] = w[6] /\ t[3] = w[7]
  BY <1>1, <1>4
<1> HIDE DEF s, t
<1>10. s \in Seq(0..255) /\ Len(s) = 4
  <2>1. s[1] \in 0..255 /\ s[2] \in 0..255 /\ s[3] \in 0..255 /\ s[4] \in 0..255
    BY <1>3, <1>7
  <2>2. \A i \in 1..4 : i = 1 \/ i = 2 \/ i = 3 \/ i = 4
    OBVIOUS
  <2>3. \A i \in 1..4 : s[i] \in 0..255
    BY <2>1, <2>2
  <2> QED BY <1>8, <2>3
<1>11. /\ s \o t \in Seq(0..255) /\ Len(s \o t) = 7
       /\ \A i \in 1..7 : (s \o t)[i] = IF i <= 4 THEN s[i] ELSE t[i - 4]
  <2>1. /\ s \o t \in Seq(0..255)
        /\ Len(s \o t) = Len(s) + Len(t)
        /\ \A i \in 1..(Len(s) + Len(t)) : (s \o t)[i] = IF i <= Len(s) THEN s[i] ELSE t[i - Len(s)]
    BY <1>9, <1>10, ConcatProperties, ZenonT(30)
  <2> QED BY <1>9, <1>10, <2>1
<1> DEFINE u == s \o t
<1> HIDE DEF u
<1>12. /\ u[1] = w[1] /\ u[2] = w[2] /\ u[3] = w[3] /\ u[4] = w[4]
       /\ u[5] = w[5] /\ u[6] = w[6] /\ u[7] = w[7]
  <2>1. u[1] = s[1] /\ u[2] = s[2] /\ u[3] = s[3] /\ u[4] = s[4]
    BY <1>11, SMTT(30) DEF u
  <2>2. u[5] = t[1] /\ u[6] = t[2] /\ u[7] = t[3]
    BY <1>11, SMTT(30) DEF u
  <2> QED BY <1>7, <1>9, <2>1, <2>2
<1>13. u = w
  <2>1. u \in Seq(0..255) /\ Len(u) = 7
    BY <1>11 DEF u
  <2>2. DOMAIN u = 1..7 /\ u = [i \in 1..7 |-> u[i]]
    BY <2>1
  <2>3. \A i \in 1..7 : i = 1 \/ i = 2 \/ i = 3 \/ i = 4 \/ i = 5 \/ i = 6 \/ i = 7
    OBVIOUS
  <2>4. \A i \in 1..7 : u[i] = w[i]
    BY <1>12, <2>3
  <2>5. w = [i \in 1..7 |-> w[i]]
    BY <1>1
  <2> QED BY <2>2, <2>4, <2>5
<1>14. coding_to_wire(coding_from_wire(w)) = u
  BY DEF coding_to_wire, u, s, t, c
<1> QED BY <1>13, <1>14

LEMMA CdcInitInv == CdcInit => CdcInv
BY DEF CdcInit, CdcInv, CdcTypes, PortIsTrue

LEMMA CdcNextInv ==
  ASSUME CdcInv, [CdcNext]_cdcvars
  PROVE  CdcInv'
<1>0. /\ CdcTypes /\ serial_app.open = port.is_open
      /\ terminal.dtr => serial_app.open
      /\ serial_app.opens = IF serial_app.open THEN 1 ELSE 0
      /\ terminal.coding # <<>> => coding_to_wire(port.coding) = terminal.coding
      /\ serial_app.coding = port.coding
  BY DEF CdcInv, PortIsTrue
<1>1. ASSUME NEW w \in Codings, NEW short \in BOOLEAN, SetLineCoding(w, short)
      PROVE  CdcInv'
  <2>1. CASE short
    BY <1>0, <1>1, <2>1 DEF SetLineCoding, CdcInv, CdcTypes, PortIsTrue, coding_to_wire
  <2>2. CASE ~short
    <3> DEFINE c == coding_from_wire(w)
    <3>0. /\ port' = [port EXCEPT !.coding = c] /\ serial_app' = [serial_app EXCEPT !.coding = c]
          /\ terminal' = [terminal EXCEPT !.coding = w]
      BY <1>1, <2>2 DEF SetLineCoding
    <3> HIDE DEF c
    <3>1. /\ port' = [is_open |-> port.is_open, coding |-> c]
          /\ serial_app' = [open |-> serial_app.open, opens |-> serial_app.opens, coding |-> c]
          /\ terminal' = [dtr |-> terminal.dtr, coding |-> w]
      BY <1>0, <3>0 DEF CdcTypes
    <3>2. /\ port'.is_open = port.is_open /\ port'.coding = c
          /\ serial_app'.open = serial_app.open /\ serial_app'.opens = serial_app.opens
          /\ serial_app'.coding = c /\ terminal'.dtr = terminal.dtr /\ terminal'.coding = w
      BY <3>1
    <3>3. coding_to_wire(port'.coding) = w
      BY <3>2, CodingRoundTrip DEF c
    <3>4. PortIsTrue'
      BY <1>0, <3>2, <3>3 DEF PortIsTrue, coding_to_wire
    <3> QED BY <1>0, <3>1, <3>2, <3>4 DEF CdcInv, CdcTypes
  <2> QED BY <2>1, <2>2
<1>2. ASSUME NEW dtr \in BOOLEAN, SetControlLineState(dtr)
      PROVE  CdcInv'
  <2>1. /\ terminal' = [dtr |-> dtr, coding |-> terminal.coding]
        /\ port' = [is_open |-> dtr, coding |-> port.coding]
    BY <1>0, <1>2 DEF SetControlLineState, Rises, Falls, CdcTypes
  <2>2. serial_app' = [open |-> dtr, opens |-> IF dtr THEN 1 ELSE 0, coding |-> port.coding]
    <3>1. CASE Rises(dtr)
      BY <1>0, <1>2, <3>1 DEF SetControlLineState, Rises, CdcTypes
    <3>2. CASE Falls(dtr)
      <4>1. ~dtr /\ ~Rises(dtr) /\ serial_app.open /\ serial_app.opens = 1 /\ 1 - 1 = 0
        BY <1>0, <3>2 DEF Rises, Falls
      <4>2. serial_app' = [serial_app EXCEPT !.open = FALSE, !.opens = 1 - 1]
        BY <1>2, <3>2, <4>1 DEF SetControlLineState
      <4> QED BY <1>0, <4>1, <4>2 DEF CdcTypes
    <3>3. CASE ~Rises(dtr) /\ ~Falls(dtr)
      BY <1>0, <1>2, <3>3 DEF SetControlLineState, Rises, Falls, CdcTypes
    <3> QED BY <3>1, <3>2, <3>3
  <2>3. /\ port'.is_open = dtr /\ port'.coding = port.coding
        /\ serial_app'.open = dtr /\ serial_app'.opens = (IF dtr THEN 1 ELSE 0)
        /\ serial_app'.coding = port.coding
        /\ terminal'.dtr = dtr /\ terminal'.coding = terminal.coding
    BY <2>1, <2>2
  <2>4. PortIsTrue'
    <3>1. coding_to_wire(port.coding)' = coding_to_wire(port.coding)
      BY <2>3 DEF coding_to_wire
    <3>2. dtr \in BOOLEAN /\ (dtr => dtr)
      OBVIOUS
    <3> QED BY <1>0, <2>3, <3>1, <3>2 DEF PortIsTrue
  <2>5. CdcTypes'
    BY <2>1, <2>2, <2>3 DEF CdcTypes
  <2> QED BY <2>3, <2>4, <2>5 DEF CdcInv
<1>3. CASE NewHost
  <2>1. /\ terminal' = [dtr |-> FALSE, coding |-> <<>>] /\ UNCHANGED <<port, serial_app>>
    BY <1>3 DEF NewHost
  <2>2. terminal'.dtr = FALSE /\ terminal'.coding = <<>>
    BY <2>1
  <2> QED BY <1>0, <2>1, <2>2 DEF CdcInv, CdcTypes, PortIsTrue, coding_to_wire
<1>4. CASE UNCHANGED cdcvars
  BY <1>0, <1>4 DEF CdcInv, CdcTypes, PortIsTrue, coding_to_wire, cdcvars
<1> QED BY <1>1, <1>2, <1>3, <1>4 DEF CdcNext

\* The application takes the port for open while a host holds it, one open for each close,
\* and the line coding it knows is, byte for byte, the one that host set.
THEOREM PortIsTrueHolds == CdcSpec => []PortIsTrue
<1>1. CdcInv => PortIsTrue
  BY DEF CdcInv
<1> QED BY <1>1, CdcInitInv, CdcNextInv, PTL DEF CdcSpec

-----------------------------------------------------------------------------
(* HID                                                                     *)

HidSpec == HidInit /\ [][HidNext]_hidvars

HidTypes ==
  /\ last_input \in [1..InputMax -> Nat]
  /\ last_input_len \in 0..InputMax
  /\ sender \in [at : {"idle", "copy"}, n : Nat, len : Nat, copied : Nat]
  /\ echo \in [at : {"idle", "copy", "done"}, len : 0..InputMax, bytes : Seq(Nat)]
  /\ lengths \in Seq(Nat)

\* Byte i may be one of report n: there is such a report and it is long enough.
Wrote(n, i) == n \in 1..Len(lengths) /\ i <= lengths[n]

\* What is kept was written, up to the length that is kept, and up to the one a GET_REPORT
\* has read already.
KeptInv ==
  /\ \A i \in 1..InputMax : last_input[i] # 0 => Wrote(last_input[i], i)
  /\ \A i \in 1..last_input_len : last_input[i] # 0
  /\ echo.at = "copy" => Len(echo.bytes) < echo.len /\ \A i \in 1..echo.len : last_input[i] # 0
  /\ \A i \in 1..Len(echo.bytes) : Wrote(echo.bytes[i], i)

\* hid_send_report has copied the front of the newest report, and behind it is done.
SenderInv ==
  /\ sender.at = "copy" => /\ sender.n = Len(lengths) /\ lengths # <<>>
                           /\ sender.len = lengths[sender.n]
                           /\ sender.copied <= kept
                           /\ \A i \in 1..sender.copied : last_input[i] = sender.n
  /\ sender.at = "idle" /\ lengths # <<>> /\ Last(lengths) > 0 =>
       \A i \in 1..last_input_len : last_input[i] = Len(lengths)

HidInv == HidTypes /\ KeptInv /\ SenderInv

LEMMA HidInitInv == HidInit => HidInv
<1> SUFFICES ASSUME HidInit PROVE HidInv
  OBVIOUS
<1>1. InputMax \in Nat
  BY HidAssumption
<1>2. echo.bytes = <<>> /\ echo.len = 0 /\ echo.at = "idle" /\ sender.at = "idle"
  BY DEF HidInit
<1>3. HidTypes
  BY <1>1 DEF HidInit, HidTypes
<1>4. KeptInv
  BY <1>1, <1>2 DEF HidInit, KeptInv
<1>5. SenderInv
  BY <1>2 DEF HidInit, SenderInv
<1> QED BY <1>3, <1>4, <1>5 DEF HidInv

LEMMA HidNextInv ==
  ASSUME HidInv, [HidNext]_hidvars
  PROVE  HidInv'
<1>0. /\ last_input \in [1..InputMax -> Nat] /\ last_input_len \in 0..InputMax
      /\ sender \in [at : {"idle", "copy"}, n : Nat, len : Nat, copied : Nat]
      /\ echo \in [at : {"idle", "copy", "done"}, len : 0..InputMax, bytes : Seq(Nat)]
      /\ lengths \in Seq(Nat) /\ InputMax \in Nat \ {0} /\ MaxReport \in Nat
  BY HidAssumption DEF HidInv, HidTypes
<1>k. KeptInv /\ SenderInv
  BY DEF HidInv
<1>1. ASSUME NEW len \in 0..MaxReport, SendReport(len)
      PROVE  HidInv'
  <2>1. /\ sender.at = "idle" /\ lengths' = Append(lengths, len)
        /\ sender' = [at |-> IF len > 0 THEN "copy" ELSE "idle", n |-> Len(lengths) + 1,
                      len |-> len, copied |-> 0]
        /\ UNCHANGED <<last_input, last_input_len, echo>>
    BY <1>1 DEF SendReport
  <2>2. /\ len \in Nat /\ Len(lengths) \in Nat /\ lengths' \in Seq(Nat)
        /\ Len(lengths') = Len(lengths) + 1 /\ lengths'[Len(lengths) + 1] = len
        /\ \A n \in 1..Len(lengths) : lengths'[n] = lengths[n]
    BY <1>0, <2>1
  <2>3. /\ sender'.at = (IF len > 0 THEN "copy" ELSE "idle") /\ sender'.n = Len(lengths) + 1
        /\ sender'.len = len /\ sender'.copied = 0
        /\ sender' \in [at : {"idle", "copy"}, n : Nat, len : Nat, copied : Nat]
    BY <2>1, <2>2
  <2>4. \A n, i : Wrote(n, i) => Wrote(n, i)'
    BY <2>2 DEF Wrote
  <2>5. HidTypes'
    BY <1>0, <2>1, <2>2, <2>3 DEF HidTypes
  <2>6. KeptInv'
    <3>1. /\ \A i \in 1..InputMax : last_input'[i] # 0 => Wrote(last_input[i], i)'
          /\ \A i \in 1..Len(echo'.bytes) : Wrote(echo.bytes[i], i)'
      <4>1. \A n, i : Wrote(n, i) => n \in 1..Len(lengths') /\ i <= lengths'[n]
        BY <2>2 DEF Wrote
      <4> QED BY <1>k, <2>1, <4>1 DEF KeptInv, Wrote
    <3> QED BY <1>k, <2>1, <3>1 DEF KeptInv
  <2>7. SenderInv'
    <3>1. lengths' # <<>> /\ Last(lengths') = len
      BY <2>2 DEF Last
    <3>2. 0 <= kept'
      BY <1>0, <2>2, <2>3 DEF kept
    <3>3. CASE len > 0
      BY <2>2, <2>3, <3>1, <3>2, <3>3 DEF SenderInv
    <3>4. CASE ~(len > 0)
      BY <2>3, <3>1, <3>4 DEF SenderInv, Last
    <3> QED BY <3>3, <3>4
  <2> QED BY <2>5, <2>6, <2>7 DEF HidInv
<1>2. CASE CopyIn
  <2>1. /\ sender.at = "copy" /\ sender.copied <= kept /\ UNCHANGED <<echo, lengths>>
        /\ last_input_len' = IF sender.copied = kept THEN kept ELSE last_input_len
        /\ last_input' = IF sender.copied < kept
                           THEN [last_input EXCEPT ![sender.copied + 1] = sender.n] ELSE last_input
        /\ sender' = IF sender.copied < kept THEN [sender EXCEPT !.copied = @ + 1]
                     ELSE [at |-> "idle", n |-> 0, len |-> 0, copied |-> 0]
    BY <1>2 DEF CopyIn, StoresLength
  <2>2. /\ sender.n = Len(lengths) /\ lengths # <<>> /\ sender.len = lengths[sender.n]
        /\ \A i \in 1..sender.copied : last_input[i] = sender.n
    BY <1>k, <2>1 DEF SenderInv
  <2>3. /\ kept \in 0..InputMax /\ kept <= sender.len /\ sender.copied \in Nat
        /\ sender.len \in Nat /\ sender.n \in 1..Len(lengths) /\ Len(lengths) \in Nat
    <3>1. sender.len \in Nat /\ sender.copied \in Nat /\ Len(lengths) \in Nat
      BY <1>0
    <3>2. Len(lengths) # 0
      BY <1>0, <2>2, EmptySeq
    <3>3. kept \in 0..InputMax /\ kept <= sender.len
      BY <1>0, <3>1 DEF kept
    <3> QED BY <2>2, <3>1, <3>2, <3>3
  <2>4. \A i \in 1..kept : Wrote(sender.n, i)
    BY <2>2, <2>3 DEF Wrote
  <2>5. CASE sender.copied < kept
    <3> DEFINE c == sender.copied + 1
    <3>1. /\ c \in 1..kept /\ c \in 1..InputMax /\ c \in Nat
          /\ sender' = [sender EXCEPT !.copied = c]
          /\ last_input' = [last_input EXCEPT ![c] = sender.n]
          /\ last_input_len' = last_input_len
      BY <1>0, <2>1, <2>3, <2>5, SMTT(30)
    <3>2. /\ sender'.at = "copy" /\ sender'.n = sender.n /\ sender'.len = sender.len
          /\ sender'.copied = c
          /\ sender' \in [at : {"idle", "copy"}, n : Nat, len : Nat, copied : Nat]
      BY <1>0, <2>1, <3>1
    <3>3. /\ last_input' \in [1..InputMax -> Nat]
          /\ \A i \in 1..InputMax : last_input'[i] = IF i = c THEN sender.n ELSE last_input[i]
      <4>1. sender.n \in Nat
        BY <2>3
      <4> HIDE DEF c
      <4> QED BY <1>0, <3>1, <4>1
    <3>4. HidTypes'
      BY <1>0, <2>1, <3>1, <3>2, <3>3 DEF HidTypes
    <3>5. KeptInv'
      <4>1. sender.n # 0 /\ Wrote(sender.n, c)
        BY <2>3, <2>4, <3>1
      <4>2. \A i \in 1..InputMax : last_input'[i] # 0 => Wrote(last_input'[i], i)
        BY <1>k, <3>3, <4>1 DEF KeptInv
      <4>3. \A i \in 1..InputMax : last_input[i] # 0 => last_input'[i] # 0
        BY <3>3, <4>1
      <4>4. \A i \in 1..last_input_len : last_input'[i] # 0
        <5>1. \A i \in 1..last_input_len : i \in 1..InputMax
          BY <1>0
        <5> QED BY <1>k, <4>3, <5>1 DEF KeptInv
      <4>5. echo.at = "copy" => Len(echo.bytes) < echo.len /\ \A i \in 1..echo.len : last_input'[i] # 0
        <5>1. \A i \in 1..echo.len : i \in 1..InputMax
          BY <1>0
        <5> QED BY <1>k, <4>3, <5>1 DEF KeptInv
      <4> QED BY <1>k, <2>1, <3>1, <4>2, <4>4, <4>5 DEF KeptInv, Wrote
    <3>6. SenderInv'
      <4>1. \A i \in 1..c : last_input'[i] = sender.n
        <5> SUFFICES ASSUME NEW i \in 1..c PROVE last_input'[i] = sender.n
          OBVIOUS
        <5>1. i \in 1..InputMax /\ (i = c \/ i \in 1..sender.copied)
          BY <1>0, <2>3, <3>1, SMTT(30)
        <5> QED BY <2>2, <3>3, <5>1
      <4>2. kept' = kept /\ c <= kept
        BY <3>1, <3>2 DEF kept
      <4> QED BY <2>1, <2>2, <3>2, <4>1, <4>2 DEF SenderInv
    <3> QED BY <3>4, <3>5, <3>6 DEF HidInv
  <2>6. CASE ~(sender.copied < kept)
    <3>1. /\ sender.copied = kept /\ last_input_len' = kept /\ last_input' = last_input
          /\ sender' = [at |-> "idle", n |-> 0, len |-> 0, copied |-> 0]
      BY <2>1, <2>3, <2>6
    <3>2. sender'.at = "idle"
      BY <3>1
    <3>3. HidTypes'
      BY <1>0, <2>1, <2>3, <3>1 DEF HidTypes
    <3>4. \A i \in 1..kept : last_input[i] = Len(lengths) /\ Len(lengths) # 0
      BY <2>2, <2>3, <3>1
    <3>5. KeptInv'
      BY <1>k, <2>1, <3>1, <3>4 DEF KeptInv, Wrote
    <3>6. SenderInv'
      BY <2>1, <3>1, <3>2, <3>4 DEF SenderInv
    <3> QED BY <3>3, <3>5, <3>6 DEF HidInv
  <2> QED BY <2>5, <2>6
<1>3. ASSUME NEW len \in 1..MaxReport, GetReport(len)
      PROVE  HidInv'
  <2> DEFINE n == IF last_input_len < len THEN last_input_len ELSE len
  <2>1. /\ echo' = [at |-> IF n = 0 THEN "done" ELSE "copy", len |-> n, bytes |-> <<>>]
        /\ UNCHANGED <<last_input, last_input_len, sender, lengths>>
    BY <1>3 DEF GetReport
  <2>2. n \in 0..last_input_len /\ n \in 0..InputMax
    BY <1>0
  <2> HIDE DEF n
  <2>3. /\ echo'.at = (IF n = 0 THEN "done" ELSE "copy") /\ echo'.len = n /\ echo'.bytes = <<>>
        /\ echo' \in [at : {"idle", "copy", "done"}, len : 0..InputMax, bytes : Seq(Nat)]
    BY <2>1, <2>2
  <2>4. HidTypes'
    BY <1>0, <2>1, <2>3 DEF HidTypes
  <2>5. KeptInv'
    <3>1. \A i \in 1..n : last_input[i] # 0
      <4>1. \A i \in 1..n : i \in 1..last_input_len
        BY <1>0, <2>2
      <4> QED BY <1>k, <4>1 DEF KeptInv
    <3>2. n # 0 => 0 < n
      BY <2>2
    <3>3. Len(echo'.bytes) = 0
      BY <2>3
    <3> QED BY <1>k, <2>1, <2>3, <3>1, <3>2, <3>3 DEF KeptInv, Wrote
  <2>6. SenderInv'
    BY <1>k, <2>1 DEF SenderInv, kept
  <2> QED BY <2>4, <2>5, <2>6 DEF HidInv
<1>4. CASE CopyOut
  <2> DEFINE b == echo.bytes
             k == Len(b) + 1
  <2>1. /\ echo.at = "copy" /\ UNCHANGED <<last_input, last_input_len, sender, lengths>>
        /\ echo' = [echo EXCEPT !.bytes = Append(@, last_input[Len(@) + 1]),
                                !.at = IF Len(echo.bytes) + 1 = echo.len THEN "done" ELSE "copy"]
    BY <1>4 DEF CopyOut
  <2>2. b \in Seq(Nat) /\ Len(b) \in Nat /\ echo.len \in 0..InputMax
    BY <1>0
  <2>3. Len(b) < echo.len /\ \A i \in 1..echo.len : last_input[i] # 0
    BY <1>k, <2>1 DEF KeptInv
  <2>4. k \in 1..echo.len /\ k \in 1..InputMax
    BY <1>0, <2>2, <2>3
  <2>5. last_input[k] \in Nat /\ last_input[k] # 0 /\ Wrote(last_input[k], k)
    BY <1>0, <1>k, <2>3, <2>4 DEF KeptInv
  <2>6. /\ echo'.bytes = Append(b, last_input[k]) /\ echo'.len = echo.len
        /\ echo'.at = IF k = echo.len THEN "done" ELSE "copy"
    BY <1>0, <2>1
  <2>7. /\ Append(b, last_input[k]) \in Seq(Nat) /\ Len(Append(b, last_input[k])) = Len(b) + 1
        /\ \A i \in 1..Len(b) : Append(b, last_input[k])[i] = b[i]
        /\ Append(b, last_input[k])[Len(b) + 1] = last_input[k]
    BY <2>2, <2>5, AppendProperties
  <2>8. echo' \in [at : {"idle", "copy", "done"}, len : 0..InputMax, bytes : Seq(Nat)]
    <3> DEFINE bb == Append(b, last_input[k])
    <3>1. echo' = [at |-> IF k = echo.len THEN "done" ELSE "copy", len |-> echo.len, bytes |-> bb]
      BY <1>0, <2>1
    <3> HIDE DEF bb
    <3>2. bb \in Seq(Nat)
      BY <2>7 DEF bb
    <3> QED BY <2>2, <3>1, <3>2
  <2>9. HidTypes'
    BY <1>0, <2>1, <2>8 DEF HidTypes
  <2> HIDE DEF b
  <2>10. \A i \in 1..(Len(b) + 1) : Wrote(echo'.bytes[i], i)
    <3> SUFFICES ASSUME NEW i \in 1..(Len(b) + 1) PROVE Wrote(echo'.bytes[i], i)
      OBVIOUS
    <3>1. i = Len(b) + 1 \/ i \in 1..Len(b)
      BY <2>2
    <3>2. \A j \in 1..Len(b) : Wrote(b[j], j)
      BY <1>k DEF KeptInv, b
    <3> QED BY <2>5, <2>6, <2>7, <3>1, <3>2
  <2>11. echo'.at = "copy" => Len(b) + 1 < echo.len
    BY <2>2, <2>4, <2>6
  <2>12. KeptInv'
    BY <1>k, <2>1, <2>3, <2>6, <2>7, <2>10, <2>11 DEF KeptInv, Wrote
  <2>13. SenderInv'
    BY <1>k, <2>1 DEF SenderInv, kept
  <2> QED BY <2>9, <2>12, <2>13 DEF HidInv
<1>5. CASE UNCHANGED <<last_input, last_input_len, sender, echo, lengths>>
  BY <1>5 DEF HidInv, HidTypes, KeptInv, SenderInv, Wrote, kept
<1>6. (\E v \in {0, 256} : SetSetting("idle", v)) \/ (\E v \in {0, 1} : SetSetting("protocol", v))
        => UNCHANGED <<last_input, last_input_len, sender, echo, lengths>>
  BY DEF SetSetting
<1> QED BY <1>1, <1>2, <1>3, <1>4, <1>5, <1>6 DEF HidNext, hidvars

\* Every byte GET_REPORT echoes is one that some report had at that place, whatever the
\* race with hid_send_report, and a quiet device echoes its last report.
THEOREM EchoIsWrittenHolds == HidSpec => []EchoIsWritten
<1>1. HidInv => EchoIsWritten
  <2> SUFFICES ASSUME HidInv PROVE EchoIsWritten
    OBVIOUS
  <2>1. DOMAIN echo.bytes = 1..Len(echo.bytes) /\ DOMAIN lengths = 1..Len(lengths)
    BY DEF HidInv, HidTypes
  <2> QED BY <2>1 DEF HidInv, KeptInv, SenderInv, Wrote, EchoIsWritten
<1> QED BY <1>1, HidInitInv, HidNextInv, PTL DEF HidSpec

-----------------------------------------------------------------------------
(* Packet capture                                                          *)

PcapSpec == PcapInit /\ [][PcapNext]_pcapvars

FileBlocks == [kind : {"shb", "idb", "epb"}, by : Loggers \cup {Nobody}, n : Nat]

LogRecords == [pc : {"out", "open", "opening", "look", "write"}, n : Nat, covered : BOOLEAN]

PcapTypes ==
  /\ g_fp \in BOOLEAN
  /\ file \in Seq(FileBlocks)
  /\ logger \in [Loggers -> LogRecords]
  /\ epmap \in Seq(Devids)

\* The headers are there as long as the file is open, and only packets follow them.
FileInv ==
  /\ g_fp => Len(file) >= 2 /\ file[1].kind = "shb" /\ file[2].kind = "idb"
  /\ \A i \in 3..Len(file) : file[i].kind = "epb" /\ file[i].by \in Loggers

\* A thread is past the packets it has written, and inside a call past all of them.
Past(b) == b.n <= logger[b.by].n /\ (logger[b.by].pc # "out" => b.n < logger[b.by].n)

\* The packets of a thread are in the order of its calls.
OrderedInv ==
  /\ \A i \in 3..Len(file) : Past(file[i])
  /\ \A i, j \in 3..Len(file) : i < j /\ file[i].by = file[j].by => file[i].n < file[j].n

\* A call that has seen no close since it found the file open still finds it so.
CoverInv == ~lost /\ \A t \in Loggers : logger[t].covered => g_fp

MapInv == Len(epmap) <= MapSlots /\ IsInjective(epmap)

PcapInv == PcapTypes /\ FileInv /\ OrderedInv /\ CoverInv /\ MapInv

LEMMA PcapInitInv == PcapInit => PcapInv
<1> SUFFICES ASSUME PcapInit PROVE PcapInv
  OBVIOUS
<1>0. file = <<>> /\ epmap = <<>>
  BY DEF PcapInit
<1>a. file \in Seq(FileBlocks) /\ Len(file) = 0 /\ epmap \in Seq(Devids) /\ Len(epmap) = 0
  BY <1>0, EmptySeq
<1>b. logger \in [Loggers -> LogRecords]
  BY DEF PcapInit, LogRecords
<1>1. PcapTypes /\ Len(file) = 0 /\ Len(epmap) = 0
  BY <1>a, <1>b DEF PcapInit, PcapTypes
<1>2. FileInv /\ OrderedInv
  BY <1>1 DEF PcapInit, FileInv, OrderedInv
<1>3. CoverInv
  BY DEF PcapInit, CoverInv
<1>4. MapInv
  BY <1>1, PcapAssumption DEF PcapInit, MapInv, IsInjective
<1> QED BY <1>1, <1>2, <1>3, <1>4 DEF PcapInv

\* Every non-empty set of numbers has a least element.
LEMMA LeastIndex ==
  ASSUME NEW T \in SUBSET Nat, T # {}
  PROVE  \E x \in T : \A y \in T : x =< y
<1>1. IsWellFoundedOn(OpToRel(<, Nat), Nat)
  BY NatLessThanWellFounded
<1>2. PICK x \in T : \A y \in T : <<y, x>> \notin OpToRel(<, Nat)
  BY <1>1, WFMin
<1>3. \A y \in T : ~(y < x)
  BY <1>2 DEF OpToRel
<1> QED BY <1>3

\* pcap_epmap_find returns 0 only for a device that has no slot.
LEMMA FindNone ==
  ASSUME epmap \in Seq(Devids), NEW d \in Devids, pcap_epmap_find(d) = 0
  PROVE  \A i \in 1..Len(epmap) : epmap[i] # d
<1> SUFFICES ASSUME NEW k \in 1..Len(epmap), epmap[k] = d
             PROVE  FALSE
  OBVIOUS
<1> DEFINE I == {i \in 1..Len(epmap) : epmap[i] = d}
<1>1. Len(epmap) \in Nat /\ k \in I /\ I \subseteq Nat
  OBVIOUS
<1>2. pcap_epmap_find(d) = Min(I)
  BY <1>1 DEF pcap_epmap_find, SelectInSeq
<1> HIDE DEF I
<1>3. PICK m \in I : \A y \in I : m =< y
  BY <1>1, LeastIndex
<1>4. Min(I) \in I
  BY <1>3 DEF Min
<1> QED BY <1>2, <1>4 DEF I

\* A step of a thread that writes no packet keeps the file's invariants: its count does
\* not go down, and it does not go on to a call without counting it.
LEMMA GoesOn ==
  ASSUME PcapInv, NEW t \in Loggers, NEW r \in LogRecords,
         logger' = [logger EXCEPT ![t] = r], file' = file,
         r.n >= logger[t].n,
         logger[t].pc = "out" => r.n > logger[t].n
  PROVE  /\ logger' \in [Loggers -> LogRecords]
         /\ OrderedInv'
<1>1. /\ file \in Seq(FileBlocks) /\ Len(file) \in Nat
      /\ logger \in [Loggers -> LogRecords]
  BY DEF PcapInv, PcapTypes
<1>2. /\ logger' \in [Loggers -> LogRecords]
      /\ logger'[t] = r /\ \A u \in Loggers : u # t => logger'[u] = logger[u]
  BY <1>1
<1>3. ASSUME NEW i \in 3..Len(file)
      PROVE  Past(file[i])'
  <2>1. file[i] \in FileBlocks /\ file[i].by \in Loggers /\ file[i].n \in Nat /\ Past(file[i])
    <3>1. i \in 1..Len(file)
      BY <1>1, <1>3
    <3>2. file[i] \in FileBlocks
      BY <1>1, <3>1, ElementOfSeq
    <3> QED BY <1>3, <3>2 DEF PcapInv, OrderedInv, FileInv, FileBlocks
  <2>2. CASE file[i].by = t
    <3>1. logger[t] \in LogRecords
      BY <1>1
    <3>2. file[i].n < r.n
      BY <2>1, <2>2, <3>1 DEF Past, LogRecords
    <3>3. logger'[file[i].by] = r /\ file' = file /\ r.n \in Nat
      BY <1>2, <2>2 DEF LogRecords
    <3> QED BY <2>1, <3>2, <3>3 DEF Past
  <2>3. CASE file[i].by # t
    BY <1>2, <2>1, <2>3 DEF Past
  <2> QED BY <2>2, <2>3
<1> QED BY <1>1, <1>2, <1>3 DEF PcapInv, OrderedInv

LEMMA PcapNextInv ==
  ASSUME PcapInv, [PcapNext]_pcapvars
  PROVE  PcapInv'
<1>0. /\ g_fp \in BOOLEAN /\ file \in Seq(FileBlocks) /\ Len(file) \in Nat
      /\ logger \in [Loggers -> LogRecords] /\ epmap \in Seq(Devids)
  BY DEF PcapInv, PcapTypes
<1>k. FileInv /\ OrderedInv /\ CoverInv /\ MapInv
  BY DEF PcapInv
\* A new file: two headers, no packet.
<1>n. ASSUME g_fp', file' = <<Block("shb", Nobody, 0), Block("idb", Nobody, 0)>>
      PROVE  file' \in Seq(FileBlocks) /\ FileInv' /\ OrderedInv'
  <2>1. Len(file') = 2 /\ file'[1] = Block("shb", Nobody, 0) /\ file'[2] = Block("idb", Nobody, 0)
    BY <1>n
  <2>2. Block("shb", Nobody, 0) \in FileBlocks /\ Block("idb", Nobody, 0) \in FileBlocks
    BY DEF Block, FileBlocks
  <2>3. file' \in Seq(FileBlocks)
    BY <1>n, <2>2
  <2>4. FileInv'
    BY <2>1 DEF FileInv, Block
  <2> QED BY <2>1, <2>3, <2>4 DEF OrderedInv
\* What opening does to the file and the coverage of calls under way.
<1>o. ASSUME NEW who, OpenFile(who), logger' \in [Loggers -> LogRecords],
             \A t \in Loggers : logger'[t].covered = logger[t].covered,
             file' = file => OrderedInv'
      PROVE  PcapInv'
  <2>1. epmap' = epmap /\ lost' = lost
    BY <1>o DEF OpenFile
  <2>2. MapInv'
    BY <1>k, <2>1 DEF MapInv, IsInjective
  <2>3. CASE UNCHANGED <<opens, g_fp, file>>
    BY <1>0, <1>k, <1>o, <2>1, <2>2, <2>3 DEF PcapInv, PcapTypes, FileInv, CoverInv
  <2>4. CASE g_fp' = TRUE /\ file' = <<Block("shb", Nobody, 0), Block("idb", Nobody, 0)>>
    <3>1. file' \in Seq(FileBlocks) /\ FileInv' /\ OrderedInv'
      BY <1>n, <2>4
    <3> QED BY <1>0, <1>k, <1>o, <2>1, <2>2, <2>4, <3>1 DEF PcapInv, PcapTypes, CoverInv
  <2> QED BY <1>o, <2>3, <2>4 DEF OpenFile
<1>1. CASE AppOpens
  BY <1>0, <1>k, <1>1 DEF AppOpens, OpenBegin, PcapInv, PcapTypes, FileInv, OrderedInv, Past, CoverInv, MapInv, IsInjective
<1>2. CASE AppOpened
  <2>1. OpenFile("owner") /\ logger' = logger
    BY <1>2 DEF AppOpened
  <2>2. file' = file => OrderedInv'
    BY <1>k, <2>1 DEF OrderedInv, Past
  <2> QED BY <1>0, <1>o, <2>1, <2>2
<1>3. CASE usbip_pcap_close
  <2>1. /\ g_fp' = FALSE /\ file' = file /\ epmap' = epmap /\ lost' = lost
        /\ logger' = [t \in Loggers |-> [logger[t] EXCEPT !.covered = FALSE]]
    BY <1>3 DEF usbip_pcap_close
  <2>2. /\ logger' \in [Loggers -> LogRecords]
        /\ \A t \in Loggers : logger'[t].n = logger[t].n /\ logger'[t].pc = logger[t].pc /\ logger'[t].covered = FALSE
    BY <1>0, <2>1 DEF LogRecords
  <2>3. OrderedInv'
    BY <1>0, <1>k, <2>1, <2>2 DEF OrderedInv, Past, FileInv
  <2> QED BY <1>0, <1>k, <2>1, <2>2, <2>3 DEF PcapInv, PcapTypes, FileInv, CoverInv, MapInv, IsInjective
<1>4. ASSUME NEW t \in Loggers, Call(t)
      PROVE  PcapInv'
  <2> DEFINE r == [pc |-> IF ~g_checked /\ EnvAsks THEN "open" ELSE "look", n |-> logger[t].n + 1, covered |-> g_fp]
  <2>1. logger' = [logger EXCEPT ![t] = r] /\ UNCHANGED <<g_fp, file, lost, epmap>>
    BY <1>4 DEF Call
  <2>2. r \in LogRecords /\ r.n > logger[t].n /\ r.covered = g_fp
    BY <1>0 DEF LogRecords
  <2> HIDE DEF r
  <2>a. logger[t].n \in Nat /\ r.n \in Nat
    BY <1>0, <2>2 DEF LogRecords
  <2>b. r.n >= logger[t].n /\ file' = file
    BY <2>a, <2>1, <2>2
  <2>3. logger' \in [Loggers -> LogRecords] /\ OrderedInv'
    BY <2>1, <2>2, <2>b, GoesOn
  <2>4. CoverInv'
    BY <1>0, <1>k, <2>1, <2>2 DEF CoverInv
  <2> QED BY <1>0, <1>k, <2>1, <2>3, <2>4 DEF PcapInv, PcapTypes, FileInv, MapInv, IsInjective
\* Steps inside a call: only the place changes.
<1>g. ASSUME NEW t \in Loggers, NEW pc \in {"out", "look", "opening", "write"}, Goes(t, pc),
             logger[t].pc # "out", file' = file
      PROVE  /\ logger' \in [Loggers -> LogRecords] /\ OrderedInv'
             /\ \A u \in Loggers : logger'[u].covered = logger[u].covered
  <2> DEFINE r == [logger[t] EXCEPT !.pc = pc]
  <2>1. logger' = [logger EXCEPT ![t] = r]
    BY <1>0, <1>g DEF Goes, LogRecords
  <2>2. r \in LogRecords /\ r.n = logger[t].n /\ r.covered = logger[t].covered
    BY <1>0 DEF LogRecords
  <2> HIDE DEF r
  <2>a. logger[t].n \in Nat
    BY <1>0 DEF LogRecords
  <2>b. r.n >= logger[t].n /\ file' = file
    BY <1>g, <2>a, <2>2
  <2>3. logger' \in [Loggers -> LogRecords] /\ OrderedInv'
    BY <1>g, <2>1, <2>2, <2>b, GoesOn
  <2> QED BY <1>0, <2>1, <2>2, <2>3
<1>5. ASSUME NEW t \in Loggers, EnvOpens(t)
      PROVE  PcapInv'
  <2>1. /\ UNCHANGED <<g_fp, file, lost, epmap>> /\ logger[t].pc # "out"
        /\ \E pc \in {"out", "look", "opening", "write"} : Goes(t, pc)
    BY <1>5 DEF EnvOpens, OpenBegin
  <2>2. /\ logger' \in [Loggers -> LogRecords] /\ OrderedInv'
        /\ \A u \in Loggers : logger'[u].covered = logger[u].covered
    BY <1>g, <2>1
  <2> QED BY <1>0, <1>k, <2>1, <2>2 DEF PcapInv, PcapTypes, FileInv, CoverInv, MapInv, IsInjective
<1>6. ASSUME NEW t \in Loggers, EnvOpened(t)
      PROVE  PcapInv'
  <2>1. logger[t].pc # "out" /\ OpenFile(t) /\ Goes(t, "look")
    BY <1>6 DEF EnvOpened
  <2>2. /\ logger' \in [Loggers -> LogRecords]
        /\ \A u \in Loggers : logger'[u].covered = logger[u].covered
    BY <1>0, <2>1 DEF Goes, LogRecords
  <2>3. file' = file => OrderedInv'
    BY <1>g, <2>1
  <2> QED BY <1>o, <2>1, <2>2, <2>3
<1>7. ASSUME NEW t \in Loggers, Look(t)
      PROVE  PcapInv'
  <2>1. /\ UNCHANGED <<g_fp, file, epmap>> /\ logger[t].pc # "out"
        /\ \E pc \in {"out", "look", "opening", "write"} : Goes(t, pc)
    BY <1>7 DEF Look, Returns
  <2>2. /\ logger' \in [Loggers -> LogRecords] /\ OrderedInv'
        /\ \A u \in Loggers : logger'[u].covered = logger[u].covered
    BY <1>g, <2>1
  <2>3. ~lost'
    BY <1>0, <1>k, <1>7 DEF Look, Returns, CoverInv
  <2> QED BY <1>0, <1>k, <2>1, <2>2, <2>3 DEF PcapInv, PcapTypes, FileInv, CoverInv, MapInv, IsInjective
<1>8. ASSUME NEW t \in Loggers, Write(t)
      PROVE  PcapInv'
  <2>1. UNCHANGED <<g_fp, epmap>> /\ logger[t].pc = "write"
    BY <1>8 DEF Write
  <2>2. CASE ~g_fp
    <3>1. file' = file /\ Goes(t, "out") /\ lost' = (lost \/ logger[t].covered)
      BY <1>8, <2>2 DEF Write, StillOpen, Returns
    <3>2. /\ logger' \in [Loggers -> LogRecords] /\ OrderedInv'
          /\ \A u \in Loggers : logger'[u].covered = logger[u].covered
      BY <1>g, <2>1, <3>1
    <3>3. ~lost'
      BY <1>k, <2>2, <3>1 DEF CoverInv
    <3> QED BY <1>0, <1>k, <2>1, <3>1, <3>2, <3>3 DEF PcapInv, PcapTypes, FileInv, CoverInv, MapInv, IsInjective
  <2>3. CASE g_fp
    <3> DEFINE b == Block("epb", t, logger[t].n)
    <3>1. file' = Append(file, b) /\ Goes(t, "out") /\ lost' = lost
      BY <1>8, <2>3 DEF Write, StillOpen
    <3>2. b \in FileBlocks /\ b.kind = "epb" /\ b.by = t /\ b.n = logger[t].n
      BY <1>0 DEF Block, FileBlocks, LogRecords
    <3>3. /\ logger' \in [Loggers -> LogRecords]
          /\ logger'[t].n = logger[t].n /\ logger'[t].pc = "out"
          /\ \A u \in Loggers : u # t => logger'[u] = logger[u]
          /\ \A u \in Loggers : logger'[u].covered = logger[u].covered
      BY <1>0, <3>1 DEF Goes, LogRecords
    <3> HIDE DEF b
    <3>4. /\ file' \in Seq(FileBlocks) /\ Len(file') = Len(file) + 1
          /\ \A i \in 1..Len(file) : file'[i] = file[i]
          /\ file'[Len(file) + 1] = b
      BY <1>0, <3>1, <3>2, AppendProperties
    <3>5. Len(file) >= 2
      BY <1>k, <2>3 DEF FileInv
    <3>l. \A i \in 3..Len(file') : i = Len(file) + 1 \/ (i \in 3..Len(file) /\ i \in 1..Len(file))
      BY <1>0, <3>4
    <3>6. FileInv'
      <4>1. file'[1] = file[1] /\ file'[2] = file[2] /\ Len(file') >= 2
        BY <1>0, <3>4, <3>5
      <4>2. \A i \in 3..Len(file') : file'[i].kind = "epb" /\ file'[i].by \in Loggers
        BY <1>k, <3>2, <3>4, <3>l DEF FileInv
      <4> QED BY <1>k, <2>1, <2>3, <4>1, <4>2 DEF FileInv
    <3>7. ASSUME NEW i \in 3..Len(file)
          PROVE  /\ Past(file[i])' /\ file[i].n \in Nat /\ file[i].by \in Loggers
                 /\ file[i].by = t => file[i].n < logger[t].n
      <4>1. file[i] \in FileBlocks /\ file[i].by \in Loggers /\ file[i].n \in Nat /\ Past(file[i])
        <5>1. i \in 1..Len(file)
          BY <1>0, <3>7
        <5>2. file[i] \in FileBlocks
          BY <1>0, <5>1, ElementOfSeq
        <5> QED BY <1>k, <3>7, <5>2 DEF OrderedInv, FileInv, FileBlocks
      <4>2. file'[i] = file[i]
        BY <1>0, <3>4
      <4> QED BY <1>0, <2>1, <3>3, <4>1, <4>2 DEF Past
    <3>8. ASSUME NEW i \in 3..Len(file')
          PROVE  Past(file[i])'
      <4>1. i = Len(file) + 1 \/ i \in 3..Len(file)
        BY <3>l
      <4>2. CASE i = Len(file) + 1
        <5>1. file'[i] = b /\ b.by = t
          BY <3>2, <3>4, <4>2
        <5>2. b.n = logger'[t].n /\ logger'[t].n \in Nat /\ logger'[t].pc = "out"
          BY <3>2, <3>3 DEF LogRecords
        <5> QED BY <5>1, <5>2 DEF Past
      <4> QED BY <3>7, <4>1, <4>2
    <3>9. ASSUME NEW i \in 3..Len(file'), NEW j \in 3..Len(file'), i < j, file'[i].by = file'[j].by
          PROVE  file'[i].n < file'[j].n
      <4>a. i \in Int /\ j \in Int /\ j <= Len(file) + 1 /\ Len(file') = Len(file) + 1
        <5>1. Len(file') \in Int /\ Len(file') = Len(file) + 1
          BY <1>0, <3>4
        <5>2. i \in Int /\ j \in Int /\ j <= Len(file')
          BY <5>1
        <5> QED BY <5>1, <5>2
      <4>1. i \in 3..Len(file) /\ (j = Len(file) + 1 \/ j \in 3..Len(file))
        <5>1. i # Len(file) + 1
          BY <1>0, <3>9, <4>a
        <5> QED BY <3>l, <5>1
      <4>2. file'[i] = file[i] /\ (j \in 3..Len(file) => file'[j] = file[j])
        BY <1>0, <3>4, <4>1
      <4>3. CASE j = Len(file) + 1
        BY <3>2, <3>4, <3>7, <3>9, <4>1, <4>2, <4>3
      <4>4. CASE j \in 3..Len(file)
        BY <1>k, <3>9, <4>1, <4>2, <4>4 DEF OrderedInv
      <4> QED BY <4>1, <4>3, <4>4
    <3>10. OrderedInv'
      BY <3>8, <3>9 DEF OrderedInv
    <3> QED BY <1>0, <1>k, <2>1, <3>1, <3>3, <3>4, <3>6, <3>10 DEF PcapInv, PcapTypes, CoverInv, MapInv, IsInjective
  <2> QED BY <1>0, <2>2, <2>3
<1>9. ASSUME NEW d \in Devids, Learn(d)
      PROVE  PcapInv'
  <2>1. UNCHANGED <<g_fp, file, logger, lost>>
    BY <1>9 DEF Learn
  <2>2. epmap' \in Seq(Devids) /\ MapInv'
    <3>1. CASE epmap' = epmap
      BY <1>0, <1>k, <3>1 DEF MapInv, IsInjective
    <3>2. CASE pcap_epmap_find(d) = 0 /\ epmap' = Recycled(d)
      <4>1. \A i \in 1..Len(epmap) : epmap[i] # d
        BY <1>0, <3>2, FindNone
      <4>2. CASE Len(epmap) < MapSlots
        <5>1. epmap' = Append(epmap, d)
          BY <3>2, <4>2 DEF Recycled
        <5>2. /\ epmap' \in Seq(Devids) /\ Len(epmap') = Len(epmap) + 1 /\ Len(epmap) \in Nat
              /\ \A i \in 1..Len(epmap) : epmap'[i] = epmap[i]
              /\ epmap'[Len(epmap) + 1] = d /\ DOMAIN epmap' = 1..(Len(epmap) + 1) /\ DOMAIN epmap = 1..Len(epmap)
          BY <1>0, <5>1, AppendProperties
        <5>3. \A i \in 1..(Len(epmap) + 1) : i = Len(epmap) + 1 \/ i \in 1..Len(epmap)
          BY <5>2
        <5>4. IsInjective(epmap)'
          BY <1>k, <4>1, <5>2, <5>3 DEF MapInv, IsInjective
        <5>5. Len(epmap') <= MapSlots
          BY <4>2, <5>2, PcapAssumption
        <5> QED BY <5>2, <5>4, <5>5 DEF MapInv
      <4>3. CASE ~(Len(epmap) < MapSlots)
        <5>1. epmap' = [epmap EXCEPT ![1] = d] /\ Len(epmap) \in Nat /\ 1 \in 1..Len(epmap)
          BY <1>0, <3>2, <4>3, PcapAssumption DEF Recycled
        <5>2. /\ epmap' \in Seq(Devids) /\ Len(epmap') = Len(epmap)
              /\ DOMAIN epmap' = 1..Len(epmap) /\ DOMAIN epmap = 1..Len(epmap)
              /\ epmap'[1] = d /\ \A i \in 1..Len(epmap) : i # 1 => epmap'[i] = epmap[i]
          BY <1>0, <5>1, ExceptSeq
        <5>3. IsInjective(epmap)'
          BY <1>k, <4>1, <5>2 DEF MapInv, IsInjective
        <5> QED BY <1>k, <5>2, <5>3 DEF MapInv
      <4> QED BY <4>2, <4>3
    <3> QED BY <1>9, <3>1, <3>2 DEF Learn
  <2> QED BY <1>0, <1>k, <2>1, <2>2 DEF PcapInv, PcapTypes, FileInv, OrderedInv, Past, CoverInv
<1>10. CASE UNCHANGED pcapvars
  BY <1>0, <1>k, <1>10 DEF pcapvars, PcapInv, PcapTypes, FileInv, OrderedInv, Past, CoverInv, MapInv, IsInjective
<1> QED BY <1>1, <1>2, <1>3, <1>4, <1>5, <1>6, <1>7, <1>8, <1>9, <1>10 DEF PcapNext

\* Whoever logs, opens and closes, the capture stays one: headers first and once, each
\* thread's packets in its order, none left out of a file that stayed open; and the
\* endpoint table has one slot for a device.
THEOREM CaptureIsSoundHolds == PcapSpec => []CaptureIsSound
<1>1. PcapInv => CaptureIsSound
  BY DEF PcapInv, FileInv, OrderedInv, CoverInv, MapInv, CaptureIsSound
<1> QED BY <1>1, PcapInitInv, PcapNextInv, PTL DEF PcapSpec

-----------------------------------------------------------------------------
(* Mass storage                                                            *)

\* A host that follows BOT: it promises no data to a command that has none, and asks the
\* data of a reading command on the bulk-IN pipe.  Lengths, units and ranges may be wrong.
FollowsBot ==
  \A c \in Commands : c.dlen > 0 => c.op # "nodata" /\ (c.op \in {"info", "sense", "read"} => c.in)

Landed ==
  \A b \in TheCmd.lba..(TheCmd.lba + TheCmd.count - 1) : \A u \in 1..BlockSize :
    disk[TheCmd.lun][b][u] = <<tag, (b - TheCmd.lba) * BlockSize + u>>

\* REQUEST SENSE would tell why the device failed the command.
SenseTold ==
  failed # "write_error" => sense[IF TheCmd.lun \in Luns THEN TheCmd.lun ELSE 0] = failed

\* The CSW of the command, told the truth, when the data phase moved so many units in.
IsCsw(r, moved) ==
  /\ r.kind = "csw" /\ r.tag = tag /\ r.len = 1
  /\ TheCmd.in => r.residue = TheCmd.dlen - moved
  /\ r.status = "failed" => SenseTold
  /\ TheCmd.op = "write" /\ r.status = "passed" => Landed

IsData(r) == r.kind = "data" /\ r.tag = tag /\ r.len <= TheCmd.dlen

\* Replies to commands the host gave up on are in front of the queue, if any.
Old(r) == gave_up /\ r.kind # "stall" /\ r.tag < tag
Olds(k) == \A i \in 1..k : Old(in_queue[i])

\* What is due to the command under way: nothing yet, its CSW, or data and a CSW.
Due == Len(in_queue)
NothingDue == Olds(Due)
CswDue(moved) == Due >= 1 /\ Olds(Due - 1) /\ IsCsw(in_queue[Due], moved)
DataDue ==
  /\ Due >= 2 /\ Olds(Due - 2)
  /\ IsData(in_queue[Due - 1]) /\ IsCsw(in_queue[Due], in_queue[Due - 1].len)

\* The open write is that of the command, and its buffer the data sent so far.
WriteInv ==
  writing =>
    /\ phase \in {"data_in", "data_out", "status", "confused"}
    /\ TheCmd.op = "write" /\ TheCmd.lun \in Luns /\ InRange(TheCmd)
    /\ write = [lun |-> TheCmd.lun, tag |-> tag, lba |-> TheCmd.lba, count |-> TheCmd.count,
                need |-> TheCmd.count * BlockSize]
    /\ Len(wbuf) = got /\ got <= write.need /\ \A i \in 1..got : wbuf[i] = <<tag, i>>

\* Before the data, and behind it.
DataInInv ==
  phase = "data_in" =>
    /\ TheCmd.in /\ got = 0
    /\ \/ inbox = <<>> /\ writing /\ NothingDue
       \/ inbox = <<>> /\ ~writing /\ in_halted /\ CswDue(0)
       \/ inbox = <<>> /\ ~writing /\ ~in_halted /\ DataDue
       \/ inbox = <<Stall>> /\ ~writing /\ CswDue(0)
       \/ inbox # <<>> /\ Old(inbox[1])
       \/ inbox # <<>> /\ ~writing /\ ~in_halted /\ IsData(inbox[1]) /\ CswDue(inbox[1].len)

DataOutInv ==
  phase = "data_out" =>
    /\ ~TheCmd.in /\ inbox = <<>> /\ parked = <<>> /\ ~in_halted
    /\ \/ writing /\ ~out_halted /\ NothingDue
       \/ ~writing /\ CswDue(0)

StatusInv ==
  phase = "status" =>
    /\ ~in_halted
    /\ \/ inbox = <<>> /\ writing /\ NothingDue
       \/ inbox = <<>> /\ ~writing /\ CswDue(got)
       \/ inbox # <<>> /\ Old(inbox[1])
       \/ inbox # <<>> /\ ~writing /\ NothingDue /\ IsCsw(inbox[1], got)

HostInv ==
  /\ phase = "idle" => inbox = <<>> /\ parked = <<>> /\ ~in_halted /\ ~writing
  /\ phase = "idle" /\ ~gave_up => in_queue = <<>>
  /\ phase = "confused" => gave_up /\ inbox = <<>>
  /\ phase # "idle" => Len(cmd) = 1
  /\ Len(inbox) <= 1 /\ (inbox # <<>> => parked = <<>>)
  /\ phase # "reset"
  /\ \A i \in 1..Due : in_queue[i].tag <= tag /\ in_queue[i].kind # "stall"

\* Only a pipe that promised data is halted, and no command that halts it opens a write.
HaltInv == in_halted => ~writing

MscInv == TypeOK /\ WriteInv /\ HaltInv /\ DataInInv /\ DataOutInv /\ StatusInv /\ HostInv

LEMMA TheUnits == 0 \in Luns /\ NLuns \in Nat /\ BlockSize \in Nat /\ NBlocks \in Nat /\ InfoLen \in Nat
  BY MscAssumption DEF Luns

\* What a command is made of.
LEMMA CommandParts ==
  ASSUME NEW c \in Commands
  PROVE  /\ c.op \in Ops /\ c.lun \in Nat /\ c.lba \in Nat /\ c.count \in Nat /\ c.dlen \in Nat
         /\ c.in \in BOOLEAN /\ c.count * BlockSize \in Nat
<1>1. IsCommand(c)
  BY CommandsAssumption
<1>2. c.op \in Ops /\ c.lun \in Nat /\ c.lba \in Nat /\ c.count \in Nat /\ c.dlen \in Nat /\ c.in \in BOOLEAN
  BY <1>1 DEF IsCommand
<1> QED BY <1>2, TheUnits

\* usbip_device_write puts a reply behind the queue.
LEMMA Queued ==
  ASSUME NEW S, NEW q \in Seq(S), NEW x \in S
  PROVE  /\ q \o <<x>> \in Seq(S) /\ Len(q) \in Nat /\ Len(q \o <<x>>) = Len(q) + 1
         /\ (q \o <<x>>)[Len(q) + 1] = x
         /\ \A i \in 1..Len(q) : (q \o <<x>>)[i] = q[i]
<1>1. <<x>> \in Seq(S) /\ Len(<<x>>) = 1 /\ <<x>>[1] = x /\ Len(q) \in Nat
  OBVIOUS
<1>2. q \o <<x>> \in Seq(S) /\ Len(q \o <<x>>) = Len(q) + Len(<<x>>)
  BY <1>1, ConcatProperties
<1>3. \A i \in 1..(Len(q) + Len(<<x>>)) : (q \o <<x>>)[i] = IF i <= Len(q) THEN q[i] ELSE <<x>>[i - Len(q)]
  BY <1>1, ConcatProperties, Zenon
<1>4. \A i \in 1..(Len(q) + 1) : (q \o <<x>>)[i] = IF i <= Len(q) THEN q[i] ELSE <<x>>[i - Len(q)]
  BY <1>1, <1>3
<1> DEFINE r == q \o <<x>>
    w == <<x>>
<1>5. /\ \A i \in 1..(Len(q) + 1) : r[i] = IF i <= Len(q) THEN q[i] ELSE w[i - Len(q)]
      /\ w[1] = x
  BY <1>1, <1>4
<1> HIDE DEF r, w
<1>6. r[Len(q) + 1] = x /\ \A i \in 1..Len(q) : r[i] = q[i]
  BY <1>1, <1>5
<1> QED BY <1>1, <1>2, <1>6 DEF r

LEMMA QueuedTwo ==
  ASSUME NEW S, NEW q \in Seq(S), NEW x \in S, NEW y \in S
  PROVE  /\ q \o <<x, y>> \in Seq(S) /\ Len(q) \in Nat /\ Len(q \o <<x, y>>) = Len(q) + 2
         /\ (q \o <<x, y>>)[Len(q) + 1] = x /\ (q \o <<x, y>>)[Len(q) + 2] = y
         /\ \A i \in 1..Len(q) : (q \o <<x, y>>)[i] = q[i]
<1>1. <<x, y>> \in Seq(S) /\ Len(<<x, y>>) = 2 /\ <<x, y>>[1] = x /\ <<x, y>>[2] = y /\ Len(q) \in Nat
  OBVIOUS
<1>2. q \o <<x, y>> \in Seq(S) /\ Len(q \o <<x, y>>) = Len(q) + Len(<<x, y>>)
  BY <1>1, ConcatProperties
<1>3. \A i \in 1..(Len(q) + Len(<<x, y>>)) :
        (q \o <<x, y>>)[i] = IF i <= Len(q) THEN q[i] ELSE <<x, y>>[i - Len(q)]
  BY <1>1, ConcatProperties, Zenon
<1>4. \A i \in 1..(Len(q) + 2) : (q \o <<x, y>>)[i] = IF i <= Len(q) THEN q[i] ELSE <<x, y>>[i - Len(q)]
  BY <1>1, <1>3
<1> DEFINE r == q \o <<x, y>>
    w == <<x, y>>
<1>5. /\ \A i \in 1..(Len(q) + 2) : r[i] = IF i <= Len(q) THEN q[i] ELSE w[i - Len(q)]
      /\ w[1] = x /\ w[2] = y
  BY <1>1, <1>4
<1> HIDE DEF r, w
<1>6. r[Len(q) + 1] = x /\ r[Len(q) + 2] = y /\ \A i \in 1..Len(q) : r[i] = q[i]
  BY <1>1, <1>5
<1> QED BY <1>1, <1>2, <1>6 DEF r

LEMMA MscInitInv == Init => MscInv
<1> SUFFICES ASSUME Init PROVE MscInv
  OBVIOUS
<1>1. /\ in_queue = <<>> /\ parked = <<>> /\ inbox = <<>> /\ cmd = <<>> /\ wbuf = <<>>
      /\ phase = "idle" /\ writing = FALSE /\ in_halted = FALSE
  BY DEF Init
<1>2. /\ in_queue \in Seq(Dbufs) /\ parked \in Seq(Nat) /\ inbox \in Seq(Dbufs) /\ cmd \in Seq(Commands)
      /\ wbuf \in Seq(Nat \X Nat) /\ Len(in_queue) = 0 /\ Len(inbox) = 0
  BY <1>1
<1>3. disk \in [Luns -> [Blocks -> [1..BlockSize -> Nat \X Nat]]]
  BY DEF Init, Unwritten
<1>4. write \in [lun : Luns, tag : Nat, lba : Nat, count : Nat, need : Nat]
  BY TheUnits DEF Init, NoWrite
<1>5. /\ sense \in [Luns -> Reasons] /\ out_halted \in BOOLEAN /\ tag \in 0..MaxTag
      /\ got \in Nat /\ gave_up \in BOOLEAN /\ failed \in Reasons /\ phase \in Phases
  <2>1. MaxTag \in Nat
    BY MscAssumption
  <2>2. tag = 0 /\ got = 0 /\ gave_up = FALSE /\ failed = "none" /\ phase = "idle" /\ out_halted = FALSE
    BY DEF Init
  <2>3. sense \in [Luns -> Reasons]
    BY DEF Init, Reasons
  <2>4. tag \in 0..MaxTag
    BY <2>1, <2>2
  <2> QED BY <2>2, <2>3, <2>4 DEF Reasons, Phases
<1>6. TypeOK
  BY <1>1, <1>2, <1>3, <1>4, <1>5 DEF TypeOK
<1> QED BY <1>1, <1>2, <1>6 DEF MscInv, WriteInv, HaltInv, DataInInv, DataOutInv, StatusInv, HostInv, Due

\* Issuing a command: from idle, the replies to it go behind those of commands given up.
LEMMA SendCbwInv ==
  ASSUME MscInv, FollowsBot, NEW c \in Commands, SendCbw(c)
  PROVE  MscInv'
<1>0. TypeOK /\ HostInv
  BY DEF MscInv
<1>1. /\ phase = "idle" /\ tag < MaxTag /\ ~out_halted /\ inbox = <<>> /\ parked = <<>> /\ ~in_halted /\ ~writing
      /\ ~gave_up => in_queue = <<>>
  BY <1>0 DEF SendCbw, HostInv
<1>2. /\ tag' = tag + 1 /\ cmd' = <<c>> /\ got' = 0 /\ phase' = NextPhase(c) /\ gave_up' = gave_up
      /\ OnOut_Cbw(c, tag + 1)
  BY DEF SendCbw
<1>3. /\ in_queue \in Seq(Dbufs) /\ Len(in_queue) \in Nat /\ tag \in Nat /\ MaxTag \in Nat /\ tag' \in 0..MaxTag
  BY <1>0, <1>1, <1>2, MscAssumption DEF TypeOK
<1>4. /\ TheCmd' = c /\ cmd' \in Seq(Commands) /\ Len(cmd') = 1
  BY <1>2 DEF TheCmd
<1>5. /\ c.op \in Ops /\ c.lun \in Nat /\ c.dlen \in Nat /\ c.in \in BOOLEAN /\ c.count \in Nat /\ c.lba \in Nat
      /\ c.count * BlockSize \in Nat
  BY CommandParts
<1>6. /\ phase' \in {"status", "data_in", "data_out"} /\ phase' \in Phases
      /\ (phase' = "status" <=> c.dlen = 0) /\ (phase' = "data_in" <=> (c.dlen # 0 /\ c.in))
      /\ (phase' = "data_out" <=> (c.dlen # 0 /\ ~c.in))
  BY <1>2, <1>5 DEF NextPhase, Phases
<1>7. \A i \in 1..Len(in_queue) : gave_up /\ in_queue[i].kind # "stall" /\ in_queue[i].tag < tag'
  <2> SUFFICES ASSUME NEW i \in 1..Len(in_queue)
               PROVE  gave_up /\ in_queue[i].kind # "stall" /\ in_queue[i].tag < tag'
    OBVIOUS
  <2>1. in_queue[i] \in Dbufs
    BY <1>3, ElementOfSeq
  <2>2. in_queue[i].tag \in Nat
    BY <2>1 DEF Dbufs
  <2>3. in_queue[i].tag <= tag /\ in_queue[i].kind # "stall"
    BY <1>0 DEF HostInv, Due
  <2>4. in_queue # <<>>
    BY <1>3
  <2> QED BY <1>1, <1>2, <1>3, <2>2, <2>3, <2>4
\* A CSW and nothing else.
<1>c. ASSUME NEW x \in Dbufs, in_queue' = in_queue \o <<x>>, inbox' = inbox, parked' = parked,
             x.kind = "csw", x.tag = tag + 1, x.len = 1, x.residue = c.dlen,
             x.status = "failed" => SenseTold', c.op = "write" => x.status = "failed",
             in_halted' = (c.dlen > 0 /\ c.in), out_halted' \in BOOLEAN,
             sense' \in [Luns -> Reasons], failed' \in Reasons, UNCHANGED <<writing, write, wbuf, disk>>
      PROVE  MscInv'
  <2> DEFINE n == Len(in_queue)
  <2>1. /\ in_queue' \in Seq(Dbufs) /\ n \in Nat /\ Len(in_queue') = n + 1 /\ in_queue'[n + 1] = x
        /\ \A i \in 1..n : in_queue'[i] = in_queue[i]
    BY <1>3, <1>c, Queued
  <2> HIDE DEF n
  <2>2. TypeOK'
    BY <1>0, <1>2, <1>3, <1>4, <1>6, <1>c, <2>1 DEF TypeOK
  <2>3. Olds(Due - 1)' /\ Due' = n + 1
    <3>1. Due' = n + 1 /\ Due' - 1 = n
      BY <2>1 DEF Due
    <3>2. \A i \in 1..n : gave_up' /\ in_queue'[i].kind # "stall" /\ in_queue'[i].tag < tag'
      BY <1>2, <1>7, <2>1 DEF n
    <3> QED BY <3>1, <3>2 DEF Olds, Old
  <2>4. IsCsw(in_queue[Due], 0)'
    <3>1. in_queue'[Due'] = x
      BY <2>1, <2>3
    <3>2. x.residue = TheCmd'.dlen - 0
      BY <1>4, <1>5, <1>c
    <3>3. TheCmd'.op = "write" => x.status # "passed"
      BY <1>4, <1>c
    <3> QED BY <1>2, <1>c, <3>1, <3>2, <3>3 DEF IsCsw
  <2>5. CswDue(0)'
    BY <2>1, <2>3, <2>4 DEF CswDue
  <2>6. \A i \in 1..Due' : in_queue'[i].tag <= tag' /\ in_queue'[i].kind # "stall"
    <3> SUFFICES ASSUME NEW i \in 1..Due' PROVE in_queue'[i].tag <= tag' /\ in_queue'[i].kind # "stall"
      OBVIOUS
    <3>1. i = n + 1 \/ i \in 1..n
      BY <2>1, <2>3
    <3>2. CASE i = n + 1
      BY <1>2, <1>3, <1>c, <2>1, <3>2
    <3>3. CASE i \in 1..n
      <4>1. in_queue'[i] = in_queue[i] /\ in_queue[i] \in Dbufs
        BY <1>3, <2>1, <3>3, ElementOfSeq DEF n
      <4>2. in_queue[i].tag \in Nat
        BY <4>1 DEF Dbufs
      <4> QED BY <1>2, <1>3, <1>7, <3>3, <4>1, <4>2 DEF n
    <3> QED BY <3>1, <3>2, <3>3
  <2>7. WriteInv' /\ HaltInv'
    BY <1>1, <1>c DEF WriteInv, HaltInv
  <2>8. DataInInv'
    BY <1>1, <1>2, <1>4, <1>5, <1>6, <1>c, <2>5 DEF DataInInv
  <2>9. DataOutInv'
    BY <1>1, <1>4, <1>5, <1>6, <1>c, <2>5 DEF DataOutInv
  <2>10. CswDue(got)'
    BY <1>2, <2>5 DEF CswDue, IsCsw
  <2>11. StatusInv'
    <3>1. ASSUME phase' = "status" PROVE ~in_halted'
      <4>1. ~(c.dlen > 0)
        BY <1>5, <1>6, <3>1
      <4> QED BY <1>c, <4>1
    <3> QED BY <1>1, <1>c, <2>10, <3>1 DEF StatusInv
  <2>12. HostInv'
    <3>1. inbox' = <<>> /\ Len(inbox') <= 1
      BY <1>1, <1>c
    <3> QED BY <1>4, <1>6, <2>6, <3>1 DEF HostInv
  <2> QED BY <2>2, <2>7, <2>8, <2>9, <2>11, <2>12 DEF MscInv
<1>n. UNCHANGED <<parked, inbox>> <=> parked' = parked /\ inbox' = inbox
  OBVIOUS
\* msc_fail.
<1>f. ASSUME NEW l \in Luns, NEW reason \in Reasons, reason # "write_error",
             l = (IF c.lun \in Luns THEN c.lun ELSE 0), Fail(l, c, tag + 1, reason)
      PROVE  MscInv'
  <2>1. PICK x : x = Csw(tag + 1, c.dlen, "failed")
    OBVIOUS
  <2>2. /\ x \in Dbufs /\ x.kind = "csw" /\ x.tag = tag + 1 /\ x.len = 1 /\ x.residue = c.dlen /\ x.status = "failed"
    BY <1>3, <1>5, <2>1 DEF Csw, Dbufs
  <2>3. in_queue' = in_queue \o <<x>> /\ inbox' = inbox /\ parked' = parked
    BY <1>1, <1>f, <2>1 DEF Fail, Emit
  <2>4. /\ sense' = [sense EXCEPT ![l] = reason] /\ failed' = reason /\ UNCHANGED <<writing, write, wbuf, disk>>
        /\ in_halted' = (in_halted \/ (c.dlen > 0 /\ c.in)) /\ out_halted' = (out_halted \/ (c.dlen > 0 /\ ~c.in))
    BY <1>f DEF Fail, SenseUnit, StallDataPhase
  <2>5. sense' \in [Luns -> Reasons] /\ sense'[l] = reason /\ failed' \in Reasons
    BY <1>0, <2>4 DEF TypeOK
  <2>6. SenseTold'
    BY <1>4, <1>f, <2>4, <2>5 DEF SenseTold
  <2>7. in_halted' = (c.dlen > 0 /\ c.in) /\ out_halted' \in BOOLEAN
    BY <1>1, <2>4
  <2> QED BY <1>c, <2>2, <2>3, <2>4, <2>5, <2>6, <2>7
\* msc_data_in.
<1>d. ASSUME NEW len \in Nat, DataIn(c, tag + 1, len), c.op # "write", c.dlen > 0 => c.in,
             UNCHANGED <<writing, write, wbuf, disk, failed>>, sense' \in [Luns -> Reasons]
      PROVE  MscInv'
  <2>1. PICK send : send = IF len < c.dlen THEN len ELSE c.dlen
    OBVIOUS
  <2>2. send \in Nat /\ send <= c.dlen
    BY <1>5, <2>1
  <2>3. CASE ~(send > 0)
    <3>1. PICK x : x = Csw(tag + 1, c.dlen - send, "passed")
      OBVIOUS
    <3>2. c.dlen - send = c.dlen
      BY <1>5, <2>2, <2>3
    <3>3. x \in Dbufs /\ x.kind = "csw" /\ x.tag = tag + 1 /\ x.len = 1 /\ x.residue = c.dlen /\ x.status = "passed"
      BY <1>3, <1>5, <3>1, <3>2 DEF Csw, Dbufs
    <3>4. StallDataPhase(c.dlen, c.in) /\ Emit(<<x>>)
      BY <1>d, <2>1, <2>3, <3>1 DEF DataIn, Residue
    <3>5. /\ in_queue' = in_queue \o <<x>> /\ inbox' = inbox /\ parked' = parked
          /\ in_halted' = (c.dlen > 0 /\ c.in) /\ out_halted' \in BOOLEAN
      BY <1>1, <3>4 DEF Emit, StallDataPhase
    <3>6. failed' \in Reasons
      BY <1>0, <1>d DEF TypeOK
    <3> QED BY <1>c, <1>d, <3>3, <3>5, <3>6
  <2>4. CASE send > 0
    <3>1. PICK x : x = Data(tag + 1, send)
      OBVIOUS
    <3>2. PICK y : y = Csw(tag + 1, c.dlen - send, "passed")
      OBVIOUS
    <3>3. /\ x \in Dbufs /\ x.kind = "data" /\ x.tag = tag + 1 /\ x.len = send
      BY <1>3, <2>2, <3>1 DEF Data, Dbufs
    <3>4. c.dlen - send \in Int
      BY <1>5, <2>2
    <3>5. /\ y \in Dbufs /\ y.kind = "csw" /\ y.tag = tag + 1 /\ y.len = 1 /\ y.residue = c.dlen - send
          /\ y.status = "passed"
      BY <1>3, <3>2, <3>4 DEF Csw, Dbufs
    <3>6. Emit(<<x, y>>) /\ UNCHANGED <<in_halted, out_halted>>
      BY <1>d, <2>1, <2>4, <3>1, <3>2 DEF DataIn, Residue
    <3>7. in_queue' = in_queue \o <<x, y>> /\ inbox' = inbox /\ parked' = parked
      BY <1>1, <3>6 DEF Emit
    <3> DEFINE n == Len(in_queue)
    <3>8. /\ in_queue' \in Seq(Dbufs) /\ n \in Nat /\ Len(in_queue') = n + 2
          /\ in_queue'[n + 1] = x /\ in_queue'[n + 2] = y
          /\ \A i \in 1..n : in_queue'[i] = in_queue[i]
      BY <1>3, <3>3, <3>5, <3>7, QueuedTwo
    <3> HIDE DEF n
    <3>9. TypeOK'
      BY <1>0, <1>2, <1>3, <1>4, <1>6, <1>d, <3>6, <3>7, <3>8 DEF TypeOK
    <3>10. Due' = n + 2 /\ Olds(Due - 2)'
      <4>1. Due' = n + 2 /\ Due' - 2 = n
        BY <3>8 DEF Due
      <4>2. \A i \in 1..n : gave_up' /\ in_queue'[i].kind # "stall" /\ in_queue'[i].tag < tag'
        BY <1>2, <1>7, <3>8 DEF n
      <4> QED BY <4>1, <4>2 DEF Olds, Old
    <3>11. IsData(in_queue[Due - 1])' /\ IsCsw(in_queue[Due], in_queue[Due - 1].len)'
      <4>1. in_queue'[Due'] = y /\ Due' - 1 = n + 1 /\ in_queue'[Due' - 1] = x
        BY <3>8, <3>10
      <4>2. IsData(in_queue[Due - 1])'
        BY <1>2, <1>4, <2>2, <3>3, <4>1 DEF IsData
      <4>3. "failed" # "passed"
        OBVIOUS
      <4>4. IsCsw(in_queue[Due], in_queue[Due - 1].len)'
        BY <1>2, <1>4, <1>d, <3>3, <3>5, <4>1, <4>3 DEF IsCsw
      <4> QED BY <4>2, <4>4
    <3>12. DataDue'
      BY <3>8, <3>10, <3>11 DEF DataDue
    <3>13. \A i \in 1..Due' : in_queue'[i].tag <= tag' /\ in_queue'[i].kind # "stall"
      <4> SUFFICES ASSUME NEW i \in 1..Due' PROVE in_queue'[i].tag <= tag' /\ in_queue'[i].kind # "stall"
        OBVIOUS
      <4>1. i = n + 1 \/ i = n + 2 \/ i \in 1..n
        BY <3>8, <3>10
      <4>2. CASE i = n + 1 \/ i = n + 2
        BY <1>2, <1>3, <3>3, <3>5, <3>8, <4>2
      <4>3. CASE i \in 1..n
        <5>1. in_queue'[i] = in_queue[i] /\ in_queue[i] \in Dbufs
          BY <1>3, <3>8, <4>3, ElementOfSeq DEF n
        <5>2. in_queue[i].tag \in Nat
          BY <5>1 DEF Dbufs
        <5> QED BY <1>2, <1>3, <1>7, <4>3, <5>1, <5>2 DEF n
      <4> QED BY <4>1, <4>2, <4>3
    <3>14. c.dlen # 0 /\ c.in /\ phase' = "data_in"
      BY <1>5, <1>6, <1>d, <2>2, <2>4
    <3>15. WriteInv' /\ HaltInv' /\ DataOutInv' /\ StatusInv'
      BY <1>1, <1>d, <3>14 DEF WriteInv, HaltInv, DataOutInv, StatusInv
    <3>16. DataInInv'
      BY <1>1, <1>2, <1>4, <1>d, <3>6, <3>7, <3>12, <3>14 DEF DataInInv
    <3>17. HostInv'
      <4>1. inbox' = <<>> /\ Len(inbox') <= 1
        BY <1>1, <3>7
      <4> QED BY <1>4, <3>13, <3>14, <4>1 DEF HostInv
    <3> QED BY <3>9, <3>15, <3>16, <3>17 DEF MscInv
  <2> QED BY <2>3, <2>4
\* WRITE: nothing is due until the data is there.
<1>w. ASSUME StartWrite(c, tag + 1), c.op = "write", c.lun \in Luns, InRange(c)
      PROVE  MscInv'
  <2>1. /\ writing' = TRUE /\ wbuf' = <<>>
        /\ write' = [lun |-> c.lun, tag |-> tag + 1, lba |-> c.lba, count |-> c.count, need |-> c.count * BlockSize]
        /\ UNCHANGED <<sense, disk, in_halted, out_halted, in_queue, parked, inbox, failed>>
    BY <1>w DEF StartWrite
  <2>2. wbuf' \in Seq(Nat \X Nat) /\ Len(wbuf') = 0
    BY <2>1
  <2>3. write' \in [lun : Luns, tag : Nat, lba : Nat, count : Nat, need : Nat]
    BY <1>3, <1>5, <1>w, <2>1
  <2>4. TypeOK'
    BY <1>0, <1>2, <1>3, <1>4, <1>6, <2>1, <2>2, <2>3 DEF TypeOK
  <2>5. NothingDue'
    BY <1>2, <1>7, <2>1 DEF NothingDue, Olds, Old, Due
  <2>6. WriteInv'
    <3>1. InRange(TheCmd)'
      BY <1>4, <1>w DEF InRange
    <3>2. write'.need \in Nat
      BY <2>3
    <3> QED BY <1>2, <1>4, <1>6, <1>w, <2>1, <2>2, <3>1, <3>2 DEF WriteInv
  <2>7. HaltInv' /\ DataInInv' /\ DataOutInv' /\ StatusInv'
    BY <1>1, <1>2, <1>4, <1>6, <2>1, <2>5 DEF HaltInv, DataInInv, DataOutInv, StatusInv
  <2>8. \A i \in 1..Due' : in_queue'[i].tag <= tag' /\ in_queue'[i].kind # "stall"
    <3> SUFFICES ASSUME NEW i \in 1..Len(in_queue) PROVE in_queue[i].tag <= tag' /\ in_queue[i].kind # "stall"
      BY <2>1 DEF Due
    <3>1. in_queue[i] \in Dbufs
      BY <1>3, ElementOfSeq
    <3>2. in_queue[i].tag \in Nat
      BY <3>1 DEF Dbufs
    <3> QED BY <1>2, <1>3, <1>7, <3>2
  <2>9. HostInv'
    <3>1. inbox' = <<>> /\ Len(inbox') <= 1
      BY <1>1, <2>1
    <3> QED BY <1>4, <1>6, <2>8, <3>1 DEF HostInv
  <2> QED BY <2>4, <2>6, <2>7, <2>9 DEF MscInv
<1>s. /\ {"none", "invalid", "range", "protect", "read_error", "lun"} \subseteq Reasons
      /\ sense \in [Luns -> Reasons] /\ [sense EXCEPT ![c.lun] = "none"] \in [Luns -> Reasons]
  BY <1>0 DEF TypeOK, Reasons
<1>8. CASE c.lun \notin Luns /\ Fail(0, c, tag + 1, "lun")
  BY <1>f, <1>s, <1>8, TheUnits
<1>9. CASE c.lun \in Luns /\ Dispatch(c, tag + 1)
  <2>1. ASSUME NEW reason \in {"invalid", "range", "protect", "read_error"}, Fail(c.lun, c, tag + 1, reason)
        PROVE  MscInv'
    BY <1>f, <1>s, <1>9, <2>1
  <2>2. CASE c.op = "nodata" /\ Emit(<<Csw(tag + 1, 0, "passed")>>) /\ UNCHANGED <<msc, in_halted, out_halted, failed>>
    <3>1. PICK x : x = Csw(tag + 1, 0, "passed")
      OBVIOUS
    <3>2. c.dlen = 0
      BY <1>5, <2>2 DEF FollowsBot
    <3>3. x \in Dbufs /\ x.kind = "csw" /\ x.tag = tag + 1 /\ x.len = 1 /\ x.residue = c.dlen /\ x.status = "passed"
      BY <1>3, <3>1, <3>2 DEF Csw, Dbufs
    <3>4. in_queue' = in_queue \o <<x>> /\ inbox' = inbox /\ parked' = parked
      BY <1>1, <2>2, <3>1 DEF Emit
    <3>a. UNCHANGED <<sense, writing, write, wbuf, disk, in_halted, out_halted, failed>>
      BY <2>2 DEF msc
    <3>b. ~(c.dlen > 0) /\ in_halted = FALSE
      BY <1>0, <1>1, <3>2 DEF TypeOK
    <3>5. /\ UNCHANGED <<sense, writing, write, wbuf, disk, in_halted, out_halted, failed>>
          /\ in_halted' = (c.dlen > 0 /\ c.in)
      BY <3>a, <3>b
    <3>6. failed' \in Reasons /\ sense' \in [Luns -> Reasons] /\ out_halted' \in BOOLEAN
      BY <1>0, <3>5 DEF TypeOK
    <3> QED BY <1>c, <2>2, <3>3, <3>4, <3>5, <3>6
  <2>3. CASE c.op = "info" /\ DataIn(c, tag + 1, InfoLen) /\ UNCHANGED <<msc, failed>>
    BY <1>d, <1>s, <2>3, TheUnits DEF msc, FollowsBot
  <2>4. CASE /\ c.op = "sense" /\ sense' = Reported(c.lun) /\ DataIn(c, tag + 1, InfoLen)
             /\ UNCHANGED <<writing, write, wbuf, disk, failed>>
    BY <1>d, <1>s, <2>4, TheUnits DEF Reported, FollowsBot
  <2>5. CASE c.op = "read" /\ DataIn(c, tag + 1, c.count * BlockSize) /\ UNCHANGED <<msc, failed>>
    BY <1>5, <1>d, <1>s, <2>5 DEF msc, FollowsBot
  <2>6. CASE c.op = "write" /\ InRange(c) /\ StartWrite(c, tag + 1)
    BY <1>w, <1>9, <2>6
  <2> QED BY <1>9, <2>1, <2>2, <2>3, <2>4, <2>5, <2>6 DEF Dispatch
<1> QED BY <1>1, <1>2, <1>8, <1>9 DEF OnOut_Cbw

\* The units of a data phase, collected: unit i of the buffer is unit i that was sent.
IsSent(b, t, m) == b \in Seq(Nat \X Nat) /\ Len(b) = m /\ \A i \in 1..m : b[i] = <<t, i>>
IsChunk(U, t, m, n) == U = [i \in 1..n |-> <<t, m + i>>]

LEMMA Collects ==
  ASSUME NEW w, NEW t \in Nat, NEW m \in Nat, IsSent(w, t, m), NEW n \in Nat, NEW k \in 0..n,
         NEW U, IsChunk(U, t, m, n), NEW b, b = w \o SubSeq(U, 1, k)
  PROVE  IsSent(b, t, m + k)
<1>0. /\ w \in Seq(Nat \X Nat) /\ Len(w) = m /\ (\A i \in 1..Len(w) : w[i] = <<t, i>>)
      /\ U = [i \in 1..n |-> <<t, Len(w) + i>>]
  BY DEF IsSent, IsChunk
<1> DEFINE s == SubSeq(U, 1, k)
<1>1. Len(w) \in Nat /\ k \in Nat /\ k <= n
  BY <1>0
<1>2. U \in Seq(Nat \X Nat) /\ Len(U) = n /\ \A i \in 1..n : U[i] = <<t, Len(w) + i>>
  <2>1. \A i \in 1..n : <<t, Len(w) + i>> \in Nat \X Nat
    BY <1>1
  <2>2. U \in [1..n -> Nat \X Nat] /\ \A i \in 1..n : U[i] = <<t, Len(w) + i>>
    BY <1>0, <2>1
  <2>3. U \in Seq(Nat \X Nat)
    BY <2>2, SeqDef
  <2>4. DOMAIN U = 1..n /\ DOMAIN U = 1..Len(U) /\ Len(U) \in Nat
    BY <2>2, <2>3, LenProperties
  <2>5. Len(U) = n
    BY <2>4
  <2> QED BY <2>2, <2>3, <2>5
<1>3. s \in Seq(Nat \X Nat) /\ Len(s) = k /\ \A i \in 1..k : s[i] = U[i]
  <2>1. \A i \in 1..k : U[i] \in Nat \X Nat
    BY <1>1, <1>2, ElementOfSeq
  <2>2. /\ s \in Seq(Nat \X Nat)
        /\ Len(s) = (IF 1 <= k THEN k - 1 + 1 ELSE 0)
        /\ \A i \in 1..(k - 1 + 1) : s[i] = U[1 + i - 1]
    BY <1>1, <1>2, SubSeqProperties
  <2> HIDE DEF s
  <2>3. k - 1 + 1 = k /\ \A i \in 1..k : 1 + i - 1 = i
    BY <1>1
  <2>4. Len(s) = k
    BY <1>1, <2>2
  <2>5. \A i \in 1..k : s[i] = U[1 + i - 1]
    BY <2>2, <2>3
  <2> QED BY <2>2, <2>3, <2>4, <2>5
<1> HIDE DEF s
<1>b. b = w \o s
  BY DEF s
<1>4. b \in Seq(Nat \X Nat) /\ Len(b) = Len(w) + Len(s)
  <2>1. w \in Seq(Nat \X Nat) /\ s \in Seq(Nat \X Nat)
    BY <1>0, <1>3
  <2>2. w \o s \in Seq(Nat \X Nat) /\ Len(w \o s) = Len(w) + Len(s)
    BY <2>1, ConcatProperties
  <2> QED BY <1>b, <2>2
<1>5. \A i \in 1..(Len(w) + Len(s)) : b[i] = IF i <= Len(w) THEN w[i] ELSE s[i - Len(w)]
  <2>1. \A i \in 1..(Len(w) + Len(s)) : (w \o s)[i] = IF i <= Len(w) THEN w[i] ELSE s[i - Len(w)]
    BY <1>0, <1>3, ConcatProperties, Zenon
  <2> QED BY <1>b, <2>1
<1>6. ASSUME NEW i \in 1..(Len(w) + k) PROVE b[i] = <<t, i>>
  <2>1. CASE i <= Len(w)
    <3>1. i \in 1..Len(w) /\ b[i] = w[i]
      BY <1>1, <1>3, <1>5, <2>1
    <3> QED BY <1>0, <3>1
  <2>2. CASE ~(i <= Len(w))
    <3>1. i - Len(w) \in 1..k /\ i - Len(w) \in 1..n /\ Len(w) + (i - Len(w)) = i
      BY <1>1, <2>2
    <3>2. b[i] = s[i - Len(w)]
      BY <1>1, <1>3, <1>5, <2>2
    <3> QED BY <1>2, <1>3, <3>1, <3>2
  <2> QED BY <2>1, <2>2
<1> QED BY <1>0, <1>3, <1>4, <1>6 DEF IsSent

\* A unit of block x of n is one of the n blocks' units.
LEMMA UnitInRange ==
  ASSUME NEW n \in Nat, NEW x \in Nat, x < n, NEW size \in Nat, NEW u \in 1..size
  PROVE  x * size + u \in 1..(n * size)
<1>1. n - x - 1 \in Nat
  OBVIOUS
<1>2. PICK d \in Nat : n = x + 1 + d
  BY <1>1
<1>3. n * size = x * size + size + d * size
  BY <1>2
<1>4. x * size \in Nat /\ d * size \in Nat /\ u \in Nat /\ 1 <= u /\ u <= size
  OBVIOUS
<1> QED BY <1>3, <1>4

\* The backend's write puts the buffer into the blocks of the command and touches no others.
LEMMA WrittenBlocks ==
  ASSUME TypeOK, WriteInv, writing, NEW buf \in Seq(Nat \X Nat), cmd \in Seq(Commands), Len(cmd) = 1,
         \A i \in 1..write.need : buf[i] = <<tag, i>>,
         disk' = Written(buf), tag' = tag, cmd' = cmd
  PROVE  /\ disk' \in [Luns -> [Blocks -> [1..BlockSize -> Nat \X Nat]]]
         /\ Landed'
         /\ \A l \in Luns : \A b \in Blocks :
              disk'[l][b] # disk[l][b] => l = TheCmd.lun /\ \A u \in 1..BlockSize : disk'[l][b][u][1] = tag
<1> DEFINE c == TheCmd
    range == c.lba..(c.lba + c.count - 1)
    old == disk[c.lun]
    new == [b \in Blocks |->
              IF b \in range THEN [u \in 1..BlockSize |-> buf[(b - c.lba) * BlockSize + u]] ELSE old[b]]
<1>1. TheCmd \in Commands
  BY ElementOfSeq DEF TheCmd
<1>2. /\ c.lba \in Nat /\ c.count \in Nat /\ c.count * BlockSize \in Nat /\ BlockSize \in Nat /\ NBlocks \in Nat
  BY <1>1, CommandParts, TheUnits
<1>3. /\ write.lun = c.lun /\ write.lba = c.lba /\ write.count = c.count /\ write.need = c.count * BlockSize
      /\ c.lun \in Luns /\ InRange(c)
  BY DEF WriteInv
<1>4. disk' = [disk EXCEPT ![c.lun] = new]
  BY <1>3 DEF Written
<1>5. disk \in [Luns -> [Blocks -> [1..BlockSize -> Nat \X Nat]]] /\ tag \in Nat
  <2>1. MaxTag \in Nat
    BY MscAssumption
  <2>2. tag \in 0..MaxTag
    BY DEF TypeOK
  <2>3. tag \in Nat
    BY <2>1, <2>2
  <2>4. disk \in [Luns -> [Blocks -> [1..BlockSize -> Nat \X Nat]]]
    BY DEF TypeOK
  <2> QED BY <2>3, <2>4
<1>6. ASSUME NEW b \in range, NEW u \in 1..BlockSize
      PROVE  buf[(b - c.lba) * BlockSize + u] = <<tag, (b - c.lba) * BlockSize + u>>
             /\ (b - c.lba) * BlockSize + u \in Nat
  <2>1. b - c.lba \in Nat /\ b - c.lba < c.count
    BY <1>2, SMTT(30)
  <2>2. (b - c.lba) * BlockSize + u \in 1..(c.count * BlockSize)
    BY <1>2, <2>1, UnitInRange
  <2> DEFINE k == (b - c.lba) * BlockSize + u
  <2>3. k \in 1..write.need
    BY <1>3, <2>2
  <2>4. k \in Nat
    BY <1>2, <2>2
  <2> HIDE DEF k
  <2>5. buf[k] = <<tag, k>>
    BY <2>3
  <2> QED BY <2>4, <2>5 DEF k
<1>7. \A b \in range : b \in Blocks
  BY <1>2, <1>3 DEF InRange, Blocks
<1>8. /\ \A b \in range : \A u \in 1..BlockSize : new[b][u] = <<tag, (b - c.lba) * BlockSize + u>>
      /\ \A b \in Blocks : b \notin range => new[b] = old[b]
  BY <1>6, <1>7
<1>9. new \in [Blocks -> [1..BlockSize -> Nat \X Nat]]
  <2> SUFFICES ASSUME NEW b \in Blocks PROVE new[b] \in [1..BlockSize -> Nat \X Nat]
    BY Zenon
  <2>1. CASE b \in range
    <3>1. \A u \in 1..BlockSize : buf[(b - c.lba) * BlockSize + u] \in Nat \X Nat
      <4> SUFFICES ASSUME NEW u \in 1..BlockSize PROVE buf[(b - c.lba) * BlockSize + u] \in Nat \X Nat
        OBVIOUS
      <4> DEFINE k == (b - c.lba) * BlockSize + u
      <4>1. buf[k] = <<tag, k>> /\ k \in Nat
        BY <1>6, <2>1
      <4> HIDE DEF k
      <4>2. buf[k] \in Nat \X Nat
        BY <1>5, <4>1
      <4> QED BY <4>2 DEF k
    <3> QED BY <2>1, <3>1
  <2>2. CASE b \notin range
    BY <1>3, <1>5, <2>2
  <2> QED BY <2>1, <2>2
<1> HIDE DEF new, range
<1>10. disk' \in [Luns -> [Blocks -> [1..BlockSize -> Nat \X Nat]]]
  BY <1>3, <1>4, <1>5, <1>9
<1>11. disk'[c.lun] = new /\ \A l \in Luns : l # c.lun => disk'[l] = disk[l]
  BY <1>3, <1>4, <1>5
<1>12. TheCmd' = TheCmd
  BY DEF TheCmd
<1>13. Landed'
  BY <1>8, <1>11, <1>12 DEF Landed, range
<1>14. ASSUME NEW l \in Luns, NEW b \in Blocks, disk'[l][b] # disk[l][b]
       PROVE  l = TheCmd.lun /\ \A u \in 1..BlockSize : disk'[l][b][u][1] = tag
  <2>1. l = TheCmd.lun /\ b \in range
    BY <1>8, <1>11, <1>14
  <2> QED BY <1>8, <1>11, <2>1
<1> QED BY <1>10, <1>13, <1>14

\* Data of the host: collected, and the last of it written and answered.  The disk changes
\* as a whole write of the command or not at all.
LEMMA SendDataInv ==
  ASSUME MscInv, NEW n \in 1..MaxChunk, SendData(n)
  PROVE  /\ MscInv'
         /\ disk' # disk =>
              \A l \in Luns : \A b \in Blocks :
                disk'[l][b] # disk[l][b] => l = TheCmd.lun /\ \A u \in 1..BlockSize : disk'[l][b][u][1] = tag
<1>0. TypeOK /\ HostInv /\ WriteInv /\ DataOutInv
  BY DEF MscInv
<1>1. phase = "data_out" /\ UNCHANGED <<in_halted, cmd, tag, gave_up>> /\ n <= TheCmd.dlen - got
  BY DEF SendData
<1>2. /\ ~TheCmd.in /\ inbox = <<>> /\ parked = <<>> /\ ~in_halted /\ Len(cmd) = 1
      /\ (writing /\ ~out_halted /\ NothingDue) \/ (~writing /\ CswDue(0))
  BY <1>0, <1>1 DEF DataOutInv, HostInv
<1>3. TheCmd' = TheCmd /\ cmd \in Seq(Commands) /\ TheCmd \in Commands
  <2>1. cmd \in Seq(Commands) /\ 1 \in 1..Len(cmd)
    BY <1>0, <1>2 DEF TypeOK
  <2>2. cmd[1] \in Commands
    BY <2>1, ElementOfSeq
  <2> QED BY <1>1, <2>1, <2>2 DEF TheCmd
<1>4. /\ got \in Nat /\ tag \in Nat /\ n \in Nat /\ in_queue \in Seq(Dbufs) /\ Len(in_queue) \in Nat
      /\ TheCmd.dlen \in Nat
  <2>1. MaxTag \in Nat /\ MaxChunk \in Nat
    BY MscAssumption
  <2> QED BY <1>0, <1>3, <2>1, CommandParts DEF TypeOK
<1>5. \A i \in 1..Len(in_queue) : in_queue[i].tag <= tag /\ in_queue[i].kind # "stall"
  BY <1>0 DEF HostInv, Due
\* Nothing is answered: the queue and what is due stay.
<1>a. ASSUME phase' \in {"status", "data_out"}, ~writing, CswDue(0), UNCHANGED <<msc, in_queue, parked, inbox, failed>>,
             got' \in Nat, out_halted' \in BOOLEAN
      PROVE  MscInv'
  <2>1. UNCHANGED <<sense, writing, write, wbuf, disk>>
    BY <1>a DEF msc
  <2>2. TypeOK'
    BY <1>0, <1>1, <1>a, <2>1 DEF TypeOK, Phases
  <2>3. SenseTold' = SenseTold /\ Landed' = Landed
    BY <1>1, <1>3, <1>a, <2>1 DEF SenseTold, Landed
  <2>4. CswDue(0)' /\ CswDue(got)'
    BY <1>1, <1>2, <1>3, <1>a, <2>3 DEF CswDue, Due, Olds, Old, IsCsw
  <2>5. WriteInv' /\ HaltInv' /\ DataInInv' /\ DataOutInv' /\ StatusInv'
    BY <1>1, <1>2, <1>3, <1>a, <2>1, <2>4 DEF WriteInv, HaltInv, DataInInv, DataOutInv, StatusInv
  <2>6. Len(inbox') <= 1
    BY <1>2, <1>a
  <2>7. HostInv'
    BY <1>1, <1>2, <1>5, <1>a, <2>6 DEF HostInv, Due
  <2> QED BY <2>2, <2>5, <2>7 DEF MscInv
<1>6. CASE out_halted
  <2>1. out_halted' = FALSE /\ phase' = "status" /\ UNCHANGED <<msc, in_queue, parked, inbox, got, failed>>
    BY <1>6 DEF SendData
  <2>2. MscInv'
    BY <1>2, <1>4, <1>6, <1>a, <2>1
  <2> QED BY <2>1, <2>2 DEF msc
<1>7. CASE ~out_halted
  <2>1. /\ got' = got + n /\ out_halted' = out_halted
        /\ phase' = (IF got + n = TheCmd.dlen THEN "status" ELSE "data_out")
        /\ IF writing THEN CollectWrite([i \in 1..n |-> <<tag, got + i>>])
                      ELSE UNCHANGED <<msc, in_queue, parked, inbox, failed>>
    BY <1>7 DEF SendData
  <2>2. phase' \in {"status", "data_out"} /\ got' \in Nat /\ out_halted' \in BOOLEAN
    BY <1>0, <1>4, <2>1 DEF TypeOK
  <2>3. CASE ~writing
    <3>1. UNCHANGED <<msc, in_queue, parked, inbox, failed>>
      BY <2>1, <2>3
    <3>2. MscInv'
      BY <1>2, <1>a, <2>2, <2>3, <3>1
    <3> QED BY <3>1, <3>2 DEF msc
  <2>4. CASE writing
    <3> DEFINE U == [i \in 1..n |-> <<tag, got + i>>]
        room == write.need - Len(wbuf)
        take == IF Len(U) > room THEN room ELSE Len(U)
        buf == wbuf \o SubSeq(U, 1, take)
    <3>1. /\ Len(wbuf) = got /\ got <= write.need /\ (\A i \in 1..got : wbuf[i] = <<tag, i>>)
          /\ write.tag = tag /\ wbuf \in Seq(Nat \X Nat) /\ write.need \in Nat
      <4>1. /\ Len(wbuf) = got /\ got <= write.need /\ (\A i \in 1..got : wbuf[i] = <<tag, i>>)
            /\ write.tag = tag
        BY <1>0, <2>4 DEF WriteInv
      <4>2. wbuf \in Seq(Nat \X Nat)
        BY <1>0 DEF TypeOK
      <4>3. write \in [lun : Luns, tag : Nat, lba : Nat, count : Nat, need : Nat]
        BY <1>0 DEF TypeOK
      <4> QED BY <4>1, <4>2, <4>3
    <3>2. Len(U) = n
      BY <1>4
    <3>3. /\ take = (IF n > write.need - got THEN write.need - got ELSE n) /\ take \in 0..n
          /\ take <= write.need - got
      BY <1>4, <3>1, <3>2
    <3>t. CollectWrite(U)
      BY <2>1, <2>4
    <3>4. CASE Len(buf) < write.need
      <4>1. wbuf' = buf /\ UNCHANGED <<sense, writing, write, disk, in_queue, parked, inbox, failed>>
        BY <3>4, <3>t DEF CollectWrite, Collected
      <4> HIDE DEF take
      <4>2. buf \in Seq(Nat \X Nat) /\ Len(buf) = got + take /\ \A i \in 1..(got + take) : buf[i] = <<tag, i>>
        <5>1. IsSent(wbuf, tag, got) /\ IsChunk(U, tag, got, n)
          BY <3>1 DEF IsSent, IsChunk
        <5>2. buf = wbuf \o SubSeq(U, 1, take)
          OBVIOUS
        <5> HIDE DEF U, buf
        <5>3. IsSent(buf, tag, got + take)
          BY <1>4, <3>3, <5>1, <5>2, Collects
        <5> QED BY <5>3 DEF IsSent
      <4> HIDE DEF buf, U
      <4>3. take = n
        BY <1>4, <3>1, <3>3, <3>4, <4>2
      <4>4. /\ Len(wbuf') = got' /\ got' <= write.need /\ \A i \in 1..got' : wbuf'[i] = <<tag, i>>
        BY <1>4, <2>1, <3>1, <3>4, <4>1, <4>2, <4>3
      <4>5. TypeOK'
        BY <1>0, <1>1, <2>2, <4>1, <4>2 DEF TypeOK, Phases
      <4>6. WriteInv'
        <5>1. InRange(TheCmd)'
          BY <1>0, <1>3, <2>4 DEF WriteInv, InRange
        <5> QED BY <1>0, <1>1, <1>3, <2>2, <2>4, <4>1, <4>4, <5>1 DEF WriteInv
      <4>7. NothingDue'
        BY <1>1, <1>2, <2>4, <4>1 DEF NothingDue, Due, Olds, Old
      <4>8. HaltInv' /\ DataInInv' /\ DataOutInv' /\ StatusInv'
        BY <1>1, <1>2, <1>3, <1>7, <2>1, <2>2, <2>4, <4>1, <4>7 DEF HaltInv, DataInInv, DataOutInv, StatusInv
      <4>9. Len(inbox') <= 1
        BY <1>2, <4>1
      <4>10. HostInv'
        BY <1>1, <1>2, <1>5, <2>2, <4>1, <4>9 DEF HostInv, Due
      <4>11. MscInv'
        BY <4>5, <4>6, <4>8, <4>10 DEF MscInv
      <4> QED BY <4>1, <4>11
    <3>5. CASE ~(Len(buf) < write.need)
      <4>1. PICK x : /\ \/ x = Csw(write.tag, 0, "passed") /\ disk' = Written(buf) /\ failed' = failed
                        \/ x = Csw(write.tag, 0, "failed") /\ disk' = disk /\ failed' = "write_error"
                     /\ Emit(<<x>>)
                     /\ writing' = FALSE /\ write' = NoWrite /\ wbuf' = <<>> /\ sense' = sense
        BY <3>5, <3>t DEF CollectWrite, Collected
      <4> HIDE DEF take
      <4>2. buf \in Seq(Nat \X Nat) /\ Len(buf) = got + take /\ \A i \in 1..(got + take) : buf[i] = <<tag, i>>
        <5>1. IsSent(wbuf, tag, got) /\ IsChunk(U, tag, got, n)
          BY <3>1 DEF IsSent, IsChunk
        <5>2. buf = wbuf \o SubSeq(U, 1, take)
          OBVIOUS
        <5> HIDE DEF U, buf
        <5>3. IsSent(buf, tag, got + take)
          BY <1>4, <3>3, <5>1, <5>2, Collects
        <5> QED BY <5>3 DEF IsSent
      <4> HIDE DEF buf, U
      <4>3. got + take = write.need
        <5>1. got \in Nat /\ take \in Nat /\ write.need \in Nat /\ take <= write.need - got
          BY <1>4, <3>1, <3>3
        <5>2. ~(got + take < write.need)
          BY <3>5, <4>2
        <5> QED BY <5>1, <5>2
      <4>4. ASSUME disk' = Written(buf)
            PROVE  /\ disk' \in [Luns -> [Blocks -> [1..BlockSize -> Nat \X Nat]]] /\ Landed'
                   /\ \A l \in Luns : \A b \in Blocks :
                        disk'[l][b] # disk[l][b] =>
                          l = TheCmd.lun /\ \A u \in 1..BlockSize : disk'[l][b][u][1] = tag
        BY <1>0, <1>1, <1>2, <1>3, <2>4, <4>2, <4>3, <4>4, WrittenBlocks
      <4>5. disk' \in [Luns -> [Blocks -> [1..BlockSize -> Nat \X Nat]]]
        <5>1. disk \in [Luns -> [Blocks -> [1..BlockSize -> Nat \X Nat]]]
          BY <1>0 DEF TypeOK
        <5> QED BY <4>1, <4>4, <5>1
      <4>6. x \in Dbufs /\ x.kind = "csw" /\ x.tag = tag /\ x.len = 1
        <5>1. tag \in Nat /\ write.tag = tag
          BY <1>4, <3>1
        <5>2. x = Csw(tag, 0, "passed") \/ x = Csw(tag, 0, "failed")
          BY <4>1, <5>1
        <5> QED BY <5>1, <5>2 DEF Csw, Dbufs
      <4>7. (x.status = "failed" => SenseTold') /\ (x.status = "passed" => Landed')
        <5>1. CASE x = Csw(write.tag, 0, "passed") /\ disk' = Written(buf)
          BY <4>4, <5>1 DEF Csw
        <5>2. CASE x = Csw(write.tag, 0, "failed") /\ failed' = "write_error"
          BY <5>2 DEF Csw, SenseTold
        <5> QED BY <4>1, <5>1, <5>2
      <4>8. in_queue' = in_queue \o <<x>> /\ inbox' = <<>> /\ parked' = <<>>
        BY <1>2, <4>1 DEF Emit
      <4> DEFINE q == Len(in_queue)
      <4>9. /\ in_queue' \in Seq(Dbufs) /\ q \in Nat /\ Len(in_queue') = q + 1 /\ in_queue'[q + 1] = x
            /\ \A i \in 1..q : in_queue'[i] = in_queue[i]
        BY <1>4, <4>6, <4>8, Queued
      <4>10. \A i \in 1..q : gave_up /\ in_queue[i].kind # "stall" /\ in_queue[i].tag < tag
        BY <1>2, <2>4 DEF NothingDue, Olds, Old, Due
      <4> HIDE DEF q
      <4>11. Due' = q + 1 /\ Due' - 1 = q /\ in_queue'[Due'] = x
        BY <4>9 DEF Due
      <4>12. Olds(Due - 1)'
        BY <1>1, <4>9, <4>10, <4>11 DEF Olds, Old
      <4>13. IsCsw(in_queue[Due], 0)' /\ IsCsw(in_queue[Due], got)'
        BY <1>1, <1>2, <1>3, <4>6, <4>7, <4>11 DEF IsCsw
      <4>14. CswDue(0)' /\ CswDue(got)'
        BY <4>9, <4>11, <4>12, <4>13 DEF CswDue
      <4>15. \A i \in 1..Due' : in_queue'[i].tag <= tag' /\ in_queue'[i].kind # "stall"
        <5> SUFFICES ASSUME NEW i \in 1..Due' PROVE in_queue'[i].tag <= tag' /\ in_queue'[i].kind # "stall"
          OBVIOUS
        <5>1. i = q + 1 \/ i \in 1..q
          BY <4>9, <4>11
        <5>2. \A j \in 1..q : in_queue[j].tag <= tag /\ in_queue[j].kind # "stall"
          BY <1>5 DEF q
        <5> QED BY <1>1, <1>4, <4>6, <4>9, <5>1, <5>2
      <4>16. NoWrite \in [lun : Luns, tag : Nat, lba : Nat, count : Nat, need : Nat] /\ failed' \in Reasons
        BY <1>0, <4>1, TheUnits DEF NoWrite, TypeOK, Reasons
      <4>17. wbuf' \in Seq(Nat \X Nat) /\ inbox' \in Seq(Dbufs) /\ parked' \in Seq(Nat) /\ Len(inbox') <= 1
        BY <4>1, <4>8
      <4>18. TypeOK'
        BY <1>0, <1>1, <2>2, <4>1, <4>5, <4>9, <4>16, <4>17 DEF TypeOK, Phases
      <4>19. WriteInv' /\ HaltInv' /\ DataInInv' /\ DataOutInv' /\ StatusInv'
        BY <1>1, <1>2, <1>3, <2>2, <4>1, <4>8, <4>14 DEF WriteInv, HaltInv, DataInInv, DataOutInv, StatusInv
      <4>20. HostInv'
        BY <1>1, <1>2, <2>2, <4>8, <4>15, <4>17 DEF HostInv
      <4>21. MscInv'
        BY <4>18, <4>19, <4>20 DEF MscInv
      <4> QED BY <4>1, <4>4, <4>21
    <3> QED BY <3>4, <3>5
  <2> QED BY <2>3, <2>4
<1> QED BY <1>6, <1>7

\* Asking for data or status: a halted pipe answers with a STALL, an empty one not at all,
\* any other with the front of its queue.
LEMMA ReadInInv ==
  ASSUME MscInv, ReadIn
  PROVE  MscInv'
<1>0. TypeOK /\ HostInv /\ WriteInv /\ HaltInv /\ DataInInv /\ StatusInv
  BY DEF MscInv
<1>1. /\ phase \in {"data_in", "status"} /\ parked = <<>> /\ inbox = <<>> /\ UNCHANGED <<msc, host, failed>>
      /\ SubmitIn(IF phase = "data_in" THEN TheCmd.dlen ELSE 1)
  BY DEF ReadIn, Waiting
<1>2. UNCHANGED <<sense, writing, write, wbuf, disk, phase, cmd, tag, got, gave_up, failed, in_halted, out_halted>>
  BY <1>1 DEF SubmitIn, msc, host
<1>3. Len(cmd) = 1 /\ TheCmd' = TheCmd /\ TheCmd \in Commands
  <2>a. cmd \in Seq(Commands) /\ Len(cmd) = 1
    BY <1>0, <1>1 DEF TypeOK, HostInv
  <2>1. cmd \in Seq(Commands) /\ Len(cmd) = 1 /\ 1 \in 1..Len(cmd)
    BY <2>a
  <2>2. cmd[1] \in Commands
    BY <2>1, ElementOfSeq
  <2> QED BY <1>2, <2>1, <2>2 DEF TheCmd
<1>4. PICK length \in Nat : length = (IF phase = "data_in" THEN TheCmd.dlen ELSE 1)
  <2>1. TheCmd.dlen \in Nat
    BY <1>3, CommandParts
  <2> QED BY <2>1
<1>5. SubmitIn(length) /\ in_queue \in Seq(Dbufs) /\ Len(in_queue) \in Nat /\ tag \in Nat
  BY <1>0, <1>1, <1>4, MscAssumption DEF TypeOK
<1>6. SenseTold' = SenseTold /\ Landed' = Landed
  BY <1>2, <1>3 DEF SenseTold, Landed
<1>7. WriteInv'
  <2>1. InRange(TheCmd)' = InRange(TheCmd)
    BY <1>3 DEF InRange
  <2> QED BY <1>0, <1>2, <1>3, <2>1 DEF WriteInv
<1>8. DataOutInv'
  BY <1>1, <1>2 DEF DataOutInv
<1>9. \A i \in 1..Len(in_queue) : in_queue[i].tag <= tag /\ in_queue[i].kind # "stall"
  BY <1>0 DEF HostInv, Due
\* A STALL.
<1>a. CASE in_halted
  <2>1. inbox' = <<Stall>> /\ in_queue' = in_queue /\ parked' = parked
    BY <1>5, <1>a DEF SubmitIn
  <2>2. phase = "data_in" /\ Stall \in Dbufs
    BY <1>0, <1>1, <1>a DEF StatusInv, Stall, Dbufs
  <2>3. inbox' \in Seq(Dbufs) /\ Len(inbox') <= 1
    BY <2>1, <2>2
  <2>4. TypeOK'
    BY <1>0, <1>2, <2>1, <2>3 DEF TypeOK
  <2>5. TheCmd.in /\ got = 0 /\ ((writing /\ NothingDue) \/ (~writing /\ CswDue(0)))
    BY <1>0, <1>1, <1>a, <2>2 DEF DataInInv
  <2>6. CASE ~writing /\ CswDue(0)
    <3>1. CswDue(0)'
      BY <1>2, <1>3, <1>6, <2>1, <2>6 DEF CswDue, Due, Olds, Old, IsCsw
    <3>2. DataInInv'
      BY <1>2, <1>3, <2>1, <2>5, <2>6, <3>1 DEF DataInInv
    <3>3. StatusInv' /\ HaltInv'
      BY <1>2, <2>2, <2>6 DEF StatusInv, HaltInv
    <3>4. HostInv'
      BY <1>1, <1>2, <1>3, <1>9, <2>1, <2>2, <2>3 DEF HostInv, Due
    <3> QED BY <1>7, <1>8, <2>4, <3>2, <3>3, <3>4 DEF MscInv
  <2>7. CASE writing
    BY <1>0, <1>a, <2>2, <2>7 DEF HaltInv
  <2> QED BY <2>5, <2>6, <2>7
\* A wait.
<1>b. CASE ~in_halted /\ in_queue = <<>>
  <2>1. parked' = <<length>> /\ inbox' = inbox /\ in_queue' = in_queue
    BY <1>5, <1>b DEF SubmitIn
  <2>2. parked' \in Seq(Nat) /\ inbox' = <<>> /\ Len(inbox') <= 1
    BY <1>1, <2>1
  <2>3. TypeOK'
    BY <1>0, <1>2, <2>1, <2>2 DEF TypeOK
  <2>4. DataInInv'
    <3>1. NothingDue' = NothingDue
      BY <1>2, <2>1 DEF NothingDue, Due, Olds, Old
    <3>2. Due = 0
      BY <1>b DEF Due
    <3>3. phase = "data_in" => writing /\ NothingDue /\ TheCmd.in /\ got = 0
      BY <1>0, <1>1, <1>b, <3>2 DEF DataInInv, DataDue
    <3> QED BY <1>2, <1>3, <2>2, <3>1, <3>3 DEF DataInInv
  <2>5. StatusInv'
    <3>1. NothingDue' = NothingDue
      BY <1>2, <2>1 DEF NothingDue, Due, Olds, Old
    <3>2. Due = 0
      BY <1>b DEF Due
    <3>3. phase = "status" => writing /\ NothingDue
      BY <1>0, <1>1, <1>b, <3>2 DEF StatusInv, CswDue
    <3> QED BY <1>2, <1>b, <2>2, <3>1, <3>3 DEF StatusInv
  <2>6. HostInv'
    BY <1>0, <1>1, <1>2, <1>3, <1>9, <2>1, <2>2 DEF HostInv, Due
  <2>7. HaltInv'
    BY <1>2, <1>b DEF HaltInv
  <2> QED BY <1>7, <1>8, <2>3, <2>4, <2>5, <2>6, <2>7 DEF MscInv
\* The front of the queue.
<1>c. CASE ~in_halted /\ in_queue # <<>>
  <2>1. PICK dbuf : dbuf = Head(in_queue)
    OBVIOUS
  <2>2. PICK chunk : chunk = IF dbuf.len > length THEN length ELSE dbuf.len
    OBVIOUS
  <2>3. PICK r : r = [dbuf EXCEPT !.len = chunk]
    OBVIOUS
  <2>4. PICK rest : rest = IF chunk < dbuf.len THEN <<[dbuf EXCEPT !.len = @ - chunk]>> ELSE <<>>
    OBVIOUS
  <2>5. inbox' = <<r>> /\ in_queue' = rest \o Tail(in_queue) /\ parked' = parked
    BY <1>5, <1>c, <2>1, <2>2, <2>3, <2>4 DEF SubmitIn
  <2>6. /\ Len(in_queue) >= 1 /\ dbuf = in_queue[1] /\ dbuf \in Dbufs
        /\ Tail(in_queue) \in Seq(Dbufs) /\ Len(Tail(in_queue)) = Len(in_queue) - 1
        /\ \A i \in 1..Len(Tail(in_queue)) : Tail(in_queue)[i] = in_queue[i + 1]
    <3>1. Len(in_queue) >= 1 /\ 1 \in 1..Len(in_queue)
      BY <1>5, <1>c, EmptySeq
    <3>2. dbuf = in_queue[1]
      BY <1>5, <1>c, <2>1, HeadTailProperties
    <3>3. in_queue[1] \in Dbufs
      BY <1>5, <3>1, ElementOfSeq
    <3> QED BY <1>5, <1>c, <3>1, <3>2, <3>3, HeadTailProperties
  <2>7. /\ chunk \in Nat /\ chunk <= dbuf.len /\ chunk <= length /\ dbuf.len \in Nat /\ dbuf.tag \in Nat
        /\ (dbuf.len <= length => chunk = dbuf.len)
    BY <2>2, <2>6 DEF Dbufs
  <2>8. /\ r \in Dbufs /\ r.kind = dbuf.kind /\ r.tag = dbuf.tag /\ r.len = chunk
        /\ r.residue = dbuf.residue /\ r.status = dbuf.status
    BY <2>3, <2>6, <2>7 DEF Dbufs
  <2>9. /\ rest \in Seq(Dbufs) /\ Len(rest) \in {0, 1}
        /\ (Len(rest) = 1 => rest[1].tag = dbuf.tag /\ rest[1].kind = dbuf.kind /\ ~(dbuf.len <= length))
        /\ (Len(rest) = 0 => rest = <<>>)
    <3>1. CASE ~(chunk < dbuf.len)
      BY <2>4, <3>1
    <3>2. CASE chunk < dbuf.len
      <4>1. PICK z : z = [dbuf EXCEPT !.len = @ - chunk]
        OBVIOUS
      <4>2. z \in Dbufs /\ z.tag = dbuf.tag /\ z.kind = dbuf.kind
        <5>1. dbuf.len - chunk \in Nat
          BY <2>7, <3>2
        <5> QED BY <2>6, <4>1, <5>1 DEF Dbufs
      <4>3. rest = <<z>>
        BY <2>4, <3>2, <4>1
      <4>4. ~(dbuf.len <= length)
        BY <2>7, <3>2
      <4> QED BY <4>2, <4>3, <4>4
    <3> QED BY <3>1, <3>2
  <2> DEFINE T == Tail(in_queue)
      q == rest \o T
  <2>10. /\ q \in Seq(Dbufs) /\ Len(q) = Len(rest) + Len(T) /\ T \in Seq(Dbufs) /\ Len(T) = Len(in_queue) - 1
         /\ Len(q) \in Nat /\ Len(T) \in Nat
    BY <1>5, <2>6, <2>9, ConcatProperties
  <2>11. \A i \in 1..(Len(rest) + Len(T)) : q[i] = IF i <= Len(rest) THEN rest[i] ELSE T[i - Len(rest)]
    <3>1. rest \in Seq(Dbufs) /\ T \in Seq(Dbufs)
      BY <2>9, <2>10
    <3> HIDE DEF T
    <3> QED BY <3>1, ConcatProperties, Zenon
  <2>12. \A i \in 1..Len(T) : T[i] = in_queue[i + 1]
    BY <2>6
  <2>13. in_queue' = q
    BY <2>5
  <2>14. Len(rest) = 0 => q = T
    <3>1. ASSUME rest = <<>> PROVE q = T
      BY <2>10, <3>1, ConcatEmptySeq
    <3> QED BY <2>9, <3>1
  <2> HIDE DEF q, T
  <2>15. inbox' \in Seq(Dbufs) /\ Len(inbox') = 1 /\ inbox'[1] = r /\ inbox' # <<>>
    BY <2>5, <2>8
  <2>16. TypeOK'
    BY <1>0, <1>2, <2>5, <2>10, <2>13, <2>15 DEF TypeOK
  <2>17. \A i \in 1..Len(q) : q[i].tag <= tag /\ q[i].kind # "stall"
    <3> SUFFICES ASSUME NEW i \in 1..Len(q) PROVE q[i].tag <= tag /\ q[i].kind # "stall"
      OBVIOUS
    <3>1. CASE i <= Len(rest)
      <4>1. i = 1 /\ Len(rest) = 1 /\ q[i] = rest[i]
        BY <2>9, <2>10, <2>11, <3>1
      <4>2. 1 \in 1..Len(in_queue)
        BY <1>5, <2>6
      <4> QED BY <1>9, <2>6, <2>9, <4>1, <4>2
    <3>2. CASE ~(i <= Len(rest))
      <4>1. Len(rest) \in Nat /\ i \in Int
        BY <2>9
      <4>2. i - Len(rest) \in 1..Len(T) /\ (i - Len(rest)) + 1 \in 1..Len(in_queue)
        BY <1>5, <2>10, <3>2, <4>1
      <4>3. q[i] = T[i - Len(rest)]
        BY <2>10, <2>11, <3>2
      <4>4. q[i] = in_queue[(i - Len(rest)) + 1]
        BY <2>12, <4>2, <4>3
      <4> QED BY <1>9, <4>2, <4>4
    <3> QED BY <3>1, <3>2
  <2>18. HostInv'
    BY <1>0, <1>1, <1>2, <1>3, <2>5, <2>13, <2>15, <2>17 DEF HostInv, Due
  <2>19. HaltInv'
    BY <1>2, <1>c DEF HaltInv
  \* It may belong to a command given up ...
  <2>20. ASSUME gave_up, dbuf.tag < tag
         PROVE  DataInInv' /\ StatusInv'
    <3>1. Old(inbox[1])'
      <4>1. dbuf.kind # "stall"
        BY <1>5, <1>9, <2>6
      <4> QED BY <1>2, <2>8, <2>15, <2>20, <4>1 DEF Old
    <3>2. DataInInv'
      BY <1>0, <1>2, <1>3, <2>15, <3>1 DEF DataInInv
    <3> QED BY <1>2, <1>c, <2>15, <3>1, <3>2 DEF StatusInv
  <2>21. \A k \in Nat : Olds(k) /\ k >= 1 => gave_up /\ dbuf.tag < tag
    BY <2>6 DEF Olds, Old
  \* ... or be what is due.
  <2>22. CASE phase = "data_in" /\ ~writing /\ DataDue
    <3>1. Due \in Nat /\ Due >= 2 /\ Olds(Due - 2) /\ Due - 2 \in Nat /\ Due = Len(in_queue)
      BY <1>5, <2>22 DEF DataDue, Due
    <3>2. CASE Due - 2 >= 1
      BY <1>7, <1>8, <2>16, <2>18, <2>19, <2>20, <2>21, <3>1, <3>2 DEF MscInv
    <3>3. CASE Due = 2
      <4>1. IsData(dbuf) /\ IsCsw(in_queue[2], dbuf.len) /\ length = TheCmd.dlen
        BY <1>4, <2>6, <2>22, <3>3 DEF DataDue
      <4>2. dbuf.len <= length
        BY <4>1 DEF IsData
      <4>3. chunk = dbuf.len /\ Len(rest) = 0
        BY <2>7, <2>9, <4>2
      <4>4. Len(T) = 1 /\ T[1] = in_queue[2] /\ q = T
        BY <2>10, <2>12, <2>14, <3>1, <3>3, <4>3
      <4>5. Due' = 1 /\ in_queue'[1] = in_queue[2]
        BY <2>13, <4>4 DEF Due
      <4>6. IsData(inbox[1])'
        BY <1>2, <1>3, <2>8, <2>15, <4>1, <4>3 DEF IsData
      <4>7. IsCsw(in_queue[Due], inbox[1].len)'
        BY <1>2, <1>3, <1>6, <2>8, <2>15, <4>1, <4>3, <4>5 DEF IsCsw
      <4>8. Olds(Due - 1)'
        BY <4>5 DEF Olds
      <4>9. CswDue(inbox[1].len)'
        BY <4>5, <4>7, <4>8 DEF CswDue
      <4>10. DataInInv'
        BY <1>0, <1>2, <1>3, <1>c, <2>15, <2>22, <4>6, <4>9 DEF DataInInv
      <4>11. StatusInv'
        BY <1>2, <2>22 DEF StatusInv
      <4> QED BY <1>7, <1>8, <2>16, <2>18, <2>19, <4>10, <4>11 DEF MscInv
    <3> QED BY <3>1, <3>2, <3>3
  <2>23. CASE phase = "status" /\ ~writing /\ CswDue(got)
    <3>1. Due \in Nat /\ Due >= 1 /\ Olds(Due - 1) /\ Due - 1 \in Nat /\ Due = Len(in_queue)
      BY <1>5, <2>23 DEF CswDue, Due
    <3>2. CASE Due - 1 >= 1
      BY <1>7, <1>8, <2>16, <2>18, <2>19, <2>20, <2>21, <3>1, <3>2 DEF MscInv
    <3>3. CASE Due = 1
      <4>1. IsCsw(dbuf, got) /\ length = 1
        BY <1>4, <2>6, <2>23, <3>3 DEF CswDue
      <4>2. dbuf.len <= length /\ dbuf.len = 1
        BY <4>1 DEF IsCsw
      <4>3. chunk = dbuf.len /\ Len(rest) = 0
        BY <2>7, <2>9, <4>2
      <4>4. Len(T) = 0 /\ q = T
        BY <2>10, <2>14, <3>1, <3>3, <4>3
      <4>5. NothingDue'
        BY <2>13, <4>4 DEF NothingDue, Due, Olds
      <4>6. IsCsw(inbox[1], got)'
        BY <1>2, <1>3, <1>6, <2>8, <2>15, <4>1, <4>2, <4>3 DEF IsCsw
      <4>7. StatusInv'
        BY <1>2, <1>c, <2>15, <2>23, <4>5, <4>6 DEF StatusInv
      <4>8. DataInInv'
        BY <1>2, <2>23 DEF DataInInv
      <4> QED BY <1>7, <1>8, <2>16, <2>18, <2>19, <4>7, <4>8 DEF MscInv
    <3> QED BY <3>1, <3>2, <3>3
  <2>24. CASE NothingDue
    <3>1. Due \in Nat /\ Due >= 1 /\ Olds(Due)
      BY <1>5, <2>6, <2>24 DEF NothingDue, Due
    <3> QED BY <1>7, <1>8, <2>16, <2>18, <2>19, <2>20, <2>21, <3>1 DEF MscInv
  <2> QED BY <1>0, <1>1, <1>c, <2>22, <2>23, <2>24 DEF DataInInv, StatusInv
<1> QED BY <1>a, <1>b, <1>c

\* A STALL comes only where data was promised, and its CSW is next.
LEMMA ReceiveStallInv ==
  ASSUME MscInv, ReceiveStall
  PROVE  MscInv'
<1>0. TypeOK /\ HostInv /\ WriteInv /\ DataInInv /\ StatusInv /\ DataOutInv
  BY DEF MscInv
<1>1. /\ inbox = <<Stall>> /\ inbox' = <<>> /\ in_halted' = FALSE /\ phase' = "status"
      /\ UNCHANGED <<sense, writing, write, wbuf, disk, out_halted, in_queue, parked, cmd, tag, got, gave_up, failed>>
  BY DEF ReceiveStall, msc
<1>2. inbox # <<>> /\ inbox[1] = Stall /\ Stall.kind = "stall"
  BY <1>1 DEF Stall
<1>3. phase = "data_in"
  <2>1. phase \in {"data_in", "data_out", "status", "idle", "confused"}
    BY <1>0 DEF TypeOK, Phases, HostInv
  <2>2. phase # "status"
    BY <1>0, <1>2 DEF StatusInv, Old, IsCsw
  <2>3. phase # "data_out" /\ phase # "idle" /\ phase # "confused"
    BY <1>0, <1>2 DEF DataOutInv, HostInv
  <2> QED BY <2>1, <2>2, <2>3
<1>4. ~writing /\ CswDue(0) /\ got = 0
  BY <1>0, <1>2, <1>3 DEF DataInInv, Old, IsData
<1>5. TheCmd' = TheCmd /\ Len(cmd) = 1 /\ parked = <<>>
  BY <1>0, <1>1, <1>2, <1>3 DEF TheCmd, HostInv
<1>6. SenseTold' = SenseTold /\ Landed' = Landed
  BY <1>1, <1>5 DEF SenseTold, Landed
<1>7. CswDue(got)'
  BY <1>1, <1>4, <1>5, <1>6 DEF CswDue, Due, Olds, Old, IsCsw
<1>8. inbox' \in Seq(Dbufs) /\ Len(inbox') <= 1
  BY <1>1
<1>9. TypeOK'
  BY <1>0, <1>1, <1>8 DEF TypeOK, Phases
<1>10. WriteInv' /\ HaltInv' /\ DataInInv' /\ DataOutInv' /\ StatusInv'
  BY <1>1, <1>4, <1>7 DEF WriteInv, HaltInv, DataInInv, DataOutInv, StatusInv
<1>11. HostInv'
  BY <1>0, <1>1, <1>5, <1>8 DEF HostInv, Due
<1> QED BY <1>9, <1>10, <1>11 DEF MscInv

\* A reply ends the phase it is for; only an old one confuses.
LEMMA ReceiveInv ==
  ASSUME MscInv, Receive
  PROVE  MscInv'
<1>0. TypeOK /\ HostInv /\ WriteInv /\ HaltInv /\ DataInInv /\ StatusInv /\ DataOutInv
  BY DEF MscInv
<1>1. /\ inbox # <<>> /\ inbox # <<Stall>> /\ inbox' = <<>>
      /\ UNCHANGED <<sense, writing, write, wbuf, disk, in_halted, out_halted, in_queue, parked, tag, gave_up, failed>>
  BY DEF Receive, msc
<1>2. cmd' = cmd /\ TheCmd' = TheCmd
  BY DEF Receive, TheCmd
<1>3. phase \in {"data_in", "status"} /\ Len(cmd) = 1 /\ parked = <<>> /\ Len(inbox) = 1 /\ inbox \in Seq(Dbufs)
  <2>1. phase \in {"data_in", "data_out", "status", "idle", "confused"}
    BY <1>0 DEF TypeOK, Phases, HostInv
  <2>2. phase # "data_out" /\ phase # "idle" /\ phase # "confused"
    BY <1>0, <1>1 DEF DataOutInv, HostInv
  <2>3. inbox \in Seq(Dbufs) /\ Len(inbox) <= 1
    BY <1>0 DEF TypeOK, HostInv
  <2>4. Len(inbox) = 1
    <3> DEFINE n == Len(inbox)
    <3>1. n \in Nat /\ (n = 0 => inbox = <<>>)
      BY <2>3, EmptySeq
    <3>2. n # 0 /\ n <= 1
      BY <1>1, <2>3, <3>1
    <3> HIDE DEF n
    <3>3. n = 1
      BY <3>1, <3>2
    <3> QED BY <3>3 DEF n
  <2>5. Len(cmd) = 1 /\ parked = <<>>
    BY <1>0, <1>1, <2>1, <2>2 DEF HostInv
  <2> QED BY <2>1, <2>2, <2>3, <2>4, <2>5
<1>4. PICK r \in Dbufs : r = inbox[1]
  <2>1. 1 \in 1..Len(inbox)
    BY <1>3
  <2> QED BY <1>3, <2>1, ElementOfSeq
<1>5. r.len \in Nat /\ r.tag \in Nat /\ tag \in Nat
  BY <1>0, <1>4, MscAssumption, SMTT(30) DEF Dbufs, TypeOK
<1>6. SenseTold' = SenseTold /\ Landed' = Landed
  BY <1>1, <1>2 DEF SenseTold, Landed
<1>7. inbox' \in Seq(Dbufs) /\ Len(inbox') <= 1
  BY <1>1
<1>8. \A i \in 1..Due' : in_queue'[i].tag <= tag' /\ in_queue'[i].kind # "stall"
  BY <1>0, <1>1 DEF HostInv, Due
<1>9. HaltInv'
  BY <1>0, <1>1 DEF HaltInv
\* The host is confused: it has a reply to a command it gave up.
<1>a. CASE gave_up /\ phase' = "confused" /\ got' = got
  <2>1. TypeOK'
    BY <1>0, <1>1, <1>2, <1>7, <1>a DEF TypeOK, Phases
  <2>2. WriteInv'
    <3>1. InRange(TheCmd)' = InRange(TheCmd)
      BY <1>2 DEF InRange
    <3> QED BY <1>0, <1>1, <1>2, <1>a, <3>1 DEF WriteInv
  <2>3. DataInInv' /\ DataOutInv' /\ StatusInv'
    BY <1>a DEF DataInInv, DataOutInv, StatusInv
  <2>4. HostInv'
    BY <1>1, <1>2, <1>3, <1>7, <1>8, <1>a DEF HostInv
  <2> QED BY <1>9, <2>1, <2>2, <2>3, <2>4 DEF MscInv
<1>b. CASE Old(inbox[1])
  <2>1. gave_up /\ r.tag # tag
    BY <1>4, <1>5, <1>b DEF Old
  <2>2. phase' = "confused" /\ got' = got
    BY <1>4, <2>1 DEF Receive
  <2> QED BY <1>a, <2>1, <2>2
\* Data: the CSW is next.
<1>c. CASE phase = "data_in" /\ ~Old(inbox[1])
  <2>1. ~writing /\ ~in_halted /\ IsData(r) /\ CswDue(r.len)
    BY <1>0, <1>1, <1>4, <1>c DEF DataInInv
  <2>2. got' = r.len /\ phase' = "status"
    BY <1>4, <1>c, <2>1 DEF Receive, IsData
  <2>3. TypeOK'
    BY <1>0, <1>1, <1>2, <1>5, <1>7, <2>2 DEF TypeOK, Phases
  <2>4. CswDue(got)'
    BY <1>1, <1>2, <1>6, <2>1, <2>2 DEF CswDue, Due, Olds, Old, IsCsw
  <2>5. WriteInv' /\ DataInInv' /\ DataOutInv' /\ StatusInv'
    BY <1>1, <2>1, <2>2, <2>4 DEF WriteInv, DataInInv, DataOutInv, StatusInv
  <2>6. HostInv'
    BY <1>1, <1>2, <1>3, <1>7, <1>8, <2>2 DEF HostInv
  <2> QED BY <1>9, <2>3, <2>5, <2>6 DEF MscInv
\* The CSW: the command is over.
<1>d. CASE phase = "status" /\ ~Old(inbox[1])
  <2>1. ~in_halted /\ ~writing /\ NothingDue /\ IsCsw(r, got)
    BY <1>0, <1>1, <1>4, <1>d DEF StatusInv
  <2>2. got' = got /\ phase' = "idle"
    BY <1>4, <1>d, <2>1 DEF Receive, IsCsw
  <2>3. TypeOK'
    BY <1>0, <1>1, <1>2, <1>7, <2>2 DEF TypeOK, Phases
  <2>4. WriteInv' /\ DataInInv' /\ DataOutInv' /\ StatusInv'
    BY <1>1, <2>1, <2>2 DEF WriteInv, DataInInv, DataOutInv, StatusInv
  <2>5. ~gave_up => in_queue = <<>>
    <3>1. in_queue \in Seq(Dbufs) /\ Len(in_queue) \in Nat
      BY <1>0 DEF TypeOK
    <3>2. ASSUME ~gave_up PROVE Len(in_queue) = 0
      <4>1. \A i \in 1..Len(in_queue) : FALSE
        BY <2>1, <3>2 DEF NothingDue, Olds, Old, Due
      <4> QED BY <3>1, <4>1
    <3> QED BY <3>1, <3>2, EmptySeq
  <2>6. HostInv'
    BY <1>1, <1>2, <1>3, <1>7, <1>8, <2>1, <2>2, <2>5 DEF HostInv
  <2> QED BY <1>9, <2>3, <2>4, <2>6 DEF MscInv
<1> QED BY <1>3, <1>b, <1>c, <1>d

LEMMA HostResetInv ==
  ASSUME MscInv, HostReset
  PROVE  MscInv'
<1>0. TypeOK /\ HostInv
  BY DEF MscInv
<1>1. /\ writing' = FALSE /\ write' = NoWrite /\ wbuf' = <<>> /\ parked' = <<>> /\ inbox' = <<>>
      /\ in_halted' = FALSE /\ out_halted' = FALSE /\ phase' = "idle" /\ gave_up' = TRUE
      /\ UNCHANGED <<sense, disk, in_queue, cmd, tag, got, failed>>
  BY DEF HostReset, Reset
<1>2. /\ wbuf' \in Seq(Nat \X Nat) /\ parked' \in Seq(Nat) /\ inbox' \in Seq(Dbufs) /\ Len(inbox') <= 1
  BY <1>1
<1>3. write' \in [lun : Luns, tag : Nat, lba : Nat, count : Nat, need : Nat]
  BY <1>1, TheUnits DEF NoWrite
<1>4. TypeOK'
  BY <1>0, <1>1, <1>2, <1>3 DEF TypeOK, Phases
<1>5. WriteInv' /\ HaltInv' /\ DataInInv' /\ DataOutInv' /\ StatusInv'
  BY <1>1 DEF WriteInv, HaltInv, DataInInv, DataOutInv, StatusInv
<1>6. HostInv'
  BY <1>0, <1>1, <1>2 DEF HostInv, Due
<1> QED BY <1>4, <1>5, <1>6 DEF MscInv

\* A step of the system: the invariant, and no disk but a whole write of the command.
LEMMA MscNextInv ==
  ASSUME FollowsBot, MscInv, [Next]_vars
  PROVE  /\ MscInv'
         /\ disk' # disk =>
              \A l \in Luns : \A b \in Blocks :
                disk'[l][b] # disk[l][b] => l = TheCmd.lun /\ \A u \in 1..BlockSize : disk'[l][b][u][1] = tag
<1>1. ASSUME NEW c \in Commands, SendCbw(c)
      PROVE  MscInv' /\ disk' = disk
  <2>1. MscInv'
    BY <1>1, SendCbwInv
  <2>2. ~writing
    BY <1>1 DEF MscInv, HostInv, SendCbw
  <2>3. disk' = disk
    BY <1>1, <2>2 DEF SendCbw, OnOut_Cbw, Dispatch, Fail, StartWrite, msc
  <2> QED BY <2>1, <2>3
<1>2. ASSUME NEW n \in 1..MaxChunk, SendData(n)
      PROVE  /\ MscInv'
             /\ disk' # disk =>
                  \A l \in Luns : \A b \in Blocks :
                    disk'[l][b] # disk[l][b] => l = TheCmd.lun /\ \A u \in 1..BlockSize : disk'[l][b][u][1] = tag
  BY <1>2, SendDataInv
<1>3. CASE ReadIn
  <2>1. MscInv'
    BY <1>3, ReadInInv
  <2> QED BY <1>3, <2>1 DEF ReadIn, msc
<1>4. CASE ReceiveStall
  <2>1. MscInv'
    BY <1>4, ReceiveStallInv
  <2> QED BY <1>4, <2>1 DEF ReceiveStall, msc
<1>5. CASE Receive
  <2>1. MscInv'
    BY <1>5, ReceiveInv
  <2> QED BY <1>5, <2>1 DEF Receive, msc
<1>6. CASE HostReset
  <2>1. MscInv'
    BY <1>6, HostResetInv
  <2> QED BY <1>6, <2>1 DEF HostReset
<1>7. CASE UNCHANGED vars
  <2>1. UNCHANGED <<sense, writing, write, wbuf, disk, in_halted, out_halted, in_queue, parked, inbox,
                    phase, cmd, tag, got, gave_up, failed>>
    BY <1>7 DEF vars, msc, pipes, host
  <2>2. TypeOK' /\ WriteInv' /\ HaltInv' /\ HostInv'
    BY <2>1 DEF MscInv, TypeOK, WriteInv, HaltInv, HostInv, Due, TheCmd, InRange
  <2>3. SenseTold' = SenseTold /\ Landed' = Landed /\ TheCmd' = TheCmd
    BY <2>1 DEF SenseTold, Landed, TheCmd
  <2>4. DataInInv' /\ DataOutInv' /\ StatusInv'
    BY <2>1, <2>3 DEF MscInv, DataInInv, DataOutInv, StatusInv, NothingDue, CswDue, DataDue, Due, Olds, Old, IsCsw, IsData
  <2>5. MscInv'
    BY <2>2, <2>4 DEF MscInv
  <2> QED BY <2>1, <2>5
<1> QED BY <1>1, <1>2, <1>3, <1>4, <1>5, <1>6, <1>7 DEF Next, HostStep

\* A host that follows BOT and the mass-storage class stay in step, whatever the lengths,
\* the units, the ranges, the failures of the backend and the resets.
THEOREM InStepHolds == ASSUME FollowsBot PROVE Spec => []InStep
<1>1. ASSUME MscInv PROVE InStep
  <2>0. HostInv /\ StatusInv
    BY <1>1 DEF MscInv
  <2>1. HasCsw => IsCsw(inbox[1], got)
    <3>1. ASSUME HasCsw PROVE ~Old(inbox[1])
      <4>1. tag \in Nat
        BY <1>1, MscAssumption DEF MscInv, TypeOK
      <4> QED BY <3>1, <4>1 DEF HasCsw, Old
    <3> QED BY <2>0, <3>1 DEF HasCsw, StatusInv
  <2>2. ResidueTrue
    BY <2>1 DEF ResidueTrue, IsCsw
  <2>3. SenseTellsFailure
    BY <2>1 DEF SenseTellsFailure, IsCsw, SenseTold
  <2>4. ~gave_up => phase # "confused"
    BY <2>0 DEF HostInv
  <2> QED BY <2>2, <2>3, <2>4 DEF InStep
<1>2. MscInv /\ [Next]_vars => MscInv'
  BY MscNextInv
<1> QED BY <1>1, <1>2, MscInitInv, PTL DEF Spec

\* A write that passes is on the disk, unit by unit; and the disk changes only by a whole
\* write of the command under way.
THEOREM WritesLandHold == ASSUME FollowsBot PROVE Spec => WritesLand
<1>1. ASSUME MscInv PROVE WriteLands
  <2>0. StatusInv
    BY <1>1 DEF MscInv
  <2>1. HasCsw => IsCsw(inbox[1], got)
    <3>1. ASSUME HasCsw PROVE ~Old(inbox[1])
      <4>1. tag \in Nat
        BY <1>1, MscAssumption DEF MscInv, TypeOK
      <4> QED BY <3>1, <4>1 DEF HasCsw, Old
    <3> QED BY <2>0, <3>1 DEF HasCsw, StatusInv
  <2> QED BY <2>1 DEF WriteLands, IsCsw, Landed
<1>2. MscInv /\ [Next]_vars =>
        /\ MscInv'
        /\ [disk' # disk =>
             \A l \in Luns : \A b \in Blocks :
               disk'[l][b] # disk[l][b] =>
                 /\ l = TheCmd.lun
                 /\ \A u \in 1..BlockSize : disk'[l][b][u][1] = tag]_vars
  BY MscNextInv
<1>3. Spec => []MscInv
  BY <1>2, MscInitInv, PTL DEF Spec
<1>4. Spec => WholeWritesOnly
  BY <1>2, <1>3, PTL DEF Spec, WholeWritesOnly
<1> QED BY <1>1, <1>3, <1>4, PTL DEF WritesLand

-----------------------------------------------------------------------------
(* Bluetooth                                                               *)

BtSpec == BtInit /\ [][BtNext]_btvars

AclUnits == [n : Nat, place : Nat, len : Nat]

BtTypes ==
  /\ acl_rx \in Seq(AclUnits) /\ sending \in Seq(AclUnits)
  /\ n_acl \in Nat /\ oversize \in BOOLEAN
  /\ delivered.count \in Nat

\* A packet under way is in two parts, one in the reassembly buffer and one still at the
\* host, and whatever the host has finished is with the controller.
AclParts ==
  ~oversize =>
    /\ delivered.count = n_acl - IF sending = <<>> THEN 0 ELSE 1
    /\ delivered.count > 0 => \E len \in Nat : delivered.last = AclPacket(delivered.count, len)
    /\ delivered.count = 0 => delivered.last = <<>>
    /\ sending = <<>> => acl_rx = <<>>
    /\ sending # <<>> => \E len \in Nat : /\ AclHeader + len <= ReasmMax
                                          /\ acl_rx \o sending = AclPacket(n_acl, len)

BtInv == BtTypes /\ AclParts

LEMMA BtNumbers ==
  AclHeader \in Nat /\ AclHeader >= 3 /\ (\A len \in AclLengths : len \in Nat) /\ MaxUrb \in Nat /\ ReasmMax \in Nat
BY BtAssumption

LEMMA AclPacketFacts ==
  ASSUME NEW n \in Nat, NEW len \in Nat
  PROVE  /\ AclPacket(n, len) \in Seq(AclUnits) /\ Len(AclPacket(n, len)) = AclHeader + len
         /\ \A k \in 1..(AclHeader + len) : AclPacket(n, len)[k] = [n |-> n, place |-> k, len |-> len]
         /\ AclPacket(n, len) # <<>>
<1> DEFINE u(k) == [n |-> n, place |-> k, len |-> len]
<1>1. AclHeader + len \in Nat /\ AclHeader + len > 0
  BY BtNumbers
<1>2. \A k \in 1..(AclHeader + len) : u(k) \in AclUnits
  BY <1>1 DEF AclUnits
<1>3. AclPacket(n, len) \in [1..(AclHeader + len) -> AclUnits]
  BY <1>2 DEF AclPacket
<1>4. AclPacket(n, len) \in Seq(AclUnits)
  BY <1>1, <1>3, SeqDef
<1>5. Len(AclPacket(n, len)) = AclHeader + len
  BY <1>1, <1>3, <1>4, LenProperties
<1> QED
  BY <1>1, <1>4, <1>5, EmptySeq DEF AclPacket

LEMMA BtInitInv == BtInit => BtInv
<1> SUFFICES ASSUME BtInit PROVE BtInv
  OBVIOUS
<1>1. <<>> \in Seq(AclUnits)
  OBVIOUS
<1>2. /\ acl_rx = <<>> /\ sending = <<>> /\ n_acl = 0 /\ oversize = FALSE
      /\ delivered.count = 0 /\ delivered.last = <<>>
  BY DEF BtInit
<1>3. BtTypes
  <2>1. <<>> \in Seq(AclUnits)
    BY <1>1
  <2>2. acl_rx \in Seq(AclUnits) /\ sending \in Seq(AclUnits)
    BY <1>2, <2>1
  <2>3. oversize \in BOOLEAN
    BY <1>2
  <2>4. n_acl \in Nat /\ delivered.count \in Nat
    BY <1>2
  <2> QED BY <2>2, <2>3, <2>4 DEF BtTypes
<1>4. AclParts
  BY <1>2 DEF AclParts
<1> QED
  BY <1>3, <1>4 DEF BtInv

\* A bounded set of numbers has a greatest element.
LEMMA GreatestBelow ==
  ASSUME NEW n \in Nat, NEW S, S \subseteq 0..n, S # {}
  PROVE  \E x \in S : \A y \in S : x >= y
<1> DEFINE D == {d \in 0..n : n - d \in S}
<1>1. PICK z \in S : TRUE
  OBVIOUS
<1>2. n - z \in 0..n /\ n - (n - z) = z
  BY <1>1
<1>3. n - z \in D
  BY <1>1, <1>2
<1>4. D \in SUBSET Nat /\ D # {}
  <2>1. \A d \in D : d \in Nat
    OBVIOUS
  <2> QED BY <1>3, <2>1
<1>5. PICK d \in D : \A e \in D : d =< e
  BY <1>4, LeastIndex
<1>6. ASSUME NEW y \in S PROVE n - d >= y
  <2>1. n - y \in 0..n /\ n - (n - y) = y
    OBVIOUS
  <2>2. n - y \in D
    BY <2>1
  <2>3. d =< n - y
    BY <1>5, <2>2
  <2> QED BY <1>5, <2>1, <2>3
<1> QED
  BY <1>5, <1>6

\* Where the loop stands in a buffer that holds part of one packet, or all of it.
IsPart(all_rx, n, len, m) ==
  /\ all_rx \in Seq(AclUnits) /\ m \in 0..(AclHeader + len)
  /\ Len(all_rx) = m /\ \A k \in 1..m : all_rx[k] = AclPacket(n, len)[k]

LEMMA LoopInPart ==
  ASSUME NEW n \in Nat, NEW len \in Nat, NEW m, NEW all_rx, IsPart(all_rx, n, len, m)
  PROVE  LoopAt(all_rx) = IF m = AclHeader + len THEN {0, m} ELSE {0}
<1> USE DEF IsPart
<1> DEFINE all == AclHeader + len
<1>1. all \in Nat /\ all > 0 /\ m \in Nat /\ m <= all /\ AclHeader \in Nat /\ AclHeader >= 3
  BY BtNumbers
<1>2. \A p \in 0..m : AclHeader <= m => total(all_rx, 0) = all
  <2> SUFFICES ASSUME AclHeader <= m PROVE all_rx[3].len = len
    BY DEF total
  <2>1. 3 \in 1..m /\ 3 \in 1..all
    BY <1>1
  <2>2. all_rx[3] = [n |-> n, place |-> 3, len |-> len]
    BY <2>1, AclPacketFacts
  <2> QED BY <2>2
<1>3. WholeAt(all_rx, 0) <=> m = all
  BY <1>1, <1>2 DEF WholeAt
<1>4. ~WholeAt(all_rx, m)
  <2>1. ~(m + AclHeader <= m)
    BY <1>1
  <2> QED BY <2>1 DEF WholeAt
<1>5. CASE m = all
  <2> DEFINE at == {0, m}
  <2>1. at \in SUBSET (0..m) /\ 0 \in at
    BY <1>1
  <2>2. 0 + total(all_rx, 0) = m
    BY <1>1, <1>2, <1>5
  <2>3. \A q \in at : WholeAt(all_rx, q) => q + total(all_rx, q) \in at
    BY <1>4, <2>2
  <2>4. \A p \in LoopAt(all_rx) : p \in at
    BY <2>1, <2>3 DEF LoopAt
  <2>5. 0 \in LoopAt(all_rx)
    BY <2>1 DEF LoopAt
  <2>6. m \in LoopAt(all_rx)
    BY <1>3, <1>5, <2>1, <2>2 DEF LoopAt
  <2> QED
    BY <1>5, <2>4, <2>5, <2>6
<1>6. CASE m # all
  <2> DEFINE at == {0}
  <2>1. at \in SUBSET (0..m) /\ 0 \in at
    BY <1>1
  <2>2. \A q \in at : WholeAt(all_rx, q) => q + total(all_rx, q) \in at
    BY <1>3, <1>6
  <2>3. \A p \in LoopAt(all_rx) : p \in at
    BY <2>1, <2>2 DEF LoopAt
  <2>4. 0 \in LoopAt(all_rx)
    BY <2>1 DEF LoopAt
  <2> QED
    BY <1>6, <2>3, <2>4
<1> QED
  BY <1>5, <1>6

LEMMA SendAclInv ==
  ASSUME BtInv, NEW l \in AclLengths, SendAcl(l)
  PROVE  BtInv'
<1> USE DEF BtInv, BtTypes
<1>1. l \in Nat /\ n_acl + 1 \in Nat /\ AclHeader \in Nat
  BY BtNumbers
<1> DEFINE pkt == AclPacket(n_acl + 1, l)
<1>2. pkt \in Seq(AclUnits) /\ pkt # <<>>
  BY <1>1, AclPacketFacts
<1>3. BtTypes'
  BY <1>1, <1>2 DEF SendAcl
<1>4. AclParts'
  <2> SUFFICES ASSUME ~oversize' PROVE AclParts'
    BY DEF AclParts
  <2>1. oversize' = (oversize \/ AclHeader + l > ReasmMax)
    BY DEF SendAcl
  <2>2. ~oversize /\ AclHeader + l <= ReasmMax
    <3>1. ~oversize /\ ~(AclHeader + l > ReasmMax)
      BY <2>1
    <3> QED BY <1>1, <3>1, BtNumbers
  <2>3. sending = <<>> /\ acl_rx = <<>> /\ delivered.count = n_acl
    BY <2>2 DEF SendAcl, AclParts
  <2>4. sending' = pkt /\ acl_rx' = <<>> /\ n_acl' = n_acl + 1 /\ delivered' = delivered
    BY <2>3 DEF SendAcl
  <2>5. <<>> \o pkt = pkt
    BY <1>2, ConcatEmptySeq
  <2>6. delivered'.count = n_acl' - 1
    BY <2>3, <2>4
  <2> HIDE DEF pkt
  <2>7. acl_rx' \o sending' = AclPacket(n_acl', l)
    BY <2>4, <2>5 DEF pkt
  <2> QED
    BY <1>1, <1>2, <2>2, <2>3, <2>4, <2>6, <2>7 DEF AclParts
<1> QED
  BY <1>3, <1>4

\* An URB of the packet under way: nothing overflows, and the buffer is released when the
\* packet is whole in it.
LEMMA OnOutInv ==
  ASSUME BtInv, NEW n \in 1..MaxUrb, bt_on_out(n)
  PROVE  BtInv'
<1> DEFINE had == IF Overflows(Len(acl_rx), n) THEN <<>> ELSE acl_rx
           head == SubSeq(sending, 1, n)
           all_rx == had \o head
           end == Max(LoopAt(all_rx))
<1>0. /\ acl_rx \in Seq(AclUnits) /\ sending \in Seq(AclUnits) /\ n_acl \in Nat /\ delivered.count \in Nat
      /\ n \in Nat /\ n >= 1 /\ n <= Len(sending) /\ Len(sending) \in Nat /\ Len(acl_rx) \in Nat
  BY BtNumbers DEF BtInv, BtTypes, bt_on_out
<1>1. /\ head \in Seq(AclUnits) /\ Len(head) = n /\ \A i \in 1..n : head[i] = sending[i]
      /\ SubSeq(sending, n + 1, Len(sending)) \in Seq(AclUnits)
      /\ Len(SubSeq(sending, n + 1, Len(sending))) = Len(sending) - n
      /\ \A i \in 1..(Len(sending) - n) : SubSeq(sending, n + 1, Len(sending))[i] = sending[n + i]
  <2>1. \A i \in 1..n : sending[i] \in AclUnits
    BY <1>0
  <2>2. \A i \in (n + 1)..Len(sending) : sending[i] \in AclUnits
    BY <1>0
  <2> QED
    BY <1>0, <2>1, <2>2, SubSeqProperties
<1>2. had \in Seq(AclUnits) /\ all_rx \in Seq(AclUnits)
  BY <1>0, <1>1, EmptySeq, ConcatProperties
<1>3. /\ acl_rx' = SubSeq(all_rx, end + 1, Len(all_rx)) /\ delivered' = Released(all_rx, delivered)
      /\ sending' = SubSeq(sending, n + 1, Len(sending)) /\ n_acl' = n_acl /\ oversize' = oversize
  BY DEF bt_on_out
<1>4. /\ LoopAt(all_rx) \subseteq 0..Len(all_rx) /\ 0 \in LoopAt(all_rx) /\ IsFiniteSet(LoopAt(all_rx))
      /\ Len(all_rx) \in Nat
      /\ end \in LoopAt(all_rx) /\ \A p \in LoopAt(all_rx) : p <= end
  <2>1. LoopAt(all_rx) \subseteq 0..Len(all_rx) /\ 0 \in LoopAt(all_rx) /\ Len(all_rx) \in Nat
    BY <1>2 DEF LoopAt
  <2> HIDE DEF all_rx
  <2>2. IsFiniteSet(LoopAt(all_rx))
    <3>1. 0 \in Int /\ Len(all_rx) \in Int
      BY <2>1
    <3>2. IsFiniteSet(0..Len(all_rx))
      BY <3>1, FS_Interval
    <3> QED BY <2>1, <3>2, FS_Subset
  <2>4. \E x \in LoopAt(all_rx) : \A y \in LoopAt(all_rx) : x >= y
    BY <2>1, GreatestBelow
  <2>5. end \in LoopAt(all_rx) /\ \A y \in LoopAt(all_rx) : end >= y
    BY <2>4 DEF Max
  <2> QED BY <2>1, <2>2, <2>5
<1> HIDE DEF head, had, all_rx, end
<1>5. SubSeq(all_rx, end + 1, Len(all_rx)) \in Seq(AclUnits)
  <2>1. end \in Nat
    BY <1>4
  <2>2. \A i \in (end + 1)..Len(all_rx) : all_rx[i] \in AclUnits
    BY <1>2, <2>1
  <2> QED BY <1>2, <1>4, <2>1, <2>2, SubSeqProperties
<1>6. Cardinality(LoopAt(all_rx)) \in Nat /\ Cardinality(LoopAt(all_rx)) >= 1
  BY <1>4, FS_CardinalityType, FS_EmptySet
<1>7. BtTypes'
  <2>1. delivered'.count \in Nat
    <3>1. delivered'.count = IF end = 0 THEN delivered.count
                             ELSE delivered.count + Cardinality(LoopAt(all_rx)) - 1
      BY <1>3 DEF Released, end
    <3> QED BY <1>0, <1>6, <3>1
  <2> QED
    BY <1>0, <1>1, <1>3, <1>5, <2>1 DEF BtInv, BtTypes
<1>8. AclParts'
  <2> SUFFICES ASSUME ~oversize PROVE AclParts'
    BY <1>3 DEF AclParts
  <2>0. sending # <<>>
    BY <1>0, EmptySeq
  <2>1. PICK len \in Nat : AclHeader + len <= ReasmMax /\ acl_rx \o sending = AclPacket(n_acl, len)
    BY <2>0 DEF BtInv, AclParts
  <2> DEFINE pkt == AclPacket(n_acl, len)
             all == AclHeader + len
             m == Len(acl_rx) + n
  <2>2. /\ pkt \in Seq(AclUnits) /\ Len(pkt) = all /\ all \in Nat /\ all > 0
        /\ Len(acl_rx) + Len(sending) = all
        /\ \A i \in 1..Len(acl_rx) : acl_rx[i] = pkt[i]
        /\ \A i \in 1..Len(sending) : sending[i] = pkt[Len(acl_rx) + i]
    <3>1. pkt \in Seq(AclUnits) /\ Len(pkt) = all /\ all \in Nat /\ all > 0
      <4>1. all \in Nat /\ all > 0
        BY BtNumbers
      <4>2. pkt \in Seq(AclUnits) /\ Len(pkt) = AclHeader + len
        BY <1>0, AclPacketFacts
      <4> QED BY <4>1, <4>2
    <3>2. Len(acl_rx \o sending) = Len(acl_rx) + Len(sending)
      BY <1>0, ConcatProperties
    <3>3. \A i \in 1..(Len(acl_rx) + Len(sending)) :
            (acl_rx \o sending)[i] = IF i <= Len(acl_rx) THEN acl_rx[i] ELSE sending[i - Len(acl_rx)]
      BY <1>0, ConcatProperties
    <3>4. \A i \in 1..(Len(acl_rx) + Len(sending)) :
            pkt[i] = IF i <= Len(acl_rx) THEN acl_rx[i] ELSE sending[i - Len(acl_rx)]
      BY <2>1, <3>3
    <3>5. \A i \in 1..Len(acl_rx) : acl_rx[i] = pkt[i]
      BY <1>0, <3>4
    <3>6. ASSUME NEW i \in 1..Len(sending) PROVE sending[i] = pkt[Len(acl_rx) + i]
      <4>1. Len(acl_rx) + i \in 1..(Len(acl_rx) + Len(sending)) /\ ~(Len(acl_rx) + i <= Len(acl_rx))
            /\ (Len(acl_rx) + i) - Len(acl_rx) = i
        BY <1>0
      <4> QED BY <3>4, <4>1
    <3> QED BY <2>1, <3>1, <3>2, <3>5, <3>6
  <2>3. m \in Nat /\ m <= all /\ m > 0 /\ (m = all <=> n = Len(sending))
    <3>1. Len(acl_rx) + Len(sending) = all
      BY <2>2
    <3> HIDE DEF all
    <3> QED BY <1>0, <3>1
  <2>4. had = acl_rx
    <3>1. ~Overflows(Len(acl_rx), n)
      BY <1>0, <2>1, <2>3, BtNumbers DEF Overflows
    <3> QED BY <3>1 DEF had
  <2> HIDE DEF pkt
  <2>5. Len(all_rx) = m /\ \A i \in 1..m : all_rx[i] = pkt[i]
    <3>1. /\ Len(all_rx) = Len(acl_rx) + n
          /\ \A i \in 1..(Len(acl_rx) + n) : all_rx[i] = IF i <= Len(acl_rx) THEN acl_rx[i] ELSE head[i - Len(acl_rx)]
      <4>1. all_rx = acl_rx \o head
        BY <2>4 DEF all_rx
      <4>2. Len(head) = n
        BY <1>1
      <4>3. /\ Len(acl_rx \o head) = Len(acl_rx) + Len(head)
            /\ \A i \in 1..(Len(acl_rx) + Len(head)) :
                 (acl_rx \o head)[i] = IF i <= Len(acl_rx) THEN acl_rx[i] ELSE head[i - Len(acl_rx)]
        BY <1>0, <1>1, ConcatProperties, SMTT(30)
      <4> QED BY <4>1, <4>2, <4>3
    <3>2. ASSUME NEW i \in 1..m PROVE all_rx[i] = pkt[i]
      <4>1. CASE i <= Len(acl_rx)
        <5>1. i \in 1..Len(acl_rx)
          BY <1>0, <4>1
        <5> QED BY <2>2, <3>1, <4>1, <5>1
      <4>2. CASE ~(i <= Len(acl_rx))
        <5>1. i - Len(acl_rx) \in 1..n /\ i - Len(acl_rx) \in 1..Len(sending)
              /\ Len(acl_rx) + (i - Len(acl_rx)) = i
          BY <1>0, <4>2
        <5>2. all_rx[i] = head[i - Len(acl_rx)]
          BY <3>1, <4>2
        <5>3. head[i - Len(acl_rx)] = sending[i - Len(acl_rx)]
          BY <1>1, <5>1
        <5>4. sending[i - Len(acl_rx)] = pkt[Len(acl_rx) + (i - Len(acl_rx))]
          BY <2>2, <5>1
        <5> QED BY <5>1, <5>2, <5>3, <5>4
      <4> QED BY <4>1, <4>2
    <3> QED BY <3>1, <3>2
  <2>6. LoopAt(all_rx) = IF m = all THEN {0, m} ELSE {0}
    <3>1. m \in 0..all
      BY <2>3
    <3>2. n_acl \in Nat /\ len \in Nat /\ IsPart(all_rx, n_acl, len, m)
      BY <1>0, <1>2, <2>5, <3>1 DEF pkt, IsPart
    <3> HIDE DEF m
    <3>3. LoopAt(all_rx) = IF m = AclHeader + len THEN {0, m} ELSE {0}
      BY <3>2, LoopInPart
    <3> QED BY <3>3
  <2>7. CASE m = all
    <3>1. end = m
      <4>1. LoopAt(all_rx) = {0, m} /\ m \in LoopAt(all_rx) /\ (end = 0 \/ end = m) /\ m <= end
        BY <1>4, <2>6, <2>7
      <4>2. m > 0
        BY <2>3
      <4>3. end # 0
        BY <4>1, <4>2
      <4> QED BY <4>1, <4>3
    <3>2. acl_rx' = <<>> /\ sending' = <<>>
      <4>1. SubSeq(all_rx, m + 1, m) = <<>>
        BY <1>2, <2>3, <2>5, SubSeqEmpty
      <4>2. SubSeq(sending, Len(sending) + 1, Len(sending)) = <<>>
        BY <1>0, SubSeqEmpty
      <4> QED BY <1>3, <2>3, <2>5, <2>7, <3>1, <4>1, <4>2
    <3>3. Cardinality(LoopAt(all_rx)) = 2
      <4>1. IsFiniteSet({m}) /\ Cardinality({m}) = 1
        BY FS_Singleton
      <4>2. {0, m} = {m} \cup {0} /\ 0 \notin {m}
        BY <2>3
      <4>3. Cardinality({0, m}) = 2
        <5>1. Cardinality({m} \cup {0}) = Cardinality({m}) + 1
          BY <4>1, <4>2, FS_AddElement
        <5> QED BY <4>1, <4>2, <5>1
      <4> QED BY <2>6, <2>7, <4>3
    <3>4. Max(LoopAt(all_rx) \ {end}) = 0
      <4>1. LoopAt(all_rx) \ {end} = {0}
        BY <2>3, <2>6, <2>7, <3>1
      <4>2. \A x \in {0} : (\A y \in {0} : x >= y) <=> x = 0
        OBVIOUS
      <4>3. Max({0}) = 0
        BY <4>2 DEF Max
      <4> QED BY <4>1, <4>3
    <3>5. delivered' = [count |-> delivered.count + 2 - 1, last |-> SubSeq(all_rx, 0 + 1, m)]
      <4>1. end # 0
        BY <2>3, <3>1
      <4>2. delivered' = [count |-> delivered.count + Cardinality(LoopAt(all_rx)) - 1,
                          last |-> SubSeq(all_rx, Max(LoopAt(all_rx) \ {end}) + 1, end)]
        BY <1>3, <4>1 DEF Released, end
      <4> QED BY <3>1, <3>3, <3>4, <4>2
    <3>6. SubSeq(all_rx, 1, m) = pkt
      <4>1. \A i \in 1..m : all_rx[i] \in AclUnits
        BY <1>2, <2>5
      <4>2. /\ SubSeq(all_rx, 1, m) \in Seq(AclUnits) /\ Len(SubSeq(all_rx, 1, m)) = m
            /\ \A i \in 1..m : SubSeq(all_rx, 1, m)[i] = all_rx[i]
        BY <1>2, <2>3, <2>5, <4>1, SubSeqProperties
      <4> QED
        BY <2>2, <2>5, <2>7, <4>2, SeqEqual
    <3>7. delivered.count = n_acl - 1
      BY <2>0 DEF BtInv, AclParts
    <3>8. delivered'.count = n_acl /\ delivered'.last = pkt
      BY <1>0, <3>5, <3>6, <3>7
    <3>9. delivered'.count = n_acl' /\ delivered'.last = AclPacket(delivered'.count, len) /\ delivered'.count > 0
      BY <1>0, <1>3, <3>7, <3>8 DEF pkt
    <3> QED
      BY <1>0, <1>3, <2>1, <3>2, <3>9 DEF AclParts
  <2>8. CASE m # all
    <3>1. end = 0
      BY <1>4, <2>6, <2>8
    <3>2. delivered' = delivered
      BY <1>3, <3>1 DEF Released, end
    <3>3. acl_rx' = all_rx
      BY <1>2, <1>3, <3>1, SubSeqFull
    <3>4. Len(sending') = Len(sending) - n /\ sending' # <<>> /\ sending' \in Seq(AclUnits)
      <4>1. Len(sending') = Len(sending) - n /\ sending' \in Seq(AclUnits)
        BY <1>1, <1>3
      <4>2. Len(sending) - n > 0
        BY <1>0, <2>3, <2>8
      <4>3. Len(sending') # 0
        BY <1>0, <4>1, <4>2
      <4> QED BY <4>1, <4>3, EmptySeq
    <3>5. all_rx \o sending' = pkt
      <4>1. /\ all_rx \o sending' \in Seq(AclUnits) /\ Len(all_rx \o sending') = m + (Len(sending) - n)
            /\ \A i \in 1..(m + (Len(sending) - n)) :
                 (all_rx \o sending')[i] = IF i <= m THEN all_rx[i] ELSE sending'[i - m]
        <5>1. /\ all_rx \o sending' \in Seq(AclUnits) /\ Len(all_rx \o sending') = Len(all_rx) + Len(sending')
              /\ \A i \in 1..(Len(all_rx) + Len(sending')) :
                   (all_rx \o sending')[i] = IF i <= Len(all_rx) THEN all_rx[i] ELSE sending'[i - Len(all_rx)]
          BY <1>2, <3>4, ConcatProperties
        <5> QED BY <2>5, <3>4, <5>1
      <4>2. m + (Len(sending) - n) = all
        BY <1>0, <2>2
      <4>3. ASSUME NEW i \in 1..all PROVE (all_rx \o sending')[i] = pkt[i]
        <5>1. CASE i <= m
          <6>1. i \in 1..m
            BY <2>3, <5>1
          <6> QED BY <2>5, <4>1, <4>2, <5>1, <6>1
        <5>2. CASE ~(i <= m)
          <6>1. i - m \in 1..(Len(sending) - n) /\ n + (i - m) \in 1..Len(sending)
                /\ Len(acl_rx) + (n + (i - m)) = i
            <7>1. PICK a, s : a = Len(acl_rx) /\ s = Len(sending)
              OBVIOUS
            <7>2. a \in Nat /\ s \in Nat /\ a + s = all /\ m = a + n /\ n \in Nat /\ n <= s /\ m \in Nat /\ all \in Nat
              BY <1>0, <2>2, <2>3, <7>1
            <7>3. i \in Nat /\ i > m /\ i <= all
              BY <5>2, <7>2
            <7>4. i - m \in 1..(s - n) /\ n + (i - m) \in 1..s /\ a + (n + (i - m)) = i
              BY <7>2, <7>3
            <7> QED BY <7>1, <7>4
          <6>2. (all_rx \o sending')[i] = sending'[i - m]
            BY <4>1, <4>2, <5>2
          <6>3. sending'[i - m] = sending[n + (i - m)]
            BY <1>1, <1>3, <6>1
          <6>4. sending[n + (i - m)] = pkt[Len(acl_rx) + (n + (i - m))]
            BY <2>2, <6>1
          <6> QED BY <6>1, <6>2, <6>3, <6>4
        <5> QED BY <5>1, <5>2
      <4> QED
        BY <2>2, <4>1, <4>2, <4>3, SeqEqual
    <3>6. acl_rx' \o sending' = AclPacket(n_acl', len)
      BY <1>3, <3>3, <3>5 DEF pkt
    <3> QED
      BY <1>3, <2>0, <2>1, <3>2, <3>4, <3>6 DEF BtInv, AclParts
  <2> QED
    BY <2>7, <2>8
<1> QED
  BY <1>7, <1>8 DEF BtInv

\* Bluetooth: an ACL packet the host cuts into any URBs reaches the controller once, whole and
\* in its turn, as soon as its last unit is there.
THEOREM AclIsWholeHolds == BtSpec => []AclIsWhole
<1>1. BtInv /\ [BtNext]_btvars => BtInv'
  <2> SUFFICES ASSUME BtInv, [BtNext]_btvars PROVE BtInv'
    OBVIOUS
  <2>1. CASE BtNext
    BY <2>1, SendAclInv, OnOutInv DEF BtNext
  <2>2. CASE UNCHANGED btvars
    BY <2>2 DEF btvars, BtInv, BtTypes, AclParts
  <2> QED BY <2>1, <2>2
<1>2. BtInv => AclIsWhole
  <2> SUFFICES ASSUME BtInv, ~oversize PROVE AclIsWhole
    BY DEF AclIsWhole
  <2>1. delivered.count \in Nat
    BY DEF BtInv, BtTypes
  <2>2. CASE delivered.count = 0
    <3>1. delivered.last = <<>>
      BY <2>2 DEF BtInv, AclParts
    <3> QED BY <2>2, <3>1 DEF BtInv, AclParts, AclIsWhole
  <2>3. CASE delivered.count > 0
    <3>1. PICK len \in Nat : delivered.last = AclPacket(delivered.count, len)
      BY <2>3 DEF BtInv, AclParts
    <3>2. /\ Len(delivered.last) = AclHeader + len /\ delivered.last \in Seq(AclUnits)
          /\ \A k \in 1..(AclHeader + len) : delivered.last[k] = [n |-> delivered.count, place |-> k, len |-> len]
      <4>1. /\ AclPacket(delivered.count, len) \in Seq(AclUnits)
            /\ Len(AclPacket(delivered.count, len)) = AclHeader + len
            /\ \A k \in 1..(AclHeader + len) :
                 AclPacket(delivered.count, len)[k] = [n |-> delivered.count, place |-> k, len |-> len]
        BY <2>1, AclPacketFacts
      <4> QED BY <3>1, <4>1
    <3>3. DOMAIN delivered.last = 1..(AclHeader + len) /\ 1 \in 1..(AclHeader + len)
      BY <3>2, LenProperties, BtNumbers
    <3>4. \A k \in DOMAIN delivered.last : delivered.last[k].n = delivered.count /\ delivered.last[k].place = k
      <4> SUFFICES ASSUME NEW k \in DOMAIN delivered.last
                   PROVE delivered.last[k].n = delivered.count /\ delivered.last[k].place = k
        OBVIOUS
      <4>1. delivered.last[k] = [n |-> delivered.count, place |-> k, len |-> len]
        BY <3>2, <3>3
      <4> QED BY <4>1
    <3>5. Len(delivered.last) = AclHeader + delivered.last[1].len
      <4>1. delivered.last[1] = [n |-> delivered.count, place |-> 1, len |-> len]
        BY <3>2, <3>3
      <4> QED BY <3>2, <4>1
    <3> QED BY <3>4, <3>5 DEF BtInv, AclParts, AclIsWhole
  <2> QED BY <2>1, <2>2, <2>3
<1> QED
  BY <1>1, <1>2, BtInitInv, PTL DEF BtSpec

-----------------------------------------------------------------------------
(* Isochronous packets: where the bytes of each are in a transfer            *)

\* What holds at 0 and goes from each number to the next holds up to n.
LEMMA UpTo ==
  ASSUME NEW n \in Nat, NEW P, 0 \in P, \A i \in 1..n : i - 1 \in P => i \in P
  PROVE  \A i \in 0..n : i \in P
<1> SUFFICES ASSUME NEW z \in 0..n, z \notin P PROVE FALSE
  OBVIOUS
<1> DEFINE T == {i \in 0..n : i \notin P}
<1>1. T \in SUBSET Nat /\ T # {}
  <2>1. \A i \in T : i \in Nat
    OBVIOUS
  <2>2. z \in T
    OBVIOUS
  <2> QED BY <2>1, <2>2
<1>2. PICK x \in T : \A y \in T : x =< y
  BY <1>1, LeastIndex
<1>3. x # 0 /\ x \in 1..n /\ x - 1 \in 0..n
  OBVIOUS
<1>4. x - 1 \in P
  <2>1. ~(x =< x - 1)
    BY <1>3
  <2>2. x - 1 \notin T
    BY <1>2, <2>1
  <2> QED BY <1>3, <2>2
<1> QED
  BY <1>3, <1>4

\* A recursion over the numbers up to n has a result in every step.
IsRun(n, X, x, F, g) ==
  g \in [0..n -> X] /\ g[0] = x /\ \A i \in 1..n : g[i] = F[i][g[i - 1]]

\* So functions that are recursive in an index are what their equations say.
LEMMA RunsExist ==
  ASSUME NEW n \in Nat, NEW X, NEW x \in X, NEW F, \A i \in 1..n : \A y \in X : F[i][y] \in X
  PROVE  \E g : IsRun(n, X, x, F, g)
<1> DEFINE P == {i \in 0..n : \E g : IsRun(i, X, x, F, g)}
<1>1. 0 \in P
  <2> DEFINE g == [i \in 0..0 |-> x]
  <2>1. g \in [0..0 -> X] /\ g[0] = x
    OBVIOUS
  <2>2. \A i \in 1..0 : g[i] = F[i][g[i - 1]]
    OBVIOUS
  <2> HIDE DEF g
  <2>3. IsRun(0, X, x, F, g)
    BY <2>1, <2>2 DEF IsRun
  <2> QED BY <2>3
<1>2. ASSUME NEW i \in 1..n, i - 1 \in P PROVE i \in P
  <2>1. PICK g : IsRun(i - 1, X, x, F, g)
    BY <1>2
  <2>2. /\ i - 1 \in 0..(i - 1) /\ 0 \in 0..(i - 1) /\ i - 1 \in Nat /\ i \in 0..n /\ i \in 0..i /\ 0 \in 0..i /\ i # 0
        /\ \A j \in 0..i : j # i => j \in 0..(i - 1)
        /\ \A j \in 1..i : j \in 0..i /\ j - 1 \in 0..i /\ j - 1 # i /\ (j # i => j \in 1..(i - 1))
    OBVIOUS
  <2> DEFINE h == [j \in 0..i |-> IF j = i THEN F[i][g[i - 1]] ELSE g[j]]
  <2>3. g \in [0..(i - 1) -> X] /\ g[0] = x /\ \A j \in 1..(i - 1) : g[j] = F[j][g[j - 1]]
    BY <2>1 DEF IsRun
  <2>4. g[i - 1] \in X
    BY <2>2, <2>3
  <2>5. F[i][g[i - 1]] \in X
    BY <2>4
  <2>6. h \in [0..i -> X] /\ h[0] = x
    BY <2>2, <2>3, <2>5
  <2>7. ASSUME NEW j \in 1..i PROVE h[j] = F[j][h[j - 1]]
    <3>1. h[j - 1] = g[j - 1]
      BY <2>2
    <3>2. CASE j = i
      BY <2>2, <3>1, <3>2
    <3>3. CASE j # i
      <4>1. h[j] = g[j] /\ g[j] = F[j][g[j - 1]]
        BY <2>2, <2>3, <3>3
      <4> QED BY <3>1, <4>1
    <3> QED BY <3>2, <3>3
  <2> HIDE DEF h
  <2>8. IsRun(i, X, x, F, h)
    BY <2>6, <2>7 DEF IsRun
  <2> QED BY <2>2, <2>8
<1> HIDE DEF P
<1>3. \A i \in 0..n : i \in P
  BY <1>1, <1>2, UpTo
<1>4. n \in P
  BY <1>3
<1> QED
  BY <1>4 DEF P

\* Where each of a number of lengths ends, laid end to end.
LEMMA EndsFacts ==
  ASSUME NEW lens \in Seq(Nat)
  PROVE  /\ Ends(lens) \in [0..Len(lens) -> Nat] /\ Ends(lens)[0] = 0
         /\ \A i \in 1..Len(lens) : Ends(lens)[i] = Ends(lens)[i - 1] + lens[i]
<1> DEFINE n == Len(lens)
           F == [i \in 1..n |-> [y \in Nat |-> y + lens[i]]]
<1>1. n \in Nat /\ \A i \in 1..n : lens[i] \in Nat
  OBVIOUS
<1>2. \A i \in 1..n : \A y \in Nat : F[i][y] = y + lens[i] /\ F[i][y] \in Nat
  BY <1>1
<1> HIDE DEF F
<1>3. PICK g : IsRun(n, Nat, 0, F, g)
  BY <1>1, <1>2, RunsExist
<1>4. g \in [0..n -> Nat] /\ g[0] = 0 /\ \A i \in 1..n : g[i] = F[i][g[i - 1]]
  BY <1>3 DEF IsRun
<1>5. \A i \in 0..n : i = 0 \/ (i \in 1..n /\ i - 1 \in 0..n)
  BY <1>1
<1>6. \A i \in 1..n : g[i] = g[i - 1] + lens[i]
  <2> SUFFICES ASSUME NEW i \in 1..n PROVE g[i] = g[i - 1] + lens[i]
    OBVIOUS
  <2>1. i - 1 \in 0..n
    BY <1>1
  <2>2. g[i - 1] \in Nat
    BY <1>4, <2>1
  <2> QED BY <1>2, <1>4, <2>2
<1>7. g = [i \in 0..n |-> IF i = 0 THEN 0 ELSE g[i - 1] + lens[i]]
  <2>1. \A i \in 0..n : g[i] = IF i = 0 THEN 0 ELSE g[i - 1] + lens[i]
    BY <1>4, <1>5, <1>6
  <2> QED BY <1>4, <2>1
<1> DEFINE end == CHOOSE e : e = [i \in 0..n |-> IF i = 0 THEN 0 ELSE e[i - 1] + lens[i]]
<1>8. Ends(lens) = end
  BY DEF Ends
<1>9. end = [i \in 0..n |-> IF i = 0 THEN 0 ELSE end[i - 1] + lens[i]]
  BY <1>7
<1> HIDE DEF end
<1>10. end[0] = 0 /\ DOMAIN end = 0..n
  BY <1>1, <1>9
<1>11. \A i \in 1..n : end[i] = end[i - 1] + lens[i]
  <2> SUFFICES ASSUME NEW i \in 1..n PROVE end[i] = end[i - 1] + lens[i]
    OBVIOUS
  <2>1. i \in 0..n /\ i # 0
    BY <1>1
  <2>2. end[i] = IF i = 0 THEN 0 ELSE end[i - 1] + lens[i]
    BY <1>9, <2>1, Zenon
  <2> QED BY <2>1, <2>2
<1>12. \A i \in 0..n : end[i] \in Nat
  <2> DEFINE P == {i \in 0..n : end[i] \in Nat}
  <2>1. 0 \in P
    BY <1>1, <1>10
  <2>2. ASSUME NEW i \in 1..n, i - 1 \in P PROVE i \in P
    BY <1>1, <1>11, <2>2
  <2> HIDE DEF P
  <2>3. \A i \in 0..n : i \in P
    BY <1>1, <2>1, <2>2, UpTo
  <2> QED BY <2>3 DEF P
<1>13. end \in [0..n -> Nat]
  <2>1. end = [i \in 0..n |-> end[i]]
    BY <1>9
  <2> QED BY <1>12, <2>1
<1> QED
  BY <1>8, <1>10, <1>11, <1>13

\* The parts of a concatenation.
IsFlattening(S, made, f) ==
  /\ f \in [0..Len(made) -> Seq(S)] /\ f[0] = <<>> /\ FlattenSeq(made) = f[Len(made)]
  /\ \A i \in 1..Len(made) : f[i] = f[i - 1] \o made[i]

\* A concatenation grows by one part in every step.
LEMMA Flattens ==
  ASSUME NEW S, NEW made \in Seq(Seq(S))
  PROVE  \E f : IsFlattening(S, made, f)
<1> DEFINE n == Len(made)
           F == [i \in 1..n |-> [y \in Seq(S) |-> y \o made[i]]]
<1>1. n \in Nat /\ \A i \in 1..n : made[i] \in Seq(S)
  OBVIOUS
<1>2. ASSUME NEW i \in 1..n, NEW y \in Seq(S) PROVE F[i][y] = y \o made[i] /\ F[i][y] \in Seq(S)
  BY <1>1, ConcatProperties
<1> HIDE DEF F
<1>3. <<>> \in Seq(S)
  OBVIOUS
<1>4. PICK g : IsRun(n, Seq(S), <<>>, F, g)
  BY <1>1, <1>2, <1>3, RunsExist
<1>5. g \in [0..n -> Seq(S)] /\ g[0] = <<>> /\ \A i \in 1..n : g[i] = F[i][g[i - 1]]
  BY <1>4 DEF IsRun
<1>6. \A i \in 1..n : i - 1 \in 0..n /\ i \in 0..n /\ g[i] = g[i - 1] \o made[i]
  <2> SUFFICES ASSUME NEW i \in 1..n PROVE i - 1 \in 0..n /\ i \in 0..n /\ g[i] = g[i - 1] \o made[i]
    OBVIOUS
  <2>1. i - 1 \in 0..n /\ i \in 0..n
    BY <1>1
  <2>2. g[i - 1] \in Seq(S)
    BY <1>5, <2>1
  <2> QED BY <1>2, <1>5, <2>1, <2>2
<1>7. CASE n = 0
  <2>1. made = <<>>
    BY <1>1, <1>7, EmptySeq
  <2>2. FlattenSeq(made) = <<>>
    BY <1>7, <2>1 DEF FlattenSeq
  <2>3. IsFlattening(S, made, g)
    BY <1>5, <1>6, <1>7, <2>2 DEF IsFlattening
  <2> QED BY <2>3
<1>8. CASE n # 0
  <2> DEFINE fl == CHOOSE e : e = [i \in 1..n |-> IF i = 1 THEN made[i] ELSE e[i - 1] \o made[i]]
             h == [i \in 1..n |-> g[i]]
  <2>1. FlattenSeq(made) = fl[n]
    BY <1>8 DEF FlattenSeq
  <2>2. g[1] = made[1]
    <3>1. 1 \in 1..n /\ g[1 - 1] = <<>> /\ made[1] \in Seq(S)
      BY <1>1, <1>5, <1>8
    <3>2. g[1] = g[1 - 1] \o made[1]
      BY <1>6, <3>1
    <3> QED BY <3>1, <3>2, ConcatEmptySeq
  <2>3. \A i \in 1..n : i # 1 => i - 1 \in 1..n
    BY <1>1
  <2>4. \A i \in 1..n : h[i] = IF i = 1 THEN made[i] ELSE h[i - 1] \o made[i]
    BY <1>6, <2>2, <2>3
  <2>5. h = [i \in 1..n |-> IF i = 1 THEN made[i] ELSE h[i - 1] \o made[i]]
    BY <2>4
  <2>6. fl = [i \in 1..n |-> IF i = 1 THEN made[i] ELSE fl[i - 1] \o made[i]]
    BY <2>5
  <2> HIDE DEF fl, h
  <2> DEFINE P == {i \in 0..n : i # 0 => fl[i] = g[i]}
  <2>7. 0 \in P
    BY <1>1
  <2>8. ASSUME NEW i \in 1..n, i - 1 \in P PROVE i \in P
    <3>1. CASE i = 1
      <4>1. fl[1] = made[1]
        BY <2>6, <3>1
      <4> QED BY <1>6, <2>2, <3>1, <4>1
    <3>2. CASE i # 1
      <4>1. i - 1 # 0
        BY <1>1, <3>2
      <4>2. fl[i - 1] = g[i - 1]
        BY <2>8, <4>1
      <4>3. fl[i] = fl[i - 1] \o made[i]
        BY <2>6, <3>2
      <4> QED BY <1>6, <4>2, <4>3
    <3> QED BY <3>1, <3>2
  <2> HIDE DEF P
  <2>9. \A i \in 0..n : i \in P
    BY <1>1, <2>7, <2>8, UpTo
  <2>10. fl[n] = g[n]
    BY <1>1, <1>8, <2>9 DEF P
  <2>11. IsFlattening(S, made, g)
    BY <1>5, <1>6, <2>1, <2>10 DEF IsFlattening
  <2> QED BY <2>11
<1> QED
  BY <1>7, <1>8

\* Where the units of a packet are among those of all, and that there are no others.
IsLaid(made, data) ==
  /\ Len(data) = Ends(Lengths(made))[Len(made)]
  /\ \A j \in 1..Len(made) : \A q \in 1..Len(made[j]) :
       /\ Ends(Lengths(made))[j - 1] + q \in 1..Len(data)
       /\ data[Ends(Lengths(made))[j - 1] + q] = made[j][q]
  /\ \A k \in 1..Len(data) : \E j \in 1..Len(made) : \E q \in 1..Len(made[j]) :
       k = Ends(Lengths(made))[j - 1] + q

\* The lengths of packets.
LEMMA LengthsOf ==
  ASSUME NEW S, NEW made \in Seq(Seq(S))
  PROVE  /\ Lengths(made) \in Seq(Nat) /\ Len(Lengths(made)) = Len(made)
         /\ \A i \in 1..Len(made) : Lengths(made)[i] = Len(made[i])
<1>1. Len(made) \in Nat /\ DOMAIN made = 1..Len(made) /\ \A i \in 1..Len(made) : made[i] \in Seq(S)
  BY LenProperties
<1>2. \A i \in 1..Len(made) : Len(made[i]) \in Nat
  BY <1>1
<1>3. Lengths(made) \in [1..Len(made) -> Nat]
  BY <1>1, <1>2 DEF Lengths
<1>4. Lengths(made) \in Seq(Nat)
  BY <1>1, <1>3, SeqDef
<1>5. Len(Lengths(made)) = Len(made)
  BY <1>1, <1>3, <1>4, LenProperties
<1> QED
  BY <1>1, <1>4, <1>5 DEF Lengths

\* A concatenation holds each packet at the place its length gives it, and nothing else.
LEMMA FlatIsLaid ==
  ASSUME NEW S, NEW made \in Seq(Seq(S))
  PROVE  FlattenSeq(made) \in Seq(S) /\ IsLaid(made, FlattenSeq(made))
<1> DEFINE n == Len(made)
           e == Ends(Lengths(made))
<1>1. /\ n \in Nat /\ (\A i \in 1..n : made[i] \in Seq(S) /\ Len(made[i]) \in Nat)
      /\ e \in [0..n -> Nat] /\ e[0] = 0 /\ \A i \in 1..n : e[i] = e[i - 1] + Len(made[i])
  <2>1. \A i \in 1..n : made[i] \in Seq(S) /\ Len(made[i]) \in Nat
    OBVIOUS
  <2> QED BY <2>1, LengthsOf, EndsFacts
<1>2. PICK f : IsFlattening(S, made, f)
  BY Flattens
<1>3. /\ f \in [0..n -> Seq(S)] /\ f[0] = <<>> /\ FlattenSeq(made) = f[n]
      /\ \A i \in 1..n : f[i] = f[i - 1] \o made[i]
  BY <1>2 DEF IsFlattening
<1> HIDE DEF e
<1> DEFINE At(i) == /\ Len(f[i]) = e[i]
                    /\ \A j \in 1..i : \A q \in 1..Len(made[j]) :
                         e[j - 1] + q \in 1..e[i] /\ f[i][e[j - 1] + q] = made[j][q]
                    /\ \A k \in 1..e[i] : \E j \in 1..i : \E q \in 1..Len(made[j]) : k = e[j - 1] + q
           P == {i \in 0..n : At(i)}
<1>4. 0 \in P
  <2>1. Len(f[0]) = 0
    BY <1>3
  <2> QED BY <1>1, <2>1
<1>5. ASSUME NEW i \in 1..n, i - 1 \in P PROVE i \in P
  <2>1. /\ i - 1 \in 0..n /\ i \in 0..n /\ i \in Nat /\ i - 1 \in Nat
        /\ e[i - 1] \in Nat /\ e[i] \in Nat /\ e[i] = e[i - 1] + Len(made[i]) /\ Len(made[i]) \in Nat
        /\ f[i - 1] \in Seq(S) /\ made[i] \in Seq(S) /\ f[i] = f[i - 1] \o made[i]
    <3>1. i - 1 \in 0..n /\ i \in 0..n /\ i \in Nat /\ i - 1 \in Nat
      BY <1>1
    <3> QED BY <1>1, <1>3, <3>1
  <2>2. PICK u, v, w : u = e[i - 1] /\ v = e[i] /\ w = Len(made[i])
    OBVIOUS
  <2>3. u \in Nat /\ v \in Nat /\ w \in Nat /\ v = u + w
    BY <2>2, <2>1
  <2>4. /\ Len(f[i - 1]) = e[i - 1]
        /\ \A j \in 1..(i - 1) : \A q \in 1..Len(made[j]) :
             e[j - 1] + q \in 1..e[i - 1] /\ f[i - 1][e[j - 1] + q] = made[j][q]
        /\ \A k \in 1..e[i - 1] : \E j \in 1..(i - 1) : \E q \in 1..Len(made[j]) : k = e[j - 1] + q
    BY <1>5
  <2>5. /\ Len(f[i]) = e[i]
        /\ \A k \in 1..e[i] : f[i][k] = IF k <= e[i - 1] THEN f[i - 1][k] ELSE made[i][k - e[i - 1]]
    <3>1. /\ Len(f[i - 1] \o made[i]) = Len(f[i - 1]) + Len(made[i])
          /\ \A k \in 1..(Len(f[i - 1]) + Len(made[i])) :
               (f[i - 1] \o made[i])[k] = IF k <= Len(f[i - 1]) THEN f[i - 1][k] ELSE made[i][k - Len(f[i - 1])]
      BY <2>1, ConcatProperties
    <3>2. Len(f[i - 1]) = e[i - 1] /\ e[i] = e[i - 1] + Len(made[i]) /\ f[i] = f[i - 1] \o made[i]
      BY <2>1, <2>4
    <3> QED BY <3>1, <3>2
  <2>6. ASSUME NEW j \in 1..i, NEW q \in 1..Len(made[j])
        PROVE e[j - 1] + q \in 1..e[i] /\ f[i][e[j - 1] + q] = made[j][q]
    <3>1. CASE j = i
      <4>1. e[i - 1] + q \in 1..e[i] /\ ~(e[i - 1] + q <= e[i - 1]) /\ (e[i - 1] + q) - e[i - 1] = q
        <5>1. q \in 1..w
          BY <2>2, <3>1
        <5>2. u + q \in 1..v /\ ~(u + q <= u) /\ (u + q) - u = q
          BY <2>3, <5>1
        <5> QED BY <2>2, <5>2
      <4> QED BY <2>5, <3>1, <4>1
    <3>2. CASE j # i
      <4>1. j \in 1..(i - 1)
        BY <2>1, <3>2
      <4>2. e[j - 1] + q \in 1..e[i - 1] /\ f[i - 1][e[j - 1] + q] = made[j][q]
        BY <2>4, <4>1
      <4>3. e[j - 1] + q \in 1..e[i] /\ e[j - 1] + q <= e[i - 1]
        <5>1. PICK p : p = e[j - 1] + q
          OBVIOUS
        <5>2. p \in 1..u
          BY <2>2, <4>2, <5>1
        <5>3. p \in 1..v /\ p <= u
          BY <2>3, <5>2
        <5> QED BY <2>2, <5>1, <5>3
      <4> QED BY <2>5, <4>2, <4>3
    <3> QED BY <3>1, <3>2
  <2>7. ASSUME NEW k \in 1..e[i]
        PROVE \E j \in 1..i : \E q \in 1..Len(made[j]) : k = e[j - 1] + q
    <3>1. CASE k <= e[i - 1]
      <4>1. k \in 1..e[i - 1]
        BY <2>1, <3>1
      <4>2. PICK j \in 1..(i - 1) : \E q \in 1..Len(made[j]) : k = e[j - 1] + q
        BY <2>4, <4>1
      <4>3. j \in 1..i
        BY <2>1
      <4> QED BY <4>2, <4>3
    <3>2. CASE ~(k <= e[i - 1])
      <4>1. k - e[i - 1] \in 1..Len(made[i]) /\ k = e[i - 1] + (k - e[i - 1]) /\ i \in 1..i
        BY <2>1, <3>2, SMTT(30)
      <4> QED BY <4>1
    <3> QED BY <3>1, <3>2
  <2>8. At(i)
    BY <2>5, <2>6, <2>7
  <2> HIDE DEF At
  <2> QED BY <2>1, <2>8
<1> HIDE DEF P
<1>6. \A i \in 0..n : i \in P
  BY <1>1, <1>4, <1>5, UpTo
<1>7. n \in 0..n
  BY <1>1
<1>8. At(n)
  BY <1>6, <1>7 DEF P
<1>9. f[n] \in Seq(S)
  BY <1>3, <1>7
<1> QED
  BY <1>3, <1>8, <1>9 DEF IsLaid, e

\* What is in a slot after the reply is what the class made for its packet.
LEMMA InboundIs ==
  ASSUME NEW S, NEW made \in Seq(Seq(S)), NEW pkts, DOMAIN pkts = 1..Len(made)
  PROVE  Inbound(pkts, made) = made
<1> DEFINE data == FlattenSeq(made)
           e == Ends(Lengths(made))
<1>1. data \in Seq(S) /\ IsLaid(made, data)
  BY FlatIsLaid
<1> HIDE DEF data, e
<1>2. ASSUME NEW i \in 1..Len(made)
      PROVE  [k \in 1..Len(made[i]) |-> LET at == e[i - 1] + k IN IF at <= Len(data) THEN data[at] ELSE Junk] = made[i]
  <2>1. made[i] \in Seq(S) /\ made[i] = [k \in 1..Len(made[i]) |-> made[i][k]]
    OBVIOUS
  <2>2. \A k \in 1..Len(made[i]) : e[i - 1] + k <= Len(data) /\ data[e[i - 1] + k] = made[i][k]
    BY <1>1 DEF IsLaid, e
  <2> QED BY <2>1, <2>2
<1>3. Inbound(pkts, made) =
        [i \in 1..Len(made) |-> [k \in 1..Len(made[i]) |->
           LET at == e[i - 1] + k IN IF at <= Len(data) THEN data[at] ELSE Junk]]
  BY DEF Inbound, Landing, data, e
<1>4. made = [i \in 1..Len(made) |-> made[i]]
  OBVIOUS
<1> QED
  BY <1>2, <1>3, <1>4

\* The slots of a buffer, gathered, are the buffer; and so are they taken apart again.
LEMMA OutboundIs ==
  ASSUME NEW lens \in Seq(Nat), NEW S, NEW buf \in Seq(S), Len(buf) = Total(lens)
  PROVE  FlattenSeq(Outbound(buf, Slots(lens))) = buf
<1> DEFINE n == Len(lens)
           e == Ends(lens)
           pkts == Slots(lens)
           pieces == [i \in 1..n |-> Slot(buf, pkts[i])]
<1>1. /\ n \in Nat /\ (\A i \in 1..n : lens[i] \in Nat) /\ DOMAIN lens = 1..n
      /\ e \in [0..n -> Nat] /\ e[0] = 0 /\ (\A i \in 1..n : e[i] = e[i - 1] + lens[i])
      /\ Len(buf) = e[n]
  <2>1. n \in Nat /\ (\A i \in 1..n : lens[i] \in Nat) /\ DOMAIN lens = 1..n
    BY LenProperties
  <2> QED BY <2>1, EndsFacts DEF Total
<1>2. DOMAIN pkts = 1..n /\ \A i \in 1..n : pkts[i].offset = e[i - 1] /\ pkts[i].length = lens[i]
  BY <1>1 DEF Slots
<1> HIDE DEF e, pkts
<1>3. \A i \in 0..n : e[n - i] <= e[n]
  <2> DEFINE P == {i \in 0..n : e[n - i] <= e[n]}
  <2>1. 0 \in P
    <3>1. e[n] \in Nat /\ n - 0 = n
      BY <1>1
    <3> QED BY <1>1, <3>1
  <2>2. ASSUME NEW i \in 1..n, i - 1 \in P PROVE i \in P
    <3>1. n - (i - 1) \in 1..n /\ (n - (i - 1)) - 1 = n - i /\ n - i \in 0..n /\ i \in 0..n /\ n \in 0..n
      BY <1>1
    <3>2. e[n - (i - 1)] = e[n - i] + lens[n - (i - 1)] /\ lens[n - (i - 1)] \in Nat
      BY <1>1, <3>1
    <3>3. e[n - i] \in Nat /\ e[n] \in Nat
      BY <1>1, <3>1
    <3>4. e[n - (i - 1)] <= e[n]
      BY <2>2
    <3>5. PICK x, y, z, w : x = e[n - i] /\ y = e[n - (i - 1)] /\ z = lens[n - (i - 1)] /\ w = e[n]
      OBVIOUS
    <3>6. x \in Nat /\ z \in Nat /\ w \in Nat /\ y = x + z /\ y <= w
      BY <3>2, <3>3, <3>4, <3>5
    <3>7. x <= w
      BY <3>6
    <3> QED BY <3>1, <3>5, <3>7
  <2> HIDE DEF P
  <2>3. \A i \in 0..n : i \in P
    BY <1>1, <2>1, <2>2, UpTo
  <2> QED BY <2>3 DEF P
<1>4. \A i \in 1..n : e[i - 1] \in Nat /\ e[i] \in Nat /\ e[i] <= Len(buf)
  <2> SUFFICES ASSUME NEW i \in 1..n PROVE e[i - 1] \in Nat /\ e[i] \in Nat /\ e[i] <= Len(buf)
    OBVIOUS
  <2>1. i \in 0..n /\ i - 1 \in 0..n /\ n - i \in 0..n /\ n - (n - i) = i
    BY <1>1
  <2> QED BY <1>1, <1>3, <2>1
<1>5. ASSUME NEW i \in 1..n
      PROVE /\ Slot(buf, pkts[i]) \in Seq(S) /\ Len(Slot(buf, pkts[i])) = lens[i]
            /\ \A q \in 1..lens[i] : Slot(buf, pkts[i])[q] = buf[e[i - 1] + q]
  <2>1. Slot(buf, pkts[i]) = SubSeq(buf, e[i - 1] + 1, e[i - 1] + lens[i])
    BY <1>2 DEF Slot
  <2>2. e[i - 1] \in Nat /\ lens[i] \in Nat /\ e[i - 1] + lens[i] <= Len(buf) /\ Len(buf) \in Nat
    BY <1>1, <1>4
  <2>3. PICK a, b, l : a = e[i - 1] + 1 /\ b = e[i - 1] + lens[i] /\ l = lens[i]
    OBVIOUS
  <2>4. PICK u, m : u = e[i - 1] /\ m = Len(buf)
    OBVIOUS
  <2>5. u \in Nat /\ l \in Nat /\ u + l <= m /\ a = u + 1 /\ b = u + l /\ m \in Nat
    BY <2>2, <2>3, <2>4
  <2>6. a \in Int /\ b \in Int /\ l \in Nat /\ b = a + l - 1 /\ 1 <= a /\ b <= Len(buf)
    <3>1. a \in Int /\ b \in Int /\ b = a + l - 1 /\ 1 <= a /\ b <= m
      BY <2>5
    <3> QED BY <2>4, <2>5, <3>1
  <2>7. \A k \in a..b : buf[k] \in S
    <3> SUFFICES ASSUME NEW k \in a..b PROVE buf[k] \in S
      OBVIOUS
    <3>1. k \in 1..Len(buf)
      BY <2>2, <2>6
    <3> QED BY <3>1
  <2>8. /\ SubSeq(buf, a, b) \in Seq(S) /\ Len(SubSeq(buf, a, b)) = (IF a <= b THEN b - a + 1 ELSE 0)
        /\ \A q \in 1..(b - a + 1) : SubSeq(buf, a, b)[q] = buf[a + q - 1]
    BY <2>6, <2>7, SubSeqProperties
  <2>9. b - a + 1 = l /\ (IF a <= b THEN b - a + 1 ELSE 0) = l
    BY <2>6
  <2>10. ASSUME NEW q \in 1..l PROVE SubSeq(buf, a, b)[q] = buf[e[i - 1] + q]
    <3>1. a + q - 1 = e[i - 1] + q
      BY <2>2, <2>3, SMTT(30)
    <3> QED BY <2>8, <2>9, <3>1
  <2> QED BY <2>1, <2>3, <2>8, <2>9, <2>10
<1>6. pieces \in Seq(Seq(S)) /\ Len(pieces) = n /\ \A i \in 1..n : pieces[i] = Slot(buf, pkts[i])
  <2>1. pieces \in [1..n -> Seq(S)]
    BY <1>5
  <2>2. pieces \in Seq(Seq(S))
    BY <1>1, <2>1, SeqDef
  <2> QED BY <1>1, <2>1, <2>2, LenProperties
<1> HIDE DEF pieces
<1>7. Lengths(pieces) = lens
  <2>1. /\ Lengths(pieces) \in Seq(Nat) /\ Len(Lengths(pieces)) = n
        /\ \A i \in 1..n : Lengths(pieces)[i] = Len(pieces[i])
    BY <1>6, LengthsOf
  <2>2. \A i \in 1..n : Lengths(pieces)[i] = lens[i]
    BY <1>5, <1>6, <2>1
  <2> QED BY <2>1, <2>2, SeqEqual
<1>8. FlattenSeq(pieces) = buf
  <2> DEFINE data == FlattenSeq(pieces)
  <2>1. data \in Seq(S) /\ IsLaid(pieces, data)
    BY <1>6, FlatIsLaid
  <2> HIDE DEF data
  <2>2. Len(data) = Len(buf)
    BY <1>1, <1>6, <1>7, <2>1 DEF IsLaid, e
  <2>3. ASSUME NEW k \in 1..Len(data) PROVE data[k] = buf[k]
    <3>1. Ends(Lengths(pieces)) = e /\ Len(pieces) = n
      BY <1>6, <1>7 DEF e
    <3>2. PICK j \in 1..n : \E q \in 1..Len(pieces[j]) : k = e[j - 1] + q
      <4>1. \E j \in 1..Len(pieces) : \E q \in 1..Len(pieces[j]) : k = Ends(Lengths(pieces))[j - 1] + q
        BY <2>1 DEF IsLaid
      <4> QED BY <3>1, <4>1
    <3>3. PICK q \in 1..Len(pieces[j]) : k = e[j - 1] + q
      BY <3>2
    <3>4. data[k] = pieces[j][q]
      <4>1. data[Ends(Lengths(pieces))[j - 1] + q] = pieces[j][q]
        BY <2>1, <3>1 DEF IsLaid
      <4> QED BY <3>1, <3>3, <4>1
    <3>5. q \in 1..lens[j] /\ pieces[j][q] = buf[e[j - 1] + q]
      BY <1>5, <1>6, SMTT(30)
    <3> QED BY <3>3, <3>4, <3>5
  <2>4. data = buf
    BY <2>1, <2>2, <2>3, SeqEqual
  <2> QED BY <2>4 DEF data
<1>9. Gathered(buf, pkts) = buf
  BY <1>2, <1>8 DEF Gathered, pieces
<1>10. Depadded(buf, pkts) = pieces
  <2>1. \A i \in 1..n : pkts[i].offset + pkts[i].length <= Len(buf)
    BY <1>1, <1>2, <1>4
  <2>2. Depadded(buf, pkts) = [i \in 1..n |-> Slot(buf, pkts[i])]
    BY <1>2, <2>1 DEF Depadded
  <2> QED BY <2>2 DEF pieces
<1> QED
  BY <1>8, <1>9, <1>10 DEF Outbound, pkts

-----------------------------------------------------------------------------
(* UAC: microphone and speaker                                              *)

UacSpec == UacInit /\ [][UacNext]_uacvars

UacTypes ==
  /\ uac \in [mic_on : BOOLEAN, spk_on : BOOLEAN, mic_samples : Nat, spk_bytes : Nat,
              mute_play : BOOLEAN, mute_cap : BOOLEAN]
  /\ recorded \in [from : Nat, data : Seq(Int)]
  /\ played.total \in Nat

\* The device counts the samples the host has.
\* The class has made as many samples as the recording has and those before it.
UacInv ==
  /\ UacTypes
  /\ uac.mic_samples = recorded.from + Len(recorded.data)
  /\ AudioIsContinuous

LEMMA UacInitInv == UacInit => UacInv
<1> SUFFICES ASSUME UacInit PROVE UacInv
  OBVIOUS
<1>1. recorded = [from |-> 0, data |-> <<>>] /\ <<>> \in Seq(Int) /\ Len(<<>>) = 0 /\ DOMAIN <<>> = {}
  BY DEF UacInit
<1>2. recorded \in [from : Nat, data : Seq(Int)] /\ recorded.from = 0 /\ recorded.data = <<>>
  BY <1>1
<1>3. uac.mic_samples = 0 /\ uac.spk_bytes = 0
      /\ uac \in [mic_on : BOOLEAN, spk_on : BOOLEAN, mic_samples : Nat, spk_bytes : Nat,
                  mute_play : BOOLEAN, mute_cap : BOOLEAN]
  BY DEF UacInit
<1>4. played.total = 0 /\ played.sink = played.sent
  BY DEF UacInit
<1>5. \A k \in DOMAIN recorded.data : recorded.data[k] \in {Silence, recorded.from + k - 1}
  BY <1>1, <1>2
<1>6. 0 = 0 + Len(<<>>)
  OBVIOUS
<1> QED
  BY <1>2, <1>3, <1>4, <1>5, <1>6 DEF UacInv, UacTypes, AudioIsContinuous

\* The lengths a host may ask for are numbers.
LEMMA PacketLengthsAre ==
  ASSUME NEW X, X \subseteq Nat, NEW n \in Nat, NEW lens \in PacketLengths(X, n)
  PROVE  lens \in Seq(Nat)
<1>1. PICK m \in 1..n : lens \in [1..m -> X]
  BY DEF PacketLengths
<1>2. m \in Nat /\ \A i \in 1..m : lens[i] \in X
  BY <1>1
<1>3. lens \in [1..m -> Nat]
  BY <1>1, <1>2
<1> QED
  BY <1>2, <1>3, SeqDef

\* A recording goes on where the last one ended.
LEMMA RecordInv ==
  ASSUME UacInv, NEW lens \in Seq(Nat), Record(lens)
  PROVE  UacInv'
<1>1. PICK ms \in MicSource(lens) :
        LET made == uac_in_iso(lens, ms)
            heard == FlattenSeq(Inbound(Slots(lens), made)) IN
        /\ uac' = [uac EXCEPT !.mic_samples = uac.mic_samples + Total(Lengths(made))]
        /\ recorded' = [from |-> recorded.from + Len(recorded.data), data |-> heard]
  BY DEF Record
<1> DEFINE n == Len(lens)
           frames == [i \in 1..n |-> Frames(lens[i], ms[i])]
           made == uac_in_iso(lens, ms)
           e == Ends(frames)
<1>2. n \in Nat /\ DOMAIN lens = 1..n /\ \A i \in 1..n : lens[i] \in Nat
  BY LenProperties
<1>3. frames \in Seq(Nat) /\ Len(frames) = n /\ \A i \in 1..n : frames[i] \in Nat
  <2>1. \A i \in 1..n : ms[i] \in 0..Total(lens) /\ ms[i] <= lens[i]
    BY <1>2 DEF MicSource
  <2>2. \A i \in 1..n : ms[i] \in Nat
    <3>1. Total(lens) \in Nat
      BY <1>2, EndsFacts DEF Total
    <3> QED BY <2>1, <3>1
  <2>3. \A i \in 1..n : Frames(lens[i], ms[i]) \in Nat
    BY <1>2, <2>2 DEF Frames
  <2>4. frames \in [1..n -> Nat]
    BY <2>3
  <2>5. frames \in Seq(Nat)
    BY <1>2, <2>4, SeqDef
  <2> QED BY <1>2, <2>4, <2>5, LenProperties
<1>4. e \in [0..n -> Nat]
  BY <1>3, EndsFacts
<1>5. uac.mic_samples \in Nat /\ recorded.from \in Nat /\ Len(recorded.data) \in Nat /\ Silence \in Int
      /\ uac.mic_samples = recorded.from + Len(recorded.data)
  BY DEF UacInv, UacTypes, Silence
<1>6. made = [i \in 1..n |-> [k \in 1..frames[i] |->
                IF uac.mute_cap THEN Silence ELSE uac.mic_samples + e[i - 1] + k - 1]]
  BY <1>2 DEF uac_in_iso
<1> HIDE DEF made, frames, e
<1>7. /\ made \in Seq(Seq(Int)) /\ Len(made) = n
      /\ \A i \in 1..n : /\ Len(made[i]) = frames[i]
                         /\ \A k \in 1..frames[i] : made[i][k] \in {Silence, uac.mic_samples + e[i - 1] + k - 1}
  <2>1. ASSUME NEW i \in 1..n
        PROVE /\ made[i] \in Seq(Int) /\ Len(made[i]) = frames[i]
              /\ \A k \in 1..frames[i] : made[i][k] \in {Silence, uac.mic_samples + e[i - 1] + k - 1}
    <3>1. frames[i] \in Nat /\ e[i - 1] \in Nat
      <4>1. i - 1 \in 0..n
        BY <1>2
      <4> QED BY <1>3, <1>4, <4>1
    <3>2. \A k \in 1..frames[i] : uac.mic_samples + e[i - 1] + k - 1 \in Int
      BY <1>5, <3>1
    <3>3. made[i] = [k \in 1..frames[i] |-> IF uac.mute_cap THEN Silence ELSE uac.mic_samples + e[i - 1] + k - 1]
      BY <1>6
    <3>4. made[i] \in [1..frames[i] -> Int]
      BY <1>5, <3>2, <3>3
    <3>5. made[i] \in Seq(Int)
      <4>1. PICK f : f = frames[i]
        OBVIOUS
      <4>2. f \in Nat /\ made[i] \in [1..f -> Int]
        BY <3>1, <3>4, <4>1
      <4> QED BY <4>2, SeqDef
    <3>6. Len(made[i]) = frames[i]
      BY <3>1, <3>4, <3>5, LenProperties
    <3> QED BY <3>3, <3>5, <3>6
  <2>2. made \in [1..n -> Seq(Int)]
    BY <1>6, <2>1
  <2>3. made \in Seq(Seq(Int))
    BY <1>2, <2>2, SeqDef, SMTT(30)
  <2>4. Len(made) = n
    BY <1>2, <2>2, <2>3, LenProperties
  <2> QED BY <2>1, <2>3, <2>4
<1>8. Lengths(made) = frames
  <2>1. /\ Lengths(made) \in Seq(Nat) /\ Len(Lengths(made)) = n
        /\ \A i \in 1..n : Lengths(made)[i] = Len(made[i])
    BY <1>7, LengthsOf
  <2>2. \A i \in 1..n : Lengths(made)[i] = frames[i]
    BY <1>7, <2>1
  <2> QED BY <1>3, <2>1, <2>2, SeqEqual
<1> DEFINE heard == FlattenSeq(made)
<1>9. Inbound(Slots(lens), made) = made
  <2>1. DOMAIN Slots(lens) = 1..Len(made)
    BY <1>2, <1>7 DEF Slots
  <2> QED BY <1>7, <2>1, InboundIs
<1>10. heard \in Seq(Int) /\ IsLaid(made, heard)
  BY <1>7, FlatIsLaid
<1> HIDE DEF heard
<1>11. Len(heard) = e[n] /\ e[n] \in Nat /\ Total(Lengths(made)) = Len(heard)
  <2>1. Len(heard) = Ends(Lengths(made))[Len(made)]
    BY <1>10 DEF IsLaid
  <2>2. n \in 0..n
    BY <1>2
  <2> QED BY <1>3, <1>4, <1>7, <1>8, <2>1, <2>2 DEF Total, e
<1>12. recorded'.from = uac.mic_samples /\ recorded'.data = heard /\ recorded' \in [from : Nat, data : Seq(Int)]
  <2>1. recorded' = [from |-> uac.mic_samples, data |-> heard]
    BY <1>1, <1>5, <1>9 DEF heard, made
  <2> QED BY <1>5, <1>10, <2>1
<1>13. uac' = [uac EXCEPT !.mic_samples = uac.mic_samples + Len(heard)]
  BY <1>1, <1>11 DEF made
<1>14. ASSUME NEW k \in DOMAIN heard PROVE heard[k] \in {Silence, recorded'.from + k - 1}
  <2>1. k \in 1..Len(heard)
    BY <1>10
  <2>2. Ends(Lengths(made)) = e /\ Len(made) = n
    BY <1>7, <1>8 DEF e
  <2>3. PICK j \in 1..n : \E q \in 1..Len(made[j]) : k = e[j - 1] + q
    <3>1. \E j \in 1..Len(made) : \E q \in 1..Len(made[j]) : k = Ends(Lengths(made))[j - 1] + q
      BY <1>10, <2>1 DEF IsLaid
    <3> QED BY <2>2, <3>1
  <2>4. PICK q \in 1..Len(made[j]) : k = e[j - 1] + q
    BY <2>3
  <2>5. heard[k] = made[j][q]
    <3>1. heard[Ends(Lengths(made))[j - 1] + q] = made[j][q]
      BY <1>10, <2>2 DEF IsLaid
    <3> QED BY <2>2, <2>4, <3>1
  <2>6. made[j][q] \in {Silence, uac.mic_samples + e[j - 1] + q - 1}
    BY <1>7
  <2>7. uac.mic_samples + e[j - 1] + q - 1 = uac.mic_samples + k - 1
    <3>1. j - 1 \in 0..n
      BY <1>2
    <3>2. e[j - 1] \in Nat /\ q \in Nat
      <4>1. e[j - 1] \in Nat /\ frames[j] \in Nat /\ Len(made[j]) = frames[j]
        BY <1>3, <1>4, <1>7, <3>1
      <4>2. q \in 1..frames[j]
        BY <4>1
      <4> QED BY <4>1, <4>2
    <3> QED BY <1>5, <2>4, <3>2
  <2> QED BY <1>12, <2>5, <2>6, <2>7
<1>15. UacTypes' /\ uac'.mic_samples = uac.mic_samples + Len(heard) /\ uac'.spk_bytes = uac.spk_bytes
  <2>1. uac.mic_samples + Len(heard) \in Nat
    BY <1>5, <1>11
  <2>2. uac' \in [mic_on : BOOLEAN, spk_on : BOOLEAN, mic_samples : Nat, spk_bytes : Nat,
                  mute_play : BOOLEAN, mute_cap : BOOLEAN]
    BY <1>13, <2>1 DEF UacInv, UacTypes
  <2>3. uac'.mic_samples = uac.mic_samples + Len(heard) /\ uac'.spk_bytes = uac.spk_bytes
    BY <1>13 DEF UacInv, UacTypes
  <2>4. played' = played
    BY DEF Record
  <2> QED BY <1>12, <2>2, <2>3, <2>4 DEF UacInv, UacTypes
<1>16. played' = played
  BY DEF Record
<1>17. AudioIsContinuous'
  BY <1>12, <1>14, <1>15, <1>16 DEF UacInv, AudioIsContinuous
<1> QED
  BY <1>12, <1>15, <1>17 DEF UacInv

\* The speaker's application gets the host's buffer back in one piece.
LEMMA PlayInv ==
  ASSUME UacInv, NEW lens \in Seq(Nat), Play(lens)
  PROVE  UacInv'
<1> DEFINE buf == [k \in 1..Total(lens) |-> k]
           made == Outbound(buf, Slots(lens))
<1>1. Total(lens) \in Nat
  <2>1. Len(lens) \in 0..Len(lens)
    OBVIOUS
  <2> QED BY <2>1, EndsFacts DEF Total
<1>2. buf \in Seq(Int) /\ Len(buf) = Total(lens)
  <2>1. buf \in [1..Total(lens) -> Int]
    OBVIOUS
  <2>2. buf \in Seq(Int)
    BY <1>1, <2>1, SeqDef
  <2> QED BY <1>1, <2>1, <2>2, LenProperties
<1>3. FlattenSeq(made) = buf
  BY <1>2, OutboundIs
<1>4. /\ uac' = [uac EXCEPT !.spk_bytes = uac.spk_bytes + Total(lens)] /\ recorded' = recorded
      /\ played' = [sent |-> IF uac.mute_play THEN <<>> ELSE buf, sink |-> uac_out_iso(made),
                    total |-> played.total + Total(lens)]
  BY DEF Play
<1>5. played'.sink = played'.sent /\ played'.total = played.total + Total(lens)
  BY <1>3, <1>4 DEF uac_out_iso
<1>6. uac.spk_bytes \in Nat /\ played.total = uac.spk_bytes
  BY DEF UacInv, UacTypes, AudioIsContinuous
<1>7. uac.spk_bytes + Total(lens) \in Nat
  BY <1>1, <1>6
<1>8. /\ uac' \in [mic_on : BOOLEAN, spk_on : BOOLEAN, mic_samples : Nat, spk_bytes : Nat,
                   mute_play : BOOLEAN, mute_cap : BOOLEAN]
      /\ uac'.spk_bytes = uac.spk_bytes + Total(lens) /\ uac'.mic_samples = uac.mic_samples
  BY <1>4, <1>7 DEF UacInv, UacTypes
<1> QED
  BY <1>4, <1>5, <1>6, <1>7, <1>8 DEF UacInv, UacTypes, AudioIsContinuous

LEMMA UacNextInv == UacInv /\ [UacNext]_uacvars => UacInv'
<1> SUFFICES ASSUME UacInv, [UacNext]_uacvars PROVE UacInv'
  OBVIOUS
<1> DEFINE Types(u) == u \in [mic_on : BOOLEAN, spk_on : BOOLEAN, mic_samples : Nat, spk_bytes : Nat,
                              mute_play : BOOLEAN, mute_cap : BOOLEAN]
<1>1. ASSUME NEW w \in {"mute_play", "mute_cap"}, NEW on \in BOOLEAN, Mute(w, on) PROVE UacInv'
  <2>1. recorded' = recorded /\ played' = played /\ uac' = [uac EXCEPT ![w] = on]
    BY <1>1 DEF Mute
  <2>2. Types(uac') /\ uac'.mic_samples = uac.mic_samples /\ uac'.spk_bytes = uac.spk_bytes
    <3>1. CASE w = "mute_play"
      BY <2>1, <3>1 DEF UacInv, UacTypes
    <3>2. CASE w = "mute_cap"
      BY <2>1, <3>2 DEF UacInv, UacTypes
    <3> QED BY <3>1, <3>2
  <2> QED BY <2>1, <2>2 DEF UacInv, UacTypes, AudioIsContinuous
<1>2. ASSUME NEW alt \in 0..2, SetMic(alt) PROVE UacInv'
  <2>1. played' = played
    BY <1>2 DEF SetMic
  <2>2. CASE alt = 1 /\ ~uac.mic_on
    <3>1. recorded' = [from |-> 0, data |-> <<>>] /\ uac' = [uac EXCEPT !.mic_on = TRUE, !.mic_samples = 0]
      BY <1>2, <2>2 DEF SetMic, Starts
    <3>2. Types(uac') /\ uac'.mic_samples = 0 /\ uac'.spk_bytes = uac.spk_bytes
      BY <3>1 DEF UacInv, UacTypes
    <3>3. <<>> \in Seq(Int) /\ Len(<<>>) = 0 /\ DOMAIN <<>> = {}
      OBVIOUS
    <3>4. recorded' \in [from : Nat, data : Seq(Int)] /\ recorded'.from = 0 /\ recorded'.data = <<>>
      BY <3>1, <3>3
    <3>5. uac'.mic_samples = recorded'.from + Len(recorded'.data)
      BY <3>2, <3>3, <3>4
    <3> QED BY <2>1, <3>2, <3>3, <3>4, <3>5 DEF UacInv, UacTypes, AudioIsContinuous
  <2>3. CASE ~(alt = 1 /\ ~uac.mic_on)
    <3>1. recorded' = recorded
          /\ uac' = [uac EXCEPT !.mic_on = IF alt = 1 THEN TRUE ELSE IF alt = 0 THEN FALSE ELSE uac.mic_on,
                                !.mic_samples = uac.mic_samples]
      BY <1>2, <2>3 DEF SetMic, Starts
    <3>2. Types(uac') /\ uac'.mic_samples = uac.mic_samples /\ uac'.spk_bytes = uac.spk_bytes
      <4>1. (IF alt = 1 THEN TRUE ELSE IF alt = 0 THEN FALSE ELSE uac.mic_on) \in BOOLEAN
        BY DEF UacInv, UacTypes
      <4> QED BY <3>1, <4>1 DEF UacInv, UacTypes
    <3> QED BY <2>1, <3>1, <3>2 DEF UacInv, UacTypes, AudioIsContinuous
  <2> QED BY <2>2, <2>3
<1>3. ASSUME NEW alt \in 0..2, SetSpeaker(alt) PROVE UacInv'
  <2>1. recorded' = recorded
    BY <1>3 DEF SetSpeaker
  <2>2. (IF alt = 1 THEN TRUE ELSE IF alt = 0 THEN FALSE ELSE uac.spk_on) \in BOOLEAN
    BY DEF UacInv, UacTypes
  <2>3. CASE alt = 1 /\ ~uac.spk_on
    <3>1. played' = [sent |-> <<>>, sink |-> <<>>, total |-> 0]
          /\ uac' = [uac EXCEPT !.spk_on = TRUE, !.spk_bytes = 0]
      BY <1>3, <2>3 DEF SetSpeaker, Starts
    <3>2. Types(uac') /\ uac'.spk_bytes = 0 /\ uac'.mic_samples = uac.mic_samples
      BY <3>1 DEF UacInv, UacTypes
    <3>3. played'.total = 0 /\ played'.sink = played'.sent
      BY <3>1
    <3> QED BY <2>1, <3>2, <3>3 DEF UacInv, UacTypes, AudioIsContinuous
  <2>4. CASE ~(alt = 1 /\ ~uac.spk_on)
    <3>1. played' = played
          /\ uac' = [uac EXCEPT !.spk_on = IF alt = 1 THEN TRUE ELSE IF alt = 0 THEN FALSE ELSE uac.spk_on,
                                !.spk_bytes = uac.spk_bytes]
      BY <1>3, <2>4 DEF SetSpeaker, Starts
    <3>2. Types(uac') /\ uac'.mic_samples = uac.mic_samples /\ uac'.spk_bytes = uac.spk_bytes
      BY <2>2, <3>1 DEF UacInv, UacTypes
    <3> QED BY <2>1, <3>1, <3>2 DEF UacInv, UacTypes, AudioIsContinuous
  <2> QED BY <2>3, <2>4
<1>4. ASSUME NEW lens \in PacketLengths(MicLengths, MaxPackets), Record(lens) \/ Play(lens) PROVE UacInv'
  <2>1. lens \in Seq(Nat)
    BY UacAssumption, PacketLengthsAre
  <2> QED BY <1>4, <2>1, RecordInv, PlayInv
<1>5. CASE UNCHANGED uacvars
  BY <1>5 DEF uacvars, UacInv, UacTypes, AudioIsContinuous
<1> QED
  BY <1>1, <1>2, <1>3, <1>4, <1>5 DEF UacNext

\* Audio: a recording holds the sample of each place, or silence, and goes on where the last
\* one ended; the speaker's application gets what the host sent, in any packets.
THEOREM AudioIsContinuousHolds == UacSpec => []AudioIsContinuous
<1>1. UacInv => AudioIsContinuous
  BY DEF UacInv
<1> QED
  BY <1>1, UacInitInv, UacNextInv, PTL DEF UacSpec

-----------------------------------------------------------------------------
(* UVC: the camera                                                          *)

UvcSpec == UvcInit /\ [][UvcNext]_uvcvars

Cameras == [streaming : BOOLEAN, frame_index : Nat, frame_len : Nat, frame_pos : Nat, fid : {0, 1},
            cur_format : Formats \cup {1}]
Viewers == [fid : {0, 1}, data : Seq(Int), frames : Nat]
Shown == [n : Nat, data : Seq(Int), whole : Seq(Int)]
Packets == {p \in Seq(Int) : p = <<>> \/ (Len(p) >= 2 /\ p[2] \in 0..3)}

\* While it streams, the host is at the camera's place in the camera's frame.
InFrame(c, v) ==
  /\ c.frame_pos <= c.frame_len
  /\ c.streaming => /\ v.frames = c.frame_index /\ v.fid = c.fid /\ Len(v.data) = c.frame_pos
                    /\ \A k \in 1..c.frame_pos : v.data[k] = Pixel(c.frame_index, k)

\* A frame is what was produced, byte for byte.
IsFrame(s) ==
  s.n > 0 => s.data = s.whole /\ \A k \in DOMAIN s.data : s.data[k] = Pixel(s.n - 1, k)

\* The last frame shown is the one produced, and the next one is under way.
UvcInv ==
  /\ cam \in Cameras /\ viewer \in Viewers /\ shown \in Shown
  /\ InFrame(cam, viewer) /\ IsFrame(shown)
  /\ asked = cam.cur_format

\* Before the first byte, camera and host are at the same place.
LEMMA StartsInFrame ==
  ASSUME NEW c \in Cameras, c.frame_pos = 0, c.frame_len = 0, c.frame_index = 0, c.fid = 0,
         NEW v, v = [fid |-> 0, data |-> <<>>, frames |-> 0]
  PROVE  InFrame(c, v) /\ v \in Viewers /\ Nothing \in Shown /\ IsFrame(Nothing)
<1>1. <<>> \in Seq(Int) /\ Len(<<>>) = 0
  OBVIOUS
<1>2. v \in Viewers /\ v.fid = 0 /\ v.data = <<>> /\ v.frames = 0
  BY <1>1 DEF Viewers
<1>3. InFrame(c, v)
  BY <1>1, <1>2 DEF InFrame
<1>4. Nothing \in Shown /\ Nothing.n = 0
  BY <1>1 DEF Nothing, Shown
<1>5. IsFrame(Nothing)
  BY <1>4 DEF IsFrame
<1> QED
  BY <1>2, <1>3, <1>4, <1>5

\* A byte of a frame is a number.
LEMMA PixelIsInt == \A f \in Nat : \A k \in Nat : Pixel(f, k) \in Int
BY UvcAssumption DEF Pixel

\* Whatever arrives, the host has a place, and bytes.
LEMMA TakenIs ==
  ASSUME NEW v \in Viewers, NEW p \in Packets
  PROVE  Taken(v, p).view \in Viewers /\ Taken(v, p).data \in Seq(Int) /\ Taken(v, p).complete \in BOOLEAN
<1>1. v.fid \in {0, 1} /\ v.data \in Seq(Int) /\ v.frames \in Nat
  BY DEF Viewers
<1>2. CASE p = <<>>
  BY <1>1, <1>2 DEF Taken
<1>3. CASE p # <<>>
  <2>1. p \in Seq(Int) /\ Len(p) \in Nat /\ Len(p) >= 2 /\ p[2] \in 0..3
    BY <1>3 DEF Packets
  <2> DEFINE fid == p[2] % 2
             rest == SubSeq(p, HdrLen + 1, Len(p))
             data == (IF fid # v.fid THEN <<>> ELSE v.data) \o rest
             eof == p[2] >= 2
  <2>2. fid \in {0, 1} /\ 1 - fid \in {0, 1} /\ eof \in BOOLEAN
    BY <2>1
  <2>3. rest \in Seq(Int)
    <3>1. \A i \in 3..Len(p) : p[i] \in Int
      BY <2>1
    <3> QED BY <2>1, <3>1, SubSeqProperties DEF HdrLen
  <2> HIDE DEF rest, fid, eof
  <2>4. <<>> \in Seq(Int)
    OBVIOUS
  <2>5. data \in Seq(Int)
    BY <1>1, <2>3, <2>4, ConcatProperties
  <2> HIDE DEF data
  <2> DEFINE w == [fid |-> IF eof THEN 1 - fid ELSE fid, data |-> IF eof THEN <<>> ELSE data,
                   frames |-> v.frames + IF eof THEN 1 ELSE 0]
  <2>6. w \in Viewers
    BY <1>1, <2>2, <2>4, <2>5 DEF Viewers
  <2>7. Taken(v, p) = [view |-> w, complete |-> eof, data |-> data]
    BY <1>3 DEF Taken, w, data, rest, fid, eof
  <2> HIDE DEF w
  <2> QED BY <2>2, <2>5, <2>6, <2>7
<1> QED
  BY <1>2, <1>3

\* The EOF bit of a payload header, and a payload: its header, with FID and EOF, and its bytes.
EofBit == {0, 2}

Chunk(v, e, s) == <<HdrLen, v.fid + e>> \o s

AfterChunk(v, s, e) ==
  [fid |-> IF e = 2 THEN 1 - v.fid ELSE v.fid, data |-> IF e = 2 THEN <<>> ELSE v.data \o s,
   frames |-> v.frames + IF e = 2 THEN 1 ELSE 0]

\* What the host makes of a payload of the frame it is on; e is the EOF bit.
ChunkTaken(v, s, e, p) ==
  /\ p \in Packets /\ Taken(v, p).data = v.data \o s /\ (Taken(v, p).complete <=> e = 2)
  /\ Taken(v, p).view = AfterChunk(v, s, e)

\* A payload that goes on with the host's frame is one it takes so.
LEMMA TakenChunk ==
  ASSUME NEW v \in Viewers, NEW s \in Seq(Int), NEW e \in EofBit,
         NEW p, p = Chunk(v, e, s)
  PROVE  ChunkTaken(v, s, e, p)
<1> DEFINE h == <<HdrLen, v.fid + e>>
<1>1. PICK b, f : b = v.fid + e /\ f = v.fid
  OBVIOUS
<1>2. f \in {0, 1}
  BY <1>1 DEF Viewers
<1>3. b = f + e /\ b \in 0..3 /\ b % 2 = f /\ (b >= 2 <=> e = 2)
  <2>1. b = f + e
    BY <1>1
  <2>2. \/ b = 0 /\ f = 0 /\ e = 0
        \/ b = 1 /\ f = 1 /\ e = 0
        \/ b = 2 /\ f = 0 /\ e = 2
        \/ b = 3 /\ f = 1 /\ e = 2
    BY <1>2, <2>1 DEF EofBit
  <2>3. b \in Int /\ f \in Int /\ e \in Int
    BY <2>2
  <2> QED BY <2>1, <2>2, <2>3
<1>4. h \in Seq(Int) /\ Len(h) = 2 /\ h[2] = b
  <2>1. h = <<2, b>> /\ b \in Int
    BY <1>1, <1>3 DEF HdrLen
  <2> QED BY <2>1
<1> HIDE DEF h
<1>5. p = h \o s
  BY DEF h, Chunk
<1>6. Len(s) \in Nat
  OBVIOUS
<1>7. /\ p \in Seq(Int) /\ Len(p) = 2 + Len(s)
      /\ \A i \in 1..(2 + Len(s)) : p[i] = IF i <= 2 THEN h[i] ELSE s[i - 2]
  <2>1. /\ h \o s \in Seq(Int) /\ Len(h \o s) = Len(h) + Len(s)
        /\ \A i \in 1..(Len(h) + Len(s)) : (h \o s)[i] = IF i <= Len(h) THEN h[i] ELSE s[i - Len(h)]
    BY <1>4, ConcatProperties
  <2> QED BY <1>4, <1>5, <2>1
<1>8. p[2] = b /\ p # <<>> /\ p \in Packets
  <2>1. 2 \in 1..(2 + Len(s)) /\ 2 + Len(s) >= 2 /\ 2 <= 2 /\ 2 + Len(s) # 0
    BY <1>6
  <2>2. p[2] = b
    BY <1>4, <1>7, <2>1
  <2>3. p # <<>>
    BY <1>7, <2>1
  <2> QED BY <1>3, <1>7, <2>1, <2>2, <2>3 DEF Packets
<1>9. SubSeq(p, HdrLen + 1, Len(p)) = s
  <2>1. \A i \in 3..Len(p) : p[i] \in Int
    BY <1>6, <1>7
  <2>2. /\ SubSeq(p, 3, Len(p)) \in Seq(Int)
        /\ Len(SubSeq(p, 3, Len(p))) = (IF 3 <= Len(p) THEN Len(p) - 3 + 1 ELSE 0)
        /\ \A i \in 1..(Len(p) - 3 + 1) : SubSeq(p, 3, Len(p))[i] = p[3 + i - 1]
    <3>1. 3 \in Int /\ Len(p) \in Int
      BY <1>6, <1>7
    <3> QED BY <2>1, <3>1, SubSeqProperties
  <2>3. Len(SubSeq(p, 3, Len(p))) = Len(s)
    BY <1>6, <1>7, <2>2
  <2>4. ASSUME NEW i \in 1..Len(s) PROVE SubSeq(p, 3, Len(p))[i] = s[i]
    <3>1. PICK a, b1 : a = Len(s) /\ b1 = Len(p)
      OBVIOUS
    <3>2. a \in Nat /\ b1 = 2 + a /\ i \in 1..a
      BY <1>6, <1>7, <3>1
    <3>3. i \in 1..(b1 - 3 + 1) /\ 3 + i - 1 \in 1..(2 + a) /\ ~(3 + i - 1 <= 2) /\ (3 + i - 1) - 2 = i
      BY <3>2
    <3>4. i \in 1..(Len(p) - 3 + 1) /\ 3 + i - 1 \in 1..(2 + Len(s)) /\ ~(3 + i - 1 <= 2) /\ (3 + i - 1) - 2 = i
      BY <3>1, <3>3
    <3> QED BY <1>7, <2>2, <3>4
  <2>5. SubSeq(p, 3, Len(p)) = s
    BY <2>2, <2>3, <2>4, SeqEqual
  <2> QED BY <2>5 DEF HdrLen
<1> DEFINE w == AfterChunk(v, s, e)
<1>10. Taken(v, p).data = v.data \o s /\ (Taken(v, p).complete <=> e = 2) /\ Taken(v, p).view = w
  <2>1. CASE e = 2
    <3>1. w = [fid |-> 1 - v.fid, data |-> <<>>, frames |-> v.frames + 1]
      BY <2>1 DEF AfterChunk
    <3>2. Taken(v, p) = [view |-> [fid |-> 1 - v.fid, data |-> <<>>, frames |-> v.frames + 1],
                         complete |-> TRUE, data |-> v.data \o s]
      BY <1>1, <1>3, <1>8, <1>9, <2>1 DEF Taken
    <3> HIDE DEF w
    <3>3. Taken(v, p) = [view |-> w, complete |-> TRUE, data |-> v.data \o s]
      BY <3>1, <3>2
    <3> QED BY <2>1, <3>3
  <2>2. CASE e # 2
    <3>1. w = [fid |-> v.fid, data |-> v.data \o s, frames |-> v.frames + 0]
      BY <2>2 DEF AfterChunk
    <3>2. p # <<>> /\ p[2] % 2 = v.fid /\ ~(p[2] >= 2)
      BY <1>1, <1>3, <1>8, <2>2
    <3>3. Taken(v, p) = [view |-> [fid |-> v.fid, data |-> v.data \o s, frames |-> v.frames + 0],
                         complete |-> FALSE, data |-> v.data \o s]
      <4> DEFINE x == (IF p[2] % 2 # v.fid THEN <<>> ELSE v.data) \o SubSeq(p, HdrLen + 1, Len(p))
      <4>1. x = v.data \o s
        BY <1>9, <3>2
      <4>2. Taken(v, p) = [view |-> [fid |-> IF p[2] >= 2 THEN 1 - (p[2] % 2) ELSE p[2] % 2,
                                     data |-> IF p[2] >= 2 THEN <<>> ELSE x,
                                     frames |-> v.frames + IF p[2] >= 2 THEN 1 ELSE 0],
                           complete |-> p[2] >= 2, data |-> x]
        BY <3>2 DEF Taken
      <4> HIDE DEF x
      <4>3. (p[2] >= 2) = FALSE
        BY <3>2
      <4> QED BY <3>2, <4>1, <4>2, <4>3, Zenon
    <3> HIDE DEF w
    <3>4. Taken(v, p) = [view |-> w, complete |-> FALSE, data |-> v.data \o s]
      BY <3>1, <3>3
    <3> QED BY <2>2, <3>4
  <2> QED BY <2>1, <2>2
<1> QED
  BY <1>8, <1>10 DEF ChunkTaken

\* A packet takes camera and host from one place to the next together, and a frame that is
\* complete is the one that was produced.
LEMMA PacketKeeps ==
  ASSUME NEW c \in Cameras, NEW v \in Viewers, InFrame(c, v), NEW req \in Nat, NEW n \in Nat,
         NEW p, p = Payload(c, req, n), NEW t, t = Taken(v, p.pkt)
  PROVE  /\ p.cam \in Cameras /\ p.pkt \in Packets /\ p.whole \in Seq(Int)
         /\ p.cam.cur_format = c.cur_format
         /\ t.view \in Viewers /\ InFrame(p.cam, t.view)
         /\ t.complete => IsFrame([n |-> t.view.frames, data |-> t.data, whole |-> p.whole])
<1>1. CASE ~c.streaming \/ req < HdrLen
  <2>1. p.cam = c /\ p.pkt = <<>> /\ p.whole = <<>>
    BY <1>1 DEF Payload
  <2>2. <<>> \in Seq(Int) /\ <<>> \in Packets
    BY DEF Packets
  <2>3. t.view = v /\ t.complete = FALSE
    BY <2>1 DEF Taken
  <2> QED BY <2>1, <2>2, <2>3
<1>2. CASE c.streaming /\ ~(req < HdrLen)
  <2>1. PICK d : d = Produced(c, n)
    OBVIOUS
  <2>2. d \in Cameras /\ d.streaming /\ InFrame(d, v) /\ d.cur_format = c.cur_format
    <3>1. CASE c.frame_len = 0
      <4>1. d = [c EXCEPT !.frame_len = n, !.frame_pos = 0]
        BY <2>1, <3>1 DEF Produced
      <4>2. d \in Cameras
        BY <4>1 DEF Cameras
      <4>3. d \in Cameras /\ d.frame_len = n /\ d.frame_pos = 0 /\ d.streaming = c.streaming
            /\ d.frame_index = c.frame_index /\ d.fid = c.fid /\ d.cur_format = c.cur_format
        BY <4>1, <4>2 DEF Cameras
      <4>4. c.frame_pos = 0
        BY <3>1 DEF InFrame, Cameras
      <4> QED BY <1>2, <4>3, <4>4 DEF InFrame
    <3>2. CASE c.frame_len # 0
      BY <1>2, <2>1, <3>2 DEF Produced
    <3> QED BY <3>1, <3>2
  <2>3. PICK idx, len, pos, bit : idx = d.frame_index /\ len = d.frame_len /\ pos = d.frame_pos /\ bit = d.fid
    OBVIOUS
  <2> DEFINE cap == req - HdrLen
             room == len - pos
             chunk == IF room < cap THEN room ELSE cap
             done == pos + chunk >= len
             frame == [k \in 1..len |-> Pixel(idx, k)]
             sub == SubSeq(frame, pos + 1, pos + chunk)
  <2>4. /\ idx \in Nat /\ len \in Nat /\ pos \in Nat /\ pos <= len
        /\ bit \in {0, 1} /\ v.fid = bit /\ v.frames = idx /\ v.data \in Seq(Int)
        /\ Len(v.data) = pos /\ \A k \in 1..pos : v.data[k] = Pixel(idx, k)
    BY <2>3, <2>2 DEF Cameras, Viewers, InFrame
  <2>5. p = [pkt |-> <<HdrLen, bit + IF done THEN 2 ELSE 0>> \o sub,
             whole |-> IF done THEN frame ELSE <<>>,
             cam |-> IF done THEN [d EXCEPT !.frame_len = 0, !.frame_pos = 0, !.fid = 1 - bit,
                                            !.frame_index = idx + 1]
                     ELSE [d EXCEPT !.frame_pos = pos + chunk]]
    BY <1>2, <2>1, <2>3 DEF Payload, FrameOf
  <2>6. /\ chunk \in Nat /\ pos + chunk <= len /\ done \in BOOLEAN
        /\ done <=> pos + chunk = len
    BY <1>2, <2>4 DEF HdrLen
  <2> HIDE DEF cap, room, chunk, done
  <2>7. /\ frame \in Seq(Int) /\ Len(frame) = len
        /\ \A k \in 1..len : frame[k] = Pixel(idx, k)
    <3>1. \A k \in 1..len : Pixel(idx, k) \in Int
      BY <2>4, PixelIsInt
    <3>2. frame \in [1..len -> Int]
      BY <3>1
    <3>3. frame \in Seq(Int)
      BY <2>4, <3>2, SeqDef
    <3> QED BY <2>4, <3>2, <3>3, LenProperties
  <2> HIDE DEF frame
  <2>8. /\ sub \in Seq(Int) /\ Len(sub) = chunk
        /\ \A q \in 1..chunk : sub[q] = Pixel(idx, pos + q)
    <3>1. PICK a, b, l : a = pos + 1 /\ b = pos + chunk /\ l = len
      OBVIOUS
    <3>2. a \in Int /\ b \in Int /\ l \in Nat /\ 1 <= a /\ b <= l /\ b - a + 1 = chunk
          /\ (IF a <= b THEN b - a + 1 ELSE 0) = chunk /\ \A i \in a..b : i \in 1..l
      BY <2>4, <2>6, <3>1
    <3>3. \A i \in a..b : frame[i] \in Int
      BY <2>7, <3>1, <3>2
    <3>4. /\ SubSeq(frame, a, b) \in Seq(Int)
          /\ Len(SubSeq(frame, a, b)) = (IF a <= b THEN b - a + 1 ELSE 0)
          /\ \A q \in 1..(b - a + 1) : SubSeq(frame, a, b)[q] = frame[a + q - 1]
      BY <3>2, <3>3, SubSeqProperties
    <3>5. ASSUME NEW q \in 1..chunk PROVE SubSeq(frame, a, b)[q] = Pixel(idx, pos + q)
      <4>1. q \in Nat /\ 1 <= q /\ q <= chunk
        BY <2>6
      <4>2. PICK x, y : x = pos /\ y = chunk
        OBVIOUS
      <4>3. x \in Nat /\ y \in Nat /\ x + y <= l /\ a = x + 1 /\ l \in Nat
        BY <2>4, <2>6, <3>1, <3>2, <4>2
      <4>4. a + q - 1 = x + q /\ a + q - 1 \in 1..l
        BY <4>1, <4>2, <4>3
      <4>5. a + q - 1 = pos + q /\ a + q - 1 \in 1..len
        BY <3>1, <4>2, <4>4
      <4> QED BY <2>7, <3>2, <3>4, <4>5
    <3> QED BY <3>1, <3>2, <3>4, <3>5
  <2> HIDE DEF sub
  <2>9. PICK e \in EofBit : e = (IF done THEN 2 ELSE 0) /\ (e = 2 <=> done)
    <3>1. CASE done
      BY <3>1 DEF EofBit
    <3>2. CASE ~done
      BY <3>2 DEF EofBit
    <3> QED BY <3>1, <3>2
  <2>10. /\ p.pkt \in Packets /\ (t.complete <=> done) /\ t.data = v.data \o sub
        /\ t.view = AfterChunk(v, sub, e)
    <3>1. p.pkt = Chunk(v, e, sub)
      BY <2>4, <2>5, <2>9 DEF Chunk
    <3>2. /\ p.pkt \in Packets /\ Taken(v, p.pkt).data = v.data \o sub /\ (Taken(v, p.pkt).complete <=> e = 2)
          /\ Taken(v, p.pkt).view = AfterChunk(v, sub, e)
      <4>1. PICK P : P = p.pkt
        OBVIOUS
      <4>2. P = Chunk(v, e, sub)
        BY <3>1, <4>1
      <4>3. v \in Viewers /\ sub \in Seq(Int) /\ e \in EofBit
        BY <2>3, <2>8, <2>9
      <4>4. ChunkTaken(v, sub, e, P)
        BY <4>2, <4>3, TakenChunk
      <4> QED BY <4>1, <4>4 DEF ChunkTaken
    <3> QED BY <2>9, <3>2
  <2>11. /\ v.data \o sub \in Seq(Int) /\ Len(v.data \o sub) = pos + chunk
        /\ \A k \in 1..(pos + chunk) : (v.data \o sub)[k] = Pixel(idx, k)
    <3>1. /\ v.data \o sub \in Seq(Int) /\ Len(v.data \o sub) = pos + chunk
          /\ \A k \in 1..(pos + chunk) :
               (v.data \o sub)[k] = IF k <= pos THEN v.data[k] ELSE sub[k - pos]
      <4>1. /\ v.data \o sub \in Seq(Int) /\ Len(v.data \o sub) = Len(v.data) + Len(sub)
            /\ \A k \in 1..(Len(v.data) + Len(sub)) :
                 (v.data \o sub)[k] = IF k <= Len(v.data) THEN v.data[k] ELSE sub[k - Len(v.data)]
        <5>1. v.data \in Seq(Int) /\ sub \in Seq(Int)
          BY <2>4, <2>8
        <5>2. PICK x : x = v.data
          OBVIOUS
        <5>3. x \in Seq(Int)
          BY <5>1, <5>2
        <5>4. /\ x \o sub \in Seq(Int) /\ Len(x \o sub) = Len(x) + Len(sub)
              /\ \A k \in 1..(Len(x) + Len(sub)) :
                   (x \o sub)[k] = IF k <= Len(x) THEN x[k] ELSE sub[k - Len(x)]
          BY <5>1, <5>3, ConcatProperties
        <5> QED BY <5>2, <5>4
      <4>2. Len(v.data) = pos /\ Len(sub) = chunk
        BY <2>4, <2>8
      <4> QED BY <4>1, <4>2
    <3>2. ASSUME NEW k \in 1..(pos + chunk) PROVE (v.data \o sub)[k] = Pixel(idx, k)
      <4>1. CASE k <= pos
        <5>1. k \in 1..pos
          BY <2>4, <4>1
        <5> QED BY <2>4, <3>1, <4>1, <5>1
      <4>2. CASE ~(k <= pos)
        <5>1. k - pos \in 1..chunk /\ pos + (k - pos) = k
          BY <2>4, <2>6, <4>2
        <5>2. sub[k - pos] = Pixel(idx, k)
          BY <2>8, <5>1
        <5> QED BY <3>1, <4>2, <5>2
      <4> QED BY <4>1, <4>2
    <3> QED BY <3>1, <3>2
  <2>12. t.view \in Viewers
    <3>1. t.view = Taken(v, p.pkt).view
      OBVIOUS
    <3> QED BY <2>10, <3>1, TakenIs
  <2>13. CASE done
    <3>1. p.cam = [d EXCEPT !.frame_len = 0, !.frame_pos = 0, !.fid = 1 - bit, !.frame_index = idx + 1]
          /\ p.whole = frame
      BY <2>5, <2>13
    <3>2. idx + 1 \in Nat /\ 1 - bit \in {0, 1}
      BY <2>4
    <3>3. PICK q : q = p.cam
      OBVIOUS
    <3>4. q \in Cameras
      <4>1. d \in Cameras
        BY <2>2
      <4>2. PICK f, x : f = 1 - bit /\ x = idx + 1
        OBVIOUS
      <4>3. q = [d EXCEPT !.frame_len = 0, !.frame_pos = 0, !.fid = f, !.frame_index = x]
        BY <3>1, <3>3, <4>2
      <4>4. f \in {0, 1} /\ x \in Nat /\ 0 \in Nat
        BY <3>2, <4>2
      <4> QED BY <4>1, <4>3, <4>4 DEF Cameras
    <3>5. q \in Cameras /\ q.frame_len = 0 /\ q.frame_pos = 0 /\ q.fid = 1 - bit
          /\ q.frame_index = idx + 1 /\ q.cur_format = d.cur_format
      BY <2>3, <2>2, <3>1, <3>4, <3>3 DEF Cameras
    <3>6. p.cam \in Cameras /\ p.cam.frame_len = 0 /\ p.cam.frame_pos = 0 /\ p.cam.fid = 1 - bit
          /\ p.cam.frame_index = idx + 1 /\ p.cam.cur_format = d.cur_format
      BY <3>3, <3>5
    <3>7. t.view.fid = 1 - bit /\ t.view.data = <<>> /\ t.view.frames = idx + 1
      BY <2>4, <2>10, <2>13, <2>9 DEF AfterChunk
    <3>8. InFrame(p.cam, t.view)
      BY <3>6, <3>7 DEF InFrame
    <3>9. t.data = frame
      <4>1. Len(v.data \o sub) = Len(frame) /\ \A k \in 1..Len(frame) : (v.data \o sub)[k] = frame[k]
        BY <2>6, <2>7, <2>11, <2>13
      <4> QED BY <2>7, <2>10, <2>11, <4>1, SeqEqual
    <3>10. t.view.frames - 1 = idx
      BY <2>4, <3>7
    <3>11. \A k \in DOMAIN frame : frame[k] = Pixel(t.view.frames - 1, k)
      BY <2>7, <3>10, LenProperties
    <3>12. IsFrame([n |-> t.view.frames, data |-> t.data, whole |-> p.whole])
      BY <3>1, <3>9, <3>11 DEF IsFrame
    <3> QED BY <2>2, <2>7, <2>10, <2>12, <3>1, <3>6, <3>8, <3>12
  <2>14. CASE ~done
    <3>1. p.cam = [d EXCEPT !.frame_pos = pos + chunk] /\ p.whole = <<>>
      BY <2>5, <2>14
    <3>2. pos + chunk \in Nat
      BY <2>4, <2>6
    <3>3. PICK q : q = p.cam
      OBVIOUS
    <3>4. q \in Cameras
      BY <2>2, <3>1, <3>2, <3>3, SMTT(60) DEF Cameras
    <3>5. q \in Cameras /\ q.frame_pos = pos + chunk /\ q.frame_len = len
          /\ q.fid = bit /\ q.frame_index = idx /\ q.cur_format = d.cur_format
      BY <2>3, <2>2, <3>1, <3>4, <3>3 DEF Cameras
    <3>6. p.cam \in Cameras /\ p.cam.frame_pos = pos + chunk /\ p.cam.frame_len = len
          /\ p.cam.fid = bit /\ p.cam.frame_index = idx /\ p.cam.cur_format = d.cur_format
      BY <3>3, <3>5
    <3>7. t.view.fid = bit /\ t.view.data = v.data \o sub /\ t.view.frames = idx
      BY <2>4, <2>10, <2>14, <2>9 DEF AfterChunk
    <3>8. InFrame(p.cam, t.view)
      BY <2>6, <2>11, <3>6, <3>7 DEF InFrame
    <3>9. <<>> \in Seq(Int) /\ ~t.complete
      BY <2>10, <2>14
    <3> QED BY <2>2, <2>10, <2>12, <3>1, <3>6, <3>8, <3>9
  <2> QED BY <2>6, <2>13, <2>14
<1> QED
  BY <1>1, <1>2 DEF Cameras

\* The packets of a URB, and the camera behind each.
LEMMA MadeFacts ==
  ASSUME cam \in Cameras, cam.frame_pos <= cam.frame_len,
         NEW lens \in Seq(Nat), NEW ns \in [1..Len(lens) -> Nat]
  PROVE  /\ uvc_on_iso(lens, ns)[0].cam = cam
         /\ \A i \in 1..Len(lens) :
              uvc_on_iso(lens, ns)[i] = Payload(uvc_on_iso(lens, ns)[i - 1].cam, lens[i], ns[i])
         /\ \A i \in 0..Len(lens) : /\ uvc_on_iso(lens, ns)[i].cam \in Cameras
                                    /\ uvc_on_iso(lens, ns)[i].pkt \in Packets
                                    /\ uvc_on_iso(lens, ns)[i].whole \in Seq(Int)
<1> DEFINE n == Len(lens)
           C == {c \in Cameras : c.frame_pos <= c.frame_len}
           X == [cam : C, pkt : Packets, whole : Seq(Int)]
           x0 == [cam |-> cam, pkt |-> <<>>, whole |-> <<>>]
           F == [i \in 1..n |-> [y \in X |-> Payload(y.cam, lens[i], ns[i])]]
           made == uvc_on_iso(lens, ns)
<1>1. n \in Nat /\ \A i \in 1..n : lens[i] \in Nat /\ ns[i] \in Nat
  OBVIOUS
<1>2. x0 \in X /\ x0.cam = cam
  <2>1. cam \in C /\ <<>> \in Packets /\ <<>> \in Seq(Int)
    BY DEF Packets
  <2> HIDE DEF C
  <2> QED BY <2>1
<1>3. ASSUME NEW c \in C, NEW req \in Nat, NEW k \in Nat PROVE Payload(c, req, k) \in X
  <2>1. c \in Cameras /\ c.frame_pos \in Nat /\ c.frame_index \in Nat /\ c.fid \in {0, 1} /\ c.frame_pos <= c.frame_len
    BY DEF Cameras
  <2> DEFINE data == [j \in 1..c.frame_pos |-> Pixel(c.frame_index, j)]
             v == [fid |-> c.fid, data |-> data, frames |-> c.frame_index]
  <2>2. data \in Seq(Int) /\ Len(data) = c.frame_pos /\ \A j \in 1..c.frame_pos : data[j] = Pixel(c.frame_index, j)
    <3>1. \A j \in 1..c.frame_pos : Pixel(c.frame_index, j) \in Int
      <4>1. PICK f, m : f = c.frame_index /\ m = c.frame_pos
        OBVIOUS
      <4>2. f \in Nat /\ m \in Nat
        BY <2>1, <4>1
      <4>3. \A j \in 1..m : j \in Nat
        BY <4>2
      <4>4. \A j \in 1..m : Pixel(f, j) \in Int
        BY <4>2, <4>3, PixelIsInt
      <4> QED BY <4>1, <4>4
    <3>2. data \in [1..c.frame_pos -> Int]
      BY <3>1
    <3>3. PICK l : l = c.frame_pos
      OBVIOUS
    <3>4. l \in Nat /\ data \in [1..l -> Int]
      BY <2>1, <3>2, <3>3
    <3> HIDE DEF data
    <3>5. data \in Seq(Int) /\ Len(data) = l
      BY <3>4, SeqDef, LenProperties
    <3> QED BY <3>3, <3>5 DEF data
  <2> HIDE DEF data
  <2>3. v \in Viewers /\ InFrame(c, v)
    BY <2>1, <2>2 DEF Viewers, InFrame
  <2> HIDE DEF v
  <2>4. PICK p : p = Payload(c, req, k)
    OBVIOUS
  <2>5. PICK t : t = Taken(v, p.pkt)
    OBVIOUS
  <2>6. p.cam \in Cameras /\ p.pkt \in Packets /\ p.whole \in Seq(Int) /\ InFrame(p.cam, t.view)
    BY <2>1, <2>3, <2>4, <2>5, PacketKeeps
  <2>7. p.cam \in C
    BY <2>6 DEF InFrame
  <2>8. p = [cam |-> p.cam, pkt |-> p.pkt, whole |-> p.whole]
    BY <2>4 DEF Payload
  <2> HIDE DEF C
  <2> QED BY <2>4, <2>6, <2>7, <2>8
<1>4. \A i \in 1..n : \A y \in X : F[i][y] = Payload(y.cam, lens[i], ns[i]) /\ F[i][y] \in X
  <2> SUFFICES ASSUME NEW i \in 1..n, NEW y \in X
               PROVE F[i][y] = Payload(y.cam, lens[i], ns[i]) /\ F[i][y] \in X
    OBVIOUS
  <2>1. F[i][y] = Payload(y.cam, lens[i], ns[i])
    OBVIOUS
  <2>2. y.cam \in C
    OBVIOUS
  <2> HIDE DEF C, F, X
  <2> QED BY <1>1, <1>3, <2>1, <2>2
<1> HIDE DEF C, F, X, x0
<1>5. PICK g : IsRun(n, X, x0, F, g)
  BY <1>1, <1>2, <1>4, RunsExist
<1>6. g \in [0..n -> X] /\ g[0] = x0 /\ \A i \in 1..n : g[i] = F[i][g[i - 1]]
  BY <1>5 DEF IsRun
<1>7. \A i \in 1..n : i - 1 \in 0..n /\ i \in 0..n /\ i # 0
  BY <1>1
<1>8. \A i \in 1..n : g[i] = Payload(g[i - 1].cam, lens[i], ns[i])
  <2> SUFFICES ASSUME NEW i \in 1..n PROVE g[i] = Payload(g[i - 1].cam, lens[i], ns[i])
    OBVIOUS
  <2>1. g[i - 1] \in X
    BY <1>6, <1>7
  <2> QED BY <1>4, <1>6, <2>1
<1>9. g = [i \in 0..n |-> IF i = 0 THEN x0 ELSE Payload(g[i - 1].cam, lens[i], ns[i])]
  <2>1. \A i \in 0..n : i = 0 \/ i \in 1..n
    BY <1>1
  <2>2. \A i \in 0..n : g[i] = IF i = 0 THEN x0 ELSE Payload(g[i - 1].cam, lens[i], ns[i])
    BY <1>6, <1>8, <2>1
  <2> QED BY <1>6, <2>2
<1> DEFINE run == CHOOSE e : e = [i \in 0..n |-> IF i = 0 THEN x0 ELSE Payload(e[i - 1].cam, lens[i], ns[i])]
<1>10. made = run
  BY DEF uvc_on_iso, x0
<1>11. run = [i \in 0..n |-> IF i = 0 THEN x0 ELSE Payload(run[i - 1].cam, lens[i], ns[i])]
  BY <1>9
<1> HIDE DEF run, made
<1>12. run[0] = x0 /\ \A i \in 1..n : run[i] = Payload(run[i - 1].cam, lens[i], ns[i])
  <2>1. 0 \in 0..n
    BY <1>1
  <2>2. run[0] = x0
    BY <1>11, <2>1
  <2>3. ASSUME NEW i \in 1..n PROVE run[i] = Payload(run[i - 1].cam, lens[i], ns[i])
    BY <1>7, <1>11
  <2> QED BY <2>2, <2>3
<1>13. \A i \in 0..n : run[i] \in X
  <2> DEFINE P == {i \in 0..n : run[i] \in X}
  <2>1. 0 \in P
    BY <1>1, <1>2, <1>12
  <2>2. ASSUME NEW i \in 1..n, i - 1 \in P PROVE i \in P
    <3>1. run[i - 1].cam \in C
      BY <2>2 DEF X
    <3> QED BY <1>1, <1>3, <1>7, <1>12, <3>1
  <2> HIDE DEF P
  <2>3. \A i \in 0..n : i \in P
    BY <1>1, <2>1, <2>2, UpTo
  <2> QED BY <2>3 DEF P
<1>14. \A i \in 0..n : run[i].cam \in Cameras /\ run[i].pkt \in Packets /\ run[i].whole \in Seq(Int)
  <2> SUFFICES ASSUME NEW i \in 0..n
               PROVE run[i].cam \in Cameras /\ run[i].pkt \in Packets /\ run[i].whole \in Seq(Int)
    OBVIOUS
  <2>1. PICK y : y = run[i]
    OBVIOUS
  <2>2. y \in X
    BY <1>13, <2>1
  <2>3. y.cam \in C /\ y.pkt \in Packets /\ y.whole \in Seq(Int)
    BY <2>2 DEF X
  <2> QED BY <2>1, <2>3 DEF C
<1> QED
  BY <1>2, <1>10, <1>12, <1>14 DEF made

\* What the host sees of them.
AfterPacket(y, p, m) ==
  [viewer |-> Taken(y.viewer, p).view,
   shown |-> IF Taken(y.viewer, p).complete
             THEN [n |-> Taken(y.viewer, p).view.frames, data |-> Taken(y.viewer, p).data, whole |-> m.whole]
             ELSE y.shown]

\* The host after each packet of a reply.
LEMMA SeenFacts ==
  ASSUME viewer \in Viewers, shown \in Shown, NEW n \in Nat, NEW pkts \in Seq(Packets), Len(pkts) = n,
         NEW made, \A i \in 1..n : made[i].whole \in Seq(Int)
  PROVE  /\ Viewed(pkts, made)[0].viewer = viewer /\ Viewed(pkts, made)[0].shown = shown
         /\ \A i \in 1..n : Viewed(pkts, made)[i] = AfterPacket(Viewed(pkts, made)[i - 1], pkts[i], made[i])
         /\ \A i \in 0..n : Viewed(pkts, made)[i].viewer \in Viewers /\ Viewed(pkts, made)[i].shown \in Shown
<1> DEFINE X == [viewer : Viewers, shown : Shown]
           x0 == [viewer |-> viewer, shown |-> shown]
           F == [i \in 1..n |-> [y \in X |-> AfterPacket(y, pkts[i], made[i])]]
<1>1. \A i \in 1..n : pkts[i] \in Packets
  OBVIOUS
<1>2. x0 \in X /\ x0.viewer = viewer /\ x0.shown = shown
  OBVIOUS
<1>3. ASSUME NEW y \in X, NEW i \in 1..n PROVE AfterPacket(y, pkts[i], made[i]) \in X
  <2>1. y.viewer \in Viewers /\ y.shown \in Shown /\ made[i].whole \in Seq(Int)
    OBVIOUS
  <2>2. PICK t : t = Taken(y.viewer, pkts[i])
    OBVIOUS
  <2>3. t.view \in Viewers /\ t.data \in Seq(Int)
    BY <1>1, <2>1, <2>2, TakenIs
  <2>4. [n |-> t.view.frames, data |-> t.data, whole |-> made[i].whole] \in Shown
    BY <2>1, <2>3 DEF Shown, Viewers
  <2>5. AfterPacket(y, pkts[i], made[i]) =
          [viewer |-> t.view,
           shown |-> IF t.complete THEN [n |-> t.view.frames, data |-> t.data, whole |-> made[i].whole] ELSE y.shown]
    BY <2>2 DEF AfterPacket
  <2> QED BY <2>1, <2>3, <2>4, <2>5
<1>4. \A i \in 1..n : \A y \in X : F[i][y] = AfterPacket(y, pkts[i], made[i]) /\ F[i][y] \in X
  <2> SUFFICES ASSUME NEW i \in 1..n, NEW y \in X
               PROVE F[i][y] = AfterPacket(y, pkts[i], made[i]) /\ F[i][y] \in X
    OBVIOUS
  <2>1. F[i][y] = AfterPacket(y, pkts[i], made[i])
    OBVIOUS
  <2> HIDE DEF F, X
  <2> QED BY <1>3, <2>1
<1> HIDE DEF F, X, x0
<1>5. PICK g : IsRun(n, X, x0, F, g)
  BY <1>2, <1>4, RunsExist
<1>6. g \in [0..n -> X] /\ g[0] = x0 /\ \A i \in 1..n : g[i] = F[i][g[i - 1]]
  BY <1>5 DEF IsRun
<1>7. \A i \in 1..n : i - 1 \in 0..n /\ i \in 0..n /\ i # 0
  OBVIOUS
<1>8. \A i \in 1..n : g[i] = AfterPacket(g[i - 1], pkts[i], made[i])
  <2> SUFFICES ASSUME NEW i \in 1..n PROVE g[i] = AfterPacket(g[i - 1], pkts[i], made[i])
    OBVIOUS
  <2>1. g[i - 1] \in X
    BY <1>6, <1>7
  <2> QED BY <1>4, <1>6, <2>1
<1>9. g = [i \in 0..n |-> IF i = 0 THEN x0 ELSE AfterPacket(g[i - 1], pkts[i], made[i])]
  <2>1. \A i \in 0..n : i = 0 \/ i \in 1..n
    OBVIOUS
  <2>2. \A i \in 0..n : g[i] = IF i = 0 THEN x0 ELSE AfterPacket(g[i - 1], pkts[i], made[i])
    BY <1>6, <1>8, <2>1
  <2> QED BY <1>6, <2>2
<1> DEFINE run == CHOOSE e : e = [i \in 0..n |-> IF i = 0 THEN x0 ELSE AfterPacket(e[i - 1], pkts[i], made[i])]
<1>10. Viewed(pkts, made) = run
  BY DEF Viewed, x0, AfterPacket
<1>11. run = [i \in 0..n |-> IF i = 0 THEN x0 ELSE AfterPacket(run[i - 1], pkts[i], made[i])]
  BY <1>9
<1> HIDE DEF run
<1>12. run[0] = x0 /\ \A i \in 1..n : run[i] = AfterPacket(run[i - 1], pkts[i], made[i])
  <2>1. 0 \in 0..n
    OBVIOUS
  <2>2. run[0] = x0
    BY <1>11, <2>1
  <2>3. ASSUME NEW i \in 1..n PROVE run[i] = AfterPacket(run[i - 1], pkts[i], made[i])
    BY <1>7, <1>11
  <2> QED BY <2>2, <2>3
<1>13. \A i \in 0..n : run[i] \in X
  <2> DEFINE P == {i \in 0..n : run[i] \in X}
  <2>1. 0 \in P
    BY <1>2, <1>12
  <2>2. ASSUME NEW i \in 1..n, i - 1 \in P PROVE i \in P
    BY <1>3, <1>7, <1>12, <2>2
  <2> HIDE DEF P
  <2>3. \A i \in 0..n : i \in P
    BY <2>1, <2>2, UpTo
  <2> QED BY <2>3 DEF P
<1>14. \A i \in 0..n : run[i].viewer \in Viewers /\ run[i].shown \in Shown
  <2> SUFFICES ASSUME NEW i \in 0..n PROVE run[i].viewer \in Viewers /\ run[i].shown \in Shown
    OBVIOUS
  <2>1. run[i] \in X
    BY <1>13
  <2> QED BY <2>1 DEF X
<1> QED
  BY <1>2, <1>10, <1>12, <1>14

\* A reply takes host and camera from one place to the next, packet by packet.
LEMMA ViewInv ==
  ASSUME UvcInv, NEW lens \in Seq(Nat), View(lens)
  PROVE  UvcInv'
<1> DEFINE n == Len(lens)
<1>1. n \in Nat /\ DOMAIN lens = 1..n /\ \A i \in 1..n : lens[i] \in Nat
  BY LenProperties
<1>2. PICK ns \in [1..n -> FrameLengths] :
        LET m == uvc_on_iso(lens, ns)
            sn == Viewed(Inbound(Slots(lens), [i \in 1..n |-> m[i].pkt]), m) IN
        cam' = m[n].cam /\ viewer' = sn[n].viewer /\ shown' = sn[n].shown
  BY <1>1 DEF View
<1>3. ns \in [1..n -> Nat] /\ \A i \in 1..n : ns[i] \in Nat
  <2>1. \A x \in FrameLengths : x \in Nat
    BY UvcAssumption
  <2>2. \A i \in 1..n : ns[i] \in Nat
    BY <2>1
  <2> QED BY <2>2
<1>4. PICK made : made = uvc_on_iso(lens, ns)
  OBVIOUS
<1>5. cam \in Cameras /\ cam.frame_pos <= cam.frame_len /\ viewer \in Viewers /\ shown \in Shown
  BY DEF UvcInv, InFrame
<1>6. /\ made[0].cam = cam
      /\ \A i \in 1..n : made[i] = Payload(made[i - 1].cam, lens[i], ns[i])
      /\ \A i \in 0..n : made[i].cam \in Cameras /\ made[i].pkt \in Packets /\ made[i].whole \in Seq(Int)
  BY <1>3, <1>4, <1>5, MadeFacts
<1> DEFINE pk == [i \in 1..n |-> made[i].pkt]
<1>7. pk \in Seq(Packets) /\ pk \in Seq(Seq(Int)) /\ Len(pk) = n /\ \A i \in 1..n : pk[i] = made[i].pkt
  <2>1. \A i \in 1..n : made[i].pkt \in Packets /\ made[i].pkt \in Seq(Int)
    <3>1. \A i \in 1..n : i \in 0..n
      BY <1>1
    <3> QED BY <1>6, <3>1 DEF Packets
  <2>2. pk \in [1..n -> Packets] /\ pk \in [1..n -> Seq(Int)]
    BY <2>1
  <2>3. PICK N : N = n
    OBVIOUS
  <2>4. N \in Nat /\ pk \in [1..N -> Packets] /\ pk \in [1..N -> Seq(Int)] /\ \A i \in 1..N : pk[i] = made[i].pkt
    BY <1>1, <2>2, <2>3
  <2> HIDE DEF pk
  <2>5. pk \in Seq(Packets)
    BY <2>4, SeqDef
  <2>6. pk \in Seq(Seq(Int))
    BY <2>4, SeqDef
  <2>7. Len(pk) = N
    BY <2>4, <2>5, LenProperties
  <2> QED BY <2>3, <2>4, <2>5, <2>6, <2>7
<1> HIDE DEF pk
<1>8. Inbound(Slots(lens), pk) = pk
  <2>1. DOMAIN Slots(lens) = 1..Len(pk)
    BY <1>1, <1>7 DEF Slots
  <2> QED BY <1>7, <2>1, InboundIs
<1>9. PICK seen : seen = Viewed(pk, made)
  OBVIOUS
<1>10. cam' = made[n].cam /\ viewer' = seen[n].viewer /\ shown' = seen[n].shown
  BY <1>2, <1>4, <1>8, <1>9 DEF pk
<1>11. \A i \in 1..n : made[i].whole \in Seq(Int)
  <2>1. \A i \in 1..n : i \in 0..n
    BY <1>1
  <2> QED BY <1>6, <2>1
<1>12. /\ seen[0].viewer = viewer /\ seen[0].shown = shown
       /\ \A i \in 1..n : seen[i] = AfterPacket(seen[i - 1], pk[i], made[i])
       /\ \A i \in 0..n : seen[i].viewer \in Viewers /\ seen[i].shown \in Shown
  BY <1>1, <1>5, <1>7, <1>9, <1>11, SeenFacts
<1> DEFINE At(i) == /\ InFrame(made[i].cam, seen[i].viewer) /\ IsFrame(seen[i].shown)
                    /\ made[i].cam.cur_format = cam.cur_format
           P == {i \in 0..n : At(i)}
<1>13. 0 \in P
  BY <1>1, <1>6, <1>12 DEF UvcInv
<1>14. ASSUME NEW i \in 1..n, i - 1 \in P PROVE i \in P
  <2>1. i - 1 \in 0..n /\ i \in 0..n
    BY <1>1
  <2>2. PICK c, v, p, t : /\ c = made[i - 1].cam /\ v = seen[i - 1].viewer
                          /\ p = Payload(c, lens[i], ns[i]) /\ t = Taken(v, p.pkt)
    OBVIOUS
  <2>3. c \in Cameras /\ v \in Viewers /\ InFrame(c, v) /\ c.cur_format = cam.cur_format
    BY <1>6, <1>12, <1>14, <2>1, <2>2
  <2>4. p = made[i]
    BY <1>6, <2>2
  <2>5. /\ p.cam.cur_format = c.cur_format /\ InFrame(p.cam, t.view)
        /\ t.complete => IsFrame([n |-> t.view.frames, data |-> t.data, whole |-> p.whole])
    <3>1. PICK req, k : req = lens[i] /\ k = ns[i]
      OBVIOUS
    <3>2. req \in Nat /\ k \in Nat
      BY <1>1, <1>3, <3>1
    <3>3. p = Payload(c, req, k) /\ t = Taken(v, p.pkt)
      BY <2>2, <3>1
    <3> HIDE DEF P, At
    <3> QED BY <2>3, <3>2, <3>3, PacketKeeps
  <2>6. seen[i] = [viewer |-> t.view,
                   shown |-> IF t.complete THEN [n |-> t.view.frames, data |-> t.data, whole |-> p.whole]
                             ELSE seen[i - 1].shown]
    <3>1. seen[i] = AfterPacket(seen[i - 1], p.pkt, p)
      BY <1>7, <1>12, <2>4
    <3> QED BY <2>2, <3>1 DEF AfterPacket
  <2>7. seen[i].viewer = t.view
        /\ seen[i].shown = IF t.complete THEN [n |-> t.view.frames, data |-> t.data, whole |-> p.whole]
                           ELSE seen[i - 1].shown
    BY <2>6
  <2>8. IsFrame(seen[i - 1].shown)
    BY <1>14
  <2>9. IsFrame(seen[i].shown)
    BY <2>5, <2>7, <2>8
  <2>10. At(i)
    BY <2>3, <2>4, <2>5, <2>7, <2>9
  <2> HIDE DEF At
  <2> QED BY <2>1, <2>10
<1> HIDE DEF P
<1>15. \A i \in 0..n : i \in P
  BY <1>1, <1>13, <1>14, UpTo
<1>16. n \in 0..n
  BY <1>1
<1>17. At(n)
  BY <1>15, <1>16 DEF P
<1>18. asked' = asked
  BY DEF View
<1>19. cam' \in Cameras /\ viewer' \in Viewers /\ shown' \in Shown
  BY <1>6, <1>10, <1>12, <1>16
<1>20. InFrame(cam', viewer') /\ IsFrame(shown') /\ cam'.cur_format = cam.cur_format
  BY <1>10, <1>17
<1> QED
  BY <1>18, <1>19, <1>20 DEF UvcInv

LEMMA UvcNextInv == UvcInv /\ [UvcNext]_uvcvars => UvcInv'
<1> SUFFICES ASSUME UvcInv, [UvcNext]_uvcvars PROVE UvcInv'
  OBVIOUS
<1> DEFINE fresh == [fid |-> 0, data |-> <<>>, frames |-> 0]
<1>1. ASSUME NEW f \in Formats, SetCur(f) PROVE UvcInv'
  <2>1. viewer' = viewer /\ shown' = shown
    BY <1>1 DEF SetCur
  <2>2. PICK g : g = (IF f = 0 THEN cam.cur_format ELSE f)
    OBVIOUS
  <2>3. cam' = [cam EXCEPT !.cur_format = g] /\ asked' = g
    BY <1>1, <2>2 DEF SetCur, UvcInv
  <2>4. cam \in Cameras /\ g \in Formats \cup {1}
    BY <2>2 DEF UvcInv, Cameras
  <2>5. cam' \in Cameras /\ cam'.cur_format = g
    BY <2>3, <2>4 DEF Cameras
  <2>6. cam'.streaming = cam.streaming /\ cam'.frame_pos = cam.frame_pos /\ cam'.frame_len = cam.frame_len
        /\ cam'.frame_index = cam.frame_index /\ cam'.fid = cam.fid
    BY <2>3, <2>4 DEF Cameras
  <2>7. InFrame(cam', viewer')
    BY <2>1, <2>6 DEF UvcInv, InFrame
  <2> QED BY <2>1, <2>3, <2>5, <2>7 DEF UvcInv
<1>2. ASSUME NEW c \in Cameras, cam' = Restarted(c), c.cur_format = cam.cur_format,
             viewer' = fresh, shown' = Nothing, asked' = asked
      PROVE UvcInv'
  <2>1. cam' = [c EXCEPT !.streaming = TRUE, !.frame_len = 0, !.frame_pos = 0, !.fid = 0, !.frame_index = 0]
    BY <1>2 DEF Restarted
  <2>2. cam' \in Cameras
    BY <2>1 DEF Cameras
  <2>3. cam'.frame_pos = 0 /\ cam'.frame_len = 0 /\ cam'.frame_index = 0 /\ cam'.fid = 0
        /\ cam'.cur_format = c.cur_format
    BY <2>1 DEF Cameras
  <2>4. InFrame(cam', viewer') /\ viewer' \in Viewers /\ Nothing \in Shown /\ IsFrame(Nothing)
    BY <1>2, <2>2, <2>3, StartsInFrame
  <2> QED BY <1>2, <2>2, <2>3, <2>4 DEF UvcInv
<1>3. ASSUME NEW alt \in 0..1, Stream(alt) PROVE UvcInv'
  <2>1. CASE alt = 1 /\ ~cam.streaming
    <3>1. cam' = Restarted(cam) /\ viewer' = fresh /\ shown' = Nothing /\ asked' = asked
      BY <1>3, <2>1 DEF Stream, uvc_set_alt
    <3> QED BY <1>2, <3>1 DEF UvcInv
  <2>2. CASE ~(alt = 1 /\ ~cam.streaming)
    <3>1. viewer' = viewer /\ shown' = shown /\ asked' = asked
      BY <1>3, <2>2 DEF Stream
    <3>2. cam' = [cam EXCEPT !.streaming = FALSE] \/ cam' = cam
      BY <1>3, <2>2 DEF Stream, uvc_set_alt
    <3>3. CASE cam' = [cam EXCEPT !.streaming = FALSE]
      <4>1. cam \in Cameras
        BY DEF UvcInv
      <4>2. cam' \in Cameras /\ cam'.streaming = FALSE /\ cam'.frame_pos = cam.frame_pos
            /\ cam'.frame_len = cam.frame_len /\ cam'.cur_format = cam.cur_format
        BY <3>3, <4>1 DEF Cameras
      <4> QED BY <3>1, <4>2 DEF UvcInv, InFrame
    <3>4. CASE cam' = cam
      BY <3>1, <3>4 DEF UvcInv
    <3> QED BY <3>2, <3>3, <3>4
  <2> QED BY <2>1, <2>2
<1>4. ASSUME Rebind PROVE UvcInv'
  <2>1. PICK c : c = [cam EXCEPT !.streaming = FALSE]
    OBVIOUS
  <2>2. c \in Cameras /\ c.cur_format = cam.cur_format
    BY <2>1 DEF UvcInv, Cameras
  <2>3. cam' = Restarted(c) /\ viewer' = fresh /\ shown' = Nothing /\ asked' = asked
    BY <1>4, <2>1 DEF Rebind
  <2> QED BY <1>2, <2>2, <2>3
<1>5. ASSUME NEW lens \in PacketLengths(Requests, UrbPackets), View(lens) PROVE UvcInv'
  <2>1. lens \in Seq(Nat)
    BY UvcAssumption, PacketLengthsAre
  <2> QED BY <1>5, <2>1, ViewInv
<1>6. CASE UNCHANGED uvcvars
  BY <1>6 DEF uvcvars, UvcInv
<1> QED
  BY <1>1, <1>3, <1>4, <1>5, <1>6 DEF UvcNext

LEMMA UvcInitInv == UvcInit => UvcInv
<1> SUFFICES ASSUME UvcInit PROVE UvcInv
  OBVIOUS
<1>1. cam \in Cameras /\ cam.frame_pos = 0 /\ cam.frame_len = 0 /\ cam.frame_index = 0 /\ cam.fid = 0
      /\ cam.cur_format = 1
  BY DEF UvcInit, Cameras
<1>2. viewer = [fid |-> 0, data |-> <<>>, frames |-> 0] /\ shown = Nothing /\ asked = 1
  BY DEF UvcInit
<1>3. InFrame(cam, viewer) /\ viewer \in Viewers /\ Nothing \in Shown /\ IsFrame(Nothing)
  BY <1>1, <1>2, StartsInFrame
<1> QED
  BY <1>1, <1>2, <1>3 DEF UvcInv

\* Video: every frame a host completes is the frame that was produced, whole and in its turn,
\* for frames and packets of any lengths, whenever streaming is stopped and started again.
THEOREM VideoIsWholeHolds == UvcSpec => []VideoIsWhole
<1>1. UvcInv => VideoIsWhole
  BY DEF UvcInv, VideoIsWhole, InFrame, IsFrame
<1> QED
  BY <1>1, UvcInitInv, UvcNextInv, PTL DEF UvcSpec
-----------------------------------------------------------------------------
(* MTP                                                                     *)

LEMMA PathParts ==
  ASSUME NEW p \in MtpPath
  PROVE  p \in Seq(Nat) /\ Len(p) \in Nat /\ Len(p) >= 1 /\ \A i \in 1..Len(p) : p[i] \in Nat
<1>1. p \in Seq(Nat) /\ p # <<>>
  BY DEF MtpPath
<1>2. Len(p) \in Nat /\ \A i \in 1..Len(p) : p[i] \in Nat
  BY <1>1
<1>3. Len(p) # 0
  BY <1>1, EmptySeq
<1> QED BY <1>1, <1>2, <1>3

\* A path of more than one name.
LEMMA Longer ==
  ASSUME NEW p \in MtpPath, Len(p) # 1
  PROVE  Len(p) > 1
<1>1. PICK x : x = Len(p)
  OBVIOUS
<1>2. x \in Nat /\ x >= 1
  BY <1>1, PathParts
<1> QED BY <1>1, <1>2

LEMMA PathsEqual ==
  ASSUME NEW p \in MtpPath, NEW q \in MtpPath, Len(p) = Len(q), \A i \in 1..Len(p) : p[i] = q[i]
  PROVE  p = q
BY PathParts, SeqEqual

\* The first names of a path.
LEMMA HeadIs ==
  ASSUME NEW p \in MtpPath, NEW k \in 1..Len(p)
  PROVE  /\ SubSeq(p, 1, k) \in MtpPath /\ Len(SubSeq(p, 1, k)) = k
         /\ \A i \in 1..k : SubSeq(p, 1, k)[i] = p[i]
<1>1. p \in Seq(Nat) /\ Len(p) \in Nat /\ (\A i \in 1..Len(p) : p[i] \in Nat)
  BY PathParts
<1>2. k \in Nat /\ k >= 1 /\ k <= Len(p) /\ 1 \in Int /\ k \in Int /\ \A i \in 1..k : p[i] \in Nat
  BY <1>1
<1>3. /\ SubSeq(p, 1, k) \in Seq(Nat) /\ Len(SubSeq(p, 1, k)) = (IF 1 <= k THEN k - 1 + 1 ELSE 0)
      /\ \A i \in 1..(k - 1 + 1) : SubSeq(p, 1, k)[i] = p[1 + i - 1]
  BY <1>2, SubSeqProperties
<1> DEFINE s == SubSeq(p, 1, k)
<1> HIDE DEF s
<1>4. s \in Seq(Nat) /\ Len(s) = k
  BY <1>2, <1>3 DEF s
<1>5. ASSUME NEW i \in 1..k PROVE s[i] = p[i]
  <2>1. i \in 1..(k - 1 + 1) /\ 1 + i - 1 = i
    BY <1>2
  <2> QED BY <1>3, <2>1 DEF s
<1>6. s # <<>>
  BY <1>2, <1>4, EmptySeq
<1> QED BY <1>4, <1>5, <1>6 DEF MtpPath, s

LEMMA FrontIs ==
  ASSUME NEW p \in MtpPath, Len(p) > 1
  PROVE  /\ Front(p) \in MtpPath /\ Len(Front(p)) = Len(p) - 1 /\ Front(p) = SubSeq(p, 1, Len(p) - 1)
         /\ \A i \in 1..(Len(p) - 1) : Front(p)[i] = p[i]
<1>1. Len(p) - 1 \in 1..Len(p)
  BY PathParts
<1>2. Front(p) = SubSeq(p, 1, Len(p) - 1)
  BY DEF Front
<1> QED BY <1>1, <1>2, HeadIs

LEMMA InsideIs ==
  ASSUME NEW p \in MtpPath, NEW q \in MtpPath
  PROVE  /\ Inside(p, q) <=> Len(q) <= Len(p) /\ \A i \in 1..Len(q) : p[i] = q[i]
         /\ Inside(p, q) <=> Len(q) <= Len(p) /\ q = SubSeq(p, 1, Len(q))
<1>1. Inside(p, q) <=> Len(q) <= Len(p) /\ SubSeq(q, 1, Len(q)) = SubSeq(p, 1, Len(q))
  BY DEF Inside, IsPrefix
<1>2. q \in Seq(Nat) /\ Len(q) \in Nat /\ Len(p) \in Nat /\ Len(q) >= 1 /\ Len(q) \in 1..Len(q)
  BY PathParts
<1>3. SubSeq(q, 1, Len(q)) = q
  <2>1. /\ SubSeq(q, 1, Len(q)) \in MtpPath /\ Len(SubSeq(q, 1, Len(q))) = Len(q)
        /\ \A i \in 1..Len(q) : SubSeq(q, 1, Len(q))[i] = q[i]
    BY <1>2, HeadIs
  <2> QED BY <2>1, PathsEqual
<1>4. ASSUME Len(q) <= Len(p)
      PROVE  q = SubSeq(p, 1, Len(q)) <=> \A i \in 1..Len(q) : p[i] = q[i]
  <2>1. Len(q) \in 1..Len(p)
    BY <1>2, <1>4
  <2> DEFINE s == SubSeq(p, 1, Len(q))
  <2>2. s \in MtpPath /\ Len(s) = Len(q) /\ \A i \in 1..Len(q) : s[i] = p[i]
    BY <2>1, HeadIs
  <2> HIDE DEF s
  <2>3. q = s <=> \A i \in 1..Len(q) : p[i] = q[i]
    <3>1. ASSUME \A i \in 1..Len(q) : p[i] = q[i] PROVE q = s
      <4>1. \A i \in 1..Len(q) : q[i] = s[i]
        BY <2>2, <3>1
      <4> QED BY <2>2, <4>1, PathsEqual
    <3> QED BY <2>2, <3>1
  <2> QED BY <2>3 DEF s
<1> QED BY <1>1, <1>3, <1>4

LEMMA RebasedIs ==
  ASSUME NEW q \in MtpPath, NEW old \in MtpPath, NEW new \in MtpPath, Len(old) <= Len(q)
  PROVE  /\ Rebased(q, old, new) \in MtpPath
         /\ Len(Rebased(q, old, new)) = Len(new) + (Len(q) - Len(old))
         /\ \A i \in 1..Len(new) : Rebased(q, old, new)[i] = new[i]
         /\ \A i \in 1..(Len(q) - Len(old)) : Rebased(q, old, new)[Len(new) + i] = q[Len(old) + i]
<1> DEFINE r == Rebased(q, old, new)
           t == SubSeq(q, Len(old) + 1, Len(q))
<1>1. PICK a, b, c : a = Len(q) /\ b = Len(old) /\ c = Len(new)
  OBVIOUS
<1>2. a \in Nat /\ b \in Nat /\ c \in Nat /\ b <= a /\ c >= 1 /\ new \in Seq(Nat) /\ \A i \in 1..a : q[i] \in Nat
  BY <1>1, PathParts
<1>3. b + 1 \in Int /\ a \in Int /\ (\A i \in (b + 1)..a : q[i] \in Nat)
  BY <1>2
<1>4. /\ SubSeq(q, b + 1, a) \in Seq(Nat)
      /\ Len(SubSeq(q, b + 1, a)) = (IF b + 1 <= a THEN a - (b + 1) + 1 ELSE 0)
      /\ \A i \in 1..(a - (b + 1) + 1) : SubSeq(q, b + 1, a)[i] = q[b + 1 + i - 1]
  BY <1>3, SubSeqProperties
<1>5. t = SubSeq(q, b + 1, a)
  BY <1>1
<1> HIDE DEF t
<1>6. t \in Seq(Nat) /\ Len(t) = a - b /\ \A i \in 1..(a - b) : t[i] = q[b + i]
  <2>1. Len(t) = a - b
    BY <1>2, <1>4, <1>5
  <2>2. ASSUME NEW i \in 1..(a - b) PROVE t[i] = q[b + i]
    <3>1. i \in 1..(a - (b + 1) + 1) /\ b + 1 + i - 1 = b + i
      BY <1>2
    <3> QED BY <1>4, <1>5, <3>1
  <2> QED BY <1>4, <1>5, <2>1, <2>2
<1>7. /\ r \in Seq(Nat) /\ Len(r) = c + (a - b)
      /\ \A i \in 1..(c + (a - b)) : r[i] = IF i <= c THEN new[i] ELSE t[i - c]
  <2>1. r = new \o t
    BY DEF r, t, Rebased
  <2>2. /\ new \o t \in Seq(Nat) /\ Len(new \o t) = Len(new) + Len(t)
        /\ \A i \in 1..(Len(new) + Len(t)) : (new \o t)[i] = IF i <= Len(new) THEN new[i] ELSE t[i - Len(new)]
    BY <1>2, <1>6, ConcatProperties
  <2> HIDE DEF r
  <2> QED BY <1>1, <1>6, <2>1, <2>2
<1> HIDE DEF r
<1>8. \A i \in 1..c : r[i] = new[i]
  <2> TAKE i \in 1..c
  <2>1. i \in 1..(c + (a - b)) /\ i <= c
    BY <1>2
  <2> QED BY <1>7, <2>1
<1>9. \A i \in 1..(a - b) : r[c + i] = q[b + i]
  <2> TAKE i \in 1..(a - b)
  <2>1. c + i \in 1..(c + (a - b)) /\ ~(c + i <= c) /\ (c + i) - c = i
    BY <1>2
  <2> QED BY <1>6, <1>7, <2>1
<1>10. r # <<>>
  <2>1. c + (a - b) # 0
    BY <1>2
  <2> QED BY <1>7, <2>1, EmptySeq
<1>11. /\ r \in MtpPath /\ Len(r) = Len(new) + (Len(q) - Len(old))
       /\ \A i \in 1..Len(new) : r[i] = new[i]
       /\ \A i \in 1..(Len(q) - Len(old)) : r[Len(new) + i] = q[Len(old) + i]
  BY <1>1, <1>7, <1>8, <1>9, <1>10 DEF MtpPath
<1> QED BY <1>11 DEF r

\* What holds of an entry's directory, and of the entries below a directory.
LEMMA InsideFront ==
  ASSUME NEW q \in MtpPath, NEW p \in MtpPath, Len(q) > 1
  PROVE  /\ Inside(q, p) <=> q = p \/ Inside(Front(q), p)
         /\ Inside(Front(q), p) => Len(p) < Len(q)
<1> DEFINE f == Front(q)
<1>1. f \in MtpPath /\ Len(f) = Len(q) - 1 /\ \A i \in 1..(Len(q) - 1) : f[i] = q[i]
  BY FrontIs
<1> HIDE DEF f
<1>2. PICK a, b : a = Len(q) /\ b = Len(p)
  OBVIOUS
<1>3. a \in Nat /\ b \in Nat /\ a > 1 /\ b >= 1
  BY <1>2, PathParts
<1>4. Inside(q, p) <=> b <= a /\ \A i \in 1..b : q[i] = p[i]
  BY <1>2, InsideIs
<1>5. Inside(f, p) <=> b <= a - 1 /\ \A i \in 1..b : f[i] = p[i]
  BY <1>1, <1>2, InsideIs
<1>6. ASSUME Inside(f, p) PROVE Inside(q, p) /\ b < a
  <2>1. b <= a - 1 /\ \A i \in 1..b : f[i] = p[i]
    BY <1>5, <1>6
  <2>2. \A i \in 1..b : q[i] = p[i]
    <3> TAKE i \in 1..b
    <3>1. i \in 1..(a - 1)
      BY <1>3, <2>1
    <3> QED BY <1>1, <1>2, <2>1, <3>1
  <2> QED BY <1>3, <1>4, <2>1, <2>2
<1>7. ASSUME q = p PROVE Inside(q, p)
  <2>1. a = b /\ \A i \in 1..b : q[i] = p[i]
    BY <1>2, <1>7
  <2> QED BY <1>3, <1>4, <2>1
<1>8. ASSUME Inside(q, p), q # p PROVE Inside(f, p)
  <2>1. b <= a /\ \A i \in 1..b : q[i] = p[i]
    BY <1>4, <1>8
  <2>2. b # a
    <3> SUFFICES ASSUME a = b PROVE FALSE
      OBVIOUS
    <3>1. Len(q) = Len(p) /\ \A i \in 1..Len(q) : q[i] = p[i]
      BY <1>2, <2>1
    <3> QED BY <1>8, <3>1, PathsEqual
  <2>3. b <= a - 1
    BY <1>3, <2>1, <2>2
  <2>4. \A i \in 1..b : f[i] = p[i]
    <3> TAKE i \in 1..b
    <3>1. i \in 1..(a - 1)
      BY <1>3, <2>3
    <3> QED BY <1>1, <1>2, <2>1, <3>1
  <2> QED BY <1>5, <2>3, <2>4
<1>9. /\ Inside(q, p) <=> q = p \/ Inside(f, p)
      /\ Inside(f, p) => Len(p) < Len(q)
  BY <1>2, <1>6, <1>7, <1>8
<1> QED BY <1>9 DEF f

\* An entry is inside itself; an entry inside another is longer, unless it is that one.
LEMMA InsideItself ==
  ASSUME NEW p \in MtpPath
  PROVE  Inside(p, p)
<1>1. Len(p) <= Len(p) /\ \A i \in 1..Len(p) : p[i] = p[i]
  BY PathParts
<1> QED BY <1>1, InsideIs

LEMMA StrictlyInside ==
  ASSUME NEW q \in MtpPath, NEW p \in MtpPath, Inside(q, p), q # p
  PROVE  Len(q) > Len(p) /\ Len(q) > 1 /\ Front(q) \in MtpPath /\ Inside(Front(q), p)
<1>1. Len(p) <= Len(q) /\ \A i \in 1..Len(p) : q[i] = p[i]
  BY InsideIs
<1>2. Len(q) # Len(p)
  <2> SUFFICES ASSUME Len(q) = Len(p) PROVE FALSE
    OBVIOUS
  <2>1. \A i \in 1..Len(q) : q[i] = p[i]
    BY <1>1
  <2> QED BY <2>1, PathsEqual
<1>3. Len(q) > Len(p) /\ Len(q) > 1
  BY <1>1, <1>2, PathParts
<1>4. Front(q) \in MtpPath
  BY <1>3, FrontIs
<1> QED BY <1>3, <1>4, InsideFront

LEMMA InsideBoth ==
  ASSUME NEW q \in MtpPath, NEW a \in MtpPath, NEW b \in MtpPath, Inside(q, a), Inside(q, b)
  PROVE  Inside(a, b) \/ Inside(b, a)
<1>1. /\ \A i \in 1..Len(a) : q[i] = a[i]
      /\ \A i \in 1..Len(b) : q[i] = b[i]
  BY InsideIs
<1>2. Len(a) \in Nat /\ Len(b) \in Nat
  BY PathParts
<1>3. CASE Len(b) <= Len(a)
  <2>1. \A i \in 1..Len(b) : i \in 1..Len(a)
    BY <1>2, <1>3
  <2>2. \A i \in 1..Len(b) : a[i] = b[i]
    BY <1>1, <2>1
  <2> QED BY <1>3, <2>2, InsideIs
<1>4. CASE ~(Len(b) <= Len(a))
  <2>1. Len(a) <= Len(b) /\ \A i \in 1..Len(a) : i \in 1..Len(b)
    BY <1>2, <1>4
  <2>2. \A i \in 1..Len(a) : b[i] = a[i]
    BY <1>1, <2>1
  <2> QED BY <2>1, <2>2, InsideIs
<1> QED BY <1>3, <1>4

LEMMA InsideTransitive ==
  ASSUME NEW q \in MtpPath, NEW a \in MtpPath, NEW b \in MtpPath, Inside(q, a), Inside(a, b)
  PROVE  Inside(q, b)
<1>1. Len(a) <= Len(q) /\ Len(b) <= Len(a) /\ (\A i \in 1..Len(a) : q[i] = a[i]) /\ (\A i \in 1..Len(b) : a[i] = b[i])
  BY InsideIs
<1>2. Len(a) \in Nat /\ Len(b) \in Nat /\ Len(q) \in Nat
  BY PathParts
<1>3. Len(b) <= Len(q) /\ \A i \in 1..Len(b) : i \in 1..Len(a)
  BY <1>1, <1>2
<1>4. \A i \in 1..Len(b) : q[i] = b[i]
  BY <1>1, <1>3
<1> QED BY <1>3, <1>4, InsideIs

LEMMA InsideEqual ==
  ASSUME NEW a \in MtpPath, NEW b \in MtpPath, Inside(a, b), Inside(b, a)
  PROVE  a = b
<1>1. Len(a) = Len(b) /\ \A i \in 1..Len(a) : a[i] = b[i]
  <2>1. Len(a) <= Len(b) /\ Len(b) <= Len(a) /\ \A i \in 1..Len(a) : b[i] = a[i]
    BY InsideIs
  <2> QED BY <2>1, PathParts
<1> QED BY <1>1, PathsEqual

\* Where an entry goes when the directory it is in becomes another, and back.
LEMMA RebasedBack ==
  ASSUME NEW q \in MtpPath, NEW old \in MtpPath, NEW new \in MtpPath, Inside(q, old),
         NEW r, r = Rebased(q, old, new)
  PROVE  r \in MtpPath /\ Inside(r, new) /\ Rebased(r, new, old) = q
<1>1. Len(old) <= Len(q) /\ \A i \in 1..Len(old) : q[i] = old[i]
  BY InsideIs
<1>2. PICK a, b, c : a = Len(q) /\ b = Len(old) /\ c = Len(new)
  OBVIOUS
<1>3. a \in Nat /\ b \in Nat /\ c \in Nat /\ b <= a
  BY <1>1, <1>2, PathParts
<1>4. /\ r \in MtpPath /\ Len(r) = c + (a - b)
      /\ \A i \in 1..c : r[i] = new[i]
      /\ \A i \in 1..(a - b) : r[c + i] = q[b + i]
  <2>1. /\ Rebased(q, old, new) \in MtpPath
        /\ Len(Rebased(q, old, new)) = Len(new) + (Len(q) - Len(old))
        /\ \A i \in 1..Len(new) : Rebased(q, old, new)[i] = new[i]
        /\ \A i \in 1..(Len(q) - Len(old)) : Rebased(q, old, new)[Len(new) + i] = q[Len(old) + i]
    BY <1>1, RebasedIs
  <2> QED BY <1>2, <2>1
<1>5. c <= c + (a - b) /\ (c + (a - b)) - c = a - b /\ b + (a - b) = a
  BY <1>3
<1>6. Inside(r, new)
  BY <1>2, <1>4, <1>5, InsideIs
<1> DEFINE s == Rebased(r, new, old)
<1>7. /\ s \in MtpPath /\ Len(s) = b + (a - b)
      /\ \A i \in 1..b : s[i] = old[i]
      /\ \A i \in 1..(a - b) : s[b + i] = r[c + i]
  <2>1. Len(new) <= Len(r)
    BY <1>2, <1>4, <1>5
  <2>2. /\ Rebased(r, new, old) \in MtpPath
        /\ Len(Rebased(r, new, old)) = Len(old) + (Len(r) - Len(new))
        /\ \A i \in 1..Len(old) : Rebased(r, new, old)[i] = old[i]
        /\ \A i \in 1..(Len(r) - Len(new)) : Rebased(r, new, old)[Len(old) + i] = r[Len(new) + i]
    <3>1. PICK w \in MtpPath : w = r
      BY <1>4
    <3>2. Len(new) <= Len(w)
      BY <2>1, <3>1
    <3>3. /\ Rebased(w, new, old) \in MtpPath
          /\ Len(Rebased(w, new, old)) = Len(old) + (Len(w) - Len(new))
          /\ \A i \in 1..Len(old) : Rebased(w, new, old)[i] = old[i]
          /\ \A i \in 1..(Len(w) - Len(new)) : Rebased(w, new, old)[Len(old) + i] = w[Len(new) + i]
      BY <3>2, RebasedIs
    <3> QED BY <3>1, <3>3
  <2> QED BY <1>2, <1>4, <1>5, <2>2
<1> HIDE DEF s
<1>8. s = q
  <2>1. ASSUME NEW i \in 1..a PROVE s[i] = q[i]
    <3>1. CASE i <= b
      <4>1. i \in 1..b
        BY <1>3, <3>1
      <4> QED BY <1>1, <1>2, <1>7, <4>1
    <3>2. CASE ~(i <= b)
      <4>1. i - b \in 1..(a - b) /\ b + (i - b) = i
        BY <1>3, <3>2
      <4>2. s[b + (i - b)] = q[b + (i - b)]
        BY <1>4, <1>7, <4>1
      <4> QED BY <4>1, <4>2
    <3> QED BY <3>1, <3>2
  <2>2. Len(s) = Len(q)
    BY <1>2, <1>5, <1>7
  <2> QED BY <1>2, <1>5, <1>7, <2>1, <2>2, PathsEqual
<1> QED BY <1>4, <1>6, <1>8 DEF s

LEMMA RebasedFront ==
  ASSUME NEW q \in MtpPath, NEW old \in MtpPath, NEW new \in MtpPath, Inside(q, old), q # old,
         NEW r, r = Rebased(q, old, new)
  PROVE  Len(r) > 1 /\ Front(r) = Rebased(Front(q), old, new)
<1>1. Len(q) > Len(old) /\ Len(q) > 1 /\ Front(q) \in MtpPath /\ Inside(Front(q), old)
  BY StrictlyInside
<1>2. PICK a, b, c : a = Len(q) /\ b = Len(old) /\ c = Len(new)
  OBVIOUS
<1>3. a \in Nat /\ b \in Nat /\ c \in Nat /\ b < a /\ a > 1 /\ c >= 1 /\ b >= 1
  BY <1>1, <1>2, PathParts
<1>4. /\ r \in MtpPath /\ Len(r) = c + (a - b)
      /\ \A i \in 1..c : r[i] = new[i]
      /\ \A i \in 1..(a - b) : r[c + i] = q[b + i]
  <2>1. /\ Rebased(q, old, new) \in MtpPath
        /\ Len(Rebased(q, old, new)) = Len(new) + (Len(q) - Len(old))
        /\ \A i \in 1..Len(new) : Rebased(q, old, new)[i] = new[i]
        /\ \A i \in 1..(Len(q) - Len(old)) : Rebased(q, old, new)[Len(new) + i] = q[Len(old) + i]
    <3>1. Len(old) <= Len(q)
      BY <1>2, <1>3
    <3> QED BY <3>1, RebasedIs
  <2> QED BY <1>2, <2>1
<1>5. Len(r) > 1 /\ Len(r) - 1 = c + (a - 1 - b)
  BY <1>3, <1>4
<1> DEFINE f == Front(q)
           g == Front(r)
           s == Rebased(f, old, new)
<1>6. f \in MtpPath /\ Len(f) = a - 1 /\ \A i \in 1..(a - 1) : f[i] = q[i]
  BY <1>1, <1>2, FrontIs
<1>7. g \in MtpPath /\ Len(g) = c + (a - 1 - b) /\ \A i \in 1..(c + (a - 1 - b)) : g[i] = r[i]
  BY <1>4, <1>5, FrontIs
<1> HIDE DEF f, g
<1>8. /\ s \in MtpPath /\ Len(s) = c + (a - 1 - b)
      /\ \A i \in 1..c : s[i] = new[i]
      /\ \A i \in 1..(a - 1 - b) : s[c + i] = f[b + i]
  <2>1. Len(old) <= Len(f)
    BY <1>2, <1>3, <1>6
  <2>2. /\ Rebased(f, old, new) \in MtpPath
        /\ Len(Rebased(f, old, new)) = Len(new) + (Len(f) - Len(old))
        /\ \A i \in 1..Len(new) : Rebased(f, old, new)[i] = new[i]
        /\ \A i \in 1..(Len(f) - Len(old)) : Rebased(f, old, new)[Len(new) + i] = f[Len(old) + i]
    BY <1>6, <2>1, RebasedIs
  <2> QED BY <1>2, <1>6, <2>2
<1> HIDE DEF s
<1>9. g = s
  <2>1. ASSUME NEW i \in 1..(c + (a - 1 - b)) PROVE g[i] = s[i]
    <3>1. CASE i <= c
      <4>1. i \in 1..c
        BY <1>3, <3>1
      <4> QED BY <1>4, <1>7, <1>8, <4>1
    <3>2. CASE ~(i <= c)
      <4>1. /\ i - c \in 1..(a - 1 - b) /\ i - c \in 1..(a - b) /\ c + (i - c) = i
            /\ b + (i - c) \in 1..(a - 1)
        BY <1>3, <3>2
      <4>2. s[c + (i - c)] = f[b + (i - c)] /\ r[c + (i - c)] = q[b + (i - c)] /\ f[b + (i - c)] = q[b + (i - c)]
        BY <1>4, <1>6, <1>8, <4>1
      <4> QED BY <1>7, <4>1, <4>2
    <3> QED BY <3>1, <3>2
  <2> QED BY <1>7, <1>8, <2>1, PathsEqual
<1> QED BY <1>5, <1>9 DEF f, g, s

LEMMA RebasedTop ==
  ASSUME NEW old \in MtpPath, NEW new \in MtpPath
  PROVE  Rebased(old, old, new) = new
<1> DEFINE r == Rebased(old, old, new)
<1>1. Len(old) \in Nat /\ Len(new) \in Nat
  BY PathParts
<1>2. r \in MtpPath /\ Len(r) = Len(new) + (Len(old) - Len(old)) /\ \A i \in 1..Len(new) : r[i] = new[i]
  <2>1. Len(old) <= Len(old)
    BY <1>1
  <2> QED BY <2>1, RebasedIs
<1> HIDE DEF r
<1>3. Len(r) = Len(new)
  BY <1>1, <1>2
<1>4. r = new
  BY <1>2, <1>3, PathsEqual
<1> QED BY <1>4 DEF r

-----------------------------------------------------------------------------
(* The stores.                                                             *)

Contents == {"none", "dir"} \cup Bodies

\* What exists is in a directory.
Nested(r, s) == \A p \in Paths[s] : r[p] # "none" /\ Len(p) > 1 => r[Front(p)] = "dir"

StoreHolds(r, s) == r \in [Paths[s] -> Contents] /\ Nested(r, s)

StoresHold(n) ==
  /\ DOMAIN n = Stores /\ n = [s \in Stores |-> n[s]]
  /\ \A s \in Stores : StoreHolds(n[s], s)

LEMMA ListingIs ==
  /\ Len(Listing) \in Nat /\ \A i \in 1..Len(Listing) : Listing[i] \in [si : Stores, path : MtpPath]
  /\ \A e : e \in ToSet(Listing) <=> \E i \in 1..Len(Listing) : Listing[i] = e
  /\ \A s \in Stores, p \in MtpPath : p \in Paths[s] <=> [si |-> s, path |-> p] \in ToSet(Listing)
<1>1. Listing \in Seq([si : Stores, path : MtpPath])
  BY MtpAssumption
<1>2. /\ Len(Listing) \in Nat /\ DOMAIN Listing = 1..Len(Listing)
      /\ \A i \in 1..Len(Listing) : Listing[i] \in [si : Stores, path : MtpPath]
  <2> DEFINE X == [si : Stores, path : MtpPath]
  <2>1. Listing \in Seq(X)
    BY <1>1
  <2> HIDE DEF X
  <2>2. Len(Listing) \in Nat /\ DOMAIN Listing = 1..Len(Listing) /\ \A i \in 1..Len(Listing) : Listing[i] \in X
    BY <2>1
  <2> QED BY <2>2 DEF X
<1>3. \A e : e \in ToSet(Listing) <=> \E i \in 1..Len(Listing) : Listing[i] = e
  BY <1>2 DEF ToSet
<1>4. ASSUME NEW s \in Stores, NEW p \in MtpPath
      PROVE  p \in Paths[s] <=> [si |-> s, path |-> p] \in ToSet(Listing)
  <2>1. p \in Paths[s] <=> \E e \in ToSet(Listing) : e.si = s /\ e.path = p
    BY DEF Paths
  <2>2. \A e \in ToSet(Listing) : e \in [si : Stores, path : MtpPath]
    BY <1>2, <1>3
  <2>3. \A e \in [si : Stores, path : MtpPath] : e.si = s /\ e.path = p => e = [si |-> s, path |-> p]
    OBVIOUS
  <2> DEFINE e0 == [si |-> s, path |-> p]
  <2>4. e0.si = s /\ e0.path = p
    OBVIOUS
  <2> HIDE DEF e0
  <2>5. \A e \in ToSet(Listing) : e.si = s /\ e.path = p => e = e0
    BY <2>2, <2>3 DEF e0
  <2>6. p \in Paths[s] <=> e0 \in ToSet(Listing)
    BY <2>1, <2>4, <2>5
  <2> QED BY <2>6 DEF e0
<1> QED BY <1>2, <1>3, <1>4

LEMMA PathsAre ==
  ASSUME NEW s \in Stores, NEW p \in Paths[s]
  PROVE  p \in MtpPath /\ (Len(p) > 1 => Front(p) \in Paths[s] /\ Front(p) # p)
<1>1. PICK e \in ToSet(Listing) : e.si = s /\ e.path = p
  BY DEF Paths
<1>2. e \in [si : Stores, path : MtpPath]
  BY <1>1, ListingIs
<1>3. p \in MtpPath
  BY <1>1, <1>2
<1>4. ASSUME Len(p) > 1 PROVE Front(p) \in Paths[s] /\ Front(p) # p
  <2>1. [e EXCEPT !.path = Front(e.path)] \in ToSet(Listing)
    BY <1>1, <1>4, MtpAssumption
  <2>2. [e EXCEPT !.path = Front(e.path)] = [si |-> s, path |-> Front(p)]
    BY <1>1, <1>2
  <2>3. Front(p) \in MtpPath /\ Len(Front(p)) = Len(p) - 1 /\ Len(p) \in Nat
    BY <1>3, <1>4, FrontIs, PathParts
  <2>4. Front(p) # p
    BY <2>3
  <2> QED BY <2>1, <2>2, <2>3, <2>4, ListingIs
<1> QED BY <1>3, <1>4

\* A directory is listed before what is in it.
LEMMA FrontIsBefore ==
  ASSUME NEW i \in 1..Len(Listing), NEW j \in 1..Len(Listing), Listing[i].si = Listing[j].si,
         Len(Listing[i].path) > 1, Listing[j].path = Front(Listing[i].path)
  PROVE  j < i
<1>1. PICK p, q : p = Listing[i].path /\ q = Listing[j].path
  OBVIOUS
<1>2. p \in MtpPath /\ q \in MtpPath /\ Listing[i].si \in Nat /\ Listing[j].si \in Nat
  <2>1. Listing[i] \in [si : Stores, path : MtpPath] /\ Listing[j] \in [si : Stores, path : MtpPath]
    BY ListingIs
  <2>2. \A s \in Stores : s \in Nat
    BY MtpAssumption DEF Stores
  <2> QED BY <1>1, <2>1, <2>2
<1>3. Len(q) = Len(p) - 1 /\ (\A k \in 1..(Len(p) - 1) : q[k] = p[k]) /\ Len(p) > 1
  <2>1. Len(p) > 1 /\ q = Front(p)
    BY <1>1
  <2>2. Len(Front(p)) = Len(p) - 1 /\ \A k \in 1..(Len(p) - 1) : Front(p)[k] = p[k]
    BY <1>2, <2>1, FrontIs
  <2> QED BY <2>1, <2>2
<1>4. Len(p) \in Nat /\ DOMAIN p = 1..Len(p) /\ DOMAIN q = 1..Len(q) /\ \A k \in 1..Len(p) : p[k] \in Nat
  <2>1. p \in Seq(Nat) /\ q \in Seq(Nat) /\ Len(p) \in Nat /\ \A k \in 1..Len(p) : p[k] \in Nat
    BY <1>2, PathParts
  <2> QED BY <2>1
<1>5. ~PathBefore(p, q)
  <2>1. ~IsStrictPrefix(p, q)
    BY <1>3, <1>4 DEF IsStrictPrefix, IsPrefix
  <2>2. \A k \in DOMAIN p \cap DOMAIN q : ~(p[k] < q[k])
    <3> TAKE k \in DOMAIN p \cap DOMAIN q
    <3>1. k \in 1..Len(p) /\ k \in 1..Len(q)
      BY <1>4
    <3>2. k \in 1..(Len(p) - 1)
      BY <1>3, <3>1
    <3>3. q[k] = p[k] /\ p[k] \in Nat
      BY <1>3, <1>4, <3>1, <3>2
    <3>4. PICK x : x = p[k]
      OBVIOUS
    <3>5. ~(x < x)
      BY <3>3, <3>4
    <3> QED BY <3>3, <3>4, <3>5
  <2> QED BY <2>1, <2>2 DEF PathBefore
<1>6. ~Before(Listing[i], Listing[j])
  BY <1>1, <1>2, <1>5 DEF Before
<1>7. ~(i < j)
  <2>1. DOMAIN Listing = 1..Len(Listing)
    BY MtpAssumption
  <2> QED BY <1>6, <2>1, MtpAssumption
<1>8. i # j
  BY <1>1, <1>3, <1>4
<1> QED
  <2>1. i \in Nat /\ j \in Nat
    BY ListingIs
  <2> QED BY <1>7, <1>8, <2>1

\* What an entry is in exists and is a directory, up to the top.
LEMMA AboveIsDir ==
  ASSUME NEW n, StoresHold(n), NEW s \in Stores, NEW q \in Paths[s], n[s][q] # "none", NEW k \in 1..Len(q)
  PROVE  /\ SubSeq(q, 1, k) \in Paths[s] /\ n[s][SubSeq(q, 1, k)] # "none"
         /\ k < Len(q) => n[s][SubSeq(q, 1, k)] = "dir"
<1>1. PICK a : a = Len(q)
  OBVIOUS
<1>2. a \in Nat /\ a >= 1 /\ q \in MtpPath /\ a - 1 \in Nat
  BY <1>1, PathsAre, PathParts
<1> DEFINE head(i) == SubSeq(q, 1, a - i)
           P == {i \in 0..(a - 1) : /\ head(i) \in Paths[s] /\ n[s][head(i)] # "none"
                                    /\ i > 0 => n[s][head(i)] = "dir"}
<1>3. \A i \in 0..(a - 1) : head(i) \in MtpPath /\ Len(head(i)) = a - i /\ \A j \in 1..(a - i) : head(i)[j] = q[j]
  <2> TAKE i \in 0..(a - 1)
  <2>1. a - i \in 1..Len(q)
    BY <1>1, <1>2
  <2> QED BY <1>2, <2>1, HeadIs
<1> HIDE DEF head
<1>4. 0 \in P
  <2>1. 0 \in 0..(a - 1) /\ a - 0 = a
    BY <1>2
  <2>2. head(0) = q
    BY <1>1, <1>2, <1>3, <2>1, PathsEqual
  <2> QED BY <2>1, <2>2
<1>5. ASSUME NEW i \in 1..(a - 1), i - 1 \in P PROVE i \in P
  <2>1. i \in 0..(a - 1) /\ i - 1 \in 0..(a - 1) /\ a - (i - 1) > 1 /\ a - (i - 1) - 1 = a - i /\ i > 0
    BY <1>2
  <2>2. head(i - 1) \in Paths[s] /\ n[s][head(i - 1)] # "none"
    BY <1>5
  <2> DEFINE u == head(i - 1)
  <2>3. u \in MtpPath /\ Len(u) = a - (i - 1) /\ \A j \in 1..(a - (i - 1)) : u[j] = q[j]
    BY <1>3, <2>1
  <2>4. /\ Front(u) \in MtpPath /\ Len(Front(u)) = a - i
        /\ \A j \in 1..(a - i) : Front(u)[j] = u[j]
    <3>1. PICK w \in MtpPath : w = u
      BY <2>3
    <3>2. Len(w) = a - (i - 1) /\ Len(w) > 1 /\ Len(w) - 1 = a - i
      BY <2>1, <2>3, <3>1
    <3>3. Front(w) \in MtpPath /\ Len(Front(w)) = Len(w) - 1 /\ \A j \in 1..(Len(w) - 1) : Front(w)[j] = w[j]
      BY <3>2, FrontIs
    <3> HIDE DEF u
    <3> QED BY <3>1, <3>2, <3>3
  <2>5. n[s][Front(u)] = "dir" /\ Front(u) \in Paths[s]
    BY <2>1, <2>2, <2>3, PathsAre DEF StoresHold, StoreHolds, Nested
  <2> HIDE DEF u
  <2>6. Front(u) = head(i)
    <3>1. \A j \in 1..(a - i) : j \in 1..(a - (i - 1))
      BY <1>2
    <3>2. \A j \in 1..(a - i) : Front(u)[j] = head(i)[j]
      BY <1>3, <2>1, <2>3, <2>4, <3>1
    <3> QED BY <1>3, <2>1, <2>4, <3>2, PathsEqual
  <2> QED BY <2>1, <2>5, <2>6
<1> HIDE DEF P
<1>6. \A i \in 0..(a - 1) : i \in P
  BY <1>2, <1>4, <1>5, UpTo
<1>7. a - k \in 0..(a - 1) /\ a - (a - k) = k /\ (k < a => a - k > 0)
  BY <1>1, <1>2
<1>8. a - k \in P
  BY <1>6, <1>7
<1>9. head(a - k) = SubSeq(q, 1, k)
  BY <1>7 DEF head
<1> QED BY <1>1, <1>7, <1>8, <1>9 DEF P

LEMMA InsideIsIn ==
  ASSUME NEW n, StoresHold(n), NEW s \in Stores, NEW q \in Paths[s], n[s][q] # "none",
         NEW p \in MtpPath, Inside(q, p), q # p
  PROVE  p \in Paths[s] /\ n[s][p] = "dir"
<1>1. q \in MtpPath
  BY PathsAre
<1>2. Len(p) < Len(q) /\ p = SubSeq(q, 1, Len(p))
  BY <1>1, InsideIs, StrictlyInside
<1>3. PICK k : k = Len(p)
  OBVIOUS
<1>4. k \in 1..Len(q) /\ k < Len(q)
  BY <1>1, <1>2, <1>3, PathParts
<1>5. SubSeq(q, 1, k) \in Paths[s] /\ n[s][SubSeq(q, 1, k)] = "dir"
  BY <1>4, AboveIsDir
<1> QED BY <1>2, <1>3, <1>5

\* Nothing of a store is gone, and the others are as they were.
Grows(n, m, s) ==
  /\ \A t \in Stores : \A q \in Paths[t] : n[t][q] # "none" => m[t][q] # "none"
  /\ \A t \in Stores : t # s => m[t] = n[t]

Becomes(n, m, s, r) == m = [n EXCEPT ![s] = r]

\* One store becomes r.
LEMMA StoreBecomes ==
  ASSUME NEW n, StoresHold(n), NEW s \in Stores, NEW r, StoreHolds(r, s), NEW m, Becomes(n, m, s, r)
  PROVE  StoresHold(m) /\ m[s] = r /\ \A t \in Stores : t # s => m[t] = n[t]
<1>1. DOMAIN n = Stores /\ DOMAIN m = Stores /\ m = [t \in Stores |-> m[t]]
  BY DEF StoresHold, Becomes
<1>2. m[s] = r /\ \A t \in Stores : t # s => m[t] = n[t]
  BY <1>1 DEF Becomes
<1>3. \A t \in Stores : StoreHolds(m[t], t)
  BY <1>2 DEF StoresHold
<1> QED BY <1>1, <1>2, <1>3 DEF StoresHold

MayWrite(n, s, p, b) == p \in Paths[s] => /\ b \in Contents \ {"none"}
                                           /\ Folder(n, s, p) /\ (n[s][p] = "dir" => b = "dir")
WrittenAt(n, m, s, p, b) == m = [n EXCEPT ![s][p] = b]

\* An entry is made or written in a directory that exists, and is not a directory that
\* becomes a file.
LEMMA WriteKeeps ==
  ASSUME NEW n, StoresHold(n), NEW s \in Stores, NEW p, NEW b, MayWrite(n, s, p, b), NEW m, WrittenAt(n, m, s, p, b)
  PROVE  StoresHold(m) /\ Grows(n, m, s) /\ (p \in Paths[s] => m[s][p] = b)
         /\ \A q \in Paths[s] : q # p => m[s][q] = n[s][q]
<1> DEFINE r == [n[s] EXCEPT ![p] = b]
<1>1. n[s] \in [Paths[s] -> Contents] /\ Nested(n[s], s)
  BY DEF StoresHold, StoreHolds
<1>2. \A q \in Paths[s] : r[q] = IF q = p THEN b ELSE n[s][q]
  BY <1>1
<1>3. r \in [Paths[s] -> Contents]
  BY <1>1 DEF MayWrite
<1>4. Becomes(n, m, s, r)
  BY DEF Becomes, WrittenAt
<1> HIDE DEF r
<1>5. ASSUME NEW q \in Paths[s], r[q] # "none", Len(q) > 1 PROVE r[Front(q)] = "dir"
  <2>1. Front(q) \in Paths[s] /\ Front(q) # q
    BY <1>5, PathsAre
  <2>2. n[s][Front(q)] = "dir"
    <3>1. CASE q = p
      <4>1. Len(p) # 1 /\ p \in Paths[s]
        <5>1. p \in Paths[s] /\ Len(p) > 1 /\ p \in MtpPath
          BY <1>5, <3>1, PathsAre
        <5>2. Len(p) \in Nat
          BY <5>1, PathParts
        <5>3. PICK x : x = Len(p)
          OBVIOUS
        <5>4. x # 1
          BY <5>1, <5>2, <5>3
        <5> QED BY <5>1, <5>3, <5>4
      <4>2. Folder(n, s, p)
        BY <4>1 DEF MayWrite
      <4> QED BY <3>1, <4>1, <4>2 DEF Folder
    <3>2. CASE q # p
      BY <1>1, <1>2, <1>5, <3>2 DEF Nested
    <3> QED BY <3>1, <3>2
  <2> QED BY <1>2, <2>1, <2>2 DEF MayWrite
<1>6. StoresHold(m) /\ m[s] = r /\ \A t \in Stores : t # s => m[t] = n[t]
  <2>1. StoreHolds(r, s)
    BY <1>3, <1>5 DEF StoreHolds, Nested
  <2> QED BY <1>4, <2>1, StoreBecomes
<1>7. Grows(n, m, s)
  <2>1. ASSUME NEW t \in Stores, NEW q \in Paths[t], n[t][q] # "none" PROVE m[t][q] # "none"
    <3>1. CASE t = s
      BY <1>2, <1>6, <2>1, <3>1 DEF MayWrite
    <3>2. CASE t # s
      BY <1>6, <2>1, <3>2
    <3> QED BY <3>1, <3>2
  <2> QED BY <1>6, <2>1 DEF Grows
<1> QED BY <1>2, <1>6, <1>7

LEMMA WritesKeep ==
  ASSUME NEW n, StoresHold(n), NEW s \in Stores, NEW p, NEW body \in Bodies, NEW m \in store_write(n, s, p, body)
  PROVE  StoresHold(m) /\ Grows(n, m, s)
<1>1. CASE ~Folder(n, s, p) \/ n[s][p] = "dir"
  <2>1. m = n
    BY <1>1 DEF store_write
  <2> QED BY <2>1 DEF Grows
<1>2. CASE Folder(n, s, p) /\ n[s][p] # "dir"
  <2>1. PICK b : /\ m = [n EXCEPT ![s][p] = b]
                 /\ b \in {body} \cup IF StoreMayFail THEN {n[s][p], "empty"} \ {"none"} ELSE {}
    BY <1>2 DEF store_write
  <2>2. body \in Contents \ {"none"} /\ "empty" \in Contents \ {"none"}
    BY DEF Contents, Bodies
  <2>3. ASSUME p \in Paths[s] PROVE b \in Contents \ {"none"}
    <3>1. n[s][p] \in Contents
      BY <2>3 DEF StoresHold, StoreHolds
    <3>2. b = body \/ (b \in {n[s][p], "empty"} /\ b # "none")
      BY <2>1
    <3> QED BY <2>2, <3>1, <3>2
  <2>4. MayWrite(n, s, p, b) /\ WrittenAt(n, m, s, p, b)
    BY <1>2, <2>1, <2>3 DEF MayWrite, WrittenAt
  <2> QED BY <2>4, WriteKeeps
<1> QED BY <1>1, <1>2

LEMMA MakeDirKeeps ==
  ASSUME NEW n, StoresHold(n), NEW s \in Stores, NEW p, NEW m, m = store_make_dir(n, s, p)
  PROVE  StoresHold(m) /\ Grows(n, m, s)
<1>1. CASE Folder(n, s, p) /\ n[s][p] = "none"
  <2>1. m = [n EXCEPT ![s][p] = "dir"]
    BY <1>1 DEF store_make_dir
  <2>2. "dir" \in Contents \ {"none"}
    BY DEF Contents
  <2>3. MayWrite(n, s, p, "dir") /\ WrittenAt(n, m, s, p, "dir")
    BY <1>1, <2>1, <2>2 DEF MayWrite, WrittenAt
  <2> QED BY <2>3, WriteKeeps
<1>2. CASE ~(Folder(n, s, p) /\ n[s][p] = "none")
  <2>1. m = n
    BY <1>2 DEF store_make_dir
  <2> QED BY <2>1 DEF Grows
<1> QED BY <1>1, <1>2

LEMMA RemoveKeeps ==
  ASSUME NEW n, StoresHold(n), NEW s \in Stores, NEW p \in MtpPath, NEW m, m = store_remove(n, s, p)
  PROVE  /\ StoresHold(m) /\ \A t \in Stores : t # s => m[t] = n[t]
         /\ \A q \in Paths[s] : m[s][q] = IF Inside(q, p) THEN "none" ELSE n[s][q]
<1> DEFINE r == [q \in Paths[s] |-> IF Inside(q, p) THEN "none" ELSE n[s][q]]
<1>1. n[s] \in [Paths[s] -> Contents] /\ Nested(n[s], s)
  BY DEF StoresHold, StoreHolds
<1>2. r \in [Paths[s] -> Contents]
  BY <1>1 DEF Contents
<1>3. Becomes(n, m, s, r)
  BY DEF Becomes, store_remove
<1>4. \A q \in Paths[s] : r[q] = IF Inside(q, p) THEN "none" ELSE n[s][q]
  OBVIOUS
<1> HIDE DEF r
<1>5. ASSUME NEW q \in Paths[s], r[q] # "none", Len(q) > 1 PROVE r[Front(q)] = "dir"
  <2>1. q \in MtpPath /\ Front(q) \in Paths[s]
    BY <1>5, PathsAre
  <2>2. ~Inside(q, p) /\ n[s][q] # "none"
    BY <1>4, <1>5
  <2>3. ~Inside(Front(q), p)
    BY <1>5, <2>1, <2>2, InsideFront
  <2>4. n[s][Front(q)] = "dir"
    BY <1>1, <1>5, <2>2 DEF Nested
  <2> QED BY <1>4, <2>1, <2>3, <2>4
<1>6. StoresHold(m) /\ m[s] = r /\ \A t \in Stores : t # s => m[t] = n[t]
  <2>1. StoreHolds(r, s)
    BY <1>2, <1>5 DEF StoreHolds, Nested
  <2> QED BY <1>3, <2>1, StoreBecomes
<1> QED BY <1>4, <1>6

\* A rename: what was there, and where it is now.
LEMMA RenameIs ==
  ASSUME NEW n, StoresHold(n), NEW s \in Stores, NEW old \in Paths[s], NEW new \in Paths[s], MayRename(n, s, old, new),
         NEW q \in Paths[s], n[s][q] # "none", ~Inside(q, old), Inside(q, new)
  PROVE  q = new
<1> SUFFICES ASSUME q # new PROVE FALSE
  OBVIOUS
<1>1. q \in MtpPath /\ old \in MtpPath /\ new \in MtpPath
  BY PathsAre
<1>2. n[s][new] = "dir"
  BY <1>1, InsideIsIn
<1>3. old # new
  OBVIOUS
<1>4. "dir" \notin Bodies /\ "dir" # "none"
  BY DEF Bodies
<1>5. n[s][q] = "none"
  BY <1>2, <1>3, <1>4 DEF MayRename
<1> QED BY <1>5

LEMMA RenameKeeps ==
  ASSUME NEW n, StoresHold(n), NEW s \in Stores, NEW old \in Paths[s], NEW new \in Paths[s], MayRename(n, s, old, new),
         NEW m, m = store_rename(n, s, old, new)
  PROVE  /\ StoresHold(m) /\ \A t \in Stores : t # s => m[t] = n[t]
         /\ \A q \in Paths[s] :
              m[s][q] = IF Inside(q, new) /\ Rebased(q, new, old) \in Paths[s] THEN n[s][Rebased(q, new, old)]
                        ELSE IF Inside(q, old) THEN "none" ELSE n[s][q]
<1> DEFINE r == [q \in Paths[s] |->
                   IF Inside(q, new) /\ Rebased(q, new, old) \in Paths[s] THEN n[s][Rebased(q, new, old)]
                   ELSE IF Inside(q, old) THEN "none" ELSE n[s][q]]
<1>1. n[s] \in [Paths[s] -> Contents] /\ Nested(n[s], s) /\ old \in MtpPath /\ new \in MtpPath
  BY PathsAre DEF StoresHold, StoreHolds
<1>2. r \in [Paths[s] -> Contents]
  BY <1>1 DEF Contents
<1>3. Becomes(n, m, s, r)
  BY DEF Becomes, store_rename
<1>4. \A q \in Paths[s] :
        r[q] = IF Inside(q, new) /\ Rebased(q, new, old) \in Paths[s] THEN n[s][Rebased(q, new, old)]
               ELSE IF Inside(q, old) THEN "none" ELSE n[s][q]
  OBVIOUS
<1> HIDE DEF r
<1>5. ASSUME NEW q \in Paths[s], r[q] # "none", Len(q) > 1 PROVE r[Front(q)] = "dir"
  <2>1. q \in MtpPath /\ Front(q) \in Paths[s] /\ Front(q) \in MtpPath
    BY <1>5, PathsAre
  <2>2. Inside(q, new) <=> q = new \/ Inside(Front(q), new)
    BY <1>1, <1>5, <2>1, InsideFront
  <2>3. Inside(q, old) <=> q = old \/ Inside(Front(q), old)
    BY <1>1, <1>5, <2>1, InsideFront
  <2>4. CASE q = new
    <3>1. ~Inside(Front(q), new) /\ ~Inside(Front(q), old)
      <4>1. ~Inside(Front(q), new)
        <5> SUFFICES ASSUME Inside(Front(q), new) PROVE FALSE
          OBVIOUS
        <5>1. Len(new) < Len(q)
          BY <1>1, <1>5, <2>1, InsideFront
        <5> QED BY <2>1, <2>4, <5>1, PathParts
      <4>2. ASSUME Inside(Front(q), old) PROVE FALSE
        <5>1. Inside(new, old)
          BY <2>3, <2>4, <4>2
        <5>2. old = new
          BY <5>1 DEF MayRename
        <5> QED BY <4>1, <4>2, <5>2
      <4> QED BY <4>1, <4>2
    <3>2. n[s][Front(q)] = "dir"
      <4>1. Len(q) # 1
        BY <1>5, <2>1, PathParts
      <4> QED BY <2>4, <4>1 DEF MayRename, Folder
    <3> QED BY <1>4, <2>1, <3>1, <3>2
  <2>5. CASE q # new /\ Inside(q, new) /\ Rebased(q, new, old) \in Paths[s]
    <3>1. PICK z : z = Rebased(q, new, old)
      OBVIOUS
    <3>2. z \in Paths[s] /\ n[s][z] # "none"
      BY <1>4, <1>5, <2>5, <3>1
    <3>3. Len(z) > 1 /\ Front(z) = Rebased(Front(q), new, old)
      BY <1>1, <2>1, <2>5, <3>1, RebasedFront
    <3>4. n[s][Front(z)] = "dir" /\ Front(z) \in Paths[s]
      BY <1>1, <3>2, <3>3, PathsAre DEF Nested
    <3>5. Inside(Front(q), new)
      BY <2>2, <2>5
    <3> QED BY <1>4, <2>1, <3>3, <3>4, <3>5
  <2>6. CASE q # new /\ ~(Inside(q, new) /\ Rebased(q, new, old) \in Paths[s])
    <3>1. ~Inside(q, old) /\ n[s][q] # "none"
      BY <1>4, <1>5, <2>6
    <3>2. ~Inside(q, new)
      BY <2>6, <3>1, RenameIs
    <3>3. ~Inside(Front(q), new) /\ ~Inside(Front(q), old)
      BY <2>2, <2>3, <3>1, <3>2
    <3>4. n[s][Front(q)] = "dir"
      BY <1>1, <1>5, <3>1 DEF Nested
    <3> QED BY <1>4, <2>1, <3>3, <3>4
  <2> QED BY <2>4, <2>5, <2>6
<1>6. StoresHold(m) /\ m[s] = r /\ \A t \in Stores : t # s => m[t] = n[t]
  <2>1. StoreHolds(r, s)
    BY <1>2, <1>5 DEF StoreHolds, Nested
  <2> QED BY <1>3, <2>1, StoreBecomes
<1> QED BY <1>4, <1>6

-----------------------------------------------------------------------------
(* The object table.                                                       *)

Entry == [si : Stores, path : MtpPath, body : Contents, alive : BOOLEAN, parent : Nat]

\* Where an entry is.
IsAt(o, s, p) == o.si = s /\ o.path = p

LEMMA FirstIs ==
  ASSUME NEW t \in Seq(Entry), NEW s, NEW p, NEW f, f = obj_by_path(t, s, p)
  PROVE  /\ f \in Nat /\ f <= Len(t) /\ (f = 0 <=> \A i \in 1..Len(t) : ~IsAt(t[i], s, p))
         /\ f # 0 => f \in 1..Len(t) /\ IsAt(t[f], s, p) /\ \A i \in 1..Len(t) : IsAt(t[i], s, p) => f <= i
<1> DEFINE found == {i \in DOMAIN t : t[i].si = s /\ t[i].path = p}
<1>1. Len(t) \in Nat /\ DOMAIN t = 1..Len(t)
  OBVIOUS
<1>2. f = IF found = {} THEN 0 ELSE CHOOSE i \in found : \A j \in found : i <= j
  BY DEF obj_by_path
<1>3. \A i : i \in found <=> i \in 1..Len(t) /\ IsAt(t[i], s, p)
  BY <1>1 DEF IsAt
<1> HIDE DEF found
<1>4. CASE found = {}
  <2>1. f = 0
    BY <1>2, <1>4
  <2>2. \A i \in 1..Len(t) : ~IsAt(t[i], s, p)
    BY <1>3, <1>4
  <2> QED BY <1>1, <2>1, <2>2
<1>5. CASE found # {}
  <2>1. found \in SUBSET Nat
    BY <1>1, <1>3
  <2>2. \E i \in found : \A j \in found : i <= j
    BY <1>5, <2>1, LeastIndex
  <2>3. f \in found /\ \A j \in found : f <= j
    BY <1>2, <1>5, <2>2
  <2>4. f \in 1..Len(t) /\ IsAt(t[f], s, p)
    BY <1>3, <2>3
  <2>5. f \in Nat /\ f <= Len(t) /\ f # 0
    BY <1>1, <2>4
  <2> QED BY <1>3, <2>3, <2>4, <2>5
<1> QED BY <1>4, <1>5

\* Two tables with the same places have the same first ones.
LEMMA SameFirst ==
  ASSUME NEW t \in Seq(Entry), NEW u \in Seq(Entry), NEW s, NEW p, Len(t) <= Len(u),
         \A i \in 1..Len(t) : IsAt(u[i], s, p) <=> IsAt(t[i], s, p),
         \A i \in 1..Len(u) : i > Len(t) => ~IsAt(u[i], s, p)
  PROVE  obj_by_path(u, s, p) = obj_by_path(t, s, p)
<1>1. PICK f, g : f = obj_by_path(t, s, p) /\ g = obj_by_path(u, s, p)
  OBVIOUS
<1>2. Len(t) \in Nat /\ Len(u) \in Nat
  OBVIOUS
<1>3. /\ f \in Nat /\ (f = 0 <=> \A i \in 1..Len(t) : ~IsAt(t[i], s, p))
      /\ f # 0 => f \in 1..Len(t) /\ IsAt(t[f], s, p) /\ \A i \in 1..Len(t) : IsAt(t[i], s, p) => f <= i
  BY <1>1, FirstIs
<1>4. /\ g \in Nat /\ (g = 0 <=> \A i \in 1..Len(u) : ~IsAt(u[i], s, p))
      /\ g # 0 => g \in 1..Len(u) /\ IsAt(u[g], s, p) /\ \A i \in 1..Len(u) : IsAt(u[i], s, p) => g <= i
  BY <1>1, FirstIs
<1>5. \A i \in 1..Len(u) : IsAt(u[i], s, p) <=> i \in 1..Len(t) /\ IsAt(t[i], s, p)
  BY <1>2
<1>6. \A i \in 1..Len(t) : i \in 1..Len(u)
  BY <1>2
<1>7. f = 0 <=> g = 0
  BY <1>3, <1>4, <1>5, <1>6
<1>8. ASSUME f # 0 PROVE f = g
  <2>1. f \in 1..Len(t) /\ f \in 1..Len(u) /\ IsAt(u[f], s, p) /\ IsAt(t[f], s, p)
    BY <1>3, <1>5, <1>6, <1>8
  <2>2. g \in 1..Len(u) /\ g \in 1..Len(t) /\ IsAt(t[g], s, p) /\ IsAt(u[g], s, p)
    BY <1>4, <1>5, <1>7, <1>8
  <2>3. f <= g /\ g <= f
    BY <1>3, <1>4, <1>7, <1>8, <2>1, <2>2
  <2> QED BY <1>3, <1>4, <2>3
<1> QED BY <1>1, <1>7, <1>8

\* An entry the scan has met: up to the k-th, of those the stores n have.
Met(n, k, o) == \E j \in 1..k : IsAt(o, Listing[j].si, Listing[j].path) /\ n[Listing[j].si][Listing[j].path] # "none"

ParentOf(t, o) == IF Len(o.path) = 1 THEN 0 ELSE obj_by_path(t, o.si, Front(o.path))

\* The table t0 after a scan up to the k-th entry: what was met is alive, once, as the
\* store has it, and below its directory.
Scanned(n, t0, k, t) ==
  /\ t \in Seq(Entry) /\ Len(t0) <= Len(t)
  /\ \A h \in 1..Len(t0) : t[h].si = t0[h].si /\ t[h].path = t0[h].path
  /\ \A h \in 1..Len(t) : t[h].alive <=> Met(n, k, t[h]) /\ h = obj_by_path(t, t[h].si, t[h].path)
  /\ \A h \in 1..Len(t) : t[h].alive => t[h].body = n[t[h].si][t[h].path] /\ t[h].parent = ParentOf(t, t[h])
  /\ \A j \in 1..k : n[Listing[j].si][Listing[j].path] # "none" => obj_by_path(t, Listing[j].si, Listing[j].path) # 0

LEMMA UpsertTypes ==
  ASSUME NEW n, StoresHold(n), NEW t \in Seq(Entry), NEW k \in 1..Len(Listing)
  PROVE  scan_dir(n, t, Listing[k]) \in Seq(Entry)
<1>1. PICK e : e = Listing[k]
  OBVIOUS
<1>2. e.si \in Stores /\ e.path \in MtpPath
  BY <1>1, ListingIs
<1>3. e.path \in Paths[e.si]
  <2>1. e = [si |-> e.si, path |-> e.path] /\ e \in ToSet(Listing)
    BY <1>1, ListingIs
  <2> QED BY <1>2, <2>1, ListingIs
<1>4. n[e.si][e.path] \in Contents
  BY <1>2, <1>3 DEF StoresHold, StoreHolds
<1> DEFINE i == obj_by_path(t, e.si, e.path)
           o == [si |-> e.si, path |-> e.path, body |-> n[e.si][e.path], alive |-> TRUE,
                 parent |-> IF Len(e.path) = 1 THEN 0 ELSE obj_by_path(t, e.si, Front(e.path))]
<1>5. obj_by_path(t, e.si, Front(e.path)) \in Nat
  BY FirstIs
<1>6. o \in Entry
  BY <1>2, <1>4, <1>5 DEF Entry
<1>7. i \in Nat /\ (i # 0 => i \in 1..Len(t))
  BY FirstIs
<1>8. scan_dir(n, t, e) = IF n[e.si][e.path] = "none" THEN t ELSE IF i = 0 THEN Append(t, o) ELSE [t EXCEPT ![i] = o]
  BY DEF scan_dir, obj_upsert
<1> HIDE DEF i, o
<1>9. Append(t, o) \in Seq(Entry)
  BY <1>6, AppendProperties
<1>10. i # 0 => [t EXCEPT ![i] = o] \in Seq(Entry)
  BY <1>6, <1>7, ExceptSeq
<1> QED BY <1>1, <1>8, <1>9, <1>10

\* One entry more.
LEMMA ScanStep ==
  ASSUME NEW n, StoresHold(n), NEW t0 \in Seq(Entry), NEW t, NEW k \in 1..Len(Listing), Scanned(n, t0, k - 1, t),
         NEW u, u = scan_dir(n, t, Listing[k])
  PROVE  Scanned(n, t0, k, u)
<1>1. PICK s, p : s = Listing[k].si /\ p = Listing[k].path
  OBVIOUS
<1>2. s \in Stores /\ p \in MtpPath /\ k \in Nat /\ k >= 1 /\ Len(Listing) \in Nat
  BY <1>1, ListingIs
<1>3. p \in Paths[s]
  <2>1. Listing[k] = [si |-> s, path |-> p] /\ Listing[k] \in ToSet(Listing)
    BY <1>1, ListingIs
  <2> QED BY <1>2, <2>1, ListingIs
<1>4. \A j : j \in 1..k <=> j \in 1..(k - 1) \/ j = k
  BY <1>2
<1>5. /\ t \in Seq(Entry) /\ Len(t0) <= Len(t) /\ Len(t) \in Nat /\ Len(t0) \in Nat
      /\ \A h \in 1..Len(t0) : h \in 1..Len(t) /\ t[h].si = t0[h].si /\ t[h].path = t0[h].path
      /\ \A h \in 1..Len(t) : t[h].alive <=> Met(n, k - 1, t[h]) /\ h = obj_by_path(t, t[h].si, t[h].path)
      /\ \A h \in 1..Len(t) : t[h].alive => t[h].body = n[t[h].si][t[h].path] /\ t[h].parent = ParentOf(t, t[h])
      /\ \A j \in 1..(k - 1) : n[Listing[j].si][Listing[j].path] # "none"
                               => obj_by_path(t, Listing[j].si, Listing[j].path) # 0
      /\ \A h \in 1..Len(t) : t[h] \in Entry
  BY DEF Scanned
<1>6. \A o : Met(n, k, o) <=> Met(n, k - 1, o) \/ (IsAt(o, s, p) /\ n[s][p] # "none")
  BY <1>1, <1>4 DEF Met
<1>7. CASE n[s][p] = "none"
  <2>1. u = t
    BY <1>1, <1>7 DEF scan_dir
  <2>2. \A o : Met(n, k, o) <=> Met(n, k - 1, o)
    BY <1>6, <1>7
  <2>3. \A j \in 1..k : n[Listing[j].si][Listing[j].path] # "none" => obj_by_path(t, Listing[j].si, Listing[j].path) # 0
    BY <1>1, <1>4, <1>5, <1>7
  <2> QED BY <1>5, <2>1, <2>2, <2>3 DEF Scanned
<1>8. CASE n[s][p] # "none"
  <2> DEFINE o == [si |-> s, path |-> p, body |-> n[s][p], alive |-> TRUE,
                   parent |-> IF Len(p) = 1 THEN 0 ELSE obj_by_path(t, s, Front(p))]
  <2>1. PICK i : i = obj_by_path(t, s, p)
    OBVIOUS
  <2>2. /\ i \in Nat /\ (i = 0 <=> \A h \in 1..Len(t) : ~IsAt(t[h], s, p))
        /\ i # 0 => i \in 1..Len(t) /\ IsAt(t[i], s, p) /\ \A h \in 1..Len(t) : IsAt(t[h], s, p) => i <= h
    BY <1>5, <2>1, FirstIs
  <2>3. u = IF i = 0 THEN Append(t, o) ELSE [t EXCEPT ![i] = o]
    BY <1>1, <1>8, <2>1 DEF scan_dir, obj_upsert
  <2>4. o \in Entry
    <3>1. obj_by_path(t, s, Front(p)) \in Nat
      BY <1>5, FirstIs
    <3>2. n[s][p] \in Contents
      BY <1>2, <1>3 DEF StoresHold, StoreHolds
    <3> QED BY <1>2, <3>1, <3>2 DEF Entry
  <2>5. /\ o.si = s /\ o.path = p /\ o.alive = TRUE /\ o.body = n[s][p] /\ IsAt(o, s, p)
        /\ o.parent = IF Len(p) = 1 THEN 0 ELSE obj_by_path(t, s, Front(p))
    BY DEF IsAt
  <2> HIDE DEF o
  <2>6. PICK f : f = IF i = 0 THEN Len(t) + 1 ELSE i
    OBVIOUS
  \* The new table: the old one but for the place f.
  <2>7. /\ u \in Seq(Entry) /\ Len(u) \in Nat /\ Len(u) = IF i = 0 THEN Len(t) + 1 ELSE Len(t)
        /\ f \in 1..Len(u) /\ u[f] = o
        /\ \A h \in 1..Len(t) : h # f => u[h] = t[h]
        /\ \A h \in 1..Len(u) : h # f => h \in 1..Len(t)
    <3>1. CASE i = 0
      <4>1. u = Append(t, o) /\ f = Len(t) + 1
        BY <2>3, <2>6, <3>1
      <4>2. /\ Append(t, o) \in Seq(Entry) /\ Len(Append(t, o)) = Len(t) + 1
            /\ \A h \in 1..Len(t) : Append(t, o)[h] = t[h]
            /\ Append(t, o)[Len(t) + 1] = o
        BY <1>5, <2>4, AppendProperties
      <4>3. Len(t) + 1 \in 1..(Len(t) + 1) /\ \A h \in 1..(Len(t) + 1) : h # Len(t) + 1 => h \in 1..Len(t)
        BY <1>5
      <4> QED BY <1>5, <3>1, <4>1, <4>2, <4>3
    <3>2. CASE i # 0
      <4>1. u = [t EXCEPT ![i] = o] /\ f = i /\ i \in 1..Len(t)
        BY <2>2, <2>3, <2>6, <3>2
      <4>2. /\ [t EXCEPT ![i] = o] \in Seq(Entry) /\ Len([t EXCEPT ![i] = o]) = Len(t)
            /\ \A h \in 1..Len(t) : [t EXCEPT ![i] = o][h] = IF h = i THEN o ELSE t[h]
        BY <1>5, <2>4, <4>1, ExceptSeq
      <4> QED BY <1>5, <3>2, <4>1, <4>2
    <3> QED BY <3>1, <3>2
  <2>8. Len(t) <= Len(u) /\ (\A h \in 1..Len(u) : h > Len(t) => h = f) /\ \A h \in 1..Len(t) : h \in 1..Len(u)
    BY <1>5, <2>7
  <2>9. f \in 1..Len(t) => i # 0 /\ f = i
    BY <1>5, <2>6
  \* Its places.
  <2>10. \A h \in 1..Len(t) : u[h].si = t[h].si /\ u[h].path = t[h].path
    <3> TAKE h \in 1..Len(t)
    <3>1. CASE h = f
      BY <2>2, <2>5, <2>7, <2>9, <3>1 DEF IsAt
    <3>2. CASE h # f
      BY <2>7, <3>2
    <3> QED BY <3>1, <3>2
  <2>11. \A s1, p1 : ~(s1 = s /\ p1 = p) => obj_by_path(u, s1, p1) = obj_by_path(t, s1, p1)
    <3> SUFFICES ASSUME NEW s1, NEW p1, ~(s1 = s /\ p1 = p) PROVE obj_by_path(u, s1, p1) = obj_by_path(t, s1, p1)
      OBVIOUS
    <3>1. \A h \in 1..Len(t) : IsAt(u[h], s1, p1) <=> IsAt(t[h], s1, p1)
      BY <2>10 DEF IsAt
    <3>2. ASSUME NEW h \in 1..Len(u), h > Len(t) PROVE ~IsAt(u[h], s1, p1)
      <4>1. u[h] = o
        <5>1. h = f
          BY <2>8, <3>2
        <5> QED BY <2>7, <5>1
      <4>2. ~IsAt(o, s1, p1)
        BY <2>5 DEF IsAt
      <4> QED BY <4>1, <4>2
    <3>3. \A h \in 1..Len(u) : h > Len(t) => ~IsAt(u[h], s1, p1)
      BY <3>2
    <3>4. t \in Seq(Entry) /\ u \in Seq(Entry) /\ Len(t) <= Len(u)
      BY <1>5, <2>7, <2>8
    <3> QED BY <3>1, <3>3, <3>4, SameFirst
  <2>12. obj_by_path(u, s, p) = f
    <3>1. PICK g : g = obj_by_path(u, s, p)
      OBVIOUS
    <3>2. /\ g \in Nat /\ (g = 0 <=> \A h \in 1..Len(u) : ~IsAt(u[h], s, p))
          /\ g # 0 => g \in 1..Len(u) /\ IsAt(u[g], s, p) /\ \A h \in 1..Len(u) : IsAt(u[h], s, p) => g <= h
      BY <2>7, <3>1, FirstIs
    <3>3. g # 0 /\ g <= f /\ g \in 1..Len(u) /\ IsAt(u[g], s, p) /\ f \in Nat
      BY <2>5, <2>7, <3>2
    <3>4. f <= g
      <4>1. CASE g \in 1..Len(t)
        <5>1. IsAt(t[g], s, p)
          BY <2>10, <3>3, <4>1 DEF IsAt
        <5>2. i # 0 /\ i <= g
          BY <2>2, <4>1, <5>1
        <5> QED BY <2>6, <5>2
      <4>2. CASE g \notin 1..Len(t)
        <5>1. g = f
          BY <2>7, <3>3, <4>2
        <5> QED BY <3>2, <5>1
      <4> QED BY <4>1, <4>2
    <3> QED BY <3>1, <3>2, <3>3, <3>4
  <2>13. \A s1, p1 : obj_by_path(t, s1, p1) # 0 => obj_by_path(u, s1, p1) = obj_by_path(t, s1, p1)
    <3> SUFFICES ASSUME NEW s1, NEW p1, obj_by_path(t, s1, p1) # 0
                 PROVE  obj_by_path(u, s1, p1) = obj_by_path(t, s1, p1)
      OBVIOUS
    <3>1. CASE s1 = s /\ p1 = p
      BY <2>1, <2>6, <2>12, <3>1
    <3>2. CASE ~(s1 = s /\ p1 = p)
      BY <2>11, <3>2
    <3> QED BY <3>1, <3>2
  <2>14. ASSUME NEW h \in 1..Len(u)
         PROVE  /\ u[h].alive <=> Met(n, k, u[h]) /\ h = obj_by_path(u, u[h].si, u[h].path)
                /\ u[h].alive => u[h].body = n[u[h].si][u[h].path] /\ u[h].parent = ParentOf(u, u[h])
    <3>1. CASE h = f
      <4>1. u[h] = o /\ Met(n, k, u[h]) /\ h = obj_by_path(u, u[h].si, u[h].path)
        BY <1>6, <1>8, <2>5, <2>7, <2>12, <3>1
      <4>2. u[h].parent = ParentOf(u, u[h])
        <5>1. Len(p) # 1 => Front(p) # p
          <6>1. Len(p) # 1 => Len(p) > 1
            BY <1>2, Longer
          <6> QED BY <1>2, <1>3, <6>1, PathsAre
        <5>2. Len(p) # 1 => obj_by_path(u, s, Front(p)) = obj_by_path(t, s, Front(p))
          BY <2>11, <5>1
        <5> QED BY <2>5, <4>1, <5>2 DEF ParentOf
      <4> QED BY <2>5, <4>1, <4>2
    <3>2. CASE h # f
      <4>1. h \in 1..Len(t) /\ u[h] = t[h]
        BY <2>7, <3>2
      <4>2. CASE IsAt(t[h], s, p)
        <5>1. i # 0 /\ f = i /\ h # i
          BY <2>2, <2>6, <3>2, <4>1, <4>2
        <5>2. h # obj_by_path(t, t[h].si, t[h].path)
          BY <2>1, <4>2, <5>1 DEF IsAt
        <5>3. h # obj_by_path(u, u[h].si, u[h].path)
          BY <2>12, <3>2, <4>1, <4>2 DEF IsAt
        <5>4. ~t[h].alive
          BY <1>5, <4>1, <5>2
        <5> QED BY <4>1, <5>3, <5>4
      <4>3. CASE ~IsAt(t[h], s, p)
        <5>1. obj_by_path(u, u[h].si, u[h].path) = obj_by_path(t, t[h].si, t[h].path)
          BY <2>11, <4>1, <4>3 DEF IsAt
        <5>2. Met(n, k, u[h]) <=> Met(n, k - 1, t[h])
          BY <1>6, <4>1, <4>3
        <5>3. ASSUME t[h].alive PROVE ParentOf(u, u[h]) = ParentOf(t, t[h])
          <6>1. CASE Len(t[h].path) = 1
            BY <4>1, <6>1 DEF ParentOf
          <6>2. CASE Len(t[h].path) # 1
            <7>1. PICK j \in 1..(k - 1) : /\ IsAt(t[h], Listing[j].si, Listing[j].path)
                                          /\ n[Listing[j].si][Listing[j].path] # "none"
              BY <1>5, <4>1, <5>3 DEF Met
            <7>2. PICK s1, p1 : s1 = Listing[j].si /\ p1 = Listing[j].path
              OBVIOUS
            <7>3. j \in 1..Len(Listing) /\ j < k
              BY <1>2
            <7>4. s1 \in Stores /\ p1 \in MtpPath /\ p1 \in Paths[s1]
              <8>1. Listing[j] \in [si : Stores, path : MtpPath] /\ Listing[j] \in ToSet(Listing)
                BY <7>3, ListingIs
              <8>2. Listing[j] = [si |-> s1, path |-> p1] /\ s1 \in Stores /\ p1 \in MtpPath
                BY <7>2, <8>1
              <8> QED BY <8>1, <8>2, ListingIs
            <7>5. t[h].si = s1 /\ t[h].path = p1 /\ n[s1][p1] # "none" /\ Len(p1) > 1
              <8>1. t[h].si = s1 /\ t[h].path = p1 /\ n[s1][p1] # "none"
                BY <7>1, <7>2 DEF IsAt
              <8> QED BY <6>2, <7>4, <8>1, Longer
            <7>6. ~(s1 = s /\ Front(p1) = p)
              <8> SUFFICES ASSUME s1 = s, Front(p1) = p PROVE FALSE
                OBVIOUS
              <8>1. Listing[j].si = Listing[k].si /\ Len(Listing[j].path) > 1 /\ Listing[k].path = Front(Listing[j].path)
                BY <1>1, <7>2, <7>5
              <8>2. k < j
                BY <7>3, <8>1, FrontIsBefore
              <8> QED BY <1>2, <7>3, <8>2
            <7>7. obj_by_path(u, s1, Front(p1)) = obj_by_path(t, s1, Front(p1))
              BY <2>11, <7>6
            <7> QED BY <4>1, <6>2, <7>5, <7>7 DEF ParentOf
          <6> QED BY <6>1, <6>2
        <5> QED BY <1>5, <4>1, <5>1, <5>2, <5>3
      <4> QED BY <4>2, <4>3
    <3> QED BY <3>1, <3>2
  <2>15. \A j \in 1..k : n[Listing[j].si][Listing[j].path] # "none" => obj_by_path(u, Listing[j].si, Listing[j].path) # 0
    <3> SUFFICES ASSUME NEW j \in 1..k, n[Listing[j].si][Listing[j].path] # "none"
                 PROVE  obj_by_path(u, Listing[j].si, Listing[j].path) # 0
      OBVIOUS
    <3>1. CASE j = k
      <4>1. f # 0
        BY <2>7
      <4> QED BY <1>1, <2>12, <3>1, <4>1
    <3>2. CASE j \in 1..(k - 1)
      BY <1>5, <2>13, <3>2
    <3> QED BY <1>4, <3>1, <3>2
  <2>16. Len(t0) <= Len(u) /\ \A h \in 1..Len(t0) : u[h].si = t0[h].si /\ u[h].path = t0[h].path
    BY <1>5, <2>7, <2>8, <2>10
  <2> QED BY <2>7, <2>14, <2>15, <2>16 DEF Scanned
<1> QED BY <1>7, <1>8

\* What forgetting leaves of the table.
LEMMA ForgottenIs ==
  ASSUME NEW t \in Seq(Entry)
  PROVE  /\ Forgotten(t) \in Seq(Entry) /\ Len(Forgotten(t)) = Len(t)
         /\ \A h \in 1..Len(t) : /\ Forgotten(t)[h].si = t[h].si /\ Forgotten(t)[h].path = t[h].path
                                 /\ ~Forgotten(t)[h].alive
<1>1. PICK L : L = Len(t)
  OBVIOUS
<1>2. L \in Nat /\ DOMAIN t = 1..L /\ \A h \in 1..L : t[h] \in Entry
  BY <1>1
<1> DEFINE w(h) == [t[h] EXCEPT !.alive = FALSE, !.body = "none", !.parent = 0]
<1>3. ASSUME NEW h \in 1..L PROVE w(h) \in Entry /\ w(h).si = t[h].si /\ w(h).path = t[h].path /\ w(h).alive = FALSE
  <2>1. t[h] \in Entry
    BY <1>2
  <2>2. "none" \in Contents /\ 0 \in Nat /\ FALSE \in BOOLEAN
    BY DEF Contents
  <2> QED BY <2>1, <2>2 DEF Entry
<1> HIDE DEF w
<1>4. Forgotten(t) = [h \in 1..L |-> w(h)]
  BY <1>2 DEF Forgotten, w
<1> DEFINE f == [h \in 1..L |-> w(h)]
<1>5. f \in [1..L -> Entry] /\ \A h \in 1..L : f[h] = w(h)
  BY <1>3
<1>6. f \in Seq(Entry)
  BY <1>2, <1>5, IsASeq
<1>7. Len(f) = L
  <2>1. DOMAIN f = 1..L
    BY <1>5
  <2>2. DOMAIN f = 1..Len(f) /\ Len(f) \in Nat
    BY <1>6, LenProperties
  <2>3. PICK m : m = Len(f)
    OBVIOUS
  <2>4. m \in Nat /\ 1..m = 1..L
    BY <2>1, <2>2, <2>3
  <2>5. m = L
    BY <1>2, <2>4
  <2> QED BY <2>3, <2>5
<1> QED BY <1>1, <1>3, <1>4, <1>5, <1>6, <1>7

\* The equations of the scan that rescan makes.
LEMMA ScanIs ==
  ASSUME NEW n, StoresHold(n), NEW t \in Seq(Entry)
  PROVE  \E g : /\ g[0] = Forgotten(t) /\ rescan(n, t) = g[Len(Listing)]
                /\ \A k \in 1..Len(Listing) : g[k] = scan_dir(n, g[k - 1], Listing[k])
<1> DEFINE N == Len(Listing)
           X == Seq(Entry)
           F == [k \in 1..N |-> [y \in X |-> scan_dir(n, y, Listing[k])]]
<1>1. N \in Nat
  BY ListingIs
<1>2. Forgotten(t) \in X
  BY ForgottenIs
<1>3. ASSUME NEW k \in 1..N, NEW y \in X PROVE F[k][y] = scan_dir(n, y, Listing[k]) /\ F[k][y] \in X
  <2>1. scan_dir(n, y, Listing[k]) \in Seq(Entry)
    BY <1>3, UpsertTypes
  <2> QED BY <2>1
<1> HIDE DEF F
<1> HIDE DEF X
<1>4. \A k \in 1..N : \A y \in X : F[k][y] = scan_dir(n, y, Listing[k]) /\ F[k][y] \in X
  BY <1>3
<1> HIDE DEF N
<1>5. PICK f : IsRun(N, X, Forgotten(t), F, f)
  BY <1>1, <1>2, <1>4, RunsExist
<1>6. f \in [0..N -> X] /\ f[0] = Forgotten(t) /\ \A k \in 1..N : f[k] = F[k][f[k - 1]]
  BY <1>5 DEF IsRun
<1>7. \A k \in 0..N : k = 0 \/ (k # 0 /\ k \in 1..N /\ k - 1 \in 0..N)
  BY <1>1
<1>8. \A k \in 1..N : k # 0 /\ k \in 0..N /\ k - 1 \in 0..N
  BY <1>1
<1>9. \A k \in 1..N : f[k] = scan_dir(n, f[k - 1], Listing[k])
  <2> SUFFICES ASSUME NEW k \in 1..N PROVE f[k] = scan_dir(n, f[k - 1], Listing[k])
    OBVIOUS
  <2>1. f[k - 1] \in X
    BY <1>6, <1>8
  <2> QED BY <1>4, <1>6, <2>1
<1>10. f = [k \in 0..N |-> IF k = 0 THEN Forgotten(t) ELSE scan_dir(n, f[k - 1], Listing[k])]
  <2>1. \A k \in 0..N : f[k] = IF k = 0 THEN Forgotten(t) ELSE scan_dir(n, f[k - 1], Listing[k])
    BY <1>6, <1>7, <1>9
  <2> QED BY <1>6, <2>1
<1> DEFINE g == CHOOSE g : g = [k \in 0..N |-> IF k = 0 THEN Forgotten(t) ELSE scan_dir(n, g[k - 1], Listing[k])]
<1>11. rescan(n, t) = g[N]
  BY DEF rescan, N
<1>12. g = [k \in 0..N |-> IF k = 0 THEN Forgotten(t) ELSE scan_dir(n, g[k - 1], Listing[k])]
  BY <1>10
<1> HIDE DEF g
<1>13. g[0] = Forgotten(t)
  BY <1>1, <1>12
<1>14. \A k \in 1..N : g[k] = scan_dir(n, g[k - 1], Listing[k])
  BY <1>8, <1>12
<1> QED BY <1>11, <1>13, <1>14 DEF N

\* What the table is after a rescan of the stores n: an entry is alive when its path exists and
\* it is the first of that path; then it has the contents and the parent the store has, and
\* every path that exists has an entry.
Shape(n, t) ==
  /\ t \in Seq(Entry)
  /\ \A h \in 1..Len(t) : t[h].alive <=> /\ t[h].path \in Paths[t[h].si] /\ n[t[h].si][t[h].path] # "none"
                                         /\ h = obj_by_path(t, t[h].si, t[h].path)
  /\ \A h \in 1..Len(t) : t[h].alive => t[h].body = n[t[h].si][t[h].path] /\ t[h].parent = ParentOf(t, t[h])
  /\ \A s \in Stores : \A p \in Paths[s] : n[s][p] # "none" => obj_by_path(t, s, p) # 0

LEMMA RescanIs ==
  ASSUME NEW n, StoresHold(n), NEW t \in Seq(Entry), NEW u, u = rescan(n, t)
  PROVE  /\ Shape(n, u) /\ Len(t) <= Len(u)
         /\ \A h \in 1..Len(t) : u[h].si = t[h].si /\ u[h].path = t[h].path
<1>1. PICK N : N = Len(Listing)
  OBVIOUS
<1>2. PICK g : /\ g[0] = Forgotten(t) /\ u = g[N]
               /\ \A k \in 1..N : g[k] = scan_dir(n, g[k - 1], Listing[k])
  BY <1>1, ScanIs
<1>3. N \in Nat
  BY <1>1, ListingIs
<1> DEFINE P == {k \in 0..N : Scanned(n, t, k, g[k])}
<1>4. 0 \in P
  <2>1. Scanned(n, t, 0, Forgotten(t))
    <3>1. /\ Forgotten(t) \in Seq(Entry) /\ Len(Forgotten(t)) = Len(t)
          /\ \A h \in 1..Len(t) : /\ Forgotten(t)[h].si = t[h].si /\ Forgotten(t)[h].path = t[h].path
                                  /\ ~Forgotten(t)[h].alive
      BY ForgottenIs
    <3>2. Len(t) \in Nat /\ Len(t) <= Len(t)
      OBVIOUS
    <3>3. \A o : ~Met(n, 0, o)
      BY DEF Met
    <3>4. \A j \in 1..0 : FALSE
      OBVIOUS
    <3> QED BY <3>1, <3>2, <3>3, <3>4 DEF Scanned
  <2> QED BY <1>2, <1>3, <2>1
<1>5. ASSUME NEW k \in 1..N, k - 1 \in P PROVE k \in P
  <2>1. k \in 1..Len(Listing) /\ k \in 0..N
    BY <1>1, <1>3
  <2>2. Scanned(n, t, k - 1, g[k - 1]) /\ g[k] = scan_dir(n, g[k - 1], Listing[k])
    BY <1>2, <1>5
  <2>3. Scanned(n, t, k, g[k])
    BY <2>1, <2>2, ScanStep
  <2> QED BY <2>1, <2>3
<1> HIDE DEF P
<1>6. N \in P
  <2>1. \A k \in 0..N : k \in P
    BY <1>3, <1>4, <1>5, UpTo
  <2> QED BY <1>3, <2>1
<1>7. Scanned(n, t, Len(Listing), u)
  BY <1>1, <1>2, <1>6 DEF P
<1>8. ASSUME NEW s \in Stores, NEW p \in MtpPath
      PROVE  p \in Paths[s] <=> \E j \in 1..Len(Listing) : Listing[j].si = s /\ Listing[j].path = p
  <2> DEFINE e0 == [si |-> s, path |-> p]
  <2>1. p \in Paths[s] <=> \E j \in 1..Len(Listing) : Listing[j] = e0
    BY ListingIs
  <2>2. \A e \in [si : Stores, path : MtpPath] : e.si = s /\ e.path = p <=> e = e0
    OBVIOUS
  <2> HIDE DEF e0
  <2>3. \A j \in 1..Len(Listing) : Listing[j] = e0 <=> Listing[j].si = s /\ Listing[j].path = p
    BY <2>2, ListingIs
  <2> QED BY <2>1, <2>3
<1>9. \A o \in Entry : Met(n, Len(Listing), o) <=> o.path \in Paths[o.si] /\ n[o.si][o.path] # "none"
  <2> SUFFICES ASSUME NEW o \in Entry
               PROVE  Met(n, Len(Listing), o) <=> o.path \in Paths[o.si] /\ n[o.si][o.path] # "none"
    OBVIOUS
  <2>1. PICK s, p : s = o.si /\ p = o.path
    OBVIOUS
  <2>2. s \in Stores /\ p \in MtpPath
    BY <2>1 DEF Entry
  <2>3. Met(n, Len(Listing), o) <=> \E j \in 1..Len(Listing) : /\ Listing[j].si = s /\ Listing[j].path = p
                                                               /\ n[s][p] # "none"
    BY <2>1 DEF Met, IsAt
  <2>4. Met(n, Len(Listing), o) <=> p \in Paths[s] /\ n[s][p] # "none"
    BY <1>8, <2>2, <2>3
  <2> QED BY <2>1, <2>4
<1>10. \A s \in Stores : \A p \in Paths[s] : n[s][p] # "none" => obj_by_path(u, s, p) # 0
  <2> SUFFICES ASSUME NEW s \in Stores, NEW p \in Paths[s], n[s][p] # "none" PROVE obj_by_path(u, s, p) # 0
    OBVIOUS
  <2>1. p \in MtpPath
    BY PathsAre
  <2>2. PICK j \in 1..Len(Listing) : Listing[j].si = s /\ Listing[j].path = p
    BY <1>8, <2>1
  <2> QED BY <1>7, <2>2 DEF Scanned
<1>11. u \in Seq(Entry) /\ \A h \in 1..Len(u) : u[h] \in Entry
  BY <1>7 DEF Scanned
<1>12. \A h \in 1..Len(u) : u[h].alive <=> /\ u[h].path \in Paths[u[h].si] /\ n[u[h].si][u[h].path] # "none"
                                           /\ h = obj_by_path(u, u[h].si, u[h].path)
  BY <1>7, <1>9, <1>11 DEF Scanned
<1> QED BY <1>7, <1>10, <1>11, <1>12 DEF Shape, Scanned

MtpInv == StoresHold(node) /\ Shape(node, objs)

\* A live handle, and the entry it stands for.
LEMMA LiveIs ==
  ASSUME MtpInv, NEW h \in Live
  PROVE  /\ h \in 1..Len(objs) /\ h \in Nat /\ h # 0 /\ objs[h] \in Entry
         /\ objs[h].si \in Stores /\ objs[h].path \in MtpPath
         /\ objs[h].path \in Paths[objs[h].si] /\ node[objs[h].si][objs[h].path] # "none"
         /\ h = obj_by_path(objs, objs[h].si, objs[h].path)
         /\ objs[h].body = node[objs[h].si][objs[h].path] /\ objs[h].parent = ParentOf(objs, objs[h])
<1>1. objs \in Seq(Entry) /\ h \in 1..Len(objs) /\ objs[h].alive
  BY DEF MtpInv, Shape, Live
<1>2. objs[h] \in Entry /\ h \in Nat /\ h # 0
  BY <1>1
<1>3. objs[h].si \in Stores /\ objs[h].path \in MtpPath
  BY <1>2 DEF Entry
<1> QED BY <1>1, <1>2, <1>3 DEF MtpInv, Shape

\* What a store has is found under a live handle.
LEMMA FoundLive ==
  ASSUME MtpInv, NEW s \in Stores, NEW p \in Paths[s], node[s][p] # "none", NEW f, f = obj_by_path(objs, s, p)
  PROVE  f \in Live /\ f # 0 /\ objs[f].si = s /\ objs[f].path = p
<1>1. objs \in Seq(Entry) /\ f # 0
  BY DEF MtpInv, Shape
<1>2. f \in 1..Len(objs) /\ IsAt(objs[f], s, p)
  BY <1>1, FirstIs
<1>3. objs[f].si = s /\ objs[f].path = p
  BY <1>2 DEF IsAt
<1>4. objs[f].alive
  BY <1>2, <1>3 DEF MtpInv, Shape
<1> QED BY <1>1, <1>2, <1>3, <1>4 DEF Live

\* The parent of a live handle.
LEMMA ParentIs ==
  ASSUME MtpInv, NEW h \in Live, NEW k, k = objs[h].parent
  PROVE  /\ Len(objs[h].path) = 1 => k = 0
         /\ Len(objs[h].path) # 1 => /\ k \in Live /\ k # 0 /\ objs[k].si = objs[h].si /\ objs[k].path = Front(objs[h].path)
                                     /\ objs[k].body = "dir" /\ Len(objs[h].path) > 1
<1>1. PICK s, p : s = objs[h].si /\ p = objs[h].path
  OBVIOUS
<1>2. s \in Stores /\ p \in MtpPath /\ p \in Paths[s] /\ node[s][p] # "none" /\ k = ParentOf(objs, objs[h])
  BY <1>1, LiveIs
<1>3. CASE Len(p) = 1
  BY <1>1, <1>2, <1>3 DEF ParentOf
<1>4. CASE Len(p) # 1
  <2>1. Len(p) > 1
    BY <1>2, <1>4, Longer
  <2>2. Front(p) \in Paths[s]
    BY <1>2, <2>1, PathsAre
  <2>3. node[s][Front(p)] = "dir"
    BY <1>2, <2>1 DEF MtpInv, StoresHold, StoreHolds, Nested
  <2>4. k = obj_by_path(objs, s, Front(p))
    BY <1>1, <1>2, <1>4 DEF ParentOf
  <2>5. k \in Live /\ k # 0 /\ objs[k].si = s /\ objs[k].path = Front(p)
    BY <1>2, <2>2, <2>3, <2>4, FoundLive
  <2>6. objs[k].body = node[objs[k].si][objs[k].path]
    BY <2>5, LiveIs
  <2> QED BY <1>1, <1>4, <2>1, <2>3, <2>5, <2>6
<1> QED BY <1>1, <1>3, <1>4

\* The walk is_descendant makes from a handle h to its ancestor a.
Walk(up, h, a) ==
  /\ up[0] = h
  /\ is_descendant(h, a) <=> (a # 0 /\ \E k \in 1..Len(objs) : up[k] = a)
  /\ \A k \in 1..Len(objs) : up[k] = IF up[k - 1] \in Live THEN objs[up[k - 1]].parent ELSE 0

LEMMA UpIs ==
  ASSUME MtpInv, NEW h \in Live, NEW a
  PROVE  \E up : Walk(up, h, a)
<1> DEFINE N == Len(objs)
           next(y) == IF y \in Live THEN objs[y].parent ELSE 0
           F == [k \in 1..N |-> [y \in Nat |-> next(y)]]
<1>1. N \in Nat
  BY DEF MtpInv, Shape
<1>2. \A y \in Nat : next(y) \in Nat
  <2> SUFFICES ASSUME NEW y \in Live PROVE objs[y].parent \in Nat
    OBVIOUS
  <2>1. objs[y] \in Entry
    BY LiveIs
  <2> QED BY <2>1 DEF Entry
<1>3. h \in Nat
  BY LiveIs
<1>4. \A k \in 1..N : \A y \in Nat : F[k][y] = next(y) /\ F[k][y] \in Nat
  BY <1>2
<1> HIDE DEF F, N, next
<1>5. PICK f : IsRun(N, Nat, h, F, f)
  BY <1>1, <1>3, <1>4, RunsExist
<1>6. f \in [0..N -> Nat] /\ f[0] = h /\ \A k \in 1..N : f[k] = F[k][f[k - 1]]
  BY <1>5 DEF IsRun
<1>7. \A k \in 0..N : k = 0 \/ (k # 0 /\ k \in 1..N /\ k - 1 \in 0..N)
  BY <1>1
<1>8. \A k \in 1..N : k # 0 /\ k \in 0..N /\ k - 1 \in 0..N
  BY <1>1
<1>9. \A k \in 1..N : f[k] = next(f[k - 1])
  <2> SUFFICES ASSUME NEW k \in 1..N PROVE f[k] = next(f[k - 1])
    OBVIOUS
  <2>1. f[k - 1] \in Nat
    BY <1>6, <1>8
  <2> QED BY <1>4, <1>6, <2>1
<1>10. f = [k \in 0..N |-> IF k = 0 THEN h ELSE next(f[k - 1])]
  <2>1. \A k \in 0..N : f[k] = IF k = 0 THEN h ELSE next(f[k - 1])
    BY <1>6, <1>7, <1>9
  <2> QED BY <1>6, <2>1
<1> DEFINE g == CHOOSE g : g = [k \in 0..N |-> IF k = 0 THEN h ELSE IF g[k - 1] \in Live THEN objs[g[k - 1]].parent ELSE 0]
<1>11. is_descendant(h, a) <=> (a # 0 /\ \E k \in 1..N : g[k] = a)
  BY DEF is_descendant, N
<1>12. g = [k \in 0..N |-> IF k = 0 THEN h ELSE IF g[k - 1] \in Live THEN objs[g[k - 1]].parent ELSE 0]
  BY <1>10 DEF next
<1> HIDE DEF g
<1>13. g[0] = h
  BY <1>1, <1>12
<1>14. \A k \in 1..N : g[k] = IF g[k - 1] \in Live THEN objs[g[k - 1]].parent ELSE 0
  BY <1>8, <1>12
<1> QED BY <1>11, <1>13, <1>14 DEF N, Walk

\* What is above a handle is what its path is in.
LEMMA AncestorIs ==
  ASSUME MtpInv, NEW h \in Live, NEW a \in Live, is_descendant(h, a)
  PROVE  objs[a].si = objs[h].si /\ Inside(objs[h].path, objs[a].path)
<1>0. PICK up : Walk(up, h, a)
  BY UpIs
<1>1. /\ up[0] = h
      /\ is_descendant(h, a) <=> (a # 0 /\ \E k \in 1..Len(objs) : up[k] = a)
      /\ \A k \in 1..Len(objs) : up[k] = IF up[k - 1] \in Live THEN objs[up[k - 1]].parent ELSE 0
  BY <1>0 DEF Walk
<1>2. PICK N, s, q : N = Len(objs) /\ s = objs[h].si /\ q = objs[h].path
  OBVIOUS
<1>3. N \in Nat /\ s \in Stores /\ q \in MtpPath
  BY <1>2, LiveIs DEF MtpInv, Shape
<1> DEFINE P == {k \in 0..N : up[k] = 0 \/ (up[k] \in Live /\ objs[up[k]].si = s /\ Inside(q, objs[up[k]].path))}
<1>4. 0 \in P
  BY <1>1, <1>2, <1>3, InsideItself
<1>5. ASSUME NEW k \in 1..N, k - 1 \in P PROVE k \in P
  <2>1. k \in 0..N
    BY <1>3
  <2>2. PICK y, z : y = up[k - 1] /\ z = up[k]
    OBVIOUS
  <2>3. y = 0 \/ (y \in Live /\ objs[y].si = s /\ Inside(q, objs[y].path))
    BY <1>5, <2>2
  <2>4. z = IF y \in Live THEN objs[y].parent ELSE 0
    BY <1>1, <1>2, <2>2
  <2>5. CASE y \notin Live \/ Len(objs[y].path) = 1
    <3>1. y \in Live => z = 0
      BY <2>4, <2>5, ParentIs
    <3> QED BY <2>1, <2>2, <2>4, <3>1
  <2>6. CASE y \in Live /\ Len(objs[y].path) # 1
    <3>1. /\ z \in Live /\ objs[z].si = objs[y].si /\ objs[z].path = Front(objs[y].path) /\ Len(objs[y].path) > 1
      BY <2>4, <2>6, ParentIs
    <3>2. y # 0 /\ objs[y].path \in MtpPath /\ objs[z].path \in MtpPath
      BY <2>6, <3>1, LiveIs
    <3>3. Inside(objs[y].path, objs[z].path)
      BY <3>1, <3>2, InsideFront, InsideItself
    <3>4. Inside(q, objs[z].path)
      BY <1>3, <2>3, <3>2, <3>3, InsideTransitive
    <3> QED BY <2>1, <2>2, <2>3, <3>1, <3>2, <3>4
  <2> QED BY <2>5, <2>6
<1> HIDE DEF P
<1>6. \A k \in 0..N : k \in P
  BY <1>3, <1>4, <1>5, UpTo
<1>7. PICK k \in 1..N : up[k] = a /\ a # 0
  BY <1>1, <1>2
<1>8. k \in P
  BY <1>3, <1>6
<1> QED BY <1>2, <1>7, <1>8 DEF P

\* A path is not longer than the table: everything it is in has an entry of its own.
LEMMA PathFits ==
  ASSUME MtpInv, NEW h \in Live
  PROVE  Len(objs[h].path) <= Len(objs)
<1>1. PICK N, s, q, L : N = Len(objs) /\ s = objs[h].si /\ q = objs[h].path /\ L = Len(q)
  OBVIOUS
<1>2. N \in Nat /\ s \in Stores /\ q \in MtpPath /\ q \in Paths[s] /\ node[s][q] # "none" /\ L \in Nat /\ objs \in Seq(Entry)
  BY <1>1, LiveIs, PathParts DEF MtpInv, Shape
<1> SUFFICES ASSUME L > N PROVE FALSE
  BY <1>1, <1>2
<1> DEFINE f == [k \in 1..L |-> obj_by_path(objs, s, SubSeq(q, 1, k))]
<1>3. ASSUME NEW k \in 1..L
      PROVE  /\ obj_by_path(objs, s, SubSeq(q, 1, k)) \in 1..N
             /\ Len(objs[obj_by_path(objs, s, SubSeq(q, 1, k))].path) = k
  <2>1. k \in 1..Len(q)
    BY <1>1
  <2>2. SubSeq(q, 1, k) \in Paths[s] /\ node[s][SubSeq(q, 1, k)] # "none" /\ Len(SubSeq(q, 1, k)) = k
    BY <1>2, <2>1, AboveIsDir, HeadIs DEF MtpInv
  <2>3. PICK v, g : v = SubSeq(q, 1, k) /\ g = obj_by_path(objs, s, v)
    OBVIOUS
  <2>4. g \in Live /\ g # 0 /\ objs[g].si = s /\ objs[g].path = v
    <3>1. s \in Stores /\ v \in Paths[s] /\ node[s][v] # "none" /\ g = obj_by_path(objs, s, v)
      BY <1>2, <2>2, <2>3
    <3> QED BY <3>1, FoundLive
  <2>5. g \in 1..N
    BY <1>1, <2>4, LiveIs
  <2> QED BY <2>2, <2>3, <2>4, <2>5
<1>4. f \in [1..L -> 1..N] /\ \A k \in 1..L : Len(objs[f[k]].path) = k
  BY <1>3
<1> HIDE DEF f
<1>5. IsFiniteSet(1..L) /\ IsFiniteSet(1..N) /\ Cardinality(1..L) = L /\ Cardinality(1..N) = N
  <2>1. \A m \in Nat : IsFiniteSet(1..m) /\ Cardinality(1..m) = IF 1 > m THEN 0 ELSE m - 1 + 1
    BY FS_Interval
  <2>2. \A m \in Nat : (IF 1 > m THEN 0 ELSE m - 1 + 1) = m
    OBVIOUS
  <2> QED BY <1>2, <2>1, <2>2
<1>6. \E x, y \in 1..L : x # y /\ f[x] = f[y]
  BY <1>4, <1>5, FS_PigeonHole
<1> QED BY <1>4, <1>6

\* And what a path is in is above its handle.
LEMMA DescendantIs ==
  ASSUME MtpInv, NEW h \in Live, NEW a \in Live, h # a, objs[a].si = objs[h].si, Inside(objs[h].path, objs[a].path)
  PROVE  is_descendant(h, a)
<1>0. PICK up : Walk(up, h, a)
  BY UpIs
<1>1. /\ up[0] = h
      /\ is_descendant(h, a) <=> (a # 0 /\ \E k \in 1..Len(objs) : up[k] = a)
      /\ \A k \in 1..Len(objs) : up[k] = IF up[k - 1] \in Live THEN objs[up[k - 1]].parent ELSE 0
  BY <1>0 DEF Walk
<1>2. PICK N, s, q, p, L, M : /\ N = Len(objs) /\ s = objs[h].si /\ q = objs[h].path /\ p = objs[a].path
                              /\ L = Len(q) /\ M = Len(p)
  OBVIOUS
<1>3. /\ s \in Stores /\ q \in MtpPath /\ p \in MtpPath /\ q \in Paths[s] /\ node[s][q] # "none"
      /\ L \in Nat /\ M \in Nat /\ M >= 1
  BY <1>2, LiveIs, PathParts
<1>4. h = obj_by_path(objs, s, q) /\ a = obj_by_path(objs, s, p) /\ a # 0
  BY <1>2, LiveIs
<1>5. L > M /\ p = SubSeq(q, 1, M)
  <2>1. q # p
    BY <1>4
  <2> QED BY <1>2, <1>3, <2>1, StrictlyInside, InsideIs
<1>6. N \in Nat /\ L <= N
  BY <1>2, PathFits DEF MtpInv, Shape
<1> DEFINE P == {k \in 0..(L - 1) : up[k] = obj_by_path(objs, s, SubSeq(q, 1, L - k))}
<1>7. ASSUME NEW k \in 1..L
      PROVE  /\ SubSeq(q, 1, k) \in Paths[s] /\ SubSeq(q, 1, k) \in MtpPath /\ Len(SubSeq(q, 1, k)) = k
             /\ node[s][SubSeq(q, 1, k)] # "none"
             /\ k > 1 => Front(SubSeq(q, 1, k)) = SubSeq(q, 1, k - 1)
  <2>1. k \in 1..Len(q)
    BY <1>2
  <2>2. SubSeq(q, 1, k) \in Paths[s] /\ node[s][SubSeq(q, 1, k)] # "none"
    BY <1>3, <2>1, AboveIsDir DEF MtpInv
  <2>3. /\ SubSeq(q, 1, k) \in MtpPath /\ Len(SubSeq(q, 1, k)) = k
        /\ \A i \in 1..k : SubSeq(q, 1, k)[i] = q[i]
    BY <1>3, <2>1, HeadIs
  <2>4. ASSUME k > 1 PROVE Front(SubSeq(q, 1, k)) = SubSeq(q, 1, k - 1)
    <3>1. PICK v : v = SubSeq(q, 1, k)
      OBVIOUS
    <3>2. v \in MtpPath /\ Len(v) = k /\ Len(v) > 1 /\ \A i \in 1..k : v[i] = q[i]
      BY <2>3, <2>4, <3>1
    <3>3. Front(v) \in MtpPath /\ Len(Front(v)) = k - 1 /\ \A i \in 1..(k - 1) : Front(v)[i] = v[i]
      BY <3>2, FrontIs
    <3>4. k - 1 \in 1..Len(q) /\ \A i \in 1..(k - 1) : i \in 1..k
      BY <1>2, <1>3, <2>4
    <3>5. /\ SubSeq(q, 1, k - 1) \in MtpPath /\ Len(SubSeq(q, 1, k - 1)) = k - 1
          /\ \A i \in 1..(k - 1) : SubSeq(q, 1, k - 1)[i] = q[i]
      BY <1>3, <3>4, HeadIs
    <3>6. PICK b, c : b = Front(v) /\ c = SubSeq(q, 1, k - 1)
      OBVIOUS
    <3>7. b \in MtpPath /\ c \in MtpPath /\ Len(b) = Len(c) /\ \A i \in 1..Len(b) : b[i] = c[i]
      BY <3>2, <3>3, <3>4, <3>5, <3>6
    <3>8. b = c
      BY <3>7, PathsEqual
    <3> QED BY <3>1, <3>6, <3>8
  <2> QED BY <2>2, <2>3, <2>4
<1>8. SubSeq(q, 1, L) = q
  <2>1. L \in 1..Len(q) /\ L \in 1..L
    BY <1>2, <1>3, <1>5
  <2>2. /\ SubSeq(q, 1, L) \in MtpPath /\ Len(SubSeq(q, 1, L)) = L
        /\ \A i \in 1..L : SubSeq(q, 1, L)[i] = q[i]
    BY <1>3, <2>1, HeadIs
  <2> QED BY <1>2, <1>3, <2>2, PathsEqual
<1>9. 0 \in P
  <2>1. L - 0 = L /\ 0 \in 0..(L - 1)
    BY <1>3, <1>5
  <2> QED BY <1>1, <1>4, <1>8, <2>1
<1>10. ASSUME NEW k \in 1..(L - 1), k - 1 \in P PROVE k \in P
  <2>1. PICK j, v, w, y, z : /\ j = L - (k - 1) /\ v = SubSeq(q, 1, j) /\ w = SubSeq(q, 1, j - 1)
                             /\ y = up[k - 1] /\ z = up[k]
    OBVIOUS
  <2>2. j \in 1..L /\ j > 1 /\ j - 1 \in 1..L /\ j - 1 = L - k /\ k \in 0..(L - 1) /\ k \in 1..N
    BY <1>3, <1>5, <1>6, <2>1
  <2>3. y = obj_by_path(objs, s, v)
    BY <1>10, <2>1
  <2>4. v \in Paths[s] /\ node[s][v] # "none" /\ Len(v) # 1 /\ Front(v) = w /\ w \in Paths[s] /\ node[s][w] # "none"
    BY <1>7, <2>1, <2>2
  <2>5. y \in Live /\ objs[y].si = s /\ objs[y].path = v
    BY <1>3, <2>3, <2>4, FoundLive
  <2>6. z = objs[y].parent
    BY <1>1, <1>2, <2>1, <2>2, <2>5
  <2>7. z \in Live /\ objs[z].si = s /\ objs[z].path = w
    BY <2>4, <2>5, <2>6, ParentIs
  <2>8. z = obj_by_path(objs, s, w)
    BY <2>7, LiveIs
  <2>9. w = SubSeq(q, 1, L - k)
    BY <2>1, <2>2
  <2> QED BY <2>1, <2>2, <2>8, <2>9
<1> HIDE DEF P
<1>11. \A k \in 0..(L - 1) : k \in P
  <2>1. L - 1 \in Nat
    BY <1>3, <1>5
  <2> QED BY <1>9, <1>10, <2>1, UpTo
<1>12. L - M \in 0..(L - 1) /\ L - M \in 1..N /\ L - (L - M) = M
  BY <1>3, <1>5, <1>6
<1>13. up[L - M] = obj_by_path(objs, s, SubSeq(q, 1, L - (L - M)))
  BY <1>11, <1>12 DEF P
<1>14. up[L - M] = a
  BY <1>4, <1>5, <1>12, <1>13
<1> QED BY <1>1, <1>2, <1>4, <1>12, <1>14

\* What the property list of an object has is what is below it.
LEMMA PropListIs ==
  ASSUME MtpInv, NEW h \in Live
  PROVE  build_prop_list(h) = {k \in Live : objs[k].si = objs[h].si /\ Inside(objs[k].path, objs[h].path)}
<1>1. ASSUME NEW k \in Live
      PROVE  k = h \/ is_descendant(k, h) <=> objs[k].si = objs[h].si /\ Inside(objs[k].path, objs[h].path)
  <2>1. CASE k = h
    BY <2>1, LiveIs, InsideItself
  <2>2. CASE k # h
    BY <2>2, AncestorIs, DescendantIs
  <2> QED BY <2>1, <2>2
<1> QED BY <1>1 DEF build_prop_list

LEMMA TableTruth == MtpInv => TableIsTrue
<1> SUFFICES ASSUME MtpInv PROVE TableIsTrue
  OBVIOUS
<1>1. ASSUME NEW s \in Stores, NEW p \in Paths[s]
      PROVE  Cardinality({h \in Live : objs[h].si = s /\ objs[h].path = p}) = IF node[s][p] = "none" THEN 0 ELSE 1
  <2> DEFINE T == {h \in Live : objs[h].si = s /\ objs[h].path = p}
  <2>1. CASE node[s][p] = "none"
    <3>1. T = {}
      BY <2>1, LiveIs
    <3> QED BY <2>1, <3>1, FS_EmptySet
  <2>2. CASE node[s][p] # "none"
    <3>1. PICK f : f = obj_by_path(objs, s, p)
      OBVIOUS
    <3>2. f \in Live /\ objs[f].si = s /\ objs[f].path = p
      BY <2>2, <3>1, FoundLive
    <3>3. \A h \in Live : objs[h].si = s /\ objs[h].path = p => h = f
      BY <3>1, LiveIs
    <3>4. T = {f}
      BY <3>2, <3>3
    <3>5. Cardinality({f}) = 1
      BY FS_Singleton
    <3> QED BY <2>2, <3>4, <3>5
  <2> QED BY <2>1, <2>2
<1>2. ASSUME NEW h \in Live
      PROVE  /\ {build_object_info(h).body, build_prop(h).size} = {node[objs[h].si][objs[h].path]}
             /\ \E parent \in {0} \cup {k \in Live : is_dir(k) /\ objs[k].path = Front(objs[h].path)} :
                  handle_matches(h, objs[h].si, parent) /\ (parent = 0 <=> Len(objs[h].path) = 1)
             /\ build_prop_list(h) = {k \in Live : objs[k].si = objs[h].si /\ Inside(objs[k].path, objs[h].path)}
  <2>1. objs[h].body = node[objs[h].si][objs[h].path] /\ objs[h].alive
    BY LiveIs DEF Live
  <2>2. {build_object_info(h).body, build_prop(h).size} = {node[objs[h].si][objs[h].path]}
    BY <2>1 DEF build_object_info, build_prop
  <2>3. PICK k : k = objs[h].parent
    OBVIOUS
  <2>4. handle_matches(h, objs[h].si, k)
    BY <2>1, <2>3 DEF handle_matches
  <2>5. k \in {0} \cup {k1 \in Live : is_dir(k1) /\ objs[k1].path = Front(objs[h].path)} /\ (k = 0 <=> Len(objs[h].path) = 1)
    BY <2>3, ParentIs DEF is_dir
  <2> QED BY <2>2, <2>4, <2>5, PropListIs
<1> QED BY <1>1, <1>2 DEF TableIsTrue

LEMMA MtpInvInit == MtpInit => MtpInv
<1> SUFFICES ASSUME MtpInit PROVE MtpInv
  OBVIOUS
<1>1. node = [s \in Stores |-> [p \in Paths[s] |-> "none"]] /\ objs = <<>>
  BY DEF MtpInit
<1>2. DOMAIN node = Stores /\ (\A s \in Stores : node[s] = [p \in Paths[s] |-> "none"]) /\ node = [s \in Stores |-> node[s]]
  BY <1>1
<1>3. ASSUME NEW s \in Stores PROVE StoreHolds(node[s], s)
  <2>1. node[s] = [p \in Paths[s] |-> "none"] /\ "none" \in Contents
    BY <1>2 DEF Contents
  <2>2. node[s] \in [Paths[s] -> Contents] /\ \A p \in Paths[s] : node[s][p] = "none"
    BY <2>1
  <2> QED BY <2>2 DEF StoreHolds, Nested
<1>4. \A s \in Stores : \A p \in Paths[s] : node[s][p] = "none"
  BY <1>2
<1>5. objs \in Seq(Entry) /\ \A h \in 1..Len(objs) : FALSE
  BY <1>1
<1> QED BY <1>2, <1>3, <1>4, <1>5 DEF MtpInv, StoresHold, Shape

\* The table after what is below old has been given its new path.
LEMMA RetagIs ==
  ASSUME NEW t \in Seq(Entry), NEW s, NEW old \in MtpPath, NEW new \in MtpPath
  PROVE  /\ retag_paths(t, s, old, new) \in Seq(Entry) /\ Len(retag_paths(t, s, old, new)) = Len(t)
         /\ \A h \in 1..Len(t) :
              /\ retag_paths(t, s, old, new)[h].si = t[h].si
              /\ retag_paths(t, s, old, new)[h].path = IF Below(t[h], s, old) THEN Rebased(t[h].path, old, new)
                                                       ELSE t[h].path
<1>1. PICK L : L = Len(t)
  OBVIOUS
<1>2. L \in Nat /\ DOMAIN t = 1..L /\ \A h \in 1..L : t[h] \in Entry
  BY <1>1
<1> DEFINE r(h) == Rebased(t[h].path, old, new)
           w(h) == IF Below(t[h], s, old) THEN [t[h] EXCEPT !.path = r(h)] ELSE t[h]
<1>3. ASSUME NEW h \in 1..L
      PROVE  w(h) \in Entry /\ w(h).si = t[h].si /\ w(h).path = IF Below(t[h], s, old) THEN r(h) ELSE t[h].path
  <2>1. t[h] \in Entry /\ t[h].path \in MtpPath
    BY <1>2 DEF Entry
  <2>2. ASSUME Below(t[h], s, old) PROVE r(h) \in MtpPath
    <3>1. PICK q : q = t[h].path
      OBVIOUS
    <3>2. q \in MtpPath /\ Inside(q, old)
      BY <2>1, <2>2, <3>1 DEF Below
    <3>3. Rebased(q, old, new) \in MtpPath
      BY <3>2, RebasedBack
    <3> QED BY <3>1, <3>3
  <2> HIDE DEF r
  <2>3. CASE Below(t[h], s, old)
    <3>1. [t[h] EXCEPT !.path = r(h)] \in Entry
      BY <2>1, <2>2, <2>3 DEF Entry
    <3>2. [t[h] EXCEPT !.path = r(h)].si = t[h].si /\ [t[h] EXCEPT !.path = r(h)].path = r(h)
      BY <2>1 DEF Entry
    <3> QED BY <2>3, <3>1, <3>2
  <2>4. CASE ~Below(t[h], s, old)
    BY <2>1, <2>4
  <2> QED BY <2>3, <2>4
<1>4. retag_paths(t, s, old, new) = [h \in 1..L |-> w(h)]
  BY <1>2 DEF retag_paths
<1> HIDE DEF w
<1> DEFINE f == [h \in 1..L |-> w(h)]
<1>5. f \in [1..L -> Entry] /\ \A h \in 1..L : f[h] = w(h)
  BY <1>3
<1>6. f \in Seq(Entry)
  BY <1>2, <1>5, IsASeq
<1>7. Len(f) = L
  <2>1. DOMAIN f = 1..L
    BY <1>5
  <2>2. DOMAIN f = 1..Len(f) /\ Len(f) \in Nat
    BY <1>6, LenProperties
  <2>3. PICK m : m = Len(f)
    OBVIOUS
  <2>4. m \in Nat /\ 1..m = 1..L
    BY <2>1, <2>2, <2>3
  <2>5. m = L
    BY <1>2, <2>4
  <2> QED BY <2>3, <2>5
<1> QED BY <1>1, <1>3, <1>4, <1>5, <1>6, <1>7

\* A store that loses something, and gains nothing, has fewer entries.
Shrinks(n, m, s) ==
  /\ \A q \in Paths[s] : m[s][q] # "none" => n[s][q] # "none"
  /\ \E q \in Paths[s] : n[s][q] # "none" /\ m[s][q] = "none"

LEMMA EntriesShrink ==
  ASSUME NEW n, StoresHold(n), NEW m, StoresHold(m), NEW s \in Stores, Shrinks(n, m, s)
  PROVE  ~(Entries(m[s]) >= Entries(n[s]))
<1>1. IsFiniteSet(Paths[s])
  <2> DEFINE e0(p) == [si |-> s, path |-> p]
             f == [p \in Paths[s] |-> CHOOSE i \in 1..Len(Listing) : Listing[i] = e0(p)]
  <2>1. Len(Listing) \in Nat
    BY ListingIs
  <2>2. \A p \in Paths[s] : \E i \in 1..Len(Listing) : Listing[i] = e0(p)
    BY ListingIs, PathsAre
  <2>3. \A p, q : e0(p) = e0(q) => p = q
    <3> SUFFICES ASSUME NEW p, NEW q, e0(p) = e0(q) PROVE p = q
      OBVIOUS
    <3>1. e0(p).path = p /\ e0(q).path = q
      OBVIOUS
    <3> QED BY <3>1
  <2> HIDE DEF e0
  <2>4. \A p \in Paths[s] : f[p] \in 1..Len(Listing) /\ Listing[f[p]] = e0(p)
    BY <2>2
  <2>5. f \in [Paths[s] -> 1..Len(Listing)]
    BY <2>2
  <2> HIDE DEF f
  <2>6. \A p, q \in Paths[s] : f[p] = f[q] => p = q
    BY <2>3, <2>4
  <2>7. f \in Injection(Paths[s], 1..Len(Listing))
    BY <2>5, <2>6 DEF Injection, IsInjective
  <2>8. IsFiniteSet(1..Len(Listing))
    BY <2>1, FS_Interval
  <2> QED BY <2>7, <2>8, FS_Injection
<1> DEFINE A == {p \in Paths[s] : n[s][p] # "none"}
           B == {p \in Paths[s] : m[s][p] # "none"}
<1>2. DOMAIN n[s] = Paths[s] /\ DOMAIN m[s] = Paths[s]
  BY DEF StoresHold, StoreHolds
<1>3. Entries(n[s]) = Cardinality(A) /\ Entries(m[s]) = Cardinality(B)
  BY <1>2 DEF Entries
<1>4. A \in SUBSET Paths[s] /\ B \in SUBSET A /\ B # A
  BY DEF Shrinks
<1> HIDE DEF A, B
<1>5. IsFiniteSet(A)
  BY <1>1, <1>4, FS_Subset
<1>6. IsFiniteSet(B) /\ Cardinality(B) <= Cardinality(A) /\ Cardinality(A) # Cardinality(B)
  BY <1>4, <1>5, FS_Subset
<1>7. Cardinality(A) \in Nat /\ Cardinality(B) \in Nat
  BY <1>5, <1>6, FS_CardinalityType
<1>8. \A a, b \in Nat : b <= a /\ a # b => ~(b >= a)
  OBVIOUS
<1> QED BY <1>3, <1>6, <1>7, <1>8

\* The handles of a table t over the stores n, in the table u over the stores m.
HandleKept(n, t, m, u, h) ==
  LET s == t[h].si IN
  /\ Entries(m[s]) >= Entries(n[s])
  /\ ~\E k \in 1..(h - 1) : u[k].si = s /\ u[k].path = u[h].path
  => u[h].alive /\ (u[h].path # t[h].path => u[h].body = t[h].body)

Kept(n, t, m, u) == \A h \in 1..Len(t) : t[h].alive => HandleKept(n, t, m, u, h)

\* A handle is alive again when its place exists and no handle before it has that place.
LEMMA AliveAgain ==
  ASSUME NEW m, NEW u, Shape(m, u), NEW h \in 1..Len(u), NEW s, NEW p, u[h].si = s, u[h].path = p,
         p \in Paths[s], m[s][p] # "none", ~\E k \in 1..(h - 1) : u[k].si = s /\ u[k].path = p
  PROVE  u[h].alive /\ u[h].body = m[s][p]
<1>1. u \in Seq(Entry) /\ Len(u) \in Nat
  BY DEF Shape
<1>2. PICK f : f = obj_by_path(u, s, p)
  OBVIOUS
<1>3. /\ f \in Nat /\ (f = 0 <=> \A i \in 1..Len(u) : ~IsAt(u[i], s, p))
      /\ f # 0 => f \in 1..Len(u) /\ IsAt(u[f], s, p) /\ \A i \in 1..Len(u) : IsAt(u[i], s, p) => f <= i
  BY <1>1, <1>2, FirstIs
<1>4. IsAt(u[h], s, p)
  BY DEF IsAt
<1>5. f # 0 /\ f <= h /\ u[f].si = s /\ u[f].path = p
  BY <1>3, <1>4 DEF IsAt
<1>6. f \notin 1..(h - 1)
  BY <1>5
<1>7. h \in Nat /\ f = h
  BY <1>1, <1>3, <1>5, <1>6
<1> QED BY <1>2, <1>7 DEF Shape

\* A rescan after a step that renames nothing.
NothingGone(n, m, s) == \A q \in Paths[s] : n[s][q] # "none" => m[s][q] # "none"

LEMMA ScanKeeps ==
  ASSUME NEW n, NEW t, Shape(n, t), NEW m, StoresHold(m),
         \A s \in Stores : NothingGone(n, m, s) \/ ~(Entries(m[s]) >= Entries(n[s])),
         NEW u, u = rescan(m, t)
  PROVE  Shape(m, u) /\ Kept(n, t, m, u)
<1>1. t \in Seq(Entry) /\ Len(t) \in Nat /\ \A h \in 1..Len(t) : t[h] \in Entry
  BY DEF Shape
<1>2. /\ Shape(m, u) /\ Len(t) <= Len(u)
      /\ \A h \in 1..Len(t) : u[h].si = t[h].si /\ u[h].path = t[h].path
  BY <1>1, RescanIs
<1>3. ASSUME NEW h \in 1..Len(t), t[h].alive PROVE HandleKept(n, t, m, u, h)
  <2>1. PICK s, p : s = t[h].si /\ p = t[h].path
    OBVIOUS
  <2>2. s \in Stores /\ p \in Paths[s] /\ n[s][p] # "none"
    BY <1>1, <1>3, <2>1 DEF Shape, Entry
  <2>3. h \in 1..Len(u) /\ u[h].si = s /\ u[h].path = p
    <3>1. Len(u) \in Nat
      BY <1>2 DEF Shape
    <3> QED BY <1>1, <1>2, <2>1, <3>1
  <2>4. ASSUME Entries(m[s]) >= Entries(n[s]), ~\E k \in 1..(h - 1) : u[k].si = s /\ u[k].path = p
        PROVE  u[h].alive /\ u[h].body = m[s][p]
    <3>1. m[s][p] # "none"
      BY <2>2, <2>4 DEF NothingGone
    <3>2. /\ Shape(m, u) /\ h \in 1..Len(u) /\ u[h].si = s /\ u[h].path = p
          /\ p \in Paths[s] /\ m[s][p] # "none" /\ ~\E k \in 1..(h - 1) : u[k].si = s /\ u[k].path = p
      BY <1>2, <2>2, <2>3, <2>4, <3>1
    <3> QED BY <3>2, AliveAgain
  <2> QED BY <2>1, <2>3, <2>4 DEF HandleKept
<1> QED BY <1>2, <1>3 DEF Kept

\* A rename, and the rescan of the retagged table.
LEMMA RenameKeepsTable ==
  ASSUME NEW n, StoresHold(n), NEW t, Shape(n, t), NEW s \in Stores, NEW old \in Paths[s], NEW new \in Paths[s],
         MayRename(n, s, old, new), Fits(n, s, old, s, new), n[s][old] # "none",
         NEW m, m = store_rename(n, s, old, new),
         NEW u, u = rescan(m, retag_paths(t, s, old, new))
  PROVE  StoresHold(m) /\ Shape(m, u) /\ Kept(n, t, m, u)
<1>1. t \in Seq(Entry) /\ Len(t) \in Nat /\ \A h \in 1..Len(t) : t[h] \in Entry
  BY DEF Shape
<1>2. old \in MtpPath /\ new \in MtpPath
  BY PathsAre
<1>3. /\ StoresHold(m) /\ \A z \in Stores : z # s => m[z] = n[z]
      /\ \A q \in Paths[s] :
           m[s][q] = IF Inside(q, new) /\ Rebased(q, new, old) \in Paths[s] THEN n[s][Rebased(q, new, old)]
                     ELSE IF Inside(q, old) THEN "none" ELSE n[s][q]
  BY RenameKeeps
<1>4. PICK r : r = retag_paths(t, s, old, new)
  OBVIOUS
<1>5. /\ r \in Seq(Entry) /\ Len(r) = Len(t)
      /\ \A h \in 1..Len(t) : /\ r[h].si = t[h].si
                              /\ r[h].path = IF Below(t[h], s, old) THEN Rebased(t[h].path, old, new) ELSE t[h].path
  BY <1>1, <1>2, <1>4, RetagIs
<1>6. /\ Shape(m, u) /\ Len(r) <= Len(u)
      /\ \A h \in 1..Len(r) : u[h].si = r[h].si /\ u[h].path = r[h].path
  BY <1>3, <1>4, <1>5, RescanIs
<1>7. ASSUME NEW h \in 1..Len(t), t[h].alive PROVE HandleKept(n, t, m, u, h)
  <2>1. PICK z, p, q : z = t[h].si /\ p = t[h].path /\ q = u[h].path
    OBVIOUS
  <2>2. z \in Stores /\ p \in Paths[z] /\ p \in MtpPath /\ n[z][p] # "none" /\ t[h].body = n[z][p]
    BY <1>1, <1>7, <2>1 DEF Shape, Entry
  <2>3. h \in 1..Len(u) /\ u[h].si = z /\ q = IF Below(t[h], s, old) THEN Rebased(p, old, new) ELSE p
    <3>1. Len(u) \in Nat
      BY <1>6 DEF Shape
    <3>2. h \in 1..Len(u) /\ h \in 1..Len(r)
      BY <1>1, <1>5, <1>6, <3>1
    <3> QED BY <1>5, <1>6, <2>1, <3>2
  <2>4. q \in Paths[z] /\ m[z][q] # "none" /\ (q # p => m[z][q] = n[z][p])
    <3>1. CASE z # s
      <4>1. q = p /\ m[z] = n[z]
        BY <1>3, <2>1, <2>2, <2>3, <3>1 DEF Below
      <4> QED BY <2>2, <4>1
    <3>2. CASE z = s /\ Inside(p, old)
      <4>1. q = Rebased(p, old, new)
        BY <2>1, <2>3, <3>2 DEF Below
      <4>2. q \in MtpPath /\ Inside(q, new) /\ Rebased(q, new, old) = p
        BY <1>2, <2>2, <3>2, <4>1, RebasedBack
      <4>3. q \in Paths[s]
        BY <2>2, <3>2, <4>1 DEF Fits
      <4>4. m[s][q] = n[s][p]
        BY <1>3, <2>2, <3>2, <4>2, <4>3
      <4> QED BY <2>2, <3>2, <4>3, <4>4
    <3>3. CASE z = s /\ ~Inside(p, old)
      <4>1. q = p
        BY <2>1, <2>3, <3>3 DEF Below
      <4>2. CASE Inside(p, new)
        <5>1. p = new
          BY <2>2, <3>3, <4>2, RenameIs
        <5>2. Rebased(new, new, old) = old
          BY <1>2, RebasedTop
        <5>3. m[s][p] = n[s][old]
          BY <1>3, <2>2, <3>3, <4>2, <5>1, <5>2
        <5> QED BY <2>2, <3>3, <4>1, <5>3
      <4>3. CASE ~Inside(p, new)
        <5>1. m[s][p] = n[s][p]
          BY <1>3, <2>2, <3>3, <4>3
        <5> QED BY <2>2, <3>3, <4>1, <5>1
      <4> QED BY <4>2, <4>3
    <3> QED BY <3>1, <3>2, <3>3
  <2>5. ASSUME ~\E k \in 1..(h - 1) : u[k].si = z /\ u[k].path = q
        PROVE  u[h].alive /\ u[h].body = m[z][q]
    <3>1. /\ Shape(m, u) /\ h \in 1..Len(u) /\ u[h].si = z /\ u[h].path = q
          /\ q \in Paths[z] /\ m[z][q] # "none" /\ ~\E k \in 1..(h - 1) : u[k].si = z /\ u[k].path = q
      BY <1>6, <2>1, <2>3, <2>4, <2>5
    <3> QED BY <3>1, AliveAgain
  <2> QED BY <2>1, <2>2, <2>4, <2>5 DEF HandleKept
<1> QED BY <1>3, <1>6, <1>7 DEF Kept

\* The stores a copy may leave: nothing is gone, and only the store copied to has changed.
Copies(s) == {m \in [Stores -> UNION {[Paths[z] -> Contents] : z \in Stores}] : StoresHold(m) /\ Grows(node, m, s)}

LEMMA CopiesAre ==
  ASSUME NEW s, NEW m, StoresHold(m), Grows(node, m, s)
  PROVE  m \in Copies(s)
<1>1. DOMAIN m = Stores /\ m = [z \in Stores |-> m[z]]
  BY DEF StoresHold
<1>2. \A z \in Stores : m[z] \in UNION {[Paths[y] -> Contents] : y \in Stores}
  <2> SUFFICES ASSUME NEW z \in Stores PROVE m[z] \in UNION {[Paths[y] -> Contents] : y \in Stores}
    OBVIOUS
  <2>1. m[z] \in [Paths[z] -> Contents]
    BY DEF StoresHold, StoreHolds
  <2> QED BY <2>1
<1>3. m \in [Stores -> UNION {[Paths[z] -> Contents] : z \in Stores}]
  BY <1>1, <1>2
<1> QED BY <1>3 DEF Copies

\* One entry of the tree of h is copied.
LEMMA CopyStep ==
  ASSUME MtpInv, NEW h \in Live, NEW d, d.si \in Stores, NEW n \in Copies(d.si), NEW j \in build_prop_list(h),
         NEW m \in Copied(n, objs[j].path, h, d)
  PROVE  m \in Copies(d.si)
<1>1. StoresHold(n) /\ Grows(node, n, d.si)
  BY DEF Copies
<1>2. j \in Live /\ objs[j].si = objs[h].si
  BY PropListIs
<1>3. PICK s, q, to, body : /\ s = objs[h].si /\ q = objs[j].path /\ body = n[s][q]
                            /\ to = Rebased(q, Front(objs[h].path), d.dir)
  OBVIOUS
<1>4. s \in Stores /\ q \in Paths[s] /\ node[s][q] # "none"
  BY <1>2, <1>3, LiveIs
<1>5. n[s][q] # "none" /\ n[s][q] \in Contents
  BY <1>1, <1>4 DEF Grows, StoresHold, StoreHolds
<1>6. m \in IF body = "dir" THEN {store_make_dir(n, d.si, to)} ELSE store_write(n, d.si, to, body)
  BY <1>3 DEF Copied
<1>7. body # "dir" => body \in Bodies
  BY <1>3, <1>5 DEF Contents
<1>8. StoresHold(m) /\ Grows(n, m, d.si)
  <2>1. CASE body = "dir"
    <3>1. m = store_make_dir(n, d.si, to)
      BY <1>6, <2>1
    <3> QED BY <1>1, <3>1, MakeDirKeeps
  <2>2. CASE body # "dir"
    <3>1. m \in store_write(n, d.si, to, body) /\ body \in Bodies
      BY <1>6, <1>7, <2>2
    <3> QED BY <1>1, <3>1, WritesKeep
  <2> QED BY <2>1, <2>2
<1>9. Grows(node, m, d.si)
  BY <1>1, <1>8 DEF Grows
<1> QED BY <1>8, <1>9, CopiesAre

LEMMA CopyIs ==
  ASSUME MtpInv, NEW h \in Live, NEW d, d.si \in Stores
  PROVE  copy_tree(h, d) \in SUBSET Copies(d.si)
<1> DEFINE N == Len(Listing)
           X == SUBSET Copies(d.si)
           tree == {[si |-> objs[k].si, path |-> objs[k].path] : k \in build_prop_list(h)}
           next(k, y) == IF Listing[k] \in tree THEN UNION {Copied(n, Listing[k].path, h, d) : n \in y} ELSE y
           F == [k \in 1..N |-> [y \in X |-> next(k, y)]]
<1>1. N \in Nat
  BY ListingIs
<1>2. {node} \in X
  <2>1. StoresHold(node) /\ Grows(node, node, d.si)
    BY DEF MtpInv, Grows
  <2> QED BY <2>1, CopiesAre
<1>3. ASSUME NEW k \in 1..N, NEW y \in X PROVE next(k, y) \in X
  <2>1. CASE Listing[k] \in tree
    <3>1. PICK j \in build_prop_list(h) : Listing[k] = [si |-> objs[j].si, path |-> objs[j].path]
      BY <2>1
    <3>2. Listing[k].path = objs[j].path
      BY <3>1
    <3>3. ASSUME NEW n \in y, NEW m \in Copied(n, objs[j].path, h, d) PROVE m \in Copies(d.si)
      BY <3>3, CopyStep
    <3> QED BY <2>1, <3>2, <3>3
  <2>2. CASE Listing[k] \notin tree
    BY <2>2
  <2> QED BY <2>1, <2>2
<1>4. \A k \in 1..N : \A y \in X : F[k][y] = next(k, y) /\ F[k][y] \in X
  BY <1>3
<1> HIDE DEF F, X, N, next
<1>5. PICK f : IsRun(N, X, {node}, F, f)
  BY <1>1, <1>2, <1>4, RunsExist
<1>6. f \in [0..N -> X] /\ f[0] = {node} /\ \A k \in 1..N : f[k] = F[k][f[k - 1]]
  BY <1>5 DEF IsRun
<1>7. \A k \in 0..N : k = 0 \/ (k # 0 /\ k \in 1..N /\ k - 1 \in 0..N)
  BY <1>1
<1>8. \A k \in 1..N : k # 0 /\ k \in 0..N /\ k - 1 \in 0..N
  BY <1>1
<1>9. \A k \in 1..N : f[k] = next(k, f[k - 1])
  <2> SUFFICES ASSUME NEW k \in 1..N PROVE f[k] = next(k, f[k - 1])
    OBVIOUS
  <2>1. f[k - 1] \in X
    BY <1>6, <1>8
  <2> QED BY <1>4, <1>6, <2>1
<1>10. f = [k \in 0..N |-> IF k = 0 THEN {node} ELSE next(k, f[k - 1])]
  <2>1. \A k \in 0..N : f[k] = IF k = 0 THEN {node} ELSE next(k, f[k - 1])
    BY <1>6, <1>7, <1>9
  <2> QED BY <1>6, <2>1
<1> DEFINE g == CHOOSE g : g = [k \in 0..N |-> IF k = 0 THEN {node}
                                               ELSE IF Listing[k] \in tree
                                                    THEN UNION {Copied(n, Listing[k].path, h, d) : n \in g[k - 1]}
                                                    ELSE g[k - 1]]
<1>11. copy_tree(h, d) = g[N]
  BY DEF copy_tree, N
<1>12. g = [k \in 0..N |-> IF k = 0 THEN {node} ELSE IF Listing[k] \in tree
                                                     THEN UNION {Copied(n, Listing[k].path, h, d) : n \in g[k - 1]}
                                                     ELSE g[k - 1]]
  BY <1>10 DEF next
<1> HIDE DEF g, tree
<1>13. g = [k \in 0..N |-> IF k = 0 THEN {node} ELSE next(k, g[k - 1])]
  BY <1>12 DEF next
<1>14. g[0] = {node}
  BY <1>1, <1>13
<1>15. \A k \in 1..N : g[k] = next(k, g[k - 1])
  BY <1>8, <1>13
<1> DEFINE P == {k \in 0..N : g[k] \in X}
<1>16. 0 \in P
  BY <1>1, <1>2, <1>14 DEF X
<1>17. \A k \in 1..N : k - 1 \in P => k \in P
  <2> SUFFICES ASSUME NEW k \in 1..N, k - 1 \in P PROVE k \in P
    OBVIOUS
  <2>1. g[k - 1] \in X /\ g[k] = next(k, g[k - 1]) /\ k \in 0..N
    BY <1>8, <1>15
  <2>2. next(k, g[k - 1]) \in X
    BY <1>4, <2>1
  <2> QED BY <2>1, <2>2
<1> HIDE DEF P
<1>18. \A k \in 0..N : k \in P
  BY <1>1, <1>16, <1>17, UpTo
<1>19. N \in P
  BY <1>1, <1>18
<1> QED BY <1>11, <1>19 DEF P, X

\* A step keeps the table true and the handles that may be kept.
TableStep == MtpInv' /\ Kept(node, objs, node', objs')

LEMMA NoStep ==
  ASSUME MtpInv, UNCHANGED <<node, objs>>
  PROVE  TableStep
<1>1. node' = node /\ objs' = objs
  OBVIOUS
<1>2. Kept(node, objs, node, objs)
  BY DEF Kept, HandleKept
<1> QED BY <1>1, <1>2 DEF TableStep, MtpInv

LEMMA ScanIsStep ==
  ASSUME MtpInv, NEW m, m = node', StoresHold(m), objs' = rescan(m, objs),
         \A s \in Stores : NothingGone(node, m, s) \/ ~(Entries(m[s]) >= Entries(node[s]))
  PROVE  TableStep
<1>1. PICK u : u = objs'
  OBVIOUS
<1>2. Shape(node, objs) /\ u = rescan(m, objs)
  BY <1>1 DEF MtpInv
<1>3. Shape(m, u) /\ Kept(node, objs, m, u)
  BY <1>2, ScanKeeps
<1> QED BY <1>1, <1>3 DEF TableStep, MtpInv

\* A rescan after nothing is gone.
LEMMA GrowthIsStep ==
  ASSUME MtpInv, NEW m, m = node', StoresHold(m), NEW s, Grows(node, m, s), objs' = rescan(m, objs)
  PROVE  TableStep
<1>1. \A z \in Stores : NothingGone(node, m, z)
  BY DEF NothingGone, Grows
<1> QED BY <1>1, ScanIsStep

LEMMA RenameIsStep ==
  ASSUME MtpInv, NEW h \in Live, NEW new, new \in Paths[objs[h].si], Fits(node, objs[h].si, objs[h].path, objs[h].si, new),
         MayRename(node, objs[h].si, objs[h].path, new), node' = store_rename(node, objs[h].si, objs[h].path, new),
         objs' = rescan(node', retag_paths(objs, objs[h].si, objs[h].path, new))
  PROVE  TableStep
<1>1. PICK m, u, s, old : m = node' /\ u = objs' /\ s = objs[h].si /\ old = objs[h].path
  OBVIOUS
<1>2. s \in Stores /\ old \in Paths[s] /\ new \in Paths[s] /\ node[s][old] # "none"
  BY <1>1, LiveIs
<1>3. MayRename(node, s, old, new) /\ Fits(node, s, old, s, new) /\ m = store_rename(node, s, old, new)
  BY <1>1
<1>4. u = rescan(m, retag_paths(objs, s, old, new))
  BY <1>1
<1>5. StoresHold(node) /\ Shape(node, objs)
  BY DEF MtpInv
<1>6. StoresHold(m) /\ Shape(m, u) /\ Kept(node, objs, m, u)
  BY <1>2, <1>3, <1>4, <1>5, RenameKeepsTable
<1> QED BY <1>1, <1>6 DEF TableStep, MtpInv

\* What is removed is gone from its store.
LEMMA RemoveIsStep ==
  ASSUME MtpInv, NEW h \in Live, NEW n, StoresHold(n), n[objs[h].si] = node[objs[h].si],
         \A z \in Stores : z # objs[h].si => NothingGone(node, n, z),
         node' = store_remove(n, objs[h].si, objs[h].path), objs' = rescan(node', objs)
  PROVE  TableStep
<1>1. PICK m, s, p : m = node' /\ s = objs[h].si /\ p = objs[h].path
  OBVIOUS
<1>2. s \in Stores /\ p \in MtpPath /\ p \in Paths[s] /\ node[s][p] # "none" /\ m = store_remove(n, s, p)
  BY <1>1, LiveIs
<1>3. /\ StoresHold(m) /\ \A t \in Stores : t # s => m[t] = n[t]
      /\ \A q \in Paths[s] : m[s][q] = IF Inside(q, p) THEN "none" ELSE n[s][q]
  BY <1>2, RemoveKeeps
<1>4. n[s] = node[s]
  BY <1>1
<1>5. Shrinks(node, m, s)
  BY <1>2, <1>3, <1>4, InsideItself DEF Shrinks
<1>6. ~(Entries(m[s]) >= Entries(node[s]))
  BY <1>2, <1>3, <1>5, EntriesShrink DEF MtpInv
<1>7. \A z \in Stores : z # s => NothingGone(node, m, z)
  BY <1>1, <1>3 DEF NothingGone
<1>8. objs' = rescan(m, objs)
  BY <1>1
<1> QED BY <1>1, <1>3, <1>6, <1>7, <1>8, ScanIsStep

LEMMA TargetIs ==
  ASSUME MtpInv, NEW si, NEW parent, NEW d \in target(si, parent)
  PROVE  d.si \in Stores
<1>1. 0 \in Stores
  BY MtpAssumption DEF Stores
<1>2. CASE parent = 0
  BY <1>1, <1>2 DEF target
<1>3. CASE parent # 0
  <2>1. PICK h \in Live : d = [si |-> objs[h].si, dir |-> objs[h].path]
    BY <1>3 DEF target
  <2> QED BY <2>1, LiveIs
<1> QED BY <1>2, <1>3

\* The operations of a command.
LEMMA DeleteIsStep ==
  ASSUME MtpInv, NEW h, DeleteObject(h)
  PROVE  TableStep
<1>1. CASE read_only \/ h \notin Live
  BY <1>1, NoStep DEF DeleteObject, Answer
<1>2. CASE ~(read_only \/ h \notin Live)
  <2>1. h \in Live /\ node' = store_remove(node, objs[h].si, objs[h].path) /\ objs' = rescan(node', objs)
    BY <1>2 DEF DeleteObject, Changed
  <2>2. StoresHold(node) /\ \A z \in Stores : z # objs[h].si => NothingGone(node, node, z)
    BY DEF MtpInv, NothingGone
  <2> QED BY <2>1, <2>2, RemoveIsStep
<1> QED BY <1>1, <1>2

LEMMA TruncateIsStep ==
  ASSUME MtpInv, NEW h, TruncateObject(h)
  PROVE  TableStep
<1>1. CASE read_only \/ h \notin Live \/ is_dir(h)
  BY <1>1, NoStep DEF TruncateObject, Answer
<1>2. CASE ~(read_only \/ h \notin Live \/ is_dir(h))
  <2>1. PICK m, s, p : m = node' /\ s = objs[h].si /\ p = objs[h].path
    OBVIOUS
  <2>2. h \in Live /\ objs[h].body # "dir" /\ m = [node EXCEPT ![s][p] = "empty"] /\ objs' = rescan(m, objs)
    BY <1>2, <2>1 DEF TruncateObject, Changed, is_dir
  <2>3. s \in Stores /\ p \in Paths[s] /\ p \in MtpPath /\ node[s][p] # "none" /\ node[s][p] # "dir"
    BY <2>1, <2>2, LiveIs
  <2>4. Folder(node, s, p)
    <3>1. StoresHold(node)
      BY DEF MtpInv
    <3> QED BY <2>3, <3>1, Longer DEF StoresHold, StoreHolds, Nested, Folder
  <2>5. "empty" \in Contents \ {"none"}
    BY DEF Contents, Bodies
  <2>6. MayWrite(node, s, p, "empty") /\ WrittenAt(node, m, s, p, "empty")
    BY <2>2, <2>3, <2>4, <2>5 DEF MayWrite, WrittenAt
  <2>7. StoresHold(node)
    BY DEF MtpInv
  <2>8. /\ StoresHold(m) /\ Grows(node, m, s) /\ (p \in Paths[s] => m[s][p] = "empty")
        /\ \A q \in Paths[s] : q # p => m[s][q] = node[s][q]
    BY <2>3, <2>6, <2>7, WriteKeeps
  <2> QED BY <2>1, <2>2, <2>8, GrowthIsStep
<1> QED BY <1>1, <1>2

LEMMA CopyIsStep ==
  ASSUME MtpInv, NEW h, NEW si, NEW parent, CopyObject(h, si, parent)
  PROVE  TableStep
<1>1. CASE read_only \/ h \notin Live \/ target(si, parent) = {}
  BY <1>1, NoStep DEF CopyObject, Answer
<1>2. CASE ~(read_only \/ h \notin Live \/ target(si, parent) = {})
  <2>1. h \in Live
    BY <1>2
  <2>2. PICK d \in target(si, parent) : \E n \in copy_tree(h, d) : Changed(n, objs)
    BY <1>2 DEF CopyObject
  <2>3. PICK n \in copy_tree(h, d) : node' = n /\ objs' = rescan(n, objs)
    BY <2>2 DEF Changed
  <2>4. d.si \in Stores
    BY TargetIs
  <2>5. copy_tree(h, d) \in SUBSET Copies(d.si)
    BY <2>1, <2>4, CopyIs
  <2>6. StoresHold(n) /\ Grows(node, n, d.si)
    BY <2>5 DEF Copies
  <2> QED BY <2>3, <2>6, GrowthIsStep
<1> QED BY <1>1, <1>2

LEMMA MoveIsStep ==
  ASSUME MtpInv, NEW h, NEW si, NEW parent, MoveObject(h, si, parent)
  PROVE  TableStep
<1>1. CASE read_only \/ h \notin Live \/ target(si, parent) = {}
  BY <1>1, NoStep DEF MoveObject, Answer
<1>2. CASE ~(read_only \/ h \notin Live \/ target(si, parent) = {})
  <2>1. h \in Live
    BY <1>2
  <2>2. PICK d \in target(si, parent) :
          IF d.si = objs[h].si THEN Renamed(h, Append(d.dir, name(h)))
          ELSE /\ Fits(node, objs[h].si, objs[h].path, d.si, Append(d.dir, name(h)))
               /\ \E n \in copy_tree(h, d) : Changed(store_remove(n, objs[h].si, objs[h].path), objs)
               /\ UNCHANGED send_target
    BY <1>2 DEF MoveObject
  <2>3. d.si \in Stores
    BY TargetIs
  <2>4. CASE d.si = objs[h].si
    <3>1. PICK new : new = Append(d.dir, name(h))
      OBVIOUS
    <3>2. Renamed(h, new)
      BY <2>2, <2>4, <3>1
    <3>3. CASE ~MayRename(node, objs[h].si, objs[h].path, new)
      <4>1. Answer
        BY <3>2, <3>3 DEF Renamed
      <4> QED BY <4>1, NoStep DEF Answer
    <3>4. CASE MayRename(node, objs[h].si, objs[h].path, new)
      <4>1. /\ new \in Paths[objs[h].si] /\ Fits(node, objs[h].si, objs[h].path, objs[h].si, new)
            /\ node' = store_rename(node, objs[h].si, objs[h].path, new)
            /\ objs' = rescan(node', retag_paths(objs, objs[h].si, objs[h].path, new))
        BY <3>2, <3>4 DEF Renamed, Changed
      <4> QED BY <2>1, <3>4, <4>1, RenameIsStep
    <3> QED BY <3>3, <3>4
  <2>5. CASE d.si # objs[h].si
    <3>1. PICK n \in copy_tree(h, d) : /\ node' = store_remove(n, objs[h].si, objs[h].path)
                                       /\ objs' = rescan(node', objs)
      BY <2>2, <2>5 DEF Changed
    <3>2. copy_tree(h, d) \in SUBSET Copies(d.si)
      BY <2>1, <2>3, CopyIs
    <3>3. StoresHold(n) /\ Grows(node, n, d.si)
      BY <3>2 DEF Copies
    <3>4. n[objs[h].si] = node[objs[h].si]
      BY <2>1, <2>5, <3>3, LiveIs DEF Grows
    <3>5. \A z \in Stores : z # objs[h].si => NothingGone(node, n, z)
      BY <3>3 DEF Grows, NothingGone
    <3> QED BY <2>1, <3>1, <3>3, <3>4, <3>5, RemoveIsStep
  <2> QED BY <2>4, <2>5
<1> QED BY <1>1, <1>2

\* The data-out phase.
LEMMA InfoIsStep ==
  ASSUME MtpInv, NEW dir \in BOOLEAN, NEW nm, recv_object_info(dir, nm)
  PROVE  TableStep
<1>1. CASE Refused
  BY <1>1, NoStep DEF Refused
<1>2. CASE ~Refused
  <2>1. PICK d \in target(rx.si, rx.parent) :
          LET full == Append(d.dir, nm) IN
          \E n \in IF dir THEN {store_make_dir(node, d.si, full)} ELSE store_write(node, d.si, full, "empty") :
             node' = n /\ objs' = rescan(n, objs)
    BY <1>2 DEF recv_object_info
  <2>2. PICK s, full : s = d.si /\ full = Append(d.dir, nm)
    OBVIOUS
  <2>3. PICK n \in IF dir THEN {store_make_dir(node, s, full)} ELSE store_write(node, s, full, "empty") :
          node' = n /\ objs' = rescan(n, objs)
    BY <2>1, <2>2
  <2>4. s \in Stores /\ StoresHold(node) /\ "empty" \in Bodies
    BY <2>2, TargetIs DEF MtpInv, Bodies
  <2>5. StoresHold(n) /\ Grows(node, n, s)
    <3>1. CASE dir
      <4>1. n = store_make_dir(node, s, full)
        BY <2>3, <3>1
      <4> QED BY <2>4, <4>1, MakeDirKeeps
    <3>2. CASE ~dir
      <4>1. n \in store_write(node, s, full, "empty")
        BY <2>3, <3>2
      <4> QED BY <2>4, <4>1, WritesKeep
    <3> QED BY <3>1, <3>2
  <2> QED BY <2>3, <2>5, GrowthIsStep
<1> QED BY <1>1, <1>2

LEMMA ReceivedIsStep ==
  ASSUME MtpInv, NEW h, Received(h)
  PROVE  TableStep
<1>1. CASE h \notin Live
  BY <1>1, NoStep DEF Received, Refused
<1>2. CASE h \in Live
  <2>1. PICK s, p : s = objs[h].si /\ p = objs[h].path
    OBVIOUS
  <2>2. PICK n \in store_write(node, s, p, "data") : node' = n /\ objs' = rescan(n, objs)
    BY <1>2, <2>1 DEF Received
  <2>3. s \in Stores /\ StoresHold(node) /\ "data" \in Bodies
    BY <1>2, <2>1, LiveIs DEF MtpInv, Bodies
  <2>4. StoresHold(n) /\ Grows(node, n, s)
    BY <2>2, <2>3, WritesKeep
  <2> QED BY <2>2, <2>4, GrowthIsStep
<1> QED BY <1>1, <1>2

LEMMA SetNameIsStep ==
  ASSUME MtpInv, NEW nm, recv_set_object_prop(nm)
  PROVE  TableStep
<1>1. PICK h, new : h = rx.h /\ new = Append(Front(objs[rx.h].path), nm)
  OBVIOUS
<1>2. CASE h \notin Live \/ ~MayRename(node, objs[h].si, objs[h].path, new)
  <2>1. Refused
    BY <1>1, <1>2 DEF recv_set_object_prop
  <2> QED BY <2>1, NoStep DEF Refused
<1>3. CASE h \in Live /\ MayRename(node, objs[h].si, objs[h].path, new)
  <2>1. /\ new \in Paths[objs[h].si] /\ Fits(node, objs[h].si, objs[h].path, objs[h].si, new)
        /\ node' = store_rename(node, objs[h].si, objs[h].path, new)
        /\ objs' = rescan(node', retag_paths(objs, objs[h].si, objs[h].path, new))
    BY <1>1, <1>3 DEF recv_set_object_prop
  <2> QED BY <1>3, <2>1, RenameIsStep
<1> QED BY <1>2, <1>3

LEMMA DataIsStep ==
  ASSUME MtpInv, NEW kind, complete_rx(kind)
  PROVE  TableStep
<1>1. CASE Refused
  BY <1>1, NoStep DEF Refused
<1>2. CASE \E dir \in BOOLEAN, nm \in Names : recv_object_info(dir, nm)
  BY <1>2, InfoIsStep
<1>3. CASE recv_object
  BY <1>3, ReceivedIsStep DEF recv_object
<1>4. CASE recv_send_partial
  <2>1. Refused \/ Received(rx.h)
    BY <1>4 DEF recv_send_partial
  <2> QED BY <1>1, <2>1, ReceivedIsStep
<1>5. CASE \E nm \in Names : recv_set_object_prop(nm)
  BY <1>5, SetNameIsStep
<1> QED BY <1>1, <1>2, <1>3, <1>4, <1>5 DEF complete_rx

LEMMA DispatchIsStep ==
  ASSUME MtpInv, NEW code, NEW h, NEW si, NEW parent, dispatch(code, h, si, parent)
  PROVE  TableStep
<1>1. CASE UNCHANGED <<node, objs>>
  BY <1>1, NoStep
<1>2. Answer => UNCHANGED <<node, objs>>
  BY DEF Answer
<1>3. Begin(code, h, si, parent) => UNCHANGED <<node, objs>>
  BY <1>2 DEF Begin, begin_rx
<1>4. OpenSession \/ CloseSession \/ GetObjects \/ GetProperties => UNCHANGED <<node, objs>>
  BY <1>2 DEF OpenSession, CloseSession, GetObjects, GetProperties
<1>5. \/ Answer \/ OpenSession \/ CloseSession \/ GetObjects \/ GetProperties \/ DeleteObject(h) \/ TruncateObject(h)
      \/ MoveObject(h, si, parent) \/ CopyObject(h, si, parent) \/ Begin(code, h, si, parent)
  BY DEF dispatch
<1> QED BY <1>1, <1>2, <1>3, <1>4, <1>5, DeleteIsStep, TruncateIsStep, MoveIsStep, CopyIsStep

LEMMA MtpNextIsStep ==
  ASSUME MtpInv, [MtpNext]_mtpvars
  PROVE  TableStep
<1>1. CASE UNCHANGED <<node, objs>>
  BY <1>1, NoStep
<1>2. CASE \E c \in Codes : SendCommand(c)
  <2>1. \/ complete_rx("command")
        \/ \E code, h, si, parent : dispatch(code, h, si, parent)
    BY <1>2 DEF SendCommand
  <2> QED BY <2>1, DataIsStep, DispatchIsStep
<1>3. CASE SendDataPhase
  <2>1. \/ complete_rx("data")
        \/ \E code, h, si, parent : dispatch(code, h, si, parent)
    BY <1>3 DEF SendDataPhase
  <2> QED BY <2>1, DataIsStep, DispatchIsStep
<1>4. CASE Cancel \/ DeviceReset
  BY <1>1, <1>4 DEF Cancel, DeviceReset
<1> QED BY <1>1, <1>2, <1>3, <1>4 DEF MtpNext, mtpvars

KeepsHandles ==
  \A h \in Live :
    LET s == objs[h].si IN
    /\ Entries(node'[s]) >= Entries(node[s])
    /\ ~\E k \in 1..(h - 1) : objs'[k].si = s /\ objs'[k].path = objs'[h].path
    => objs'[h].alive /\ (objs'[h].path # objs[h].path => objs'[h].body = objs[h].body)

LEMMA StepKeepsHandles ==
  ASSUME MtpInv, TableStep
  PROVE  KeepsHandles
<1>1. \A h \in Live : HandleKept(node, objs, node', objs', h)
  BY DEF TableStep, Kept, Live
<1> QED BY <1>1 DEF KeepsHandles, HandleKept

MtpSpec == MtpInit /\ [][MtpNext]_mtpvars

THEOREM TableIsTrueHolds == MtpSpec => []TableIsTrue
<1>1. MtpInv /\ [MtpNext]_mtpvars => MtpInv'
  BY MtpNextIsStep DEF TableStep
<1> QED BY <1>1, MtpInvInit, TableTruth, PTL DEF MtpSpec

THEOREM RenameKeepsHandlesHolds == MtpSpec => RenameKeepsHandles
<1>1. MtpInv /\ [MtpNext]_mtpvars => MtpInv'
  BY MtpNextIsStep DEF TableStep
<1>2. MtpInv /\ [MtpNext]_mtpvars => [KeepsHandles]_mtpvars
  BY MtpNextIsStep, StepKeepsHandles
<1>3. MtpSpec => [][KeepsHandles]_mtpvars
  BY <1>1, <1>2, MtpInvInit, PTL DEF MtpSpec
<1> QED BY <1>3 DEF RenameKeepsHandles, KeepsHandles
=============================================================================
