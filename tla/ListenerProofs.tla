--------------------------- MODULE ListenerProofs ---------------------------
(***************************************************************************)
(* Theorems about Listener, for any devices, threads, clients and bounds.  *)
(***************************************************************************)
EXTENDS Listener, SequenceTheorems, TLAPS

\* The thread inside a call is the holder of g_servers_lock, and plug works on a device
\* that is not exported.
LockInv ==
  \A a \in Apps :
    /\ pc[a] # "idle" => g_lock = a
    /\ pc[a] \in {"start", "add"} => target[a] \in Devs /\ ~plugged[target[a]]

\* What the listener is like at each point of a call, and between calls.
PhaseInv ==
  /\ g_lock = None => (running <=> devs # <<>>) /\ (listening <=> devs # <<>>)
  /\ \A a \in Apps :
       /\ pc[a] = "start" => devs = <<>> /\ ~running /\ ~listening
       /\ pc[a] = "add" => running /\ listening
       /\ pc[a] = "stop" => devs = <<>> /\ running /\ listening
       /\ pc[a] = "shutdown" => devs = <<>> /\ ~running /\ listening
       /\ pc[a] = "join" => devs = <<>> /\ ~running /\ ~listening

\* The list holds the plugged devices, each once.
ListInv ==
  /\ \A i, j \in DOMAIN devs : devs[i] = devs[j] => i = j
  /\ \A d \in Devs : plugged[d] <=> \E i \in DOMAIN devs : devs[i] = d

\* The devnums in use are distinct and were handed out already.
DevnumInv ==
  /\ \A i \in DOMAIN devs : devnum[devs[i]] < next_devnum
  /\ UniqueDevnum

Inv == TypeOK /\ LockInv /\ PhaseInv /\ ListInv /\ DevnumInv

-----------------------------------------------------------------------------

\* Taking the k-th entry out: every entry that is left comes from another place, and
\* everything but the k-th is left.
LEMMA WithoutProperties ==
  ASSUME NEW S, NEW list \in Seq(S), NEW k \in DOMAIN list
  PROVE  /\ Without(list, k) \in Seq(S)
         /\ DOMAIN Without(list, k) = 1..(Len(list) - 1)
         /\ \A i \in 1..(Len(list) - 1) :
              Without(list, k)[i] = IF i < k THEN list[i] ELSE list[i + 1]
         /\ \A j \in DOMAIN list : j # k =>
              \E i \in 1..(Len(list) - 1) : Without(list, k)[i] = list[j]
<1>1. Len(list) \in Nat /\ DOMAIN list = 1..Len(list) /\ k \in 1..Len(list)
  OBVIOUS
<1>2. DOMAIN Without(list, k) = 1..(Len(list) - 1)
  BY DEF Without
<1>3. \A i \in 1..(Len(list) - 1) :
        Without(list, k)[i] = IF i < k THEN list[i] ELSE list[i + 1]
  BY DEF Without
<1>4. \A i \in 1..(Len(list) - 1) : i \in DOMAIN list /\ i + 1 \in DOMAIN list
  BY <1>1
<1>5. Without(list, k) \in Seq(S)
  BY <1>1, <1>4 DEF Without
<1>6. ASSUME NEW j \in DOMAIN list, j # k
      PROVE  \E i \in 1..(Len(list) - 1) : Without(list, k)[i] = list[j]
  <2>1. CASE j < k
    <3>1. j \in 1..(Len(list) - 1)
      BY <2>1, <1>1
    <3> QED BY <3>1, <2>1, <1>3
  <2>2. CASE j > k
    <3>1. j - 1 \in 1..(Len(list) - 1) /\ ~(j - 1 < k) /\ (j - 1) + 1 = j
      BY <2>2, <1>1
    <3> QED BY <3>1, <1>3
  <2> QED BY <1>1, <1>6, <2>1, <2>2
<1> QED BY <1>2, <1>3, <1>5, <1>6

LEMMA InitInv == Init => Inv
<1> SUFFICES ASSUME Init
             PROVE  Inv
  OBVIOUS
<1> USE ListenerAssumption
<1>1. TypeOK
  <2>1. devs \in Seq(Devs) /\ backlog \in Seq(Conns) /\ <<>> \in Seq(Devs)
    BY DEF Init
  <2>2. snap \in [Conns -> Seq(Devs)] /\ conn \in [Conns -> ConnStates]
    BY <2>1 DEF Init, ConnStates
  <2>3. imported \in [Conns -> Devs \cup {None}] /\ target \in [Apps -> Devs \cup {None}]
    BY DEF Init
  <2>4. busid \in [Devs -> Nat] /\ devnum \in [Devs -> Nat] /\ plugged \in [Devs -> BOOLEAN]
    BY DEF Init
  <2>5. pc \in [Apps -> {"idle", "start", "add", "stop", "shutdown", "join"}]
    BY DEF Init
  <2>6. /\ next_devnum \in Nat /\ running \in BOOLEAN /\ listening \in BOOLEAN
        /\ acceptor \in {"none", "loop", "accept", "exited"}
        /\ g_lock \in Apps \cup {None}
    BY DEF Init
  <2> QED BY <2>1, <2>2, <2>3, <2>4, <2>5, <2>6 DEF TypeOK
<1>2. LockInv /\ PhaseInv
  BY DEF Init, LockInv, PhaseInv
<1>3. ListInv /\ DevnumInv
  BY DEF Init, ListInv, DevnumInv, UniqueDevnum
<1> QED BY <1>1, <1>2, <1>3 DEF Inv

-----------------------------------------------------------------------------
(* Every step has its types                                                *)

LEMMA PlugTypes ==
  ASSUME TypeOK, NEW a \in Apps, NEW d \in Devs, Plug(a, d) \/ Unplug(a, d)
  PROVE  TypeOK'
<1> USE ListenerAssumption DEF TypeOK
<1>1. CASE Plug(a, d)
  BY <1>1 DEF Plug, Enter, servervars, devicevars, connvars
<1>2. CASE Unplug(a, d)
  <2>1. devs' \in Seq(Devs)
    <3>1. PICK k \in DOMAIN devs : devs' = Without(devs, k)
      BY <1>2 DEF Unplug
    <3> QED BY <3>1, WithoutProperties
  <2> QED BY <2>1, <1>2, ZenonT(30) DEF Unplug, Enter, appvars, connvars
<1> QED BY <1>1, <1>2

LEMMA CallTypes ==
  ASSUME TypeOK, LockInv, NEW a \in Apps, CallStep(a)
  PROVE  TypeOK'
<1> USE ListenerAssumption DEF TypeOK
<1>1. CASE ServerStart(a)
  BY <1>1 DEF ServerStart, Goto, devicevars, connvars
<1>2. CASE ServerStart_Fail(a)
  BY <1>2 DEF ServerStart_Fail, Leave, devicevars, connvars
<1>3. CASE PlugAdd(a)
  <2>1. target[a] \in Devs
    BY <1>3 DEF PlugAdd, LockInv
  <2>2. devs' \in Seq(Devs)
    BY <2>1, <1>3 DEF PlugAdd
  <2>3. busid' \in [Devs -> Nat]
    BY <2>1, <1>3 DEF PlugAdd
  <2>4. devnum' \in [Devs -> Nat] /\ plugged' \in [Devs -> BOOLEAN] /\ next_devnum' \in Nat
    BY <2>1, <1>3 DEF PlugAdd, NewDevnum
  <2> QED BY <2>2, <2>3, <2>4, <1>3 DEF PlugAdd, Leave, connvars
<1>4. CASE ServerStop(a)
  BY <1>4 DEF ServerStop, Goto, devicevars, connvars
<1>5. CASE ServerStop_Shutdown(a)
  <2>1. conn' \in [Conns -> ConnStates] /\ backlog' \in Seq(Conns)
    BY <1>5 DEF ServerStop_Shutdown, ConnStates
  <2> QED BY <2>1, <1>5 DEF ServerStop_Shutdown, Goto, devicevars
<1>6. CASE ServerStop_Join(a)
  BY <1>6 DEF ServerStop_Join, Leave, devicevars, connvars
<1> QED BY <1>1, <1>2, <1>3, <1>4, <1>5, <1>6 DEF CallStep

\* The variables that the accept thread and the connections leave alone.
quietvars == <<devs, next_devnum, running, listening, devicevars, appvars>>

LEMMA ConnTypes ==
  ASSUME TypeOK, AcceptStep \/ \E c \in Conns : ConnStep(c)
  PROVE  TypeOK' /\ UNCHANGED quietvars
<1> USE DEF TypeOK, ConnStates, quietvars, devicevars, appvars
<1>1. CASE AcceptLoop
  BY <1>1 DEF AcceptLoop, connvars
<1>2. CASE AcceptFails
  BY <1>2 DEF AcceptFails, connvars
<1>3. ASSUME NEW c \in Conns, Accept(c)
      PROVE  TypeOK' /\ UNCHANGED quietvars
  <2>1. backlog' \in Seq(Conns)
    BY <1>3, HeadTailProperties DEF Accept
  <2>2. conn' \in [Conns -> ConnStates]
    BY <1>3 DEF Accept
  <2> QED BY <2>1, <2>2, <1>3 DEF Accept, AfterAccept
<1>4. ASSUME NEW c \in Conns, Connect(c)
      PROVE  TypeOK' /\ UNCHANGED quietvars
  BY <1>4 DEF Connect, servervars
<1>5. ASSUME NEW c \in Conns, Handshake(c)
      PROVE  TypeOK' /\ UNCHANGED quietvars
  BY <1>5 DEF Handshake, servervars
<1>6. ASSUME NEW c \in Conns, NEW b \in Busids, Handshake_Import(c, b)
      PROVE  TypeOK' /\ UNCHANGED quietvars
  <2>1. snap' \in [Conns -> Seq(Devs)] /\ conn' \in [Conns -> ConnStates]
    <3>1. snap' = [snap EXCEPT ![c] = <<>>] /\ <<>> \in Seq(Devs)
      BY <1>6 DEF Handshake_Import
    <3>2. \/ conn' = [conn EXCEPT ![c] = "serving"]
          \/ conn' = [conn EXCEPT ![c] = "closed"]
      BY <1>6 DEF Handshake_Import
    <3> QED BY <3>1, <3>2
  <2>2. imported' \in [Conns -> Devs \cup {None}]
    <3>1. snap[c] \in Seq(Devs)
      OBVIOUS
    <3>2. CASE Matching(snap[c], b) # {}
      <4>1. PICK i \in Matching(snap[c], b) : imported' = [imported EXCEPT ![c] = snap[c][i]]
        BY <3>2, <1>6 DEF Handshake_Import
      <4>2. snap[c][i] \in Devs
        BY <3>1, <4>1 DEF Matching
      <4> QED BY <4>1, <4>2
    <3>3. CASE Matching(snap[c], b) = {}
      BY <3>3, <1>6 DEF Handshake_Import
    <3> QED BY <3>2, <3>3
  <2> QED BY <2>1, <2>2, <1>6 DEF Handshake_Import, servervars
<1>7. ASSUME NEW c \in Conns, Hangup(c)
      PROVE  TypeOK' /\ UNCHANGED quietvars
  BY <1>7 DEF Hangup, servervars
<1> QED BY <1>1, <1>2, <1>3, <1>4, <1>5, <1>6, <1>7 DEF AcceptStep, ConnStep

-----------------------------------------------------------------------------
(* Every step keeps the listener consistent                                *)

LEMMA PlugStep ==
  ASSUME Inv, NEW a \in Apps, NEW d \in Devs, Plug(a, d)
  PROVE  (LockInv /\ PhaseInv /\ ListInv /\ DevnumInv)'
<1> USE ListenerAssumption DEF Inv, TypeOK
<1>1. UNCHANGED <<devs, next_devnum, running, listening, plugged, devnum>>
  BY DEF Plug, servervars, devicevars
<1>2. LockInv'
  BY <1>1 DEF Plug, Enter, LockInv
<1>3. PhaseInv'
  BY <1>1 DEF Plug, Enter, LockInv, PhaseInv
<1>4. ListInv' /\ DevnumInv'
  BY <1>1 DEF ListInv, DevnumInv, UniqueDevnum
<1> QED BY <1>2, <1>3, <1>4

LEMMA AddStep ==
  ASSUME Inv, NEW a \in Apps, PlugAdd(a)
  PROVE  (LockInv /\ PhaseInv /\ ListInv /\ DevnumInv)'
<1> USE ListenerAssumption DEF Inv, TypeOK
<1> DEFINE d == target[a]
           n == Len(devs)
<1>1. d \in Devs /\ ~plugged[d] /\ g_lock = a /\ running /\ listening
  BY DEF PlugAdd, LockInv, PhaseInv
<1>2. /\ devs' = Append(devs, d) /\ UNCHANGED <<running, listening>>
      /\ plugged' = [plugged EXCEPT ![d] = TRUE]
      /\ devnum' = [devnum EXCEPT ![d] = next_devnum]
      /\ next_devnum' = next_devnum + 1
  BY DEF PlugAdd, NewDevnum
<1>3. \A i \in DOMAIN devs : devs[i] # d /\ devs[i] \in Devs
  BY <1>1 DEF ListInv
<1>4. /\ n \in Nat /\ DOMAIN devs = 1..n /\ DOMAIN devs' = 1..(n + 1)
      /\ devs' # <<>>
      /\ \A i \in 1..n : devs'[i] = devs[i]
      /\ devs'[n + 1] = d
  BY <1>1, <1>2
<1>5. LockInv'
  BY <1>1, <1>2 DEF PlugAdd, Leave, LockInv
<1>6. PhaseInv'
  BY <1>1, <1>2, <1>4, SMTT(30) DEF PlugAdd, Leave, LockInv, PhaseInv
<1> HIDE DEF d, n
<1>7. ListInv /\ DevnumInv /\ next_devnum \in Nat /\ devnum \in [Devs -> Nat]
      /\ plugged \in [Devs -> BOOLEAN]
  OBVIOUS
<1> HIDE DEF Inv, TypeOK
<1>8. /\ \A i \in DOMAIN devs' : (i \in DOMAIN devs /\ devs'[i] = devs[i]) \/ i = n + 1
      /\ \A i \in DOMAIN devs : i \in DOMAIN devs' /\ devs'[i] = devs[i]
      /\ n + 1 \in DOMAIN devs'
  <2>1. \A i \in 1..(n + 1) : i \in 1..n \/ i = n + 1
    BY <1>4
  <2>2. n + 1 \in 1..(n + 1) /\ \A i \in 1..n : i \in 1..(n + 1)
    BY <1>4
  <2> QED BY <2>1, <2>2, <1>4
<1>9. ListInv'
  <2>1. \A i, j \in DOMAIN devs' : devs'[i] = devs'[j] => i = j
    BY <1>3, <1>4, <1>8, <1>7 DEF ListInv
  <2>2. ASSUME NEW e \in Devs
        PROVE  plugged'[e] <=> \E i \in DOMAIN devs' : devs'[i] = e
    <3>1. CASE e = d
      BY <3>1, <1>1, <1>2, <1>4, <1>8, <1>7
    <3>2. CASE e # d
      <4>1. plugged'[e] <=> plugged[e]
        BY <3>2, <1>1, <1>2, <1>7
      <4>2. (\E i \in DOMAIN devs' : devs'[i] = e) <=> \E i \in DOMAIN devs : devs[i] = e
        BY <3>2, <1>4, <1>8
      <4> QED BY <4>1, <4>2, <1>7 DEF ListInv
    <3> QED BY <3>1, <3>2
  <2> QED BY <2>1, <2>2 DEF ListInv
<1>10. DevnumInv'
  <2>1. \A i \in DOMAIN devs :
          devnum'[devs'[i]] = devnum[devs[i]] /\ devnum[devs[i]] < next_devnum
    BY <1>1, <1>2, <1>3, <1>8, <1>7 DEF DevnumInv
  <2>2. devnum'[devs'[n + 1]] = next_devnum
    BY <1>1, <1>2, <1>4, <1>7
  <2>3. \A i \in DOMAIN devs : devnum[devs[i]] \in Nat
    BY <1>3, <1>7
  <2>4. \A i \in DOMAIN devs' : devnum'[devs'[i]] < next_devnum'
    BY <2>1, <2>2, <2>3, <1>2, <1>8, <1>7
  <2>5. UniqueDevnum'
    <3>1. \A i \in DOMAIN devs : devnum'[devs'[i]] # devnum'[devs'[n + 1]]
      BY <2>1, <2>2, <2>3, <1>7
    <3>2. \A i, j \in DOMAIN devs : devnum'[devs'[i]] = devnum'[devs'[j]] => i = j
      BY <2>1, <1>7 DEF DevnumInv, UniqueDevnum
    <3> QED BY <3>1, <3>2, <1>8 DEF UniqueDevnum
  <2> QED BY <2>4, <2>5 DEF DevnumInv
<1> QED BY <1>5, <1>6, <1>9, <1>10

LEMMA UnplugStep ==
  ASSUME Inv, NEW a \in Apps, NEW d \in Devs, Unplug(a, d)
  PROVE  (LockInv /\ PhaseInv /\ ListInv /\ DevnumInv)'
<1> DEFINE n == Len(devs)
<1>1. PICK k \in DOMAIN devs : devs[k] = d /\ devs' = Without(devs, k)
  BY DEF Unplug
<1>2. /\ devs \in Seq(Devs) /\ n \in Nat /\ DOMAIN devs = 1..n /\ k \in 1..n
      /\ plugged \in [Devs -> BOOLEAN] /\ g_lock = None /\ \A b \in Apps : pc[b] = "idle"
      /\ pc \in [Apps -> {"idle", "start", "add", "stop", "shutdown", "join"}]
      /\ \A i \in DOMAIN devs : devs[i] \in Devs
      /\ LockInv /\ PhaseInv /\ ListInv /\ DevnumInv
  BY <1>1, ListenerAssumption, SMTT(30) DEF Unplug, Enter, Inv, TypeOK, LockInv
<1>3. /\ plugged' = [plugged EXCEPT ![d] = FALSE]
      /\ UNCHANGED <<next_devnum, running, listening, devnum>>
  BY DEF Unplug
<1>4. devs # <<>> /\ running /\ listening
  BY <1>1, <1>2 DEF PhaseInv
<1>5. LockInv' /\ PhaseInv'
  <2>1. CASE devs' = <<>>
    <3>1. g_lock' = a /\ pc' = [pc EXCEPT ![a] = "stop"]
      BY <2>1 DEF Unplug, LastOut, Enter
    <3> QED BY <3>1, <2>1, <1>2, <1>3, <1>4, ListenerAssumption DEF LockInv, PhaseInv
  <2>2. CASE devs' # <<>>
    <3>1. UNCHANGED <<g_lock, pc, target>>
      BY <2>2 DEF Unplug, LastOut, appvars
    <3> QED BY <3>1, <2>2, <1>2, <1>3, <1>4 DEF LockInv, PhaseInv
  <2> QED BY <2>1, <2>2
<1> DEFINE from(i) == IF i < k THEN i ELSE i + 1
<1>6. /\ DOMAIN devs' = 1..(n - 1)
      /\ \A i \in 1..(n - 1) : devs'[i] = IF i < k THEN devs[i] ELSE devs[i + 1]
      /\ \A j \in DOMAIN devs : j # k => \E i \in 1..(n - 1) : devs'[i] = devs[j]
  BY <1>1, <1>2, WithoutProperties, ZenonT(30)
<1>7. \A i \in 1..(n - 1) : from(i) \in DOMAIN devs /\ from(i) # k /\ devs'[i] = devs[from(i)]
  BY <1>2, <1>6
<1>8. \A i, j \in 1..(n - 1) : from(i) = from(j) => i = j
  BY <1>2
<1> HIDE DEF from, n
<1>9. ListInv'
  <2>1. \A i, j \in DOMAIN devs' : devs'[i] = devs'[j] => i = j
    BY <1>2, <1>6, <1>7, <1>8 DEF ListInv
  <2>2. ASSUME NEW e \in Devs
        PROVE  plugged'[e] <=> \E i \in DOMAIN devs' : devs'[i] = e
    <3>1. CASE e = d
      <4>1. ~plugged'[e]
        BY <3>1, <1>2, <1>3
      <4>2. \A i \in DOMAIN devs' : devs'[i] # e
        BY <3>1, <1>1, <1>2, <1>6, <1>7 DEF ListInv
      <4> QED BY <4>1, <4>2
    <3>2. CASE e # d
      <4>1. plugged'[e] <=> plugged[e]
        BY <3>2, <1>2, <1>3
      <4>2. (\E i \in DOMAIN devs' : devs'[i] = e) => \E i \in DOMAIN devs : devs[i] = e
        BY <1>6, <1>7
      <4>3. (\E i \in DOMAIN devs : devs[i] = e) => \E i \in DOMAIN devs' : devs'[i] = e
        BY <3>2, <1>1, <1>6
      <4> QED BY <4>1, <4>2, <4>3, <1>2 DEF ListInv
    <3> QED BY <3>1, <3>2
  <2> QED BY <2>1, <2>2 DEF ListInv
<1>10. DevnumInv'
  <2>1. \A i \in DOMAIN devs' : /\ from(i) \in DOMAIN devs
                                /\ devnum'[devs'[i]] = devnum[devs[from(i)]]
    BY <1>3, <1>6, <1>7
  <2>2. \A i \in DOMAIN devs' : devnum'[devs'[i]] < next_devnum'
    BY <2>1, <1>2, <1>3 DEF DevnumInv
  <2>3. UniqueDevnum'
    BY <2>1, <1>2, <1>6, <1>8, SMTT(30) DEF DevnumInv, UniqueDevnum
  <2> QED BY <2>2, <2>3 DEF DevnumInv
<1> QED BY <1>5, <1>9, <1>10

\* The steps of server_start and server_stop: the list of devices is empty throughout.
LEMMA StartStopStep ==
  ASSUME Inv, NEW a \in Apps,
         \/ ServerStart(a) \/ ServerStart_Fail(a)
         \/ ServerStop(a) \/ ServerStop_Shutdown(a) \/ ServerStop_Join(a)
  PROVE  (LockInv /\ PhaseInv /\ ListInv /\ DevnumInv)'
<1>1. /\ g_lock = a /\ a # None /\ devs = <<>>
      /\ pc \in [Apps -> {"idle", "start", "add", "stop", "shutdown", "join"}]
      /\ LockInv /\ PhaseInv /\ ListInv
  <2>1. pc[a] \in {"start", "stop", "shutdown", "join"}
    BY DEF ServerStart, ServerStart_Fail, ServerStop, ServerStop_Shutdown, ServerStop_Join
  <2>2. LockInv /\ PhaseInv /\ ListInv
    BY DEF Inv
  <2>3. g_lock = a /\ devs = <<>>
    BY <2>1, <2>2 DEF LockInv, PhaseInv
  <2>4. pc \in [Apps -> {"idle", "start", "add", "stop", "shutdown", "join"}]
    BY DEF Inv, TypeOK
  <2> QED BY <2>2, <2>3, <2>4, ListenerAssumption
<1>2. \A b \in Apps : b # a => pc[b] = "idle"
  BY <1>1 DEF LockInv
<1>3. devs' = <<>> /\ UNCHANGED plugged
  BY <1>1 DEF ServerStart, ServerStart_Fail, ServerStop, ServerStop_Shutdown, ServerStop_Join, devicevars
<1>4. ListInv'
  BY <1>1, <1>3 DEF ListInv
<1>5. DevnumInv'
  BY <1>3 DEF DevnumInv, UniqueDevnum
<1>6. LockInv' /\ PhaseInv'
  <2>1. CASE ServerStart(a)
    BY <2>1, <1>1, <1>2, <1>3 DEF ServerStart, Goto, LockInv, PhaseInv
  <2>2. CASE ServerStart_Fail(a)
    BY <2>2, <1>1, <1>2, <1>3 DEF ServerStart_Fail, Leave, LockInv, PhaseInv
  <2>3. CASE ServerStop(a)
    BY <2>3, <1>1, <1>2, <1>3 DEF ServerStop, Goto, LockInv, PhaseInv
  <2>4. CASE ServerStop_Shutdown(a)
    BY <2>4, <1>1, <1>2, <1>3 DEF ServerStop_Shutdown, Goto, LockInv, PhaseInv
  <2>5. CASE ServerStop_Join(a)
    BY <2>5, <1>1, <1>2, <1>3 DEF ServerStop_Join, Leave, LockInv, PhaseInv
  <2> QED BY <2>1, <2>2, <2>3, <2>4, <2>5
<1> QED BY <1>4, <1>5, <1>6

LEMMA NextInv == Inv /\ [Next]_vars => Inv'
<1> SUFFICES ASSUME Inv, [Next]_vars
             PROVE  Inv'
  OBVIOUS
<1>1. TypeOK /\ LockInv
  BY DEF Inv
<1>2. ASSUME NEW a \in Apps, NEW d \in Devs, Plug(a, d)
      PROVE  Inv'
  BY <1>1, <1>2, PlugTypes, PlugStep DEF Inv
<1>3. ASSUME NEW a \in Apps, NEW d \in Devs, Unplug(a, d)
      PROVE  Inv'
  BY <1>1, <1>3, PlugTypes, UnplugStep DEF Inv
<1>4. ASSUME NEW a \in Apps, CallStep(a)
      PROVE  Inv'
  BY <1>1, <1>4, CallTypes, AddStep, StartStopStep DEF Inv, CallStep
<1>5. ASSUME UNCHANGED quietvars
      PROVE  (LockInv /\ PhaseInv /\ ListInv /\ DevnumInv)'
  BY <1>5 DEF quietvars, devicevars, appvars, Inv, LockInv, PhaseInv, ListInv, DevnumInv, UniqueDevnum
<1>6. CASE AcceptStep \/ \E c \in Conns : ConnStep(c)
  BY <1>1, <1>5, <1>6, ConnTypes DEF Inv
<1>7. CASE UNCHANGED vars
  <2>1. TypeOK'
    BY <1>1, <1>7 DEF vars, servervars, devicevars, appvars, connvars, TypeOK
  <2>2. UNCHANGED quietvars
    BY <1>7 DEF vars, servervars, quietvars
  <2> QED BY <2>1, <2>2, <1>5 DEF Inv
<1> QED BY <1>2, <1>3, <1>4, <1>6, <1>7 DEF Next

-----------------------------------------------------------------------------
(* The theorems                                                            *)

LEMMA InvHolds == Spec => []Inv
<1>1. Init => Inv
  BY InitInv
<1>2. Inv /\ [Next]_vars => Inv'
  BY NextInv
<1> QED BY <1>1, <1>2, PTL DEF Spec

\* The state of the listener (struct usbip_server, its devices and its threads) keeps
\* its types whatever is plugged, unplugged, accepted or imported.
THEOREM TypeCorrect == Spec => []TypeOK
<1>1. Inv => TypeOK
  BY DEF Inv
<1> QED BY <1>1, InvHolds, PTL

\* usbip_serve_start never gives two exported devices one devnum, however many were
\* plugged and unplugged before: next_devnum is ahead of every devnum in use, and it
\* starts over only when the list is empty.
THEOREM UniqueDevnumHolds == Spec => []UniqueDevnum
<1>1. Inv => UniqueDevnum
  BY DEF Inv, DevnumInv
<1> QED BY <1>1, InvHolds, PTL

\* Between calls the listener is up exactly while devices are exported: every error
\* path of usbip_serve_start and the last usbip_serve_stop leave it whole or gone.
THEOREM ListenerMatchesExportsHolds == Spec => []ListenerMatchesExports
<1>1. Inv => ListenerMatchesExports
  BY DEF Inv, PhaseInv, ListInv, ListenerMatchesExports
<1> QED BY <1>1, InvHolds, PTL

\* The two together: whichever calls failed, exported devices can be told apart and the
\* listener is up for exactly those (usbip_serve_start, usbip_serve_stop).
THEOREM ExportsAreSoundHolds == Spec => []ExportsAreSound
<1>1. UniqueDevnum /\ ListenerMatchesExports => ExportsAreSound
  BY DEF ExportsAreSound
<1> QED BY <1>1, UniqueDevnumHolds, ListenerMatchesExportsHolds, PTL
=============================================================================
