---------------------------- MODULE WrapperProofs ----------------------------
(***************************************************************************)
(* Theorems about the parts of the two wrapper libraries that the model    *)
(* checker's composition runs one at a time, each with a specification of  *)
(* its own here: the device objects of the libusb replacement, and the     *)
(* overlapped transfers, the pipe streams and the device lists of the      *)
(* libusbK replacement, for any number of handles, objects, overlappeds,   *)
(* slots, callers, lists and infos.                                        *)
(***************************************************************************)
EXTENDS LibusbDevices, LkOverlapped, LkStream, LkLists, FiniteSetTheorems, SequenceTheorems, TLAPS

-----------------------------------------------------------------------------
(* Device objects                                                          *)

\* Devices come and go on the server and connections break under the program.
DevicesServer ==
  /\ \/ \E b \in Busids : Plug(b) \/ Unplug(b)
     \/ \E h \in Handles : ServerAnswers(h) \/ ServerDrops(h)
  /\ UNCHANGED devvars

DevicesSpec ==
  ClientInit /\ DevicesInit /\ [][DevicesNext \/ DevicesServer]_<<clientvars, devvars>>

Conns == [open : BOOLEAN, up : BOOLEAN, devnum : 0..MaxDevnum, devid : 0..MaxDevnum, seq : 0..MaxSeq,
          wire : Seq(1..MaxSeq), torn : 0..MaxSeq, replies : Seq(Units), skew : BOOLEAN]
Objects == [refcnt : Int, busid : Busids \cup {"none"}, devnum : 0..MaxDevnum, cfg : BOOLEAN]

\* What the counts need of the types.
Counted ==
  /\ dev \in [Devs -> Objects]
  /\ list \subseteq Devs
  /\ owned \in [Devs -> 0..1]
  /\ hdev \in [Handles -> Devs \cup {NoDev}]
  /\ ClientTypeOK

\* A handle has an object exactly while it is open.
HandleHasObject == \A h \in Handles : conn[h].open <=> hdev[h] # NoDev

\* An object that somebody refers to is a snapshot of a device.
LiveIsNamed == \A d \in Devs : dev[d].refcnt # 0 => dev[d].busid \in Busids

\* The handles opened through d, and all the references to it.
Users(hd, d) == {h \in Handles : hd[h] = d}
Refs(l, o, hd, d) == (IF d \in l THEN 1 ELSE 0) + o[d] + Cardinality(Users(hd, d))

CountsAgree == \A d \in Devs : dev[d].refcnt = Refs(list, owned, hdev, d)
DevidsAgree == \A h \in Handles : conn[h].devid = conn[h].devnum

DevInv == Counted /\ HandleHasObject /\ LiveIsNamed /\ CountsAgree /\ DevidsAgree

LEMMA UsersFinite ==
  ASSUME NEW hd, NEW d
  PROVE  IsFiniteSet(Users(hd, d)) /\ Cardinality(Users(hd, d)) \in Nat
<1>1. Users(hd, d) \subseteq Handles
  BY DEF Users
<1>2. IsFiniteSet(Users(hd, d))
  BY <1>1, DevicesAssumption, FS_Subset
<1> QED
  BY <1>2, FS_CardinalityType

\* d has k users more (or fewer) than before, the others have theirs.
UsersChange(hd, hn, d, k) ==
  \A e \in Devs : Cardinality(Users(hn, e)) = Cardinality(Users(hd, e)) + (IF e = d THEN k ELSE 0)

\* A handle that had no object gets d: d has one user more, the others have theirs.
LEMMA UserAdded ==
  ASSUME NEW hd \in [Handles -> Devs \cup {NoDev}], NEW h \in Handles, NEW d \in Devs, hd[h] = NoDev,
         NEW hn, hn = [hd EXCEPT ![h] = d]
  PROVE  UsersChange(hd, hn, d, 1)
<1> SUFFICES ASSUME NEW e \in Devs
             PROVE  Cardinality(Users(hn, e))
                      = Cardinality(Users(hd, e)) + (IF e = d THEN 1 ELSE 0)
  BY DEF UsersChange
<1>1. IsFiniteSet(Users(hd, e)) /\ Cardinality(Users(hd, e)) \in Nat
  BY UsersFinite
<1>2. h \notin Users(hd, e)
  BY DevicesAssumption DEF Users
<1>3. CASE e = d
  <2>1. Users(hn, e) = Users(hd, e) \cup {h}
    BY <1>3 DEF Users
  <2>2. Cardinality(Users(hd, e) \cup {h}) = Cardinality(Users(hd, e)) + 1
    BY <1>1, <1>2, FS_AddElement
  <2> QED
    BY <1>3, <2>1, <2>2
<1>4. CASE e # d
  <2>1. Users(hn, e) = Users(hd, e)
    BY <1>2, <1>4 DEF Users
  <2> QED
    BY <1>1, <1>4, <2>1
<1> QED
  BY <1>3, <1>4

\* The handle lets go of its object d.
LEMMA UserRemoved ==
  ASSUME NEW hd \in [Handles -> Devs \cup {NoDev}], NEW h \in Handles, NEW d \in Devs, hd[h] = d,
         NEW hn, hn = [hd EXCEPT ![h] = NoDev]
  PROVE  UsersChange(hd, hn, d, -1)
<1> SUFFICES ASSUME NEW e \in Devs
             PROVE  Cardinality(Users(hn, e))
                      = Cardinality(Users(hd, e)) + (IF e = d THEN -1 ELSE 0)
  BY DEF UsersChange
<1>1. IsFiniteSet(Users(hd, e)) /\ Cardinality(Users(hd, e)) \in Nat
  BY UsersFinite
<1>3. CASE e = d
  <2>1. h \in Users(hd, e)
    BY <1>3 DEF Users
  <2>2. Users(hn, e) = Users(hd, e) \ {h}
    BY <1>3, DevicesAssumption DEF Users
  <2>3. Cardinality(Users(hd, e) \ {h}) = Cardinality(Users(hd, e)) - 1
    BY <1>1, <2>1, FS_RemoveElement
  <2> QED
    BY <1>3, <2>2, <2>3
<1>4. CASE e # d
  <2>1. Users(hn, e) = Users(hd, e)
    BY <1>4, DevicesAssumption DEF Users
  <2> QED
    BY <1>1, <1>4, <2>1
<1> QED
  BY <1>3, <1>4

\* An object nobody refers to is in no list, no hand and no handle.
LEMMA FreedIsForgotten ==
  ASSUME DevInv, NEW d \in Devs, dev[d].refcnt = 0
  PROVE  d \notin list /\ owned[d] = 0 /\ Cardinality(Users(hdev, d)) = 0
<1>1. Cardinality(Users(hdev, d)) \in Nat /\ owned[d] \in 0..1
  BY UsersFinite DEF DevInv, Counted
<1>2. 0 = (IF d \in list THEN 1 ELSE 0) + owned[d] + Cardinality(Users(hdev, d))
  BY DEF DevInv, CountsAgree, Refs
<1> QED
  BY <1>1, <1>2

LEMMA DevicesInitial == ClientInit /\ DevicesInit => DevInv
<1> SUFFICES ASSUME ClientInit, DevicesInit PROVE DevInv
  OBVIOUS
<1>0. MaxDevnum \in Nat
  BY ClientAssumption
<1>1. NoObject \in Objects /\ NoObject.refcnt = 0
  BY <1>0 DEF NoObject, Objects
<1>2. Counted
  <2>1. ClientTypeOK
    BY <1>0, ClientAssumption DEF ClientInit, ClientTypeOK, Closed, NoCall, Units
  <2> QED
    BY <1>1, <2>1 DEF Counted, DevicesInit
<1>3. HandleHasObject /\ DevidsAgree
  BY DEF HandleHasObject, DevidsAgree, DevicesInit, ClientInit, Closed
<1>4. LiveIsNamed
  BY <1>1 DEF LiveIsNamed, DevicesInit
<1>5. ASSUME NEW d \in Devs PROVE dev[d].refcnt = Refs(list, owned, hdev, d)
  <2>1. Users(hdev, d) = {}
    BY DevicesAssumption DEF Users, DevicesInit
  <2>2. Cardinality(Users(hdev, d)) = 0
    BY <2>1, FS_EmptySet
  <2>3. dev[d].refcnt = 0 /\ d \notin list /\ owned[d] = 0
    BY <1>1 DEF DevicesInit
  <2> QED
    BY <2>2, <2>3 DEF Refs
<1> QED
  BY <1>2, <1>3, <1>4, <1>5 DEF DevInv, CountsAgree

LEMMA NumsAreSound == MaxDevnum \in Nat /\ MaxSeq \in Nat \ {0}
BY ClientAssumption

LEMMA FirstAndRest ==
  ASSUME NEW S, NEW s \in Seq(S), s # <<>>
  PROVE  Head(s) \in S /\ Tail(s) \in Seq(S)
OBVIOUS

\* A connection changes but for what it was opened on.
LEMMA SameIdentity ==
  ASSUME ClientTypeOK, NEW h \in Handles, NEW d \in Conns,
         d.open = conn[h].open, d.devid = conn[h].devid, d.devnum = conn[h].devnum,
         conn' = [conn EXCEPT ![h] = d], UNCHANGED <<exported, next_devnum, iolock, call>>
  PROVE  ClientTypeOK' /\ \A g \in Handles : /\ conn'[g].open = conn[g].open /\ conn'[g].devid = conn[g].devid
                                             /\ conn'[g].devnum = conn[g].devnum
<1>1. conn \in [Handles -> Conns]
  BY DEF ClientTypeOK, Conns
<1>2. conn' \in [Handles -> Conns] /\ conn'[h] = d /\ \A g \in Handles : g # h => conn'[g] = conn[g]
  BY <1>1
<1>3. ClientTypeOK'
  BY <1>2 DEF ClientTypeOK, Conns
<1> QED
  BY <1>2, <1>3

\* A step of the server: no handle, object or reference changes.
LEMMA ServerKeepsCounts ==
  ASSUME DevInv, DevicesServer
  PROVE  DevInv'
<1>0. UNCHANGED <<dev, list, owned, hdev>>
  BY DEF DevicesServer, devvars
<1>t. ClientTypeOK
  BY DEF DevInv, Counted
<1>1. ClientTypeOK' /\ \A h \in Handles : /\ conn'[h].open = conn[h].open /\ conn'[h].devid = conn[h].devid
                                          /\ conn'[h].devnum = conn[h].devnum
  <2>1. CASE \E b \in Busids : Plug(b)
    BY <1>t, <2>1, NumsAreSound DEF Plug, ClientTypeOK
  <2>2. CASE \E b \in Busids : Unplug(b)
    BY <1>t, <2>2, NumsAreSound DEF Unplug, ClientTypeOK
  <2>4. CASE \E h \in Handles : ServerAnswers(h) \/ ServerDrops(h)
    <3>1. PICK h \in Handles : ServerAnswers(h) \/ ServerDrops(h)
      BY <2>4
    <3>2. conn \in [Handles -> Conns] /\ conn[h] \in Conns
      BY <1>t DEF ClientTypeOK, Conns
    <3>3. conn[h].wire \in Seq(1..MaxSeq) /\ conn[h].replies \in Seq(Units) /\ conn[h].up \in BOOLEAN
      BY <3>2 DEF Conns
    <3>4. CASE ServerAnswers(h)
      <4> DEFINE a == [part |-> "reply", seq |-> Head(conn[h].wire)]
                 w == Tail(conn[h].wire)
                 r == Append(conn[h].replies, a)
                 d == [conn[h] EXCEPT !.wire = w, !.replies = r]
      <4>1. conn[h].wire # <<>>
        BY <3>4 DEF ServerAnswers
      <4>2. Head(conn[h].wire) \in 1..MaxSeq /\ w \in Seq(1..MaxSeq)
        BY <3>3, <4>1, FirstAndRest
      <4>3. a \in Units
        BY <4>2 DEF Units
      <4>4. r \in Seq(Units)
        BY <3>3, <4>3, AppendProperties
      <4>5. conn' = [conn EXCEPT ![h] = d] /\ UNCHANGED <<exported, next_devnum, iolock, call>>
        BY <3>2, <3>4 DEF ServerAnswers
      <4> HIDE DEF w, r
      <4>6. d \in Conns /\ d.open = conn[h].open /\ d.devid = conn[h].devid /\ d.devnum = conn[h].devnum
        BY <3>2, <4>2, <4>4 DEF Conns
      <4> HIDE DEF d
      <4> QED
        BY <1>t, <4>5, <4>6, SameIdentity
    <3>5. CASE ServerDrops(h)
      <4> DEFINE d == [conn[h] EXCEPT !.up = FALSE, !.wire = <<>>]
      <4>1. <<>> \in Seq(1..MaxSeq)
        OBVIOUS
      <4>2. conn' = [conn EXCEPT ![h] = d] /\ UNCHANGED <<exported, next_devnum, iolock, call>>
        BY <3>2, <3>5 DEF ServerDrops
      <4>3. d \in Conns /\ d.open = conn[h].open /\ d.devid = conn[h].devid /\ d.devnum = conn[h].devnum
        BY <3>2, <4>1 DEF Conns
      <4> HIDE DEF d
      <4> QED
        BY <1>t, <4>2, <4>3, SameIdentity
    <3> QED
      BY <3>1, <3>4, <3>5
  <2> QED
    BY <2>1, <2>2, <2>4 DEF DevicesServer
<1>2. Counted' /\ LiveIsNamed' /\ CountsAgree'
  BY <1>0, <1>1 DEF DevInv, Counted, LiveIsNamed, CountsAgree
<1>3. HandleHasObject' /\ DevidsAgree'
  BY <1>0, <1>1 DEF DevInv, HandleHasObject, DevidsAgree
<1> QED
  BY <1>2, <1>3 DEF DevInv

\* A step that opens and closes nothing and whose counts come out right.
LEMMA RecountStep ==
  ASSUME DevInv, UNCHANGED <<clientvars, hdev>>,
         dev' \in [Devs -> Objects], list' \subseteq Devs, owned' \in [Devs -> 0..1],
         CountsAgree', LiveIsNamed'
  PROVE  DevInv'
<1>1. UNCHANGED <<exported, next_devnum, conn, iolock, call>>
  BY DEF clientvars
<1>2. Counted'
  BY <1>1 DEF DevInv, Counted, ClientTypeOK
<1>3. HandleHasObject' /\ DevidsAgree'
  BY <1>1 DEF DevInv, HandleHasObject, DevidsAgree
<1> QED
  BY <1>2, <1>3 DEF DevInv

LEMMA GetListStep ==
  ASSUME DevInv, libusb_get_device_list
  PROVE  DevInv'
<1>1. PICK ds \in SUBSET {d \in Devs : dev[d].refcnt = 0} :
        \E f \in [ds -> usbip_client_devlist] :
          /\ list' = ds
          /\ dev' = [d \in Devs |-> IF d \notin ds THEN dev[d]
                       ELSE [refcnt |-> 1, busid |-> f[d].busid, devnum |-> f[d].devnum, cfg |-> FALSE]]
  BY DEF libusb_get_device_list
<1>2. PICK f \in [ds -> usbip_client_devlist] :
        dev' = [d \in Devs |-> IF d \notin ds THEN dev[d]
                  ELSE [refcnt |-> 1, busid |-> f[d].busid, devnum |-> f[d].devnum, cfg |-> FALSE]]
  BY <1>1
<1>3. UNCHANGED <<clientvars, owned, hdev>> /\ list = {} /\ list' = ds
  BY <1>1 DEF libusb_get_device_list
<1>4. ASSUME NEW d \in ds
      PROVE  f[d].busid \in Busids /\ f[d].devnum \in 0..MaxDevnum
  <2>1. f[d] \in usbip_client_devlist
    OBVIOUS
  <2>2. PICK b \in Busids : f[d] = [busid |-> b, devnum |-> exported[b]]
    BY <2>1 DEF usbip_client_devlist
  <2> QED
    BY <2>2 DEF DevInv, Counted, ClientTypeOK
<1> DEFINE new(d) == [refcnt |-> 1, busid |-> f[d].busid, devnum |-> f[d].devnum, cfg |-> FALSE]
<1>5. \A d \in ds : new(d) \in Objects /\ new(d).refcnt = 1 /\ new(d).busid \in Busids
  BY <1>4 DEF Objects
<1>6. \A d \in Devs : dev'[d] = IF d \notin ds THEN dev[d] ELSE new(d)
  BY <1>2
<1>7. dev' \in [Devs -> Objects]
  BY <1>2, <1>5 DEF DevInv, Counted
<1> HIDE DEF new
<1>8. LiveIsNamed'
  BY <1>5, <1>6 DEF DevInv, LiveIsNamed
<1>9. ASSUME NEW d \in Devs PROVE dev'[d].refcnt = Refs(list', owned', hdev', d)
  <2>1. Cardinality(Users(hdev, d)) \in Nat /\ owned[d] \in 0..1
    BY UsersFinite DEF DevInv, Counted
  <2>2. dev[d].refcnt = 0 + owned[d] + Cardinality(Users(hdev, d))
    BY <1>3 DEF DevInv, CountsAgree, Refs
  <2>3. d \in ds => owned[d] = 0 /\ Cardinality(Users(hdev, d)) = 0
    BY FreedIsForgotten
  <2> QED
    BY <1>3, <1>5, <1>6, <2>1, <2>2, <2>3 DEF Refs
<1> QED
  BY <1>3, <1>7, <1>8, <1>9, RecountStep DEF CountsAgree, DevInv, Counted

\* libusb_unref_device takes one reference from each object of ds, which had one.
LEMMA UnreferencedFacts ==
  ASSUME DevInv, NEW ds, NEW d \in Devs, d \in ds => dev[d].refcnt >= 1
  PROVE  /\ Unreferenced(ds)[d] \in Objects
         /\ Unreferenced(ds)[d].refcnt = dev[d].refcnt - (IF d \in ds THEN 1 ELSE 0)
         /\ Unreferenced(ds)[d].refcnt # 0 => Unreferenced(ds)[d].busid \in Busids
<1>0. dev[d] \in Objects /\ dev[d].refcnt \in Int
  BY DEF DevInv, Counted, Objects
<1>1. Unreferenced(ds)[d] = IF d \notin ds THEN dev[d]
        ELSE IF dev[d].refcnt <= 1 THEN NoObject ELSE [dev[d] EXCEPT !.refcnt = dev[d].refcnt - 1]
  BY DEF Unreferenced
<1>2. NoObject \in Objects /\ NoObject.refcnt = 0
  BY NumsAreSound DEF NoObject, Objects
<1>3. /\ [dev[d] EXCEPT !.refcnt = dev[d].refcnt - 1] \in Objects
      /\ [dev[d] EXCEPT !.refcnt = dev[d].refcnt - 1].refcnt = dev[d].refcnt - 1
      /\ [dev[d] EXCEPT !.refcnt = dev[d].refcnt - 1].busid = dev[d].busid
  BY <1>0 DEF Objects
<1>4. dev[d].refcnt # 0 => dev[d].busid \in Busids
  BY DEF DevInv, LiveIsNamed
<1> QED
  BY <1>0, <1>1, <1>2, <1>3, <1>4

LEMMA UnreferencedIsAFunction == \A ds : DOMAIN Unreferenced(ds) = Devs
BY DEF Unreferenced

LEMMA RefsFacts ==
  ASSUME DevInv, NEW d \in Devs
  PROVE  /\ Cardinality(Users(hdev, d)) \in Nat /\ owned[d] \in 0..1 /\ dev[d].refcnt \in Int
         /\ dev[d].refcnt = (IF d \in list THEN 1 ELSE 0) + owned[d] + Cardinality(Users(hdev, d))
BY UsersFinite DEF DevInv, Counted, CountsAgree, Refs, Objects

LEMMA FreeListStep ==
  ASSUME DevInv, NEW u \in BOOLEAN, libusb_free_device_list(u)
  PROVE  DevInv'
<1>1. UNCHANGED <<clientvars, hdev>> /\ list' = {}
  BY DEF libusb_free_device_list
<1>2. CASE u
  <2>1. dev' = Unreferenced(list) /\ UNCHANGED owned
    BY <1>2 DEF libusb_free_device_list
  <2>2. \A d \in Devs : d \in list => dev[d].refcnt >= 1
    BY RefsFacts
  <2>3. \A d \in Devs : /\ dev'[d] \in Objects
                        /\ dev'[d].refcnt = dev[d].refcnt - (IF d \in list THEN 1 ELSE 0)
                        /\ dev'[d].refcnt # 0 => dev'[d].busid \in Busids
    BY <2>1, <2>2, UnreferencedFacts
  <2>4. dev' \in [Devs -> Objects]
    <3>1. dev' = [d \in Devs |-> dev'[d]]
      BY <2>1 DEF Unreferenced
    <3> QED
      BY <2>3, <3>1
  <2>5. ASSUME NEW d \in Devs PROVE dev'[d].refcnt = Refs(list', owned', hdev', d)
    BY <1>1, <2>1, <2>3, RefsFacts DEF Refs
  <2> QED
    BY <1>1, <2>1, <2>3, <2>4, <2>5, RecountStep DEF CountsAgree, LiveIsNamed, DevInv, Counted
<1>3. CASE ~u
  <2>1. /\ \A d \in list : owned[d] = 0
        /\ owned' = [d \in Devs |-> IF d \in list THEN 1 ELSE owned[d]]
        /\ UNCHANGED dev
    BY <1>3 DEF libusb_free_device_list
  <2>2. owned' \in [Devs -> 0..1]
    BY <2>1 DEF DevInv, Counted
  <2>3. ASSUME NEW d \in Devs PROVE dev'[d].refcnt = Refs(list', owned', hdev', d)
    BY <1>1, <2>1, RefsFacts DEF Refs
  <2> QED
    BY <1>1, <2>1, <2>2, <2>3, RecountStep DEF CountsAgree, LiveIsNamed, DevInv, Counted
<1> QED
  BY <1>2, <1>3

LEMMA RefStep ==
  ASSUME DevInv, NEW d \in Devs, libusb_ref_device(d)
  PROVE  DevInv'
<1> DEFINE n == [dev[d] EXCEPT !.refcnt = dev[d].refcnt + 1]
<1>1. /\ UNCHANGED <<clientvars, list, hdev>> /\ owned[d] = 0
      /\ dev' = [dev EXCEPT ![d] = n] /\ owned' = [owned EXCEPT ![d] = 1]
  BY DEF libusb_ref_device, DevInv, Counted
<1>2. dev[d] \in Objects /\ dev \in [Devs -> Objects] /\ owned \in [Devs -> 0..1]
  BY DEF DevInv, Counted
<1>3. n \in Objects /\ n.refcnt = dev[d].refcnt + 1 /\ n.busid = dev[d].busid
  BY <1>2 DEF Objects
<1> HIDE DEF n
<1>4. dev' \in [Devs -> Objects] /\ dev'[d] = n /\ \A e \in Devs : e # d => dev'[e] = dev[e]
  BY <1>1, <1>2, <1>3
<1>5. owned' \in [Devs -> 0..1] /\ owned'[d] = 1 /\ \A e \in Devs : e # d => owned'[e] = owned[e]
  BY <1>1, <1>2
<1>6. dev[d].busid \in Busids
  <2>1. d \in list \/ \E h \in Handles : hdev[h] = d
    BY DEF libusb_ref_device
  <2>2. CASE d \in list
    <3>1. dev[d].refcnt # 0
      BY <2>2, RefsFacts
    <3> QED
      BY <3>1 DEF DevInv, LiveIsNamed
  <2>3. CASE \E h \in Handles : hdev[h] = d
    <3>1. PICK h \in Handles : hdev[h] = d
      BY <2>3
    <3>2. h \in Users(hdev, d)
      BY <3>1 DEF Users
    <3>3. Cardinality(Users(hdev, d)) # 0
      BY <3>2, UsersFinite, FS_EmptySet
    <3>4. dev[d].refcnt # 0
      BY <3>3, RefsFacts
    <3> QED
      BY <3>4 DEF DevInv, LiveIsNamed
  <2> QED
    BY <2>1, <2>2, <2>3
<1>7. LiveIsNamed'
  BY <1>3, <1>4, <1>6 DEF LiveIsNamed, DevInv
<1>8. ASSUME NEW e \in Devs PROVE dev'[e].refcnt = Refs(list', owned', hdev', e)
  <2>1. e = d \/ e # d
    OBVIOUS
  <2>2. CASE e = d
    BY <1>1, <1>3, <1>4, <1>5, <2>2, RefsFacts DEF Refs
  <2>3. CASE e # d
    BY <1>1, <1>4, <1>5, <2>3, RefsFacts DEF Refs
  <2> QED
    BY <2>2, <2>3
<1> QED
  BY <1>1, <1>4, <1>5, <1>7, <1>8, RecountStep DEF CountsAgree, DevInv, Counted

LEMMA UnrefStep ==
  ASSUME DevInv, NEW d \in Devs, libusb_unref_device(d)
  PROVE  DevInv'
<1>1. /\ UNCHANGED <<clientvars, list, hdev>> /\ owned[d] = 1
      /\ dev' = Unreferenced({d}) /\ owned' = [owned EXCEPT ![d] = 0]
  BY DEF libusb_unref_device
<1>2. \A e \in Devs : e \in {d} => dev[e].refcnt >= 1
  BY <1>1, RefsFacts
<1>3. \A e \in Devs : /\ dev'[e] \in Objects
                      /\ dev'[e].refcnt = dev[e].refcnt - (IF e = d THEN 1 ELSE 0)
                      /\ dev'[e].refcnt # 0 => dev'[e].busid \in Busids
  <2> SUFFICES ASSUME NEW e \in Devs
               PROVE  /\ dev'[e] \in Objects
                      /\ dev'[e].refcnt = dev[e].refcnt - (IF e = d THEN 1 ELSE 0)
                      /\ dev'[e].refcnt # 0 => dev'[e].busid \in Busids
    OBVIOUS
  <2>1. e \in {d} <=> e = d
    OBVIOUS
  <2> QED
    BY <1>1, <1>2, <2>1, UnreferencedFacts
<1>4. dev' \in [Devs -> Objects]
  <2>1. dev' = [e \in Devs |-> dev'[e]]
    BY <1>1 DEF Unreferenced
  <2> QED
    BY <1>3, <2>1
<1>5. owned' \in [Devs -> 0..1] /\ owned'[d] = 0 /\ \A e \in Devs : e # d => owned'[e] = owned[e]
  BY <1>1 DEF DevInv, Counted
<1>6. ASSUME NEW e \in Devs PROVE dev'[e].refcnt = Refs(list', owned', hdev', e)
  <2>1. /\ Cardinality(Users(hdev, e)) \in Nat /\ owned[e] \in 0..1 /\ dev[e].refcnt \in Int
        /\ dev[e].refcnt = (IF e \in list THEN 1 ELSE 0) + owned[e] + Cardinality(Users(hdev, e))
    BY RefsFacts
  <2>2. owned'[e] = owned[e] - (IF e = d THEN 1 ELSE 0)
    BY <1>1, <1>5, <2>1
  <2>3. Refs(list', owned', hdev', e) = (IF e \in list THEN 1 ELSE 0) + owned'[e] + Cardinality(Users(hdev, e))
    BY <1>1 DEF Refs
  <2>4. dev'[e].refcnt = dev[e].refcnt - (IF e = d THEN 1 ELSE 0)
    BY <1>3
  <2> QED
    BY <2>1, <2>2, <2>3, <2>4
<1> QED
  BY <1>1, <1>3, <1>4, <1>5, <1>6, RecountStep DEF CountsAgree, LiveIsNamed, DevInv, Counted

LEMMA FetchStep ==
  ASSUME DevInv, NEW d \in Devs, fetch_config_blob(d)
  PROVE  DevInv'
<1> DEFINE n == [dev[d] EXCEPT !.cfg = TRUE]
<1>1. UNCHANGED <<clientvars, list, owned, hdev>> /\ dev' = [dev EXCEPT ![d] = n]
  BY DEF fetch_config_blob
<1>2. dev[d] \in Objects /\ dev \in [Devs -> Objects]
  BY DEF DevInv, Counted
<1>3. n \in Objects /\ n.refcnt = dev[d].refcnt /\ n.busid = dev[d].busid
  BY <1>2 DEF Objects
<1> HIDE DEF n
<1>4. dev' \in [Devs -> Objects] /\ \A e \in Devs : dev'[e].refcnt = dev[e].refcnt /\ dev'[e].busid = dev[e].busid
  BY <1>1, <1>2, <1>3
<1>5. LiveIsNamed' /\ CountsAgree'
  BY <1>1, <1>4 DEF DevInv, LiveIsNamed, CountsAgree
<1> QED
  BY <1>1, <1>4, <1>5, RecountStep DEF DevInv, Counted

-----------------------------------------------------------------------------
(* Opening and closing                                                     *)

\* A handle that was closed is opened on what the server has at b now.
LEMMA ImportFacts ==
  ASSUME DevInv, NEW h \in Handles, NEW b \in Busids, NEW n, Import(h, b, n),
         UNCHANGED <<exported, next_devnum, iolock, call>>
  PROVE  /\ ClientTypeOK' /\ DevidsAgree' /\ ~conn[h].open /\ conn'[h].open
         /\ hdev[h] = NoDev
         /\ \A g \in Handles : g # h => conn'[g] = conn[g]
<1> DEFINE c == [Closed EXCEPT !.open = TRUE, !.up = TRUE, !.devnum = exported[b], !.devid = exported[b]]
<1>1. ClientTypeOK /\ conn \in [Handles -> Conns] /\ exported[b] \in 0..MaxDevnum
  BY DEF DevInv, Counted, ClientTypeOK, Conns
<1>2. conn' = [conn EXCEPT ![h] = c] /\ ~conn[h].open
  BY DEF Import, Devid
<1>a. Closed \in Conns /\ <<>> \in Seq(1..MaxSeq) /\ <<>> \in Seq(Units)
  BY NumsAreSound DEF Conns, Closed
<1>3. c \in Conns /\ c.open /\ c.devid = c.devnum
  BY <1>1, <1>a, NumsAreSound DEF Conns, Closed
<1> HIDE DEF c
<1>4. conn' \in [Handles -> Conns] /\ conn'[h] = c /\ \A g \in Handles : g # h => conn'[g] = conn[g]
  BY <1>1, <1>2, <1>3
<1>5. ClientTypeOK'
  BY <1>1, <1>4 DEF ClientTypeOK, Conns
<1>6. DevidsAgree'
  BY <1>3, <1>4 DEF DevInv, DevidsAgree
<1>7. hdev[h] = NoDev
  BY <1>2 DEF DevInv, HandleHasObject
<1> QED
  BY <1>2, <1>3, <1>4, <1>5, <1>6, <1>7

\* libusb_open and libusb_open_device_with_vid_pid: object o stands at d, with one
\* reference more than before for the handle.
LEMMA OpenedStep ==
  ASSUME DevInv, NEW h \in Handles, NEW d \in Devs, NEW b \in Busids, NEW n, NEW o \in Objects,
         Import(h, b, n), UNCHANGED <<exported, next_devnum, iolock, call, list, owned>>,
         dev' = [dev EXCEPT ![d] = o], hdev' = [hdev EXCEPT ![h] = d],
         o.refcnt = dev[d].refcnt + 1, o.busid \in Busids
  PROVE  DevInv'
<1>1. /\ ClientTypeOK' /\ DevidsAgree' /\ conn'[h].open /\ hdev[h] = NoDev
      /\ \A g \in Handles : g # h => conn'[g] = conn[g]
  BY ImportFacts
<1>2. /\ dev \in [Devs -> Objects] /\ hdev \in [Handles -> Devs \cup {NoDev}]
      /\ owned \in [Devs -> 0..1] /\ list \subseteq Devs
  BY DEF DevInv, Counted
<1>3. /\ dev' \in [Devs -> Objects] /\ dev'[d] = o /\ \A e \in Devs : e # d => dev'[e] = dev[e]
  BY <1>2
<1>4. /\ hdev' \in [Handles -> Devs \cup {NoDev}] /\ hdev'[h] = d
      /\ \A g \in Handles : g # h => hdev'[g] = hdev[g]
  BY <1>2
<1>5. Counted'
  BY <1>1, <1>2, <1>3, <1>4 DEF Counted
<1>6. HandleHasObject'
  BY <1>1, <1>4, DevicesAssumption DEF DevInv, HandleHasObject
<1>7. LiveIsNamed'
  BY <1>3 DEF DevInv, LiveIsNamed
<1>8. \A e \in Devs : Cardinality(Users(hdev', e)) = Cardinality(Users(hdev, e)) + (IF e = d THEN 1 ELSE 0)
  <2>1. PICK hn : hn = hdev'
    OBVIOUS
  <2>2. hn = [hdev EXCEPT ![h] = d]
    BY <2>1
  <2>3. UsersChange(hdev, hn, d, 1)
    BY <1>1, <1>2, <2>2, UserAdded
  <2> QED
    BY <2>1, <2>3 DEF UsersChange
<1>9. ASSUME NEW e \in Devs PROVE dev'[e].refcnt = Refs(list', owned', hdev', e)
  <2>1. /\ Cardinality(Users(hdev, e)) \in Nat /\ owned[e] \in 0..1 /\ dev[e].refcnt \in Int
        /\ dev[e].refcnt = (IF e \in list THEN 1 ELSE 0) + owned[e] + Cardinality(Users(hdev, e))
    BY RefsFacts
  <2>2. Cardinality(Users(hdev', e)) = Cardinality(Users(hdev, e)) + (IF e = d THEN 1 ELSE 0)
    BY <1>8
  <2>3. Refs(list', owned', hdev', e) = (IF e \in list THEN 1 ELSE 0) + owned[e] + Cardinality(Users(hdev', e))
    BY DEF Refs
  <2>4. dev'[e].refcnt = dev[e].refcnt + (IF e = d THEN 1 ELSE 0)
    BY <1>3, <2>1
  <2> QED
    BY <2>1, <2>2, <2>3, <2>4
<1> QED
  BY <1>1, <1>5, <1>6, <1>7, <1>9 DEF DevInv, CountsAgree

LEMMA OpenDeviceStep ==
  ASSUME DevInv, NEW d \in Devs, NEW h \in Handles, libusb_open(d, h)
  PROVE  DevInv'
<1> DEFINE o == [dev[d] EXCEPT !.refcnt = dev[d].refcnt + 1]
<1>1. dev' = [dev EXCEPT ![d] = o] /\ hdev' = [hdev EXCEPT ![h] = d]
  BY DEF libusb_open, Kept
<1>2. dev[d] \in Objects
  BY DEF DevInv, Counted
<1>3. o \in Objects /\ o.refcnt = dev[d].refcnt + 1 /\ o.busid = dev[d].busid
  BY <1>2 DEF Objects
<1>4. dev[d].refcnt # 0
  BY RefsFacts DEF libusb_open, Usable
<1>5. dev[d].busid \in Busids
  BY <1>4 DEF DevInv, LiveIsNamed
<1>6. Import(h, dev[d].busid, dev[d].devnum) /\ UNCHANGED <<exported, next_devnum, iolock, call, list, owned>>
  BY DEF libusb_open
<1> HIDE DEF o
<1> QED
  BY <1>1, <1>3, <1>5, <1>6, OpenedStep

LEMMA OpenVidPidStep ==
  ASSUME DevInv, NEW b \in Busids, NEW d \in Devs, NEW h \in Handles, libusb_open_device_with_vid_pid(b, d, h)
  PROVE  DevInv'
<1> DEFINE o == [refcnt |-> 1, busid |-> b, devnum |-> exported[b], cfg |-> FALSE]
<1>1. /\ dev' = [dev EXCEPT ![d] = o] /\ hdev' = [hdev EXCEPT ![h] = d] /\ dev[d].refcnt = 0
      /\ Import(h, b, exported[b]) /\ UNCHANGED <<exported, next_devnum, iolock, call, list, owned>>
  BY DEF libusb_open_device_with_vid_pid
<1>2. o \in Objects /\ o.refcnt = 1 /\ o.busid = b
  BY DEF Objects, DevInv, Counted, ClientTypeOK
<1> HIDE DEF o
<1>3. o.refcnt = dev[d].refcnt + 1
  BY <1>1, <1>2
<1> QED
  BY <1>1, <1>2, <1>3, OpenedStep

LEMMA CloseDeviceStep ==
  ASSUME DevInv, NEW h \in Handles, libusb_close(h)
  PROVE  DevInv'
<1>0. PICK d : d = hdev[h]
  OBVIOUS
<1>1. /\ conn[h].open /\ conn' = [conn EXCEPT ![h] = Closed]
      /\ dev' = Unreferenced({d}) /\ hdev' = [hdev EXCEPT ![h] = NoDev]
      /\ UNCHANGED <<exported, next_devnum, iolock, call, list, owned>>
  BY <1>0 DEF libusb_close, CloseSocket
<1>2. /\ hdev \in [Handles -> Devs \cup {NoDev}] /\ owned \in [Devs -> 0..1] /\ list \subseteq Devs
      /\ conn \in [Handles -> Conns] /\ ClientTypeOK
  BY DEF DevInv, Counted, ClientTypeOK, Conns
<1>3. d \in Devs
  BY <1>0, <1>1, <1>2 DEF DevInv, HandleHasObject
<1>4. Closed \in Conns /\ ~Closed.open /\ Closed.devid = Closed.devnum
  BY NumsAreSound DEF Conns, Closed
<1>5. conn' \in [Handles -> Conns] /\ conn'[h] = Closed /\ \A g \in Handles : g # h => conn'[g] = conn[g]
  BY <1>1, <1>2, <1>4
<1>6. ClientTypeOK' /\ DevidsAgree'
  <2>1. ClientTypeOK'
    BY <1>1, <1>2, <1>5 DEF ClientTypeOK, Conns
  <2>2. DevidsAgree'
    BY <1>4, <1>5 DEF DevInv, DevidsAgree
  <2> QED
    BY <2>1, <2>2
<1>7. /\ hdev' \in [Handles -> Devs \cup {NoDev}] /\ hdev'[h] = NoDev
      /\ \A g \in Handles : g # h => hdev'[g] = hdev[g]
  BY <1>1, <1>2
<1>8. HandleHasObject'
  BY <1>4, <1>5, <1>7 DEF DevInv, HandleHasObject
<1>9. Cardinality(Users(hdev, d)) # 0
  <2>1. h \in Users(hdev, d)
    BY <1>0 DEF Users
  <2> QED
    BY <2>1, UsersFinite, FS_EmptySet
<1>10. \A e \in Devs : e \in {d} => dev[e].refcnt >= 1
  BY <1>3, <1>9, RefsFacts
<1>11. ASSUME NEW e \in Devs
       PROVE  /\ dev'[e] \in Objects
              /\ dev'[e].refcnt = dev[e].refcnt - (IF e = d THEN 1 ELSE 0)
              /\ dev'[e].refcnt # 0 => dev'[e].busid \in Busids
  <2>1. e \in {d} <=> e = d
    OBVIOUS
  <2> QED
    BY <1>1, <1>10, <2>1, UnreferencedFacts
<1>12. dev' \in [Devs -> Objects]
  <2>1. dev' = [e \in Devs |-> dev'[e]]
    BY <1>1 DEF Unreferenced
  <2> QED
    BY <1>11, <2>1
<1>13. \A e \in Devs : Cardinality(Users(hdev', e)) = Cardinality(Users(hdev, e)) + (IF e = d THEN -1 ELSE 0)
  <2>1. PICK hn : hn = hdev'
    OBVIOUS
  <2>2. hn = [hdev EXCEPT ![h] = NoDev]
    BY <1>1, <2>1
  <2>3. UsersChange(hdev, hn, d, -1)
    BY <1>0, <1>2, <1>3, <2>2, UserRemoved
  <2> QED
    BY <2>1, <2>3 DEF UsersChange
<1>14. ASSUME NEW e \in Devs PROVE dev'[e].refcnt = Refs(list', owned', hdev', e)
  <2>1. /\ Cardinality(Users(hdev, e)) \in Nat /\ owned[e] \in 0..1 /\ dev[e].refcnt \in Int
        /\ dev[e].refcnt = (IF e \in list THEN 1 ELSE 0) + owned[e] + Cardinality(Users(hdev, e))
    BY RefsFacts
  <2>2. Cardinality(Users(hdev', e)) = Cardinality(Users(hdev, e)) + (IF e = d THEN -1 ELSE 0)
    BY <1>13
  <2>3. Refs(list', owned', hdev', e) = (IF e \in list THEN 1 ELSE 0) + owned[e] + Cardinality(Users(hdev', e))
    BY <1>1 DEF Refs
  <2>4. dev'[e].refcnt = dev[e].refcnt - (IF e = d THEN 1 ELSE 0)
    BY <1>11
  <2> QED
    BY <2>1, <2>2, <2>3, <2>4
<1>15. Counted' /\ LiveIsNamed'
  BY <1>1, <1>2, <1>6, <1>7, <1>11, <1>12 DEF Counted, LiveIsNamed
<1> QED
  BY <1>6, <1>8, <1>14, <1>15 DEF DevInv, CountsAgree

LEMMA DevicesStep == DevInv /\ [DevicesNext \/ DevicesServer]_<<clientvars, devvars>> => DevInv'
<1> SUFFICES ASSUME DevInv, [DevicesNext \/ DevicesServer]_<<clientvars, devvars>> PROVE DevInv'
  OBVIOUS
<1>1. CASE UNCHANGED <<clientvars, devvars>>
  <2>1. UNCHANGED <<clientvars, dev, list, owned, hdev>>
    BY <1>1 DEF devvars
  <2>2. CountsAgree' /\ LiveIsNamed'
    BY <2>1 DEF DevInv, CountsAgree, LiveIsNamed
  <2> QED
    BY <2>1, <2>2, RecountStep DEF DevInv, Counted
<1>2. CASE DevicesNext
  BY <1>2, GetListStep, FreeListStep, RefStep, UnrefStep, FetchStep, OpenDeviceStep, OpenVidPidStep,
     CloseDeviceStep DEF DevicesNext
<1> QED
  BY <1>1, <1>2, ServerKeepsCounts

\* For any number of device objects, handles and devices: an object's reference count
\* is the number of its references, whether they are the list's, the program's or an
\* open handle's, in whatever order they are taken and dropped, so libusb_close and
\* libusb_free_device_list free it with the last one and never before; and a handle's
\* requests carry the devid of the import, however stale the object it was opened through.
THEOREM HandleIsSoundHolds == DevicesSpec => []HandleIsSound
<1>1. DevInv => HandleIsSound
  BY DEF DevInv, CountsAgree, DevidsAgree, Refs, Users, HandleIsSound
<1> QED
  BY <1>1, DevicesInitial, DevicesStep, PTL DEF DevicesSpec

-----------------------------------------------------------------------------
(* Overlapped transfers                                                    *)

OvlServer ==
  /\ \/ \E b \in Busids : Plug(b) \/ Unplug(b)
     \/ \E h \in Handles : ServerAnswers(h) \/ ServerDrops(h)
  /\ UNCHANGED ovlvars

OvlSpec == ClientInit /\ OvlInit /\ [][OvlNext \/ OvlServer]_<<clientvars, ovlvars>>

Ops == [ovl : Ovls, n : 1..MaxOps]
Overlappeds == [internal : {"pending", "ok", "fail"}, high : 0..MaxOps, event : BOOLEAN, op : 0..MaxOps]

OvlTypes ==
  /\ ovl \in [Ovls -> Overlappeds]
  /\ queue \in Seq(Ops)
  /\ wk = [pc |-> wk.pc, op |-> wk.op, rc |-> wk.rc]
  /\ wk.pc \in {"none", "loop", "asleep", "run", "clear", "high", "internal", "event", "exited"}
  /\ wk.op \in Ops \cup {NoOp}
  /\ ops \in 0..MaxOps

\* The worker has an operation exactly while it runs or completes one; it ends with
\* the queue empty, and while it ends nothing is queued.
WorkerInv ==
  /\ wk.op # NoOp <=> wk.pc \in {"run", "clear", "high", "internal", "event"}
  /\ shutting => freeing
  /\ wk.pc = "exited" => freeing /\ queue = <<>>
  /\ wk.pc = "none" => queue = <<>>

InQueue(o) == \E i \in DOMAIN queue : queue[i].ovl = o
InWork(o) == wk.op # NoOp /\ wk.op.ovl = o

\* What is pending has an operation that will complete it.
PendingIsBusy ==
  \A o \in Ovls : ovl[o].internal = "pending" => InQueue(o) \/ (InWork(o) /\ wk.pc # "event")

\* The stages of an overlapped that was not queued again too early: waiting in the queue,
\* being completed field by field, complete.
Untouched(o) == ovl[o].internal = "pending" /\ ~ovl[o].event
Length(o) == IF wk.rc = "ok" THEN ovl[o].op ELSE 0
Filling(o) ==
  /\ wk.op.n = ovl[o].op /\ ~ovl[o].event
  /\ wk.pc # "event" => ovl[o].internal = "pending"
  /\ wk.pc \in {"internal", "event"} => ovl[o].high = Length(o)
  /\ wk.pc = "event" => ovl[o].internal = IF wk.rc = "ok" THEN "ok" ELSE "fail"
Complete(o) == Completed(o) /\ ovl[o].high = IF ovl[o].internal = "ok" THEN ovl[o].op ELSE 0

\* Such an overlapped has one operation at most, its own.
OneOperation(o) ==
  /\ \A i, j \in DOMAIN queue : queue[i].ovl = o /\ queue[j].ovl = o => i = j
  /\ ~(InQueue(o) /\ InWork(o))

ItsOwn(o) ==
  /\ \A i \in DOMAIN queue : queue[i].ovl = o => queue[i].n = ovl[o].op
  /\ InQueue(o) => Untouched(o)
  /\ InWork(o) => Filling(o)
  /\ ~InQueue(o) /\ ~InWork(o) => Complete(o)

Mine == \A o \in Ovls : o \notin early => OneOperation(o) /\ (ovl[o].op # 0 => ItsOwn(o))

OvlInv == OvlTypes /\ WorkerInv /\ PendingIsBusy /\ Mine

LEMMA OvlInitial == OvlInit => OvlInv
<1> SUFFICES ASSUME OvlInit PROVE OvlInv
  OBVIOUS
<1>0. MaxOps \in Nat
  BY OvlAssumption
<1>1. Quiet \in Overlappeds /\ Quiet.internal = "ok" /\ Quiet.op = 0
  BY <1>0 DEF Quiet, Overlappeds
<1>2. /\ wk.pc = "none" /\ wk.op = NoOp /\ wk = [pc |-> wk.pc, op |-> wk.op, rc |-> wk.rc]
      /\ queue = <<>> /\ ~shutting
  BY DEF OvlInit
<1>3. OvlTypes
  BY <1>0, <1>1, <1>2 DEF OvlInit, OvlTypes
<1>4. WorkerInv
  BY <1>2 DEF WorkerInv
<1>5. PendingIsBusy /\ Mine
  BY <1>1, <1>2 DEF OvlInit, PendingIsBusy, Mine, OneOperation, InQueue, InWork
<1> QED
  BY <1>3, <1>4, <1>5 DEF OvlInv

\* A step that touches no overlapped and no operation: the worker rests, wakes, ends, or goes
\* on with the operation it runs.
LEMMA SameOperations ==
  ASSUME OvlInv, UNCHANGED <<ovl, queue, ops, early>>, WorkerInv',
         wk' = [pc |-> wk'.pc, op |-> wk'.op, rc |-> wk'.rc],
         wk'.pc \in {"none", "loop", "asleep", "clear", "high", "exited"} \/ wk' = wk,
         wk'.op = wk.op,
         wk.op = NoOp \/ wk' = wk \/ wk.pc \in {"run", "clear"}
  PROVE  OvlInv'
<1>1. OvlTypes'
  BY DEF OvlInv, OvlTypes
<1>2. \A o \in Ovls : (InQueue(o) <=> InQueue(o)') /\ (InWork(o) <=> InWork(o)')
  BY DEF InQueue, InWork
<1>3. wk.op # NoOp => wk' = wk \/ (wk.pc \in {"run", "clear"} /\ wk'.pc \in {"clear", "high"})
  BY DEF OvlInv, WorkerInv
<1>4. PendingIsBusy'
  BY <1>2, <1>3 DEF OvlInv, PendingIsBusy, InWork
<1>5. ASSUME NEW o \in Ovls, o \notin early PROVE OneOperation(o)'
  BY <1>2, <1>5 DEF OvlInv, Mine, OneOperation
<1>6. ASSUME NEW o \in Ovls, o \notin early, ovl[o].op # 0 PROVE ItsOwn(o)'
  <2>1. ItsOwn(o)
    BY <1>6 DEF OvlInv, Mine
  <2>2. InWork(o) => Filling(o)'
    BY <1>3, <2>1 DEF ItsOwn, Filling, Length, InWork
  <2> QED
    BY <1>2, <2>1, <2>2 DEF ItsOwn, Untouched, Complete, Completed
<1>7. Mine'
  BY <1>5, <1>6 DEF Mine
<1> QED
  BY <1>1, <1>4, <1>7 DEF OvlInv

LEMMA WkFields ==
  ASSUME OvlInv
  PROVE  \A p : LET v == [wk EXCEPT !.pc = p] IN
           v = [pc |-> v.pc, op |-> v.op, rc |-> v.rc] /\ v.pc = p /\ v.op = wk.op /\ v.rc = wk.rc
<1>1. PICK a, b, c : wk = [pc |-> a, op |-> b, rc |-> c]
  BY DEF OvlInv, OvlTypes
<1> QED
  BY <1>1

\* The program's steps that queue nothing, and the submits under way.
LEMMA AsideStep ==
  ASSUME OvlInv, UNCHANGED <<ovl, queue, wk, shutting, freeing, ops, early>>
  PROVE  OvlInv'
<1>1. WorkerInv'
  BY DEF OvlInv, WorkerInv
<1>2. wk' = [pc |-> wk'.pc, op |-> wk'.op, rc |-> wk'.rc]
  BY DEF OvlInv, OvlTypes
<1> QED
  BY <1>1, <1>2, SameOperations

LEMMA FreeStep ==
  ASSUME OvlInv, UsbK_Free
  PROVE  OvlInv'
<1>1. UNCHANGED <<ovl, queue, ops, early>> /\ freeing'
  BY DEF UsbK_Free
<1>2. /\ wk' = [pc |-> wk'.pc, op |-> wk'.op, rc |-> wk'.rc] /\ wk'.op = wk.op
      /\ wk' = wk \/ (wk.pc = "asleep" /\ wk'.pc = "loop")
  BY WkFields DEF UsbK_Free, OvlInv, OvlTypes
<1>3. WorkerInv'
  BY <1>1, <1>2 DEF OvlInv, WorkerInv
<1>4. wk.op = NoOp \/ wk' = wk
  BY <1>2 DEF OvlInv, WorkerInv
<1> QED
  BY <1>1, <1>2, <1>3, <1>4, SameOperations

LEMMA FreedStep ==
  ASSUME OvlInv, UsbK_Freed
  PROVE  OvlInv'
<1>1. /\ UNCHANGED <<ovl, queue, ops, early>> /\ ~shutting' /\ wk.pc \in {"none", "exited"}
      /\ wk' = [pc |-> "none", op |-> NoOp, rc |-> "none"]
  BY DEF UsbK_Freed
<1>2. wk.op = NoOp /\ queue = <<>>
  BY <1>1 DEF OvlInv, WorkerInv
<1>3. wk'.pc = "none" /\ wk'.op = NoOp /\ wk' = [pc |-> wk'.pc, op |-> wk'.op, rc |-> wk'.rc]
  BY <1>1
<1>4. WorkerInv'
  BY <1>1, <1>2, <1>3 DEF WorkerInv
<1> QED
  BY <1>1, <1>2, <1>3, <1>4, SameOperations

LEMMA RestsStep ==
  ASSUME OvlInv, WorkerRests
  PROVE  OvlInv'
<1>1. UNCHANGED <<ovl, queue, shutting, freeing, ops, early>> /\ wk.pc = "loop"
  BY DEF WorkerRests
<1>2. /\ wk' = [pc |-> wk'.pc, op |-> wk'.op, rc |-> wk'.rc] /\ wk'.op = wk.op
      /\ wk'.pc = IF LeavesNow THEN "exited" ELSE "asleep"
  BY WkFields DEF WorkerRests
<1>3. wk.op = NoOp
  BY <1>1 DEF OvlInv, WorkerInv
<1>4. WorkerInv'
  BY <1>1, <1>2, <1>3 DEF OvlInv, WorkerInv, LeavesNow
<1> QED
  BY <1>1, <1>2, <1>3, <1>4, SameOperations

LEMMA RanStep ==
  ASSUME OvlInv, WorkerRan \/ WorkerCleared
  PROVE  OvlInv'
<1>1. UNCHANGED <<ovl, queue, shutting, freeing, ops, early>> /\ wk.pc \in {"run", "clear"}
  BY DEF WorkerRan, WorkerCleared
<1>2. /\ wk' = [pc |-> wk'.pc, op |-> wk'.op, rc |-> wk'.rc] /\ wk'.op = wk.op
      /\ wk'.pc \in {"clear", "high"}
  <2>1. PICK a, b, c : wk = [pc |-> a, op |-> b, rc |-> c]
    BY DEF OvlInv, OvlTypes
  <2>2. PICK r : \/ wk' = [wk EXCEPT !.pc = "clear", !.rc = "stall"]
                 \/ wk' = [wk EXCEPT !.pc = "high", !.rc = r]
                 \/ wk' = [wk EXCEPT !.pc = "high"]
    BY DEF WorkerRan, WorkerCleared
  <2> QED
    BY <2>1, <2>2
<1>3. WorkerInv'
  BY <1>1, <1>2 DEF OvlInv, WorkerInv
<1> QED
  BY <1>1, <1>2, <1>3, SameOperations

\* OvlK_Acquire hands out an overlapped that is nobody's, whatever is still going on in it.
LEMMA AcquireStep ==
  ASSUME OvlInv, OvlK_Acquire
  PROVE  OvlInv'
<1>0. PICK o : o = Head(pool)
  OBVIOUS
<1> DEFINE q == [Quiet EXCEPT !.op = 0]
<1>1. UNCHANGED <<queue, wk, shutting, freeing, ops, early>> /\ ovl' = [ovl EXCEPT ![o] = q]
  BY <1>0 DEF OvlK_Acquire
<1>2. q \in Overlappeds /\ q.internal = "ok" /\ q.op = 0
  <2>1. MaxOps \in Nat
    BY OvlAssumption
  <2>2. Quiet \in Overlappeds /\ Quiet.internal = "ok"
    BY <2>1 DEF Quiet, Overlappeds
  <2> QED
    BY <2>1, <2>2 DEF Overlappeds
<1> HIDE DEF q
<1>3. ovl' \in [Ovls -> Overlappeds] /\ \A a \in Ovls : ovl'[a] = q \/ ovl'[a] = ovl[a]
  BY <1>1, <1>2 DEF OvlInv, OvlTypes
<1>4. OvlTypes' /\ WorkerInv'
  BY <1>1, <1>3 DEF OvlInv, OvlTypes, WorkerInv
<1>5. \A a \in Ovls : (InQueue(a) <=> InQueue(a)') /\ (InWork(a) <=> InWork(a)')
  BY <1>1 DEF InQueue, InWork
<1>6. PendingIsBusy'
  BY <1>1, <1>2, <1>3, <1>5 DEF OvlInv, PendingIsBusy
<1>7. ASSUME NEW a \in Ovls, a \notin early'
      PROVE  OneOperation(a)' /\ (ovl'[a].op # 0 => ItsOwn(a)')
  <2>1. a \notin early /\ OneOperation(a) /\ (ovl[a].op # 0 => ItsOwn(a))
    BY <1>1, <1>7 DEF OvlInv, Mine
  <2>2. OneOperation(a)'
    BY <1>1, <1>5, <2>1 DEF OneOperation
  <2>3. ASSUME ovl'[a].op # 0 PROVE ItsOwn(a)'
    <3>1. ovl'[a] = ovl[a] /\ ItsOwn(a)
      BY <1>2, <1>3, <2>1, <2>3
    <3> QED
      BY <1>1, <1>5, <3>1 DEF ItsOwn, Untouched, Filling, Length, Complete, Completed
  <2> QED
    BY <2>2, <2>3
<1>8. Mine'
  BY <1>7 DEF Mine
<1> QED
  BY <1>4, <1>6, <1>8 DEF OvlInv

LEMMA QueueStep ==
  ASSUME OvlInv, NEW o \in Ovls, kusb_queue(o)
  PROVE  OvlInv'
<1>0. PICK k, m : k = Len(queue) /\ m = ops + 1
  OBVIOUS
<1> DEFINE f == [internal |-> "pending", high |-> 0, event |-> FALSE, op |-> m]
           p == [ovl |-> o, n |-> m]
<1>1. /\ ovl' = [ovl EXCEPT ![o] = f] /\ queue' = Append(queue, p) /\ ops' = m
      /\ UNCHANGED <<shutting, freeing>> /\ ~freeing
      /\ early' = IF Busy(o) THEN early \cup {o} ELSE early \ {o}
  BY <1>0 DEF kusb_queue, Free
<1>2. m \in 1..MaxOps /\ MaxOps \in Nat /\ k \in Nat
  BY <1>0, OvlAssumption DEF kusb_queue, OvlInv, OvlTypes
<1>3. f \in Overlappeds /\ f.internal = "pending" /\ ~f.event /\ f.op = m
  BY <1>2 DEF Overlappeds
<1>4. p \in Ops /\ p.ovl = o /\ p.n = m
  BY <1>2 DEF Ops
<1> HIDE DEF f, p
<1>5. ovl' \in [Ovls -> Overlappeds] /\ ovl'[o] = f /\ \A a \in Ovls : a # o => ovl'[a] = ovl[a]
  BY <1>1, <1>3 DEF OvlInv, OvlTypes
<1>6. /\ queue' \in Seq(Ops) /\ DOMAIN queue = 1..k /\ DOMAIN queue' = 1..(k + 1) /\ queue'[k + 1] = p
      /\ \A i \in 1..k : queue'[i] = queue[i]
  <2>1. queue \in Seq(Ops)
    BY DEF OvlInv, OvlTypes
  <2> QED
    BY <1>0, <1>1, <1>4, <2>1, AppendProperties
<1>7. /\ wk' = [pc |-> wk'.pc, op |-> wk'.op, rc |-> wk'.rc] /\ wk'.op = wk.op /\ wk'.rc = wk.rc
      /\ wk'.pc = (IF wk.pc \in {"none", "asleep"} THEN "loop" ELSE wk.pc)
  <2>1. wk' = (IF wk.pc \in {"none", "asleep"} THEN [wk EXCEPT !.pc = "loop"] ELSE wk)
    BY DEF kusb_queue
  <2> QED
    BY <2>1, WkFields DEF OvlInv, OvlTypes
<1>8. OvlTypes'
  BY <1>1, <1>2, <1>5, <1>6, <1>7 DEF OvlInv, OvlTypes
<1>9. WorkerInv'
  BY <1>1, <1>7 DEF OvlInv, WorkerInv
<1>10. \A a \in Ovls : InWork(a)' <=> InWork(a)
  BY <1>7 DEF InWork
<1>11. \A i \in 1..(k + 1) : i \in 1..k \/ i = k + 1
  BY <1>2
<1>12. \A i \in 1..k : i \in 1..(k + 1)
  BY <1>2
<1>13. \A a \in Ovls : InQueue(a)' <=> InQueue(a) \/ a = o
  <2>1. k + 1 \in 1..(k + 1)
    BY <1>2
  <2> QED
    BY <1>4, <1>6, <1>11, <1>12, <2>1 DEF InQueue
<1>14. InWork(o) => wk.pc = wk'.pc
  BY <1>7 DEF InWork, OvlInv, WorkerInv
<1>15. PendingIsBusy'
  <2>1. \A a \in Ovls : InWork(a) /\ wk.pc # "event" => wk'.pc # "event"
    BY <1>7
  <2> QED
    BY <1>5, <1>10, <1>13, <2>1 DEF OvlInv, PendingIsBusy
<1>16. Busy(o) <=> InQueue(o) \/ InWork(o)
  BY DEF Busy, InQueue, InWork, ToSet
<1>17. ASSUME NEW a \in Ovls, a \notin early', a # o
       PROVE  OneOperation(a)' /\ (ovl'[a].op # 0 => ItsOwn(a)')
  <2>1. a \notin early /\ OneOperation(a) /\ (ovl[a].op # 0 => ItsOwn(a)) /\ ovl'[a] = ovl[a]
    BY <1>1, <1>5, <1>17 DEF OvlInv, Mine
  <2>2. \A i \in DOMAIN queue' : queue'[i].ovl = a => i \in DOMAIN queue /\ queue[i] = queue'[i]
    BY <1>4, <1>6, <1>11, <1>17
  <2>3. InQueue(a)' <=> InQueue(a)
    BY <1>13, <1>17
  <2>4. OneOperation(a)'
    BY <1>10, <2>1, <2>2, <2>3 DEF OneOperation
  <2>5. ASSUME ovl[a].op # 0 PROVE ItsOwn(a)'
    <3>1. InWork(a) => wk'.pc = wk.pc
      BY <1>7 DEF InWork, OvlInv, WorkerInv
    <3>2. InWork(a) => Filling(a)'
      BY <1>7, <2>1, <2>5, <3>1 DEF ItsOwn, Filling, Length
    <3> QED
      BY <1>10, <2>1, <2>2, <2>3, <2>5, <3>2 DEF ItsOwn, Untouched, Complete, Completed
  <2> QED
    BY <2>1, <2>4, <2>5
<1>18. ASSUME o \notin early' PROVE OneOperation(o)' /\ ItsOwn(o)'
  <2>1. ~InQueue(o) /\ ~InWork(o)
    BY <1>1, <1>16, <1>18
  <2>2. \A i \in DOMAIN queue' : queue'[i].ovl = o => i = k + 1
    BY <1>6, <1>11, <2>1 DEF InQueue
  <2>3. OneOperation(o)'
    BY <1>10, <2>1, <2>2 DEF OneOperation
  <2>4. \A i \in DOMAIN queue' : queue'[i].ovl = o => queue'[i].n = ovl'[o].op
    BY <1>3, <1>4, <1>5, <1>6, <2>2
  <2>5. Untouched(o)'
    BY <1>3, <1>5 DEF Untouched
  <2> QED
    BY <1>10, <1>13, <2>1, <2>3, <2>4, <2>5 DEF ItsOwn
<1>19. Mine'
  BY <1>17, <1>18 DEF Mine
<1> QED
  BY <1>8, <1>9, <1>15, <1>19 DEF OvlInv

LEMMA TakesStep ==
  ASSUME OvlInv, NEW kind, WorkerTakes(kind)
  PROVE  OvlInv'
<1>0. PICK k, p : k = Len(queue) /\ p = Head(queue)
  OBVIOUS
<1>1. /\ wk.pc = "loop" /\ queue # <<>> /\ queue' = Tail(queue)
      /\ wk' = [pc |-> "run", op |-> p, rc |-> "none"]
      /\ UNCHANGED <<ovl, shutting, freeing, ops, early>>
  BY <1>0 DEF WorkerTakes
<1>2. queue \in Seq(Ops)
  BY DEF OvlInv, OvlTypes
<1>3. k \in Nat \ {0} /\ DOMAIN queue = 1..k /\ p = queue[1] /\ p \in Ops /\ queue' \in Seq(Ops)
  <2>1. k \in Nat \ {0}
    BY <1>0, <1>1, <1>2, EmptySeq
  <2> QED
    BY <1>0, <1>1, <1>2, <2>1, FirstAndRest
<1>4. DOMAIN queue' = 1..(k - 1) /\ \A i \in 1..(k - 1) : queue'[i] = queue[i + 1]
  BY <1>0, <1>1, <1>2, <1>3
<1>5. wk'.pc = "run" /\ wk'.op = p /\ wk' = [pc |-> wk'.pc, op |-> wk'.op, rc |-> wk'.rc]
  BY <1>1
<1>6. p # NoOp /\ p.ovl \in Ovls /\ wk.op = NoOp
  BY <1>1, <1>3, OvlAssumption DEF Ops, OvlInv, WorkerInv
<1>7. OvlTypes' /\ WorkerInv'
  BY <1>1, <1>3, <1>5, <1>6 DEF OvlInv, OvlTypes, WorkerInv
<1>8. \A i \in 1..(k - 1) : i + 1 \in 1..k /\ i + 1 # 1
  BY <1>3
<1>9. \A i \in 1..k : i = 1 \/ (i - 1 \in 1..(k - 1) /\ (i - 1) + 1 = i)
  BY <1>3
<1>10. 1 \in 1..k
  BY <1>3
<1>11. \A a \in Ovls : InQueue(a) => InQueue(a)' \/ p.ovl = a
  <2> SUFFICES ASSUME NEW a \in Ovls, NEW i \in 1..k, queue[i].ovl = a, p.ovl # a
               PROVE  InQueue(a)'
    BY <1>3 DEF InQueue
  <2>1. i # 1
    BY <1>3
  <2>2. i - 1 \in 1..(k - 1) /\ (i - 1) + 1 = i
    BY <1>9, <2>1
  <2>3. queue'[i - 1] = queue[i]
    BY <1>4, <2>2
  <2> QED
    BY <1>4, <2>2, <2>3 DEF InQueue
<1>12. \A a \in Ovls : InQueue(a)' => InQueue(a)
  BY <1>3, <1>4, <1>8 DEF InQueue
<1>13. \A a \in Ovls : ~InWork(a) /\ (InWork(a)' <=> p.ovl = a) /\ (p.ovl = a => InQueue(a))
  BY <1>3, <1>5, <1>6, <1>10 DEF InWork, InQueue
<1>14. PendingIsBusy'
  BY <1>1, <1>5, <1>11, <1>13 DEF OvlInv, PendingIsBusy
<1>15. ASSUME NEW a \in Ovls, a \notin early'
       PROVE  OneOperation(a)' /\ (ovl'[a].op # 0 => ItsOwn(a)')
  <2>1. OneOperation(a) /\ (ovl[a].op # 0 => ItsOwn(a))
    BY <1>1, <1>15 DEF OvlInv, Mine
  <2>2. \A i, j \in DOMAIN queue' : queue'[i].ovl = a /\ queue'[j].ovl = a => i = j
    <3> SUFFICES ASSUME NEW i \in 1..(k - 1), NEW j \in 1..(k - 1), queue'[i].ovl = a, queue'[j].ovl = a
                 PROVE  i = j
      BY <1>4
    <3>1. i + 1 = j + 1
      BY <1>3, <1>4, <1>8, <2>1 DEF OneOperation
    <3> QED
      BY <3>1
  <2>3. p.ovl = a => ~InQueue(a)'
    <3> SUFFICES ASSUME p.ovl = a, NEW i \in 1..(k - 1), queue'[i].ovl = a PROVE FALSE
      BY <1>4 DEF InQueue
    <3>1. i + 1 = 1
      BY <1>3, <1>4, <1>8, <1>10, <2>1 DEF OneOperation
    <3> QED
      BY <1>8, <3>1
  <2>4. OneOperation(a)'
    BY <1>13, <2>2, <2>3 DEF OneOperation
  <2>5. ASSUME ovl[a].op # 0 PROVE ItsOwn(a)'
    <3>1. ItsOwn(a)
      BY <2>1, <2>5
    <3>2. \A i \in DOMAIN queue' : queue'[i].ovl = a => queue'[i].n = ovl[a].op
      <4> SUFFICES ASSUME NEW i \in 1..(k - 1), queue'[i].ovl = a
                   PROVE  queue'[i].n = ovl[a].op
        BY <1>4
      <4>1. queue'[i] = queue[i + 1] /\ i + 1 \in DOMAIN queue
        BY <1>3, <1>4, <1>8
      <4> QED
        BY <3>1, <4>1 DEF ItsOwn
    <3>3. p.ovl = a => p.n = ovl[a].op /\ Untouched(a)
      BY <1>3, <1>10, <1>13, <3>1 DEF ItsOwn
    <3>4. p.ovl = a => Filling(a)'
      BY <1>1, <1>5, <3>3 DEF Filling, Untouched
    <3>5. InQueue(a)' => Untouched(a)'
      BY <1>1, <1>12, <3>1 DEF ItsOwn, Untouched
    <3>6. ~InQueue(a)' /\ p.ovl # a => Complete(a)'
      BY <1>1, <1>11, <1>13, <3>1 DEF ItsOwn, Complete, Completed
    <3> QED
      BY <1>1, <1>13, <3>2, <3>4, <3>5, <3>6 DEF ItsOwn
  <2> QED
    BY <1>1, <2>4, <2>5
<1>16. Mine'
  BY <1>15 DEF Mine
<1> QED
  BY <1>7, <1>14, <1>16 DEF OvlInv

\* The worker completes an overlapped: its length, its status, its event.
LEMMA CompletesStep ==
  ASSUME OvlInv, WorkerCompletes
  PROVE  OvlInv'
<1>0. PICK p, o, rc, pc : p = wk.op /\ o = p.ovl /\ rc = wk.rc /\ pc = wk.pc
  OBVIOUS
<1>1. pc \in {"high", "internal", "event"} /\ UNCHANGED <<queue, shutting, freeing, ops, early>>
  BY <1>0 DEF WorkerCompletes
<1>2. p \in Ops /\ p # NoOp /\ o \in Ovls /\ p.n \in 1..MaxOps /\ MaxOps \in Nat
  <2>1. p # NoOp /\ p \in Ops
    BY <1>0, <1>1 DEF OvlInv, WorkerInv, OvlTypes
  <2> QED
    BY <1>0, <2>1, OvlAssumption DEF Ops
<1>3. ovl \in [Ovls -> Overlappeds] /\ ovl[o] \in Overlappeds
  BY <1>2 DEF OvlInv, OvlTypes
<1>4. wk = [pc |-> pc, op |-> p, rc |-> rc]
  BY <1>0 DEF OvlInv, OvlTypes
<1>5. \A a \in Ovls : InQueue(a)' <=> InQueue(a)
  BY <1>1 DEF InQueue
<1>6. \A a \in Ovls : InWork(a) <=> a = o
  BY <1>0, <1>2 DEF InWork
<1>7. ASSUME NEW f \in Overlappeds, ovl' = [ovl EXCEPT ![o] = f], NEW q \in {"internal", "event"},
             wk' = [pc |-> q, op |-> p, rc |-> rc], f.internal = "pending" => q = "internal",
             f.op = ovl[o].op,
             ovl[o].op # 0 /\ o \notin early => Filling(o)'
      PROVE  OvlInv'
  <2>1. wk'.pc = q /\ wk'.op = p /\ wk'.rc = rc /\ wk' = [pc |-> wk'.pc, op |-> wk'.op, rc |-> wk'.rc]
    BY <1>7
  <2>2. ovl' \in [Ovls -> Overlappeds] /\ ovl'[o] = f /\ \A a \in Ovls : a # o => ovl'[a] = ovl[a]
    BY <1>2, <1>3, <1>7
  <2>3. OvlTypes' /\ WorkerInv'
    BY <1>0, <1>1, <1>2, <2>1, <2>2 DEF OvlInv, OvlTypes, WorkerInv
  <2>4. \A a \in Ovls : InWork(a)' <=> a = o
    BY <1>0, <1>2, <2>1 DEF InWork
  <2>5. PendingIsBusy'
    BY <1>5, <1>6, <1>7, <2>1, <2>2, <2>4 DEF OvlInv, PendingIsBusy
  <2>6. ASSUME NEW a \in Ovls, a \notin early'
        PROVE  OneOperation(a)' /\ (ovl'[a].op # 0 => ItsOwn(a)')
    <3>1. OneOperation(a) /\ (ovl[a].op # 0 => ItsOwn(a))
      BY <1>1, <2>6 DEF OvlInv, Mine
    <3>2. OneOperation(a)'
      BY <1>1, <1>5, <1>6, <2>4, <3>1 DEF OneOperation
    <3>3. ASSUME ovl'[a].op # 0 PROVE ItsOwn(a)'
      <4>1. ovl[a].op # 0 /\ ovl'[a].op = ovl[a].op
        BY <1>7, <2>2, <3>3
      <4>2. ItsOwn(a)
        BY <3>1, <4>1
      <4>3. CASE a = o
        BY <1>1, <1>5, <1>6, <1>7, <2>4, <2>6, <3>1, <4>1, <4>2, <4>3 DEF ItsOwn, OneOperation
      <4>4. CASE a # o
        BY <1>1, <1>5, <1>6, <2>2, <2>4, <4>1, <4>2, <4>4 DEF ItsOwn, Untouched, Complete, Completed
      <4> QED
        BY <4>3, <4>4
    <3> QED
      BY <3>2, <3>3
  <2>7. Mine'
    BY <2>6 DEF Mine
  <2> QED
    BY <2>3, <2>5, <2>7 DEF OvlInv
<1>f. ASSUME ovl[o].op # 0, o \notin early PROVE Filling(o)
  BY <1>2, <1>6, <1>f DEF OvlInv, Mine, ItsOwn
<1>8. CASE pc = "high"
  <2> DEFINE h == IF rc = "ok" THEN p.n ELSE 0
             f == [ovl[o] EXCEPT !.high = h]
  <2>1. ovl' = [ovl EXCEPT ![o] = f]
    BY <1>0, <1>8 DEF WorkerCompletes, CompleteSteps
  <2>2. wk' = [pc |-> "internal", op |-> p, rc |-> rc]
    BY <1>0, <1>4, <1>8 DEF WorkerCompletes
  <2>h. h \in 0..MaxOps
    BY <1>2
  <2>3. /\ f \in Overlappeds /\ f.internal = ovl[o].internal /\ f.op = ovl[o].op /\ f.event = ovl[o].event
        /\ f.high = h
    <3> HIDE DEF h
    <3> QED
      BY <1>3, <2>h DEF Overlappeds
  <2> HIDE DEF f
  <2>4. ASSUME ovl[o].op # 0, o \notin early PROVE Filling(o)'
    <3>1. Filling(o)
      BY <1>f, <2>4
    <3>2. ovl'[o] = f
      BY <1>2, <1>3, <2>1
    <3>3. wk'.pc = "internal" /\ wk'.op = p /\ wk'.rc = rc
      BY <2>2
    <3>4. p.n = ovl[o].op /\ ~ovl[o].event /\ ovl[o].internal = "pending"
      BY <1>0, <1>8, <3>1 DEF Filling
    <3> QED
      BY <2>3, <3>2, <3>3, <3>4 DEF Filling, Length
  <2> QED
    BY <1>7, <2>1, <2>2, <2>3, <2>4
<1>9. CASE pc = "internal"
  <2> DEFINE s == IF rc = "ok" THEN "ok" ELSE "fail"
             f == [ovl[o] EXCEPT !.internal = s]
  <2>1. ovl' = [ovl EXCEPT ![o] = f]
    BY <1>0, <1>9 DEF WorkerCompletes, CompleteSteps
  <2>2. wk' = [pc |-> "event", op |-> p, rc |-> rc]
    BY <1>0, <1>4, <1>9 DEF WorkerCompletes
  <2>s. s \in {"ok", "fail"}
    OBVIOUS
  <2>3. /\ f \in Overlappeds /\ f.internal = s /\ f.op = ovl[o].op /\ f.event = ovl[o].event
        /\ f.high = ovl[o].high
    <3> HIDE DEF s
    <3> QED
      BY <1>3, <2>s DEF Overlappeds
  <2> HIDE DEF f
  <2>4. ASSUME ovl[o].op # 0, o \notin early PROVE Filling(o)'
    <3>1. Filling(o)
      BY <1>f, <2>4
    <3>2. ovl'[o] = f
      BY <1>2, <1>3, <2>1
    <3>3. wk'.pc = "event" /\ wk'.op = p /\ wk'.rc = rc
      BY <2>2
    <3>4. p.n = ovl[o].op /\ ~ovl[o].event /\ ovl[o].high = IF rc = "ok" THEN ovl[o].op ELSE 0
      BY <1>0, <1>9, <3>1 DEF Filling, Length
    <3> QED
      BY <2>3, <3>2, <3>3, <3>4 DEF Filling, Length
  <2> QED
    BY <1>7, <2>1, <2>2, <2>3, <2>4, <2>s
<1>10. CASE pc = "event"
  <2> DEFINE f == [ovl[o] EXCEPT !.event = TRUE]
  <2>1. ovl' = [ovl EXCEPT ![o] = f]
    BY <1>0, <1>10 DEF WorkerCompletes, CompleteSteps
  <2>2. wk' = [pc |-> "loop", op |-> NoOp, rc |-> "none"]
    BY <1>0, <1>10 DEF WorkerCompletes
  <2>3. f \in Overlappeds /\ f.internal = ovl[o].internal /\ f.op = ovl[o].op /\ f.high = ovl[o].high
    BY <1>3 DEF Overlappeds
  <2> HIDE DEF f
  <2>4. ovl' \in [Ovls -> Overlappeds] /\ ovl'[o] = f /\ \A a \in Ovls : a # o => ovl'[a] = ovl[a]
    BY <1>2, <1>3, <2>1, <2>3
  <2>5. wk'.pc = "loop" /\ wk'.op = NoOp /\ wk' = [pc |-> wk'.pc, op |-> wk'.op, rc |-> wk'.rc]
    BY <2>2
  <2>6. OvlTypes' /\ WorkerInv'
    BY <1>0, <1>1, <2>4, <2>5 DEF OvlInv, OvlTypes, WorkerInv
  <2>7. \A a \in Ovls : ~InWork(a)'
    BY <2>5 DEF InWork
  <2>8. PendingIsBusy'
    BY <1>0, <1>5, <1>6, <1>10, <2>3, <2>4 DEF OvlInv, PendingIsBusy
  <2>9. ASSUME NEW a \in Ovls, a \notin early'
        PROVE  OneOperation(a)' /\ (ovl'[a].op # 0 => ItsOwn(a)')
    <3>1. OneOperation(a) /\ (ovl[a].op # 0 => ItsOwn(a))
      BY <1>1, <2>9 DEF OvlInv, Mine
    <3>2. OneOperation(a)'
      BY <1>1, <2>7, <3>1 DEF OneOperation
    <3>3. ASSUME ovl'[a].op # 0 PROVE ItsOwn(a)'
      <4>1. ovl[a].op # 0 /\ ovl'[a].op = ovl[a].op
        BY <2>3, <2>4, <3>3
      <4>2. ItsOwn(a)
        BY <3>1, <4>1
      <4>3. CASE a = o
        <5>1. ~InQueue(a) /\ Filling(a)
          BY <1>6, <3>1, <4>2, <4>3 DEF OneOperation, ItsOwn
        <5>2. ovl[o].high = (IF rc = "ok" THEN ovl[o].op ELSE 0) /\ ovl[o].internal = (IF rc = "ok" THEN "ok" ELSE "fail")
          BY <1>0, <1>10, <4>3, <5>1 DEF Filling, Length
        <5>3. Complete(a)'
          BY <2>3, <2>4, <4>3, <5>2 DEF Complete, Completed
        <5> QED
          BY <1>1, <1>5, <2>7, <4>1, <4>2, <5>1, <5>3 DEF ItsOwn
      <4>4. CASE a # o
        BY <1>1, <1>5, <1>6, <2>4, <2>7, <4>1, <4>2, <4>4 DEF ItsOwn, Untouched, Complete, Completed
      <4> QED
        BY <4>3, <4>4
    <3> QED
      BY <3>2, <3>3
  <2> QED
    BY <2>6, <2>8, <2>9 DEF OvlInv, Mine
<1> QED
  BY <1>1, <1>8, <1>9, <1>10

LEMMA OvlStep == OvlInv /\ [OvlNext \/ OvlServer]_<<clientvars, ovlvars>> => OvlInv'
<1> SUFFICES ASSUME OvlInv, [OvlNext \/ OvlServer]_<<clientvars, ovlvars>> PROVE OvlInv'
  OBVIOUS
<1>1. ASSUME UNCHANGED ovlvars PROVE OvlInv'
  BY <1>1, AsideStep DEF ovlvars
<1>2. CASE OvlNext
  <2>1. CASE SyncIo \/ SyncReturns \/ (\E b \in Busids : UsbK_Init(b)) \/ (\E t \in Threads : Step(t) /\ UNCHANGED ovlvars)
    BY <1>1, <2>1 DEF SyncIo, SyncReturns, UsbK_Init
  <2>2. CASE \E o \in Ovls : \E d, t \in BOOLEAN : OvlK_Wait(o, d, t)
    BY <2>2, AsideStep DEF OvlK_Wait
  <2> QED
    BY <1>2, <2>1, <2>2, FreeStep, FreedStep, AcquireStep, QueueStep, RestsStep, TakesStep, RanStep, CompletesStep
       DEF OvlNext
<1>3. CASE OvlServer
  BY <1>1, <1>3 DEF OvlServer
<1>4. CASE UNCHANGED <<clientvars, ovlvars>>
  BY <1>1, <1>4
<1> QED
  BY <1>2, <1>3, <1>4

\* For any number of overlappeds and operations: what an OVERLAPPED shows once its event
\* is set, or its Internal is no longer pending, is the whole result of the operation that
\* was queued on it, although kusb_worker writes the three fields one after the other with
\* no lock and the program may poll, time out, release and acquire in between; the only
\* exception is an overlapped queued again before its event was set.  When UsbK_Free has
\* joined the worker nothing is queued and nothing is pending.
THEOREM OverlappedIsMineHolds == OvlSpec => []OverlappedIsMine
<1>1. OvlInv => OverlappedIsMine
  <2> SUFFICES ASSUME OvlInv PROVE OverlappedIsMine
    OBVIOUS
  <2>1. ASSUME NEW o \in Ovls, o \notin early, ovl[o].op # 0
        PROVE  /\ Signalled(o) => Completed(o)
               /\ Completed(o) => ovl[o].high = IF ovl[o].internal = "ok" THEN ovl[o].op ELSE 0
    <3>1. ItsOwn(o)
      BY <2>1 DEF OvlInv, Mine
    <3>2. CASE InQueue(o)
      BY <3>1, <3>2 DEF ItsOwn, Untouched, Signalled, Completed
    <3>3. CASE InWork(o)
      BY <3>1, <3>3 DEF ItsOwn, Filling, Length, Signalled, Completed
    <3>4. CASE ~InQueue(o) /\ ~InWork(o)
      BY <3>1, <3>4 DEF ItsOwn, Complete
    <3> QED
      BY <3>2, <3>3, <3>4
  <2>2. ASSUME wk.pc = "none" PROVE queue = <<>> /\ \A o \in Ovls : Completed(o)
    <3>1. queue = <<>> /\ wk.op = NoOp
      BY <2>2 DEF OvlInv, WorkerInv
    <3> QED
      BY <3>1 DEF OvlInv, PendingIsBusy, InQueue, InWork, Completed
  <2> QED
    BY <2>1, <2>2 DEF OverlappedIsMine
<1> QED
  BY <1>1, OvlInitial, OvlStep, PTL DEF OvlSpec

-----------------------------------------------------------------------------
(* Pipe streams: the rings                                                 *)

StreamSpec == StreamInit /\ [][StreamNext]_streamvars

\* What is in place i of a ring, counted from its head.
At(r, i) == r.q[(r.head + i) % n_slots]

LEMMA ModLow ==
  ASSUME NEW n \in Nat \ {0}, NEW a \in Nat, a < n
  PROVE  a % n = a
OBVIOUS

LEMMA ModHigh ==
  ASSUME NEW n \in Nat \ {0}, NEW a \in Nat, n <= a, a < n + n
  PROVE  a % n = a - n
OBVIOUS

LEMMA SlotNumbers == n_slots \in Nat \ {0} /\ 0 \in Slots /\ NoSlot \notin Slots /\ Slots \subseteq Nat
BY StreamAssumption DEF Slots, NoSlot

LEMMA Wrap ==
  ASSUME NEW h \in Slots, NEW i \in 0..n_slots
  PROVE  /\ (h + i) % n_slots = IF h + i < n_slots THEN h + i ELSE h + i - n_slots
         /\ (h + i) % n_slots \in Slots
<1>1. n_slots \in Nat \ {0} /\ h \in 0..(n_slots - 1)
  BY StreamAssumption DEF Slots
<1>2. CASE h + i < n_slots
  <2>1. (h + i) % n_slots = h + i
    BY <1>1, <1>2, ModLow
  <2> QED
    BY <1>1, <1>2, <2>1 DEF Slots
<1>3. CASE ~(h + i < n_slots)
  <2>1. PICK a : a = h + i
    OBVIOUS
  <2>2. a \in Nat /\ n_slots <= a /\ a < n_slots + n_slots
    BY <1>1, <1>3, <2>1
  <2>3. a % n_slots = a - n_slots
    BY <1>1, <2>2, ModHigh
  <2> QED
    BY <1>1, <1>3, <2>1, <2>2, <2>3 DEF Slots
<1> QED
  BY <1>2, <1>3

\* Different places of a ring are different cells.
LEMMA CellsDiffer ==
  ASSUME NEW h \in Slots, NEW i \in 0..(n_slots - 1), NEW j \in 0..(n_slots - 1), i # j
  PROVE  (h + i) % n_slots # (h + j) % n_slots
<1>1. n_slots \in Nat \ {0} /\ h \in 0..(n_slots - 1)
  BY StreamAssumption DEF Slots
<1>2. i \in 0..n_slots /\ j \in 0..n_slots
  BY <1>1
<1>3. /\ (h + i) % n_slots = IF h + i < n_slots THEN h + i ELSE h + i - n_slots
      /\ (h + j) % n_slots = IF h + j < n_slots THEN h + j ELSE h + j - n_slots
  BY <1>2, Wrap
<1> QED
  BY <1>1, <1>3

\* One place on is the head's successor's.
LEMMA NextCell ==
  ASSUME NEW h \in Slots, NEW i \in 0..(n_slots - 1)
  PROVE  (((h + 1) % n_slots) + i) % n_slots = (h + (i + 1)) % n_slots
<1>1. n_slots \in Nat \ {0} /\ h \in 0..(n_slots - 1)
  BY StreamAssumption DEF Slots
<1>2. 1 \in 0..n_slots /\ i \in 0..n_slots /\ i + 1 \in 0..n_slots
  BY <1>1
<1>3. PICK g : g = (h + 1) % n_slots
  OBVIOUS
<1>4. g \in Slots /\ g = IF h + 1 < n_slots THEN h + 1 ELSE h + 1 - n_slots
  BY <1>2, <1>3, Wrap
<1>5. (g + i) % n_slots = IF g + i < n_slots THEN g + i ELSE g + i - n_slots
  BY <1>2, <1>4, Wrap
<1>6. (h + (i + 1)) % n_slots = IF h + (i + 1) < n_slots THEN h + (i + 1) ELSE h + (i + 1) - n_slots
  BY <1>2, Wrap
<1>7. (g + i) % n_slots = (h + (i + 1)) % n_slots
  BY <1>1, <1>4, <1>5, <1>6
<1> QED
  BY <1>3, <1>7

LEMMA RingFields ==
  ASSUME NEW r \in Ring
  PROVE  /\ r.q \in [Slots -> Slots] /\ r.head \in Slots /\ r.count \in Nat
         /\ \A i \in 0..n_slots : At(r, i) \in Slots
<1>1. r.q \in [Slots -> Slots] /\ r.head \in Slots /\ r.count \in Nat
  BY DEF Ring
<1>2. \A i \in 0..n_slots : (r.head + i) % n_slots \in Slots
  BY <1>1, Wrap
<1> QED
  BY <1>1, <1>2 DEF At

LEMMA PushFacts ==
  ASSUME NEW r \in Ring, NEW v \in Slots, r.count < n_slots
  PROVE  /\ kstm_push(r, v) \in Ring /\ kstm_push(r, v).count = r.count + 1
         /\ \A i \in 0..(r.count - 1) : At(kstm_push(r, v), i) = At(r, i)
         /\ At(kstm_push(r, v), r.count) = v
<1>1. n_slots \in Nat \ {0} /\ r.q \in [Slots -> Slots] /\ r.head \in Slots /\ r.count \in Nat
  BY RingFields, SlotNumbers
<1>2. PICK c : c = (r.head + r.count) % n_slots
  OBVIOUS
<1>3. c \in Slots
  BY <1>1, <1>2, Wrap
<1> DEFINE p == kstm_push(r, v)
<1>4. p = [r EXCEPT !.q = [r.q EXCEPT ![c] = v], !.count = r.count + 1]
  BY <1>2 DEF kstm_push
<1>5. [r.q EXCEPT ![c] = v] \in [Slots -> Slots] /\ r.count + 1 \in Nat
  BY <1>1, <1>3
<1>6. p \in Ring /\ p.q = [r.q EXCEPT ![c] = v] /\ p.head = r.head /\ p.count = r.count + 1
  BY <1>4, <1>5 DEF Ring
<1> HIDE DEF p
<1>7. ASSUME NEW i \in 0..(r.count - 1) PROVE At(p, i) = At(r, i)
  <2>1. PICK a : a = (r.head + i) % n_slots
    OBVIOUS
  <2>2. i \in 0..(n_slots - 1) /\ r.count \in 0..(n_slots - 1) /\ i # r.count /\ i \in 0..n_slots
    BY <1>1
  <2>3. a # c /\ a \in Slots
    BY <1>1, <1>2, <2>1, <2>2, CellsDiffer, Wrap
  <2>4. p.q[a] = r.q[a]
    BY <1>1, <1>6, <2>3
  <2> QED
    BY <1>6, <2>1, <2>4 DEF At
<1>8. At(p, r.count) = v
  BY <1>1, <1>2, <1>3, <1>6 DEF At
<1> QED
  BY <1>6, <1>7, <1>8 DEF p

LEMMA PopFacts ==
  ASSUME NEW r \in Ring, r.count > 0, r.count <= n_slots
  PROVE  /\ kstm_pop(r) \in Ring /\ kstm_pop(r).count = r.count - 1
         /\ \A i \in 0..(r.count - 2) : At(kstm_pop(r), i) = At(r, i + 1)
         /\ First(r) = At(r, 0)
<1>1. n_slots \in Nat \ {0} /\ r.q \in [Slots -> Slots] /\ r.head \in Slots /\ r.count \in Nat
  BY RingFields, SlotNumbers
<1>2. PICK g : g = (r.head + 1) % n_slots
  OBVIOUS
<1>3. g \in Slots
  BY <1>1, <1>2, Wrap
<1> DEFINE p == kstm_pop(r)
<1>4. p = [r EXCEPT !.head = g, !.count = r.count - 1]
  BY <1>2 DEF kstm_pop
<1>5. r.count - 1 \in Nat
  BY <1>1
<1>6. p \in Ring /\ p.q = r.q /\ p.head = g /\ p.count = r.count - 1
  BY <1>3, <1>4, <1>5 DEF Ring
<1> HIDE DEF p
<1>7. ASSUME NEW i \in 0..(r.count - 2) PROVE At(p, i) = At(r, i + 1)
  <2>1. i \in 0..(n_slots - 1)
    BY <1>1
  <2>2. (g + i) % n_slots = (r.head + (i + 1)) % n_slots
    BY <1>1, <1>2, <2>1, NextCell
  <2> QED
    BY <1>6, <2>2 DEF At
<1>8. (r.head + 0) % n_slots = r.head
  <2>1. r.head \in Nat /\ r.head < n_slots /\ r.head + 0 = r.head
    BY <1>1 DEF Slots
  <2> QED
    BY <1>1, <2>1, ModLow
<1> QED
  BY <1>6, <1>7, <1>8 DEF p, First, At

\* No slot is twice in the ring.
RingOnce(r) == \A i, j \in 0..(r.count - 1) : At(r, i) = At(r, j) => i = j

LEMMA InRingAt == \A r : InRing(r) = {At(r, i) : i \in 0..(r.count - 1)}
BY DEF InRing, At

LEMMA PushRing ==
  ASSUME NEW r \in Ring, NEW v \in Slots, r.count < n_slots, RingOnce(r), v \notin InRing(r)
  PROVE  RingOnce(kstm_push(r, v)) /\ InRing(kstm_push(r, v)) = InRing(r) \cup {v}
<1> DEFINE p == kstm_push(r, v)
           c == r.count
<1>1. /\ c \in Nat /\ p.count = c + 1 /\ At(p, c) = v
      /\ \A i \in 0..(c - 1) : At(p, i) = At(r, i)
  BY PushFacts, RingFields
<1>2. \A i \in 0..(c - 1) : At(r, i) # v
  BY InRingAt
<1> HIDE DEF p, c
<1>3. p.count - 1 = c
  BY <1>1
<1>4. \A i \in 0..c : i \in 0..(c - 1) \/ i = c
  BY <1>1
<1>5. (\A i \in 0..(c - 1) : i \in 0..c) /\ c \in 0..c
  BY <1>1
<1>6. RingOnce(p)
  <2> SUFFICES ASSUME NEW i \in 0..c, NEW j \in 0..c, At(p, i) = At(p, j)
               PROVE  i = j
    BY <1>3 DEF RingOnce
  <2>1. CASE i \in 0..(c - 1) /\ j \in 0..(c - 1)
    <3>1. At(r, i) = At(r, j)
      BY <1>1, <2>1
    <3> QED
      BY <2>1, <3>1 DEF RingOnce, c
  <2>2. CASE i = c \/ j = c
    BY <1>1, <1>2, <1>4, <2>2
  <2> QED
    BY <1>4, <2>1, <2>2
<1>7. InRing(p) = {At(p, i) : i \in 0..c} /\ InRing(r) = {At(r, i) : i \in 0..(c - 1)}
  BY <1>3, InRingAt DEF c
<1>8. \A x \in InRing(p) : x \in InRing(r) \cup {v}
  BY <1>1, <1>4, <1>7
<1>9. \A x \in InRing(r) \cup {v} : x \in InRing(p)
  BY <1>1, <1>5, <1>7
<1> QED
  BY <1>6, <1>8, <1>9 DEF p

LEMMA PopRing ==
  ASSUME NEW r \in Ring, r.count > 0, r.count <= n_slots, RingOnce(r)
  PROVE  /\ RingOnce(kstm_pop(r)) /\ InRing(kstm_pop(r)) = InRing(r) \ {First(r)}
         /\ First(r) \in InRing(r) /\ First(r) \in Slots
<1> DEFINE p == kstm_pop(r)
           c == r.count
<1>1. /\ c \in Nat /\ p.count = c - 1 /\ First(r) = At(r, 0)
      /\ \A i \in 0..(c - 2) : At(p, i) = At(r, i + 1)
  BY PopFacts, RingFields
<1>2. First(r) \in Slots
  <2>1. 0 \in 0..n_slots
    BY SlotNumbers
  <2> QED
    BY <1>1, <2>1, RingFields
<1>c. c > 0
  OBVIOUS
<1>o. \A i, j \in 0..(c - 1) : At(r, i) = At(r, j) => i = j
  BY DEF RingOnce
<1> HIDE DEF p, c
<1>3. p.count - 1 = c - 2 /\ 0 \in 0..(c - 1)
  BY <1>1, <1>c
<1>4. \A i \in 0..(c - 2) : i + 1 \in 0..(c - 1) /\ i + 1 # 0
  BY <1>1
<1>5. \A i \in 0..(c - 1) : i = 0 \/ (i - 1 \in 0..(c - 2) /\ (i - 1) + 1 = i)
  BY <1>1
<1>6. RingOnce(p)
  <2> SUFFICES ASSUME NEW i \in 0..(c - 2), NEW j \in 0..(c - 2), At(p, i) = At(p, j)
               PROVE  i = j
    BY <1>3 DEF RingOnce
  <2>1. i + 1 = j + 1
    BY <1>1, <1>4, <1>o
  <2> QED
    BY <2>1
<1>7. InRing(p) = {At(p, i) : i \in 0..(c - 2)} /\ InRing(r) = {At(r, i) : i \in 0..(c - 1)}
  BY <1>3, InRingAt DEF c
<1>8. \A x \in InRing(p) : x \in InRing(r) /\ x # First(r)
  BY <1>1, <1>3, <1>4, <1>7, <1>o
<1>9. ASSUME NEW x \in InRing(r), x # First(r) PROVE x \in InRing(p)
  <2>1. PICK i \in 0..(c - 1) : x = At(r, i)
    BY <1>7
  <2>2. i # 0
    BY <1>1, <1>9, <2>1
  <2>3. i - 1 \in 0..(c - 2) /\ (i - 1) + 1 = i
    BY <1>5, <2>2
  <2>4. At(p, i - 1) = x
    BY <1>1, <2>1, <2>3
  <2> QED
    BY <1>7, <2>3, <2>4
<1>10. First(r) \in InRing(r)
  BY <1>1, <1>3, <1>7
<1> QED
  BY <1>2, <1>6, <1>8, <1>9, <1>10 DEF p

-----------------------------------------------------------------------------
(* Pipe streams: slots in rings and in hands                               *)

Hands == Callers \cup {"thread"}
Holdings == [Hands -> Slots \cup {NoSlot}]
HeldSlots(h) == {h[a] : a \in Hands} \ {NoSlot}

\* No two hands hold one slot.
Apart(h) == \A a, b \in Hands : h[a] = h[b] /\ h[a] # NoSlot => a = b

\* Every slot is in one place: ring f, ring r or one hand.
OneEach(f, r, h) ==
  /\ RingOnce(f) /\ RingOnce(r) /\ Apart(h)
  /\ f.count + r.count + Cardinality(HeldSlots(h)) = n_slots
  /\ InRing(f) \cap InRing(r) = {} /\ InRing(f) \cap HeldSlots(h) = {} /\ InRing(r) \cap HeldSlots(h) = {}
  /\ InRing(f) \cup InRing(r) \cup HeldSlots(h) = Slots

LEMMA SlotsFinite == IsFiniteSet(Slots)
<1>1. n_slots - 1 \in Int /\ 0 \in Int
  BY SlotNumbers
<1> QED
  BY <1>1, FS_Interval DEF Slots

LEMMA HeldFinite ==
  ASSUME NEW h \in Holdings
  PROVE  HeldSlots(h) \subseteq Slots /\ IsFiniteSet(HeldSlots(h)) /\ Cardinality(HeldSlots(h)) \in Nat
<1>1. HeldSlots(h) \subseteq Slots
  BY DEF HeldSlots, Holdings
<1>2. IsFiniteSet(HeldSlots(h))
  BY <1>1, SlotsFinite, FS_Subset
<1> QED
  BY <1>1, <1>2, FS_CardinalityType

LEMMA OneEachTurned == \A f, r \in Ring : \A h \in Holdings : OneEach(f, r, h) => OneEach(r, f, h)
<1> TAKE f, r \in Ring
<1> TAKE h \in Holdings
<1>1. PICK k : k = Cardinality(HeldSlots(h))
  OBVIOUS
<1>4. k \in Nat
  BY <1>1, HeldFinite
<1>5. f.count + r.count + k = n_slots => r.count + f.count + k = n_slots
  BY <1>4, RingFields
<1> QED
  BY <1>1, <1>5, Zenon DEF OneEach

\* An empty hand takes a slot nobody holds; a hand gives its slot away.
LEMMA HandTakes ==
  ASSUME NEW h \in Holdings, NEW a \in Hands, NEW s \in Slots, h[a] = NoSlot, s \notin HeldSlots(h), Apart(h)
  PROVE  LET g == [h EXCEPT ![a] = s]
         IN  g \in Holdings /\ HeldSlots(g) = HeldSlots(h) \cup {s} /\ Apart(g) /\ Cardinality(HeldSlots(g)) = Cardinality(HeldSlots(h)) + 1
<1> DEFINE g == [h EXCEPT ![a] = s]
<1>1. s # NoSlot
  BY SlotNumbers
<1>2. g \in Holdings /\ g[a] = s /\ \A b \in Hands : b # a => g[b] = h[b]
  BY DEF Holdings
<1> HIDE DEF g
<1>3. \A x \in HeldSlots(g) : x \in HeldSlots(h) \cup {s}
  BY <1>2 DEF HeldSlots
<1>4. \A x \in HeldSlots(h) \cup {s} : x \in HeldSlots(g)
  BY <1>1, <1>2 DEF HeldSlots
<1>5. HeldSlots(g) = HeldSlots(h) \cup {s}
  BY <1>3, <1>4
<1>6. Apart(g)
  BY <1>1, <1>2 DEF Apart, HeldSlots
<1>7. Cardinality(HeldSlots(g)) = Cardinality(HeldSlots(h)) + 1
  BY <1>5, HeldFinite, FS_AddElement
<1> QED
  BY <1>2, <1>5, <1>6, <1>7 DEF g

LEMMA HandGives ==
  ASSUME NEW h \in Holdings, NEW a \in Hands, h[a] # NoSlot, Apart(h)
  PROVE  LET g == [h EXCEPT ![a] = NoSlot]
         IN  /\ g \in Holdings /\ HeldSlots(g) = HeldSlots(h) \ {h[a]} /\ Apart(g)
             /\ Cardinality(HeldSlots(g)) = Cardinality(HeldSlots(h)) - 1 /\ Cardinality(HeldSlots(h)) > 0
             /\ h[a] \in HeldSlots(h) /\ h[a] \in Slots
<1> DEFINE g == [h EXCEPT ![a] = NoSlot]
<1>2. g \in Holdings /\ g[a] = NoSlot /\ \A b \in Hands : b # a => g[b] = h[b]
  BY DEF Holdings
<1> HIDE DEF g
<1>3. \A x \in HeldSlots(g) : x \in HeldSlots(h) \ {h[a]}
  BY <1>2 DEF HeldSlots, Apart
<1>4. \A x \in HeldSlots(h) \ {h[a]} : x \in HeldSlots(g)
  BY <1>2 DEF HeldSlots
<1>5. HeldSlots(g) = HeldSlots(h) \ {h[a]}
  BY <1>3, <1>4
<1>6. Apart(g)
  BY <1>2 DEF Apart
<1>7. h[a] \in HeldSlots(h) /\ h[a] \in Slots
  BY DEF HeldSlots, Holdings
<1>8. IsFiniteSet(HeldSlots(h)) /\ Cardinality(HeldSlots(h)) \in Nat
  BY HeldFinite
<1>9. Cardinality(HeldSlots(g)) = Cardinality(HeldSlots(h)) - 1
  BY <1>5, <1>7, <1>8, FS_RemoveElement
<1>10. Cardinality(HeldSlots(h)) # 0
  BY <1>7, <1>8, FS_EmptySet
<1>11. Cardinality(HeldSlots(h)) > 0
  BY <1>8, <1>10
<1> QED
  BY <1>2, <1>5, <1>6, <1>7, <1>9, <1>11 DEF g

\* From a ring into a hand.
LEMMA Takes ==
  ASSUME NEW f \in Ring, NEW r \in Ring, NEW h \in Holdings, NEW a \in Hands,
         OneEach(f, r, h), h[a] = NoSlot, f.count > 0
  PROVE  /\ kstm_pop(f) \in Ring /\ [h EXCEPT ![a] = First(f)] \in Holdings
         /\ OneEach(kstm_pop(f), r, [h EXCEPT ![a] = First(f)])
         /\ First(f) \in Slots \ (InRing(r) \cup HeldSlots(h))
<1>1. n_slots \in Nat /\ f.count \in Nat /\ r.count \in Nat /\ Cardinality(HeldSlots(h)) \in Nat
  BY SlotNumbers, RingFields, HeldFinite
<1>2. f.count + r.count + Cardinality(HeldSlots(h)) = n_slots
  BY DEF OneEach
<1>3. f.count <= n_slots
  BY <1>1, <1>2
<1>4. RingOnce(f) /\ RingOnce(r) /\ Apart(h)
  BY DEF OneEach
<1>5. kstm_pop(f) \in Ring /\ kstm_pop(f).count = f.count - 1
  BY <1>3, PopFacts
<1>6. /\ RingOnce(kstm_pop(f)) /\ InRing(kstm_pop(f)) = InRing(f) \ {First(f)}
      /\ First(f) \in InRing(f) /\ First(f) \in Slots
  BY <1>3, <1>4, PopRing
<1>7. First(f) \notin InRing(r) /\ First(f) \notin HeldSlots(h)
  BY <1>6 DEF OneEach
<1>8. PICK g : g = [h EXCEPT ![a] = First(f)]
  OBVIOUS
<1>9. g \in Holdings /\ HeldSlots(g) = HeldSlots(h) \cup {First(f)} /\ Apart(g) /\ Cardinality(HeldSlots(g)) = Cardinality(HeldSlots(h)) + 1
  BY <1>4, <1>6, <1>7, <1>8, HandTakes
<1>10. kstm_pop(f).count + r.count + Cardinality(HeldSlots(g)) = n_slots
  BY <1>1, <1>2, <1>5, <1>9
<1>11. /\ InRing(kstm_pop(f)) \cap InRing(r) = {} /\ InRing(kstm_pop(f)) \cap HeldSlots(g) = {}
       /\ InRing(r) \cap HeldSlots(g) = {} /\ InRing(kstm_pop(f)) \cup InRing(r) \cup HeldSlots(g) = Slots
  BY <1>6, <1>7, <1>9 DEF OneEach
<1>12. OneEach(kstm_pop(f), r, g)
  BY <1>4, <1>6, <1>9, <1>10, <1>11 DEF OneEach
<1> QED
  BY <1>5, <1>6, <1>7, <1>8, <1>9, <1>12

\* From a hand into a ring, which has room for it.
LEMMA Puts ==
  ASSUME NEW f \in Ring, NEW r \in Ring, NEW h \in Holdings, NEW a \in Hands,
         OneEach(f, r, h), h[a] # NoSlot
  PROVE  /\ f.count < n_slots /\ h[a] \in Slots \ InRing(f)
         /\ kstm_push(f, h[a]) \in Ring /\ [h EXCEPT ![a] = NoSlot] \in Holdings
         /\ OneEach(kstm_push(f, h[a]), r, [h EXCEPT ![a] = NoSlot])
<1>1. n_slots \in Nat /\ f.count \in Nat /\ r.count \in Nat /\ Cardinality(HeldSlots(h)) \in Nat
  BY SlotNumbers, RingFields, HeldFinite
<1>2. f.count + r.count + Cardinality(HeldSlots(h)) = n_slots
  BY DEF OneEach
<1>4. RingOnce(f) /\ RingOnce(r) /\ Apart(h)
  BY DEF OneEach
<1>5. PICK v : v = h[a]
  OBVIOUS
<1>8. PICK g : g = [h EXCEPT ![a] = NoSlot]
  OBVIOUS
<1>9. /\ g \in Holdings /\ HeldSlots(g) = HeldSlots(h) \ {v} /\ Apart(g)
      /\ Cardinality(HeldSlots(g)) = Cardinality(HeldSlots(h)) - 1 /\ Cardinality(HeldSlots(h)) > 0
      /\ v \in HeldSlots(h) /\ v \in Slots
  BY <1>4, <1>5, <1>8, HandGives
<1>3. f.count < n_slots
  BY <1>1, <1>2, <1>9
<1>6. v \notin InRing(f) /\ v \notin InRing(r)
  BY <1>9 DEF OneEach
<1>7. /\ kstm_push(f, v) \in Ring /\ kstm_push(f, v).count = f.count + 1
      /\ RingOnce(kstm_push(f, v)) /\ InRing(kstm_push(f, v)) = InRing(f) \cup {v}
  BY <1>3, <1>4, <1>6, <1>9, PushFacts, PushRing
<1>10. kstm_push(f, v).count + r.count + Cardinality(HeldSlots(g)) = n_slots
  BY <1>1, <1>2, <1>7, <1>9
<1>11. /\ InRing(kstm_push(f, v)) \cap InRing(r) = {} /\ InRing(kstm_push(f, v)) \cap HeldSlots(g) = {}
       /\ InRing(r) \cap HeldSlots(g) = {} /\ InRing(kstm_push(f, v)) \cup InRing(r) \cup HeldSlots(g) = Slots
  BY <1>6, <1>7, <1>9 DEF OneEach
<1>12. OneEach(kstm_push(f, v), r, g)
  BY <1>4, <1>7, <1>9, <1>10, <1>11 DEF OneEach
<1> QED
  BY <1>3, <1>5, <1>6, <1>7, <1>8, <1>9, <1>12

-----------------------------------------------------------------------------
(* Pipe streams: the order of the transfers                                *)

\* IN: what was read so far is 1, 2, ...; the ready ring holds the numbers that follow,
\* and the slot the thread has just filled (it is at "complete") the last one.
Full(pc) == IF pc = "complete" THEN 1 ELSE 0
InOrder(r, sl, pc, mine, d, del) ==
  /\ \A i \in 1..Len(del) : del[i] = i
  /\ \A i \in 0..(r.count - 1) : sl[At(r, i)] = Len(del) + 1 + i
  /\ pc = "complete" => sl[mine] = d
  /\ Len(del) + r.count + Full(pc) = d

\* OUT: the ready ring holds the last numbers written, the slot the thread is about to
\* submit the one before them, and every number before that was taken by the device, in
\* increasing order, or lost.
Submitting(pc) == IF pc = "submit" THEN 1 ELSE 0
Past(r, pc, d) == d - r.count - Submitting(pc)
Settled(past, del, lo) ==
  /\ past \in Nat
  /\ \A i \in 1..Len(del) : del[i] \in 1..past
  /\ \A i, j \in 1..Len(del) : i < j => del[i] < del[j]
  /\ \A n \in 1..past : n \in lo \/ \E i \in 1..Len(del) : del[i] = n
OutOrder(r, sl, pc, mine, d, del, lo) ==
  /\ \A i \in 0..(r.count - 1) : sl[At(r, i)] = d - r.count + 1 + i
  /\ pc = "submit" => sl[mine] = d - r.count
  /\ Settled(Past(r, pc, d), del, lo)

LEMMA Appended ==
  ASSUME NEW del \in Seq(Nat), NEW x \in Nat
  PROVE  /\ Append(del, x) \in Seq(Nat) /\ Len(del) \in Nat /\ Len(Append(del, x)) = Len(del) + 1
         /\ Append(del, x)[Len(del) + 1] = x
         /\ \A i \in 1..Len(del) : Append(del, x)[i] = del[i] /\ del[i] \in Nat
<1>1. Len(del) \in Nat
  BY LenProperties
<1> QED
  BY <1>1, AppendProperties, ElementOfSeq

LEMMA InIdle ==
  ASSUME NEW r, NEW sl, NEW pc, NEW pc2, NEW m, NEW m2, NEW d, NEW del,
         pc # "complete", pc2 # "complete", InOrder(r, sl, pc, m, d, del)
  PROVE  InOrder(r, sl, pc2, m2, d, del)
BY DEF InOrder, Full

\* The device fills the thread's slot, which is not in the ready ring.
LEMMA InFills ==
  ASSUME NEW r \in Ring, NEW sl \in [Slots -> Nat], NEW m \in Slots, NEW d \in Nat, NEW del \in Seq(Nat),
         r.count <= n_slots, m \notin InRing(r), InOrder(r, sl, "submit", m, d, del)
  PROVE  InOrder(r, [sl EXCEPT ![m] = d + 1], "complete", m, d + 1, del)
<1> DEFINE g == [sl EXCEPT ![m] = d + 1]
<1>1. r.count \in Nat /\ Len(del) \in Nat /\ n_slots \in Nat
  BY RingFields, LenProperties, SlotNumbers
<1>2. g[m] = d + 1
  OBVIOUS
<1>3. ASSUME NEW i \in 0..(r.count - 1) PROVE g[At(r, i)] = sl[At(r, i)]
  <2>1. At(r, i) # m
    BY InRingAt
  <2>2. i \in 0..n_slots
    BY <1>1
  <2>3. At(r, i) \in Slots
    BY <2>2, RingFields
  <2> QED
    BY <2>1, <2>3
<1> HIDE DEF g
<1>4. /\ \A i \in 1..Len(del) : del[i] = i
      /\ \A i \in 0..(r.count - 1) : sl[At(r, i)] = Len(del) + 1 + i
      /\ Len(del) + r.count + Full("submit") = d
  BY DEF InOrder
<1>5. Full("submit") = 0 /\ Full("complete") = 1
  BY DEF Full
<1>6. Len(del) + r.count + Full("complete") = d + 1
  BY <1>1, <1>4, <1>5
<1>7. InOrder(r, g, "complete", m, d + 1, del)
  BY <1>2, <1>3, <1>4, <1>6 DEF InOrder
<1> QED
  BY <1>7 DEF g

\* The filled slot goes to the end of the ready ring.
LEMMA InPuts ==
  ASSUME NEW r \in Ring, NEW sl \in [Slots -> Nat], NEW m \in Slots, NEW d \in Nat, NEW del \in Seq(Nat), NEW m2,
         r.count < n_slots, InOrder(r, sl, "complete", m, d, del)
  PROVE  InOrder(kstm_push(r, m), sl, "loop", m2, d, del)
<1> DEFINE p == kstm_push(r, m)
           c == r.count
           k == Len(del)
<1>1. c \in Nat /\ k \in Nat
  BY RingFields, LenProperties
<1>2. p.count = c + 1 /\ At(p, c) = m /\ \A i \in 0..(c - 1) : At(p, i) = At(r, i)
  BY PushFacts
<1>3. /\ \A i \in 1..k : del[i] = i
      /\ \A i \in 0..(c - 1) : sl[At(r, i)] = k + 1 + i
      /\ sl[m] = d /\ k + c + Full("complete") = d
  BY DEF InOrder
<1>4. Full("loop") = 0 /\ Full("complete") = 1
  BY DEF Full
<1> HIDE DEF p, c, k
<1>5. \A i \in 0..(p.count - 1) : i \in 0..(c - 1) \/ i = c
  BY <1>1, <1>2
<1>6. k + p.count + Full("loop") = d /\ d = k + 1 + c
  BY <1>1, <1>2, <1>3, <1>4
<1>7. \A i \in 0..(p.count - 1) : sl[At(p, i)] = k + 1 + i
  BY <1>2, <1>3, <1>5, <1>6
<1>8. InOrder(p, sl, "loop", m2, d, del)
  BY <1>3, <1>6, <1>7 DEF InOrder, k
<1> QED
  BY <1>8 DEF p

\* StmK_Read takes the head of the ready ring.
LEMMA InReads ==
  ASSUME NEW r \in Ring, NEW sl \in [Slots -> Nat], NEW pc, NEW m, NEW d \in Nat, NEW del \in Seq(Nat),
         r.count > 0, r.count <= n_slots, InOrder(r, sl, pc, m, d, del)
  PROVE  InOrder(kstm_pop(r), sl, pc, m, d, Append(del, sl[First(r)]))
<1> DEFINE p == kstm_pop(r)
           c == r.count
           k == Len(del)
           n == Append(del, sl[First(r)])
<1>1. c \in Nat /\ k \in Nat /\ c > 0 /\ Full(pc) \in Nat
  BY RingFields, LenProperties DEF Full
<1>2. p.count = c - 1 /\ First(r) = At(r, 0) /\ \A i \in 0..(c - 2) : At(p, i) = At(r, i + 1)
  BY PopFacts
<1>3. /\ \A i \in 1..k : del[i] = i
      /\ \A i \in 0..(c - 1) : sl[At(r, i)] = k + 1 + i
      /\ pc = "complete" => sl[m] = d
      /\ k + c + Full(pc) = d
  BY DEF InOrder
<1>4. 0 \in 0..(c - 1) /\ k + 1 + 0 = k + 1
  BY <1>1
<1>5. sl[First(r)] = k + 1
  BY <1>2, <1>3, <1>4
<1>6. Len(n) = k + 1 /\ n[k + 1] = k + 1 /\ \A i \in 1..k : n[i] = del[i]
  BY <1>1, <1>5, Appended
<1> HIDE DEF p, c, k, n
<1>7. \A i \in 1..(k + 1) : i \in 1..k \/ i = k + 1
  BY <1>1
<1>8. \A i \in 1..Len(n) : n[i] = i
  BY <1>3, <1>6, <1>7
<1>9. ASSUME NEW i \in 0..(p.count - 1) PROVE sl[At(p, i)] = Len(n) + 1 + i
  <2>1. i \in 0..(c - 2) /\ i + 1 \in 0..(c - 1) /\ k + 1 + (i + 1) = (k + 1) + 1 + i
    BY <1>1, <1>2
  <2> QED
    BY <1>2, <1>3, <1>6, <2>1
<1>10. Len(n) + p.count + Full(pc) = d
  BY <1>1, <1>2, <1>3, <1>6
<1>11. InOrder(p, sl, pc, m, d, n)
  BY <1>3, <1>8, <1>9, <1>10 DEF InOrder
<1> QED
  BY <1>11 DEF p, n

LEMMA OutIdle ==
  ASSUME NEW r, NEW sl, NEW pc, NEW pc2, NEW m, NEW m2, NEW d, NEW del, NEW lo,
         pc # "submit", pc2 # "submit", OutOrder(r, sl, pc, m, d, del, lo)
  PROVE  OutOrder(r, sl, pc2, m2, d, del, lo)
<1>1. Submitting(pc) = Submitting(pc2)
  BY DEF Submitting
<1> QED
  BY <1>1 DEF OutOrder, Past

\* The thread takes the head of the ready ring.
LEMMA OutTakes ==
  ASSUME NEW r \in Ring, NEW sl \in [Slots -> Nat], NEW m, NEW d \in Nat, NEW del \in Seq(Nat), NEW lo,
         r.count > 0, r.count <= n_slots, OutOrder(r, sl, "loop", m, d, del, lo)
  PROVE  OutOrder(kstm_pop(r), sl, "submit", First(r), d, del, lo)
<1> DEFINE p == kstm_pop(r)
           c == r.count
<1>1. c \in Nat /\ c > 0
  BY RingFields
<1>2. p.count = c - 1 /\ First(r) = At(r, 0) /\ \A i \in 0..(c - 2) : At(p, i) = At(r, i + 1)
  BY PopFacts
<1>3. /\ \A i \in 0..(c - 1) : sl[At(r, i)] = d - c + 1 + i
      /\ Settled(Past(r, "loop", d), del, lo)
  BY DEF OutOrder
<1>c. Past(r, "loop", d) = d - c - 0 /\ Past(p, "submit", d) = d - p.count - 1
  BY DEF Past, Submitting
<1> HIDE DEF p, c
<1>4. 0 \in 0..(c - 1) /\ d - c + 1 + 0 = d - p.count
  BY <1>1, <1>2
<1>5. sl[First(r)] = d - p.count
  BY <1>2, <1>3, <1>4
<1>6. Past(p, "submit", d) = Past(r, "loop", d)
  BY <1>1, <1>2, <1>c
<1>7. ASSUME NEW i \in 0..(p.count - 1) PROVE sl[At(p, i)] = d - p.count + 1 + i
  <2>1. i \in 0..(c - 2) /\ i + 1 \in 0..(c - 1) /\ d - c + 1 + (i + 1) = d - p.count + 1 + i
    BY <1>1, <1>2
  <2> QED
    BY <1>2, <1>3, <2>1
<1>8. OutOrder(p, sl, "submit", First(r), d, del, lo)
  BY <1>3, <1>5, <1>6, <1>7 DEF OutOrder
<1> QED
  BY <1>8 DEF p

\* One more number is settled: taken by the device, or lost.
LEMMA SettledMore ==
  ASSUME NEW past \in Nat, NEW del \in Seq(Nat), NEW lo, Settled(past, del, lo)
  PROVE  Settled(past + 1, Append(del, past + 1), lo) /\ Settled(past + 1, del, lo \cup {past + 1})
<1> DEFINE k == Len(del)
           n == Append(del, past + 1)
<1>1. past + 1 \in Nat
  OBVIOUS
<1>2. /\ k \in Nat /\ Len(n) = k + 1 /\ n[k + 1] = past + 1
      /\ \A i \in 1..k : n[i] = del[i]
  BY <1>1, Appended
<1>3. /\ \A i \in 1..k : del[i] \in 1..past
      /\ \A i, j \in 1..k : i < j => del[i] < del[j]
      /\ \A x \in 1..past : x \in lo \/ \E i \in 1..k : del[i] = x
  BY DEF Settled
<1> HIDE DEF k, n
<1>4. \A x \in 1..(past + 1) : x \in 1..past \/ x = past + 1
  OBVIOUS
<1>5. \A x \in 1..past : x \in 1..(past + 1) /\ x < past + 1
  OBVIOUS
<1>6. \A i \in 1..(k + 1) : i \in 1..k \/ i = k + 1
  BY <1>2
<1>7. (\A i \in 1..k : i \in 1..(k + 1) /\ i < k + 1 /\ ~(k + 1 < i)) /\ k + 1 \in 1..(k + 1) /\ ~(k + 1 < k + 1)
  BY <1>2
<1>8. past + 1 \in 1..(past + 1)
  OBVIOUS
<1>9. \A i \in 1..(k + 1) : n[i] \in 1..(past + 1)
  BY <1>2, <1>3, <1>5, <1>6, <1>8
<1>10. ASSUME NEW i \in 1..(k + 1), NEW j \in 1..(k + 1), i < j PROVE n[i] < n[j]
  <2>1. i \in 1..k
    BY <1>2, <1>10
  <2>2. CASE j \in 1..k
    BY <1>2, <1>3, <1>10, <2>1, <2>2
  <2>3. CASE j = k + 1
    BY <1>2, <1>3, <1>5, <2>1, <2>3
  <2> QED
    BY <1>6, <2>2, <2>3
<1>11. \A x \in 1..(past + 1) : x \in lo \/ \E i \in 1..(k + 1) : n[i] = x
  BY <1>2, <1>3, <1>4, <1>7
<1>12. Settled(past + 1, n, lo)
  BY <1>1, <1>2, <1>9, <1>10, <1>11 DEF Settled
<1>13. \A x \in 1..(past + 1) : x \in lo \cup {past + 1} \/ \E i \in 1..k : del[i] = x
  BY <1>3, <1>4
<1>14. \A i \in 1..k : del[i] \in 1..(past + 1)
  BY <1>3, <1>5
<1>15. Settled(past + 1, del, lo \cup {past + 1})
  BY <1>1, <1>3, <1>13, <1>14 DEF Settled, k
<1> QED
  BY <1>12, <1>15 DEF n

\* The submit of the thread's slot succeeds, or it fails.
LEMMA OutSubmits ==
  ASSUME NEW r \in Ring, NEW sl \in [Slots -> Nat], NEW m \in Slots, NEW d \in Nat, NEW del \in Seq(Nat), NEW lo,
         OutOrder(r, sl, "submit", m, d, del, lo)
  PROVE  /\ OutOrder(r, sl, "complete", m, d, Append(del, sl[m]), lo)
         /\ OutOrder(r, sl, "failed", m, d, del, lo \cup {sl[m]})
<1>1. r.count \in Nat
  BY RingFields
<1>2. PICK past : past = Past(r, "submit", d)
  OBVIOUS
<1>3. past \in Nat /\ Settled(past, del, lo) /\ sl[m] = d - r.count
  BY <1>2 DEF OutOrder, Settled
<1>4. past = d - r.count - 1 /\ Past(r, "complete", d) = d - r.count - 0 /\ Past(r, "failed", d) = d - r.count - 0
  BY <1>2 DEF Past, Submitting
<1>5. sl[m] = past + 1 /\ Past(r, "complete", d) = past + 1 /\ Past(r, "failed", d) = past + 1
  BY <1>1, <1>3, <1>4
<1>6. Settled(past + 1, Append(del, past + 1), lo) /\ Settled(past + 1, del, lo \cup {past + 1})
  BY <1>3, SettledMore
<1>7. \A i \in 0..(r.count - 1) : sl[At(r, i)] = d - r.count + 1 + i
  BY DEF OutOrder
<1> QED
  BY <1>5, <1>6, <1>7 DEF OutOrder

\* StmK_Write fills a slot that is in no other place and puts it at the end of the ready ring.
LEMMA OutWrites ==
  ASSUME NEW r \in Ring, NEW sl \in [Slots -> Nat], NEW s \in Slots, NEW pc, NEW m, NEW d \in Nat,
         NEW del \in Seq(Nat), NEW lo, pc = "submit" => m \in Slots /\ m # s,
         r.count < n_slots, s \notin InRing(r), OutOrder(r, sl, pc, m, d, del, lo)
  PROVE  OutOrder(kstm_push(r, s), [sl EXCEPT ![s] = d + 1], pc, m, d + 1, del, lo)
<1> DEFINE p == kstm_push(r, s)
           g == [sl EXCEPT ![s] = d + 1]
           c == r.count
<1>1. c \in Nat /\ n_slots \in Nat /\ c < n_slots /\ Submitting(pc) \in Nat
  BY RingFields, SlotNumbers DEF Submitting
<1>2. p.count = c + 1 /\ At(p, c) = s /\ \A i \in 0..(c - 1) : At(p, i) = At(r, i)
  BY PushFacts
<1>3. /\ \A i \in 0..(c - 1) : sl[At(r, i)] = d - c + 1 + i
      /\ pc = "submit" => sl[m] = d - c
      /\ Settled(Past(r, pc, d), del, lo)
  BY DEF OutOrder
<1>c. Past(r, pc, d) = d - c - Submitting(pc) /\ Past(p, pc, d + 1) = (d + 1) - p.count - Submitting(pc)
  BY DEF Past
<1>4. g[s] = d + 1 /\ \A x \in Slots : x # s => g[x] = sl[x]
  OBVIOUS
<1>5. \A i \in 0..(c - 1) : At(r, i) # s
  BY InRingAt
<1> HIDE DEF p, g, c
<1>6. \A i \in 0..(c - 1) : At(r, i) \in Slots
  <2>1. \A i \in 0..(c - 1) : i \in 0..n_slots
    BY <1>1
  <2> QED
    BY <2>1, RingFields
<1>7. /\ (d + 1) - p.count = d - c /\ (d + 1) - p.count - Submitting(pc) = d - c - Submitting(pc)
      /\ (d + 1) - p.count + 1 + c = d + 1
      /\ \A i \in 0..(c - 1) : (d + 1) - p.count + 1 + i = d - c + 1 + i
      /\ \A i \in 0..(p.count - 1) : i \in 0..(c - 1) \/ i = c
  BY <1>1, <1>2
<1>8. ASSUME NEW i \in 0..(p.count - 1) PROVE g[At(p, i)] = (d + 1) - p.count + 1 + i
  <2>1. CASE i \in 0..(c - 1)
    <3>1. g[At(p, i)] = sl[At(r, i)]
      BY <1>2, <1>4, <1>5, <1>6, <2>1
    <3> QED
      BY <1>3, <1>7, <2>1, <3>1
  <2>2. CASE i = c
    BY <1>2, <1>4, <1>7, <2>2
  <2> QED
    BY <1>7, <2>1, <2>2
<1>9. pc = "submit" => g[m] = (d + 1) - p.count
  BY <1>3, <1>4, <1>7
<1>10. Past(p, pc, d + 1) = Past(r, pc, d)
  BY <1>7, <1>c
<1>11. OutOrder(p, g, pc, m, d + 1, del, lo)
  BY <1>3, <1>8, <1>9, <1>10 DEF OutOrder
<1> QED
  BY <1>11 DEF p, g

-----------------------------------------------------------------------------
(* Pipe streams: the inductive invariant                                   *)

Working == {"submit", "complete", "failed"}

StreamTypes ==
  /\ dir \in {"in", "out"}
  /\ free \in Ring /\ ready \in Ring /\ slot \in [Slots -> Nat]
  /\ thread \in [pc : {"none", "loop", "asleep"} \cup Working, slot : Slots \cup {NoSlot}]
  /\ caller \in [Callers -> [pc : {"idle", "check", "asleep", "copy"}, slot : Slots \cup {NoSlot}]]
  /\ data \in Nat /\ delivered \in Seq(Nat)

\* Who has a slot, and that there is no thread while the stream does not run.
HandShape ==
  /\ thread.slot # NoSlot <=> thread.pc \in Working
  /\ \A c \in Callers : caller[c].slot # NoSlot <=> caller[c].pc = "copy"
  /\ ~running => thread.pc = "none"

Hold == [h \in Hands |-> IF h = "thread" THEN thread.slot ELSE caller[h].slot]
Places == OneEach(free, ready, Hold)

Order ==
  /\ dir = "in" => InOrder(ready, slot, thread.pc, thread.slot, data, delivered)
  /\ dir = "out" => OutOrder(ready, slot, thread.pc, thread.slot, data, delivered, lost)

StreamInv == StreamTypes /\ HandShape /\ Places /\ Order /\ StreamWakes

LEMMA HandNames == "thread" \in Hands /\ "thread" \notin Callers /\ "stop" \notin Callers /\ Callers \subseteq Hands
BY StreamAssumption DEF Hands

LEMMA HoldIs ==
  ASSUME StreamTypes
  PROVE  /\ Hold \in Holdings /\ Hold["thread"] = thread.slot
         /\ \A c \in Callers : Hold[c] = caller[c].slot
         /\ InHand = HeldSlots(Hold)
<1>1. thread.slot \in Slots \cup {NoSlot} /\ \A c \in Callers : caller[c].slot \in Slots \cup {NoSlot}
  BY DEF StreamTypes
<1>2. \A h \in Hands : h \in Callers \/ h = "thread"
  BY DEF Hands
<1>3. Hold["thread"] = thread.slot /\ \A c \in Callers : Hold[c] = caller[c].slot
  BY HandNames DEF Hold
<1>4. Hold \in Holdings
  BY <1>1, <1>2 DEF Hold, Holdings
<1>5. {Hold[h] : h \in Hands} = {thread.slot} \cup {caller[c].slot : c \in Callers}
  BY <1>3, HandNames DEF Hands
<1> QED
  BY <1>3, <1>4, <1>5 DEF InHand, HeldSlots

\* The hands after a step: as before, or all but one.
LEMMA SameHold ==
  ASSUME thread'.slot = thread.slot, \A c \in Callers : caller'[c].slot = caller[c].slot
  PROVE  Hold' = Hold
BY DEF Hold, Hands

LEMMA ThreadHold ==
  ASSUME NEW s, thread'.slot = s, \A c \in Callers : caller'[c].slot = caller[c].slot
  PROVE  Hold' = [Hold EXCEPT !["thread"] = s]
BY HandNames DEF Hold, Hands

LEMMA CallerHold ==
  ASSUME NEW c \in Callers, NEW s, caller'[c].slot = s, thread'.slot = thread.slot,
         \A d \in Callers : d # c => caller'[d].slot = caller[d].slot
  PROVE  Hold' = [Hold EXCEPT ![c] = s]
BY HandNames DEF Hold, Hands

LEMMA Fields ==
  ASSUME StreamTypes
  PROVE  /\ thread = [pc |-> thread.pc, slot |-> thread.slot]
         /\ thread.pc \in {"none", "loop", "asleep"} \cup Working /\ thread.slot \in Slots \cup {NoSlot}
         /\ \A c \in Callers : /\ caller[c] = [pc |-> caller[c].pc, slot |-> caller[c].slot]
                               /\ caller[c].pc \in {"idle", "check", "asleep", "copy"}
                               /\ caller[c].slot \in Slots \cup {NoSlot}
         /\ free.count \in Nat /\ ready.count \in Nat
<1>1. free.count \in Nat /\ ready.count \in Nat
  BY RingFields DEF StreamTypes
<1> QED
  BY <1>1 DEF StreamTypes

LEMMA Room ==
  ASSUME StreamTypes, Places
  PROVE  free.count <= n_slots /\ ready.count <= n_slots
<1>1. n_slots \in Nat /\ free.count \in Nat /\ ready.count \in Nat /\ Cardinality(HeldSlots(Hold)) \in Nat
  BY SlotNumbers, Fields, HoldIs, HeldFinite
<1>2. free.count + ready.count + Cardinality(HeldSlots(Hold)) = n_slots
  BY DEF Places, OneEach
<1> QED
  BY <1>1, <1>2

\* What a wake-up does to those who wait.
LEMMA Woken ==
  ASSUME StreamTypes
  PROVE  /\ ThreadWoken = [pc |-> ThreadWoken.pc, slot |-> thread.slot]
         /\ ThreadWoken.pc = IF thread.pc = "asleep" THEN "loop" ELSE thread.pc
<1>1. PICK p, s : thread = [pc |-> p, slot |-> s]
  BY Fields
<1> QED
  BY <1>1 DEF ThreadWoken

\* Callers after a step: none sleeps, and only c is somewhere else.
AllAwake(c) ==
  \A d \in Callers : d # c =>
    /\ caller'[d].pc = IF caller[d].pc = "asleep" THEN "check" ELSE caller[d].pc
    /\ caller'[d].slot = caller[d].slot /\ caller'[d] = [pc |-> caller'[d].pc, slot |-> caller'[d].slot]

LEMMA Broadcasts ==
  ASSUME StreamTypes, NEW t, t \notin Callers, Broadcast(t)
  PROVE  AllAwake(t) /\ \A d \in Callers : d # t
<1>1. ASSUME NEW d \in Callers
      PROVE  /\ caller'[d].pc = IF caller[d].pc = "asleep" THEN "check" ELSE caller[d].pc
             /\ caller'[d].slot = caller[d].slot /\ caller'[d] = [pc |-> caller'[d].pc, slot |-> caller'[d].slot]
  <2>1. PICK p, s : caller[d] = [pc |-> p, slot |-> s]
    BY Fields
  <2>2. caller'[d] = IF caller[d].pc = "asleep" THEN [caller[d] EXCEPT !.pc = "check"] ELSE caller[d]
    BY DEF Broadcast
  <2> QED
    BY <2>1, <2>2
<1> QED
  BY <1>1 DEF AllAwake

-----------------------------------------------------------------------------
(* Pipe streams: the steps                                                 *)

LEMMA OrderKept ==
  ASSUME StreamTypes, Order, UNCHANGED <<dir, ready, slot, data, delivered>>,
         dir = "out" => lost' = lost,
         dir = "in" => \/ thread'.pc = thread.pc /\ thread'.slot = thread.slot
                       \/ thread.pc # "complete" /\ thread'.pc # "complete",
         dir = "out" => \/ thread'.pc = thread.pc /\ thread'.slot = thread.slot
                        \/ thread.pc # "submit" /\ thread'.pc # "submit"
  PROVE  Order'
<1>1. dir = "in" => InOrder(ready, slot, thread'.pc, thread'.slot, data, delivered)
  BY InIdle DEF Order
<1>2. dir = "out" => OutOrder(ready, slot, thread'.pc, thread'.slot, data, delivered, lost)
  BY OutIdle DEF Order
<1> QED
  BY <1>1, <1>2 DEF Order

\* A step that moves no slot.
LEMMA MovesNothing ==
  ASSUME StreamInv, UNCHANGED <<dir, free, ready, slot, data, delivered, lost>>,
         thread'.slot = thread.slot, \A c \in Callers : caller'[c].slot = caller[c].slot,
         \/ thread'.pc = thread.pc
         \/ thread.pc \notin Working /\ thread'.pc \notin Working
  PROVE  Places' /\ Order'
<1>1. Hold' = Hold
  BY SameHold
<1>2. Places'
  BY <1>1 DEF Places, StreamInv
<1>3. Order'
  BY OrderKept DEF StreamInv, Working
<1> QED
  BY <1>2, <1>3

LEMMA StreamStart == ASSUME StreamInv, StmK_Start PROVE StreamInv'
<1>1. StreamTypes /\ HandShape /\ StreamWakes
  BY DEF StreamInv
<1>2. /\ thread' = [pc |-> "loop", slot |-> NoSlot] /\ thread.pc = "none" /\ thread.slot = NoSlot /\ caller' = caller
      /\ running' /\ ~stop' /\ UNCHANGED <<dir, free, ready, slot, data, delivered, lost>>
  BY <1>1 DEF StmK_Start, HandShape, Working
<1>3. thread'.pc = "loop" /\ thread'.slot = NoSlot
  BY <1>2
<1>4. StreamTypes'
  BY <1>1, <1>2 DEF StreamTypes, Working
<1>5. HandShape'
  BY <1>1, <1>2, <1>3 DEF HandShape, Working
<1>6. Places' /\ Order'
  BY <1>2, <1>3, MovesNothing DEF Working
<1>7. StreamWakes'
  BY <1>1, <1>2, <1>3 DEF StreamWakes, Sink, Source
<1> QED
  BY <1>4, <1>5, <1>6, <1>7 DEF StreamInv

LEMMA StreamStop == ASSUME StreamInv, StmK_Stop PROVE StreamInv'
<1>1. StreamTypes /\ HandShape /\ StreamWakes
  BY DEF StreamInv
<1>2. /\ running /\ running' = running /\ UNCHANGED <<dir, free, ready, slot, data, delivered, lost>>
  BY DEF StmK_Stop
<1>3. PICK p : /\ thread' = [pc |-> p, slot |-> thread.slot]
               /\ p = IF thread.pc = "asleep" THEN "loop" ELSE thread.pc
  BY <1>1, Woken DEF StmK_Stop
<1>4. thread'.pc = p /\ thread'.slot = thread.slot
  BY <1>3
<1>5. AllAwake("stop") /\ \A d \in Callers : d # "stop"
  BY <1>1, HandNames, Broadcasts DEF StmK_Stop
<1>6. \A d \in Callers : /\ caller'[d].pc = IF caller[d].pc = "asleep" THEN "check" ELSE caller[d].pc
                         /\ caller'[d].slot = caller[d].slot
                         /\ caller'[d] = [pc |-> caller'[d].pc, slot |-> caller'[d].slot]
  BY <1>5 DEF AllAwake
<1>7. caller' \in [Callers -> [pc : {"idle", "check", "asleep", "copy"}, slot : Slots \cup {NoSlot}]]
  <2>1. ASSUME NEW d \in Callers
        PROVE  caller'[d] \in [pc : {"idle", "check", "asleep", "copy"}, slot : Slots \cup {NoSlot}]
    <3>1. caller'[d].pc \in {"idle", "check", "asleep", "copy"} /\ caller'[d].slot \in Slots \cup {NoSlot}
      BY <1>1, <1>6, Fields
    <3>2. PICK p1, s1 : caller'[d] = [pc |-> p1, slot |-> s1]
      BY <1>6
    <3> QED
      BY <3>1, <3>2
  <2>2. caller' = [d \in Callers |-> caller'[d]]
    BY DEF StmK_Stop, Broadcast
  <2> QED
    BY <2>1, <2>2
<1>8. thread' \in [pc : {"none", "loop", "asleep"} \cup Working, slot : Slots \cup {NoSlot}]
  BY <1>1, <1>3, Fields
<1>9. StreamTypes'
  BY <1>1, <1>2, <1>7, <1>8 DEF StreamTypes
<1>10. HandShape'
  BY <1>1, <1>2, <1>3, <1>4, <1>6 DEF HandShape, Working
<1>11. Places' /\ Order'
  BY <1>2, <1>3, <1>4, <1>6, MovesNothing DEF Working
<1>12. StreamWakes'
  BY <1>3, <1>4, <1>6 DEF StreamWakes
<1> QED
  BY <1>9, <1>10, <1>11, <1>12 DEF StreamInv

LEMMA StreamStopped == ASSUME StreamInv, StmK_Stopped PROVE StreamInv'
<1>1. StreamTypes /\ HandShape /\ StreamWakes
  BY DEF StreamInv
<1>2. /\ thread.pc = "none" /\ UNCHANGED <<thread, caller, stop>>
      /\ UNCHANGED <<dir, free, ready, slot, data, delivered, lost>>
  BY DEF StmK_Stopped
<1>3. Places' /\ Order'
  BY <1>2, MovesNothing
<1> QED
  BY <1>1, <1>2, <1>3 DEF StreamInv, StreamTypes, HandShape, StreamWakes, Sink, Source

\* The thread goes to sleep or ends.
LEMMA ThreadRests == ASSUME StreamInv, ThreadSleeps \/ ThreadExits PROVE StreamInv'
<1>1. StreamTypes /\ HandShape /\ StreamWakes
  BY DEF StreamInv
<1>2. /\ thread.pc = "loop" /\ UNCHANGED <<caller, stop, running>>
      /\ UNCHANGED <<dir, free, ready, slot, data, delivered, lost>>
  BY DEF ThreadSleeps, ThreadExits
<1>3. thread.slot = NoSlot
  BY <1>1, <1>2 DEF HandShape, Working
<1>4. \/ thread' = [pc |-> "asleep", slot |-> NoSlot] /\ ~stop /\ Source.count = 0
      \/ thread' = [pc |-> "none", slot |-> NoSlot]
  BY <1>1, <1>3, Fields DEF ThreadSleeps, ThreadExits
<1>5. /\ thread'.slot = NoSlot /\ thread'.pc \in {"asleep", "none"}
      /\ thread'.pc = "asleep" => ~stop /\ Source.count = 0
  BY <1>4
<1>6. running
  BY <1>1, <1>2 DEF HandShape
<1>7. StreamTypes'
  BY <1>1, <1>2, <1>4 DEF StreamTypes
<1>8. HandShape'
  BY <1>1, <1>2, <1>5, <1>6 DEF HandShape, Working
<1>9. Places' /\ Order'
  BY <1>2, <1>3, <1>5, MovesNothing DEF Working
<1>10. StreamWakes'
  BY <1>1, <1>2, <1>5 DEF StreamWakes, Sink, Source
<1> QED
  BY <1>7, <1>8, <1>9, <1>10 DEF StreamInv

\* A call begins, sleeps or fails.
LEMMA CallerMoves ==
  ASSUME StreamInv, NEW c \in Callers, Call(c) \/ CallerSleeps(c) \/ CallerFails(c)
  PROVE  StreamInv'
<1>1. StreamTypes /\ HandShape /\ StreamWakes
  BY DEF StreamInv
<1>2. /\ UNCHANGED <<thread, stop, running>> /\ caller[c].pc # "copy"
      /\ UNCHANGED <<dir, free, ready, slot, data, delivered, lost>>
  BY DEF Call, CallerSleeps, CallerFails
<1>3. PICK p \in {"idle", "check", "asleep"} :
        /\ caller' = [caller EXCEPT ![c].pc = p]
        /\ p = "asleep" => Sink.count = 0 /\ ~stop
  BY DEF Call, CallerSleeps, CallerFails
<1>4. /\ \A d \in Callers : d # c => caller'[d] = caller[d]
      /\ caller'[c].pc = p /\ caller'[c].slot = caller[c].slot
      /\ caller' \in [Callers -> [pc : {"idle", "check", "asleep", "copy"}, slot : Slots \cup {NoSlot}]]
  BY <1>1, <1>3 DEF StreamTypes
<1>5. \A d \in Callers : caller'[d].slot = caller[d].slot
  BY <1>4
<1>7. StreamTypes'
  BY <1>1, <1>2, <1>4 DEF StreamTypes
<1>8. HandShape'
  BY <1>1, <1>2, <1>3, <1>4 DEF HandShape, Working
<1>9. Places' /\ Order'
  BY <1>2, <1>5, MovesNothing
<1>10. StreamWakes'
  BY <1>1, <1>2, <1>3, <1>4 DEF StreamWakes, Sink, Source
<1> QED
  BY <1>7, <1>8, <1>9, <1>10 DEF StreamInv

LEMMA StepTakes == ASSUME StreamInv, ThreadTakes PROVE StreamInv'
<1>1. StreamTypes /\ HandShape /\ StreamWakes /\ Places /\ Order
  BY DEF StreamInv
<1>2. /\ thread.pc = "loop" /\ UNCHANGED <<caller, stop, running>> /\ Source.count > 0
      /\ thread' = [pc |-> "submit", slot |-> First(Source)]
      /\ UNCHANGED <<dir, slot, data, delivered, lost>>
      /\ dir = "in" => free' = kstm_pop(free) /\ ready' = ready
      /\ dir # "in" => ready' = kstm_pop(ready) /\ free' = free
  BY DEF ThreadTakes
<1>3. /\ Hold \in Holdings /\ Hold["thread"] = NoSlot /\ "thread" \in Hands /\ running
      /\ free \in Ring /\ ready \in Ring /\ dir \in {"in", "out"}
      /\ slot \in [Slots -> Nat] /\ data \in Nat /\ delivered \in Seq(Nat)
  BY <1>1, <1>2, HoldIs, HandNames DEF HandShape, Working, StreamTypes
<1>4. PICK s : s = First(Source)
  OBVIOUS
<1>5. thread'.pc = "submit" /\ thread'.slot = s /\ thread' = [pc |-> "submit", slot |-> s]
  BY <1>2, <1>4
<1>6. PICK h : h = [Hold EXCEPT !["thread"] = s]
  OBVIOUS
<1>7. Hold' = h
  BY <1>2, <1>5, <1>6, ThreadHold
<1>8. s \in Slots /\ Places' /\ free' \in Ring /\ ready' \in Ring
  <2>1. CASE dir = "in"
    <3>1. free.count > 0 /\ s = First(free)
      BY <1>2, <1>4, <2>1 DEF Source
    <3>2. kstm_pop(free) \in Ring /\ OneEach(kstm_pop(free), ready, h) /\ s \in Slots
      BY <1>1, <1>3, <1>6, <3>1, Takes DEF Places
    <3> QED
      BY <1>2, <1>3, <1>7, <2>1, <3>2 DEF Places
  <2>2. CASE dir = "out"
    <3>1. ready.count > 0 /\ s = First(ready)
      BY <1>2, <1>4, <2>2 DEF Source
    <3>2. OneEach(ready, free, Hold)
      BY <1>1, <1>3, OneEachTurned DEF Places
    <3>3. kstm_pop(ready) \in Ring /\ OneEach(kstm_pop(ready), free, h) /\ s \in Slots /\ h \in Holdings
      BY <1>3, <1>6, <3>1, <3>2, Takes
    <3>4. OneEach(free, kstm_pop(ready), h)
      BY <1>3, <3>3, OneEachTurned
    <3> QED
      BY <1>2, <1>3, <1>7, <2>2, <3>3, <3>4 DEF Places
  <2> QED
    BY <1>3, <2>1, <2>2
<1>9. StreamTypes'
  BY <1>1, <1>2, <1>5, <1>8 DEF StreamTypes, Working
<1>10. HandShape'
  BY <1>1, <1>2, <1>3, <1>5, <1>8, SlotNumbers DEF HandShape, Working
<1>11. Order'
  <2>1. CASE dir = "in"
    BY <1>1, <1>2, <1>5, <2>1, OrderKept
  <2>2. CASE dir = "out"
    <3>1. ready.count > 0 /\ s = First(ready) /\ ready.count <= n_slots
      BY <1>1, <1>2, <1>4, <2>2, Room DEF Source
    <3>2. OutOrder(ready, slot, "loop", thread.slot, data, delivered, lost)
      BY <1>1, <1>2, <2>2 DEF Order
    <3>3. OutOrder(kstm_pop(ready), slot, "submit", s, data, delivered, lost)
      BY <1>3, <3>1, <3>2, OutTakes
    <3> QED
      BY <1>2, <1>5, <2>2, <3>3 DEF Order
  <2> QED
    BY <1>3, <2>1, <2>2
<1>12. StreamWakes'
  BY <1>1, <1>2, <1>3, <1>5 DEF StreamWakes, Sink, Source
<1> QED
  BY <1>8, <1>9, <1>10, <1>11, <1>12 DEF StreamInv

\* The submit: the same slots in the same places, and one more transfer.
LEMMA StepSubmits == ASSUME StreamInv, ThreadSubmits \/ ThreadFails PROVE StreamInv'
<1>1. StreamTypes /\ HandShape /\ StreamWakes /\ Places /\ Order
  BY DEF StreamInv
<1>2. /\ thread.pc = "submit" /\ UNCHANGED <<dir, free, ready, caller, stop, running>>
  BY DEF ThreadSubmits, ThreadFails
<1>3. PICK m : m = thread.slot
  OBVIOUS
<1>4. /\ m \in Slots /\ running /\ dir \in {"in", "out"} /\ free \in Ring /\ ready \in Ring
      /\ slot \in [Slots -> Nat] /\ data \in Nat /\ delivered \in Seq(Nat) /\ slot[m] \in Nat
  <2>1. m \in Slots /\ running
    BY <1>1, <1>2, <1>3, Fields DEF HandShape, Working
  <2> QED
    BY <1>1, <2>1 DEF StreamTypes
<1>5. PICK p \in {"complete", "failed"} : thread' = [pc |-> p, slot |-> m] /\ (p = "complete" => ThreadSubmits) /\ (p = "failed" => ThreadFails)
  BY <1>1, <1>3, Fields DEF ThreadSubmits, ThreadFails
<1>6. thread'.pc = p /\ thread'.slot = m /\ thread' \in [pc : {"none", "loop", "asleep"} \cup Working, slot : Slots \cup {NoSlot}]
  BY <1>4, <1>5 DEF Working
<1>7. Hold' = Hold
  BY <1>2, <1>3, <1>6, SameHold
<1>8. Places'
  BY <1>1, <1>2, <1>7 DEF Places
<1>9. HandShape'
  BY <1>1, <1>2, <1>4, <1>6, SlotNumbers DEF HandShape, Working
<1>10. StreamWakes'
  BY <1>1, <1>2, <1>6 DEF StreamWakes, Sink, Source
<1>11. CASE p = "failed"
  <2>1. UNCHANGED <<slot, data, delivered>> /\ (dir = "in" => lost' = lost) /\ (dir = "out" => lost' = lost \cup {slot[m]})
    BY <1>3, <1>5, <1>11 DEF ThreadFails
  <2>2. StreamTypes'
    BY <1>1, <1>2, <1>6, <2>1 DEF StreamTypes
  <2>3. dir = "in" => InOrder(ready, slot, "failed", m, data, delivered)
    BY <1>1, <1>2, InIdle DEF Order
  <2>4. dir = "out" => OutOrder(ready, slot, "failed", m, data, delivered, lost \cup {slot[m]})
    <3>1. dir = "out" => OutOrder(ready, slot, "submit", m, data, delivered, lost)
      BY <1>1, <1>2, <1>3 DEF Order
    <3> QED
      BY <1>4, <3>1, OutSubmits
  <2>5. Order'
    BY <1>2, <1>6, <1>11, <2>1, <2>3, <2>4 DEF Order
  <2> QED
    BY <1>8, <1>9, <1>10, <2>2, <2>5 DEF StreamInv
<1>12. CASE p = "complete" /\ dir = "in"
  <2>1. data' = data + 1 /\ slot' = [slot EXCEPT ![m] = data + 1] /\ delivered' = delivered
    BY <1>3, <1>5, <1>12 DEF ThreadSubmits
  <2>2. data' \in Nat /\ slot' \in [Slots -> Nat] /\ delivered' \in Seq(Nat)
    BY <1>4, <2>1
  <2>3. StreamTypes'
    BY <1>1, <1>2, <1>6, <2>2 DEF StreamTypes
  <2>4. m \notin InRing(ready) /\ ready.count <= n_slots
    <3>1. Hold["thread"] = m /\ m # NoSlot
      BY <1>1, <1>3, <1>4, HoldIs, SlotNumbers
    <3>2. m \in HeldSlots(Hold)
      BY <3>1, HandNames DEF HeldSlots
    <3> QED
      BY <1>1, <3>2, Room DEF Places, OneEach
  <2>5. InOrder(ready, slot, "submit", m, data, delivered)
    BY <1>1, <1>2, <1>3, <1>12 DEF Order
  <2>6. InOrder(ready, [slot EXCEPT ![m] = data + 1], "complete", m, data + 1, delivered)
    BY <1>4, <2>4, <2>5, InFills
  <2>7. Order'
    BY <1>2, <1>6, <1>12, <2>1, <2>6 DEF Order
  <2> QED
    BY <1>8, <1>9, <1>10, <2>3, <2>7 DEF StreamInv
<1>13. CASE p = "complete" /\ dir = "out"
  <2>1. /\ delivered' = Append(delivered, slot[m]) /\ UNCHANGED <<slot, data, lost>>
    BY <1>3, <1>5, <1>13 DEF ThreadSubmits
  <2>2. delivered' \in Seq(Nat)
    BY <1>4, <2>1, Appended
  <2>3. StreamTypes'
    BY <1>1, <1>2, <1>6, <2>1, <2>2 DEF StreamTypes
  <2>5. OutOrder(ready, slot, "submit", m, data, delivered, lost)
    BY <1>1, <1>2, <1>3, <1>13 DEF Order
  <2>6. OutOrder(ready, slot, "complete", m, data, Append(delivered, slot[m]), lost)
    BY <1>4, <2>5, OutSubmits
  <2>7. Order'
    BY <1>2, <1>6, <1>13, <2>1, <2>6 DEF Order
  <2> QED
    BY <1>8, <1>9, <1>10, <2>3, <2>7 DEF StreamInv
<1> QED
  BY <1>4, <1>5, <1>11, <1>12, <1>13

Idle == [pc |-> "idle", slot |-> NoSlot]
CallerAt == [pc : {"idle", "check", "asleep", "copy"}, slot : Slots \cup {NoSlot}]

LEMMA AwakeTyped ==
  ASSUME StreamTypes, NEW c, AllAwake(c), NEW d \in Callers, d # c
  PROVE  /\ caller'[d] \in CallerAt /\ caller'[d].slot = caller[d].slot /\ caller'[d].pc # "asleep"
         /\ caller'[d].pc = "copy" <=> caller[d].pc = "copy"
<1>1. /\ caller'[d].pc = IF caller[d].pc = "asleep" THEN "check" ELSE caller[d].pc
      /\ caller'[d].slot = caller[d].slot
  BY DEF AllAwake
<1>2. PICK p, s : caller'[d] = [pc |-> p, slot |-> s]
  BY DEF AllAwake
<1>3. caller'[d].pc \in {"idle", "check", "asleep", "copy"} /\ caller'[d].slot \in Slots \cup {NoSlot}
  BY <1>1, Fields
<1>4. caller'[d] \in CallerAt
  BY <1>2, <1>3 DEF CallerAt
<1> QED
  BY <1>1, <1>4

\* One caller ends its call, all others are awake.
LEMMA ReturnAwakes ==
  ASSUME StreamTypes, NEW c \in Callers,
         caller' = [d \in Callers |-> IF d = c THEN [pc |-> "idle", slot |-> NoSlot]
                      ELSE IF caller[d].pc = "asleep" THEN [caller[d] EXCEPT !.pc = "check"] ELSE caller[d]]
  PROVE  AllAwake(c) /\ caller'[c] = Idle /\ caller' \in [Callers -> CallerAt]
<1>1. ASSUME NEW d \in Callers, d # c
      PROVE  /\ caller'[d].pc = IF caller[d].pc = "asleep" THEN "check" ELSE caller[d].pc
             /\ caller'[d].slot = caller[d].slot /\ caller'[d] = [pc |-> caller'[d].pc, slot |-> caller'[d].slot]
  <2>1. PICK p, s : caller[d] = [pc |-> p, slot |-> s]
    BY Fields
  <2>2. caller'[d] = IF caller[d].pc = "asleep" THEN [caller[d] EXCEPT !.pc = "check"] ELSE caller[d]
    BY <1>1
  <2> QED
    BY <2>1, <2>2
<1>2. AllAwake(c)
  BY <1>1 DEF AllAwake
<1>3. caller'[c] = Idle /\ Idle \in CallerAt
  BY DEF Idle, CallerAt
<1>4. \A d \in Callers : caller'[d] \in CallerAt
  BY <1>2, <1>3, AwakeTyped
<1>5. caller' = [d \in Callers |-> caller'[d]]
  OBVIOUS
<1> QED
  BY <1>2, <1>3, <1>4, <1>5

LEMMA StepPuts == ASSUME StreamInv, ThreadPuts PROVE StreamInv'
<1>1. StreamTypes /\ HandShape /\ StreamWakes /\ Places /\ Order
  BY DEF StreamInv
<1>2. /\ thread.pc \in {"complete", "failed"} /\ UNCHANGED <<dir, slot, stop, running, data, delivered, lost>>
      /\ thread' = [pc |-> "loop", slot |-> NoSlot] /\ Broadcast("thread")
  BY DEF ThreadPuts
<1>3. thread'.pc = "loop" /\ thread'.slot = NoSlot
  BY <1>2
<1>4. PICK m : m = thread.slot
  OBVIOUS
<1>5. /\ m \in Slots /\ m # NoSlot /\ running /\ dir \in {"in", "out"} /\ free \in Ring /\ ready \in Ring
      /\ slot \in [Slots -> Nat] /\ data \in Nat /\ delivered \in Seq(Nat)
      /\ Hold \in Holdings /\ Hold["thread"] = m /\ "thread" \in Hands
  <2>1. m \in Slots /\ m # NoSlot /\ running
    BY <1>1, <1>2, <1>4, Fields DEF HandShape, Working
  <2> QED
    BY <1>1, <1>4, <2>1, HoldIs, HandNames DEF StreamTypes
<1>6. AllAwake("thread") /\ \A d \in Callers : d # "thread"
  BY <1>1, <1>2, HandNames, Broadcasts
<1>7. \A d \in Callers : /\ caller'[d] \in CallerAt /\ caller'[d].slot = caller[d].slot /\ caller'[d].pc # "asleep"
                         /\ caller'[d].pc = "copy" <=> caller[d].pc = "copy"
  BY <1>1, <1>6, AwakeTyped
<1>8. caller' \in [Callers -> CallerAt]
  <2>1. caller' = [d \in Callers |-> caller'[d]]
    BY <1>2 DEF Broadcast
  <2> QED
    BY <1>7, <2>1
<1>9. PICK h : h = [Hold EXCEPT !["thread"] = NoSlot]
  OBVIOUS
<1>10. Hold' = h
  BY <1>3, <1>7, <1>9, ThreadHold
<1>11. HandShape'
  BY <1>1, <1>2, <1>3, <1>5, <1>7 DEF HandShape, Working
<1>12. StreamWakes'
  BY <1>3, <1>7 DEF StreamWakes
<1>13. CASE dir = "in" /\ thread.pc = "complete"
  <2>1. ready' = kstm_push(ready, m) /\ free' = free
    BY <1>4, <1>13 DEF ThreadPuts
  <2>2. OneEach(ready, free, Hold)
    BY <1>1, <1>5, OneEachTurned DEF Places
  <2>3. ready.count < n_slots /\ kstm_push(ready, m) \in Ring /\ h \in Holdings /\ OneEach(kstm_push(ready, m), free, h)
    BY <1>5, <1>9, <2>2, Puts
  <2>4. OneEach(free, kstm_push(ready, m), h)
    BY <1>5, <2>3, OneEachTurned
  <2>5. Places'
    BY <1>10, <2>1, <2>4 DEF Places
  <2>6. StreamTypes'
    BY <1>2, <1>5, <1>8, <2>1, <2>3 DEF StreamTypes, CallerAt
  <2>7. InOrder(ready, slot, "complete", m, data, delivered)
    BY <1>1, <1>4, <1>13 DEF Order
  <2>8. InOrder(kstm_push(ready, m), slot, "loop", NoSlot, data, delivered)
    BY <1>5, <2>3, <2>7, InPuts
  <2>9. Order'
    BY <1>2, <1>3, <1>13, <2>1, <2>8 DEF Order
  <2> QED
    BY <1>11, <1>12, <2>5, <2>6, <2>9 DEF StreamInv
<1>14. CASE ~(dir = "in" /\ thread.pc = "complete")
  <2>1. free' = kstm_push(free, m) /\ ready' = ready
    BY <1>4, <1>14 DEF ThreadPuts
  <2>2. kstm_push(free, m) \in Ring /\ OneEach(kstm_push(free, m), ready, h)
    BY <1>1, <1>5, <1>9, Puts DEF Places
  <2>5. Places'
    BY <1>10, <2>1, <2>2 DEF Places
  <2>6. StreamTypes'
    BY <1>2, <1>5, <1>8, <2>1, <2>2 DEF StreamTypes, CallerAt
  <2>7. Order'
    BY <1>1, <1>2, <1>3, <1>14, <2>1, OrderKept
  <2> QED
    BY <1>11, <1>12, <2>5, <2>6, <2>7 DEF StreamInv
<1> QED
  BY <1>13, <1>14

LEMMA StepReads == ASSUME StreamInv, NEW c \in Callers, StmK_Read_Take(c) PROVE StreamInv'
<1>1. StreamTypes /\ HandShape /\ StreamWakes /\ Places /\ Order
  BY DEF StreamInv
<1>2. PICK s : s = First(ready)
  OBVIOUS
<1>3. /\ dir = "in" /\ caller[c].pc = "check" /\ ready.count > 0 /\ ready' = kstm_pop(ready)
      /\ caller' = [caller EXCEPT ![c] = [pc |-> "copy", slot |-> s]]
      /\ delivered' = Append(delivered, slot[s])
      /\ UNCHANGED <<dir, free, slot, stop, running, thread, data, lost>>
  BY <1>2 DEF StmK_Read_Take
<1>4. /\ free \in Ring /\ ready \in Ring /\ ready.count <= n_slots
      /\ slot \in [Slots -> Nat] /\ data \in Nat /\ delivered \in Seq(Nat)
      /\ Hold \in Holdings /\ c \in Hands /\ Hold[c] = NoSlot
  BY <1>1, <1>3, HoldIs, HandNames, Room DEF StreamTypes, HandShape
<1>5. OneEach(ready, free, Hold)
  BY <1>1, <1>4, OneEachTurned DEF Places
<1>6. PICK h : h = [Hold EXCEPT ![c] = s]
  OBVIOUS
<1>7. kstm_pop(ready) \in Ring /\ h \in Holdings /\ OneEach(kstm_pop(ready), free, h) /\ s \in Slots
  BY <1>2, <1>3, <1>4, <1>5, <1>6, Takes
<1>8. /\ \A d \in Callers : d # c => caller'[d] = caller[d]
      /\ caller'[c].pc = "copy" /\ caller'[c].slot = s
      /\ caller' \in [Callers -> CallerAt]
  BY <1>1, <1>3, <1>7 DEF StreamTypes, CallerAt
<1>9. Hold' = h
  BY <1>3, <1>6, <1>8, CallerHold
<1>10. OneEach(free, kstm_pop(ready), h)
  BY <1>4, <1>7, OneEachTurned
<1>11. Places'
  BY <1>3, <1>9, <1>10 DEF Places
<1>12. delivered' \in Seq(Nat)
  BY <1>3, <1>4, <1>7, Appended
<1>13. StreamTypes'
  BY <1>1, <1>3, <1>7, <1>8, <1>12 DEF StreamTypes, CallerAt
<1>14. HandShape'
  BY <1>1, <1>3, <1>7, <1>8, SlotNumbers DEF HandShape
<1>15. InOrder(ready, slot, thread.pc, thread.slot, data, delivered)
  BY <1>1, <1>3 DEF Order
<1>16. InOrder(kstm_pop(ready), slot, thread.pc, thread.slot, data, Append(delivered, slot[s]))
  BY <1>2, <1>3, <1>4, <1>15, InReads
<1>17. Order'
  BY <1>3, <1>16 DEF Order
<1>18. StreamWakes'
  <2>1. \A d \in Callers : caller[d].pc # "asleep"
    BY <1>1, <1>3, Fields DEF StreamWakes, Sink
  <2>2. \A d \in Callers : caller'[d].pc # "asleep"
    BY <1>8, <2>1
  <2> QED
    BY <1>1, <1>3, <2>2 DEF StreamWakes, Source
<1> QED
  BY <1>11, <1>13, <1>14, <1>17, <1>18 DEF StreamInv

LEMMA StepReturns == ASSUME StreamInv, NEW c \in Callers, StmK_Read_Return(c) PROVE StreamInv'
<1>1. StreamTypes /\ HandShape /\ StreamWakes /\ Places /\ Order
  BY DEF StreamInv
<1>2. PICK s : s = caller[c].slot
  OBVIOUS
<1>3. /\ caller[c].pc = "copy" /\ free' = kstm_push(free, s) /\ thread' = ThreadWoken
      /\ UNCHANGED <<dir, ready, slot, stop, running, data, delivered, lost>>
  BY <1>2 DEF StmK_Read_Return
<1>4. AllAwake(c) /\ caller'[c] = Idle /\ caller' \in [Callers -> CallerAt]
  BY <1>1, ReturnAwakes DEF StmK_Read_Return
<1>5. \A d \in Callers : d # c => /\ caller'[d].slot = caller[d].slot /\ caller'[d].pc # "asleep"
                                  /\ caller'[d].pc = "copy" <=> caller[d].pc = "copy"
  BY <1>1, <1>4, AwakeTyped
<1>6. caller'[c].pc = "idle" /\ caller'[c].slot = NoSlot
  BY <1>4 DEF Idle
<1>7. PICK p : thread' = [pc |-> p, slot |-> thread.slot] /\ p = IF thread.pc = "asleep" THEN "loop" ELSE thread.pc
  BY <1>1, <1>3, Woken
<1>8. thread'.pc = p /\ thread'.slot = thread.slot
  BY <1>7
<1>9. /\ free \in Ring /\ ready \in Ring /\ Hold \in Holdings /\ c \in Hands /\ Hold[c] = s /\ s # NoSlot
  BY <1>1, <1>2, <1>3, HoldIs, HandNames DEF StreamTypes, HandShape
<1>10. PICK h : h = [Hold EXCEPT ![c] = NoSlot]
  OBVIOUS
<1>11. kstm_push(free, s) \in Ring /\ OneEach(kstm_push(free, s), ready, h)
  BY <1>1, <1>9, <1>10, Puts DEF Places
<1>12. Hold' = h
  BY <1>5, <1>6, <1>8, <1>10, CallerHold
<1>13. Places'
  BY <1>3, <1>11, <1>12 DEF Places
<1>14. thread' \in [pc : {"none", "loop", "asleep"} \cup Working, slot : Slots \cup {NoSlot}]
  BY <1>1, <1>7, Fields
<1>15. StreamTypes'
  BY <1>1, <1>3, <1>4, <1>11, <1>14 DEF StreamTypes, CallerAt
<1>16. HandShape'
  BY <1>1, <1>3, <1>5, <1>6, <1>7, <1>8 DEF HandShape, Working
<1>17. Order'
  BY <1>1, <1>3, <1>7, <1>8, OrderKept
<1>18. StreamWakes'
  BY <1>5, <1>6, <1>7, <1>8 DEF StreamWakes
<1> QED
  BY <1>13, <1>15, <1>16, <1>17, <1>18 DEF StreamInv

LEMMA StepWrites == ASSUME StreamInv, NEW c \in Callers, StmK_Write_Put(c) PROVE StreamInv'
<1>1. StreamTypes /\ HandShape /\ StreamWakes /\ Places /\ Order
  BY DEF StreamInv
<1>2. PICK s : s = First(free)
  OBVIOUS
<1>3. /\ dir = "out" /\ caller[c].pc = "check" /\ free.count > 0 /\ thread' = ThreadWoken
      /\ data' = data + 1 /\ slot' = [slot EXCEPT ![s] = data + 1]
      /\ free' = kstm_pop(free) /\ ready' = kstm_push(ready, s)
      /\ UNCHANGED <<dir, stop, running, delivered, lost>>
  BY <1>2 DEF StmK_Write_Put
<1>4. AllAwake(c) /\ caller'[c] = Idle /\ caller' \in [Callers -> CallerAt]
  BY <1>1, ReturnAwakes DEF StmK_Write_Put
<1>5. \A d \in Callers : d # c => /\ caller'[d].slot = caller[d].slot /\ caller'[d].pc # "asleep"
                                  /\ caller'[d].pc = "copy" <=> caller[d].pc = "copy"
  BY <1>1, <1>4, AwakeTyped
<1>6. caller'[c].pc = "idle" /\ caller'[c].slot = NoSlot
  BY <1>4 DEF Idle
<1>7. PICK p : thread' = [pc |-> p, slot |-> thread.slot] /\ p = IF thread.pc = "asleep" THEN "loop" ELSE thread.pc
  BY <1>1, <1>3, Woken
<1>8. thread'.pc = p /\ thread'.slot = thread.slot
  BY <1>7
<1>9. /\ free \in Ring /\ ready \in Ring /\ Hold \in Holdings /\ c \in Hands /\ Hold[c] = NoSlot
      /\ slot \in [Slots -> Nat] /\ data \in Nat /\ delivered \in Seq(Nat) /\ caller[c].slot = NoSlot
      /\ "thread" \in Hands /\ Hold["thread"] = thread.slot
  BY <1>1, <1>3, HoldIs, HandNames DEF StreamTypes, HandShape
\* The slot passes through the caller's hand.
<1>10. PICK h : h = [Hold EXCEPT ![c] = s]
  OBVIOUS
<1>11. PICK f : f = kstm_pop(free)
  OBVIOUS
<1>12. /\ f \in Ring /\ h \in Holdings /\ OneEach(f, ready, h)
       /\ s \in Slots /\ s \notin InRing(ready) /\ s \notin HeldSlots(Hold)
  BY <1>1, <1>2, <1>3, <1>9, <1>10, <1>11, Takes DEF Places
<1>13. OneEach(ready, f, h) /\ h[c] = s /\ s # NoSlot
  BY <1>9, <1>10, <1>12, OneEachTurned, SlotNumbers DEF Holdings
<1>14. [h EXCEPT ![c] = NoSlot] = Hold
  BY <1>9, <1>10 DEF Holdings
<1>15. ready.count < n_slots /\ kstm_push(ready, s) \in Ring /\ OneEach(kstm_push(ready, s), f, Hold)
  BY <1>9, <1>12, <1>13, <1>14, Puts
<1>16. OneEach(f, kstm_push(ready, s), Hold)
  BY <1>9, <1>12, <1>15, OneEachTurned
<1>17. Hold' = Hold
  BY <1>5, <1>6, <1>8, <1>9, SameHold
<1>18. Places'
  BY <1>3, <1>11, <1>16, <1>17 DEF Places
<1>19. thread' \in [pc : {"none", "loop", "asleep"} \cup Working, slot : Slots \cup {NoSlot}]
  BY <1>1, <1>7, Fields
<1>20. data' \in Nat /\ slot' \in [Slots -> Nat]
  <2>1. data + 1 \in Nat
    BY <1>9
  <2>2. [slot EXCEPT ![s] = data + 1] \in [Slots -> Nat]
    BY <1>9, <1>12, <2>1
  <2> QED
    BY <1>3, <2>1, <2>2
<1>21. StreamTypes'
  BY <1>1, <1>3, <1>4, <1>11, <1>12, <1>15, <1>19, <1>20 DEF StreamTypes, CallerAt
<1>22. HandShape'
  BY <1>1, <1>3, <1>5, <1>6, <1>7, <1>8, <1>9 DEF HandShape, Working
<1>23. thread.pc = "submit" => thread.slot \in Slots /\ thread.slot # s
  <2>1. thread.pc = "submit" => thread.slot \in Slots /\ thread.slot # NoSlot
    BY <1>1, Fields DEF HandShape, Working
  <2>2. thread.slot # NoSlot => thread.slot \in HeldSlots(Hold)
    BY <1>9 DEF HeldSlots
  <2> QED
    BY <1>12, <2>1, <2>2
<1>24. OutOrder(ready, slot, thread.pc, thread.slot, data, delivered, lost)
  BY <1>1, <1>3 DEF Order
<1>25. OutOrder(kstm_push(ready, s), [slot EXCEPT ![s] = data + 1], thread.pc, thread.slot, data + 1, delivered, lost)
  BY <1>9, <1>12, <1>15, <1>23, <1>24, OutWrites
<1>26. OutOrder(kstm_push(ready, s), [slot EXCEPT ![s] = data + 1], p, thread.slot, data + 1, delivered, lost)
  BY <1>7, <1>25, OutIdle
<1>27. Order'
  BY <1>3, <1>8, <1>26 DEF Order
<1>28. StreamWakes'
  BY <1>5, <1>6, <1>7, <1>8 DEF StreamWakes
<1> QED
  BY <1>18, <1>21, <1>22, <1>27, <1>28 DEF StreamInv

-----------------------------------------------------------------------------
(* Pipe streams: the theorem                                               *)

LEMMA StreamInitInv == ASSUME StreamInit PROVE StreamInv
<1>1. /\ dir \in {"in", "out"} /\ free = [q |-> [s \in Slots |-> s], head |-> 0, count |-> n_slots]
      /\ ready = [q |-> [s \in Slots |-> 0], head |-> 0, count |-> 0]
      /\ slot = [s \in Slots |-> 0] /\ running = FALSE /\ data = 0 /\ delivered = <<>>
      /\ thread = [pc |-> "none", slot |-> NoSlot] /\ caller = [c \in Callers |-> [pc |-> "idle", slot |-> NoSlot]]
  BY DEF StreamInit
<1>2. n_slots \in Nat \ {0} /\ 0 \in Slots
  BY SlotNumbers
<1>3. free \in Ring /\ ready \in Ring
  BY <1>1, <1>2 DEF Ring
<1>4. delivered \in Seq(Nat) /\ Len(delivered) = 0
  BY <1>1, EmptySeq
<1>5. StreamTypes
  <2>1. slot \in [Slots -> Nat] /\ data \in Nat
    BY <1>1
  <2>2. thread \in [pc : {"none", "loop", "asleep"} \cup Working, slot : Slots \cup {NoSlot}]
    BY <1>1
  <2>3. caller \in [Callers -> [pc : {"idle", "check", "asleep", "copy"}, slot : Slots \cup {NoSlot}]]
    BY <1>1
  <2> QED
    BY <1>1, <1>3, <1>4, <2>1, <2>2, <2>3 DEF StreamTypes
<1>6. /\ thread.pc = "none" /\ thread.slot = NoSlot
      /\ \A c \in Callers : caller[c].pc = "idle" /\ caller[c].slot = NoSlot
  BY <1>1
<1>7. HandShape
  BY <1>6 DEF HandShape, Working
<1>8. StreamWakes
  BY <1>6 DEF StreamWakes
<1>9. free.count = n_slots /\ free.head = 0 /\ ready.count = 0 /\ \A s \in Slots : free.q[s] = s
  BY <1>1
<1>10. Places
  <2>1. \A a \in Hands : Hold[a] = NoSlot
    BY <1>6 DEF Hold, Hands
  <2>2. HeldSlots(Hold) = {} /\ Apart(Hold) /\ Cardinality(HeldSlots(Hold)) = 0
    BY <2>1, FS_EmptySet DEF HeldSlots, Apart
  <2>3. InRing(ready) = {} /\ RingOnce(ready)
    BY <1>9 DEF InRing, RingOnce
  <2>4. ASSUME NEW i \in 0..(n_slots - 1) PROVE At(free, i) = i
    <3>1. i \in Nat /\ i < n_slots /\ 0 + i = i
      BY <1>2
    <3>2. i % n_slots = i
      BY <1>2, <3>1, ModLow
    <3> QED
      BY <1>9, <3>1, <3>2 DEF At, Slots
  <2>5. InRing(free) = Slots /\ RingOnce(free)
    <3>1. InRing(free) = {At(free, i) : i \in 0..(n_slots - 1)}
      BY <1>9, InRingAt
    <3> QED
      BY <1>9, <2>4, <3>1 DEF Slots, RingOnce
  <2>6. free.count + ready.count + Cardinality(HeldSlots(Hold)) = n_slots
    BY <1>2, <1>9, <2>2
  <2> QED
    BY <2>2, <2>3, <2>5, <2>6 DEF Places, OneEach
<1>11. Order
  <2>1. InOrder(ready, slot, thread.pc, thread.slot, data, delivered)
    BY <1>1, <1>4, <1>6, <1>9 DEF InOrder, Full
  <2>2. Past(ready, thread.pc, data) = 0
    BY <1>1, <1>6, <1>9 DEF Past, Submitting
  <2>3. Settled(0, delivered, lost)
    BY <1>4 DEF Settled
  <2>4. OutOrder(ready, slot, thread.pc, thread.slot, data, delivered, lost)
    BY <1>6, <1>9, <2>2, <2>3 DEF OutOrder
  <2> QED
    BY <2>1, <2>4 DEF Order
<1> QED
  BY <1>5, <1>7, <1>8, <1>10, <1>11 DEF StreamInv

LEMMA StreamStep == ASSUME StreamInv, [StreamNext]_streamvars PROVE StreamInv'
<1>1. CASE UNCHANGED streamvars
  <2>1. /\ UNCHANGED <<dir, free, ready, slot, data, delivered, lost>>
        /\ UNCHANGED <<thread, caller, stop, running>>
    BY <1>1 DEF streamvars
  <2>2. Places' /\ Order'
    BY <2>1, MovesNothing
  <2> QED
    BY <2>1, <2>2 DEF StreamInv, StreamTypes, HandShape, StreamWakes, Sink, Source
<1>2. CASE StreamNext
  BY <1>2, StreamStart, StreamStop, StreamStopped, ThreadRests, StepTakes, StepSubmits, StepPuts,
     CallerMoves, StepReads, StepReturns, StepWrites DEF StreamNext
<1> QED
  BY <1>1, <1>2

\* OUT: a number written is lost, delivered, or in a slot that still has it.
LEMMA NumbersKept ==
  ASSUME StreamInv, dir = "out", NEW n \in 1..data
  PROVE  \/ n \in lost \/ (\E i \in DOMAIN delivered : delivered[i] = n)
         \/ (\E s \in InRing(ready) \cup InHand : slot[s] = n)
<1>1. StreamTypes /\ HandShape /\ OutOrder(ready, slot, thread.pc, thread.slot, data, delivered, lost)
  BY DEF StreamInv, Order
<1>2. PICK c : c = ready.count
  OBVIOUS
<1>3. c \in Nat /\ data \in Nat /\ DOMAIN delivered = 1..Len(delivered)
  BY <1>1, <1>2, Fields, LenProperties DEF StreamTypes
<1>4. PICK b : b = Submitting(thread.pc)
  OBVIOUS
<1>5. b \in {0, 1} /\ (b = 1 => thread.pc = "submit") /\ Past(ready, thread.pc, data) = data - c - b
  BY <1>2, <1>4 DEF Submitting, Past
<1>6. CASE n <= data - c - b
  <2>1. n \in 1..(data - c - b)
    BY <1>3, <1>5, <1>6
  <2>2. Settled(data - c - b, delivered, lost)
    BY <1>1, <1>5 DEF OutOrder
  <2> QED
    BY <1>3, <2>1, <2>2 DEF Settled
<1>7. CASE n = data - c /\ b = 1
  <2>1. thread.pc = "submit" /\ thread.slot # NoSlot
    BY <1>1, <1>5, <1>7 DEF HandShape, Working
  <2>2. slot[thread.slot] = n
    BY <1>1, <1>2, <1>7, <2>1 DEF OutOrder
  <2>3. thread.slot \in InHand
    BY <2>1 DEF InHand
  <2> QED
    BY <2>2, <2>3
<1>8. CASE n > data - c
  <2>1. PICK i : i = n - (data - c) - 1
    OBVIOUS
  <2>2. i \in 0..(c - 1) /\ data - c + 1 + i = n
    BY <1>3, <1>8, <2>1
  <2>3. slot[At(ready, i)] = n
    BY <1>1, <1>2, <2>2 DEF OutOrder
  <2>4. At(ready, i) \in InRing(ready)
    BY <1>2, <2>2, InRingAt
  <2> QED
    BY <2>3, <2>4
<1> QED
  BY <1>3, <1>5, <1>6, <1>7, <1>8

LEMMA StreamInvSound == ASSUME StreamInv PROVE StreamIsSound
<1>1. StreamTypes /\ Places /\ Order /\ StreamWakes /\ dir \in {"in", "out"}
  BY DEF StreamInv, StreamTypes
<1>2. InHand = HeldSlots(Hold)
  BY <1>1, HoldIs
<1>3. /\ free.count + ready.count + Cardinality(InHand) = n_slots
      /\ InRing(free) \cup InRing(ready) \cup InHand = Slots
  BY <1>1, <1>2 DEF Places, OneEach
<1>4. Len(delivered) \in Nat /\ DOMAIN delivered = 1..Len(delivered) /\ delivered \in Seq(Nat)
  BY <1>1, LenProperties DEF StreamTypes
<1>5. dir = "in" => \A i \in 1..Len(delivered) : delivered[i] = i
  BY <1>1 DEF Order, InOrder
<1>6. dir = "out" => \A i, j \in 1..Len(delivered) : i < j => delivered[i] < delivered[j]
  BY <1>1 DEF Order, OutOrder, Settled
<1>7. \A i, j \in DOMAIN delivered : i < j => delivered[i] < delivered[j]
  BY <1>1, <1>4, <1>5, <1>6
<1>8. dir = "in" => delivered = [i \in 1..Len(delivered) |-> i]
  <2>1. delivered = [i \in 1..Len(delivered) |-> delivered[i]]
    BY <1>4, SeqDef
  <2> QED
    BY <1>5, <2>1
<1>9. dir = "out" => \A n \in 1..data : n \in lost \/ (\E i \in DOMAIN delivered : delivered[i] = n)
                       \/ (\E s \in InRing(ready) \cup InHand : slot[s] = n)
  BY NumbersKept
<1>10. SlotsAreSound
  BY <1>3, <1>7, <1>8, <1>9 DEF SlotsAreSound
<1> QED
  BY <1>1, <1>10 DEF StreamIsSound

\* Pipe streams (StmK_Start, StmK_Stop, StmK_Read, StmK_Write and kstm_thread of libusbk.c)
\* keep every slot in exactly one place, deliver in order and lose nothing but the OUT
\* transfers whose submit failed, and let nobody sleep on what is there: for any number of
\* slots, callers and transfers, and through any failures, stops and restarts.
THEOREM StreamIsSoundHolds == StreamSpec => []StreamIsSound
<1>1. StreamInit => StreamInv
  BY StreamInitInv
<1>2. StreamInv /\ [StreamNext]_streamvars => StreamInv'
  BY StreamStep
<1>3. StreamInv => StreamIsSound
  BY StreamInvSound
<1> QED
  BY <1>1, <1>2, <1>3, PTL DEF StreamSpec

-----------------------------------------------------------------------------
(* Device lists                                                            *)

\* The positions of a finite set of numbers in their order.
Upto(I, i) == {j \in I : j <= i}
PosOf(I, k) == CHOOSE i \in I : Cardinality({j \in I : j <= i}) = k

LEMMA Ranks ==
  ASSUME NEW I, I \subseteq Nat, IsFiniteSet(I)
  PROVE  /\ Cardinality(I) \in Nat
         /\ \A i \in I : Cardinality(Upto(I, i)) \in 1..Cardinality(I)
         /\ \A i, j \in I : Cardinality(Upto(I, i)) = Cardinality(Upto(I, j)) => i = j
         /\ \A k \in 1..Cardinality(I) : \E i \in I : Cardinality(Upto(I, i)) = k
<1> DEFINE r == [i \in I |-> Cardinality(Upto(I, i))]
<1>1. Cardinality(I) \in Nat
  BY FS_CardinalityType
<1>2. ASSUME NEW i \in I PROVE Cardinality(Upto(I, i)) \in 1..Cardinality(I)
  <2>1. Upto(I, i) \subseteq I
    BY DEF Upto
  <2>2. IsFiniteSet(Upto(I, i)) /\ Cardinality(Upto(I, i)) <= Cardinality(I)
    BY <2>1, FS_Subset
  <2>3. Cardinality(Upto(I, i)) \in Nat
    BY <2>2, FS_CardinalityType
  <2>4. i \in Upto(I, i)
    BY DEF Upto
  <2>5. Cardinality(Upto(I, i)) # 0
    BY <2>2, <2>4, FS_EmptySet
  <2> QED
    BY <1>1, <2>2, <2>3, <2>5
<1>3. ASSUME NEW i \in I, NEW j \in I, i < j PROVE Cardinality(Upto(I, i)) < Cardinality(Upto(I, j))
  <2>1. Upto(I, j) \subseteq I /\ Upto(I, i) \subseteq Upto(I, j) /\ j \in Upto(I, j) /\ j \notin Upto(I, i)
    <3>1. i \in Nat /\ j \in Nat /\ \A k \in I : k \in Nat
      OBVIOUS
    <3>2. \A k \in Nat : k <= i => k <= j
      BY <1>3, <3>1
    <3>3. ~(j <= i) /\ j <= j
      BY <1>3, <3>1
    <3> QED
      BY <3>1, <3>2, <3>3 DEF Upto
  <2>2. IsFiniteSet(Upto(I, j))
    BY <2>1, FS_Subset
  <2>3. Cardinality(Upto(I, i)) <= Cardinality(Upto(I, j)) /\ Cardinality(Upto(I, i)) # Cardinality(Upto(I, j))
    BY <2>1, <2>2, FS_Subset
  <2> QED
    BY <1>2, <2>3
<1>4. ASSUME NEW i \in I, NEW j \in I, Cardinality(Upto(I, i)) = Cardinality(Upto(I, j)) PROVE i = j
  BY <1>2, <1>3, <1>4
<1>5. ASSUME NEW k \in 1..Cardinality(I) PROVE \E i \in I : Cardinality(Upto(I, i)) = k
  <2>1. r \in [I -> 1..Cardinality(I)]
    BY <1>2
  <2>2. r \in Injection(I, 1..Cardinality(I))
    BY <1>4, <2>1 DEF Injection, IsInjective
  <2>3. IsFiniteSet(1..Cardinality(I)) /\ Cardinality(1..Cardinality(I)) = Cardinality(I)
    BY <1>1, FS_Interval
  <2>4. r \in Surjection(I, 1..Cardinality(I))
    BY <2>2, <2>3, FS_Injection
  <2> QED
    BY <2>1, <2>4 DEF Surjection
<1> QED
  BY <1>1, <1>2, <1>4, <1>5

LEMMA PosOfFacts ==
  ASSUME NEW I, I \subseteq Nat, IsFiniteSet(I)
  PROVE  /\ \A k \in 1..Cardinality(I) : PosOf(I, k) \in I /\ Cardinality(Upto(I, PosOf(I, k))) = k
         /\ \A i \in I : Cardinality(Upto(I, i)) \in 1..Cardinality(I) /\ PosOf(I, Cardinality(Upto(I, i))) = i
<1>1. \A k \in 1..Cardinality(I) : \E i \in I : Cardinality({j \in I : j <= i}) = k
  BY Ranks DEF Upto
<1>2. \A k \in 1..Cardinality(I) : PosOf(I, k) \in I /\ Cardinality({j \in I : j <= PosOf(I, k)}) = k
  BY <1>1 DEF PosOf
<1>3. \A k \in 1..Cardinality(I) : PosOf(I, k) \in I /\ Cardinality(Upto(I, PosOf(I, k))) = k
  BY <1>2 DEF Upto
<1>4. ASSUME NEW i \in I
      PROVE  Cardinality(Upto(I, i)) \in 1..Cardinality(I) /\ PosOf(I, Cardinality(Upto(I, i))) = i
  <2>1. Cardinality(Upto(I, i)) \in 1..Cardinality(I)
    BY Ranks
  <2>2. PosOf(I, Cardinality(Upto(I, i))) \in I
        /\ Cardinality(Upto(I, PosOf(I, Cardinality(Upto(I, i))))) = Cardinality(Upto(I, i))
    BY <1>3, <2>1
  <2> QED
    BY <2>1, <2>2, Ranks
<1> QED
  BY <1>3, <1>4

\* Picking keeps what stands at the positions, each once.
LEMMA PickedFacts ==
  ASSUME NEW S, NEW s \in Seq(S), NEW I \in SUBSET (DOMAIN s)
  PROVE  /\ Picked(s, I) \in Seq(S)
         /\ ToSet(Picked(s, I)) = {s[i] : i \in I}
         /\ IsInjective(s) => IsInjective(Picked(s, I))
<1>1. DOMAIN s = 1..Len(s) /\ Len(s) \in Nat /\ \A i \in DOMAIN s : s[i] \in S
  BY LenProperties, ElementOfSeq
<1>2. I \subseteq Nat /\ IsFiniteSet(I)
  <2>1. IsFiniteSet(1..Len(s))
    BY <1>1, FS_Interval
  <2> QED
    BY <1>1, <2>1, FS_Subset
<1>3. Cardinality(I) \in Nat
  BY <1>2, FS_CardinalityType
<1>4. Picked(s, I) = [k \in 1..Cardinality(I) |-> s[PosOf(I, k)]]
  BY DEF Picked, PosOf
<1>5. \A k \in 1..Cardinality(I) : PosOf(I, k) \in I /\ Cardinality(Upto(I, PosOf(I, k))) = k
  BY <1>2, PosOfFacts
<1>6. \A i \in I : Cardinality(Upto(I, i)) \in 1..Cardinality(I) /\ PosOf(I, Cardinality(Upto(I, i))) = i
  BY <1>2, PosOfFacts
<1>7. DOMAIN Picked(s, I) = 1..Cardinality(I) /\ \A k \in 1..Cardinality(I) : Picked(s, I)[k] = s[PosOf(I, k)]
  BY <1>4
<1>8. Picked(s, I) \in Seq(S)
  BY <1>1, <1>3, <1>4, <1>5, IsASeq
<1>9. ToSet(Picked(s, I)) = {s[i] : i \in I}
  <2>1. ToSet(Picked(s, I)) = {s[PosOf(I, k)] : k \in 1..Cardinality(I)}
    BY <1>7 DEF ToSet
  <2> QED
    BY <1>5, <1>6, <2>1
<1>10. ASSUME IsInjective(s) PROVE IsInjective(Picked(s, I))
  <2>1. \A i, j \in DOMAIN s : s[i] = s[j] => i = j
    BY <1>10 DEF IsInjective
  <2>2. ASSUME NEW j \in 1..Cardinality(I), NEW k \in 1..Cardinality(I), s[PosOf(I, j)] = s[PosOf(I, k)]
        PROVE  j = k
    <3>1. PosOf(I, j) = PosOf(I, k)
      BY <1>5, <2>1, <2>2
    <3> QED
      BY <1>5, <3>1
  <2> QED
    BY <1>7, <2>2 DEF IsInjective
<1> QED
  BY <1>8, <1>9, <1>10

\* SetToSeq lists a finite set, each element once.
LEMMA SetToSeqFacts ==
  ASSUME NEW S, IsFiniteSet(S)
  PROVE  /\ SetToSeq(S) \in [1..Cardinality(S) -> S] /\ Cardinality(S) \in Nat
         /\ IsInjective(SetToSeq(S))
         /\ {SetToSeq(S)[i] : i \in 1..Cardinality(S)} = S
<1>1. Cardinality(S) \in Nat /\ ExistsBijection(1..Cardinality(S), S)
  BY FS_CardinalityType
<1>2. \E f \in [1..Cardinality(S) -> S] : IsInjective(f)
  BY <1>1 DEF ExistsBijection, Bijection, Injection, IsInjective
<1>3. SetToSeq(S) \in [1..Cardinality(S) -> S] /\ IsInjective(SetToSeq(S))
  BY <1>2 DEF SetToSeq
<1>4. SetToSeq(S) \in Injection(1..Cardinality(S), S)
  BY <1>3 DEF Injection, IsInjective
<1>5. Cardinality(1..Cardinality(S)) = Cardinality(S)
  BY <1>1, FS_Interval
<1>6. SetToSeq(S) \in Surjection(1..Cardinality(S), S)
  BY <1>4, <1>5, FS_Injection
<1>7. S \subseteq {SetToSeq(S)[i] : i \in 1..Cardinality(S)}
  BY <1>6 DEF Surjection
<1> QED
  BY <1>1, <1>3, <1>7

\* The server's devices come and go.
ListsServer == (\E b \in Busids : Plug(b) \/ Unplug(b)) /\ UNCHANGED lkvars

ListsSpec == ClientInit /\ ListsInit /\ [][ListsNext \/ ListsServer]_<<clientvars, lkvars>>

ListRecs == [live : BOOLEAN, els : Seq(Els), cursor : Els \cup {NoEl}, started : BOOLEAN]
Infos == [live : BOOLEAN, owner : Lists \cup {NoList}, busid : Busids \cup {"none"},
          connected : BOOLEAN, sync : {"none", "unchanged", "added", "removed", "connect_change"}]
Exported == {b \in Busids : exported[b] # 0}

ListsTypes ==
  /\ lst \in [Lists -> ListRecs]
  /\ el \in [Els -> Infos]
  /\ exported = [b \in Busids |-> exported[b]] /\ IsFiniteSet(Exported)

\* A list that was freed has no elements.
FreedIsEmpty == \A l \in Lists : ~lst[l].live => lst[l].els = <<>>

ListsInv == ListsTypes /\ FreedIsEmpty /\ ListShape

LEMMA NewLists ==
  /\ \A s \in Seq(Els) : LET r == [NewList EXCEPT !.els = s]
                         IN r \in ListRecs /\ r.live /\ r.els = s /\ r.cursor = NoEl
  /\ LET r == [NewList EXCEPT !.live = FALSE]
     IN r \in ListRecs /\ ~r.live /\ r.els = <<>> /\ r.cursor = NoEl
<1>1. NewList \in ListRecs
  BY EmptySeq DEF NewList, ListRecs
<1>2. NewList.els = <<>> /\ NewList.cursor = NoEl /\ NewList.live
  BY DEF NewList
<1> QED
  BY <1>1, <1>2 DEF ListRecs

LEMMA NothingListed == ToSet(<<>>) = {} /\ IsInjective(<<>>)
BY DEF ToSet, IsInjective

LEMMA ElementsOf ==
  ASSUME NEW S, NEW s \in Seq(S)
  PROVE  ToSet(s) \subseteq S /\ IsFiniteSet(ToSet(s)) /\ DOMAIN s = 1..Len(s) /\ Len(s) \in Nat
<1>1. DOMAIN s = 1..Len(s) /\ Len(s) \in Nat /\ \A i \in DOMAIN s : s[i] \in S
  BY LenProperties, ElementOfSeq
<1>2. ToSet(s) \subseteq S
  BY <1>1 DEF ToSet
<1>3. [i \in DOMAIN s |-> s[i]] \in Surjection(DOMAIN s, ToSet(s))
  BY DEF ToSet, Surjection
<1>4. IsFiniteSet(DOMAIN s)
  BY <1>1, FS_Interval
<1>5. IsFiniteSet(ToSet(s))
  BY <1>3, <1>4, FS_Surjection
<1> QED
  BY <1>1, <1>2, <1>5

LEMMA PositionFacts ==
  ASSUME NEW s, NEW e \in ToSet(s)
  PROVE  Position(s, e) \in DOMAIN s /\ s[Position(s, e)] = e
<1>1. \E i \in DOMAIN s : s[i] = e
  BY DEF ToSet
<1> QED
  BY <1>1 DEF Position

LEMMA AllocatedFacts ==
  ASSUME ListsTypes, NEW n \in Nat, n <= Cardinality(Spare)
  PROVE  /\ Allocated(n) \in Seq(Els) /\ DOMAIN Allocated(n) = 1..n
         /\ IsInjective(Allocated(n))
         /\ ToSet(Allocated(n)) \subseteq Spare
<1>1. Spare \subseteq Els
  BY DEF Spare
<1>2. IsFiniteSet(Spare)
  BY <1>1, ListsAssumption, FS_Subset
<1>3. PICK f : f = SetToSeq(Spare)
  OBVIOUS
<1>4. f \in [1..Cardinality(Spare) -> Spare] /\ Cardinality(Spare) \in Nat /\ IsInjective(f)
  BY <1>2, <1>3, SetToSeqFacts
<1>5. f \in Seq(Els) /\ Len(f) = Cardinality(Spare) /\ \A i \in 1..Cardinality(Spare) : f[i] \in Spare
  BY <1>1, <1>4, IsASeq
<1>6. PICK g : g = SubSeq(f, 1, n)
  OBVIOUS
<1>7. Allocated(n) = g
  BY <1>3, <1>6 DEF Allocated
<1>8. g \in Seq(Els) /\ Len(g) = n /\ \A i \in 1..n : g[i] = f[i]
  BY <1>4, <1>5, <1>6, SubSeqProperties
<1>9. DOMAIN g = 1..n /\ \A i \in 1..n : i \in 1..Cardinality(Spare)
  BY <1>4, <1>8, LenProperties
<1>10. \A i \in 1..n : g[i] \in Spare
  BY <1>5, <1>8, <1>9
<1>11. ToSet(g) \subseteq Spare
  BY <1>9, <1>10 DEF ToSet
<1>12. \A i, j \in 1..Cardinality(Spare) : f[i] = f[j] => i = j
  BY <1>4 DEF IsInjective
<1>13. IsInjective(g)
  BY <1>8, <1>9, <1>12 DEF IsInjective
<1> QED
  BY <1>7, <1>8, <1>9, <1>11, <1>13

\* A step that gives one list new elements and moves infos only in and out of that list.
LEMMA Relisted ==
  ASSUME ListShape, NEW m \in Lists,
         lst \in [Lists -> ListRecs], el \in [Els -> Infos],
         \A l \in Lists \ {m} : lst'[l].els = lst[l].els /\ lst'[l].cursor = lst[l].cursor,
         lst'[m].els \in Seq(Els), IsInjective(lst'[m].els),
         lst'[m].cursor = NoEl \/ lst'[m].cursor \in ToSet(lst'[m].els),
         \A e \in ToSet(lst'[m].els) : el'[e].live /\ el'[e].owner = m,
         \A e \in Els \ ToSet(lst'[m].els) : el'[e].owner # m,
         \A e \in Els : el[e].owner \in Lists \ {m} => el'[e].live = el[e].live /\ el'[e].owner = el[e].owner,
         \A e \in Els : el'[e].owner \notin {m, NoList} => el[e].owner = el'[e].owner,
         \A e \in Els : el'[e].owner \in Lists \cup {NoList}
  PROVE  ListShape'
<1>1. ASSUME NEW l \in Lists, l # m
      PROVE  /\ \A e \in ToSet(lst'[l].els) : el'[e].live /\ el'[e].owner = l
             /\ IsInjective(lst'[l].els)
             /\ lst'[l].cursor = NoEl \/ lst'[l].cursor \in ToSet(lst'[l].els)
  <2>1. lst'[l].els = lst[l].els /\ lst'[l].cursor = lst[l].cursor
    BY <1>1
  <2>2. /\ \A e \in ToSet(lst[l].els) : el[e].live /\ el[e].owner = l
        /\ IsInjective(lst[l].els)
        /\ lst[l].cursor = NoEl \/ lst[l].cursor \in ToSet(lst[l].els)
    BY DEF ListShape
  <2>3. ToSet(lst[l].els) \subseteq Els
    <3>1. lst[l].els \in Seq(Els)
      BY DEF ListRecs
    <3> QED
      BY <3>1, ElementsOf
  <2>4. ASSUME NEW e \in ToSet(lst[l].els) PROVE el'[e].live /\ el'[e].owner = l
    BY <1>1, <2>2, <2>3, <2>4
  <2> QED
    BY <2>1, <2>2, <2>4
<1>2. ASSUME NEW e \in Els, el'[e].owner # NoList
      PROVE  e \in ToSet(lst'[el'[e].owner].els)
  <2>1. CASE el'[e].owner = m
    BY <2>1
  <2>2. CASE el'[e].owner # m
    <3>1. el[e].owner = el'[e].owner /\ el[e].owner \in Lists \ {m}
      BY <1>2, <2>2
    <3>2. e \in ToSet(lst[el[e].owner].els)
      BY <1>2, <3>1 DEF ListShape
    <3>3. lst'[el[e].owner].els = lst[el[e].owner].els
      BY <3>1
    <3> QED
      BY <3>1, <3>2, <3>3
  <2> QED
    BY <2>1, <2>2
<1>3. ASSUME NEW l \in Lists
      PROVE  /\ \A e \in ToSet(lst'[l].els) : el'[e].live /\ el'[e].owner = l
             /\ IsInjective(lst'[l].els)
             /\ lst'[l].cursor = NoEl \/ lst'[l].cursor \in ToSet(lst'[l].els)
  <2>1. CASE l = m
    BY <2>1
  <2> QED
    BY <1>1, <2>1
<1> QED
  BY <1>2, <1>3 DEF ListShape

LEMMA ListsInitial == ClientInit /\ ListsInit => ListsInv
<1> SUFFICES ASSUME ClientInit, ListsInit PROVE ListsInv
  OBVIOUS
<1>1. PICK r : r = [NewList EXCEPT !.live = FALSE]
  OBVIOUS
<1>2. r \in ListRecs /\ ~r.live /\ r.els = <<>> /\ r.cursor = NoEl
  BY <1>1, NewLists
<1>3. lst = [l \in Lists |-> r]
  BY <1>1 DEF ListsInit
<1>4. el = [e \in Els |-> NoInfo]
  BY DEF ListsInit
<1>5. NoInfo \in Infos
  BY DEF NoInfo, Infos
<1>6. Exported = {} /\ exported = [b \in Busids |-> exported[b]]
  BY DEF Exported, ClientInit
<1>7. ListsTypes
  BY <1>4, <1>5, <1>6, <1>2, <1>3, FS_EmptySet DEF ListsTypes
<1>8. FreedIsEmpty
  BY <1>2, <1>3 DEF FreedIsEmpty
<1>9. ListShape
  <2>1. \A l \in Lists : lst[l].els = <<>> /\ lst[l].cursor = NoEl
    BY <1>2, <1>3
  <2>2. \A e \in Els : el[e].owner = NoList
    BY <1>4 DEF NoInfo
  <2> QED
    BY <2>1, <2>2, NothingListed DEF ListShape
<1> QED
  BY <1>7, <1>8, <1>9 DEF ListsInv

-----------------------------------------------------------------------------
\* What every step needs of the state.
LEMMA ListFacts ==
  ASSUME ListsInv, NEW l \in Lists
  PROVE  /\ lst[l].els \in Seq(Els) /\ ToSet(lst[l].els) \subseteq Els
         /\ \A e \in ToSet(lst[l].els) : el[e].live /\ el[e].owner = l
         /\ \A e \in Els : el[e].owner = l => e \in ToSet(lst[l].els)
         /\ IsInjective(lst[l].els)
         /\ lst[l].cursor = NoEl \/ lst[l].cursor \in ToSet(lst[l].els)
         /\ ~lst[l].live => lst[l].els = <<>>
<1>1. lst[l].els \in Seq(Els)
  BY DEF ListsInv, ListsTypes, ListRecs
<1>2. l # NoList
  BY ListsAssumption
<1> QED
  BY <1>1, <1>2, ElementsOf DEF ListsInv, ListShape, FreedIsEmpty

\* A snapshot of the server: an info for each device it exports.
LEMMA SnapshotFacts ==
  ASSUME IsFiniteSet(Exported)
  PROVE  /\ Snapshot \in Seq(Infos)
         /\ IsInjective(Snapshot)
         /\ \A x \in ToSet(Snapshot) : x.live /\ x.connected
         /\ \A x, y \in ToSet(Snapshot) : x.busid = y.busid => x = y
         /\ {x.busid : x \in ToSet(Snapshot)} = Exported
<1> DEFINE D == usbip_client_devlist
           f == [b \in Exported |-> [busid |-> b, devnum |-> exported[b]]]
           g == SetToSeq(D)
           n == Cardinality(D)
<1>1. D = {[busid |-> b, devnum |-> exported[b]] : b \in Exported}
  BY DEF usbip_client_devlist, Exported
<1>2. IsFiniteSet(D)
  <2>1. f \in Surjection(Exported, D)
    BY <1>1 DEF Surjection
  <2> QED
    BY <2>1, FS_Surjection
<1> HIDE DEF D
<1>3. g \in [1..n -> D] /\ n \in Nat /\ IsInjective(g) /\ {g[i] : i \in 1..n} = D
  BY <1>2, SetToSeqFacts
<1>4. Snapshot = [i \in 1..n |-> [live |-> TRUE, owner |-> NoList, busid |-> g[i].busid,
                                  connected |-> TRUE, sync |-> "none"]]
  BY DEF Snapshot, D
<1> HIDE DEF g, n
<1>5. \A d \in D : d.busid \in Exported /\ d = [busid |-> d.busid, devnum |-> exported[d.busid]]
  BY <1>1
<1>6. \A i \in 1..n : g[i] \in D /\ g[i].busid \in Busids
  BY <1>3, <1>5 DEF Exported
<1>7. \A i \in 1..n : Snapshot[i] \in Infos /\ Snapshot[i].live /\ Snapshot[i].connected /\ Snapshot[i].busid = g[i].busid
  BY <1>4, <1>6 DEF Infos
<1>8. Snapshot \in Seq(Infos)
  <2>1. Snapshot = [i \in 1..n |-> Snapshot[i]]
    BY <1>4
  <2> QED
    BY <1>3, <1>7, <2>1, IsASeq
<1>9. DOMAIN Snapshot = 1..n /\ ToSet(Snapshot) = {Snapshot[i] : i \in 1..n}
  BY <1>4 DEF ToSet
<1>10. ASSUME NEW i \in 1..n, NEW j \in 1..n, Snapshot[i].busid = Snapshot[j].busid PROVE i = j
  <2>1. g[i] = g[j]
    BY <1>5, <1>6, <1>7, <1>10
  <2> QED
    BY <1>3, <2>1 DEF IsInjective
<1>11. IsInjective(Snapshot)
  BY <1>9, <1>10 DEF IsInjective
<1>12. {x.busid : x \in ToSet(Snapshot)} = Exported
  <2>1. {x.busid : x \in ToSet(Snapshot)} = {g[i].busid : i \in 1..n}
    BY <1>7, <1>9
  <2>2. \A b \in Exported : \E i \in 1..n : g[i].busid = b
    <3>1. \A b \in Exported : [busid |-> b, devnum |-> exported[b]] \in D
      BY <1>1
    <3>2. \A b \in Exported : \E d \in D : d.busid = b
      BY <3>1
    <3> QED
      BY <1>3, <3>2
  <2>3. \A i \in 1..n : g[i].busid \in Exported
    BY <1>5, <1>6
  <2> QED
    BY <2>1, <2>2, <2>3
<1> QED
  BY <1>7, <1>8, <1>9, <1>10, <1>11, <1>12

\* A list made of copies.
LEMMA FilledStep ==
  ASSUME ListsInv, NEW l \in Lists, NEW infos \in Seq(Infos),
         \A i \in DOMAIN infos : infos[i].live,
         Filled(l, infos), UNCHANGED clientvars
  PROVE  ListsInv'
<1>1. ListsTypes
  BY DEF ListsInv
<1>2. PICK s : s = Allocated(Len(infos))
  OBVIOUS
<1>3. Len(infos) \in Nat /\ DOMAIN infos = 1..Len(infos) /\ \A i \in DOMAIN infos : infos[i] \in Infos
  BY LenProperties, ElementOfSeq
<1>4. IsFiniteSet(Spare)
  <2>1. Spare \subseteq Els
    BY DEF Spare
  <2> QED
    BY <2>1, ListsAssumption, FS_Subset
<1>5. Cardinality(Spare) \in Nat
  BY <1>4, FS_CardinalityType
<1>6. ~lst[l].live /\ Len(infos) <= Cardinality(Spare)
  BY <1>3, <1>5 DEF Filled
<1>7. s \in Seq(Els) /\ DOMAIN s = 1..Len(infos) /\ IsInjective(s) /\ ToSet(s) \subseteq Spare
  BY <1>1, <1>2, <1>3, <1>6, AllocatedFacts
<1>8. PICK r : r = [NewList EXCEPT !.els = s]
  OBVIOUS
<1>9. r \in ListRecs /\ r.live /\ r.els = s /\ r.cursor = NoEl
  BY <1>7, <1>8, NewLists
<1>10. lst' = [lst EXCEPT ![l] = r]
  BY <1>2, <1>8 DEF Filled
<1>11. el' = [e \in Els |-> IF e \notin ToSet(s) THEN el[e] ELSE [infos[Position(s, e)] EXCEPT !.owner = l]]
  BY <1>2 DEF Filled
<1>12. ASSUME NEW e \in ToSet(s)
       PROVE  el'[e] \in Infos /\ el'[e].live /\ el'[e].owner = l /\ e \in Els /\ ~el[e].live
  <2>1. Position(s, e) \in DOMAIN infos
    BY <1>3, <1>7, PositionFacts
  <2>2. PICK x : x = infos[Position(s, e)]
    OBVIOUS
  <2>3. x \in Infos /\ x.live
    BY <1>3, <2>1, <2>2
  <2>4. e \in Els /\ ~el[e].live
    BY <1>7 DEF Spare
  <2>5. el'[e] = [x EXCEPT !.owner = l]
    BY <1>11, <2>2, <2>4
  <2> QED
    BY <2>3, <2>4, <2>5 DEF Infos
<1>13. \A e \in Els \ ToSet(s) : el'[e] = el[e]
  BY <1>11
<1>14. ListsTypes'
  <2>1. el' \in [Els -> Infos]
    BY <1>1, <1>11, <1>12, <1>13 DEF ListsTypes
  <2>2. lst' \in [Lists -> ListRecs]
    BY <1>1, <1>10, <1>9 DEF ListsTypes
  <2>3. Exported' = Exported /\ exported' = exported
    BY DEF Exported, clientvars
  <2> QED
    BY <1>1, <2>1, <2>2, <2>3 DEF ListsTypes
<1>15. FreedIsEmpty'
  BY <1>1, <1>10, <1>9 DEF ListsInv, FreedIsEmpty, ListsTypes
<1>16. ListShape'
  <2>1. lst \in [Lists -> ListRecs] /\ el \in [Els -> Infos] /\ ListShape
    BY <1>1 DEF ListsInv, ListsTypes
  <2>2. \A k \in Lists \ {l} : lst'[k] = lst[k]
    BY <1>10, <2>1
  <2>3. lst'[l].els = s /\ lst'[l].cursor = NoEl
    BY <1>10, <1>9, <2>1
  <2>4. \A e \in Els : el[e].owner # l
    BY <1>6, ListFacts, NothingListed
  <2>5. \A e \in Els : el[e].owner \in Lists => el[e].live
    BY <2>1, ListFacts
  <2>6. \A e \in Els \ ToSet(s) : el'[e].owner # l
    BY <1>13, <2>4
  <2>7. \A e \in Els : el[e].owner \in Lists \ {l} => el'[e].live = el[e].live /\ el'[e].owner = el[e].owner
    BY <1>12, <1>13, <2>5
  <2>8. \A e \in Els : el'[e].owner \notin {l, NoList} => el[e].owner = el'[e].owner
    BY <1>12, <1>13
  <2>9. \A e \in Els : el'[e].owner \in Lists \cup {NoList}
    BY <1>14 DEF ListsTypes, Infos
  <2> QED
    BY <1>7, <1>12, <2>1, <2>2, <2>3, <2>6, <2>7, <2>8, <2>9, Relisted
<1> QED
  BY <1>14, <1>15, <1>16 DEF ListsInv

LEMMA InitStep ==
  ASSUME ListsInv, NEW l \in Lists, LstK_Init(l), UNCHANGED clientvars
  PROVE  ListsInv'
<1>1. Snapshot \in Seq(Infos) /\ \A i \in DOMAIN Snapshot : Snapshot[i].live
  BY SnapshotFacts DEF ListsInv, ListsTypes, ToSet
<1>2. Filled(l, Snapshot)
  BY DEF LstK_Init
<1> QED
  BY <1>1, <1>2, FilledStep

LEMMA CloneStep ==
  ASSUME ListsInv, NEW l \in Lists, NEW src \in Lists, LstK_Clone(src, l), UNCHANGED clientvars
  PROVE  ListsInv'
<1>1. PICK infos : infos = [i \in DOMAIN lst[src].els |-> el[lst[src].els[i]]]
  OBVIOUS
<1>2. lst[src].els \in Seq(Els) /\ \A e \in ToSet(lst[src].els) : e \in Els /\ el[e].live
  BY ListFacts
<1>3. DOMAIN lst[src].els = 1..Len(lst[src].els) /\ Len(lst[src].els) \in Nat
  BY <1>2, LenProperties
<1>4. \A i \in DOMAIN lst[src].els : infos[i] \in Infos /\ infos[i].live
  BY <1>1, <1>2 DEF ToSet, ListsInv, ListsTypes
<1>5. infos \in Seq(Infos) /\ DOMAIN infos = DOMAIN lst[src].els
  <2>1. infos \in [1..Len(lst[src].els) -> Infos]
    BY <1>1, <1>3, <1>4
  <2> QED
    BY <1>1, <1>3, <2>1, SeqDef
<1>6. Filled(l, infos)
  BY <1>1 DEF LstK_Clone
<1> QED
  BY <1>4, <1>5, <1>6, FilledStep

LEMMA FreeListInfosStep ==
  ASSUME ListsInv, NEW l \in Lists, LstK_Free(l), UNCHANGED clientvars
  PROVE  ListsInv'
<1>1. ListsTypes /\ ListShape /\ lst \in [Lists -> ListRecs] /\ el \in [Els -> Infos]
  BY DEF ListsInv, ListsTypes
<1>2. PICK r : r = [NewList EXCEPT !.live = FALSE]
  OBVIOUS
<1>3. r \in ListRecs /\ ~r.live /\ r.els = <<>> /\ r.cursor = NoEl
  BY <1>2, NewLists
<1>4. lst' = [lst EXCEPT ![l] = r]
  BY <1>2 DEF LstK_Free
<1>5. el' = [e \in Els |-> IF e \in ToSet(lst[l].els) THEN NoInfo ELSE el[e]]
  BY <1>1 DEF LstK_Free
<1>6. NoInfo \in Infos /\ NoInfo.owner = NoList
  BY DEF NoInfo, Infos
<1>7. ListsTypes'
  <2>1. lst' \in [Lists -> ListRecs] /\ el' \in [Els -> Infos]
    BY <1>1, <1>3, <1>4, <1>5, <1>6
  <2>2. Exported' = Exported /\ exported' = exported
    BY DEF Exported, clientvars
  <2> QED
    BY <1>1, <2>1, <2>2 DEF ListsTypes
<1>8. FreedIsEmpty'
  BY <1>1, <1>3, <1>4 DEF ListsInv, FreedIsEmpty
<1>9. ListShape'
  <2>1. \A k \in Lists \ {l} : lst'[k] = lst[k]
    BY <1>1, <1>4
  <2>2. lst'[l].els = <<>> /\ lst'[l].cursor = NoEl /\ lst'[l].els \in Seq(Els)
    BY <1>1, <1>3, <1>4, EmptySeq
  <2>3. l # NoList /\ \A e \in Els : el[e].owner = l <=> e \in ToSet(lst[l].els)
    BY ListsAssumption, ListFacts
  <2>4. \A e \in Els : el'[e].owner # l
    BY <1>5, <1>6, <2>3
  <2>5. \A e \in Els : el[e].owner \in Lists \ {l} => el'[e].live = el[e].live /\ el'[e].owner = el[e].owner
    BY <1>5, <2>3
  <2>6. \A e \in Els : el'[e].owner \notin {l, NoList} => el[e].owner = el'[e].owner
    BY <1>5, <1>6
  <2>7. \A e \in Els : el'[e].owner \in Lists \cup {NoList}
    BY <1>7 DEF ListsTypes, Infos
  <2>8. ToSet(lst'[l].els) = {} /\ IsInjective(lst'[l].els)
    BY <2>2, NothingListed
  <2> QED
    BY <1>1, <2>1, <2>2, <2>4, <2>5, <2>6, <2>7, <2>8, Relisted
<1> QED
  BY <1>7, <1>8, <1>9 DEF ListsInv

\* A walk changes the cursor of one list.
LEMMA WalkStep ==
  ASSUME ListsInv, NEW l \in Lists, NEW c, NEW b \in BOOLEAN,
         c = NoEl \/ c \in ToSet(lst[l].els),
         lst' = [lst EXCEPT ![l].cursor = c, ![l].started = b],
         UNCHANGED el, UNCHANGED clientvars
  PROVE  ListsInv'
<1>1. ListsTypes /\ ListShape /\ lst \in [Lists -> ListRecs] /\ el \in [Els -> Infos]
  BY DEF ListsInv, ListsTypes
<1>2. c \in Els \cup {NoEl}
  BY ListFacts
<1>3. lst' \in [Lists -> ListRecs]
  BY <1>1, <1>2 DEF ListRecs
<1>4. \A k \in Lists : lst'[k].els = lst[k].els /\ lst'[k].live = lst[k].live
                       /\ (lst'[k].cursor = lst[k].cursor \/ (k = l /\ lst'[k].cursor = c))
  BY <1>1 DEF ListRecs
<1>5. ListsTypes'
  BY <1>1, <1>3 DEF ListsTypes, Exported, clientvars
<1>6. FreedIsEmpty'
  BY <1>4 DEF ListsInv, FreedIsEmpty
<1>7. ListShape'
  <2>1. \A k \in Lists : lst'[k].cursor = NoEl \/ lst'[k].cursor \in ToSet(lst[k].els)
    BY <1>1, <1>4 DEF ListShape
  <2>2. \A e \in Els : el[e].owner # NoList => el[e].owner \in Lists
    BY <1>1 DEF Infos
  <2> QED
    BY <1>1, <1>4, <2>1, <2>2 DEF ListShape
<1> QED
  BY <1>5, <1>6, <1>7 DEF ListsInv

LEMMA AfterFacts ==
  ASSUME ListsInv, NEW l \in Lists, NEW e \in ToSet(lst[l].els)
  PROVE  After(l, e) = NoEl \/ After(l, e) \in ToSet(lst[l].els)
<1>1. lst[l].els \in Seq(Els)
  BY ListFacts
<1>2. PICK i : i = Position(lst[l].els, e)
  OBVIOUS
<1>3. i \in 1..Len(lst[l].els) /\ Len(lst[l].els) \in Nat /\ DOMAIN lst[l].els = 1..Len(lst[l].els)
  BY <1>1, <1>2, PositionFacts, LenProperties
<1>4. i # Len(lst[l].els) => i + 1 \in DOMAIN lst[l].els
  BY <1>3
<1> QED
  BY <1>2, <1>4 DEF After, ToSet

LEMMA BeforeFacts ==
  ASSUME ListsInv, NEW l \in Lists, NEW e \in ToSet(lst[l].els)
  PROVE  Before(l, e) = NoEl \/ (Before(l, e) \in ToSet(lst[l].els) /\ Before(l, e) # e)
<1>1. lst[l].els \in Seq(Els) /\ IsInjective(lst[l].els)
  BY ListFacts
<1>2. PICK i : i = Position(lst[l].els, e)
  OBVIOUS
<1>3. i \in 1..Len(lst[l].els) /\ Len(lst[l].els) \in Nat /\ DOMAIN lst[l].els = 1..Len(lst[l].els)
      /\ lst[l].els[i] = e
  BY <1>1, <1>2, PositionFacts, LenProperties
<1>4. i # 1 => i - 1 \in DOMAIN lst[l].els /\ i - 1 # i
  BY <1>3
<1>5. i # 1 => lst[l].els[i - 1] # lst[l].els[i]
  BY <1>1, <1>3, <1>4 DEF IsInjective
<1> QED
  BY <1>2, <1>3, <1>4, <1>5 DEF Before, ToSet

LEMMA WalksStep ==
  ASSUME ListsInv, NEW l \in Lists, UNCHANGED clientvars,
         LstK_MoveReset(l) \/ LstK_MoveNext(l) \/ \E e \in Els : LstK_FindByVidPid(l, e)
  PROVE  ListsInv'
<1>1. lst \in [Lists -> ListRecs] /\ lst[l].els \in Seq(Els)
  BY DEF ListsInv, ListsTypes, ListRecs
<1>2. CASE LstK_MoveReset(l)
  BY <1>2, WalkStep DEF LstK_MoveReset
<1>3. CASE LstK_MoveNext(l)
  <2>1. PICK c : c = IF lst[l].started
                     THEN IF lst[l].cursor = NoEl THEN NoEl ELSE After(l, lst[l].cursor)
                     ELSE IF lst[l].els = <<>> THEN NoEl ELSE Head(lst[l].els)
    OBVIOUS
  <2>2. lst' = [lst EXCEPT ![l].started = TRUE, ![l].cursor = c] /\ UNCHANGED el
    BY <1>3, <2>1 DEF LstK_MoveNext
  <2>3. lst' = [lst EXCEPT ![l].cursor = c, ![l].started = TRUE]
    BY <1>1, <2>2 DEF ListRecs
  <2>4. lst[l].cursor = NoEl \/ lst[l].cursor \in ToSet(lst[l].els)
    BY ListFacts
  <2>5. lst[l].els # <<>> => Head(lst[l].els) \in ToSet(lst[l].els)
    <3>1. lst[l].els # <<>> => Head(lst[l].els) = lst[l].els[1] /\ 1 \in DOMAIN lst[l].els
      BY <1>1
    <3> QED
      BY <3>1 DEF ToSet
  <2>6. c = NoEl \/ c \in ToSet(lst[l].els)
    BY <2>1, <2>4, <2>5, AfterFacts
  <2> QED
    BY <2>2, <2>3, <2>6, WalkStep
<1>4. ASSUME NEW e \in Els, LstK_FindByVidPid(l, e) PROVE ListsInv'
  BY <1>4, WalkStep DEF LstK_FindByVidPid
<1> QED
  BY <1>2, <1>3, <1>4

LEMMA WithoutFacts ==
  ASSUME NEW S, NEW s \in Seq(S), NEW e, IsInjective(s)
  PROVE  Without(s, e) \in Seq(S) /\ IsInjective(Without(s, e)) /\ ToSet(Without(s, e)) = ToSet(s) \ {e}
<1>1. PICK I : I = {i \in DOMAIN s : s[i] # e}
  OBVIOUS
<1>2. I \in SUBSET (DOMAIN s)
  BY <1>1
<1>3. Without(s, e) = Picked(s, I)
  BY <1>1 DEF Without
<1>4. ToSet(s) \ {e} = {s[i] : i \in I}
  BY <1>1 DEF ToSet
<1> QED
  BY <1>2, <1>3, <1>4, PickedFacts

LEMMA DetachStep ==
  ASSUME ListsInv, NEW l \in Lists, NEW e \in Els, LstK_DetachInfo(l, e), UNCHANGED clientvars
  PROVE  ListsInv'
<1>1. ListsTypes /\ ListShape /\ lst \in [Lists -> ListRecs] /\ el \in [Els -> Infos]
  BY DEF ListsInv, ListsTypes
<1>2. lst[l].live /\ el[e].owner = l /\ l # NoList
  BY ListsAssumption DEF LstK_DetachInfo
<1>3. PICK t, c : t = Without(lst[l].els, e) /\ c = CursorWithout(l, e)
  OBVIOUS
<1>4. lst' = [lst EXCEPT ![l].els = t, ![l].cursor = c]
  BY <1>1, <1>3 DEF LstK_DetachInfo, ListRecs
<1>5. el' = [el EXCEPT ![e].owner = NoList]
  BY DEF LstK_DetachInfo
<1>6. e \in ToSet(lst[l].els) /\ lst[l].els \in Seq(Els)
  BY <1>2, ListFacts
<1>7. t \in Seq(Els) /\ IsInjective(t) /\ ToSet(t) = ToSet(lst[l].els) \ {e}
  BY <1>3, <1>6, ListFacts, WithoutFacts
<1>8. c = NoEl \/ c \in ToSet(t)
  <2>1. CASE lst[l].cursor = e
    BY <1>3, <1>6, <1>7, <2>1, BeforeFacts DEF CursorWithout
  <2>2. CASE lst[l].cursor # e
    <3>1. c = lst[l].cursor
      BY <1>3, <2>2 DEF CursorWithout
    <3> QED
      BY <1>7, <2>2, <3>1, ListFacts
  <2> QED
    BY <2>1, <2>2
<1>9. lst'[l].els = t /\ lst'[l].cursor = c /\ lst'[l].live
  BY <1>1, <1>2, <1>4 DEF ListRecs
<1>10. \A k \in Lists \ {l} : lst'[k] = lst[k]
  BY <1>1, <1>4
<1>11. ListsTypes'
  <2>1. c \in Els \cup {NoEl}
    BY <1>7, <1>8, ListFacts
  <2>2. lst' \in [Lists -> ListRecs]
    BY <1>1, <1>4, <1>7, <2>1 DEF ListRecs
  <2>3. el' \in [Els -> Infos]
    BY <1>1, <1>5 DEF Infos
  <2>4. Exported' = Exported /\ exported' = exported
    BY DEF Exported, clientvars
  <2> QED
    BY <1>1, <2>2, <2>3, <2>4 DEF ListsTypes
<1>12. FreedIsEmpty'
  BY <1>9, <1>10 DEF ListsInv, FreedIsEmpty
<1>13. ListShape'
  <2>1. \A f \in Els \ {e} : el'[f] = el[f]
    BY <1>1, <1>5
  <2>2. el'[e].owner = NoList
    BY <1>1, <1>5 DEF Infos
  <2>3. \A f \in ToSet(t) : el'[f].live /\ el'[f].owner = l
    BY <1>7, <2>1, ListFacts
  <2>4. \A f \in Els \ ToSet(t) : el'[f].owner # l
    BY <1>2, <1>7, <2>1, <2>2, ListFacts
  <2>5. \A f \in Els : el[f].owner \in Lists \ {l} => el'[f].live = el[f].live /\ el'[f].owner = el[f].owner
    BY <1>2, <2>1
  <2>6. \A f \in Els : el'[f].owner \notin {l, NoList} => el[f].owner = el'[f].owner
    BY <2>1, <2>2
  <2>7. \A f \in Els : el'[f].owner \in Lists \cup {NoList}
    BY <1>11 DEF ListsTypes, Infos
  <2> QED
    BY <1>1, <1>7, <1>8, <1>9, <1>10, <2>3, <2>4, <2>5, <2>6, <2>7, Relisted
<1> QED
  BY <1>11, <1>12, <1>13 DEF ListsInv

LEMMA AttachStep ==
  ASSUME ListsInv, NEW l \in Lists, NEW e \in Els, LstK_AttachInfo(l, e), UNCHANGED clientvars
  PROVE  ListsInv'
<1>1. ListsTypes /\ ListShape /\ lst \in [Lists -> ListRecs] /\ el \in [Els -> Infos]
  BY DEF ListsInv, ListsTypes
<1>2. lst[l].live /\ el[e].live /\ el[e].owner = NoList /\ l # NoList
  BY ListsAssumption DEF LstK_AttachInfo, MayAttach
<1>3. PICK t : t = Append(lst[l].els, e)
  OBVIOUS
<1>4. lst' = [lst EXCEPT ![l].els = t] /\ el' = [el EXCEPT ![e].owner = l]
  BY <1>3 DEF LstK_AttachInfo
<1>5. lst[l].els \in Seq(Els) /\ e \notin ToSet(lst[l].els) /\ IsInjective(lst[l].els)
  BY <1>2, ListFacts
<1>6. t \in Seq(Els) /\ ToSet(t) = ToSet(lst[l].els) \cup {e} /\ IsInjective(t)
  <2>1. /\ t \in Seq(Els) /\ Len(t) = Len(lst[l].els) + 1 /\ t[Len(lst[l].els) + 1] = e
        /\ \A i \in 1..Len(lst[l].els) : t[i] = lst[l].els[i]
    BY <1>3, <1>5, AppendProperties
  <2>2. PICK n \in Nat : n = Len(lst[l].els)
    BY <1>5, LenProperties
  <2>3. DOMAIN lst[l].els = 1..n /\ DOMAIN t = 1..(n + 1) /\ 1..(n + 1) = (1..n) \cup {n + 1}
    BY <1>5, <2>1, <2>2, LenProperties
  <2>4. \A i \in 1..n : t[i] \in ToSet(lst[l].els) /\ t[i] = lst[l].els[i]
    BY <2>1, <2>2, <2>3 DEF ToSet
  <2>5. t[n + 1] = e
    BY <2>1, <2>2
  <2>6. ToSet(t) = ToSet(lst[l].els) \cup {e}
    <3>1. ToSet(t) = {t[i] : i \in 1..n} \cup {t[n + 1]}
      BY <2>3 DEF ToSet
    <3>2. {t[i] : i \in 1..n} = ToSet(lst[l].els)
      BY <2>3, <2>4 DEF ToSet
    <3> QED
      BY <2>5, <3>1, <3>2
  <2>7. \A i, j \in 1..(n + 1) : t[i] = t[j] => i = j
    <3>1. \A i, j \in 1..n : t[i] = t[j] => i = j
      BY <1>5, <2>3, <2>4 DEF IsInjective
    <3>2. \A i \in 1..n : t[i] # e
      BY <1>5, <2>4
    <3> QED
      BY <2>3, <2>5, <3>1, <3>2
  <2> QED
    BY <2>1, <2>3, <2>6, <2>7 DEF IsInjective
<1>7. lst'[l].els = t /\ lst'[l].cursor = lst[l].cursor /\ lst'[l].live
  BY <1>1, <1>2, <1>4 DEF ListRecs
<1>8. \A k \in Lists \ {l} : lst'[k] = lst[k]
  BY <1>1, <1>4
<1>9. ListsTypes'
  <2>1. lst' \in [Lists -> ListRecs]
    BY <1>1, <1>4, <1>6 DEF ListRecs
  <2>2. el' \in [Els -> Infos]
    BY <1>1, <1>4 DEF Infos
  <2>3. Exported' = Exported /\ exported' = exported
    BY DEF Exported, clientvars
  <2> QED
    BY <1>1, <2>1, <2>2, <2>3 DEF ListsTypes
<1>10. FreedIsEmpty'
  BY <1>7, <1>8 DEF ListsInv, FreedIsEmpty
<1>11. ListShape'
  <2>1. \A f \in Els \ {e} : el'[f] = el[f]
    BY <1>1, <1>4
  <2>2. el'[e].owner = l /\ el'[e].live
    BY <1>1, <1>2, <1>4 DEF Infos
  <2>3. \A f \in ToSet(t) : el'[f].live /\ el'[f].owner = l
    BY <1>6, <2>1, <2>2, ListFacts
  <2>4. \A f \in Els \ ToSet(t) : el'[f].owner # l
    BY <1>6, <2>1, ListFacts
  <2>5. \A f \in Els : el[f].owner \in Lists \ {l} => el'[f].live = el[f].live /\ el'[f].owner = el[f].owner
    BY <1>2, <2>1, ListsAssumption
  <2>6. \A f \in Els : el'[f].owner \notin {l, NoList} => el[f].owner = el'[f].owner
    BY <2>1, <2>2
  <2>7. \A f \in Els : el'[f].owner \in Lists \cup {NoList}
    BY <1>9 DEF ListsTypes, Infos
  <2>8. lst'[l].cursor = NoEl \/ lst'[l].cursor \in ToSet(lst'[l].els)
    BY <1>6, <1>7, ListFacts
  <2> QED
    BY <1>1, <1>6, <1>7, <1>8, <2>3, <2>4, <2>5, <2>6, <2>7, <2>8, Relisted
<1> QED
  BY <1>9, <1>10, <1>11 DEF ListsInv

\* Infos outside of the lists are made and freed.
LEMMA LooseStep ==
  ASSUME ListsInv, NEW e \in Els, NEW x \in Infos, x.owner = NoList, el[e].owner = NoList,
         el' = [el EXCEPT ![e] = x], UNCHANGED lst, UNCHANGED clientvars
  PROVE  ListsInv'
<1>1. ListsTypes /\ ListShape /\ lst \in [Lists -> ListRecs] /\ el \in [Els -> Infos]
  BY DEF ListsInv, ListsTypes
<1>2. \A f \in Els \ {e} : el'[f] = el[f]
  BY <1>1
<1>3. el'[e] = x
  BY <1>1
<1>4. ListsTypes' /\ FreedIsEmpty'
  BY <1>1 DEF ListsInv, ListsTypes, FreedIsEmpty, Exported, clientvars
<1>5. ListShape'
  <2>1. \A l \in Lists : e \notin ToSet(lst[l].els) /\ ToSet(lst[l].els) \subseteq Els
    BY ListFacts, ListsAssumption
  <2> QED
    BY <1>1, <1>2, <1>3, <2>1 DEF ListShape
<1> QED
  BY <1>4, <1>5 DEF ListsInv

LEMMA InfoSteps ==
  ASSUME ListsInv, NEW e \in Els, LstK_FreeInfo(e) \/ \E c \in Els : LstK_CloneInfo(e, c), UNCHANGED clientvars
  PROVE  ListsInv'
<1>1. el \in [Els -> Infos]
  BY DEF ListsInv, ListsTypes
<1>2. CASE LstK_FreeInfo(e)
  <2>1. NoInfo \in Infos /\ NoInfo.owner = NoList
    BY DEF NoInfo, Infos
  <2> QED
    BY <1>2, <2>1, LooseStep DEF LstK_FreeInfo
<1>3. ASSUME NEW c \in Els, LstK_CloneInfo(e, c) PROVE ListsInv'
  <2>1. PICK x : x = [el[e] EXCEPT !.owner = NoList]
    OBVIOUS
  <2>2. x \in Infos /\ x.owner = NoList
    BY <1>1, <2>1 DEF Infos
  <2>3. ~el[c].live
    BY <1>3 DEF LstK_CloneInfo, Spare
  <2>4. el[c].owner = NoList
    <3>1. el[c].owner \in Lists => el[c].live
      BY ListFacts
    <3> QED
      BY <1>1, <2>3, <3>1 DEF Infos
  <2> QED
    BY <1>3, <2>1, <2>2, <2>4, LooseStep DEF LstK_CloneInfo
<1> QED
  BY <1>2, <1>3

-----------------------------------------------------------------------------
(* Sync.                                                                   *)

\* What a sync makes of an info of the list: it is connected if its device is exported.
LEMMA MarkedFacts ==
  ASSUME ListsInv, NEW e \in Els
  PROVE  /\ Marked(e, Snapshot) \in Infos
         /\ Marked(e, Snapshot).live = el[e].live /\ Marked(e, Snapshot).owner = el[e].owner
         /\ Marked(e, Snapshot).busid = el[e].busid
         /\ Marked(e, Snapshot).connected <=> el[e].busid \in Exported
         /\ Marked(e, Snapshot).sync # "removed" <=> el[e].busid \in Exported
<1>1. el \in [Els -> Infos] /\ IsFiniteSet(Exported)
  BY DEF ListsInv, ListsTypes
<1>2. (\A i \in DOMAIN Snapshot : Snapshot[i].busid # el[e].busid) <=> el[e].busid \notin Exported
  <2>1. {x.busid : x \in ToSet(Snapshot)} = Exported
    BY <1>1, SnapshotFacts
  <2> QED
    BY <2>1 DEF ToSet
<1>3. PICK x : x = el[e]
  OBVIOUS
<1>4. x \in Infos
  BY <1>1, <1>3
<1>5. Marked(e, Snapshot) = IF x.busid \notin Exported THEN [x EXCEPT !.sync = "removed", !.connected = FALSE]
                            ELSE IF ~x.connected THEN [x EXCEPT !.sync = "connect_change", !.connected = TRUE]
                            ELSE [x EXCEPT !.sync = "unchanged"]
  BY <1>2, <1>3 DEF Marked
<1>6. CASE x.busid \notin Exported
  BY <1>3, <1>4, <1>5, <1>6 DEF Infos
<1>7. CASE x.busid \in Exported /\ ~x.connected
  BY <1>3, <1>4, <1>5, <1>7 DEF Infos
<1>8. CASE x.busid \in Exported /\ x.connected
  BY <1>3, <1>4, <1>5, <1>8 DEF Infos
<1> QED
  BY <1>6, <1>7, <1>8

\* The lists after a sync that keeps kept and adds s.
Synced(m, drop, kept, s) ==
  /\ kept \in Seq(Els) /\ IsInjective(kept)
  /\ ToSet(kept) = {e \in ToSet(lst[m].els) : ~drop \/ el[e].busid \in Exported}
  /\ s \in Seq(Els) /\ IsInjective(s) /\ ToSet(s) \subseteq Spare
  /\ lst[m].live /\ lst'[m].live
  /\ lst'[m].els = kept \o s /\ lst'[m].cursor = NoEl
  /\ lst' \in [Lists -> ListRecs] /\ el' \in [Els -> Infos]
  /\ \A l \in Lists \ {m} : lst'[l] = lst[l]
  /\ \A e \in ToSet(kept) : /\ el'[e].live /\ el'[e].owner = m /\ el'[e].busid = el[e].busid
                            /\ el'[e].connected <=> el[e].busid \in Exported
  /\ \A e \in ToSet(s) : el'[e].live /\ el'[e].owner = m /\ el'[e].connected
  /\ \A e, f \in ToSet(s) : el'[e].busid = el'[f].busid => e = f
  /\ {el'[e].busid : e \in ToSet(s)} = Exported \ Ids(m)
  /\ \A e \in ToSet(lst[m].els) \ ToSet(kept) : el'[e].owner = NoList
  /\ \A e \in Els : e \notin ToSet(lst[m].els) /\ e \notin ToSet(s) => el'[e] = el[e]

LEMMA SyncFacts ==
  ASSUME ListsInv, NEW m \in Lists, NEW drop \in BOOLEAN, LstK_Sync(m, drop)
  PROVE  \E kept, s : Synced(m, drop, kept, s)
<1>1. ListsTypes /\ lst \in [Lists -> ListRecs] /\ el \in [Els -> Infos] /\ IsFiniteSet(Exported)
  BY DEF ListsInv, ListsTypes
<1>2. PICK J, K : /\ J = {i \in DOMAIN Snapshot : Snapshot[i].busid \notin Known(m)}
                  /\ K = {i \in DOMAIN lst[m].els :
                            ~drop \/ [e \in Els |-> IF e \in ToSet(lst[m].els) THEN Marked(e, Snapshot) ELSE el[e]]
                                        [lst[m].els[i]].sync # "removed"}
  OBVIOUS
<1>3. PICK added, kept : added = Picked(Snapshot, J) /\ kept = Picked(lst[m].els, K)
  OBVIOUS
<1>4. PICK s : s = Allocated(Len(added))
  OBVIOUS
<1>5. PICK mark : mark = [e \in Els |-> IF e \in ToSet(lst[m].els) THEN Marked(e, Snapshot) ELSE el[e]]
  OBVIOUS
<1>6. /\ lst[m].live /\ Cardinality(Spare) >= Len(added)
      /\ lst' = [lst EXCEPT ![m].els = kept \o s, ![m].cursor = NoEl, ![m].started = FALSE]
      /\ el' = [e \in Els |->
           IF e \in ToSet(s) THEN [added[Position(s, e)] EXCEPT !.owner = m, !.sync = "added"]
           ELSE IF e \in ToSet(lst[m].els) \ ToSet(kept) THEN NoInfo ELSE mark[e]]
  BY <1>2, <1>3, <1>4, <1>5 DEF LstK_Sync
<1>7. /\ lst[m].els \in Seq(Els) /\ ToSet(lst[m].els) \subseteq Els /\ IsInjective(lst[m].els)
      /\ \A e \in ToSet(lst[m].els) : el[e].live /\ el[e].owner = m
  BY ListFacts
<1>8. K = {i \in DOMAIN lst[m].els : ~drop \/ el[lst[m].els[i]].busid \in Exported}
  <2>1. \A i \in DOMAIN lst[m].els : lst[m].els[i] \in ToSet(lst[m].els)
    BY DEF ToSet
  <2>2. \A i \in DOMAIN lst[m].els : mark[lst[m].els[i]] = Marked(lst[m].els[i], Snapshot)
    BY <1>5, <1>7, <2>1
  <2>3. \A i \in DOMAIN lst[m].els : mark[lst[m].els[i]].sync # "removed" <=> el[lst[m].els[i]].busid \in Exported
    BY <1>7, <2>1, <2>2, MarkedFacts
  <2> QED
    BY <1>2, <1>5, <2>3
<1>9. /\ kept \in Seq(Els) /\ IsInjective(kept)
      /\ ToSet(kept) = {e \in ToSet(lst[m].els) : ~drop \/ el[e].busid \in Exported}
  <2>1. K \in SUBSET (DOMAIN lst[m].els)
    BY <1>8
  <2>2. kept \in Seq(Els) /\ IsInjective(kept) /\ ToSet(kept) = {lst[m].els[i] : i \in K}
    BY <1>3, <1>7, <2>1, PickedFacts
  <2>3. {lst[m].els[i] : i \in K} = {e \in ToSet(lst[m].els) : ~drop \/ el[e].busid \in Exported}
    BY <1>8 DEF ToSet
  <2> QED
    BY <2>2, <2>3
<1>10. /\ added \in Seq(Infos) /\ IsInjective(added)
       /\ ToSet(added) = {x \in ToSet(Snapshot) : x.busid \notin Ids(m)}
  <2>1. J \in SUBSET (DOMAIN Snapshot) /\ Snapshot \in Seq(Infos) /\ IsInjective(Snapshot)
    BY <1>1, <1>2, SnapshotFacts
  <2>2. added \in Seq(Infos) /\ IsInjective(added) /\ ToSet(added) = {Snapshot[i] : i \in J}
    BY <1>3, <2>1, PickedFacts
  <2>3. {Snapshot[i] : i \in J} = {x \in ToSet(Snapshot) : x.busid \notin Ids(m)}
    BY <1>2 DEF ToSet, Known
  <2> QED
    BY <2>2, <2>3
<1>11. Len(added) \in Nat /\ DOMAIN added = 1..Len(added)
  BY <1>10, LenProperties
<1>12. /\ s \in Seq(Els) /\ DOMAIN s = DOMAIN added /\ IsInjective(s) /\ ToSet(s) \subseteq Spare
  <2>1. IsFiniteSet(Spare)
    <3>1. Spare \subseteq Els
      BY DEF Spare
    <3> QED
      BY <3>1, ListsAssumption, FS_Subset
  <2>2. Cardinality(Spare) \in Nat
    BY <2>1, FS_CardinalityType
  <2>3. Len(added) <= Cardinality(Spare)
    BY <1>6, <1>11, <2>2
  <2> QED
    BY <1>1, <1>4, <1>11, <2>3, AllocatedFacts
<1>13. ASSUME NEW e \in ToSet(s)
       PROVE  \E x \in ToSet(added) : /\ x = added[Position(s, e)]
                                      /\ el'[e] \in Infos /\ el'[e].live /\ el'[e].connected
                                      /\ el'[e].owner = m /\ el'[e].busid = x.busid
  <2>1. Position(s, e) \in DOMAIN added
    BY <1>12, PositionFacts
  <2>2. PICK x \in ToSet(added) : x = added[Position(s, e)]
    BY <2>1 DEF ToSet
  <2>3. x \in Infos /\ x.live /\ x.connected
    BY <1>1, <1>10, <2>2, SnapshotFacts, ElementsOf
  <2>4. e \in Els
    BY <1>12 DEF Spare
  <2>5. el'[e] = [x EXCEPT !.owner = m, !.sync = "added"]
    BY <1>6, <2>2, <2>4
  <2>6. el'[e] \in Infos /\ el'[e].live /\ el'[e].connected /\ el'[e].owner = m /\ el'[e].busid = x.busid
    BY <2>3, <2>5 DEF Infos
  <2> QED
    BY <2>2, <2>6
<1>14. \A e \in ToSet(lst[m].els) : e \notin ToSet(s)
  BY <1>7, <1>12 DEF Spare
<1>15. \A e \in ToSet(kept) : /\ el'[e] = Marked(e, Snapshot) /\ e \in ToSet(lst[m].els) /\ e \in Els
  BY <1>5, <1>6, <1>7, <1>9, <1>14
<1>16. \A e \in ToSet(lst[m].els) \ ToSet(kept) : el'[e] = NoInfo
  BY <1>6, <1>7, <1>14
<1>17. \A e \in Els : e \notin ToSet(lst[m].els) /\ e \notin ToSet(s) => el'[e] = el[e]
  BY <1>5, <1>6
<1>18. NoInfo \in Infos /\ NoInfo.owner = NoList
  BY DEF NoInfo, Infos
<1>19. el' \in [Els -> Infos]
  <2>1. \A e \in Els : el'[e] \in Infos
    BY <1>1, <1>13, <1>15, <1>16, <1>17, <1>18, MarkedFacts
  <2>2. el' = [e \in Els |-> el'[e]]
    BY <1>6
  <2> QED
    BY <2>1, <2>2
<1>20. /\ lst' \in [Lists -> ListRecs] /\ lst'[m].els = kept \o s /\ lst'[m].cursor = NoEl /\ lst'[m].live
       /\ \A l \in Lists \ {m} : lst'[l] = lst[l]
  <2>1. PICK t : t = kept \o s
    OBVIOUS
  <2>2. t \in Seq(Els)
    BY <1>9, <1>12, <2>1, ConcatProperties
  <2>3. lst' = [lst EXCEPT ![m].els = t, ![m].cursor = NoEl, ![m].started = FALSE]
    BY <1>6, <2>1
  <2>4. lst' \in [Lists -> ListRecs]
    BY <1>1, <2>2, <2>3 DEF ListRecs
  <2>5. lst'[m].els = t /\ lst'[m].cursor = NoEl /\ lst'[m].live
    <3>1. PICK q : q = lst[m]
      OBVIOUS
    <3>2. q \in ListRecs /\ q.live
      BY <1>1, <1>6, <3>1
    <3>3. PICK r : r = [q EXCEPT !.els = t, !.cursor = NoEl, !.started = FALSE]
      OBVIOUS
    <3>4. r.els = t /\ r.cursor = NoEl /\ r.live
      BY <3>2, <3>3 DEF ListRecs
    <3>5. lst'[m] = r
      BY <1>1, <2>3, <3>1, <3>3 DEF ListRecs
    <3> QED
      BY <3>4, <3>5
  <2>6. \A l \in Lists \ {m} : lst'[l] = lst[l]
    BY <1>1, <2>3
  <2> QED
    BY <2>1, <2>4, <2>5, <2>6
<1>21. {el'[e].busid : e \in ToSet(s)} = Exported \ Ids(m)
  <2>1. {x.busid : x \in ToSet(added)} = Exported \ Ids(m)
    <3>1. {x.busid : x \in ToSet(Snapshot)} = Exported
      BY <1>1, SnapshotFacts
    <3>2. {x.busid : x \in ToSet(added)} \subseteq Exported \ Ids(m)
      BY <1>10, <3>1
    <3>3. \A b \in Exported \ Ids(m) : \E x \in ToSet(added) : x.busid = b
      BY <1>10, <3>1
    <3> QED
      BY <3>2, <3>3
  <2>2. {el'[e].busid : e \in ToSet(s)} \subseteq {x.busid : x \in ToSet(added)}
    BY <1>13
  <2>3. ASSUME NEW x \in ToSet(added) PROVE \E e \in ToSet(s) : el'[e].busid = x.busid
    <3>1. PICK i \in DOMAIN added : added[i] = x
      BY DEF ToSet
    <3>2. s[i] \in ToSet(s)
      BY <1>12, <3>1 DEF ToSet
    <3>3. Position(s, s[i]) = i
      BY <1>12, <3>1, <3>2, PositionFacts DEF IsInjective
    <3> QED
      BY <1>13, <3>1, <3>2, <3>3
  <2> QED
    BY <2>1, <2>2, <2>3
<1>22. ASSUME NEW e \in ToSet(s), NEW f \in ToSet(s), el'[e].busid = el'[f].busid PROVE e = f
  <2>1. PICK x \in ToSet(added) : x = added[Position(s, e)] /\ el'[e].busid = x.busid
    BY <1>13
  <2>2. PICK y \in ToSet(added) : y = added[Position(s, f)] /\ el'[f].busid = y.busid
    BY <1>13
  <2>3. x = y
    BY <1>1, <1>10, <1>22, <2>1, <2>2, SnapshotFacts
  <2>4. Position(s, e) \in DOMAIN added /\ Position(s, f) \in DOMAIN added
        /\ s[Position(s, e)] = e /\ s[Position(s, f)] = f
    BY <1>12, PositionFacts
  <2>5. Position(s, e) = Position(s, f)
    BY <1>10, <2>1, <2>2, <2>3, <2>4 DEF IsInjective
  <2> QED
    BY <2>4, <2>5
<1>23. \A e \in ToSet(kept) : /\ el'[e].live /\ el'[e].owner = m /\ el'[e].busid = el[e].busid
                              /\ el'[e].connected <=> el[e].busid \in Exported
  BY <1>7, <1>15, MarkedFacts
<1>24. Synced(m, drop, kept, s)
  BY <1>6, <1>9, <1>12, <1>13, <1>16, <1>17, <1>18, <1>19, <1>20, <1>21, <1>22, <1>23 DEF Synced
<1> QED
  BY <1>24

LEMMA Concatenated ==
  ASSUME NEW S, NEW s \in Seq(S), NEW t \in Seq(S)
  PROVE  /\ ToSet(s \o t) = ToSet(s) \cup ToSet(t) /\ s \o t \in Seq(S)
         /\ IsInjective(s) /\ IsInjective(t) /\ ToSet(s) \cap ToSet(t) = {} => IsInjective(s \o t)
<1>1. PICK u : u = s \o t
  OBVIOUS
<1>2. PICK j \in Nat, k \in Nat : j = Len(s) /\ k = Len(t)
  BY LenProperties
<1>3. /\ u \in Seq(S) /\ Len(u) = j + k
      /\ \A i \in 1..(j + k) : u[i] = IF i <= j THEN s[i] ELSE t[i - j]
  BY <1>1, <1>2, ConcatProperties
<1>4. DOMAIN s = 1..j /\ DOMAIN t = 1..k /\ DOMAIN u = 1..(j + k)
  BY <1>2, <1>3, LenProperties
<1>5. \A i \in 1..j : i \in 1..(j + k) /\ u[i] = s[i]
  BY <1>2, <1>3
<1>6. \A i \in 1..k : i + j \in 1..(j + k) /\ u[i + j] = t[i]
  <2>1. \A i \in 1..k : i + j \in 1..(j + k) /\ ~(i + j <= j) /\ (i + j) - j = i
    BY <1>2
  <2> QED
    BY <1>3, <2>1
<1>7. \A i \in 1..(j + k) : i \in 1..j \/ (i - j \in 1..k /\ (i - j) + j = i)
  BY <1>2
<1>8. \A i \in 1..(j + k) : (i \in 1..j /\ u[i] = s[i]) \/ (i - j \in 1..k /\ u[i] = t[i - j])
  BY <1>5, <1>6, <1>7
<1>9. ToSet(u) = ToSet(s) \cup ToSet(t)
  <2>1. ToSet(u) \subseteq ToSet(s) \cup ToSet(t)
    BY <1>4, <1>8 DEF ToSet
  <2>2. ToSet(s) \subseteq ToSet(u)
    BY <1>4, <1>5 DEF ToSet
  <2>3. ToSet(t) \subseteq ToSet(u)
    BY <1>4, <1>6 DEF ToSet
  <2> QED
    BY <2>1, <2>2, <2>3
<1>10. ASSUME IsInjective(s), IsInjective(t), ToSet(s) \cap ToSet(t) = {} PROVE IsInjective(u)
  <2>1. /\ \A h, i \in 1..j : s[h] = s[i] => h = i
        /\ \A h, i \in 1..k : t[h] = t[i] => h = i
    BY <1>4, <1>10 DEF IsInjective
  <2>2. \A h \in 1..j, i \in 1..k : s[h] # t[i]
    BY <1>4, <1>10 DEF ToSet
  <2>3. ASSUME NEW h \in 1..(j + k), NEW i \in 1..(j + k), u[h] = u[i] PROVE h = i
    <3>1. CASE h \in 1..j
      BY <1>5, <1>8, <2>1, <2>2, <2>3, <3>1
    <3>2. CASE h - j \in 1..k /\ u[h] = t[h - j]
      <4>1. ~(i \in 1..j /\ u[i] = s[i])
        BY <2>2, <2>3, <3>2
      <4>2. h - j = i - j
        BY <1>8, <2>1, <2>3, <3>2, <4>1
      <4> QED
        BY <1>2, <4>2
    <3> QED
      BY <1>8, <3>1, <3>2
  <2> QED
    BY <1>4, <2>3 DEF IsInjective
<1> QED
  BY <1>1, <1>3, <1>9, <1>10

LEMMA SyncStep ==
  ASSUME ListsInv, NEW m \in Lists, NEW drop \in BOOLEAN, LstK_Sync(m, drop), UNCHANGED clientvars
  PROVE  ListsInv'
<1>1. PICK kept, s : Synced(m, drop, kept, s)
  BY SyncFacts
<1>2. ListsTypes /\ ListShape /\ lst \in [Lists -> ListRecs] /\ el \in [Els -> Infos]
  BY DEF ListsInv, ListsTypes
<1>3. /\ kept \in Seq(Els) /\ IsInjective(kept) /\ ToSet(kept) \subseteq ToSet(lst[m].els)
      /\ s \in Seq(Els) /\ IsInjective(s) /\ ToSet(s) \subseteq Spare
      /\ lst'[m].els = kept \o s
  BY <1>1 DEF Synced
<1>4. /\ lst' \in [Lists -> ListRecs] /\ el' \in [Els -> Infos]
      /\ \A l \in Lists \ {m} : lst'[l] = lst[l]
      /\ lst'[m].live /\ lst'[m].cursor = NoEl
  BY <1>1 DEF Synced
<1>5. /\ \A e \in ToSet(kept) : el'[e].live /\ el'[e].owner = m
      /\ \A e \in ToSet(s) : el'[e].live /\ el'[e].owner = m
      /\ \A e \in ToSet(lst[m].els) \ ToSet(kept) : el'[e].owner = NoList
      /\ \A e \in Els : e \notin ToSet(lst[m].els) /\ e \notin ToSet(s) => el'[e] = el[e]
  BY <1>1 DEF Synced
<1>6. \A e \in ToSet(lst[m].els) : el[e].live /\ el[e].owner = m
  BY ListFacts
<1>7. \A e \in ToSet(s) : ~el[e].live /\ e \in Els
  BY <1>3 DEF Spare
<1>8. ToSet(kept) \cap ToSet(s) = {}
  BY <1>3, <1>6, <1>7
<1>9. /\ ToSet(lst'[m].els) = ToSet(kept) \cup ToSet(s)
      /\ IsInjective(lst'[m].els) /\ lst'[m].els \in Seq(Els)
  BY <1>3, <1>8, Concatenated
<1>10. ListsTypes'
  <2>1. Exported' = Exported /\ exported' = exported
    BY DEF Exported, clientvars
  <2> QED
    BY <1>2, <1>4, <2>1 DEF ListsTypes
<1>11. FreedIsEmpty'
  BY <1>4 DEF ListsInv, FreedIsEmpty
<1>12. ListShape'
  <2>1. m # NoList /\ \A e \in Els : el[e].owner = m => e \in ToSet(lst[m].els)
    BY ListsAssumption, ListFacts
  <2>2. \A e \in Els : el[e].owner \in Lists => el[e].live
    BY ListFacts
  <2>3. \A e \in Els \ ToSet(lst'[m].els) : el'[e].owner # m
    BY <1>5, <1>9, <2>1
  <2>4. \A e \in Els : el[e].owner \in Lists \ {m} => el'[e].live = el[e].live /\ el'[e].owner = el[e].owner
    BY <1>5, <1>6, <1>7, <2>2
  <2>5. \A e \in Els : el'[e].owner \notin {m, NoList} => el[e].owner = el'[e].owner
    BY <1>5
  <2>6. \A e \in Els : el'[e].owner \in Lists \cup {NoList}
    BY <1>4 DEF Infos
  <2>7. \A e \in ToSet(lst'[m].els) : el'[e].live /\ el'[e].owner = m
    BY <1>5, <1>9
  <2> QED
    BY <1>2, <1>4, <1>9, <2>3, <2>4, <2>5, <2>6, <2>7, Relisted
<1> QED
  BY <1>10, <1>11, <1>12 DEF ListsInv

LEMMA ListsStep == ListsInv /\ [ListsNext \/ ListsServer]_<<clientvars, lkvars>> => ListsInv'
<1> SUFFICES ASSUME ListsInv, [ListsNext \/ ListsServer]_<<clientvars, lkvars>> PROVE ListsInv'
  OBVIOUS
<1>1. CASE ListsNext
  <2>1. UNCHANGED clientvars
    BY <1>1 DEF ListsNext
  <2>2. ASSUME NEW l \in Lists,
               \/ LstK_Init(l) \/ LstK_Free(l) \/ LstK_MoveReset(l) \/ LstK_MoveNext(l)
               \/ \E src \in Lists : LstK_Clone(src, l)
               \/ \E e \in Els : LstK_FindByVidPid(l, e) \/ LstK_DetachInfo(l, e) \/ LstK_AttachInfo(l, e)
               \/ \E drop \in BOOLEAN : LstK_Sync(l, drop)
        PROVE  ListsInv'
    BY <2>1, <2>2, InitStep, FreeListInfosStep, WalksStep, CloneStep, DetachStep, AttachStep, SyncStep
  <2>3. ASSUME NEW e \in Els, LstK_FreeInfo(e) \/ \E c \in Els : LstK_CloneInfo(e, c) PROVE ListsInv'
    BY <2>1, <2>3, InfoSteps
  <2> QED
    BY <1>1, <2>2, <2>3 DEF ListsNext
<1>2. CASE ListsServer
  <2>1. UNCHANGED lkvars
    BY <1>2 DEF ListsServer
  <2>2. IsFiniteSet(Exported')
    <3>1. PICK b \in Busids : Plug(b) \/ Unplug(b)
      BY <1>2 DEF ListsServer
    <3>2. PICK n : exported' = [exported EXCEPT ![b] = n]
      BY <3>1 DEF Plug, Unplug
    <3>3. \A c \in Busids \ {b} : exported'[c] # 0 => exported[c] # 0
      BY <3>2 DEF ListsInv, ListsTypes
    <3>4. Exported' \subseteq Exported \cup {b}
      BY <3>3 DEF Exported
    <3>5. IsFiniteSet(Exported \cup {b})
      BY FS_AddElement DEF ListsInv, ListsTypes
    <3> QED
      BY <3>4, <3>5, FS_Subset
  <2>3. exported' = [c \in Busids |-> exported'[c]]
    BY <1>2 DEF ListsServer, Plug, Unplug, ListsInv, ListsTypes
  <2>4. ListsTypes'
    BY <2>1, <2>2, <2>3 DEF ListsInv, ListsTypes, lkvars
  <2> QED
    BY <2>1, <2>4 DEF ListsInv, FreedIsEmpty, ListShape, lkvars
<1>3. CASE UNCHANGED <<clientvars, lkvars>>
  BY <1>3 DEF ListsInv, ListsTypes, FreedIsEmpty, ListShape, Exported, lkvars, clientvars
<1> QED
  BY <1>1, <1>2, <1>3

LEMMA OneAtMost ==
  ASSUME NEW S, IsFiniteSet(S)
  PROVE  Cardinality(S) <= 1 <=> \A x, y \in S : x = y
<1>1. Cardinality(S) \in Nat
  BY FS_CardinalityType
<1>2. ASSUME Cardinality(S) <= 1, NEW x \in S, NEW y \in S PROVE x = y
  <2>1. Cardinality(S) # 0
    BY FS_EmptySet
  <2>2. Cardinality(S) = 1
    BY <1>1, <1>2, <2>1
  <2> QED
    BY <2>2, FS_Singleton
<1>3. ASSUME \A x, y \in S : x = y PROVE Cardinality(S) <= 1
  <2>1. CASE S = {}
    BY <2>1, FS_EmptySet
  <2>2. CASE S # {}
    <3>1. PICK x \in S : TRUE
      BY <2>2
    <3>2. S = {x}
      BY <1>3, <3>1
    <3>3. Cardinality({x}) = 1
      BY FS_Singleton
    <3> QED
      BY <3>2, <3>3
  <2> QED
    BY <2>1, <2>2
<1> QED
  BY <1>2, <1>3

\* A sync leaves connected what is exported, and nothing twice that was not so before.
LEMMA SyncExactly ==
  ASSUME ListsInv, NEW m \in Lists, NEW drop \in BOOLEAN, LstK_Sync(m, drop)
  PROVE  /\ {el'[e].busid : e \in {d \in ToSet(lst'[m].els) : el'[d].connected}}
              = {b \in Busids : exported[b] # 0}
         /\ (\A b \in Busids : Cardinality({e \in ToSet(lst[m].els) : el[e].busid = b}) <= 1) =>
            \A b \in Busids : Cardinality({e \in ToSet(lst'[m].els) : el'[e].busid = b}) <= 1
<1>1. PICK kept, s : Synced(m, drop, kept, s)
  BY SyncFacts
<1>2. /\ kept \in Seq(Els) /\ s \in Seq(Els) /\ lst'[m].els = kept \o s
      /\ ToSet(kept) = {e \in ToSet(lst[m].els) : ~drop \/ el[e].busid \in Exported}
      /\ \A e \in ToSet(kept) : el'[e].busid = el[e].busid /\ (el'[e].connected <=> el[e].busid \in Exported)
      /\ \A e \in ToSet(s) : el'[e].connected
      /\ \A e, f \in ToSet(s) : el'[e].busid = el'[f].busid => e = f
      /\ {el'[e].busid : e \in ToSet(s)} = Exported \ Ids(m)
  BY <1>1 DEF Synced
<1>3. ToSet(lst'[m].els) = ToSet(kept) \cup ToSet(s)
  BY <1>2, Concatenated
<1>4. {el'[e].busid : e \in {d \in ToSet(lst'[m].els) : el'[d].connected}} = Exported
  <2>1. ASSUME NEW e \in ToSet(lst'[m].els), el'[e].connected PROVE el'[e].busid \in Exported
    BY <1>2, <1>3, <2>1
  <2>2. ASSUME NEW b \in Exported PROVE \E e \in ToSet(lst'[m].els) : el'[e].connected /\ el'[e].busid = b
    <3>1. CASE b \in Ids(m)
      <4>1. PICK e \in ToSet(lst[m].els) : el[e].busid = b
        BY <3>1 DEF Ids
      <4>2. e \in ToSet(kept)
        BY <1>2, <2>2, <4>1
      <4> QED
        BY <1>2, <1>3, <2>2, <4>1, <4>2
    <3>2. CASE b \notin Ids(m)
      <4>1. PICK e \in ToSet(s) : el'[e].busid = b
        BY <1>2, <2>2, <3>2
      <4> QED
        BY <1>2, <1>3, <4>1
    <3> QED
      BY <3>1, <3>2
  <2> QED
    BY <2>1, <2>2
<1>5. ASSUME \A b \in Busids : Cardinality({e \in ToSet(lst[m].els) : el[e].busid = b}) <= 1, NEW b \in Busids
      PROVE  Cardinality({e \in ToSet(lst'[m].els) : el'[e].busid = b}) <= 1
  <2> DEFINE A == {e \in ToSet(lst[m].els) : el[e].busid = b}
             B == {e \in ToSet(lst'[m].els) : el'[e].busid = b}
  <2>1. IsFiniteSet(A)
    <3>1. lst[m].els \in Seq(Els)
      BY ListFacts
    <3>2. IsFiniteSet(ToSet(lst[m].els)) /\ A \subseteq ToSet(lst[m].els)
      BY <3>1, ElementsOf
    <3> QED
      BY <3>2, FS_Subset
  <2>2. IsFiniteSet(B)
    <3>1. lst'[m].els \in Seq(Els)
      BY <1>2, Concatenated
    <3>2. IsFiniteSet(ToSet(lst'[m].els)) /\ B \subseteq ToSet(lst'[m].els)
      BY <3>1, ElementsOf
    <3> QED
      BY <3>2, FS_Subset
  <2>3. \A e, f \in A : e = f
    BY <1>5, <2>1, OneAtMost
  <2>4. \A e \in ToSet(kept) : e \in ToSet(lst[m].els)
    BY <1>2
  <2>5. \A e \in ToSet(s), f \in ToSet(kept) : el'[e].busid # el'[f].busid
    <3>1. \A e \in ToSet(s) : el'[e].busid \notin Ids(m)
      BY <1>2
    <3>2. \A f \in ToSet(kept) : el'[f].busid \in Ids(m)
      BY <1>2, <2>4 DEF Ids
    <3> QED
      BY <3>1, <3>2
  <2>6. ASSUME NEW e \in B, NEW f \in B PROVE e = f
    <3>1. e \in ToSet(kept) \cup ToSet(s) /\ f \in ToSet(kept) \cup ToSet(s) /\ el'[e].busid = el'[f].busid
      BY <1>3
    <3>2. CASE e \in ToSet(kept) /\ f \in ToSet(kept)
      <4>1. e \in A /\ f \in A
        BY <1>2, <2>4, <3>2
      <4> QED
        BY <2>3, <4>1
    <3>3. CASE e \in ToSet(s) /\ f \in ToSet(s)
      BY <1>2, <3>1, <3>3
    <3> QED
      BY <2>5, <3>1, <3>2, <3>3
  <2> QED
    BY <2>2, <2>6, OneAtMost
<1> QED
  BY <1>4, <1>5 DEF Exported

\* LstK_* of libusbk.c: an info is in at most one list, the one it says owns it, a cursor is on
\* an info of its own list, and a sync marks as connected exactly what the server exports, with
\* no second info for a device that came back: for any lists, infos and devices.
THEOREM ListsAreSoundHolds == ListsSpec => ListsAreSound
<1>1. ClientInit /\ ListsInit => ListsInv
  BY ListsInitial
<1>2. ListsInv /\ [ListsNext \/ ListsServer]_<<clientvars, lkvars>> => ListsInv'
  BY ListsStep
<1>3. ListsInv => ListShape
  BY DEF ListsInv
<1>4. ListsInv => \A m \in Lists : (\E drop \in BOOLEAN : LstK_Sync(m, drop)) =>
       /\ {el'[e].busid : e \in {d \in ToSet(lst'[m].els) : el'[d].connected}}
            = {b \in Busids : exported[b] # 0}
       /\ (\A b \in Busids : Cardinality({e \in ToSet(lst[m].els) : el[e].busid = b}) <= 1) =>
          \A b \in Busids : Cardinality({e \in ToSet(lst'[m].els) : el'[e].busid = b}) <= 1
  BY SyncExactly
<1> QED
  BY <1>1, <1>2, <1>3, <1>4, PTL DEF ListsSpec, ListsAreSound, SyncIsExact
=============================================================================
