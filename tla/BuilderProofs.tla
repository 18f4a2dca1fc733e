---------------------------- MODULE BuilderProofs ----------------------------
(***************************************************************************)
(* Theorems about Builder and DeviceRequests, for tables of any size and   *)
(* any number of functions and reservations: a failed build leaves no      *)
(* trace, a reservation is kept, the tables of the device agree with each  *)
(* other through every append, relocation, reservation and rollback, and   *)
(* every reader of them finds the same device.  And about ClassBuild: what *)
(* the classes' descriptors say of each other holds wherever they end up.  *)
(***************************************************************************)
EXTENDS DeviceRequests, ClassBuild, FiniteSetTheorems, SequenceTheorems, WellFoundedInduction, TLAPS

Descriptors ==
  [kind : {"if", "ep", "other"}, ifnum : Nat, alt : Nat, count : Nat, addr : Addresses \cup {<<>>}]
Records == [ifnum : Nat, alt : Nat, off : Nat]
Endpoints == [addr : Addresses, ifnum : Nat]
GroupRecords == [first_ifnum : Nat, n_ifs : Nat, descr_off : Nat]

-----------------------------------------------------------------------------
(* A failed build leaves no trace                                          *)

\* The types of the tables, and what their entries may refer to: interfaces that were
\* declared, descriptors, endpoints and groups that are there.
TypesOf(d, r, ci, ca, nn, e, m, v, g) ==
  /\ d \in Seq(Descriptors) /\ r \in Seq(Records) /\ e \in Seq(Endpoints) /\ g \in Seq(GroupRecords)
  /\ ci \in Nat \cup {-1} /\ ca \in Nat \cup {-1} /\ nn \in Nat
  /\ m \in [Addresses -> Nat] /\ v \in [Addresses -> Nat]

RefersTo(d, r, ci, nn, e, m, g, ms) ==
  /\ ci < nn /\ nn <= MaxIf + 1
  /\ \A i \in 1..Len(r) : r[i].ifnum < nn /\ r[i].off <= Len(d)
  /\ \A i \in 1..Len(e) : e[i].ifnum < nn \/ e[i].ifnum = NoIf
  /\ \A a \in Addresses : m[a] \in 0..Len(e)
  /\ ms \subseteq -1..(Len(g) - 1)

BuildTypes ==
  /\ TypesOf(descr, ifalts, cur_ifnum, cur_alt, n_ifnums, eps, ep_map, ep_reserved, groups)
  /\ funcs \in Seq(Nat) /\ building \in Nat /\ made \in Nat

RefersBack == RefersTo(descr, ifalts, cur_ifnum, n_ifnums, eps, ep_map, groups, msos)

\* The same of the device as it was.
WellBefore ==
  LET t == before[1].tables
  IN /\ TypesOf(t[1], t[2], t[3], t[4], t[6], t[7], t[8], t[9], before[1].groups)
     /\ RefersTo(t[1], t[2], t[3], t[6], t[7], t[8], before[1].groups, before[1].msos)

\* What usbip_device_group_abort would make of the device now.
RestoredTables ==
  <<SubSeq(descr, 1, gmark.descr_len), SubSeq(ifalts, 1, gmark.n_ifalts), gmark.cur_ifnum,
    gmark.cur_alt, gmark.if_present, gmark.n_ifnums, SubSeq(eps, 1, gmark.n_eps), Unmapped,
    gmark.ep_reserved>>
Restored ==
  [tables |-> RestoredTables, groups |-> SubSeq(groups, 1, Len(groups) - 1),
   routes |-> <<gmark.ctrl, gmark.ctrl_default>>,
   msos |-> Unadvertised(Len(groups) - 1) \ {-1}]

MarkIsBehind ==
  /\ gmark.descr_len \in Nat /\ gmark.descr_len <= Len(descr)
  /\ gmark.n_ifalts \in Nat /\ gmark.n_ifalts <= Len(ifalts)
  /\ gmark.n_eps \in Nat /\ gmark.n_eps <= Len(eps)
  /\ gmark.n_ifnums \in Nat /\ gmark.n_ifnums <= n_ifnums

\* The function being built has interfaces of its own, and what it declared refers to
\* these and to nothing older.
OwnInterfaces ==
  /\ \A i \in 1..Len(ifalts) :
       IF i <= gmark.n_ifalts
         THEN ifalts[i].ifnum < gmark.n_ifnums
         ELSE ifalts[i].ifnum >= gmark.n_ifnums /\ ifalts[i].off > gmark.descr_len
  /\ \A i \in 1..gmark.n_eps : eps[i].ifnum < gmark.n_ifnums \/ eps[i].ifnum = NoIf
  /\ cur_iface => cur_ifnum >= gmark.n_ifnums

\* While a function is built, a rollback leads to where it began.
BuildInv ==
  /\ BuildTypes /\ RefersBack
  /\ building # 0 =>
       /\ before = <<Restored>> /\ WellBefore /\ groups # <<>> /\ funcs # <<>>
       /\ MarkIsBehind /\ OwnInterfaces

LEMMA BeforeKept ==
  ASSUME WellBefore, before' = before
  PROVE  WellBefore'
BY DEF WellBefore

LEMMA Bounds == /\ MaxIf \in Nat /\ MaxIf < 255 /\ MaxNumber \in Nat /\ MaxAlt \in Nat /\ MaxIfalts \in Nat
                /\ MaxIf # 0 /\ MaxDescr \in Nat /\ MaxEps \in Nat /\ MaxGroups \in Nat /\ MaxMade \in Nat
BY BuilderAssumption

\* Sequences that agree up to n have one prefix of length n.
LEMMA PrefixIs ==
  ASSUME NEW S, NEW s \in Seq(S), NEW n \in Nat, n <= Len(s)
  PROVE  SubSeq(s, 1, n) = [i \in 1..n |-> s[i]]
<1>1. n \in 0..Len(s)
  BY LenProperties
<1> QED
  BY <1>1, SubSeqRestrict DEF Restrict

LEMMA SamePrefix ==
  ASSUME NEW S, NEW s \in Seq(S), NEW t \in Seq(S), NEW n \in Nat, n <= Len(s), n <= Len(t),
         \A i \in 1..n : s[i] = t[i]
  PROVE  SubSeq(s, 1, n) = SubSeq(t, 1, n)
<1>1. [i \in 1..n |-> s[i]] = [i \in 1..n |-> t[i]]
  OBVIOUS
<1> QED
  BY <1>1, PrefixIs

LEMMA PrefixType ==
  ASSUME NEW S, NEW s \in Seq(S), NEW n \in Nat, n <= Len(s)
  PROVE  /\ SubSeq(s, 1, n) \in Seq(S) /\ Len(SubSeq(s, 1, n)) = n
         /\ \A i \in 1..n : SubSeq(s, 1, n)[i] = s[i]
<1>1. Len(s) \in Nat /\ \A i \in 1..n : s[i] \in S
  BY ElementOfSeq, LenProperties
<1>2. n \in Int /\ 1 \in Int
  OBVIOUS
<1>3. SubSeq(s, 1, n) \in Seq(S) /\ Len(SubSeq(s, 1, n)) = IF 1 <= n THEN n - 1 + 1 ELSE 0
  BY <1>1, <1>2, SubSeqProperties
<1>4. \A i \in 1..n : SubSeq(s, 1, n)[i] = s[i]
  BY PrefixIs
<1> QED
  BY <1>3, <1>4

LEMMA WholeIs ==
  ASSUME NEW S, NEW s \in Seq(S)
  PROVE  SubSeq(s, 1, Len(s)) = s
BY SubSeqFull

LEMMA Appends ==
  ASSUME NEW S, NEW d \in Seq(S), NEW x \in S
  PROVE  /\ Append(d, x) \in Seq(S) /\ Len(d) \in Nat /\ Len(Append(d, x)) = Len(d) + 1
         /\ Append(d, x)[Len(d) + 1] = x /\ Append(d, x) # <<>>
         /\ \A i \in 1..Len(d) : Append(d, x)[i] = d[i] /\ d[i] \in S
<1>1. Len(d) \in Nat
  BY LenProperties
<1> QED
  BY <1>1, AppendProperties, ElementOfSeq

LEMMA AppendKeepsPrefix ==
  ASSUME NEW S, NEW d \in Seq(S), NEW x \in S, NEW n \in Nat, n <= Len(d)
  PROVE  SubSeq(Append(d, x), 1, n) = SubSeq(d, 1, n)
<1>1. n <= Len(Append(d, x)) /\ Append(d, x) \in Seq(S) /\ \A i \in 1..n : Append(d, x)[i] = d[i]
  BY Appends
<1> QED
  BY <1>1, SamePrefix

LEMMA RecordTypes ==
  ASSUME NEW r \in Seq(Records)
  PROVE  /\ Len(r) \in Nat
         /\ \A k \in 1..Len(r) : r[k] \in Records /\ r[k].ifnum \in Nat /\ r[k].alt \in Nat /\ r[k].off \in Nat
<1>1. Len(r) \in Nat /\ \A k \in 1..Len(r) : r[k] \in Records
  BY ElementOfSeq, LenProperties
<1> QED
  BY <1>1 DEF Records

LEMMA EndpointTypes ==
  ASSUME NEW e \in Seq(Endpoints)
  PROVE  /\ Len(e) \in Nat
         /\ \A k \in 1..Len(e) : e[k] \in Endpoints /\ e[k].addr \in Addresses /\ e[k].ifnum \in Nat
<1>1. Len(e) \in Nat /\ \A k \in 1..Len(e) : e[k] \in Endpoints
  BY ElementOfSeq, LenProperties
<1> QED
  BY <1>1 DEF Endpoints

\* What an interface descriptor does to the tables: the records of its setting lead to it,
\* or there is one more record when there is room.
NewRecord(i, alt) == [ifnum |-> i, alt |-> alt, off |-> Len(descr) + 1]

LEMMA AddInterfaceRecords ==
  ASSUME BuildTypes, NEW i \in Nat, NEW alt \in Nat, AddInterface(i, alt)
  PROVE  /\ ifalts' \in Seq(Records)
         /\ \/ /\ \E k \in 1..Len(ifalts) : ifalts[k].ifnum = i /\ ifalts[k].alt = alt
               /\ Len(ifalts') = Len(ifalts)
            \/ /\ ~\E k \in 1..Len(ifalts) : ifalts[k].ifnum = i /\ ifalts[k].alt = alt
               /\ Len(ifalts) < MaxIfalts
               /\ Len(ifalts') = Len(ifalts) + 1 /\ ifalts'[Len(ifalts) + 1] = NewRecord(i, alt)
            \/ /\ ~\E k \in 1..Len(ifalts) : ifalts[k].ifnum = i /\ ifalts[k].alt = alt
               /\ Len(ifalts) >= MaxIfalts
               /\ Len(ifalts') = Len(ifalts)
         /\ \A k \in 1..Len(ifalts) :
              ifalts'[k] = IF ifalts[k].ifnum = i /\ ifalts[k].alt = alt THEN NewRecord(i, alt) ELSE ifalts[k]
<1>0. /\ ifalts \in Seq(Records) /\ Len(ifalts) \in Nat /\ descr \in Seq(Descriptors) /\ Len(descr) \in Nat
      /\ DOMAIN ifalts = 1..Len(ifalts) /\ MaxIfalts \in Nat
  BY LenProperties, Bounds DEF BuildTypes, TypesOf
<1>1. NewRecord(i, alt) \in Records
  BY <1>0 DEF NewRecord, Records
<1>2. \A k \in 1..Len(ifalts) : ifalts[k] \in Records /\ (k \in ifalt_for(i, alt) <=> ifalts[k].ifnum = i /\ ifalts[k].alt = alt)
  BY <1>0, ElementOfSeq DEF ifalt_for
<1>3. ifalt_for(i, alt) \subseteq 1..Len(ifalts)
  BY <1>0 DEF ifalt_for
<1>4. ifalts' = IF ifalt_for(i, alt) # {}
                  THEN [k \in DOMAIN ifalts |-> IF k \in ifalt_for(i, alt) THEN NewRecord(i, alt) ELSE ifalts[k]]
                  ELSE IF Len(ifalts) < MaxIfalts THEN Append(ifalts, NewRecord(i, alt)) ELSE ifalts
  BY DEF AddInterface, NewRecord
<1>5. CASE ifalt_for(i, alt) # {}
  <2>1. ifalts' = [k \in 1..Len(ifalts) |-> IF k \in ifalt_for(i, alt) THEN NewRecord(i, alt) ELSE ifalts[k]]
    BY <1>0, <1>4, <1>5
  <2>2. \A k \in 1..Len(ifalts) : (IF k \in ifalt_for(i, alt) THEN NewRecord(i, alt) ELSE ifalts[k]) \in Records
    BY <1>1, <1>2
  <2>3. ifalts' \in [1..Len(ifalts) -> Records]
    BY <2>1, <2>2
  <2>4. ifalts' \in Seq(Records) /\ Len(ifalts') = Len(ifalts)
    BY <1>0, <2>3, SeqDef, LenProperties
  <2>5. \E k \in 1..Len(ifalts) : ifalts[k].ifnum = i /\ ifalts[k].alt = alt
    BY <1>2, <1>3, <1>5
  <2> QED
    BY <1>2, <2>1, <2>4, <2>5
<1>6. CASE ifalt_for(i, alt) = {}
  <2>1. \A k \in 1..Len(ifalts) : ~(ifalts[k].ifnum = i /\ ifalts[k].alt = alt)
    BY <1>2, <1>6
  <2>2. CASE Len(ifalts) < MaxIfalts
    <3>1. ifalts' = Append(ifalts, NewRecord(i, alt))
      BY <1>4, <1>6, <2>2
    <3>2. /\ Append(ifalts, NewRecord(i, alt)) \in Seq(Records)
          /\ Len(Append(ifalts, NewRecord(i, alt))) = Len(ifalts) + 1
          /\ Append(ifalts, NewRecord(i, alt))[Len(ifalts) + 1] = NewRecord(i, alt)
          /\ \A k \in 1..Len(ifalts) : Append(ifalts, NewRecord(i, alt))[k] = ifalts[k]
      BY <1>0, <1>1, Appends
    <3> QED
      BY <2>1, <2>2, <3>1, <3>2
  <2>3. CASE ~(Len(ifalts) < MaxIfalts)
    <3>1. ifalts' = ifalts
      BY <1>4, <1>6, <2>3
    <3>2. Len(ifalts) >= MaxIfalts
      BY <1>0, <2>3
    <3> QED
      BY <1>0, <2>1, <3>1, <3>2
  <2> QED
    BY <2>2, <2>3
<1> QED
  BY <1>5, <1>6

LEMMA AddInterfaceBlob ==
  ASSUME BuildTypes, NEW i \in Nat, NEW alt \in Nat, AddInterface(i, alt)
  PROVE  /\ Interface(i, alt, 0) \in Descriptors /\ descr' = Append(descr, Interface(i, alt, 0))
         /\ descr' \in Seq(Descriptors) /\ Len(descr) \in Nat /\ Len(descr') = Len(descr) + 1
         /\ \A k \in 1..Len(descr) : descr'[k] = descr[k]
         /\ cur_ifnum' = i /\ cur_alt' = alt
         /\ n_ifnums' = IF i + 1 > n_ifnums THEN i + 1 ELSE n_ifnums
         /\ UNCHANGED <<eps, ep_map, ep_reserved>>
<1>1. Interface(i, alt, 0) \in Descriptors
  BY DEF Interface, Descriptors
<1>2. descr \in Seq(Descriptors)
  BY DEF BuildTypes, TypesOf
<1> QED
  BY <1>1, <1>2, Appends DEF AddInterface

\* Only the open group notices a new interface.
LEMMA RegisteredGroups ==
  ASSUME BuildTypes, NEW i \in Nat
  PROVE  /\ Registered(i) \in Seq(GroupRecords) /\ Len(Registered(i)) = Len(groups) /\ Len(groups) \in Nat
         /\ \A k \in 1..Len(groups) :
              Registered(i)[k] =
                IF k < Len(groups) \/ i >= MaxIf \/ i \in if_present THEN groups[k]
                ELSE [groups[k] EXCEPT !.first_ifnum = IF groups[k].n_ifs = 0 THEN i ELSE @, !.n_ifs = @ + 1]
<1>0. groups \in Seq(GroupRecords) /\ Len(groups) \in Nat /\ DOMAIN groups = 1..Len(groups)
  BY LenProperties DEF BuildTypes, TypesOf
<1>1. \A k \in 1..Len(groups) : groups[k] \in GroupRecords
  BY <1>0, ElementOfSeq
<1>2. CASE i >= MaxIf \/ i \in if_present \/ groups = <<>>
  <2>1. Registered(i) = groups
    BY <1>2 DEF Registered
  <2>2. groups = <<>> => Len(groups) = 0
    BY EmptySeq
  <2>3. i >= MaxIf \/ i \in if_present \/ 1..Len(groups) = {}
    BY <1>2, <2>2
  <2> QED
    BY <1>0, <2>1, <2>3
<1>3. CASE ~(i >= MaxIf \/ i \in if_present \/ groups = <<>>)
  <2> DEFINE g == groups[Len(groups)]
             h == [g EXCEPT !.first_ifnum = IF g.n_ifs = 0 THEN i ELSE @, !.n_ifs = @ + 1]
  <2>1. Registered(i) = [groups EXCEPT ![Len(groups)] = h]
    BY <1>3 DEF Registered
  <2>2. Len(groups) # 0
    BY <1>0, <1>3, EmptySeq
  <2>3. Len(groups) \in 1..Len(groups)
    BY <1>0, <2>2
  <2>4. g \in GroupRecords
    BY <1>1, <2>3
  <2>5. h \in GroupRecords
    <3>1. g.n_ifs \in Nat /\ g.first_ifnum \in Nat
      BY <2>4 DEF GroupRecords
    <3>2. g.n_ifs + 1 \in Nat /\ (IF g.n_ifs = 0 THEN i ELSE g.first_ifnum) \in Nat
      BY <3>1
    <3> HIDE DEF g
    <3> QED
      BY <2>4, <3>2 DEF GroupRecords
  <2>6. Registered(i) \in [1..Len(groups) -> GroupRecords]
    <3>1. groups \in [1..Len(groups) -> GroupRecords]
      BY <1>0, <1>1
    <3> HIDE DEF h
    <3> QED
      BY <2>1, <2>5, <3>1
  <2>7. Registered(i) \in Seq(GroupRecords) /\ Len(Registered(i)) = Len(groups)
    BY <1>0, <2>6, SeqDef, LenProperties
  <2>8. \A k \in 1..Len(groups) : Registered(i)[k] = IF k = Len(groups) THEN h ELSE groups[k]
    <3> HIDE DEF h
    <3> QED
      BY <1>0, <2>1
  <2>9. \A k \in 1..Len(groups) : k < Len(groups) <=> k # Len(groups)
    <3>1. \A n \in Nat : \A k \in 1..n : k < n <=> k # n
      OBVIOUS
    <3> QED
      BY <1>0, <3>1
  <2> QED
    BY <1>0, <1>3, <2>7, <2>8, <2>9
<1> QED
  BY <1>2, <1>3

LEMMA InterfaceKeepsBuildInv ==
  ASSUME BuildInv, NEW i \in IfNums, NEW alt \in 0..MaxAlt, i <= n_ifnums, AddInterface(i, alt),
         UNCHANGED <<gmark, msos, funcs, building, made, before>>,
         building # 0 => i >= gmark.n_ifnums
  PROVE  BuildInv'
<1>0. BuildTypes /\ RefersBack /\ i \in Nat /\ alt \in Nat /\ i <= MaxIf
  BY Bounds DEF BuildInv, IfNums
<1>1. /\ descr \in Seq(Descriptors) /\ ifalts \in Seq(Records) /\ eps \in Seq(Endpoints) /\ groups \in Seq(GroupRecords)
      /\ Len(descr) \in Nat /\ Len(ifalts) \in Nat /\ Len(groups) \in Nat /\ n_ifnums \in Nat /\ Len(eps) \in Nat
  BY <1>0, LenProperties DEF BuildTypes, TypesOf
<1>2. /\ descr' = Append(descr, Interface(i, alt, 0)) /\ Interface(i, alt, 0) \in Descriptors
      /\ descr' \in Seq(Descriptors) /\ Len(descr') = Len(descr) + 1
      /\ cur_ifnum' = i /\ cur_alt' = alt
      /\ n_ifnums' = IF i + 1 > n_ifnums THEN i + 1 ELSE n_ifnums
      /\ UNCHANGED <<eps, ep_map, ep_reserved>>
  BY <1>0, AddInterfaceBlob
<1>3. /\ ifalts' \in Seq(Records)
      /\ Len(ifalts') = Len(ifalts) \/ (Len(ifalts') = Len(ifalts) + 1 /\ ifalts'[Len(ifalts) + 1] = NewRecord(i, alt))
      /\ \A k \in 1..Len(ifalts) :
           ifalts'[k] = IF ifalts[k].ifnum = i /\ ifalts[k].alt = alt THEN NewRecord(i, alt) ELSE ifalts[k]
  BY <1>0, AddInterfaceRecords
<1>4. /\ groups' \in Seq(GroupRecords) /\ Len(groups') = Len(groups)
      /\ \A k \in 1..Len(groups) : k < Len(groups) => groups'[k] = groups[k]
  <2>1. groups' = Registered(i)
    BY DEF AddInterface
  <2> QED
    BY <1>0, <2>1, RegisteredGroups
<1>5. NewRecord(i, alt).ifnum = i /\ NewRecord(i, alt).off = Len(descr) + 1
  BY DEF NewRecord
<1>6. n_ifnums' \in Nat /\ n_ifnums <= n_ifnums' /\ i < n_ifnums' /\ n_ifnums' <= MaxIf + 1
  <2>1. n_ifnums <= MaxIf + 1
    BY <1>0 DEF RefersBack, RefersTo
  <2>2. PICK n \in Nat : n = n_ifnums
    BY <1>1
  <2>3. n_ifnums' = IF i + 1 > n THEN i + 1 ELSE n
    BY <1>2, <2>2
  <2> QED
    BY <1>0, <2>1, <2>2, <2>3, Bounds
<1>7. BuildTypes'
  BY <1>0, <1>2, <1>3, <1>4, <1>6 DEF BuildTypes, TypesOf
<1>8. \A k \in 1..Len(ifalts') : k \in 1..Len(ifalts) \/ (k = Len(ifalts) + 1 /\ ifalts'[k] = NewRecord(i, alt))
  BY <1>1, <1>3
<1>9. \A k \in 1..Len(ifalts) : ifalts[k].ifnum \in Nat /\ ifalts[k].off \in Nat
  BY <1>1, RecordTypes
<1>10. \A k \in 1..Len(eps) : eps[k].ifnum \in Nat
  BY <1>1, EndpointTypes
<1>11. RefersBack'
  <2>1. cur_ifnum' < n_ifnums' /\ n_ifnums' <= MaxIf + 1
    BY <1>2, <1>6
  <2>2. \A k \in 1..Len(ifalts') : ifalts'[k].ifnum < n_ifnums' /\ ifalts'[k].off <= Len(descr')
    <3> SUFFICES ASSUME NEW k \in 1..Len(ifalts') PROVE ifalts'[k].ifnum < n_ifnums' /\ ifalts'[k].off <= Len(descr')
      OBVIOUS
    <3>1. CASE ifalts'[k] = NewRecord(i, alt)
      BY <1>1, <1>2, <1>5, <1>6, <3>1
    <3>2. CASE k \in 1..Len(ifalts) /\ ifalts'[k] = ifalts[k]
      <4>1. ifalts[k].ifnum < n_ifnums /\ ifalts[k].off <= Len(descr)
        BY <1>0, <3>2 DEF RefersBack, RefersTo
      <4>2. PICK x \in Nat, y \in Nat : x = ifalts[k].ifnum /\ y = ifalts[k].off
        BY <1>9, <3>2
      <4>3. x < n_ifnums /\ y <= Len(descr)
        BY <4>1, <4>2
      <4>4. x < n_ifnums'
        <5>1. n_ifnums \in Nat /\ n_ifnums' \in Nat /\ n_ifnums <= n_ifnums'
          BY <1>1, <1>6
        <5> QED
          BY <4>3, <5>1
      <4>5. y <= Len(descr')
        <5>1. Len(descr) \in Nat /\ Len(descr') = Len(descr) + 1
          BY <1>1, <1>2
        <5> QED
          BY <4>3, <5>1
      <4> QED
        BY <3>2, <4>2, <4>4, <4>5
    <3> QED
      BY <1>3, <1>8, <3>1, <3>2
  <2>3. \A k \in 1..Len(eps') : eps'[k].ifnum < n_ifnums' \/ eps'[k].ifnum = NoIf
    <3>1. \A k \in 1..Len(eps) : eps[k].ifnum < n_ifnums \/ eps[k].ifnum = NoIf
      BY <1>0 DEF RefersBack, RefersTo
    <3> QED
      BY <1>1, <1>2, <1>6, <1>10, <3>1
  <2>4. (\A a \in Addresses : ep_map'[a] \in 0..Len(eps')) /\ msos' \subseteq -1..(Len(groups') - 1)
    BY <1>0, <1>2, <1>4 DEF RefersBack, RefersTo
  <2> QED
    BY <2>1, <2>2, <2>3, <2>4 DEF RefersBack, RefersTo
<1>12. ASSUME building # 0
       PROVE  before' = <<Restored'>> /\ WellBefore' /\ groups' # <<>> /\ funcs' # <<>> /\ MarkIsBehind' /\ OwnInterfaces'
  <2>0. /\ before = <<Restored>> /\ WellBefore /\ groups # <<>> /\ funcs # <<>> /\ MarkIsBehind /\ OwnInterfaces
        /\ i >= gmark.n_ifnums
    BY <1>12 DEF BuildInv
  <2>1. Len(groups) # 0
    BY <1>1, <2>0, EmptySeq
  <2>2. MarkIsBehind'
    <3>1. Len(descr) <= Len(descr') /\ Len(ifalts) <= Len(ifalts') /\ Len(ifalts') \in Nat /\ Len(descr') \in Nat
      BY <1>1, <1>2, <1>3
    <3>2. /\ gmark.descr_len \in Nat /\ gmark.descr_len <= Len(descr)
          /\ gmark.n_ifalts \in Nat /\ gmark.n_ifalts <= Len(ifalts)
          /\ gmark.n_eps \in Nat /\ gmark.n_eps <= Len(eps)
          /\ gmark.n_ifnums \in Nat /\ gmark.n_ifnums <= n_ifnums
      BY <2>0 DEF MarkIsBehind
    <3>3. gmark.descr_len <= Len(descr') /\ gmark.n_ifalts <= Len(ifalts') /\ gmark.n_ifnums <= n_ifnums'
      <4>1. /\ Len(descr) \in Nat /\ Len(ifalts) \in Nat /\ n_ifnums \in Nat
            /\ n_ifnums' \in Nat /\ n_ifnums <= n_ifnums'
        BY <1>1, <1>6
      <4> QED
        BY <3>1, <3>2, <4>1
    <3>4. gmark' = gmark /\ eps' = eps
      BY <1>2
    <3> QED
      BY <3>2, <3>3, <3>4 DEF MarkIsBehind
  <2>3. \A k \in 1..gmark.n_ifalts : k \in 1..Len(ifalts) /\ ifalts'[k] = ifalts[k]
    <3> SUFFICES ASSUME NEW k \in 1..gmark.n_ifalts PROVE k \in 1..Len(ifalts) /\ ifalts'[k] = ifalts[k]
      OBVIOUS
    <3>1. k \in 1..Len(ifalts) /\ k <= gmark.n_ifalts
      BY <1>1, <2>0 DEF MarkIsBehind
    <3>2. ifalts[k].ifnum < gmark.n_ifnums
      BY <2>0, <3>1 DEF OwnInterfaces
    <3>3. ifalts[k].ifnum # i
      BY <1>0, <1>9, <2>0, <3>1, <3>2 DEF MarkIsBehind
    <3> QED
      BY <1>3, <3>1, <3>3
  <2>4. OwnInterfaces'
    <3>1. ASSUME NEW k \in 1..Len(ifalts')
          PROVE  IF k <= gmark.n_ifalts THEN ifalts'[k].ifnum < gmark.n_ifnums
                 ELSE ifalts'[k].ifnum >= gmark.n_ifnums /\ ifalts'[k].off > gmark.descr_len
      <4>1. CASE k <= gmark.n_ifalts
        <5>1. k \in 1..gmark.n_ifalts
          BY <1>3, <2>0, <4>1 DEF MarkIsBehind
        <5>2. k \in 1..Len(ifalts) /\ ifalts'[k] = ifalts[k]
          BY <2>3, <5>1
        <5> QED
          BY <2>0, <4>1, <5>2 DEF OwnInterfaces
      <4>2. CASE ~(k <= gmark.n_ifalts) /\ ifalts'[k] = NewRecord(i, alt)
        BY <1>1, <1>5, <2>0, <4>2 DEF MarkIsBehind
      <4>3. CASE ~(k <= gmark.n_ifalts) /\ k \in 1..Len(ifalts) /\ ifalts'[k] = ifalts[k]
        BY <2>0, <4>3 DEF OwnInterfaces
      <4> QED
        BY <1>3, <1>8, <4>1, <4>2, <4>3
    <3>2. \A k \in 1..gmark.n_eps : eps[k].ifnum < gmark.n_ifnums \/ eps[k].ifnum = NoIf
      BY <2>0 DEF OwnInterfaces
    <3> QED
      BY <1>2, <2>0, <3>1, <3>2 DEF OwnInterfaces
  <2>5. SubSeq(descr', 1, gmark.descr_len) = SubSeq(descr, 1, gmark.descr_len)
    BY <1>1, <1>2, <2>0, AppendKeepsPrefix DEF MarkIsBehind
  <2>6. SubSeq(ifalts', 1, gmark.n_ifalts) = SubSeq(ifalts, 1, gmark.n_ifalts)
    <3>1. gmark.n_ifalts \in Nat /\ gmark.n_ifalts <= Len(ifalts) /\ gmark.n_ifalts <= Len(ifalts')
      BY <1>1, <1>3, <2>0 DEF MarkIsBehind
    <3> QED
      BY <1>1, <1>3, <2>3, <3>1, SamePrefix
  <2>7. SubSeq(groups', 1, Len(groups') - 1) = SubSeq(groups, 1, Len(groups) - 1)
    <3>1. PICK n : n = Len(groups) - 1
      OBVIOUS
    <3>2. n \in Nat /\ n <= Len(groups) /\ n <= Len(groups') /\ \A k \in 1..n : groups'[k] = groups[k]
      BY <1>1, <1>4, <2>1, <3>1
    <3>3. SubSeq(groups', 1, n) = SubSeq(groups, 1, n)
      <4>1. groups \in Seq(GroupRecords) /\ groups' \in Seq(GroupRecords)
        BY <1>1, <1>4
      <4> QED
        BY <3>2, <4>1, SamePrefix
    <3> QED
      BY <1>4, <3>1, <3>3
  <2>8. Unmapped' = Unmapped /\ Unadvertised(Len(groups) - 1)' = Unadvertised(Len(groups) - 1)
    BY <1>2, <1>4 DEF Unmapped, Unadvertised
  <2>9. Restored' = Restored
    BY <1>2, <1>4, <2>5, <2>6, <2>7, <2>8 DEF Restored, RestoredTables, Unadvertised
  <2>10. groups' # <<>>
    BY <1>4, <2>1, EmptySeq
  <2> QED
    BY <2>0, <2>2, <2>4, <2>9, <2>10, BeforeKept
<1> QED
  BY <1>7, <1>11, <1>12 DEF BuildInv

\* A number that ep_alloc_number grants: free, or an endpoint of the same interface has it.
LEMMA NumberGranted ==
  ASSUME NEW owner, NEW want \in 0..MaxNumber, NEW dir \in Dirs,
         NEW number \in ep_alloc_number(owner, want, dir)
  PROVE  <<number, dir>> \in Addresses /\ Preferred(owner, <<number, dir>>)
<1> DEFINE free == {n \in 1..MaxNumber : ep_map[<<n, dir>>] = 0 /\ ep_reservation_allows(owner, <<n, dir>>)}
<1>1. ep_alloc_number(owner, want, dir) = IF want # 0 /\ Preferred(owner, <<want, dir>>) THEN {want}
                                         ELSE {n \in free : \A k \in free : n <= k}
  BY DEF ep_alloc_number
<1>2. CASE want # 0 /\ Preferred(owner, <<want, dir>>)
  <2>1. number = want /\ want \in 1..MaxNumber
    BY <1>1, <1>2, Bounds
  <2> QED
    BY <1>2, <2>1 DEF Addresses
<1>3. CASE ~(want # 0 /\ Preferred(owner, <<want, dir>>))
  <2>1. number \in free
    BY <1>1, <1>3
  <2>2. number \in 1..MaxNumber /\ ep_map[<<number, dir>>] = 0 /\ ep_reservation_allows(owner, <<number, dir>>)
    BY <2>1
  <2> QED
    BY <2>2 DEF Preferred, Addresses
<1> QED
  BY <1>2, <1>3

\* The blob with one endpoint more counted.
CountedBlob == [i \in DOMAIN descr |-> IF i \in Counted THEN [descr[i] EXCEPT !.count = @ + 1] ELSE descr[i]]

LEMMA CountedBlobIs ==
  ASSUME BuildTypes
  PROVE  /\ CountedBlob \in Seq(Descriptors) /\ Len(CountedBlob) = Len(descr) /\ Len(descr) \in Nat
         /\ \A i \in 1..Len(descr) :
              /\ descr[i].count \in Nat
              /\ CountedBlob[i].kind = descr[i].kind /\ CountedBlob[i].ifnum = descr[i].ifnum
              /\ CountedBlob[i].alt = descr[i].alt /\ CountedBlob[i].addr = descr[i].addr
              /\ CountedBlob[i].count = IF i \in Counted THEN descr[i].count + 1 ELSE descr[i].count
              /\ i \notin Counted => CountedBlob[i] = descr[i]
<1>0. descr \in Seq(Descriptors) /\ Len(descr) \in Nat /\ DOMAIN descr = 1..Len(descr)
  BY LenProperties DEF BuildTypes, TypesOf
<1>1. \A i \in 1..Len(descr) : descr[i] \in Descriptors
  BY <1>0, ElementOfSeq
<1>2. \A x \in Descriptors : x.count \in Nat
  BY DEF Descriptors
<1>3. ASSUME NEW x \in Descriptors
      PROVE  /\ [x EXCEPT !.count = @ + 1] \in Descriptors
             /\ [x EXCEPT !.count = @ + 1].count = x.count + 1
             /\ [x EXCEPT !.count = @ + 1].kind = x.kind /\ [x EXCEPT !.count = @ + 1].ifnum = x.ifnum
             /\ [x EXCEPT !.count = @ + 1].alt = x.alt /\ [x EXCEPT !.count = @ + 1].addr = x.addr
  <2>1. x.count + 1 \in Nat
    BY <1>2
  <2> QED
    BY <2>1 DEF Descriptors
<1>4. \A i \in 1..Len(descr) :
        CountedBlob[i] = IF i \in Counted THEN [descr[i] EXCEPT !.count = @ + 1] ELSE descr[i]
  BY <1>0 DEF CountedBlob
<1>5. \A i \in 1..Len(descr) : CountedBlob[i] \in Descriptors
  BY <1>1, <1>3, <1>4
<1>6. CountedBlob \in [1..Len(descr) -> Descriptors]
  <2>1. CountedBlob = [i \in 1..Len(descr) |-> CountedBlob[i]]
    BY <1>0 DEF CountedBlob
  <2> QED
    BY <1>5, <2>1
<1>7. CountedBlob \in Seq(Descriptors) /\ Len(CountedBlob) = Len(descr)
  BY <1>0, <1>6, SeqDef, LenProperties
<1> QED
  BY <1>0, <1>1, <1>2, <1>3, <1>4, <1>7

\* What an endpoint does to the tables.
LEMMA AddEndpointTables ==
  ASSUME BuildTypes, NEW want \in 0..MaxNumber, NEW dir \in Dirs, AddEndpoint(want, dir)
  PROVE  \E addr \in Addresses :
           /\ Preferred(CurrentOwner, addr)
           /\ eps' = Append(eps, [addr |-> addr, ifnum |-> CurrentOwner])
           /\ [addr |-> addr, ifnum |-> CurrentOwner] \in Endpoints
           /\ ep_map' = [ep_map EXCEPT ![addr] = Len(eps) + 1]
           /\ ep_reserved' = [ep_reserved EXCEPT ![addr] = 0]
           /\ descr' = Append(CountedBlob, Endpoint(addr)) /\ Endpoint(addr) \in Descriptors
           /\ UNCHANGED <<ifalts, cur_ifnum, cur_alt, if_present, n_ifnums, groups>>
<1>1. PICK number \in ep_alloc_number(CurrentOwner, want, dir) :
        /\ eps' = Append(eps, [addr |-> <<number, dir>>, ifnum |-> CurrentOwner])
        /\ ep_map' = [ep_map EXCEPT ![<<number, dir>>] = Len(eps) + 1]
        /\ ep_reserved' = [ep_reserved EXCEPT ![<<number, dir>>] = 0]
        /\ descr' = Append(CountedBlob, Endpoint(<<number, dir>>))
  BY DEF AddEndpoint, CountedBlob
<1>2. <<number, dir>> \in Addresses /\ Preferred(CurrentOwner, <<number, dir>>)
  BY NumberGranted
<1>3. CurrentOwner \in Nat
  BY DEF CurrentOwner, NoIf, BuildTypes, TypesOf
<1>4. [addr |-> <<number, dir>>, ifnum |-> CurrentOwner] \in Endpoints /\ Endpoint(<<number, dir>>) \in Descriptors
  BY <1>2, <1>3 DEF Endpoints, Endpoint, Descriptors
<1>5. UNCHANGED <<ifalts, cur_ifnum, cur_alt, if_present, n_ifnums, groups>>
  BY DEF AddEndpoint
<1> QED
  BY <1>1, <1>2, <1>4, <1>5

LEMMA ReserveTables ==
  ASSUME BuildTypes, NEW want \in 0..MaxNumber, NEW dir \in Dirs, Reserve(want, dir)
  PROVE  /\ cur_ifnum \in Nat
         /\ \E addr \in Addresses :
              Preferred(cur_ifnum, addr) /\ ep_reserved' = [ep_reserved EXCEPT ![addr] = cur_ifnum + 1]
         /\ UNCHANGED <<descr, ifalts, cur_ifnum, cur_alt, if_present, n_ifnums, eps, ep_map, groups>>
<1>1. PICK number \in ep_alloc_number(cur_ifnum, want, dir) :
        ep_reserved' = [ep_reserved EXCEPT ![<<number, dir>>] = cur_ifnum + 1]
  BY DEF Reserve
<1>2. <<number, dir>> \in Addresses /\ Preferred(cur_ifnum, <<number, dir>>)
  BY NumberGranted
<1>3. cur_ifnum \in Nat
  BY DEF Reserve, BuildTypes, TypesOf
<1> QED
  BY <1>1, <1>2, <1>3 DEF Reserve

LEMMA OtherKeepsBuildInv ==
  ASSUME BuildInv, AddOther, UNCHANGED <<gmark, msos, funcs, building, made, before, cur_iface>>
  PROVE  BuildInv'
<1>0. BuildTypes /\ RefersBack
  BY DEF BuildInv
<1>1. descr \in Seq(Descriptors) /\ Other \in Descriptors
  BY <1>0 DEF BuildTypes, TypesOf, Other, Descriptors
<1>2. /\ descr' = Append(descr, Other)
      /\ UNCHANGED <<ifalts, cur_ifnum, cur_alt, if_present, n_ifnums, eps, ep_map, ep_reserved, groups>>
  BY DEF AddOther
<1>3. descr' \in Seq(Descriptors) /\ Len(descr') = Len(descr) + 1 /\ Len(descr) \in Nat
  BY <1>1, <1>2, Appends
<1>4. BuildTypes'
  BY <1>0, <1>2, <1>3 DEF BuildTypes, TypesOf
<1>5. RefersBack'
  <2>1. \A k \in 1..Len(ifalts) : ifalts[k].off \in Nat
    BY <1>0, RecordTypes DEF BuildTypes, TypesOf
  <2>2. \A k \in 1..Len(ifalts) : ifalts[k].ifnum < n_ifnums /\ ifalts[k].off <= Len(descr')
    BY <1>0, <1>3, <2>1 DEF RefersBack, RefersTo
  <2> QED
    BY <1>0, <1>2, <2>2 DEF RefersBack, RefersTo
<1>6. ASSUME building # 0
      PROVE  before' = <<Restored'>> /\ WellBefore' /\ groups' # <<>> /\ funcs' # <<>> /\ MarkIsBehind' /\ OwnInterfaces'
  <2>0. before = <<Restored>> /\ WellBefore /\ groups # <<>> /\ funcs # <<>> /\ MarkIsBehind /\ OwnInterfaces
    BY <1>6 DEF BuildInv
  <2>1. SubSeq(descr', 1, gmark.descr_len) = SubSeq(descr, 1, gmark.descr_len)
    BY <1>1, <1>2, <2>0, AppendKeepsPrefix DEF MarkIsBehind
  <2>2. Restored' = Restored
    BY <1>2, <2>1 DEF Restored, RestoredTables, Unmapped, Unadvertised
  <2>3. MarkIsBehind'
    BY <1>2, <1>3, <2>0 DEF MarkIsBehind
  <2>4. OwnInterfaces'
    BY <1>2, <2>0 DEF OwnInterfaces
  <2> QED
    BY <1>2, <2>0, <2>2, <2>3, <2>4, BeforeKept
<1> QED
  BY <1>4, <1>5, <1>6 DEF BuildInv

LEMMA EndpointKeepsBuildInv ==
  ASSUME BuildInv, NEW want \in 0..MaxNumber, NEW dir \in Dirs, AddEndpoint(want, dir),
         UNCHANGED <<gmark, msos, funcs, building, made, before, cur_iface>>,
         building # 0 => cur_iface
  PROVE  BuildInv'
<1>0. BuildTypes /\ RefersBack
  BY DEF BuildInv
<1>1. PICK addr \in Addresses :
           /\ Preferred(CurrentOwner, addr)
           /\ eps' = Append(eps, [addr |-> addr, ifnum |-> CurrentOwner])
           /\ [addr |-> addr, ifnum |-> CurrentOwner] \in Endpoints
           /\ ep_map' = [ep_map EXCEPT ![addr] = Len(eps) + 1]
           /\ ep_reserved' = [ep_reserved EXCEPT ![addr] = 0]
           /\ descr' = Append(CountedBlob, Endpoint(addr)) /\ Endpoint(addr) \in Descriptors
           /\ UNCHANGED <<ifalts, cur_ifnum, cur_alt, if_present, n_ifnums, groups>>
  BY <1>0, AddEndpointTables
<1> DEFINE ep == [addr |-> addr, ifnum |-> CurrentOwner]
<1>2. /\ descr \in Seq(Descriptors) /\ ifalts \in Seq(Records) /\ eps \in Seq(Endpoints)
      /\ ep_map \in [Addresses -> Nat] /\ ep_reserved \in [Addresses -> Nat] /\ n_ifnums \in Nat
      /\ cur_ifnum \in Nat \cup {-1}
  BY <1>0 DEF BuildTypes, TypesOf
<1>3. /\ CountedBlob \in Seq(Descriptors) /\ Len(CountedBlob) = Len(descr) /\ Len(descr) \in Nat
      /\ \A i \in 1..Len(descr) : i \notin Counted => CountedBlob[i] = descr[i]
  BY <1>0, CountedBlobIs
<1>4. /\ descr' \in Seq(Descriptors) /\ Len(descr') = Len(descr) + 1
      /\ \A i \in 1..Len(descr) : descr'[i] = CountedBlob[i]
  BY <1>1, <1>3, Appends
<1>5. /\ eps' \in Seq(Endpoints) /\ Len(eps') = Len(eps) + 1 /\ Len(eps) \in Nat
      /\ eps'[Len(eps) + 1].ifnum = CurrentOwner /\ \A i \in 1..Len(eps) : eps'[i] = eps[i]
  <2> HIDE DEF ep
  <2>1. /\ eps' \in Seq(Endpoints) /\ Len(eps') = Len(eps) + 1 /\ Len(eps) \in Nat
        /\ eps'[Len(eps) + 1] = ep /\ \A i \in 1..Len(eps) : eps'[i] = eps[i]
    BY <1>1, <1>2, Appends DEF ep
  <2>2. ep.ifnum = CurrentOwner
    BY DEF ep
  <2> QED
    BY <2>1, <2>2
<1>6. ep_map' \in [Addresses -> Nat] /\ ep_reserved' \in [Addresses -> Nat]
  BY <1>1, <1>2, <1>5
<1>7. BuildTypes'
  BY <1>0, <1>1, <1>4, <1>5, <1>6 DEF BuildTypes, TypesOf
<1>8. CurrentOwner < n_ifnums \/ CurrentOwner = NoIf
  BY <1>0 DEF CurrentOwner, RefersBack, RefersTo
<1>9. RefersBack'
  <2>1. \A k \in 1..Len(ifalts) : ifalts[k].ifnum < n_ifnums /\ ifalts[k].off <= Len(descr')
    <3>1. \A k \in 1..Len(ifalts) : ifalts[k].off \in Nat /\ ifalts[k].ifnum < n_ifnums /\ ifalts[k].off <= Len(descr)
      BY <1>0, <1>2, RecordTypes DEF RefersBack, RefersTo
    <3> QED
      BY <1>3, <1>4, <3>1
  <2>2. \A k \in 1..Len(eps') : eps'[k].ifnum < n_ifnums \/ eps'[k].ifnum = NoIf
    <3>1. \A k \in 1..Len(eps') : k \in 1..Len(eps) \/ k = Len(eps) + 1
      BY <1>5
    <3>2. \A k \in 1..Len(eps) : eps[k].ifnum < n_ifnums \/ eps[k].ifnum = NoIf
      BY <1>0 DEF RefersBack, RefersTo
    <3> QED
      BY <1>5, <1>8, <3>1, <3>2
  <2>3. \A a \in Addresses : ep_map'[a] \in 0..Len(eps')
    <3>1. \A a \in Addresses : ep_map[a] \in 0..Len(eps)
      BY <1>0 DEF RefersBack, RefersTo
    <3>2. \A a \in Addresses : ep_map'[a] = IF a = addr THEN Len(eps) + 1 ELSE ep_map[a]
      BY <1>1, <1>2
    <3> QED
      BY <1>5, <3>1, <3>2
  <2> QED
    BY <1>0, <1>1, <2>1, <2>2, <2>3 DEF RefersBack, RefersTo
<1>10. ASSUME building # 0
       PROVE  before' = <<Restored'>> /\ WellBefore' /\ groups' # <<>> /\ funcs' # <<>> /\ MarkIsBehind' /\ OwnInterfaces'
  <2>0. before = <<Restored>> /\ WellBefore /\ groups # <<>> /\ funcs # <<>> /\ MarkIsBehind /\ OwnInterfaces
    BY <1>10 DEF BuildInv
  <2>1. /\ gmark.descr_len \in Nat /\ gmark.descr_len <= Len(descr) /\ gmark.n_eps \in Nat /\ gmark.n_eps <= Len(eps)
        /\ gmark.n_ifnums \in Nat /\ gmark.n_ifnums <= n_ifnums /\ gmark.n_ifalts \in Nat
    BY <2>0 DEF MarkIsBehind
  <2>2. cur_ifnum \in Nat /\ cur_ifnum >= gmark.n_ifnums /\ cur_ifnum < n_ifnums /\ CurrentOwner = cur_ifnum
        /\ CurrentOwner # NoIf
    <3>1. cur_ifnum >= gmark.n_ifnums /\ cur_ifnum < n_ifnums /\ n_ifnums <= MaxIf + 1
      BY <1>0, <1>10, <2>0 DEF OwnInterfaces, RefersBack, RefersTo
    <3> QED
      BY <1>2, <2>1, <3>1, Bounds DEF CurrentOwner, NoIf
  <2>3. \A i \in 1..gmark.descr_len : i \notin Counted
    <3> SUFFICES ASSUME NEW i \in 1..gmark.descr_len, i \in Counted PROVE FALSE
      OBVIOUS
    <3>1. PICK k \in ifalt_for(cur_ifnum, cur_alt) : i = ifalts[k].off
      BY <2>2 DEF Counted
    <3>2. k \in 1..Len(ifalts) /\ ifalts[k].ifnum = cur_ifnum
      BY <1>2, <3>1, LenProperties DEF ifalt_for
    <3>3. ifalts[k].off > gmark.descr_len
      BY <2>0, <2>1, <2>2, <3>2 DEF OwnInterfaces
    <3> QED
      BY <2>1, <3>1, <3>3
  <2>4. SubSeq(descr', 1, gmark.descr_len) = SubSeq(descr, 1, gmark.descr_len)
    <3>1. gmark.descr_len <= Len(descr') /\ \A i \in 1..gmark.descr_len : i \in 1..Len(descr)
      BY <1>3, <1>4, <2>1
    <3>2. \A i \in 1..gmark.descr_len : descr'[i] = descr[i]
      BY <1>3, <1>4, <2>3, <3>1
    <3> QED
      BY <1>2, <1>4, <2>1, <3>1, <3>2, SamePrefix
  <2>5. SubSeq(eps', 1, gmark.n_eps) = SubSeq(eps, 1, gmark.n_eps)
    <3>1. gmark.n_eps <= Len(eps') /\ \A i \in 1..gmark.n_eps : eps'[i] = eps[i]
      BY <1>5, <2>1
    <3> QED
      BY <1>2, <1>5, <2>1, <3>1, SamePrefix
  <2>6. Unmapped' = Unmapped
    <3>1. Unmapped = [a \in Addresses |-> IF ep_map[a] \in (gmark.n_eps + 1)..Len(eps) THEN 0 ELSE ep_map[a]]
      BY DEF Unmapped
    <3>2. Unmapped' = [a \in Addresses |-> IF ep_map'[a] \in (gmark.n_eps + 1)..Len(eps') THEN 0 ELSE ep_map'[a]]
      BY DEF Unmapped
    <3>3. ASSUME NEW a \in Addresses
          PROVE  (IF ep_map'[a] \in (gmark.n_eps + 1)..Len(eps') THEN 0 ELSE ep_map'[a])
                   = IF ep_map[a] \in (gmark.n_eps + 1)..Len(eps) THEN 0 ELSE ep_map[a]
      <4>1. ep_map[a] \in 0..Len(eps) /\ ep_map'[a] = IF a = addr THEN Len(eps) + 1 ELSE ep_map[a]
        BY <1>0, <1>1, <1>2 DEF RefersBack, RefersTo
      <4>2. CASE a = addr
        <5>1. ep_map[a] # 0 => eps[ep_map[a]].ifnum = CurrentOwner
          BY <1>1, <4>2 DEF Preferred
        <5>2. ep_map[a] # 0 => ~(ep_map[a] \in 1..gmark.n_eps)
          BY <2>0, <2>1, <2>2, <5>1 DEF OwnInterfaces
        <5>3. ep_map[a] = 0 \/ ep_map[a] \in (gmark.n_eps + 1)..Len(eps)
          BY <1>5, <2>1, <4>1, <5>2
        <5>4. ep_map'[a] \in (gmark.n_eps + 1)..Len(eps')
          BY <1>5, <2>1, <4>1, <4>2
        <5> QED
          BY <1>5, <2>1, <5>3, <5>4
      <4>3. CASE a # addr
        <5>1. ep_map'[a] = ep_map[a]
          BY <4>1, <4>3
        <5>2. ep_map[a] \in (gmark.n_eps + 1)..Len(eps') <=> ep_map[a] \in (gmark.n_eps + 1)..Len(eps)
          BY <1>5, <2>1, <4>1
        <5> QED
          BY <5>1, <5>2
      <4> QED
        BY <4>2, <4>3
    <3> QED
      BY <3>1, <3>2, <3>3
  <2>7. SubSeq(groups', 1, Len(groups') - 1) = SubSeq(groups, 1, Len(groups) - 1) /\ SubSeq(ifalts', 1, gmark.n_ifalts) = SubSeq(ifalts, 1, gmark.n_ifalts)
    BY <1>1
  <2>8. Restored' = Restored
    BY <1>1, <2>4, <2>5, <2>6, <2>7 DEF Restored, RestoredTables, Unadvertised
  <2>9. MarkIsBehind'
    BY <1>1, <1>3, <1>4, <1>5, <2>0 DEF MarkIsBehind
  <2>10. OwnInterfaces'
    <3>1. \A k \in 1..gmark.n_eps : eps'[k].ifnum < gmark.n_ifnums \/ eps'[k].ifnum = NoIf
      <4>1. \A k \in 1..gmark.n_eps : eps[k].ifnum < gmark.n_ifnums \/ eps[k].ifnum = NoIf
        BY <2>0 DEF OwnInterfaces
      <4>2. \A k \in 1..gmark.n_eps : eps'[k] = eps[k]
        BY <1>5, <2>1
      <4> QED
        BY <4>1, <4>2
    <3> QED
      BY <1>1, <2>0, <3>1 DEF OwnInterfaces
  <2> QED
    BY <1>1, <2>0, <2>8, <2>9, <2>10, BeforeKept
<1> QED
  BY <1>7, <1>9, <1>10 DEF BuildInv

LEMMA ReserveKeepsBuildInv ==
  ASSUME BuildInv, NEW want \in 0..MaxNumber, NEW dir \in Dirs, Reserve(want, dir),
         UNCHANGED <<gmark, msos, funcs, building, made, before, cur_iface>>
  PROVE  BuildInv'
<1>0. BuildTypes /\ RefersBack
  BY DEF BuildInv
<1>1. PICK addr \in Addresses : ep_reserved' = [ep_reserved EXCEPT ![addr] = cur_ifnum + 1]
  BY <1>0, ReserveTables
<1>2. /\ cur_ifnum \in Nat
      /\ UNCHANGED <<descr, ifalts, cur_ifnum, cur_alt, if_present, n_ifnums, eps, ep_map, groups>>
  BY <1>0, ReserveTables
<1>3. ep_reserved' \in [Addresses -> Nat]
  BY <1>0, <1>1, <1>2 DEF BuildTypes, TypesOf
<1>4. BuildTypes'
  BY <1>0, <1>2, <1>3 DEF BuildTypes, TypesOf
<1>5. RefersBack'
  BY <1>0, <1>2 DEF RefersBack, RefersTo
<1>6. Restored' = Restored
  BY <1>2 DEF Restored, RestoredTables, Unmapped, Unadvertised
<1>7. (MarkIsBehind => MarkIsBehind') /\ (OwnInterfaces => OwnInterfaces')
  BY <1>2 DEF MarkIsBehind, OwnInterfaces
<1> QED
  BY <1>2, <1>4, <1>5, <1>6, <1>7, BeforeKept DEF BuildInv

LEMMA AddClassBuildInv ==
  ASSUME BuildInv, AddClass
  PROVE  BuildInv'
<1>0. BuildTypes /\ RefersBack
  BY DEF BuildInv
<1> DEFINE g == [first_ifnum |-> 0, n_ifs |-> 0, descr_off |-> Len(descr)]
<1>1. /\ before' = <<Contents>> /\ made' = made + 1 /\ building' = made + 1 /\ funcs' = Append(funcs, made + 1)
      /\ cur_iface' = FALSE /\ gmark' = Mark /\ groups' = Append(groups, g)
      /\ UNCHANGED <<descr, ifalts, cur_ifnum, cur_alt, if_present, n_ifnums, eps, ep_map, ep_reserved, ctrl, msos>>
      /\ building = 0
  BY DEF AddClass, GroupBegin, tables
<1>2. /\ descr \in Seq(Descriptors) /\ ifalts \in Seq(Records) /\ eps \in Seq(Endpoints)
      /\ groups \in Seq(GroupRecords) /\ funcs \in Seq(Nat) /\ n_ifnums \in Nat
      /\ Len(descr) \in Nat /\ Len(ifalts) \in Nat /\ Len(eps) \in Nat /\ Len(groups) \in Nat
      /\ ep_map \in [Addresses -> Nat]
  BY <1>0, LenProperties DEF BuildTypes, TypesOf
<1>3. g \in GroupRecords
  BY <1>2 DEF GroupRecords
<1>4. /\ groups' \in Seq(GroupRecords) /\ Len(groups') = Len(groups) + 1 /\ groups' # <<>>
      /\ \A k \in 1..Len(groups) : groups'[k] = groups[k]
  <2>1. PICK h \in GroupRecords : h = g
    BY <1>3
  <2>2. groups' = Append(groups, h)
    BY <1>1, <2>1
  <2> HIDE DEF g
  <2>3. Append(groups, h) \in Seq(GroupRecords) /\ Len(Append(groups, h)) = Len(groups) + 1
    BY <1>2, Appends
  <2>4. Append(groups, h) # <<>> /\ \A k \in 1..Len(groups) : Append(groups, h)[k] = groups[k]
    BY <1>2, Appends
  <2> QED
    BY <2>2, <2>3, <2>4
<1>5. made \in Nat /\ made + 1 \in Nat /\ funcs' \in Seq(Nat) /\ funcs' # <<>>
  <2>1. made \in Nat /\ made + 1 \in Nat
    BY <1>0 DEF BuildTypes, TypesOf
  <2>2. PICK n \in Nat : n = made + 1
    BY <2>1
  <2>3. Append(funcs, n) \in Seq(Nat)
    BY <1>2, AppendProperties
  <2>4. Append(funcs, n) # <<>>
    <3>1. Len(Append(funcs, n)) = Len(funcs) + 1 /\ Len(funcs) \in Nat
      BY <1>2, LenProperties
    <3>2. Len(Append(funcs, n)) # Len(<<>>)
      BY <3>1
    <3> QED
      BY <3>2, Zenon
  <2> QED
    BY <1>1, <2>1, <2>2, <2>3, <2>4
<1>6. BuildTypes'
  BY <1>0, <1>1, <1>4, <1>5 DEF BuildTypes, TypesOf
<1>7. RefersBack'
  BY <1>0, <1>1, <1>2, <1>4 DEF RefersBack, RefersTo
<1>8. /\ gmark'.descr_len = Len(descr) /\ gmark'.n_ifalts = Len(ifalts) /\ gmark'.n_eps = Len(eps)
      /\ gmark'.n_ifnums = n_ifnums /\ gmark'.cur_ifnum = cur_ifnum /\ gmark'.cur_alt = cur_alt
      /\ gmark'.if_present = if_present /\ gmark'.ep_reserved = ep_reserved
      /\ gmark'.ctrl = ctrl /\ gmark'.ctrl_default = ctrl_default
  BY <1>1 DEF Mark
<1>9. MarkIsBehind'
  BY <1>1, <1>2, <1>8 DEF MarkIsBehind
<1>10. OwnInterfaces'
  <2>1. \A k \in 1..Len(ifalts) : ifalts[k].ifnum < n_ifnums /\ k <= Len(ifalts)
    BY <1>0 DEF RefersBack, RefersTo
  <2>2. \A k \in 1..Len(eps) : eps[k].ifnum < n_ifnums \/ eps[k].ifnum = NoIf
    BY <1>0 DEF RefersBack, RefersTo
  <2> QED
    BY <1>1, <1>8, <2>1, <2>2 DEF OwnInterfaces
<1>11. Unmapped' = ep_map
  <2>1. Unmapped' = [a \in Addresses |-> IF ep_map[a] \in (Len(eps) + 1)..Len(eps) THEN 0 ELSE ep_map[a]]
    BY <1>1, <1>8 DEF Unmapped
  <2>2. \A x : x \notin (Len(eps) + 1)..Len(eps)
    BY <1>2
  <2> QED
    BY <1>2, <2>1, <2>2
<1>12. RestoredTables' = tables
  <2>1. SubSeq(descr, 1, Len(descr)) = descr /\ SubSeq(ifalts, 1, Len(ifalts)) = ifalts /\ SubSeq(eps, 1, Len(eps)) = eps
    BY <1>2, WholeIs
  <2> QED
    BY <1>1, <1>8, <1>11, <2>1 DEF RestoredTables, tables
<1>13. SubSeq(groups', 1, Len(groups') - 1) = groups
  <2>1. Len(groups') - 1 = Len(groups)
    BY <1>2, <1>4
  <2>2. SubSeq(groups', 1, Len(groups)) = SubSeq(groups, 1, Len(groups))
    BY <1>2, <1>4, SamePrefix
  <2> QED
    BY <1>2, <2>1, <2>2, WholeIs
<1>14. (msos' \ {Len(groups') - 1}) \ {-1} = msos \ {-1}
  <2>1. Len(groups') - 1 = Len(groups) /\ Len(groups) \notin msos
    BY <1>0, <1>2, <1>4 DEF RefersBack, RefersTo
  <2>2. \A x \in msos : x # Len(groups)
    BY <2>1
  <2>3. msos' = msos
    BY <1>1
  <2> QED
    BY <2>1, <2>2, <2>3
<1>15. Restored' = Contents
  <2>1. Restored' = [tables |-> RestoredTables', groups |-> SubSeq(groups', 1, Len(groups') - 1),
                     routes |-> <<gmark'.ctrl, gmark'.ctrl_default>>,
                     msos |-> (msos' \ {Len(groups') - 1}) \ {-1}]
    BY DEF Restored, Unadvertised
  <2> QED
    BY <1>8, <1>12, <1>13, <1>14, <2>1 DEF Contents, routes
<1>16. WellBefore'
  <2>1. /\ TypesOf(descr, ifalts, cur_ifnum, cur_alt, n_ifnums, eps, ep_map, ep_reserved, groups)
        /\ RefersTo(descr, ifalts, cur_ifnum, n_ifnums, eps, ep_map, groups, msos \ {-1})
    BY <1>0 DEF BuildTypes, RefersBack, RefersTo
  <2>2. before'[1] = Contents
    BY <1>1
  <2>3. /\ before'[1].tables = tables /\ before'[1].groups = groups /\ before'[1].msos = msos \ {-1}
    BY <2>2 DEF Contents
  <2>4. /\ tables[1] = descr /\ tables[2] = ifalts /\ tables[3] = cur_ifnum /\ tables[4] = cur_alt
        /\ tables[6] = n_ifnums /\ tables[7] = eps /\ tables[8] = ep_map /\ tables[9] = ep_reserved
    BY DEF tables
  <2> QED
    BY <2>1, <2>3, <2>4 DEF WellBefore
<1> QED
  BY <1>1, <1>4, <1>5, <1>6, <1>7, <1>9, <1>10, <1>15, <1>16 DEF BuildInv

LEMMA FailClassRestores ==
  ASSUME BuildInv, FailClass
  PROVE  /\ Contents' = before[1] /\ building' = 0
         /\ Len(funcs') = Len(funcs) - 1 /\ Len(funcs) \in Nat /\ funcs' \in Seq(Nat)
         /\ tables' = RestoredTables /\ groups' = SubSeq(groups, 1, Len(groups) - 1)
<1>0. /\ BuildTypes /\ before = <<Restored>> /\ WellBefore /\ groups # <<>> /\ funcs # <<>>
  BY DEF BuildInv, FailClass
<1>1. /\ tables' = RestoredTables /\ groups' = SubSeq(groups, 1, Len(groups) - 1)
      /\ routes' = <<gmark.ctrl, gmark.ctrl_default>> /\ msos' = Unadvertised(Len(groups) - 1)
  BY DEF FailClass, GroupAbort, tables, RestoredTables, RestoredRoutes, routes
<1>2. Contents' = Restored
  BY <1>1 DEF Contents, Restored
<1>3. PICK n : n = Len(funcs) - 1
  OBVIOUS
<1>4. n \in Nat /\ n <= Len(funcs) /\ Len(funcs) \in Nat /\ funcs \in Seq(Nat)
  BY <1>0, <1>3, EmptySeq, LenProperties DEF BuildTypes, TypesOf
<1>5. funcs' = SubSeq(funcs, 1, n) /\ building' = 0
  BY <1>3 DEF FailClass
<1>6. Len(funcs') = n /\ funcs' \in Seq(Nat)
  BY <1>4, <1>5, PrefixType
<1> QED
  BY <1>0, <1>1, <1>2, <1>3, <1>4, <1>5, <1>6

LEMMA FailClassBuildInv ==
  ASSUME BuildInv, FailClass
  PROVE  BuildInv'
<1>0. WellBefore /\ BuildTypes
  BY DEF BuildInv, FailClass
<1>1. Contents' = before[1] /\ building' = 0 /\ funcs' \in Seq(Nat)
  BY FailClassRestores
<1>2. before[1].tables = tables' /\ before[1].groups = groups' /\ before[1].msos = msos' \ {-1}
  BY <1>1 DEF Contents
<1>3. /\ tables'[1] = descr' /\ tables'[2] = ifalts' /\ tables'[3] = cur_ifnum' /\ tables'[4] = cur_alt'
      /\ tables'[6] = n_ifnums' /\ tables'[7] = eps' /\ tables'[8] = ep_map' /\ tables'[9] = ep_reserved'
  BY DEF tables
<1>4. /\ TypesOf(descr', ifalts', cur_ifnum', cur_alt', n_ifnums', eps', ep_map', ep_reserved', groups')
      /\ RefersTo(descr', ifalts', cur_ifnum', n_ifnums', eps', ep_map', groups', msos' \ {-1})
  BY <1>0, <1>2, <1>3 DEF WellBefore
<1>5. made' \in Nat
  BY <1>0 DEF FailClass, BuildTypes
<1>6. BuildTypes'
  BY <1>1, <1>4, <1>5 DEF BuildTypes
<1>7. RefersBack'
  <2>1. Len(groups') \in Nat
    BY <1>4, LenProperties DEF TypesOf
  <2>2. msos' \ {-1} \subseteq -1..(Len(groups') - 1) /\ -1 \in -1..(Len(groups') - 1)
    BY <1>4, <2>1 DEF RefersTo
  <2>3. msos' \subseteq -1..(Len(groups') - 1)
    BY <2>2
  <2> QED
    BY <1>4, <2>3 DEF RefersBack, RefersTo
<1> QED
  BY <1>1, <1>6, <1>7 DEF BuildInv

LEMMA InitBuildInv == Init => BuildInv
<1> SUFFICES ASSUME Init PROVE BuildInv
  OBVIOUS
<1>1. /\ descr = <<>> /\ ifalts = <<>> /\ eps = <<>> /\ groups = <<>> /\ funcs = <<>>
      /\ cur_ifnum = -1 /\ cur_alt = -1 /\ n_ifnums = 0 /\ ep_map = [a \in Addresses |-> 0]
      /\ ep_reserved = [a \in Addresses |-> 0] /\ msos = {} /\ building = 0 /\ made = 0
  BY DEF Init
<1>2. \A S : <<>> \in Seq(S)
  BY EmptySeq
<1>3. Len(<<>>) = 0
  BY EmptySeq
<1>4. BuildTypes
  BY <1>1, <1>2 DEF BuildTypes, TypesOf
<1>5. RefersBack
  BY <1>1, <1>3, Bounds DEF RefersBack, RefersTo
<1> QED
  BY <1>1, <1>4, <1>5 DEF BuildInv

LEMMA NextBuildInv ==
  ASSUME BuildInv, [Next]_vars
  PROVE  BuildInv'
<1>0. BuildTypes /\ RefersBack
  BY DEF BuildInv
<1>1. CASE AddClass \/ FailClass
  BY <1>1, AddClassBuildInv, FailClassBuildInv
<1>2. CASE EndClass
  <2>1. UNCHANGED <<tables, groups, gmark, msos, funcs, made>> /\ building' = 0
    BY <1>2 DEF EndClass
  <2> QED
    BY <1>0, <2>1 DEF BuildInv, BuildTypes, RefersBack, tables
<1>3. CASE FunctionAddOther
  BY <1>3, OtherKeepsBuildInv DEF FunctionAddOther, layer
<1>4. ASSUME NEW i \in IfNums, NEW alt \in 0..MaxAlt, FunctionAddInterface(i, alt)
      PROVE  BuildInv'
  <2>1. /\ building # 0 /\ ClassDeclares(i, alt) /\ AddInterface(i, alt)
        /\ UNCHANGED <<gmark, msos, funcs, building, made, before>>
    BY <1>4 DEF FunctionAddInterface
  <2>2. n_ifnums \in Nat /\ cur_ifnum \in Nat \cup {-1} /\ cur_ifnum < n_ifnums
        /\ gmark.n_ifnums \in Nat /\ gmark.n_ifnums <= n_ifnums
        /\ (cur_iface => cur_ifnum >= gmark.n_ifnums)
    BY <1>0, <2>1 DEF BuildInv, BuildTypes, TypesOf, RefersBack, RefersTo, MarkIsBehind, OwnInterfaces
  <2>3. i <= n_ifnums /\ i >= gmark.n_ifnums
    BY <2>1, <2>2 DEF ClassDeclares
  <2> QED
    BY <2>1, <2>3, InterfaceKeepsBuildInv
<1>5. ASSUME NEW i \in IfNums, NEW alt \in 0..MaxAlt, AppAddInterface(i, alt)
      PROVE  BuildInv'
  <2>1. /\ building = 0 /\ AddInterface(i, alt) /\ (i < n_ifnums \/ i = n_ifnums)
        /\ UNCHANGED <<gmark, msos, funcs, building, made, before>>
    BY <1>5 DEF AppAddInterface, layer
  <2>2. i <= n_ifnums
    BY <1>0, <2>1, Bounds DEF BuildTypes, TypesOf, IfNums
  <2> QED
    BY <2>1, <2>2, InterfaceKeepsBuildInv
<1>6. ASSUME NEW want \in 0..MaxNumber, NEW dir \in Dirs,
             FunctionAddEndpoint(want, dir) \/ AppAddEndpoint(want, dir)
      PROVE  BuildInv'
  BY <1>6, EndpointKeepsBuildInv DEF FunctionAddEndpoint, AppAddEndpoint, layer
<1>7. ASSUME NEW want \in 0..MaxNumber, NEW dir \in Dirs,
             FunctionReserve(want, dir) \/ AppReserve(want, dir)
      PROVE  BuildInv'
  BY <1>7, ReserveKeepsBuildInv DEF FunctionReserve, AppReserve, layer
<1>8. ASSUME NEW group, EnableMsos(group)
      PROVE  BuildInv'
  <2>1. /\ group \in {Len(groups) - 1, -1} /\ building # 0 /\ msos' = msos \cup {group}
        /\ UNCHANGED <<tables, groups, gmark, funcs, building, made, before, cur_iface>>
    BY <1>8 DEF EnableMsos, layer
  <2>2. BuildTypes'
    BY <1>0, <2>1 DEF BuildTypes, tables
  <2>3. Len(groups) \in Nat
    BY <1>0, LenProperties DEF BuildTypes, TypesOf
  <2>4. msos' \subseteq -1..(Len(groups) - 1)
    <3>1. msos \subseteq -1..(Len(groups) - 1)
      BY <1>0 DEF RefersBack, RefersTo
    <3>2. group \in -1..(Len(groups) - 1)
      BY <2>1, <2>3
    <3> QED
      BY <2>1, <3>1, <3>2
  <2>5. RefersBack'
    BY <1>0, <2>1, <2>4 DEF RefersBack, RefersTo, tables
  <2>6. Restored' = Restored
    <3>1. RestoredTables' = RestoredTables
      BY <2>1 DEF RestoredTables, Unmapped, tables
    <3>2. (msos' \ {Len(groups) - 1}) \ {-1} = (msos \ {Len(groups) - 1}) \ {-1}
      BY <2>1
    <3> QED
      BY <2>1, <3>1, <3>2 DEF Restored, Unadvertised
  <2>7. (MarkIsBehind => MarkIsBehind') /\ (OwnInterfaces => OwnInterfaces')
    BY <2>1 DEF MarkIsBehind, OwnInterfaces, tables
  <2> QED
    BY <2>1, <2>2, <2>5, <2>6, <2>7, BeforeKept DEF BuildInv
<1>9. CASE UNCHANGED vars
  <2>1. UNCHANGED <<tables, groups, gmark, msos, funcs, building, made, before, cur_iface>>
    BY <1>9 DEF vars, layer
  <2>2. Restored' = Restored
    BY <2>1 DEF Restored, RestoredTables, Unmapped, Unadvertised, tables
  <2>3. (MarkIsBehind => MarkIsBehind') /\ (OwnInterfaces => OwnInterfaces')
    BY <2>1 DEF MarkIsBehind, OwnInterfaces, tables
  <2>4. BuildTypes' /\ RefersBack'
    BY <1>0, <2>1 DEF BuildTypes, RefersBack, tables
  <2> QED
    BY <2>1, <2>2, <2>3, <2>4, BeforeKept DEF BuildInv
<1> QED
  BY <1>1, <1>2, <1>3, <1>4, <1>5, <1>6, <1>7, <1>8, <1>9 DEF Next

LEMMA BuildInvariant == Spec => []BuildInv
<1>1. BuildInv /\ [Next]_vars => BuildInv'
  BY NextBuildInv
<1> QED
  BY <1>1, InitBuildInv, PTL DEF Spec

\* Which steps take a function out again.
LEMMA OnlyFailClassRemoves ==
  ASSUME BuildInv, [Next]_vars, ~FailClass
  PROVE  funcs' = funcs \/ funcs' = Append(funcs, made + 1)
BY DEF Next, vars, layer, AddClass, EndClass, FunctionAddOther, FunctionAddInterface, AppAddInterface,
       FunctionAddEndpoint, AppAddEndpoint, FunctionReserve, AppReserve, EnableMsos

\* usbip_device_group_abort after a build callback that failed, wherever it failed: the
\* tables, the groups, the request routes and the other functions' advertisements are what
\* they were before usbip_device_add_class, for tables of any size.
THEOREM RollbackExactHolds == Spec => RollbackExact
<1>1. ASSUME BuildInv, [Next]_vars
      PROVE  Len(funcs') < Len(funcs) => Contents' = before[1]
  <2>1. CASE FailClass
    BY <1>1, <2>1, FailClassRestores
  <2>2. CASE ~FailClass
    <3>1. funcs \in Seq(Nat) /\ made + 1 \in Nat
      BY <1>1 DEF BuildInv, BuildTypes
    <3>2. Len(Append(funcs, made + 1)) = Len(funcs) + 1 /\ Len(funcs) \in Nat
      BY <3>1, LenProperties
    <3>3. funcs' = funcs \/ funcs' = Append(funcs, made + 1)
      BY <1>1, <2>2, OnlyFailClassRemoves
    <3>4. ~(Len(funcs') < Len(funcs))
      BY <3>2, <3>3
    <3> QED
      BY <3>4
  <2> QED
    BY <2>1, <2>2
<1>2. BuildInv /\ [Next]_vars => [Len(funcs') < Len(funcs) => Contents' = before[1]]_vars
  BY <1>1
<1> QED
  BY <1>2, BuildInvariant, PTL DEF Spec, RollbackExact

\* usbip_device_reserve_endpoint is kept to: a reserved address is lost only to an endpoint
\* of the interface that reserved it, or with the function that reserved it, although
\* ep_alloc_number relocates endpoints and usbip_device_group_abort restores the claims.
THEOREM ReservationKeptHolds == Spec => ReservationKept
<1>1. ASSUME BuildInv, [Next]_vars,
             NEW a \in Addresses, ep_reserved[a] # 0, ep_reserved'[a] # ep_reserved[a]
      PROVE  \/ eps' = Append(eps, [addr |-> a, ifnum |-> ep_reserved[a] - 1])
             \/ Len(funcs') < Len(funcs) /\ ep_reserved[a] # before[1].tables[9][a]
  <2>0. BuildTypes /\ ep_reserved \in [Addresses -> Nat]
    BY <1>1 DEF BuildInv, BuildTypes, TypesOf
  <2>1. ASSUME NEW want \in 0..MaxNumber, NEW dir \in Dirs, AddEndpoint(want, dir)
        PROVE  eps' = Append(eps, [addr |-> a, ifnum |-> ep_reserved[a] - 1])
    <3>1. PICK addr \in Addresses :
            /\ Preferred(CurrentOwner, addr)
            /\ eps' = Append(eps, [addr |-> addr, ifnum |-> CurrentOwner])
            /\ ep_reserved' = [ep_reserved EXCEPT ![addr] = 0]
      BY <2>0, <2>1, AddEndpointTables
    <3>2. a = addr
      BY <1>1, <2>0, <3>1
    <3>3. ep_reserved[a] = CurrentOwner + 1
      BY <1>1, <3>1, <3>2 DEF Preferred, ep_reservation_allows
    <3>4. CurrentOwner \in Nat
      BY <2>0 DEF CurrentOwner, NoIf, BuildTypes, TypesOf
    <3>5. CurrentOwner = ep_reserved[a] - 1
      BY <3>3, <3>4
    <3> QED
      BY <3>1, <3>2, <3>5
  <2>2. ASSUME NEW want \in 0..MaxNumber, NEW dir \in Dirs, Reserve(want, dir)
        PROVE  FALSE
    <3>1. PICK addr \in Addresses :
            Preferred(cur_ifnum, addr) /\ ep_reserved' = [ep_reserved EXCEPT ![addr] = cur_ifnum + 1]
      BY <2>0, <2>2, ReserveTables
    <3>2. a = addr /\ ep_reserved'[a] = cur_ifnum + 1
      BY <1>1, <2>0, <3>1
    <3>3. ep_reserved[a] = cur_ifnum + 1
      BY <1>1, <3>1, <3>2 DEF Preferred, ep_reservation_allows
    <3> QED
      BY <1>1, <3>2, <3>3
  <2>3. ASSUME FailClass
        PROVE  Len(funcs') < Len(funcs) /\ ep_reserved[a] # before[1].tables[9][a]
    <3>1. before[1] = Contents' /\ Len(funcs') = Len(funcs) - 1 /\ Len(funcs) \in Nat
      BY <1>1, <2>3, FailClassRestores
    <3>2. before[1].tables[9] = ep_reserved'
      BY <3>1 DEF Contents, tables
    <3> QED
      BY <1>1, <3>1, <3>2
  <2>4. CASE AddClass \/ EndClass \/ FunctionAddOther \/ UNCHANGED vars
    BY <1>1, <2>4 DEF AddClass, EndClass, FunctionAddOther, AddOther, vars, tables
  <2>5. ASSUME NEW i, NEW alt, FunctionAddInterface(i, alt) \/ AppAddInterface(i, alt)
        PROVE  FALSE
    BY <1>1, <2>5 DEF FunctionAddInterface, AppAddInterface, AddInterface
  <2>6. ASSUME NEW group, EnableMsos(group)
        PROVE  FALSE
    BY <1>1, <2>6 DEF EnableMsos, tables
  <2> QED
    BY <1>1, <2>1, <2>2, <2>3, <2>4, <2>5, <2>6
       DEF Next, FunctionAddEndpoint, AppAddEndpoint, FunctionReserve, AppReserve
<1>2. BuildInv /\ [Next]_vars =>
        [\A a \in Addresses :
           ep_reserved[a] # 0 /\ ep_reserved'[a] # ep_reserved[a] =>
             \/ eps' = Append(eps, [addr |-> a, ifnum |-> ep_reserved[a] - 1])
             \/ Len(funcs') < Len(funcs) /\ ep_reserved[a] # before[1].tables[9][a]]_vars
  BY <1>1
<1> QED
  BY <1>2, BuildInvariant, PTL DEF Spec, ReservationKept

-----------------------------------------------------------------------------
(* The tables agree                                                        *)

\* Position i of the blob d is an interface descriptor; it is one of this setting.
IsIf(d, i) == d[i].kind = "if"
Declares(d, i, n, s) == IsIf(d, i) /\ d[i].ifnum = n /\ d[i].alt = s

\* The endpoint descriptors among the first j, and those that belong to the interface at i:
\* no other interface descriptor is in between.
EpsThrough(d, j) == {k \in 1..j : d[k].kind = "ep"}
EpCount(d, j) == Cardinality(EpsThrough(d, j))
Below(d, i) == {j \in 1..Len(d) : d[j].kind = "ep" /\ i < j /\ \A k \in 1..(j - 1) : IsIf(d, k) => k <= i}

\* The blob's endpoints are those of the table, in order, each below its interface.
BlobHasEps(d, e) ==
  /\ EpCount(d, Len(d)) = Len(e)
  /\ \A j \in 1..Len(d) : d[j].kind = "ep" => d[j].addr = e[EpCount(d, j)].addr
  /\ \A i \in 1..Len(d) : IsIf(d, i) => \A j \in Below(d, i) : e[EpCount(d, j)].ifnum = d[i].ifnum

\* A record leads to the last descriptor of its setting; a setting has none only when the
\* table of records is full.
Recorded(r, n, s) == \E k \in 1..Len(r) : r[k].ifnum = n /\ r[k].alt = s
RecordsLead(d, r) ==
  /\ \A k \in 1..Len(r) :
       /\ r[k].off \in 1..Len(d) /\ Declares(d, r[k].off, r[k].ifnum, r[k].alt)
       /\ \A i \in 1..Len(d) : Declares(d, i, r[k].ifnum, r[k].alt) => i <= r[k].off
  /\ \A i \in 1..Len(d) : IsIf(d, i) => Recorded(r, d[i].ifnum, d[i].alt) \/ Len(r) >= MaxIfalts

\* bNumEndpoints is right, as long as the setting has a record.
CountsMatch(d, r) ==
  \A i \in 1..Len(d) :
    IsIf(d, i) /\ Recorded(r, d[i].ifnum, d[i].alt) => d[i].count = Cardinality(Below(d, i))

\* The cursor is the last interface descriptor.
CursorIsLast(d, ci, ca) ==
  /\ ci = -1 => \A i \in 1..Len(d) : ~IsIf(d, i)
  /\ ci # -1 => \E p \in 1..Len(d) : Declares(d, p, ci, ca) /\ \A i \in 1..Len(d) : IsIf(d, i) => i <= p

\* The numbers of the interfaces declared are those below n_ifnums.
NumbersInOrder(d, ip, nn) ==
  /\ ip = {x \in 0..(nn - 1) : x < MaxIf}
  /\ \A i \in 1..Len(d) : IsIf(d, i) => d[i].ifnum < nn
  /\ \A x \in 0..(nn - 1) : \E i \in 1..Len(d) : IsIf(d, i) /\ d[i].ifnum = x

\* The map leads to the last endpoint of an address.
MapLeads(e, m) ==
  \A a \in Addresses :
    /\ m[a] # 0 => e[m[a]].addr = a
    /\ \A i \in 1..Len(e) : e[i].addr = a => i <= m[a]

\* Whatever claims an address belongs to one interface.
OneInterface(e, v, nn) ==
  /\ \A i, j \in 1..Len(e) : e[i].addr = e[j].addr => e[i].ifnum = e[j].ifnum
  /\ \A a \in Addresses : v[a] <= nn
  /\ \A i \in 1..Len(e) : v[e[i].addr] # 0 => v[e[i].addr] = e[i].ifnum + 1

\* A group counts the interfaces that were first declared in its slice of the blob.
FirstOf(d, n, x) == IsIf(d, n) /\ d[n].ifnum = x /\ \A k \in 1..(n - 1) : ~(IsIf(d, k) /\ d[k].ifnum = x)
Firsts(d, a, b) == {x \in 0..(MaxIf - 1) : \E n \in (a + 1)..b : FirstOf(d, n, x)}
EndOf(d, g, k) == IF k < Len(g) THEN g[k + 1].descr_off ELSE Len(d)
Counts(d, h, b) == Firsts(d, h.descr_off, b) = h.first_ifnum..(h.first_ifnum + h.n_ifs - 1)
GroupsCount(d, g, nn) ==
  /\ \A k \in 1..Len(g) : g[k].descr_off <= Len(d) /\ EndOf(d, g, k) <= Len(d) /\ Counts(d, g[k], EndOf(d, g, k))
  /\ Len(g) # 0 /\ g[Len(g)].n_ifs > 0 =>
       g[Len(g)].first_ifnum + g[Len(g)].n_ifs = IF nn < MaxIf THEN nn ELSE MaxIf

Sound(d, r, ci, ca, ip, nn, e, m, v, g) ==
  /\ BlobHasEps(d, e) /\ RecordsLead(d, r) /\ CountsMatch(d, r) /\ CursorIsLast(d, ci, ca)
  /\ NumbersInOrder(d, ip, nn) /\ MapLeads(e, m) /\ OneInterface(e, v, nn)
  /\ GroupsCount(d, g, nn)

\* The tables are sound, and so are those a rollback would restore.
SoundNow == Sound(descr, ifalts, cur_ifnum, cur_alt, if_present, n_ifnums, eps, ep_map, ep_reserved, groups)
SoundThen ==
  LET t == before[1].tables
  IN Sound(t[1], t[2], t[3], t[4], t[5], t[6], t[7], t[8], t[9], before[1].groups)
SoundInv == SoundNow /\ (building # 0 => SoundThen)

-----------------------------------------------------------------------------
(* One descriptor more                                                     *)

\* The blob b is d with one descriptor more; bNumEndpoints may have changed.
Extends(d, b) ==
  /\ Len(d) \in Nat /\ Len(b) = Len(d) + 1
  /\ \A i \in 1..Len(d) :
       b[i].kind = d[i].kind /\ b[i].ifnum = d[i].ifnum /\ b[i].alt = d[i].alt /\ b[i].addr = d[i].addr

LEMMA ExtendsFacts ==
  ASSUME NEW d, NEW b, Extends(d, b)
  PROVE  /\ Len(d) \in Nat /\ Len(b) \in Nat /\ Len(b) = Len(d) + 1 /\ Len(b) \in 1..Len(b)
         /\ \A i \in 1..Len(d) : i \in 1..Len(b) /\ i < Len(b) /\ i # Len(b)
         /\ \A i \in 1..Len(b) : i \in 1..Len(d) \/ i = Len(b)
         /\ \A i \in 1..Len(d) :
              b[i].kind = d[i].kind /\ b[i].ifnum = d[i].ifnum /\ b[i].alt = d[i].alt /\ b[i].addr = d[i].addr
         /\ \A i \in 1..Len(d) : (IsIf(b, i) <=> IsIf(d, i)) /\ \A n, s : Declares(b, i, n, s) <=> Declares(d, i, n, s)
<1>1. /\ Len(d) \in Nat /\ Len(b) = Len(d) + 1
      /\ \A i \in 1..Len(d) :
           b[i].kind = d[i].kind /\ b[i].ifnum = d[i].ifnum /\ b[i].alt = d[i].alt /\ b[i].addr = d[i].addr
  BY DEF Extends
<1>2. /\ Len(b) \in Nat /\ Len(b) \in 1..Len(b)
      /\ \A i \in 1..Len(d) : i \in 1..Len(b) /\ i < Len(b) /\ i # Len(b)
      /\ \A i \in 1..Len(b) : i \in 1..Len(d) \/ i = Len(b)
  BY <1>1
<1>3. \A i \in 1..Len(d) : (IsIf(b, i) <=> IsIf(d, i)) /\ \A n, s : Declares(b, i, n, s) <=> Declares(d, i, n, s)
  BY <1>1 DEF IsIf, Declares
<1> QED
  BY <1>1, <1>2, <1>3

LEMMA EpsThroughFinite ==
  ASSUME NEW d, NEW j \in Nat
  PROVE  IsFiniteSet(EpsThrough(d, j)) /\ EpCount(d, j) \in Nat
<1>1. IsFiniteSet(1..j)
  BY FS_Interval
<1>2. EpsThrough(d, j) \subseteq 1..j
  BY DEF EpsThrough
<1>3. IsFiniteSet(EpsThrough(d, j))
  BY <1>1, <1>2, FS_Subset
<1> QED
  BY <1>3, FS_CardinalityType DEF EpCount

LEMMA EpCountLater ==
  ASSUME NEW d, NEW i \in Nat, NEW j \in Nat, i <= j
  PROVE  EpCount(d, i) <= EpCount(d, j)
<1>1. EpsThrough(d, i) \subseteq EpsThrough(d, j)
  BY DEF EpsThrough
<1> QED
  BY <1>1, EpsThroughFinite, FS_Subset DEF EpCount

LEMMA EpCountNext ==
  ASSUME NEW d, NEW j \in Nat
  PROVE  EpCount(d, j + 1) = IF d[j + 1].kind = "ep" THEN EpCount(d, j) + 1 ELSE EpCount(d, j)
<1>1. \A k \in 1..(j + 1) : k \in 1..j \/ k = j + 1
  OBVIOUS
<1>2. 1..j \subseteq 1..(j + 1) /\ j + 1 \in 1..(j + 1) /\ j + 1 \notin 1..j
  OBVIOUS
<1>3. d[j + 1].kind = "ep" => EpsThrough(d, j + 1) = EpsThrough(d, j) \cup {j + 1}
  BY <1>1, <1>2 DEF EpsThrough
<1>4. d[j + 1].kind # "ep" => EpsThrough(d, j + 1) = EpsThrough(d, j)
  BY <1>1, <1>2 DEF EpsThrough
<1>5. j + 1 \notin EpsThrough(d, j)
  BY <1>2 DEF EpsThrough
<1> QED
  BY <1>3, <1>4, <1>5, EpsThroughFinite, FS_AddElement DEF EpCount

\* The place of an endpoint descriptor among the endpoints.
LEMMA EpPlace ==
  ASSUME NEW d, Len(d) \in Nat, NEW j \in 1..Len(d), d[j].kind = "ep"
  PROVE  EpCount(d, j) \in 1..EpCount(d, Len(d))
<1>1. j \in Nat /\ j <= Len(d)
  OBVIOUS
<1>2. j \in EpsThrough(d, j)
  BY <1>1 DEF EpsThrough
<1>3. EpCount(d, j) # 0
  BY <1>1, <1>2, EpsThroughFinite, FS_EmptySet DEF EpCount
<1>4. EpCount(d, j) \in Nat /\ EpCount(d, Len(d)) \in Nat /\ EpCount(d, j) <= EpCount(d, Len(d))
  BY <1>1, EpsThroughFinite, EpCountLater
<1> QED
  BY <1>3, <1>4

LEMMA EpCountExtends ==
  ASSUME NEW d, NEW b, Extends(d, b)
  PROVE  /\ \A j \in 1..Len(d) : EpCount(b, j) = EpCount(d, j)
         /\ EpCount(b, Len(b)) = IF b[Len(b)].kind = "ep" THEN EpCount(d, Len(d)) + 1 ELSE EpCount(d, Len(d))
<1>1. /\ Len(d) \in Nat /\ Len(b) = Len(d) + 1 /\ \A i \in 1..Len(d) : b[i].kind = d[i].kind
  BY ExtendsFacts
<1>2. ASSUME NEW j \in 0..Len(d) PROVE EpCount(b, j) = EpCount(d, j)
  <2>1. \A k \in 1..j : k \in 1..Len(d)
    BY <1>1
  <2>2. EpsThrough(b, j) = EpsThrough(d, j)
    BY <1>1, <2>1 DEF EpsThrough
  <2> QED
    BY <2>2 DEF EpCount
<1>3. EpCount(b, Len(d)) = EpCount(d, Len(d))
  BY <1>1, <1>2
<1>4. EpCount(b, Len(d) + 1) = IF b[Len(d) + 1].kind = "ep" THEN EpCount(b, Len(d)) + 1 ELSE EpCount(b, Len(d))
  BY <1>1, EpCountNext
<1> QED
  BY <1>1, <1>2, <1>3, <1>4

LEMMA BelowFinite ==
  ASSUME NEW d, Len(d) \in Nat, NEW i
  PROVE  IsFiniteSet(Below(d, i)) /\ Cardinality(Below(d, i)) \in Nat /\ Below(d, i) \subseteq 1..Len(d)
<1>1. IsFiniteSet(1..Len(d)) /\ Below(d, i) \subseteq 1..Len(d)
  BY FS_Interval DEF Below
<1> QED
  BY <1>1, FS_Subset, FS_CardinalityType

LEMMA BelowExtends ==
  ASSUME NEW d, NEW b, Extends(d, b)
  PROVE  /\ Below(b, Len(b)) = {}
         /\ \A i \in 1..Len(d) :
              Below(b, i) = IF b[Len(b)].kind = "ep" /\ \A k \in 1..Len(d) : IsIf(d, k) => k <= i
                              THEN Below(d, i) \cup {Len(b)} ELSE Below(d, i)
<1> DEFINE n == Len(d)
<1> HIDE DEF n
<1>1. /\ n \in Nat /\ Len(b) = n + 1
      /\ \A j \in 1..n : b[j].kind = d[j].kind /\ (IsIf(b, j) <=> IsIf(d, j))
  BY ExtendsFacts DEF n
<1>2. \A j \in 1..(n + 1) : j \in 1..n \/ j = n + 1
  BY <1>1
<1>3. \A j \in 1..n : j \in 1..(n + 1) /\ \A k \in 1..(j - 1) : k \in 1..n
  BY <1>1
<1>4. (n + 1) - 1 = n /\ n + 1 \in 1..(n + 1) /\ \A i \in 1..n : i < n + 1
  BY <1>1
<1>5. \A i : Below(d, i) = {j \in 1..n : d[j].kind = "ep" /\ i < j /\ \A k \in 1..(j - 1) : IsIf(d, k) => k <= i}
  BY DEF Below, n
<1>6. \A i : Below(b, i) = {j \in 1..(n + 1) : b[j].kind = "ep" /\ i < j /\ \A k \in 1..(j - 1) : IsIf(b, k) => k <= i}
  BY <1>1 DEF Below
<1>7. ASSUME NEW i PROVE \A j \in 1..n : j \in Below(b, i) <=> j \in Below(d, i)
  BY <1>1, <1>3, <1>5, <1>6
<1>8. ASSUME NEW i \in 1..n
      PROVE  n + 1 \in Below(b, i) <=> b[n + 1].kind = "ep" /\ \A k \in 1..n : IsIf(d, k) => k <= i
  BY <1>1, <1>4, <1>6
<1>9. ASSUME NEW i PROVE Below(b, i) \subseteq 1..(n + 1) /\ Below(d, i) \subseteq 1..n
  BY <1>5, <1>6
<1>10. Below(b, n + 1) = {}
  <2>1. \A j \in 1..(n + 1) : ~(n + 1 < j)
    BY <1>1
  <2> QED
    BY <1>6, <2>1
<1>11. ASSUME NEW i \in 1..n
       PROVE  /\ n + 1 \notin Below(b, i) => Below(b, i) = Below(d, i)
              /\ n + 1 \in Below(b, i) => Below(b, i) = Below(d, i) \cup {n + 1}
  BY <1>2, <1>7, <1>9
<1>12. ASSUME NEW i \in 1..n
       PROVE  Below(b, i) = IF b[Len(b)].kind = "ep" /\ \A k \in 1..n : IsIf(d, k) => k <= i
                              THEN Below(d, i) \cup {Len(b)} ELSE Below(d, i)
  BY <1>1, <1>8, <1>11
<1> QED
  BY <1>1, <1>10, <1>12 DEF n

\* A descriptor that is not an endpoint leaves the endpoints where they are.
LEMMA BlobKeepsEps ==
  ASSUME NEW d, NEW b, NEW e, Extends(d, b), b[Len(b)].kind # "ep", BlobHasEps(d, e)
  PROVE  BlobHasEps(b, e)
<1>1. /\ Len(b) \in 1..Len(b)
      /\ \A i \in 1..Len(b) : i \in 1..Len(d) \/ i = Len(b)
      /\ \A i \in 1..Len(d) : b[i].kind = d[i].kind /\ b[i].ifnum = d[i].ifnum /\ b[i].addr = d[i].addr
      /\ \A i \in 1..Len(d) : IsIf(b, i) <=> IsIf(d, i)
  BY ExtendsFacts
<1>2. /\ \A j \in 1..Len(d) : EpCount(b, j) = EpCount(d, j)
      /\ EpCount(b, Len(b)) = EpCount(d, Len(d))
  BY EpCountExtends
<1>3. Below(b, Len(b)) = {} /\ \A i \in 1..Len(d) : Below(b, i) = Below(d, i) /\ Below(d, i) \subseteq 1..Len(d)
  BY BelowExtends DEF Below
<1>4. \A j \in 1..Len(b) : b[j].kind = "ep" => b[j].addr = e[EpCount(b, j)].addr
  BY <1>1, <1>2 DEF BlobHasEps
<1>5. ASSUME NEW i \in 1..Len(b), IsIf(b, i), NEW j \in Below(b, i)
      PROVE  e[EpCount(b, j)].ifnum = b[i].ifnum
  <2>1. i \in 1..Len(d)
    BY <1>1, <1>3, <1>5
  <2>2. j \in Below(d, i) /\ j \in 1..Len(d) /\ IsIf(d, i)
    BY <1>1, <1>3, <1>5, <2>1
  <2>3. e[EpCount(d, j)].ifnum = d[i].ifnum
    BY <2>1, <2>2 DEF BlobHasEps
  <2> QED
    BY <1>1, <1>2, <2>1, <2>2, <2>3
<1> QED
  BY <1>2, <1>4, <1>5 DEF BlobHasEps

\* A new endpoint goes below the interface of the cursor, and behind the other endpoints.
LEMMA BlobTakesEp ==
  ASSUME NEW d, NEW b, NEW e \in Seq(Endpoints), NEW f \in Seq(Endpoints), NEW ci, NEW ca,
         Extends(d, b), b[Len(b)].kind = "ep", BlobHasEps(d, e), CursorIsLast(d, ci, ca),
         Len(f) = Len(e) + 1, \A i \in 1..Len(e) : f[i] = e[i],
         f[Len(e) + 1].addr = b[Len(b)].addr, ci # -1 => f[Len(e) + 1].ifnum = ci
  PROVE  BlobHasEps(b, f)
<1>1. /\ Len(b) \in 1..Len(b) /\ Len(d) \in Nat
      /\ \A i \in 1..Len(b) : i \in 1..Len(d) \/ i = Len(b)
      /\ \A i \in 1..Len(d) : i # Len(b)
      /\ \A i \in 1..Len(d) : b[i].kind = d[i].kind /\ b[i].ifnum = d[i].ifnum /\ b[i].addr = d[i].addr
      /\ \A i \in 1..Len(d) : IsIf(b, i) <=> IsIf(d, i)
  BY ExtendsFacts
<1>2. /\ \A j \in 1..Len(d) : EpCount(b, j) = EpCount(d, j)
      /\ EpCount(b, Len(b)) = EpCount(d, Len(d)) + 1 /\ EpCount(d, Len(d)) = Len(e)
  BY EpCountExtends DEF BlobHasEps
<1>3. \A i \in 1..Len(d) :
        Below(b, i) = IF \A k \in 1..Len(d) : IsIf(d, k) => k <= i THEN Below(d, i) \cup {Len(b)} ELSE Below(d, i)
  BY BelowExtends
<1>4. \A j \in 1..Len(d) : d[j].kind = "ep" => f[EpCount(b, j)] = e[EpCount(d, j)]
  BY <1>1, <1>2, EpPlace
<1>5. f[EpCount(b, Len(b))] = f[Len(e) + 1]
  BY <1>2
<1>6. \A j \in 1..Len(b) : b[j].kind = "ep" => b[j].addr = f[EpCount(b, j)].addr
  <2>1. \A j \in 1..Len(d) : d[j].kind = "ep" => d[j].addr = e[EpCount(d, j)].addr
    BY DEF BlobHasEps
  <2> QED
    BY <1>1, <1>4, <1>5, <2>1
<1>7. ASSUME NEW i \in 1..Len(b), IsIf(b, i), NEW j \in Below(b, i)
      PROVE  f[EpCount(b, j)].ifnum = b[i].ifnum
  <2>1. i \in 1..Len(d) /\ IsIf(d, i)
    <3>1. ~IsIf(b, Len(b))
      BY DEF IsIf
    <3> QED
      BY <1>1, <1>7, <3>1
  <2>2. CASE j \in Below(d, i)
    <3>1. j \in 1..Len(d) /\ d[j].kind = "ep"
      BY <2>2 DEF Below
    <3>2. e[EpCount(d, j)].ifnum = d[i].ifnum
      BY <2>1, <2>2 DEF BlobHasEps
    <3> QED
      BY <1>1, <1>4, <2>1, <3>1, <3>2
  <2>3. CASE j \notin Below(d, i)
    <3>1. j = Len(b) /\ \A k \in 1..Len(d) : IsIf(d, k) => k <= i
      BY <1>3, <1>7, <2>1, <2>3
    <3>2. ci # -1
      BY <2>1 DEF CursorIsLast
    <3>3. PICK p \in 1..Len(d) : Declares(d, p, ci, ca) /\ \A k \in 1..Len(d) : IsIf(d, k) => k <= p
      BY <3>2 DEF CursorIsLast
    <3>4. IsIf(d, p) /\ d[p].ifnum = ci
      BY <3>3 DEF Declares
    <3>5. p = i
      BY <1>1, <2>1, <3>1, <3>3, <3>4
    <3> QED
      BY <1>1, <1>5, <2>1, <3>1, <3>2, <3>4, <3>5
  <2> QED
    BY <2>2, <2>3
<1> QED
  BY <1>2, <1>6, <1>7 DEF BlobHasEps

\* Records.
LEMMA RecordsStay ==
  ASSUME NEW d, NEW b, NEW r, Extends(d, b), ~IsIf(b, Len(b)), RecordsLead(d, r)
  PROVE  RecordsLead(b, r)
<1>1. /\ \A i \in 1..Len(b) : i \in 1..Len(d) \/ i = Len(b)
      /\ \A i \in 1..Len(d) : i \in 1..Len(b)
      /\ \A i \in 1..Len(d) : b[i].ifnum = d[i].ifnum /\ b[i].alt = d[i].alt
      /\ \A i \in 1..Len(d) : (IsIf(b, i) <=> IsIf(d, i)) /\ \A n, s : Declares(b, i, n, s) <=> Declares(d, i, n, s)
  BY ExtendsFacts
<1>2. \A n, s : ~Declares(b, Len(b), n, s)
  BY DEF Declares
<1>3. \A k \in 1..Len(r) :
       /\ r[k].off \in 1..Len(b) /\ Declares(b, r[k].off, r[k].ifnum, r[k].alt)
       /\ \A i \in 1..Len(b) : Declares(b, i, r[k].ifnum, r[k].alt) => i <= r[k].off
  BY <1>1, <1>2 DEF RecordsLead
<1>4. \A i \in 1..Len(b) : IsIf(b, i) => Recorded(r, b[i].ifnum, b[i].alt) \/ Len(r) >= MaxIfalts
  BY <1>1 DEF RecordsLead
<1> QED
  BY <1>3, <1>4 DEF RecordsLead

\* The records after a declaration of setting alt of interface x (AddInterfaceRecords).
Redirected(r, q, x, alt, off) ==
  /\ Len(r) \in Nat
  /\ \A k \in 1..Len(r) :
       q[k] = IF r[k].ifnum = x /\ r[k].alt = alt THEN [ifnum |-> x, alt |-> alt, off |-> off] ELSE r[k]
  /\ \/ Recorded(r, x, alt) /\ Len(q) = Len(r)
     \/ /\ ~Recorded(r, x, alt) /\ Len(r) < MaxIfalts
        /\ Len(q) = Len(r) + 1 /\ q[Len(r) + 1] = [ifnum |-> x, alt |-> alt, off |-> off]
     \/ ~Recorded(r, x, alt) /\ Len(r) >= MaxIfalts /\ Len(q) = Len(r)

LEMMA RedirectedRecords ==
  ASSUME NEW r, NEW q, NEW x, NEW alt, NEW off, Redirected(r, q, x, alt, off)
  PROVE  /\ \A n, s : Recorded(r, n, s) => Recorded(q, n, s)
         /\ \A n, s : Recorded(q, n, s) => Recorded(r, n, s) \/ (n = x /\ s = alt /\ Len(r) < MaxIfalts)
         /\ (Recorded(q, x, alt) \/ Len(q) >= MaxIfalts)
         /\ Len(q) >= Len(r) /\ Len(q) \in Nat
<1>1. /\ Len(r) \in Nat /\ Len(q) \in Nat /\ (Len(q) = Len(r) \/ Len(q) = Len(r) + 1)
  BY DEF Redirected
<1>2. \A k \in 1..Len(r) : k \in 1..Len(q) /\ q[k].ifnum = r[k].ifnum /\ q[k].alt = r[k].alt
  <2>1. \A k \in 1..Len(r) : k \in 1..Len(q)
    BY <1>1
  <2>2. [ifnum |-> x, alt |-> alt, off |-> off].ifnum = x /\ [ifnum |-> x, alt |-> alt, off |-> off].alt = alt
    OBVIOUS
  <2> QED
    BY <2>1, <2>2 DEF Redirected
<1>3. \A n, s : Recorded(r, n, s) => Recorded(q, n, s)
  BY <1>2 DEF Recorded
<1>4. ASSUME NEW n, NEW s, Recorded(q, n, s), ~Recorded(r, n, s)
      PROVE  n = x /\ s = alt /\ Len(r) < MaxIfalts
  <2>1. PICK k \in 1..Len(q) : q[k].ifnum = n /\ q[k].alt = s
    BY <1>4 DEF Recorded
  <2>2. k \notin 1..Len(r)
    BY <1>2, <1>4, <2>1 DEF Recorded
  <2>3. Len(q) = Len(r) + 1 /\ k = Len(r) + 1
    BY <1>1, <2>2
  <2>4. Len(r) < MaxIfalts /\ q[Len(r) + 1] = [ifnum |-> x, alt |-> alt, off |-> off]
    BY <1>1, <2>3 DEF Redirected
  <2> QED
    BY <2>1, <2>3, <2>4
<1>5. Recorded(q, x, alt) \/ Len(q) >= MaxIfalts
  <2>1. CASE Recorded(r, x, alt)
    BY <1>3, <2>1
  <2>2. CASE Len(q) = Len(r) + 1 /\ q[Len(r) + 1] = [ifnum |-> x, alt |-> alt, off |-> off]
    <3>1. Len(r) + 1 \in 1..Len(q)
      BY <1>1, <2>2
    <3> QED
      BY <2>2, <3>1 DEF Recorded
  <2>3. CASE Len(r) >= MaxIfalts /\ Len(q) = Len(r)
    BY <2>3
  <2> QED
    BY <2>1, <2>2, <2>3 DEF Redirected
<1> QED
  BY <1>1, <1>3, <1>4, <1>5

LEMMA RecordsRedirect ==
  ASSUME NEW d, NEW b, NEW r, NEW q, NEW x, NEW alt, Extends(d, b), RecordsLead(d, r),
         Declares(b, Len(b), x, alt), Redirected(r, q, x, alt, Len(b))
  PROVE  RecordsLead(b, q)
<1>1. /\ Len(b) \in 1..Len(b) /\ \A i \in 1..Len(b) : i \in 1..Len(d) \/ i = Len(b)
      /\ \A i \in 1..Len(b) : i <= Len(b)
      /\ \A i \in 1..Len(d) : i \in 1..Len(b)
      /\ \A i \in 1..Len(d) : b[i].ifnum = d[i].ifnum /\ b[i].alt = d[i].alt
      /\ \A i \in 1..Len(d) : (IsIf(b, i) <=> IsIf(d, i)) /\ \A n, s : Declares(b, i, n, s) <=> Declares(d, i, n, s)
  BY ExtendsFacts
<1>2. /\ \A n, s : Recorded(r, n, s) => Recorded(q, n, s)
      /\ (Recorded(q, x, alt) \/ Len(q) >= MaxIfalts)
      /\ Len(q) >= Len(r) /\ Len(q) \in Nat /\ Len(r) \in Nat
  <2>1. Len(r) \in Nat
    BY DEF Redirected
  <2> QED
    BY <2>1, RedirectedRecords
<1>3. ASSUME NEW n, NEW s, Declares(b, Len(b), n, s)
      PROVE  n = x /\ s = alt
  BY <1>3 DEF Declares
<1> DEFINE new == [ifnum |-> x, alt |-> alt, off |-> Len(b)]
           Leads(z) == /\ z.off \in 1..Len(b) /\ Declares(b, z.off, z.ifnum, z.alt)
                       /\ \A i \in 1..Len(b) : Declares(b, i, z.ifnum, z.alt) => i <= z.off
<1>4. Leads(new)
  BY <1>1
<1>5. ASSUME NEW k \in 1..Len(r), ~(r[k].ifnum = x /\ r[k].alt = alt)
      PROVE  Leads(r[k])
  <2>1. /\ r[k].off \in 1..Len(d) /\ Declares(d, r[k].off, r[k].ifnum, r[k].alt)
        /\ \A i \in 1..Len(d) : Declares(d, i, r[k].ifnum, r[k].alt) => i <= r[k].off
    BY DEF RecordsLead
  <2>2. ~Declares(b, Len(b), r[k].ifnum, r[k].alt)
    BY <1>3, <1>5
  <2> QED
    BY <1>1, <2>1, <2>2
<1>6. \A k \in 1..Len(q) : q[k] = new \/ (k \in 1..Len(r) /\ q[k] = r[k] /\ ~(r[k].ifnum = x /\ r[k].alt = alt))
  <2>1. \A k \in 1..Len(q) : k \in 1..Len(r) \/ (Len(q) = Len(r) + 1 /\ k = Len(r) + 1)
    BY <1>2 DEF Redirected
  <2>2. Len(q) = Len(r) + 1 => q[Len(r) + 1] = new
    BY <1>2 DEF Redirected
  <2>3. \A k \in 1..Len(r) : q[k] = IF r[k].ifnum = x /\ r[k].alt = alt THEN new ELSE r[k]
    BY DEF Redirected
  <2> HIDE DEF new
  <2> QED
    BY <2>1, <2>2, <2>3
<1>7. \A k \in 1..Len(q) : Leads(q[k])
  <2> HIDE DEF new, Leads
  <2> QED
    BY <1>4, <1>5, <1>6
<1>8. ASSUME NEW i \in 1..Len(b), IsIf(b, i)
      PROVE  Recorded(q, b[i].ifnum, b[i].alt) \/ Len(q) >= MaxIfalts
  <2>1. CASE i = Len(b)
    BY <1>2, <2>1 DEF Declares
  <2>2. CASE i \in 1..Len(d)
    <3>1. Recorded(r, d[i].ifnum, d[i].alt) \/ Len(r) >= MaxIfalts
      BY <1>1, <1>8, <2>2 DEF RecordsLead
    <3>2. Len(r) >= MaxIfalts => Len(q) >= MaxIfalts
      BY <1>2, Bounds
    <3> QED
      BY <1>1, <1>2, <2>2, <3>1, <3>2
  <2> QED
    BY <1>1, <2>1, <2>2
<1> QED
  BY <1>7, <1>8 DEF RecordsLead

\* bNumEndpoints.
LEMMA CountsStay ==
  ASSUME NEW d, NEW b, NEW r, Extends(d, b), ~IsIf(b, Len(b)), b[Len(b)].kind # "ep", CountsMatch(d, r),
         \A i \in 1..Len(d) : b[i].count = d[i].count
  PROVE  CountsMatch(b, r)
<1>1. /\ \A i \in 1..Len(b) : i \in 1..Len(d) \/ i = Len(b)
      /\ \A i \in 1..Len(d) : b[i].ifnum = d[i].ifnum /\ b[i].alt = d[i].alt /\ (IsIf(b, i) <=> IsIf(d, i))
  BY ExtendsFacts
<1>2. \A i \in 1..Len(d) : Below(b, i) = Below(d, i)
  BY BelowExtends
<1> QED
  BY <1>1, <1>2 DEF CountsMatch

LEMMA CountsRedirect ==
  ASSUME NEW d, NEW b, NEW r, NEW q, NEW x, NEW alt, Extends(d, b), RecordsLead(d, r), CountsMatch(d, r),
         Declares(b, Len(b), x, alt), Redirected(r, q, x, alt, Len(b)), b[Len(b)].count = 0,
         \A i \in 1..Len(d) : b[i].count = d[i].count
  PROVE  CountsMatch(b, q)
<1>1. /\ \A i \in 1..Len(b) : i \in 1..Len(d) \/ i = Len(b)
      /\ \A i \in 1..Len(d) : b[i].ifnum = d[i].ifnum /\ b[i].alt = d[i].alt /\ (IsIf(b, i) <=> IsIf(d, i))
  BY ExtendsFacts
<1>2. b[Len(b)].kind # "ep"
  BY DEF Declares, IsIf
<1>3. Below(b, Len(b)) = {} /\ \A i \in 1..Len(d) : Below(b, i) = Below(d, i)
  BY <1>2, BelowExtends
<1>4. \A n, s : Recorded(q, n, s) => Recorded(r, n, s) \/ Len(r) < MaxIfalts
  BY RedirectedRecords
<1>5. \A i \in 1..Len(d) : IsIf(d, i) => Recorded(r, d[i].ifnum, d[i].alt) \/ Len(r) >= MaxIfalts
  BY DEF RecordsLead
<1>6. \A n, s : Recorded(q, n, s) => Recorded(r, n, s) \/ (n = x /\ s = alt /\ Len(r) < MaxIfalts)
  BY RedirectedRecords
<1>7. Len(r) >= MaxIfalts => ~(Len(r) < MaxIfalts)
  <2>1. Len(r) \in Nat
    BY DEF Redirected
  <2> QED
    BY <2>1, Bounds
<1>8. \A i \in 1..Len(d) : IsIf(d, i) /\ Recorded(q, d[i].ifnum, d[i].alt) => Recorded(r, d[i].ifnum, d[i].alt)
  BY <1>5, <1>6, <1>7
<1> QED
  BY <1>1, <1>3, <1>8, FS_EmptySet DEF CountsMatch

\* An endpoint is counted in the interface it goes below, and there alone.
LEMMA CountsTakeEp ==
  ASSUME NEW d, NEW b, NEW r, NEW ci, NEW ca, NEW C,
         Extends(d, b), b[Len(b)].kind = "ep", RecordsLead(d, r), CountsMatch(d, r), CursorIsLast(d, ci, ca),
         C = {r[k].off : k \in IF ci # -1 THEN {n \in 1..Len(r) : r[n].ifnum = ci /\ r[n].alt = ca} ELSE {}},
         \A i \in 1..Len(d) : b[i].count = IF i \in C THEN d[i].count + 1 ELSE d[i].count
  PROVE  CountsMatch(b, r)
<1>1. /\ \A i \in 1..Len(b) : i \in 1..Len(d) \/ i = Len(b)
      /\ \A i \in 1..Len(d) : b[i].ifnum = d[i].ifnum /\ b[i].alt = d[i].alt /\ (IsIf(b, i) <=> IsIf(d, i))
      /\ Len(d) \in Nat /\ \A i \in 1..Len(d) : i # Len(b)
  BY ExtendsFacts
<1>2. ~IsIf(b, Len(b))
  BY DEF IsIf
<1> SUFFICES ASSUME NEW i \in 1..Len(d), IsIf(d, i), Recorded(r, d[i].ifnum, d[i].alt)
             PROVE  b[i].count = Cardinality(Below(b, i))
  BY <1>1, <1>2 DEF CountsMatch
<1>3. d[i].count = Cardinality(Below(d, i))
  BY DEF CountsMatch
<1>4. ci # -1
  BY DEF CursorIsLast
<1>5. PICK p \in 1..Len(d) : Declares(d, p, ci, ca) /\ \A k \in 1..Len(d) : IsIf(d, k) => k <= p
  BY <1>4 DEF CursorIsLast
<1>6. IsIf(d, p) /\ d[p].ifnum = ci /\ d[p].alt = ca
  BY <1>5 DEF Declares
<1>7. \A z : z \in C <=> \E k \in 1..Len(r) : r[k].ifnum = ci /\ r[k].alt = ca /\ z = r[k].off
  BY <1>4
<1>8. \A z \in C : z = p
  <2> SUFFICES ASSUME NEW k \in 1..Len(r), r[k].ifnum = ci, r[k].alt = ca
               PROVE  r[k].off = p
    BY <1>7
  <2>1. /\ r[k].off \in 1..Len(d) /\ Declares(d, r[k].off, ci, ca)
        /\ \A j \in 1..Len(d) : Declares(d, j, ci, ca) => j <= r[k].off
    BY DEF RecordsLead
  <2>2. r[k].off <= p /\ p <= r[k].off
    BY <1>5, <2>1 DEF Declares
  <2> QED
    BY <1>1, <2>1, <2>2
<1>9. CASE i = p
  <2>1. Recorded(r, ci, ca)
    BY <1>6, <1>9
  <2>2. i \in C
    <3>1. PICK k \in 1..Len(r) : r[k].ifnum = ci /\ r[k].alt = ca
      BY <2>1 DEF Recorded
    <3>2. r[k].off \in C
      BY <1>7, <3>1
    <3> QED
      BY <1>8, <1>9, <3>2
  <2>3. Below(b, i) = Below(d, i) \cup {Len(b)}
    BY <1>5, <1>9, BelowExtends
  <2>4. IsFiniteSet(Below(d, i)) /\ Cardinality(Below(d, i)) \in Nat /\ Len(b) \notin Below(d, i)
    BY <1>1, BelowFinite
  <2>5. Cardinality(Below(b, i)) = Cardinality(Below(d, i)) + 1
    BY <2>3, <2>4, FS_AddElement
  <2> QED
    BY <1>3, <2>2, <2>5
<1>10. CASE i # p
  <2>1. i \notin C
    BY <1>8, <1>10
  <2>2. ~(p <= i)
    BY <1>1, <1>5, <1>10
  <2>3. Below(b, i) = Below(d, i)
    BY <1>6, <2>2, BelowExtends
  <2> QED
    BY <1>3, <2>1, <2>3
<1> QED
  BY <1>9, <1>10


\* The cursor and the interface numbers.
LEMMA CursorDeclared ==
  ASSUME NEW d, NEW b, NEW x \in Nat, NEW alt, Extends(d, b), Declares(b, Len(b), x, alt)
  PROVE  CursorIsLast(b, x, alt)
<1>1. Len(b) \in 1..Len(b) /\ \A i \in 1..Len(b) : i <= Len(b)
  BY ExtendsFacts
<1>2. x # -1
  OBVIOUS
<1> QED
  BY <1>1, <1>2 DEF CursorIsLast

LEMMA CursorStays ==
  ASSUME NEW d, NEW b, NEW ci, NEW ca, Extends(d, b), ~IsIf(b, Len(b)), CursorIsLast(d, ci, ca)
  PROVE  CursorIsLast(b, ci, ca)
<1>1. /\ \A i \in 1..Len(b) : i \in 1..Len(d) \/ i = Len(b)
      /\ \A i \in 1..Len(d) : i \in 1..Len(b)
      /\ \A i \in 1..Len(d) : (IsIf(b, i) <=> IsIf(d, i)) /\ \A n, s : Declares(b, i, n, s) <=> Declares(d, i, n, s)
  BY ExtendsFacts
<1> QED
  BY <1>1 DEF CursorIsLast

LEMMA NumbersDeclared ==
  ASSUME NEW d, NEW b, NEW x \in Nat, NEW alt, NEW ip, NEW nn \in Nat, x <= nn,
         Extends(d, b), Declares(b, Len(b), x, alt), NumbersInOrder(d, ip, nn),
         \A i \in 1..Len(d) : d[i].ifnum \in Nat
  PROVE  NumbersInOrder(b, ip \cup ({x} \cap 0..(MaxIf - 1)), IF x + 1 > nn THEN x + 1 ELSE nn)
<1>1. /\ Len(b) \in 1..Len(b) /\ \A i \in 1..Len(b) : i \in 1..Len(d) \/ i = Len(b)
      /\ \A i \in 1..Len(d) : i \in 1..Len(b) /\ b[i].ifnum = d[i].ifnum /\ (IsIf(b, i) <=> IsIf(d, i))
  BY ExtendsFacts
<1>2. IsIf(b, Len(b)) /\ b[Len(b)].ifnum = x
  BY DEF Declares
<1> DEFINE mm == IF x + 1 > nn THEN x + 1 ELSE nn
<1>3. mm \in Nat /\ x < mm /\ nn <= mm /\ x \in 0..(mm - 1)
      /\ \A y : y \in 0..(mm - 1) <=> y \in 0..(nn - 1) \/ y = x
  OBVIOUS
<1> HIDE DEF mm
<1>4. ip \cup ({x} \cap 0..(MaxIf - 1)) = {y \in 0..(mm - 1) : y < MaxIf}
  <2>1. ip = {y \in 0..(nn - 1) : y < MaxIf}
    BY DEF NumbersInOrder
  <2>2. x \in 0..(MaxIf - 1) <=> x < MaxIf
    BY Bounds
  <2> QED
    BY <1>3, <2>1, <2>2
<1>5. ASSUME NEW i \in 1..Len(b), IsIf(b, i)
      PROVE  b[i].ifnum < mm
  <2>1. CASE i = Len(b)
    BY <1>2, <1>3, <2>1
  <2>2. CASE i \in 1..Len(d)
    <3>1. PICK y \in Nat : y = d[i].ifnum
      BY <2>2
    <3>2. y < nn /\ b[i].ifnum = y
      BY <1>1, <1>5, <2>2, <3>1 DEF NumbersInOrder
    <3> QED
      BY <1>3, <3>2
  <2> QED
    BY <1>1, <2>1, <2>2
<1>6. \A y \in 0..(mm - 1) : \E i \in 1..Len(b) : IsIf(b, i) /\ b[i].ifnum = y
  <2>1. \A y \in 0..(nn - 1) : \E i \in 1..Len(d) : IsIf(d, i) /\ d[i].ifnum = y
    BY DEF NumbersInOrder
  <2> QED
    BY <1>1, <1>2, <1>3, <2>1
<1> QED
  BY <1>4, <1>5, <1>6 DEF NumbersInOrder, mm

LEMMA NumbersStay ==
  ASSUME NEW d, NEW b, NEW ip, NEW nn, Extends(d, b), ~IsIf(b, Len(b)), NumbersInOrder(d, ip, nn)
  PROVE  NumbersInOrder(b, ip, nn)
<1>1. /\ \A i \in 1..Len(b) : i \in 1..Len(d) \/ i = Len(b)
      /\ \A i \in 1..Len(d) : i \in 1..Len(b) /\ b[i].ifnum = d[i].ifnum /\ (IsIf(b, i) <=> IsIf(d, i))
  BY ExtendsFacts
<1> QED
  BY <1>1 DEF NumbersInOrder

\* The table f is e with the endpoint of an interface at an address more.
TakesEndpoint(e, f, a, o) ==
  /\ Len(e) \in Nat /\ Len(f) = Len(e) + 1 /\ \A i \in 1..Len(e) : f[i] = e[i]
  /\ f[Len(e) + 1].addr = a /\ f[Len(e) + 1].ifnum = o

LEMMA TakesFacts ==
  ASSUME NEW e, NEW f, NEW a, NEW o, TakesEndpoint(e, f, a, o)
  PROVE  /\ Len(e) \in Nat /\ Len(f) \in Nat /\ Len(e) + 1 \in 1..Len(f)
         /\ \A i \in 1..Len(f) : i \in 1..Len(e) \/ i = Len(e) + 1
         /\ \A i \in 1..Len(f) : i <= Len(e) + 1
         /\ \A i \in 1..Len(e) : i \in 1..Len(f) /\ f[i] = e[i]
BY DEF TakesEndpoint

\* The places the map holds, and what ep_alloc_number checked of an address.
MapPlaces(e, m) == \A y \in Addresses : m[y] \in 0..Len(e)
Grants(e, m, a, o) == m[a] # 0 => e[m[a]].ifnum = o

LEMMA MapTakes ==
  ASSUME NEW e, NEW f, NEW a \in Addresses, NEW o, TakesEndpoint(e, f, a, o),
         NEW m \in [Addresses -> Nat], MapPlaces(e, m), MapLeads(e, m)
  PROVE  MapLeads(f, [m EXCEPT ![a] = Len(e) + 1])
<1> DEFINE q == [m EXCEPT ![a] = Len(e) + 1]
<1>1. \A y \in Addresses : q[y] = IF y = a THEN Len(e) + 1 ELSE m[y]
  OBVIOUS
<1>2. f[Len(e) + 1].addr = a
  BY DEF TakesEndpoint
<1> HIDE DEF q
<1>3. ASSUME NEW y \in Addresses
      PROVE  (q[y] # 0 => f[q[y]].addr = y) /\ \A i \in 1..Len(f) : f[i].addr = y => i <= q[y]
  <2>1. CASE y = a
    BY <1>1, <1>2, <2>1, TakesFacts
  <2>2. CASE y # a
    <3>1. q[y] = m[y] /\ m[y] \in 0..Len(e) /\ (m[y] # 0 => e[m[y]].addr = y)
          /\ \A i \in 1..Len(e) : e[i].addr = y => i <= m[y]
      BY <1>1, <2>2 DEF MapLeads, MapPlaces
    <3>2. m[y] # 0 => m[y] \in 1..Len(e)
      BY <3>1, TakesFacts
    <3> QED
      BY <1>2, <2>2, <3>1, <3>2, TakesFacts
  <2> QED
    BY <2>1, <2>2
<1> QED
  BY <1>3 DEF MapLeads, q

LEMMA OwnerOfAddress ==
  ASSUME NEW e, NEW m, NEW v, NEW nn, NEW a \in Addresses, NEW o,
         MapPlaces(e, m), Len(e) \in Nat, MapLeads(e, m), OneInterface(e, v, nn), Grants(e, m, a, o)
  PROVE  \A i \in 1..Len(e) : e[i].addr = a => e[i].ifnum = o
<1> SUFFICES ASSUME NEW i \in 1..Len(e), e[i].addr = a PROVE e[i].ifnum = o
  OBVIOUS
<1>1. i <= m[a] /\ m[a] \in 0..Len(e)
  BY DEF MapLeads, MapPlaces
<1>2. m[a] # 0 /\ m[a] \in 1..Len(e)
  BY <1>1
<1>3. e[m[a]].addr = a
  BY <1>2 DEF MapLeads
<1> QED
  BY <1>2, <1>3 DEF OneInterface, Grants

LEMMA OwnerTakes ==
  ASSUME NEW e, NEW f, NEW m \in [Addresses -> Nat], NEW v \in [Addresses -> Nat], NEW nn \in Nat,
         NEW a \in Addresses, NEW o, TakesEndpoint(e, f, a, o),
         MapPlaces(e, m), \A i \in 1..Len(f) : f[i].addr \in Addresses,
         MapLeads(e, m), OneInterface(e, v, nn), Grants(e, m, a, o)
  PROVE  OneInterface(f, [v EXCEPT ![a] = 0], nn)
<1> DEFINE w == [v EXCEPT ![a] = 0]
<1>1. \A y \in Addresses : w[y] = IF y = a THEN 0 ELSE v[y]
  OBVIOUS
<1> HIDE DEF w
<1>2. \A i \in 1..Len(e) : e[i].addr = a => e[i].ifnum = o
  BY OwnerOfAddress, TakesFacts
<1>3. f[Len(e) + 1].addr = a /\ f[Len(e) + 1].ifnum = o
  BY DEF TakesEndpoint
<1>4. \A i, j \in 1..Len(f) : f[i].addr = f[j].addr => f[i].ifnum = f[j].ifnum
  <2>1. \A i, j \in 1..Len(e) : e[i].addr = e[j].addr => e[i].ifnum = e[j].ifnum
    BY DEF OneInterface
  <2>2. \A i \in 1..Len(f) : f[i].addr = a => f[i].ifnum = o
    BY <1>2, <1>3, TakesFacts
  <2>3. \A i \in 1..Len(f) : f[i].addr # a => i \in 1..Len(e) /\ f[i] = e[i]
    BY <1>3, TakesFacts
  <2> SUFFICES ASSUME NEW i \in 1..Len(f), NEW j \in 1..Len(f), f[i].addr = f[j].addr
               PROVE  f[i].ifnum = f[j].ifnum
    OBVIOUS
  <2>4. CASE f[i].addr = a
    BY <2>2, <2>4
  <2>5. CASE f[i].addr # a
    BY <2>1, <2>3, <2>5
  <2> QED
    BY <2>4, <2>5
<1>5. \A y \in Addresses : w[y] <= nn
  BY <1>1 DEF OneInterface
<1>6. ASSUME NEW i \in 1..Len(f), w[f[i].addr] # 0
      PROVE  w[f[i].addr] = f[i].ifnum + 1
  <2>1. f[i].addr # a /\ w[f[i].addr] = v[f[i].addr]
    BY <1>1, <1>6
  <2>2. i \in 1..Len(e) /\ f[i] = e[i]
    BY <1>3, <2>1, TakesFacts
  <2> QED
    BY <1>6, <2>1, <2>2 DEF OneInterface
<1> QED
  BY <1>4, <1>5, <1>6 DEF OneInterface, w

LEMMA OwnerReserves ==
  ASSUME NEW e, NEW m \in [Addresses -> Nat], NEW v \in [Addresses -> Nat], NEW nn \in Nat,
         NEW a \in Addresses, NEW o \in Nat, o < nn, Len(e) \in Nat,
         MapPlaces(e, m), \A i \in 1..Len(e) : e[i].addr \in Addresses,
         MapLeads(e, m), OneInterface(e, v, nn), Grants(e, m, a, o)
  PROVE  OneInterface(e, [v EXCEPT ![a] = o + 1], nn)
<1> DEFINE w == [v EXCEPT ![a] = o + 1]
<1>1. \A y \in Addresses : w[y] = IF y = a THEN o + 1 ELSE v[y]
  OBVIOUS
<1> HIDE DEF w
<1>2. \A i \in 1..Len(e) : e[i].addr = a => e[i].ifnum = o
  BY OwnerOfAddress
<1>3. o + 1 <= nn
  OBVIOUS
<1>4. \A y \in Addresses : w[y] <= nn
  BY <1>1, <1>3 DEF OneInterface
<1>5. \A i \in 1..Len(e) : w[e[i].addr] # 0 => w[e[i].addr] = e[i].ifnum + 1
  BY <1>1, <1>2 DEF OneInterface
<1> QED
  BY <1>4, <1>5 DEF OneInterface, w

LEMMA MoreInterfaces ==
  ASSUME NEW e, NEW v \in [Addresses -> Nat], NEW nn \in Nat, NEW mm \in Nat, nn <= mm, OneInterface(e, v, nn)
  PROVE  OneInterface(e, v, mm)
<1>1. \A y \in Addresses : v[y] \in Nat /\ v[y] <= nn
  BY DEF OneInterface
<1>2. \A y \in Addresses : v[y] <= mm
  BY <1>1
<1> QED
  BY <1>2 DEF OneInterface

\* Which interfaces are first declared where does not change behind the end of the blob.
LEMMA FirstsExtend ==
  ASSUME NEW d, NEW b, Extends(d, b), NEW from \in Nat, NEW x
  PROVE  /\ \A to \in 0..Len(d) : Firsts(b, from, to) = Firsts(d, from, to)
         /\ from <= Len(d) =>
              x \in Firsts(b, from, Len(b)) <=>
                x \in Firsts(d, from, Len(d)) \/ (x \in 0..(MaxIf - 1) /\ FirstOf(b, Len(b), x))
<1>1. /\ Len(d) \in Nat /\ Len(b) = Len(d) + 1
      /\ \A i \in 1..Len(d) : b[i].ifnum = d[i].ifnum /\ (IsIf(b, i) <=> IsIf(d, i))
  BY ExtendsFacts
<1>2. ASSUME NEW n \in 1..Len(d), NEW y
      PROVE  FirstOf(b, n, y) <=> FirstOf(d, n, y)
  <2>1. \A k \in 1..(n - 1) : k \in 1..Len(d)
    BY <1>1
  <2> QED
    BY <1>1, <2>1 DEF FirstOf
<1>3. ASSUME NEW to \in 0..Len(d)
      PROVE  Firsts(b, from, to) = Firsts(d, from, to)
  <2>1. \A n \in (from + 1)..to : n \in 1..Len(d)
    BY <1>1
  <2> QED
    BY <1>2, <2>1 DEF Firsts
<1>4. ASSUME from <= Len(d)
      PROVE  x \in Firsts(b, from, Len(b)) <=>
               x \in Firsts(d, from, Len(d)) \/ (x \in 0..(MaxIf - 1) /\ FirstOf(b, Len(b), x))
  <2>1. /\ \A n \in (from + 1)..Len(b) : n \in (from + 1)..Len(d) \/ n = Len(b)
        /\ \A n \in (from + 1)..Len(d) : n \in (from + 1)..Len(b) /\ n \in 1..Len(d)
        /\ Len(b) \in (from + 1)..Len(b)
    BY <1>1, <1>4
  <2> QED
    BY <1>2, <2>1 DEF Firsts
<1> QED
  BY <1>3, <1>4

\* The groups' places in the blob.
Slices(d, g) == \A k \in 1..Len(g) : g[k].descr_off \in 0..Len(d) /\ EndOf(d, g, k) \in 0..Len(d)

LEMMA SlicesOf ==
  ASSUME NEW d, NEW g \in Seq(GroupRecords), NEW nn, Len(d) \in Nat, GroupsCount(d, g, nn)
  PROVE  /\ Len(g) \in Nat /\ Slices(d, g)
         /\ \A k \in 1..Len(g) : g[k].descr_off \in Nat /\ g[k].n_ifs \in Nat /\ g[k].first_ifnum \in Nat
<1>1. Len(g) \in Nat /\ \A k \in 1..Len(g) : g[k] \in GroupRecords
  BY ElementOfSeq, LenProperties
<1>2. \A k \in 1..Len(g) : g[k].descr_off \in Nat /\ g[k].n_ifs \in Nat /\ g[k].first_ifnum \in Nat
  BY <1>1 DEF GroupRecords
<1>3. ASSUME NEW k \in 1..Len(g)
      PROVE  EndOf(d, g, k) \in Nat
  <2>1. k < Len(g) => k + 1 \in 1..Len(g)
    BY <1>1
  <2> QED
    BY <1>2, <2>1 DEF EndOf
<1>4. \A k \in 1..Len(g) : g[k].descr_off <= Len(d) /\ EndOf(d, g, k) <= Len(d)
  BY DEF GroupsCount
<1>5. Slices(d, g)
  BY <1>2, <1>3, <1>4 DEF Slices
<1> QED
  BY <1>1, <1>2, <1>5

\* The slices of a blob with one descriptor more: only the last is longer.
LEMMA SlicesExtend ==
  ASSUME NEW d, NEW b, NEW g, NEW h, Extends(d, b), Len(g) \in Nat, Slices(d, g), Len(h) = Len(g),
         \A k \in 1..Len(g) : h[k].descr_off = g[k].descr_off
  PROVE  \A k \in 1..Len(g) :
           /\ h[k].descr_off <= Len(b) /\ EndOf(b, h, k) <= Len(b)
           /\ k < Len(g) =>
                /\ EndOf(b, h, k) = EndOf(d, g, k)
                /\ Firsts(b, h[k].descr_off, EndOf(b, h, k)) = Firsts(d, g[k].descr_off, EndOf(d, g, k))
           /\ ~(k < Len(g)) => k = Len(g) /\ EndOf(b, h, k) = Len(b) /\ EndOf(d, g, k) = Len(d)
<1>1. Len(d) \in Nat /\ Len(b) = Len(d) + 1
  BY ExtendsFacts
<1> SUFFICES ASSUME NEW k \in 1..Len(g)
             PROVE  /\ h[k].descr_off <= Len(b) /\ EndOf(b, h, k) <= Len(b)
                    /\ k < Len(g) =>
                         /\ EndOf(b, h, k) = EndOf(d, g, k)
                         /\ Firsts(b, h[k].descr_off, EndOf(b, h, k)) = Firsts(d, g[k].descr_off, EndOf(d, g, k))
                    /\ ~(k < Len(g)) => k = Len(g) /\ EndOf(b, h, k) = Len(b) /\ EndOf(d, g, k) = Len(d)
  OBVIOUS
<1>2. g[k].descr_off \in 0..Len(d) /\ EndOf(d, g, k) \in 0..Len(d)
  BY DEF Slices
<1>3. k < Len(g) => k + 1 \in 1..Len(g)
  OBVIOUS
<1>4. k < Len(g) => EndOf(b, h, k) = EndOf(d, g, k)
  BY <1>3 DEF EndOf
<1>5. ~(k < Len(g)) => k = Len(g) /\ EndOf(b, h, k) = Len(b) /\ EndOf(d, g, k) = Len(d)
  BY DEF EndOf
<1>6. h[k].descr_off <= Len(b) /\ EndOf(b, h, k) <= Len(b)
  BY <1>1, <1>2, <1>4, <1>5
<1>7. ASSUME k < Len(g)
      PROVE  Firsts(b, h[k].descr_off, EndOf(b, h, k)) = Firsts(d, g[k].descr_off, EndOf(d, g, k))
  <2>1. PICK from \in Nat, to \in 0..Len(d) : from = g[k].descr_off /\ to = EndOf(d, g, k)
    BY <1>2
  <2>2. Firsts(b, from, to) = Firsts(d, from, to)
    BY FirstsExtend
  <2> QED
    BY <1>4, <1>7, <2>1, <2>2
<1> QED
  BY <1>4, <1>5, <1>6, <1>7

LEMMA GroupsStay ==
  ASSUME NEW d, NEW b, NEW g \in Seq(GroupRecords), NEW nn, Extends(d, b), ~IsIf(b, Len(b)), GroupsCount(d, g, nn)
  PROVE  GroupsCount(b, g, nn)
<1>1. Len(d) \in Nat
  BY ExtendsFacts
<1>2. /\ Len(g) \in Nat /\ Slices(d, g) /\ \A k \in 1..Len(g) : g[k].descr_off \in Nat
  BY <1>1, SlicesOf
<1>3. \A k \in 1..Len(g) :
        /\ g[k].descr_off <= Len(b) /\ EndOf(b, g, k) <= Len(b)
        /\ k < Len(g) =>
             Firsts(b, g[k].descr_off, EndOf(b, g, k)) = Firsts(d, g[k].descr_off, EndOf(d, g, k))
        /\ ~(k < Len(g)) => k = Len(g) /\ EndOf(b, g, k) = Len(b) /\ EndOf(d, g, k) = Len(d)
  BY <1>2, SlicesExtend
<1>4. ASSUME NEW k \in 1..Len(g)
      PROVE  Firsts(b, g[k].descr_off, EndOf(b, g, k)) = Firsts(d, g[k].descr_off, EndOf(d, g, k))
  <2>1. CASE k < Len(g)
    BY <1>3, <2>1
  <2>2. CASE ~(k < Len(g))
    <3>1. PICK from \in Nat : from = g[k].descr_off
      BY <1>2
    <3>2. from <= Len(d)
      BY <3>1 DEF GroupsCount
    <3>3. \A x : ~FirstOf(b, Len(b), x)
      BY DEF FirstOf
    <3>4. \A x : x \in Firsts(b, from, Len(b)) <=> x \in Firsts(d, from, Len(d))
      BY <3>2, <3>3, FirstsExtend
    <3>5. Firsts(b, from, Len(b)) = Firsts(d, from, Len(d))
      <4>1. Firsts(b, from, Len(b)) \subseteq Firsts(d, from, Len(d)) /\ Firsts(d, from, Len(d)) \subseteq Firsts(b, from, Len(b))
        BY <3>4
      <4> QED
        BY <4>1
    <3> QED
      BY <1>3, <2>2, <3>1, <3>5
  <2> QED
    BY <2>1, <2>2
<1> QED
  BY <1>3, <1>4 DEF GroupsCount, Counts

\* A group begins behind the blob, with no interfaces.
LEMMA GroupsBegin ==
  ASSUME NEW d, NEW g \in Seq(GroupRecords), NEW h, NEW nn, Len(d) \in Nat, GroupsCount(d, g, nn),
         Len(h) = Len(g) + 1, \A k \in 1..Len(g) : h[k] = g[k],
         h[Len(g) + 1].descr_off = Len(d), h[Len(g) + 1].n_ifs = 0, h[Len(g) + 1].first_ifnum = 0
  PROVE  GroupsCount(d, h, nn)
<1>1. Len(g) \in Nat /\ Slices(d, g)
  BY SlicesOf
<1>2. ASSUME NEW k \in 1..Len(g)
      PROVE  EndOf(d, h, k) = EndOf(d, g, k) /\ h[k] = g[k]
  <2>1. CASE k < Len(g)
    <3>1. k + 1 \in 1..Len(g) /\ k < Len(h)
      BY <1>1, <2>1
    <3> QED
      BY <2>1, <3>1 DEF EndOf
  <2>2. CASE ~(k < Len(g))
    <3>1. k = Len(g) /\ k < Len(h)
      BY <1>1, <2>2
    <3> QED
      BY <2>2, <3>1 DEF EndOf
  <2> QED
    BY <2>1, <2>2
<1>3. EndOf(d, h, Len(h)) = Len(d) /\ Len(h) = Len(g) + 1
  BY <1>1 DEF EndOf
<1>4. Counts(d, h[Len(h)], Len(d))
  <2>1. \A n : n \notin (Len(d) + 1)..Len(d)
    OBVIOUS
  <2>2. Firsts(d, Len(d), Len(d)) = {}
    BY <2>1 DEF Firsts
  <2>3. 0..(0 + 0 - 1) = {}
    OBVIOUS
  <2> QED
    BY <2>2, <2>3 DEF Counts
<1>5. ASSUME NEW k \in 1..Len(h)
      PROVE  h[k].descr_off <= Len(d) /\ EndOf(d, h, k) <= Len(d) /\ Counts(d, h[k], EndOf(d, h, k))
  <2>1. CASE k \in 1..Len(g)
    BY <1>2, <2>1 DEF GroupsCount
  <2>2. CASE k = Len(h)
    BY <1>3, <1>4, <2>2
  <2>3. k \in 1..Len(g) \/ k = Len(h)
    BY <1>1
  <2> QED
    BY <2>1, <2>2, <2>3
<1>6. ~(h[Len(h)].n_ifs > 0)
  OBVIOUS
<1> QED
  BY <1>5, <1>6 DEF GroupsCount

\* The last group takes a number that is new.
GroupTakes(g, h, x, ip) ==
  /\ Len(h) = Len(g)
  /\ \A k \in 1..Len(g) :
       /\ h[k].descr_off = g[k].descr_off
       /\ IF k < Len(g) \/ x >= MaxIf \/ x \in ip
            THEN h[k] = g[k]
            ELSE /\ h[k].n_ifs = g[k].n_ifs + 1
                 /\ h[k].first_ifnum = IF g[k].n_ifs = 0 THEN x ELSE g[k].first_ifnum

LEMMA GroupsDeclared ==
  ASSUME NEW d, NEW b, NEW g \in Seq(GroupRecords), NEW h, NEW ip, NEW nn \in Nat, NEW x \in Nat, NEW alt, x <= nn,
         Extends(d, b), Declares(b, Len(b), x, alt), NumbersInOrder(d, ip, nn), GroupsCount(d, g, nn),
         \A i \in 1..Len(d) : d[i].ifnum \in Nat, GroupTakes(g, h, x, ip)
  PROVE  GroupsCount(b, h, IF x + 1 > nn THEN x + 1 ELSE nn)
<1>1. /\ Len(d) \in Nat /\ Len(b) = Len(d) + 1
      /\ \A i \in 1..Len(d) : i \in 1..(Len(b) - 1) /\ b[i].ifnum = d[i].ifnum /\ (IsIf(b, i) <=> IsIf(d, i))
      /\ \A i \in 1..(Len(b) - 1) : i \in 1..Len(d)
  BY ExtendsFacts
<1>2. /\ Len(g) \in Nat /\ Slices(d, g) /\ Len(h) = Len(g)
      /\ \A k \in 1..Len(g) : g[k].descr_off \in Nat /\ g[k].n_ifs \in Nat /\ g[k].first_ifnum \in Nat
      /\ \A k \in 1..Len(g) : h[k].descr_off = g[k].descr_off
  BY <1>1, SlicesOf DEF GroupTakes
<1>3. \A k \in 1..Len(g) :
        /\ h[k].descr_off <= Len(b) /\ EndOf(b, h, k) <= Len(b)
        /\ k < Len(g) =>
             /\ EndOf(b, h, k) = EndOf(d, g, k)
             /\ Firsts(b, h[k].descr_off, EndOf(b, h, k)) = Firsts(d, g[k].descr_off, EndOf(d, g, k))
        /\ ~(k < Len(g)) => k = Len(g) /\ EndOf(b, h, k) = Len(b) /\ EndOf(d, g, k) = Len(d)
  BY <1>2, SlicesExtend
<1>4. IsIf(b, Len(b)) /\ b[Len(b)].ifnum = x
  BY DEF Declares
<1>5. ip = {y \in 0..(nn - 1) : y < MaxIf}
  BY DEF NumbersInOrder
<1>6. \A y : FirstOf(b, Len(b), y) <=> y = x /\ x = nn
  <2>1. \A y : FirstOf(b, Len(b), y) <=> y = x /\ \A i \in 1..Len(d) : ~(IsIf(d, i) /\ d[i].ifnum = x)
    BY <1>1, <1>4 DEF FirstOf
  <2>2. CASE x = nn
    <3>1. \A i \in 1..Len(d) : ~(IsIf(d, i) /\ d[i].ifnum = x)
      BY <2>2 DEF NumbersInOrder
    <3> QED
      BY <2>1, <2>2, <3>1
  <2>3. CASE x # nn
    <3>1. x \in 0..(nn - 1)
      BY <2>3
    <3>2. \E i \in 1..Len(d) : IsIf(d, i) /\ d[i].ifnum = x
      BY <3>1 DEF NumbersInOrder
    <3> QED
      BY <2>1, <2>3, <3>2
  <2> QED
    BY <2>2, <2>3
<1>7. \A k \in 1..Len(g) : k < Len(g) => Counts(b, h[k], EndOf(b, h, k))
  <2>1. \A k \in 1..Len(g) : k < Len(g) => h[k] = g[k]
    BY DEF GroupTakes
  <2> QED
    BY <1>3, <2>1 DEF GroupsCount, Counts
<1>8. CASE Len(g) = 0
  BY <1>2, <1>8 DEF GroupsCount
<1>9. CASE Len(g) # 0
  <2>1. Len(g) \in 1..Len(g)
    BY <1>2, <1>9
  <2>2. PICK from \in Nat, f \in Nat, n \in Nat :
          from = g[Len(g)].descr_off /\ f = g[Len(g)].first_ifnum /\ n = g[Len(g)].n_ifs
    BY <1>2, <2>1
  <2>3. /\ from <= Len(d) /\ Firsts(d, from, Len(d)) = f..(f + n - 1)
        /\ n > 0 => f + n = IF nn < MaxIf THEN nn ELSE MaxIf
    <3>1. EndOf(d, g, Len(g)) = Len(d)
      BY <2>1 DEF EndOf
    <3>2. g[Len(g)].descr_off <= Len(d) /\ Counts(d, g[Len(g)], Len(d))
      BY <2>1, <3>1 DEF GroupsCount
    <3>3. g[Len(g)].n_ifs > 0 =>
            g[Len(g)].first_ifnum + g[Len(g)].n_ifs = IF nn < MaxIf THEN nn ELSE MaxIf
      BY <1>9 DEF GroupsCount
    <3> QED
      BY <2>2, <3>2, <3>3 DEF Counts
  <2>4. \A y : y \in Firsts(b, from, Len(b)) <=> y \in f..(f + n - 1) \/ (y \in 0..(MaxIf - 1) /\ y = x /\ x = nn)
    BY <1>6, <2>3, FirstsExtend
  <2>5. EndOf(b, h, Len(g)) = Len(b) /\ h[Len(g)].descr_off = from
    BY <1>2, <1>3, <2>1, <2>2
  <2>6. x < nn <=> ~(x = nn)
    OBVIOUS
  <2>7. CASE x = nn /\ x < MaxIf
    <3>1. ~(x >= MaxIf) /\ x \notin ip /\ ~(Len(g) < Len(g)) /\ x \in 0..(MaxIf - 1)
      BY <1>2, <1>5, <2>7, Bounds
    <3>2. h[Len(g)].n_ifs = n + 1 /\ h[Len(g)].first_ifnum = IF n = 0 THEN x ELSE f
      BY <2>1, <2>2, <3>1 DEF GroupTakes
    <3>3. n # 0 => f + n = x
      BY <2>3, <2>7
    <3>4. PICK ff \in Nat : ff = IF n = 0 THEN x ELSE f
      OBVIOUS
    <3>5. ff + (n + 1) = x + 1
      BY <3>3, <3>4
    <3>6. \A y : y \in f..(f + n - 1) \/ y = x <=> y \in ff..(ff + (n + 1) - 1)
      BY <3>3, <3>4
    <3>7. \A y : y \in Firsts(b, from, Len(b)) <=> y \in ff..(ff + (n + 1) - 1)
      BY <2>4, <2>7, <3>1, <3>6
    <3>8. Firsts(b, from, Len(b)) \subseteq ff..(ff + (n + 1) - 1) /\ ff..(ff + (n + 1) - 1) \subseteq Firsts(b, from, Len(b))
      BY <3>7
    <3>9. Firsts(b, from, Len(b)) = ff..(ff + (n + 1) - 1)
      BY <3>8
    <3>10. Counts(b, h[Len(g)], Len(b))
      BY <2>5, <3>2, <3>4, <3>9 DEF Counts
    <3>11. \A k \in 1..Len(h) : Counts(b, h[k], EndOf(b, h, k))
      BY <1>2, <1>3, <1>7, <2>5, <3>10
    <3>12. h[Len(g)].first_ifnum + h[Len(g)].n_ifs = x + 1
      BY <3>2, <3>4, <3>5
    <3>13. (IF x + 1 > nn THEN x + 1 ELSE nn) = x + 1 /\ (IF x + 1 < MaxIf THEN x + 1 ELSE MaxIf) = x + 1
      BY <2>7, Bounds
    <3> QED
      BY <1>2, <1>3, <3>11, <3>12, <3>13 DEF GroupsCount
  <2>8. CASE ~(x = nn /\ x < MaxIf)
    <3>1. x >= MaxIf \/ x \in ip
      BY <1>5, <2>6, <2>8, Bounds
    <3>2. h[Len(g)] = g[Len(g)]
      BY <2>1, <3>1 DEF GroupTakes
    <3>3. ~(x \in 0..(MaxIf - 1) /\ x = nn)
      BY <2>8, Bounds
    <3>4. \A y : y \in Firsts(b, from, Len(b)) <=> y \in f..(f + n - 1)
      BY <2>4, <3>3
    <3>5. Firsts(b, from, Len(b)) \subseteq f..(f + n - 1) /\ f..(f + n - 1) \subseteq Firsts(b, from, Len(b))
      BY <3>4
    <3>6. Firsts(b, from, Len(b)) = f..(f + n - 1)
      BY <3>5
    <3>7. Counts(b, h[Len(g)], Len(b))
      BY <2>2, <3>2, <3>6 DEF Counts
    <3>8. \A k \in 1..Len(h) : Counts(b, h[k], EndOf(b, h, k))
      BY <1>2, <1>3, <1>7, <2>5, <3>7
    <3> DEFINE mm == IF x + 1 > nn THEN x + 1 ELSE nn
    <3>9. (IF mm < MaxIf THEN mm ELSE MaxIf) = IF nn < MaxIf THEN nn ELSE MaxIf
      BY <2>6, <2>8, Bounds
    <3>10. n > 0 => h[Len(g)].first_ifnum + h[Len(g)].n_ifs = IF mm < MaxIf THEN mm ELSE MaxIf
      BY <2>2, <2>3, <3>2, <3>9
    <3> HIDE DEF mm
    <3>11. h[Len(h)].n_ifs = n
      BY <1>2, <2>2, <3>2
    <3>12. GroupsCount(b, h, mm)
      BY <1>2, <1>3, <3>8, <3>10, <3>11 DEF GroupsCount
    <3> QED
      BY <3>12 DEF mm
  <2> QED
    BY <2>7, <2>8
<1> QED
  BY <1>8, <1>9

\* Every call keeps the tables sound.
LEMMA InterfaceKeepsSound ==
  ASSUME BuildInv, SoundNow, NEW i \in IfNums, NEW alt \in 0..MaxAlt, i <= n_ifnums, AddInterface(i, alt)
  PROVE  SoundNow'
<1>0. BuildTypes /\ i \in Nat /\ alt \in Nat
  BY Bounds DEF BuildInv, IfNums
<1>1. /\ descr \in Seq(Descriptors) /\ groups \in Seq(GroupRecords) /\ n_ifnums \in Nat
      /\ ep_reserved \in [Addresses -> Nat] /\ ifalts \in Seq(Records) /\ Len(ifalts) \in Nat
  BY <1>0, LenProperties DEF BuildTypes, TypesOf
<1>2. /\ BlobHasEps(descr, eps) /\ RecordsLead(descr, ifalts) /\ CountsMatch(descr, ifalts)
      /\ NumbersInOrder(descr, if_present, n_ifnums) /\ MapLeads(eps, ep_map)
      /\ OneInterface(eps, ep_reserved, n_ifnums) /\ GroupsCount(descr, groups, n_ifnums)
  BY DEF SoundNow, Sound
<1> DEFINE mm == IF i + 1 > n_ifnums THEN i + 1 ELSE n_ifnums
<1>3. /\ descr' = Append(descr, Interface(i, alt, 0)) /\ Interface(i, alt, 0) \in Descriptors
      /\ cur_ifnum' = i /\ cur_alt' = alt /\ n_ifnums' = mm
      /\ UNCHANGED <<eps, ep_map, ep_reserved>>
  BY <1>0, AddInterfaceBlob
<1>4. /\ Len(descr) \in Nat /\ Len(descr') = Len(descr) + 1 /\ descr'[Len(descr')] = Interface(i, alt, 0)
      /\ \A k \in 1..Len(descr) : descr'[k] = descr[k]
  BY <1>1, <1>3, Appends
<1>5. Extends(descr, descr')
  BY <1>4 DEF Extends
<1>6. Declares(descr', Len(descr'), i, alt) /\ descr'[Len(descr')].kind # "ep" /\ descr'[Len(descr')].count = 0
  BY <1>4 DEF Declares, IsIf, Interface
<1>7. Redirected(ifalts, ifalts', i, alt, Len(descr'))
  <2>1. NewRecord(i, alt) = [ifnum |-> i, alt |-> alt, off |-> Len(descr')]
    BY <1>4 DEF NewRecord
  <2>2. /\ \A k \in 1..Len(ifalts) :
             ifalts'[k] = IF ifalts[k].ifnum = i /\ ifalts[k].alt = alt THEN NewRecord(i, alt) ELSE ifalts[k]
        /\ \/ Recorded(ifalts, i, alt) /\ Len(ifalts') = Len(ifalts)
           \/ /\ ~Recorded(ifalts, i, alt) /\ Len(ifalts) < MaxIfalts
              /\ Len(ifalts') = Len(ifalts) + 1 /\ ifalts'[Len(ifalts) + 1] = NewRecord(i, alt)
           \/ ~Recorded(ifalts, i, alt) /\ Len(ifalts) >= MaxIfalts /\ Len(ifalts') = Len(ifalts)
    <3> DEFINE old == \E k \in 1..Len(ifalts) : ifalts[k].ifnum = i /\ ifalts[k].alt = alt
    <3>1. Recorded(ifalts, i, alt) <=> old
      BY DEF Recorded
    <3>2. /\ \A k \in 1..Len(ifalts) :
               ifalts'[k] = IF ifalts[k].ifnum = i /\ ifalts[k].alt = alt THEN NewRecord(i, alt) ELSE ifalts[k]
          /\ \/ old /\ Len(ifalts') = Len(ifalts)
             \/ /\ ~old /\ Len(ifalts) < MaxIfalts
                /\ Len(ifalts') = Len(ifalts) + 1 /\ ifalts'[Len(ifalts) + 1] = NewRecord(i, alt)
             \/ ~old /\ Len(ifalts) >= MaxIfalts /\ Len(ifalts') = Len(ifalts)
      BY <1>0, AddInterfaceRecords
    <3> HIDE DEF old
    <3> QED
      BY <3>1, <3>2
  <2> HIDE DEF NewRecord
  <2> QED
    BY <1>1, <2>1, <2>2 DEF Redirected
<1>8. GroupTakes(groups, groups', i, if_present)
  <2>1. groups' = Registered(i)
    BY DEF AddInterface
  <2>2. /\ Len(groups') = Len(groups)
        /\ \A k \in 1..Len(groups) :
             groups'[k] =
               IF k < Len(groups) \/ i >= MaxIf \/ i \in if_present THEN groups[k]
               ELSE [groups[k] EXCEPT !.first_ifnum = IF groups[k].n_ifs = 0 THEN i ELSE @, !.n_ifs = @ + 1]
    BY <1>0, <2>1, RegisteredGroups
  <2>3. \A k \in 1..Len(groups) : groups[k] \in GroupRecords
    BY <1>1, ElementOfSeq
  <2>4. ASSUME NEW z \in GroupRecords
        PROVE  LET y == [z EXCEPT !.first_ifnum = IF z.n_ifs = 0 THEN i ELSE @, !.n_ifs = @ + 1]
               IN /\ y.descr_off = z.descr_off /\ y.n_ifs = z.n_ifs + 1
                  /\ y.first_ifnum = IF z.n_ifs = 0 THEN i ELSE z.first_ifnum
    BY DEF GroupRecords
  <2> QED
    BY <2>2, <2>3, <2>4 DEF GroupTakes
<1>9. \A k \in 1..Len(descr) : descr[k].ifnum \in Nat
  <2>1. \A k \in 1..Len(descr) : descr[k] \in Descriptors
    BY <1>1, ElementOfSeq
  <2> QED
    BY <2>1 DEF Descriptors
<1>10. if_present' = if_present \cup ({i} \cap 0..(MaxIf - 1))
  BY DEF AddInterface
<1>11. BlobHasEps(descr', eps')
  BY <1>2, <1>3, <1>5, <1>6, BlobKeepsEps
<1>12. RecordsLead(descr', ifalts')
  BY <1>2, <1>5, <1>6, <1>7, RecordsRedirect
<1>13. CountsMatch(descr', ifalts')
  BY <1>2, <1>4, <1>5, <1>6, <1>7, CountsRedirect
<1>14. CursorIsLast(descr', cur_ifnum', cur_alt')
  BY <1>0, <1>3, <1>5, <1>6, CursorDeclared
<1>15. NumbersInOrder(descr', if_present', n_ifnums')
  BY <1>0, <1>1, <1>2, <1>3, <1>5, <1>6, <1>9, <1>10, NumbersDeclared
<1>16. OneInterface(eps', ep_reserved', n_ifnums')
  <2>1. mm \in Nat /\ n_ifnums <= mm
    BY <1>0, <1>1
  <2> HIDE DEF mm
  <2>2. OneInterface(eps, ep_reserved, mm)
    BY <1>1, <1>2, <2>1, MoreInterfaces
  <2> QED
    BY <1>3, <2>2
<1>17. GroupsCount(descr', groups', n_ifnums')
  BY <1>0, <1>1, <1>2, <1>3, <1>5, <1>6, <1>8, <1>9, GroupsDeclared
<1> QED
  BY <1>2, <1>3, <1>11, <1>12, <1>13, <1>14, <1>15, <1>16, <1>17 DEF SoundNow, Sound

LEMMA OtherKeepsSound ==
  ASSUME BuildInv, SoundNow, AddOther
  PROVE  SoundNow'
<1>0. descr \in Seq(Descriptors) /\ groups \in Seq(GroupRecords) /\ Other \in Descriptors
  BY DEF BuildInv, BuildTypes, TypesOf, Other, Descriptors
<1>1. /\ BlobHasEps(descr, eps) /\ RecordsLead(descr, ifalts) /\ CountsMatch(descr, ifalts)
      /\ CursorIsLast(descr, cur_ifnum, cur_alt) /\ NumbersInOrder(descr, if_present, n_ifnums)
      /\ MapLeads(eps, ep_map) /\ OneInterface(eps, ep_reserved, n_ifnums) /\ GroupsCount(descr, groups, n_ifnums)
  BY DEF SoundNow, Sound
<1>2. /\ descr' = Append(descr, Other)
      /\ UNCHANGED <<ifalts, cur_ifnum, cur_alt, if_present, n_ifnums, eps, ep_map, ep_reserved, groups>>
  BY DEF AddOther
<1>3. /\ Len(descr) \in Nat /\ Len(descr') = Len(descr) + 1 /\ descr'[Len(descr')] = Other
      /\ \A k \in 1..Len(descr) : descr'[k] = descr[k]
  BY <1>0, <1>2, Appends
<1>4. Extends(descr, descr')
  BY <1>3 DEF Extends
<1>5. ~IsIf(descr', Len(descr')) /\ descr'[Len(descr')].kind # "ep"
  BY <1>3 DEF IsIf, Other
<1>6. BlobHasEps(descr', eps) /\ RecordsLead(descr', ifalts) /\ CursorIsLast(descr', cur_ifnum, cur_alt)
  BY <1>1, <1>4, <1>5, BlobKeepsEps, RecordsStay, CursorStays
<1>7. CountsMatch(descr', ifalts)
  BY <1>1, <1>3, <1>4, <1>5, CountsStay
<1>8. NumbersInOrder(descr', if_present, n_ifnums) /\ GroupsCount(descr', groups, n_ifnums)
  BY <1>0, <1>1, <1>4, <1>5, NumbersStay, GroupsStay
<1> QED
  BY <1>1, <1>2, <1>6, <1>7, <1>8 DEF SoundNow, Sound

LEMMA EndpointKeepsSound ==
  ASSUME BuildInv, SoundNow, NEW want \in 0..MaxNumber, NEW dir \in Dirs, AddEndpoint(want, dir)
  PROVE  SoundNow'
<1>0. BuildTypes /\ MapPlaces(eps, ep_map)
  BY DEF BuildInv, RefersBack, RefersTo, MapPlaces
<1>1. PICK addr \in Addresses :
           /\ Preferred(CurrentOwner, addr)
           /\ eps' = Append(eps, [addr |-> addr, ifnum |-> CurrentOwner])
           /\ [addr |-> addr, ifnum |-> CurrentOwner] \in Endpoints
           /\ ep_map' = [ep_map EXCEPT ![addr] = Len(eps) + 1]
           /\ ep_reserved' = [ep_reserved EXCEPT ![addr] = 0]
           /\ descr' = Append(CountedBlob, Endpoint(addr)) /\ Endpoint(addr) \in Descriptors
           /\ UNCHANGED <<ifalts, cur_ifnum, cur_alt, if_present, n_ifnums, groups>>
  BY <1>0, AddEndpointTables
<1>2. /\ BlobHasEps(descr, eps) /\ RecordsLead(descr, ifalts) /\ CountsMatch(descr, ifalts)
      /\ CursorIsLast(descr, cur_ifnum, cur_alt) /\ NumbersInOrder(descr, if_present, n_ifnums)
      /\ MapLeads(eps, ep_map) /\ OneInterface(eps, ep_reserved, n_ifnums) /\ GroupsCount(descr, groups, n_ifnums)
  BY DEF SoundNow, Sound
<1>3. /\ descr \in Seq(Descriptors) /\ ifalts \in Seq(Records) /\ eps \in Seq(Endpoints)
      /\ ep_map \in [Addresses -> Nat] /\ ep_reserved \in [Addresses -> Nat] /\ n_ifnums \in Nat
      /\ cur_ifnum \in Nat \cup {-1} /\ groups \in Seq(GroupRecords)
  BY <1>0 DEF BuildTypes, TypesOf
<1>4. /\ CountedBlob \in Seq(Descriptors) /\ Len(CountedBlob) = Len(descr) /\ Len(descr) \in Nat
      /\ \A i \in 1..Len(descr) :
           /\ CountedBlob[i].kind = descr[i].kind /\ CountedBlob[i].ifnum = descr[i].ifnum
           /\ CountedBlob[i].alt = descr[i].alt /\ CountedBlob[i].addr = descr[i].addr
           /\ CountedBlob[i].count = IF i \in Counted THEN descr[i].count + 1 ELSE descr[i].count
  BY <1>0, CountedBlobIs
<1>5. /\ Len(descr') = Len(descr) + 1 /\ descr'[Len(descr')] = Endpoint(addr)
      /\ \A i \in 1..Len(descr) : descr'[i] = CountedBlob[i]
  BY <1>1, <1>4, Appends
<1>6. Extends(descr, descr')
  BY <1>4, <1>5 DEF Extends
<1>7. descr'[Len(descr')].kind = "ep" /\ descr'[Len(descr')].addr = addr /\ ~IsIf(descr', Len(descr'))
  BY <1>5 DEF IsIf, Endpoint
<1>8. eps' \in Seq(Endpoints) /\ TakesEndpoint(eps, eps', addr, CurrentOwner)
  <2>1. PICK ep \in Endpoints : ep = [addr |-> addr, ifnum |-> CurrentOwner]
    BY <1>1
  <2>2. eps' = Append(eps, ep) /\ ep.addr = addr /\ ep.ifnum = CurrentOwner
    BY <1>1, <2>1
  <2>3. /\ Append(eps, ep) \in Seq(Endpoints) /\ Len(eps) \in Nat /\ Len(Append(eps, ep)) = Len(eps) + 1
        /\ Append(eps, ep)[Len(eps) + 1] = ep /\ \A i \in 1..Len(eps) : Append(eps, ep)[i] = eps[i]
    BY <1>3, Appends
  <2> QED
    BY <2>2, <2>3 DEF TakesEndpoint
<1>9. Grants(eps, ep_map, addr, CurrentOwner)
  BY <1>1 DEF Preferred, Grants
<1>10. cur_ifnum # -1 <=> cur_ifnum >= 0
  BY <1>3
<1>11. cur_ifnum # -1 => CurrentOwner = cur_ifnum
  BY <1>10 DEF CurrentOwner
<1>12. BlobHasEps(descr', eps')
  <2>1. /\ Len(eps') = Len(eps) + 1 /\ \A i \in 1..Len(eps) : eps'[i] = eps[i]
        /\ eps'[Len(eps) + 1].addr = descr'[Len(descr')].addr
        /\ (cur_ifnum # -1 => eps'[Len(eps) + 1].ifnum = cur_ifnum)
    BY <1>7, <1>8, <1>11 DEF TakesEndpoint
  <2> QED
    BY <1>2, <1>3, <1>6, <1>7, <1>8, <2>1, BlobTakesEp
<1>13. RecordsLead(descr', ifalts) /\ CursorIsLast(descr', cur_ifnum, cur_alt)
  BY <1>2, <1>6, <1>7, RecordsStay, CursorStays
<1>14. CountsMatch(descr', ifalts)
  <2>1. Counted = {ifalts[k].off : k \in IF cur_ifnum # -1 THEN {n \in 1..Len(ifalts) : ifalts[n].ifnum = cur_ifnum /\ ifalts[n].alt = cur_alt} ELSE {}}
    <3>1. DOMAIN ifalts = 1..Len(ifalts)
      BY <1>3, LenProperties
    <3> QED
      BY <1>10, <3>1 DEF Counted, ifalt_for
  <2>2. \A i \in 1..Len(descr) : descr'[i].count = IF i \in Counted THEN descr[i].count + 1 ELSE descr[i].count
    BY <1>4, <1>5
  <2> QED
    BY <1>2, <1>6, <1>7, <2>1, <2>2, CountsTakeEp
<1>15. NumbersInOrder(descr', if_present, n_ifnums) /\ GroupsCount(descr', groups, n_ifnums)
  BY <1>2, <1>3, <1>6, <1>7, NumbersStay, GroupsStay
<1>16. MapLeads(eps', ep_map')
  BY <1>0, <1>1, <1>2, <1>3, <1>8, MapTakes
<1>17. OneInterface(eps', ep_reserved', n_ifnums)
  <2>1. \A i \in 1..Len(eps') : eps'[i].addr \in Addresses
    BY <1>8, EndpointTypes
  <2> QED
    BY <1>0, <1>1, <1>2, <1>3, <1>8, <1>9, <2>1, OwnerTakes
<1> QED
  BY <1>1, <1>12, <1>13, <1>14, <1>15, <1>16, <1>17 DEF SoundNow, Sound

LEMMA ReserveKeepsSound ==
  ASSUME BuildInv, SoundNow, NEW want \in 0..MaxNumber, NEW dir \in Dirs, Reserve(want, dir)
  PROVE  SoundNow'
<1>0. BuildTypes /\ MapPlaces(eps, ep_map) /\ cur_ifnum < n_ifnums
  BY DEF BuildInv, RefersBack, RefersTo, MapPlaces
<1>1. PICK addr \in Addresses : Preferred(cur_ifnum, addr) /\ ep_reserved' = [ep_reserved EXCEPT ![addr] = cur_ifnum + 1]
  BY <1>0, ReserveTables
<1>2. /\ cur_ifnum \in Nat
      /\ UNCHANGED <<descr, ifalts, cur_ifnum, cur_alt, if_present, n_ifnums, eps, ep_map, groups>>
  BY <1>0, ReserveTables
<1>3. eps \in Seq(Endpoints) /\ ep_map \in [Addresses -> Nat] /\ ep_reserved \in [Addresses -> Nat] /\ n_ifnums \in Nat
  BY <1>0 DEF BuildTypes, TypesOf
<1>4. Grants(eps, ep_map, addr, cur_ifnum)
  BY <1>1 DEF Preferred, Grants
<1>5. OneInterface(eps, ep_reserved', n_ifnums)
  <2>1. Len(eps) \in Nat /\ \A i \in 1..Len(eps) : eps[i].addr \in Addresses
    BY <1>3, EndpointTypes
  <2>2. MapLeads(eps, ep_map) /\ OneInterface(eps, ep_reserved, n_ifnums)
    BY DEF SoundNow, Sound
  <2> QED
    BY <1>0, <1>1, <1>2, <1>3, <1>4, <2>1, <2>2, OwnerReserves
<1> QED
  BY <1>2, <1>5 DEF SoundNow, Sound

LEMMA AddClassKeepsSound ==
  ASSUME BuildInv, SoundNow, AddClass
  PROVE  SoundNow' /\ SoundThen'
<1>0. groups \in Seq(GroupRecords) /\ descr \in Seq(Descriptors) /\ Len(descr) \in Nat
  BY LenProperties DEF BuildInv, BuildTypes, TypesOf
<1> DEFINE g == [first_ifnum |-> 0, n_ifs |-> 0, descr_off |-> Len(descr)]
<1>1. /\ before' = <<Contents>> /\ groups' = Append(groups, g)
      /\ UNCHANGED <<descr, ifalts, cur_ifnum, cur_alt, if_present, n_ifnums, eps, ep_map, ep_reserved>>
  BY DEF AddClass, GroupBegin, tables
<1>2. PICK h \in GroupRecords : h = g
  BY <1>0 DEF GroupRecords
<1>3. h.first_ifnum = 0 /\ h.n_ifs = 0 /\ h.descr_off = Len(descr)
  BY <1>2
<1>4. /\ Len(groups') = Len(groups) + 1 /\ groups'[Len(groups) + 1] = h
      /\ \A k \in 1..Len(groups) : groups'[k] = groups[k]
  <2>1. groups' = Append(groups, h)
    BY <1>1, <1>2
  <2> QED
    BY <1>0, <2>1, Appends
<1>5. GroupsCount(descr, groups', n_ifnums)
  <2>1. GroupsCount(descr, groups, n_ifnums)
    BY DEF SoundNow, Sound
  <2> QED
    BY <1>0, <1>3, <1>4, <2>1, GroupsBegin
<1>6. SoundNow'
  BY <1>1, <1>5 DEF SoundNow, Sound
<1>7. SoundThen'
  <2>1. before'[1].tables = tables /\ before'[1].groups = groups
    BY <1>1 DEF Contents
  <2>2. /\ tables[1] = descr /\ tables[2] = ifalts /\ tables[3] = cur_ifnum /\ tables[4] = cur_alt
        /\ tables[5] = if_present /\ tables[6] = n_ifnums /\ tables[7] = eps /\ tables[8] = ep_map
        /\ tables[9] = ep_reserved
    BY DEF tables
  <2> QED
    BY <2>1, <2>2 DEF SoundNow, SoundThen
<1> QED
  BY <1>6, <1>7

LEMMA FailClassKeepsSound ==
  ASSUME BuildInv, SoundThen, FailClass
  PROVE  SoundNow'
<1>1. Contents' = before[1]
  BY FailClassRestores
<1>2. before[1].tables = tables' /\ before[1].groups = groups'
  BY <1>1 DEF Contents
<1>3. /\ tables'[1] = descr' /\ tables'[2] = ifalts' /\ tables'[3] = cur_ifnum' /\ tables'[4] = cur_alt'
      /\ tables'[5] = if_present' /\ tables'[6] = n_ifnums' /\ tables'[7] = eps' /\ tables'[8] = ep_map'
      /\ tables'[9] = ep_reserved'
  BY DEF tables
<1> QED
  BY <1>2, <1>3 DEF SoundNow, SoundThen

LEMMA InitSound == Init => SoundInv
<1> SUFFICES ASSUME Init PROVE SoundInv
  OBVIOUS
<1>1. /\ descr = <<>> /\ ifalts = <<>> /\ eps = <<>> /\ groups = <<>> /\ cur_ifnum = -1 /\ cur_alt = -1
      /\ if_present = {} /\ n_ifnums = 0 /\ ep_map = [a \in Addresses |-> 0]
      /\ ep_reserved = [a \in Addresses |-> 0] /\ building = 0
  BY DEF Init
<1>2. Len(<<>>) = 0 /\ \A i : i \notin 1..0
  BY EmptySeq
<1>3. BlobHasEps(descr, eps)
  <2>1. EpsThrough(<<>>, 0) = {}
    BY <1>2 DEF EpsThrough
  <2>2. EpCount(<<>>, 0) = 0
    BY <2>1, FS_EmptySet DEF EpCount
  <2> QED
    BY <1>1, <1>2, <2>2 DEF BlobHasEps
<1>4. RecordsLead(descr, ifalts) /\ CountsMatch(descr, ifalts) /\ CursorIsLast(descr, cur_ifnum, cur_alt)
  BY <1>1, <1>2 DEF RecordsLead, CountsMatch, CursorIsLast
<1>5. NumbersInOrder(descr, if_present, n_ifnums)
  <2>1. 0..(0 - 1) = {}
    OBVIOUS
  <2> QED
    BY <1>1, <1>2, <2>1 DEF NumbersInOrder
<1>6. MapLeads(eps, ep_map) /\ OneInterface(eps, ep_reserved, n_ifnums)
  BY <1>1, <1>2 DEF MapLeads, OneInterface
<1>7. GroupsCount(descr, groups, n_ifnums)
  BY <1>1, <1>2 DEF GroupsCount
<1> QED
  BY <1>1, <1>3, <1>4, <1>5, <1>6, <1>7 DEF SoundInv, SoundNow, Sound

LEMMA NextSound ==
  ASSUME BuildInv, SoundInv, [Next]_vars
  PROVE  SoundInv'
<1>0. SoundNow /\ (building # 0 => SoundThen)
  BY DEF SoundInv
<1>1. ASSUME UNCHANGED <<before, building>>
      PROVE  building' # 0 => SoundThen'
  BY <1>0, <1>1 DEF SoundThen
<1>2. ASSUME UNCHANGED <<tables, groups>>
      PROVE  SoundNow'
  BY <1>0, <1>2 DEF SoundNow, tables
<1>3. CASE AddClass
  BY <1>0, <1>3, AddClassKeepsSound DEF SoundInv
<1>4. CASE EndClass
  BY <1>2, <1>4 DEF EndClass, SoundInv
<1>5. CASE FailClass
  <2>1. SoundThen /\ building' = 0
    BY <1>0, <1>5 DEF FailClass
  <2> QED
    BY <1>5, <2>1, FailClassKeepsSound DEF SoundInv
<1>6. CASE FunctionAddOther
  BY <1>0, <1>1, <1>6, OtherKeepsSound DEF FunctionAddOther, layer, SoundInv
<1>7. ASSUME NEW i \in IfNums, NEW alt \in 0..MaxAlt, FunctionAddInterface(i, alt)
      PROVE  SoundInv'
  <2>1. ClassDeclares(i, alt) /\ AddInterface(i, alt) /\ UNCHANGED <<building, before>>
    BY <1>7 DEF FunctionAddInterface
  <2>2. n_ifnums \in Nat /\ cur_ifnum \in Nat \cup {-1} /\ cur_ifnum < n_ifnums
    BY DEF BuildInv, BuildTypes, TypesOf, RefersBack, RefersTo
  <2>3. i <= n_ifnums
    BY <2>1, <2>2 DEF ClassDeclares
  <2> QED
    BY <1>0, <1>1, <2>1, <2>3, InterfaceKeepsSound DEF SoundInv
<1>8. ASSUME NEW i \in IfNums, NEW alt \in 0..MaxAlt, AppAddInterface(i, alt)
      PROVE  SoundInv'
  <2>1. AddInterface(i, alt) /\ (i < n_ifnums \/ i = n_ifnums) /\ UNCHANGED <<building, before>>
    BY <1>8 DEF AppAddInterface, layer
  <2>2. n_ifnums \in Nat /\ i \in Nat
    BY Bounds DEF BuildInv, BuildTypes, TypesOf, IfNums
  <2>3. i <= n_ifnums
    BY <2>1, <2>2
  <2> QED
    BY <1>0, <1>1, <2>1, <2>3, InterfaceKeepsSound DEF SoundInv
<1>9. ASSUME NEW want \in 0..MaxNumber, NEW dir \in Dirs,
             FunctionAddEndpoint(want, dir) \/ AppAddEndpoint(want, dir)
      PROVE  SoundInv'
  <2>1. AddEndpoint(want, dir) /\ UNCHANGED <<building, before>>
    BY <1>9 DEF FunctionAddEndpoint, AppAddEndpoint, layer
  <2> QED
    BY <1>0, <1>1, <2>1, EndpointKeepsSound DEF SoundInv
<1>10. ASSUME NEW want \in 0..MaxNumber, NEW dir \in Dirs,
              FunctionReserve(want, dir) \/ AppReserve(want, dir)
       PROVE  SoundInv'
  <2>1. Reserve(want, dir) /\ UNCHANGED <<building, before>>
    BY <1>10 DEF FunctionReserve, AppReserve, layer
  <2> QED
    BY <1>0, <1>1, <2>1, ReserveKeepsSound DEF SoundInv
<1>11. ASSUME NEW group, EnableMsos(group)
       PROVE  SoundInv'
  BY <1>1, <1>2, <1>11 DEF EnableMsos, layer, SoundInv
<1>12. CASE UNCHANGED vars
  BY <1>1, <1>2, <1>12 DEF vars, layer, SoundInv
<1> QED
  BY <1>3, <1>4, <1>5, <1>6, <1>7, <1>8, <1>9, <1>10, <1>11, <1>12 DEF Next

LEMMA SoundInvariant == Spec => []SoundInv
<1>1. BuildInv /\ SoundInv /\ [Next]_vars => SoundInv'
  BY NextSound
<1> QED
  BY <1>1, InitSound, BuildInvariant, PTL DEF Spec

LEMMA OneClaim ==
  ASSUME BuildInv, SoundNow
  PROVE  NoSharedAddress
<1>0. /\ eps \in Seq(Endpoints) /\ ep_reserved \in [Addresses -> Nat]
      /\ OneInterface(eps, ep_reserved, n_ifnums)
  BY DEF BuildInv, BuildTypes, TypesOf, SoundNow, Sound
<1>1. DOMAIN eps = 1..Len(eps) /\ Len(eps) \in Nat /\ \A i \in 1..Len(eps) : eps[i].ifnum \in Nat
  BY <1>0, LenProperties, EndpointTypes
<1> SUFFICES ASSUME NEW a \in Addresses PROVE Cardinality(ClaimsOn(a)) <= 1
  BY DEF NoSharedAddress
<1>2. \A c \in ClaimsOn(a) :
        \/ \E i \in 1..Len(eps) : eps[i].addr = a /\ c = eps[i].ifnum
        \/ c \in IfNums /\ ep_reserved[a] = c + 1
  BY <1>1 DEF ClaimsOn
<1>3. ASSUME NEW c \in ClaimsOn(a), NEW e \in ClaimsOn(a)
      PROVE  c = e
  <2>1. \A i, j \in 1..Len(eps) : eps[i].addr = a /\ eps[j].addr = a => eps[i].ifnum = eps[j].ifnum
    BY <1>0 DEF OneInterface
  <2>2. ASSUME NEW i \in 1..Len(eps), eps[i].addr = a, NEW o \in IfNums, ep_reserved[a] = o + 1
        PROVE  eps[i].ifnum = o
    <3>1. o \in Nat
      BY Bounds DEF IfNums
    <3>2. ep_reserved[a] # 0
      BY <2>2, <3>1
    <3>3. ep_reserved[a] = eps[i].ifnum + 1
      BY <1>0, <2>2, <3>2 DEF OneInterface
    <3> QED
      BY <1>1, <2>2, <3>1, <3>3
  <2>3. \A o, p \in IfNums : ep_reserved[a] = o + 1 /\ ep_reserved[a] = p + 1 => o = p
    BY Bounds DEF IfNums
  <2> QED
    BY <1>2, <1>3, <2>1, <2>2, <2>3
<1>4. CASE ClaimsOn(a) = {}
  BY <1>4, FS_EmptySet
<1>5. CASE ClaimsOn(a) # {}
  <2>1. PICK c : c \in ClaimsOn(a)
    BY <1>5
  <2>2. ClaimsOn(a) = {c}
    BY <1>3, <2>1
  <2>3. Cardinality({c}) = 1
    BY FS_Singleton
  <2> QED
    BY <2>2, <2>3
<1> QED
  BY <1>4, <1>5

LEMMA MapAgrees ==
  ASSUME BuildInv, SoundNow
  PROVE  MapIsComplete
<1>0. eps \in Seq(Endpoints) /\ MapLeads(eps, ep_map) /\ \A a \in Addresses : ep_map[a] \in 0..Len(eps)
  BY DEF BuildInv, BuildTypes, TypesOf, RefersBack, RefersTo, SoundNow, Sound
<1>1. DOMAIN eps = 1..Len(eps) /\ Len(eps) \in Nat
  BY <1>0, LenProperties
<1> SUFFICES ASSUME NEW a \in Addresses
             PROVE  LET at == {i \in DOMAIN eps : eps[i].addr = a}
                    IN ep_map[a] \in at \cup {0} /\ \A i \in at : i <= ep_map[a]
  BY DEF MapIsComplete
<1>2. ep_map[a] = 0 \/ (ep_map[a] \in 1..Len(eps) /\ eps[ep_map[a]].addr = a)
  <2>1. ep_map[a] \in 0..Len(eps) /\ (ep_map[a] # 0 => eps[ep_map[a]].addr = a)
    BY <1>0 DEF MapLeads
  <2> QED
    BY <1>1, <2>1
<1>3. \A i \in 1..Len(eps) : eps[i].addr = a => i <= ep_map[a]
  BY <1>0 DEF MapLeads
<1> QED
  BY <1>1, <1>2, <1>3

LEMMA BlobAgrees ==
  ASSUME BuildInv, SoundNow
  PROVE  BlobMatchesTables
<1>0. /\ descr \in Seq(Descriptors) /\ ifalts \in Seq(Records)
      /\ BlobHasEps(descr, eps) /\ CountsMatch(descr, ifalts)
  BY DEF BuildInv, BuildTypes, TypesOf, SoundNow, Sound
<1>1. DOMAIN descr = 1..Len(descr) /\ Len(descr) \in Nat /\ DOMAIN ifalts = 1..Len(ifalts)
  BY <1>0, LenProperties
<1>2. \A j : Nth(j) = EpCount(descr, j)
  BY DEF Nth, EpCount, EpsThrough, IsEp
<1>3. ASSUME NEW i \in 1..Len(descr), IsIf(descr, i)
      PROVE  EndpointsBelow(i) = Below(descr, i)
  <2>1. \A j \in 1..Len(descr) : (i \in Above(j) /\ \A k \in Above(j) : k <= i)
                                   <=> i < j /\ \A k \in 1..(j - 1) : IsIf(descr, k) => k <= i
    <3> SUFFICES ASSUME NEW j \in 1..Len(descr)
                 PROVE  (i \in Above(j) /\ \A k \in Above(j) : k <= i)
                          <=> i < j /\ \A k \in 1..(j - 1) : IsIf(descr, k) => k <= i
      OBVIOUS
    <3>1. i \in 1..(j - 1) <=> i < j
      BY <1>1
    <3>2. \A k : k \in Above(j) <=> k \in 1..(j - 1) /\ IsIf(descr, k)
      BY DEF Above, IsIf
    <3> QED
      BY <1>3, <3>1, <3>2
  <2>2. \A j : j \in EndpointsBelow(i) <=>
             j \in 1..Len(descr) /\ descr[j].kind = "ep" /\ i \in Above(j) /\ \A k \in Above(j) : k <= i
    BY <1>1 DEF EndpointsBelow, IsEp
  <2>3. \A j : j \in Below(descr, i) <=>
             j \in 1..Len(descr) /\ descr[j].kind = "ep" /\ i < j /\ \A k \in 1..(j - 1) : IsIf(descr, k) => k <= i
    BY DEF Below
  <2>4. \A j : j \in EndpointsBelow(i) <=> j \in Below(descr, i)
    BY <2>1, <2>2, <2>3
  <2>5. EndpointsBelow(i) \subseteq Below(descr, i) /\ Below(descr, i) \subseteq EndpointsBelow(i)
    BY <2>4
  <2> QED
    BY <2>5
<1>4. \A n, s : ifalt_for(n, s) # {} <=> Recorded(ifalts, n, s)
  BY <1>1 DEF ifalt_for, Recorded
<1>5. Nth(Len(descr)) = Len(eps) /\ \A j \in DOMAIN descr : IsEp(descr[j]) => descr[j].addr = eps[Nth(j)].addr
  BY <1>0, <1>1, <1>2 DEF BlobHasEps, IsEp
<1>6. ASSUME NEW i \in DOMAIN descr, descr[i].kind = "if"
      PROVE  /\ \A j \in EndpointsBelow(i) : eps[Nth(j)].ifnum = descr[i].ifnum
             /\ ifalt_for(descr[i].ifnum, descr[i].alt) # {} => descr[i].count = Cardinality(EndpointsBelow(i))
  <2>1. i \in 1..Len(descr) /\ IsIf(descr, i)
    BY <1>1, <1>6 DEF IsIf
  <2>2. EndpointsBelow(i) = Below(descr, i)
    BY <1>3, <2>1
  <2>3. \A j \in Below(descr, i) : eps[EpCount(descr, j)].ifnum = descr[i].ifnum
    BY <1>0, <2>1 DEF BlobHasEps
  <2>4. Recorded(ifalts, descr[i].ifnum, descr[i].alt) => descr[i].count = Cardinality(Below(descr, i))
    BY <1>0, <2>1 DEF CountsMatch
  <2> QED
    BY <1>2, <1>4, <2>2, <2>3, <2>4
<1> QED
  BY <1>5, <1>6 DEF BlobMatchesTables

LEMMA GroupsAgree ==
  ASSUME BuildInv, SoundNow
  PROVE  GroupsPartition
<1>0. groups \in Seq(GroupRecords) /\ GroupsCount(descr, groups, n_ifnums)
  BY DEF BuildInv, BuildTypes, TypesOf, SoundNow, Sound
<1>1. DOMAIN groups = 1..Len(groups)
  BY <1>0, LenProperties
<1>2. \A i, n : FirstAt(i, n) <=> FirstOf(descr, n, i)
  BY DEF FirstAt, FirstOf, IsIf
<1>3. \A k : SliceEnd(k) = EndOf(descr, groups, k)
  BY DEF SliceEnd, EndOf
<1> SUFFICES ASSUME NEW g \in 1..Len(groups)
             PROVE  {i \in 0..(MaxIf - 1) : \E n \in (groups[g].descr_off + 1)..SliceEnd(g) : FirstAt(i, n)}
                      = groups[g].first_ifnum..(groups[g].first_ifnum + groups[g].n_ifs - 1)
  BY <1>1 DEF GroupsPartition
<1>4. Firsts(descr, groups[g].descr_off, EndOf(descr, groups, g))
        = groups[g].first_ifnum..(groups[g].first_ifnum + groups[g].n_ifs - 1)
  BY <1>0 DEF GroupsCount, Counts
<1> QED
  BY <1>2, <1>3, <1>4 DEF Firsts

\* usbip_device_add_descriptor and its callers keep the blob, the endpoint table, the
\* address map, the reservations, the records of alternate settings and the groups in
\* agreement, whatever is appended in whatever order, relocated, reserved or rolled back.
THEOREM TablesAgreeHolds == Spec => []TablesAgree
<1>1. BuildInv /\ SoundInv => TablesAgree
  BY OneClaim, MapAgrees, BlobAgrees, GroupsAgree DEF SoundInv, TablesAgree
<1> QED
  BY <1>1, BuildInvariant, SoundInvariant, PTL

-----------------------------------------------------------------------------
(* What hosts see                                                          *)

\* Positions counted from the front: each of a set of positions has an index of its own, and
\* every index below the number of them is taken.
Preceding(S, i) == {j \in S : j < i}

\* The later of two comes later.
LEMMA Later ==
  ASSUME NEW n \in Nat, NEW S, S \subseteq 1..n, NEW i \in S, NEW j \in S, i < j
  PROVE  Before(S, i) \in Nat /\ Before(S, j) \in Nat /\ Before(S, i) < Before(S, j)
<1>1. PICK P, Q : P = Preceding(S, i) /\ Q = Preceding(S, j)
  OBVIOUS
<1>2. \A k \in S : k \in Nat /\ (k < i => k < j) /\ i \in Nat /\ j \in Nat
  OBVIOUS
<1>3. P \in SUBSET Q /\ Q \in SUBSET S /\ i \in Q /\ i \notin P
  <2>1. \A k : (k \in P <=> k \in S /\ k < i) /\ (k \in Q <=> k \in S /\ k < j)
    BY <1>1 DEF Preceding
  <2>2. ~(i < i)
    BY <1>2
  <2> QED BY <1>2, <2>1, <2>2
<1>4. IsFiniteSet(S)
  <2>1. IsFiniteSet(1..n)
    BY FS_Interval
  <2> QED BY <2>1, FS_Subset
<1>5. IsFiniteSet(Q) /\ IsFiniteSet(P) /\ Cardinality(P) <= Cardinality(Q) /\ (Cardinality(Q) = Cardinality(P) => Q = P)
  BY <1>3, <1>4, FS_Subset
<1>6. Cardinality(P) \in Nat /\ Cardinality(Q) \in Nat
  BY <1>5, FS_CardinalityType
<1>7. Before(S, i) = Cardinality(P) /\ Before(S, j) = Cardinality(Q)
  BY <1>1 DEF Before, Preceding
<1> QED
  BY <1>3, <1>5, <1>6, <1>7

LEMMA Ranks ==
  ASSUME NEW n \in Nat, NEW S, S \subseteq 1..n
  PROVE  /\ IsFiniteSet(S) /\ Cardinality(S) \in Nat
         /\ \A i \in S : Before(S, i) \in Nat /\ Before(S, i) < Cardinality(S)
         /\ \A i, j \in S : Before(S, i) = Before(S, j) => i = j
         /\ \A k \in 0..(Cardinality(S) - 1) : \E i \in S : Before(S, i) = k
<1>1. IsFiniteSet(S) /\ Cardinality(S) \in Nat /\ \A i \in S : i \in Nat
  <2>1. IsFiniteSet(1..n)
    BY FS_Interval
  <2>2. IsFiniteSet(S)
    BY <2>1, FS_Subset
  <2> QED BY <2>2, FS_CardinalityType
<1>2. \A i \in S : /\ IsFiniteSet(Preceding(S, i)) /\ Before(S, i) = Cardinality(Preceding(S, i))
                   /\ Before(S, i) \in Nat /\ Before(S, i) < Cardinality(S)
  <2> SUFFICES ASSUME NEW i \in S
               PROVE  /\ IsFiniteSet(Preceding(S, i)) /\ Before(S, i) = Cardinality(Preceding(S, i))
                      /\ Before(S, i) \in Nat /\ Before(S, i) < Cardinality(S)
    OBVIOUS
  <2>1. PICK P : P = Preceding(S, i)
    OBVIOUS
  <2>2. P \in SUBSET S /\ i \notin P
    BY <1>1, <2>1 DEF Preceding
  <2>3. IsFiniteSet(P) /\ Cardinality(P) <= Cardinality(S) /\ (Cardinality(S) = Cardinality(P) => S = P)
    BY <1>1, <2>2, FS_Subset
  <2>4. Cardinality(P) \in Nat /\ Cardinality(S) # Cardinality(P)
    BY <2>2, <2>3, FS_CardinalityType
  <2>5. Before(S, i) = Cardinality(Preceding(S, i))
    BY DEF Before, Preceding
  <2> QED BY <1>1, <2>1, <2>3, <2>4, <2>5
<1>3. \A i, j \in S : i < j => Before(S, i) # Before(S, j)
  <2> SUFFICES ASSUME NEW i \in S, NEW j \in S, i < j PROVE Before(S, i) # Before(S, j)
    OBVIOUS
  <2>1. Before(S, i) \in Nat /\ Before(S, j) \in Nat /\ Before(S, i) < Before(S, j)
    BY Later
  <2> QED BY <2>1
<1>4. \A i, j \in S : Before(S, i) = Before(S, j) => i = j
  <2> SUFFICES ASSUME NEW i \in S, NEW j \in S, Before(S, i) = Before(S, j), i # j PROVE FALSE
    OBVIOUS
  <2>1. i < j \/ j < i
    BY <1>1
  <2> QED BY <1>3, <2>1
<1> DEFINE T == 0..(Cardinality(S) - 1)
           f == [i \in S |-> Before(S, i)]
<1>5. f \in Injection(S, T)
  <2>1. \A i \in S : f[i] = Before(S, i) /\ f[i] \in T
    BY <1>1, <1>2
  <2>2. f \in [S -> T]
    BY <2>1
  <2> QED BY <1>4, <2>1, <2>2 DEF Injection, IsInjective
<1>6. IsFiniteSet(T) /\ Cardinality(T) = Cardinality(S)
  <2>1. PICK c : c = Cardinality(S)
    OBVIOUS
  <2>2. c \in Nat /\ c - 1 \in Int
    BY <1>1, <2>1
  <2>3. IsFiniteSet(0..(c - 1)) /\ Cardinality(0..(c - 1)) = IF 0 > c - 1 THEN 0 ELSE (c - 1) - 0 + 1
    BY <2>2, FS_Interval
  <2>4. (IF 0 > c - 1 THEN 0 ELSE (c - 1) - 0 + 1) = c
    BY <2>2
  <2> QED BY <2>1, <2>3, <2>4
<1>7. f \in Surjection(S, T)
  <2> HIDE DEF f, T
  <2> QED BY <1>5, <1>6, FS_Injection
<1>8. \A k \in T : \E i \in S : f[i] = k
  BY <1>7 DEF Surjection
<1> QED
  BY <1>1, <1>2, <1>4, <1>8

\* The one at an index.
AtIndex(S, k) == {j \in S : Before(S, j) = k}

LEMMA OneAtIndex ==
  ASSUME NEW n \in Nat, NEW S, S \subseteq 1..n
  PROVE  /\ \A i \in S : AtIndex(S, Before(S, i)) = {i}
         /\ \A k \in 0..(Cardinality(S) - 1) : \E i \in S : AtIndex(S, k) = {i}
         /\ AtIndex(S, Cardinality(S)) = {}
<1>1. /\ Cardinality(S) \in Nat
      /\ \A i \in S : Before(S, i) \in Nat /\ Before(S, i) < Cardinality(S)
      /\ \A i, j \in S : Before(S, i) = Before(S, j) => i = j
      /\ \A k \in 0..(Cardinality(S) - 1) : \E i \in S : Before(S, i) = k
  BY Ranks, Zenon
<1>2. \A i \in S : AtIndex(S, Before(S, i)) = {i}
  BY <1>1 DEF AtIndex
<1>3. ASSUME NEW k \in 0..(Cardinality(S) - 1) PROVE \E i \in S : AtIndex(S, k) = {i}
  <2>1. PICK i \in S : Before(S, i) = k
    BY <1>1
  <2>2. AtIndex(S, k) = {i}
    BY <1>2, <2>1
  <2> QED BY <2>2
<1>4. AtIndex(S, Cardinality(S)) = {}
  <2>1. \A j \in S : Before(S, j) # Cardinality(S)
    BY <1>1
  <2> QED BY <2>1 DEF AtIndex
<1> QED
  BY <1>2, <1>3, <1>4

-----------------------------------------------------------------------------
(* The readers of the blob                                                 *)

\* The interface descriptors, those of a setting 0, and those of a number.
Ifs == Positions(descr, "if")
ZeroIfs == {i \in Ifs : descr[i].alt = 0}
AltsOf(n) == {i \in Ifs : descr[i].ifnum = n}

\* Positions are places in the blob.
LEMMA BlobPositions ==
  ASSUME BuildInv
  PROVE  /\ Len(descr) \in Nat /\ DOMAIN descr = 1..Len(descr) /\ Ifs \subseteq 1..Len(descr)
         /\ ZeroIfs \subseteq 1..Len(descr) /\ \A i \in Ifs : i \in Nat /\ IsIf(descr, i) /\ descr[i].count \in Nat
         /\ \A i \in 1..Len(descr) : IsIf(descr, i) => i \in Ifs
         /\ n_ifnums \in Nat
         /\ \A i : Under(descr, i) \subseteq 1..Len(descr)
<1>1. descr \in Seq(Descriptors) /\ n_ifnums \in Nat
  BY DEF BuildInv, BuildTypes, TypesOf
<1>2. Len(descr) \in Nat /\ DOMAIN descr = 1..Len(descr)
  BY <1>1, LenProperties
<1>3. \A i \in 1..Len(descr) : descr[i].count \in Nat
  <2>1. \A i \in 1..Len(descr) : descr[i] \in Descriptors
    BY <1>1, ElementOfSeq
  <2> QED BY <2>1 DEF Descriptors
<1>4. \A i : i \in Ifs <=> i \in 1..Len(descr) /\ IsIf(descr, i)
  BY <1>2 DEF Ifs, Positions, IsIf
<1>5. \A i : Under(descr, i) \subseteq 1..Len(descr)
  BY <1>2 DEF Under, Positions
<1> QED
  BY <1>1, <1>2, <1>3, <1>4, <1>5 DEF ZeroIfs

\* The numbers of the interfaces are those below n_ifnums, and each has one setting 0.
LEMMA InterfaceNumbers ==
  ASSUME BuildInv, SoundNow, WellFormed
  PROVE  /\ \A i \in Ifs : descr[i].ifnum \in 0..(n_ifnums - 1)
         /\ \A x \in 0..(n_ifnums - 1) : \E i \in ZeroIfs : descr[i].ifnum = x
         /\ \A i, j \in ZeroIfs : descr[i].ifnum = descr[j].ifnum => i = j
         /\ {descr[i].ifnum : i \in Ifs} = 0..(n_ifnums - 1)
<1>1. NumbersInOrder(descr, if_present, n_ifnums) /\ descr \in Seq(Descriptors)
  BY DEF SoundNow, Sound, BuildInv, BuildTypes, TypesOf
<1>2. \A i \in Ifs : descr[i].ifnum \in 0..(n_ifnums - 1)
  <2> SUFFICES ASSUME NEW i \in Ifs PROVE descr[i].ifnum \in 0..(n_ifnums - 1)
    OBVIOUS
  <2>1. i \in 1..Len(descr) /\ IsIf(descr, i)
    BY BlobPositions
  <2>2. descr[i].ifnum \in Nat
    <3>1. descr[i] \in Descriptors
      BY <1>1, <2>1, ElementOfSeq
    <3> QED BY <3>1 DEF Descriptors
  <2>3. descr[i].ifnum < n_ifnums
    BY <1>1, <2>1 DEF NumbersInOrder
  <2> QED BY <2>2, <2>3, BlobPositions
<1>3. \A x \in 0..(n_ifnums - 1) : \E i \in ZeroIfs : descr[i].ifnum = x
  <2> SUFFICES ASSUME NEW x \in 0..(n_ifnums - 1) PROVE \E i \in ZeroIfs : descr[i].ifnum = x
    OBVIOUS
  <2>1. PICK i \in 1..Len(descr) : IsIf(descr, i) /\ descr[i].ifnum = x
    BY <1>1 DEF NumbersInOrder
  <2>2. i \in Ifs
    BY <2>1, BlobPositions
  <2>3. PICK j \in Ifs : descr[j].ifnum = descr[i].ifnum /\ descr[j].alt = 0
    BY <2>2 DEF WellFormed, Ifs
  <2> QED BY <2>1, <2>3 DEF ZeroIfs
<1>4. \A i, j \in ZeroIfs : descr[i].ifnum = descr[j].ifnum => i = j
  BY DEF WellFormed, ZeroIfs, Ifs
<1>5. {descr[i].ifnum : i \in Ifs} = 0..(n_ifnums - 1)
  <2>1. ZeroIfs \subseteq Ifs
    BY DEF ZeroIfs
  <2>2. {descr[i].ifnum : i \in Ifs} \subseteq 0..(n_ifnums - 1)
    BY <1>2
  <2>3. 0..(n_ifnums - 1) \subseteq {descr[i].ifnum : i \in Ifs}
    BY <1>3, <2>1
  <2> QED BY <2>2, <2>3
<1> QED
  BY <1>2, <1>3, <1>4, <1>5

\* So there are as many settings 0 as the device list entry announces.
LEMMA TuplesAnnounced ==
  ASSUME BuildInv, SoundNow, WellFormed
  PROVE  Cardinality(ZeroIfs) = n_ifnums /\ emit_iface_list(descr) = NumIfaces
<1> DEFINE T == 0..(n_ifnums - 1)
           f == [i \in ZeroIfs |-> descr[i].ifnum]
<1>1. /\ \A i \in ZeroIfs : descr[i].ifnum \in T
      /\ \A x \in T : \E i \in ZeroIfs : descr[i].ifnum = x
      /\ \A i, j \in ZeroIfs : descr[i].ifnum = descr[j].ifnum => i = j
  <2>1. ZeroIfs \subseteq Ifs
    BY DEF ZeroIfs
  <2> QED BY <2>1, InterfaceNumbers
<1>2. f \in Bijection(ZeroIfs, T)
  <2> HIDE DEF T
  <2>1. f \in [ZeroIfs -> T] /\ \A i \in ZeroIfs : f[i] = descr[i].ifnum
    BY <1>1
  <2> HIDE DEF f
  <2>2. f \in Injection(ZeroIfs, T)
    BY <1>1, <2>1 DEF Injection, IsInjective
  <2>3. f \in Surjection(ZeroIfs, T)
    BY <1>1, <2>1 DEF Surjection
  <2> QED BY <2>2, <2>3 DEF Bijection
<1>3. IsFiniteSet(ZeroIfs)
  BY BlobPositions, Ranks
<1>4. Cardinality(T) = Cardinality(ZeroIfs)
  BY <1>2, <1>3, FS_Bijection DEF ExistsBijection
<1>5. Cardinality(T) = n_ifnums
  <2>1. PICK n : n = n_ifnums
    OBVIOUS
  <2>2. n \in Nat /\ n - 1 \in Int
    BY <2>1, BlobPositions
  <2>3. Cardinality(0..(n - 1)) = IF 0 > n - 1 THEN 0 ELSE (n - 1) - 0 + 1
    BY <2>2, FS_Interval
  <2> QED BY <2>1, <2>2, <2>3
<1>6. emit_iface_list(descr) = Cardinality(ZeroIfs)
  BY DEF emit_iface_list, ZeroIfs, Ifs
<1> QED
  BY <1>4, <1>5, <1>6 DEF NumIfaces

\* libusbK's indices enumerate the interfaces.
LEMMA IndicesEnumerate ==
  ASSUME BuildInv, SoundNow, WellFormed
  PROVE  {lk_iface_number_by_index(descr, i) : i \in 0..(NumIfaces - 1)} = {descr[i].ifnum : i \in Ifs}
<1> DEFINE counted == {i \in ZeroIfs : \A j \in ZeroIfs :
                         Before(ZeroIfs, j) + 1 = Before(ZeroIfs, i) => descr[j].ifnum # descr[i].ifnum}
           found(k) == {i \in counted : Before(counted, i) = k}
<1>1. \A i \in ZeroIfs : Before(ZeroIfs, i) \in Nat /\ Before(ZeroIfs, i) < n_ifnums
  <2>1. \A i \in ZeroIfs : Before(ZeroIfs, i) \in Nat /\ Before(ZeroIfs, i) < Cardinality(ZeroIfs)
    BY BlobPositions, Ranks
  <2> QED BY <2>1, TuplesAnnounced
<1>2. counted = ZeroIfs
  <2> SUFFICES ASSUME NEW i \in ZeroIfs, NEW j \in ZeroIfs, Before(ZeroIfs, j) + 1 = Before(ZeroIfs, i)
               PROVE  descr[j].ifnum # descr[i].ifnum
    OBVIOUS
  <2>1. i # j
    BY <1>1
  <2> QED BY <2>1, InterfaceNumbers
<1>3. \A k : lk_iface_number_by_index(descr, k) =
              IF found(k) = {} THEN k ELSE descr[CHOOSE i \in found(k) : TRUE].ifnum
  BY DEF lk_iface_number_by_index, ZeroIfs, Ifs
<1>4. \A k : found(k) = AtIndex(ZeroIfs, k)
  BY <1>2 DEF AtIndex
<1> HIDE DEF counted, found
<1>5. /\ \A i \in ZeroIfs : AtIndex(ZeroIfs, Before(ZeroIfs, i)) = {i}
      /\ \A k \in 0..(Cardinality(ZeroIfs) - 1) : \E i \in ZeroIfs : AtIndex(ZeroIfs, k) = {i}
  <2>1. PICK n, Z : n = Len(descr) /\ Z = ZeroIfs
    OBVIOUS
  <2>2. n \in Nat /\ Z \subseteq 1..n
    BY <2>1, BlobPositions
  <2>3. /\ \A i \in Z : AtIndex(Z, Before(Z, i)) = {i}
        /\ \A k \in 0..(Cardinality(Z) - 1) : \E i \in Z : AtIndex(Z, k) = {i}
        /\ AtIndex(Z, Cardinality(Z)) = {}
    BY <2>2, OneAtIndex
  <2> QED BY <2>1, <2>3
<1>6. \A k : \A i : found(k) = {i} => lk_iface_number_by_index(descr, k) = descr[i].ifnum
  <2> SUFFICES ASSUME NEW k, NEW i, found(k) = {i} PROVE lk_iface_number_by_index(descr, k) = descr[i].ifnum
    OBVIOUS
  <2>1. found(k) # {} /\ (CHOOSE x \in found(k) : TRUE) = i
    OBVIOUS
  <2> QED BY <1>3, <2>1
<1>7. ASSUME NEW k \in 0..(NumIfaces - 1)
      PROVE  lk_iface_number_by_index(descr, k) \in {descr[i].ifnum : i \in Ifs}
  <2>1. PICK i \in ZeroIfs : found(k) = {i}
    BY <1>4, <1>5, TuplesAnnounced DEF NumIfaces
  <2>2. i \in Ifs
    BY DEF ZeroIfs
  <2> QED BY <1>6, <2>1, <2>2
<1>8. ASSUME NEW i \in Ifs
      PROVE  \E k \in 0..(NumIfaces - 1) : lk_iface_number_by_index(descr, k) = descr[i].ifnum
  <2>1. PICK j \in ZeroIfs : descr[j].ifnum = descr[i].ifnum
    BY InterfaceNumbers
  <2>2. PICK k : k = Before(ZeroIfs, j)
    OBVIOUS
  <2>3. found(k) = {j}
    BY <1>4, <1>5, <2>2
  <2>4. k \in 0..(NumIfaces - 1)
    BY <1>1, <2>2, BlobPositions DEF NumIfaces
  <2> QED BY <1>6, <2>1, <2>3, <2>4
<1> QED
  BY <1>7, <1>8

\* parse_config: each interface descriptor is in the tree, with the endpoints below it.
Setting(i) == [alt |-> descr[i].alt, eps |-> {descr[j].addr : j \in Under(descr, i)}]

LEMMA TreeHolds ==
  ASSUME BuildInv
  PROVE  /\ DOMAIN parse_config(descr) = {descr[i].ifnum : i \in Ifs}
         /\ \A i \in Ifs : \E k \in DOMAIN parse_config(descr)[descr[i].ifnum] :
              parse_config(descr)[descr[i].ifnum][k] = Setting(i)
         /\ \A n \in DOMAIN parse_config(descr) : \A k \in DOMAIN parse_config(descr)[n] :
              \E i \in Ifs : parse_config(descr)[n][k] = Setting(i)
<1> DEFINE N == {descr[i].ifnum : i \in Ifs}
           tree == parse_config(descr)
           At(n, k) == CHOOSE j \in AltsOf(n) : Before(AltsOf(n), j) = k - 1
<1>1. tree = [n \in N |-> [k \in 1..Cardinality(AltsOf(n)) |->
                LET i == At(n, k) IN [alt |-> descr[i].alt, eps |-> {descr[j].addr : j \in Under(descr, i)}]]]
  BY DEF parse_config, AltsOf, Ifs
<1>2. DOMAIN tree = N
  BY <1>1
<1>3. \A n \in N : DOMAIN tree[n] = 1..Cardinality(AltsOf(n))
                   /\ \A k \in 1..Cardinality(AltsOf(n)) : tree[n][k] = Setting(At(n, k))
  BY <1>1 DEF Setting
<1> HIDE DEF tree
<1>4. ASSUME NEW n
      PROVE  /\ Cardinality(AltsOf(n)) \in Nat
             /\ \A i \in AltsOf(n) : Before(AltsOf(n), i) \in Nat /\ Before(AltsOf(n), i) < Cardinality(AltsOf(n))
             /\ \A i, j \in AltsOf(n) : Before(AltsOf(n), i) = Before(AltsOf(n), j) => i = j
             /\ \A k \in 0..(Cardinality(AltsOf(n)) - 1) : \E i \in AltsOf(n) : Before(AltsOf(n), i) = k
  <2>1. PICK m, Z : m = Len(descr) /\ Z = AltsOf(n)
    OBVIOUS
  <2>2. m \in Nat /\ Z \subseteq 1..m
    BY <2>1, BlobPositions DEF AltsOf
  <2>3. /\ Cardinality(Z) \in Nat
        /\ \A i \in Z : Before(Z, i) \in Nat /\ Before(Z, i) < Cardinality(Z)
        /\ \A i, j \in Z : Before(Z, i) = Before(Z, j) => i = j
        /\ \A k \in 0..(Cardinality(Z) - 1) : \E i \in Z : Before(Z, i) = k
    BY <2>2, Ranks
  <2> QED BY <2>1, <2>3
<1>5. ASSUME NEW i \in Ifs
      PROVE  \E k \in DOMAIN tree[descr[i].ifnum] : tree[descr[i].ifnum][k] = Setting(i)
  <2>1. PICK n : n = descr[i].ifnum
    OBVIOUS
  <2>2. n \in N /\ i \in AltsOf(n)
    BY <2>1 DEF AltsOf
  <2>3. PICK k : k = Before(AltsOf(n), i) + 1
    OBVIOUS
  <2>4. k \in 1..Cardinality(AltsOf(n)) /\ k - 1 = Before(AltsOf(n), i)
    BY <1>4, <2>2, <2>3
  <2>5. At(n, k) = i
    <3>1. \A j \in AltsOf(n) : Before(AltsOf(n), j) = k - 1 => j = i
      BY <1>4, <2>2, <2>4
    <3> QED BY <2>2, <2>4, <3>1
  <2>6. tree[n][k] = Setting(i)
    BY <1>3, <2>2, <2>4, <2>5
  <2> QED BY <1>3, <2>1, <2>2, <2>4, <2>6
<1>6. ASSUME NEW n \in DOMAIN tree, NEW k \in DOMAIN tree[n]
      PROVE  \E i \in Ifs : tree[n][k] = Setting(i)
  <2>1. n \in N /\ k \in 1..Cardinality(AltsOf(n))
    BY <1>2, <1>3
  <2>2. k - 1 \in 0..(Cardinality(AltsOf(n)) - 1)
    BY <1>4, <2>1
  <2>3. \E j \in AltsOf(n) : Before(AltsOf(n), j) = k - 1
    BY <1>4, <2>2
  <2>4. At(n, k) \in AltsOf(n)
    BY <2>3
  <2>5. At(n, k) \in Ifs
    BY <2>4 DEF AltsOf
  <2> HIDE DEF At
  <2> QED BY <1>3, <2>1, <2>5
<1> QED
  BY <1>2, <1>5, <1>6 DEF tree

\* The endpoint descriptors below an interface are those bNumEndpoints counts.
LEMMA UnderIsBelow ==
  ASSUME BuildInv, NEW i \in Ifs
  PROVE  Under(descr, i) = Below(descr, i)
<1>1. /\ Len(descr) \in Nat /\ DOMAIN descr = 1..Len(descr) /\ i \in 1..Len(descr) /\ i \in Nat
      /\ \A k : k \in Ifs <=> k \in 1..Len(descr) /\ IsIf(descr, k)
  BY BlobPositions
<1>2. ASSUME NEW j
      PROVE  j \in Under(descr, i) <=> j \in 1..Len(descr) /\ descr[j].kind = "ep" /\ i < j
                                       /\ \A k \in Ifs : ~(k > i /\ k < j)
  <2>1. j \in Positions(descr, "ep") <=> j \in 1..Len(descr) /\ descr[j].kind = "ep"
    BY <1>1 DEF Positions
  <2>2. j \in 1..Len(descr) => (j > i <=> i < j)
    BY <1>1
  <2> QED BY <2>1, <2>2 DEF Under, Ifs
<1>3. ASSUME NEW j \in 1..Len(descr), i < j
      PROVE  (\A k \in Ifs : ~(k > i /\ k < j)) <=> \A k \in 1..(j - 1) : IsIf(descr, k) => k <= i
  <2>1. \A k \in 1..Len(descr) : k \in 1..(j - 1) <=> k < j
    BY <1>1
  <2>2. \A k \in 1..(j - 1) : k \in 1..Len(descr)
    BY <1>1
  <2>3. \A k \in 1..Len(descr) : ~(k > i) <=> k <= i
    BY <1>1
  <2> QED BY <1>1, <2>1, <2>2, <2>3
<1>4. \A j : j \in Below(descr, i) <=> j \in 1..Len(descr) /\ descr[j].kind = "ep" /\ i < j
                                       /\ \A k \in 1..(j - 1) : IsIf(descr, k) => k <= i
  BY DEF Below
<1>5. \A j : j \in Under(descr, i) <=> j \in Below(descr, i)
  BY <1>2, <1>3, <1>4
<1> QED
  BY <1>5

\* libusbK's walks find a setting and the endpoints that belong to it, and no more.
\* The endpoints a program gets that counts up to bNumEndpoints.
Walked(i) == {lk_ep_off(descr, i, k) : k \in 0..(descr[i].count - 1)}

LEMMA WalksFind ==
  ASSUME BuildInv, SoundNow, WellFormed, NEW i \in Ifs, ifalt_for(descr[i].ifnum, descr[i].alt) # {}
  PROVE  /\ lk_iface_off(descr, descr[i].ifnum, descr[i].alt) = {i}
         /\ \A w \in Walked(i) : Cardinality(w) = 1
         /\ lk_ep_off(descr, i, descr[i].count) = {}
         /\ UNION Walked(i) = Under(descr, i)
<1>1. lk_iface_off(descr, descr[i].ifnum, descr[i].alt) = {i}
  <2>1. {j \in Ifs : descr[j].ifnum = descr[i].ifnum /\ descr[j].alt = descr[i].alt} = {i}
    BY DEF WellFormed, Ifs
  <2>2. Before({i}, i) = 0
    <3>1. {j \in {i} : j < i} = {}
      BY BlobPositions
    <3> QED BY <3>1, FS_EmptySet DEF Before
  <2>3. lk_iface_off(descr, descr[i].ifnum, descr[i].alt) = {j \in {i} : Before({i}, j) = 0}
    BY <2>1 DEF lk_iface_off, Ifs
  <2> QED BY <2>2, <2>3
<1>2. descr[i].count = Cardinality(Under(descr, i))
  <2>1. CountsMatch(descr, ifalts) /\ ifalts \in Seq(Records)
    BY DEF SoundNow, Sound, BuildInv, BuildTypes, TypesOf
  <2>2. Recorded(ifalts, descr[i].ifnum, descr[i].alt)
    <3>1. DOMAIN ifalts = 1..Len(ifalts)
      BY <2>1, LenProperties
    <3> QED BY <3>1 DEF ifalt_for, Recorded
  <2>3. i \in 1..Len(descr) /\ IsIf(descr, i)
    BY BlobPositions
  <2>4. descr[i].count = Cardinality(Below(descr, i))
    BY <2>1, <2>2, <2>3 DEF CountsMatch
  <2> QED BY <2>4, UnderIsBelow
<1>3. PICK U, n, c : U = Under(descr, i) /\ n = Len(descr) /\ c = descr[i].count
  OBVIOUS
<1>4. n \in Nat /\ U \subseteq 1..n /\ c = Cardinality(U) /\ c \in Nat
  BY <1>2, <1>3, BlobPositions
<1>5. /\ \A k \in 0..(c - 1) : \E j \in U : AtIndex(U, k) = {j}
      /\ AtIndex(U, c) = {}
      /\ \A j \in U : Before(U, j) \in 0..(c - 1)
  <2>1. /\ \A j \in U : AtIndex(U, Before(U, j)) = {j}
        /\ \A k \in 0..(Cardinality(U) - 1) : \E j \in U : AtIndex(U, k) = {j}
        /\ AtIndex(U, Cardinality(U)) = {}
    BY <1>4, OneAtIndex
  <2>2. \A j \in U : Before(U, j) \in Nat /\ Before(U, j) < Cardinality(U)
    BY <1>4, Ranks
  <2>3. \A j \in U : Before(U, j) \in 0..(c - 1)
    BY <1>4, <2>2
  <2> QED BY <1>4, <2>1, <2>3
<1>6. \A k : lk_ep_off(descr, i, k) = AtIndex(U, k)
  BY <1>3 DEF lk_ep_off, AtIndex
<1>7. Walked(i) = {lk_ep_off(descr, i, k) : k \in 0..(c - 1)}
  BY <1>3 DEF Walked
<1>8. \A w \in Walked(i) : Cardinality(w) = 1
  <2> SUFFICES ASSUME NEW k \in 0..(c - 1) PROVE Cardinality(lk_ep_off(descr, i, k)) = 1
    BY <1>7
  <2>1. PICK j \in U : lk_ep_off(descr, i, k) = {j}
    BY <1>5, <1>6
  <2>2. Cardinality({j}) = 1
    BY FS_Singleton
  <2> QED BY <2>1, <2>2
<1>9. UNION Walked(i) = U
  <2>1. UNION Walked(i) \subseteq U
    BY <1>6, <1>7 DEF AtIndex
  <2>2. ASSUME NEW j \in U PROVE j \in UNION Walked(i)
    <3>1. j \in lk_ep_off(descr, i, Before(U, j))
      BY <1>6 DEF AtIndex
    <3> QED BY <1>5, <1>7, <3>1
  <2> QED BY <2>1, <2>2
<1>10. lk_ep_off(descr, i, descr[i].count) = {}
  BY <1>3, <1>5, <1>6
<1> QED
  BY <1>1, <1>3, <1>8, <1>9, <1>10

\* The endpoint descriptors are the entries of the endpoint table, one for one.
LEMMA EndpointPositions ==
  ASSUME BuildInv, SoundNow
  PROVE  /\ Len(descr) \in Nat /\ Len(eps) \in Nat /\ EpCount(descr, Len(descr)) = Len(eps)
         /\ \A j : j \in Positions(descr, "ep") <=> j \in 1..Len(descr) /\ descr[j].kind = "ep"
         /\ \A j \in Positions(descr, "ep") :
              EpCount(descr, j) \in 1..Len(eps) /\ descr[j].addr = eps[EpCount(descr, j)].addr
         /\ \A k \in 1..Len(eps) : \E j \in Positions(descr, "ep") : EpCount(descr, j) = k
         /\ \A k \in 1..Len(eps) : eps[k].addr \in Addresses
<1>1. eps \in Seq(Endpoints) /\ BlobHasEps(descr, eps) /\ Len(descr) \in Nat /\ DOMAIN descr = 1..Len(descr)
  BY BlobPositions DEF BuildInv, BuildTypes, TypesOf, SoundNow, Sound
<1>2. EpCount(descr, Len(descr)) = Len(eps) /\ Len(eps) \in Nat /\ \A k \in 1..Len(eps) : eps[k].addr \in Addresses
  BY <1>1, EndpointTypes DEF BlobHasEps
<1> DEFINE E == Positions(descr, "ep")
<1>3. \A j : j \in E <=> j \in 1..Len(descr) /\ descr[j].kind = "ep"
  BY <1>1 DEF Positions
<1>4. E = EpsThrough(descr, Len(descr))
  BY <1>3 DEF EpsThrough
<1> HIDE DEF E
<1>5. ASSUME NEW j \in E
      PROVE  EpCount(descr, j) = Before(E, j) + 1
  <2>1. j \in 1..Len(descr) /\ descr[j].kind = "ep" /\ j \in Nat /\ j - 1 \in Nat /\ (j - 1) + 1 = j
    BY <1>1, <1>3
  <2>2. EpCount(descr, j) = EpCount(descr, j - 1) + 1
    BY <2>1, EpCountNext
  <2>3. EpsThrough(descr, j - 1) = {k \in E : k < j}
    <3>1. \A k \in 1..Len(descr) : k \in 1..(j - 1) <=> k < j
      BY <1>1, <2>1
    <3>2. \A k \in 1..(j - 1) : k \in 1..Len(descr)
      BY <1>1, <2>1
    <3>3. \A k : k \in EpsThrough(descr, j - 1) <=> k \in {k2 \in E : k2 < j}
      BY <1>3, <3>1, <3>2 DEF EpsThrough
    <3> QED BY <3>3
  <2> QED BY <2>2, <2>3 DEF EpCount, Before
<1>6. \A j \in E : EpCount(descr, j) \in 1..Len(eps) /\ descr[j].addr = eps[EpCount(descr, j)].addr
  <2> SUFFICES ASSUME NEW j \in E
               PROVE  EpCount(descr, j) \in 1..Len(eps) /\ descr[j].addr = eps[EpCount(descr, j)].addr
    OBVIOUS
  <2>1. j \in 1..Len(descr) /\ descr[j].kind = "ep"
    BY <1>3
  <2>2. EpCount(descr, j) \in 1..EpCount(descr, Len(descr))
    BY <1>1, <2>1, EpPlace
  <2> QED BY <1>1, <1>2, <2>1, <2>2 DEF BlobHasEps
<1>7. ASSUME NEW k \in 1..Len(eps) PROVE \E j \in E : EpCount(descr, j) = k
  <2>1. PICK n, Z : n = Len(descr) /\ Z = E
    OBVIOUS
  <2>2. n \in Nat /\ Z \subseteq 1..n
    BY <1>1, <1>3, <2>1
  <2>3. \A x \in 0..(Cardinality(Z) - 1) : \E i \in Z : Before(Z, i) = x
    BY <2>2, Ranks
  <2>4. Cardinality(Z) = Len(eps)
    BY <1>2, <1>4, <2>1 DEF EpCount
  <2>5. k - 1 \in 0..(Cardinality(Z) - 1) /\ (k - 1) + 1 = k
    BY <1>2, <2>4
  <2>6. PICK i \in Z : Before(Z, i) = k - 1
    BY <2>3, <2>5
  <2> QED BY <1>5, <2>1, <2>5, <2>6
<1> QED
  BY <1>1, <1>2, <1>3, <1>6, <1>7 DEF E

\* The capture learns the addresses that are answered.
LEMMA CaptureLearns ==
  ASSUME BuildInv, SoundNow
  PROVE  pcap_epmap_learn(descr) = {a \in Addresses : ep_map[a] # 0}
<1>1. MapLeads(eps, ep_map) /\ \A a \in Addresses : ep_map[a] \in 0..Len(eps)
  BY DEF BuildInv, RefersBack, RefersTo, SoundNow, Sound
<1>2. ASSUME NEW j \in Positions(descr, "ep")
      PROVE  descr[j].addr \in Addresses /\ ep_map[descr[j].addr] # 0
  <2>1. PICK k \in 1..Len(eps) : descr[j].addr = eps[k].addr
    BY EndpointPositions
  <2>2. PICK a : a = eps[k].addr
    OBVIOUS
  <2>3. a \in Addresses /\ k <= ep_map[a]
    BY <1>1, <2>2, EndpointPositions DEF MapLeads
  <2>4. ep_map[a] # 0
    BY <2>3, EndpointPositions
  <2> QED BY <2>1, <2>2, <2>3, <2>4
<1>3. ASSUME NEW a \in Addresses, ep_map[a] # 0
      PROVE  \E j \in Positions(descr, "ep") : descr[j].addr = a
  <2>1. PICK k : k = ep_map[a]
    OBVIOUS
  <2>2. k \in 1..Len(eps) /\ eps[k].addr = a
    <3>1. k \in 0..Len(eps) /\ k # 0 /\ eps[k].addr = a
      BY <1>1, <1>3, <2>1 DEF MapLeads
    <3> QED BY <3>1, EndpointPositions
  <2>3. PICK j \in Positions(descr, "ep") : EpCount(descr, j) = k
    BY <2>2, EndpointPositions
  <2> QED BY <2>2, <2>3, EndpointPositions
<1>4. pcap_epmap_learn(descr) \subseteq {a \in Addresses : ep_map[a] # 0}
  BY <1>2 DEF pcap_epmap_learn
<1>5. {a \in Addresses : ep_map[a] # 0} \subseteq pcap_epmap_learn(descr)
  BY <1>3 DEF pcap_epmap_learn
<1> QED
  BY <1>4, <1>5

\* An endpoint after an interface is below the last one before it.
LEMMA SomewhereBelow ==
  ASSUME BuildInv, NEW j \in Positions(descr, "ep"), NEW h \in Ifs, h < j
  PROVE  \E i \in Ifs : j \in Under(descr, i)
<1> DEFINE A == {i \in Ifs : i < j}
<1>1. A \subseteq 1..Len(descr) /\ h \in A /\ Len(descr) \in Nat /\ j \in Nat
  BY BlobPositions DEF Positions
<1>2. PICK n, Z : n = Len(descr) /\ Z = A
  OBVIOUS
<1>3. n \in Nat /\ Z \subseteq 1..n /\ h \in Z
  BY <1>1, <1>2
<1>4. /\ Cardinality(Z) \in Nat
      /\ \A i \in Z : Before(Z, i) \in Nat /\ Before(Z, i) < Cardinality(Z)
      /\ \A k \in 0..(Cardinality(Z) - 1) : \E i \in Z : Before(Z, i) = k
  BY <1>3, Ranks
<1>5. PICK i \in Z : Before(Z, i) = Cardinality(Z) - 1
  <2>1. Cardinality(Z) - 1 \in 0..(Cardinality(Z) - 1)
    BY <1>3, <1>4
  <2> QED BY <1>4, <2>1
<1>6. \A k \in Z : k <= i
  <2> SUFFICES ASSUME NEW k \in Z, i < k PROVE FALSE
    BY <1>3
  <2>1. Before(Z, i) < Before(Z, k)
    BY <1>3, Later
  <2> QED BY <1>4, <1>5, <2>1
<1>7. \A k \in Ifs : ~(k > i /\ k < j)
  <2> SUFFICES ASSUME NEW k \in Ifs, k > i, k < j PROVE FALSE
    OBVIOUS
  <2>1. k \in Z /\ k \in Nat /\ i \in Nat
    BY <1>2, <1>3, BlobPositions
  <2> QED BY <1>6, <2>1
<1>8. i \in Ifs /\ j > i
  <2>1. i \in Ifs /\ i < j /\ i \in Nat
    BY <1>2, <1>3
  <2> QED BY <1>1, <2>1
<1>9. j \in Under(descr, i)
  BY <1>7, <1>8 DEF Under, Ifs
<1> QED
  BY <1>8, <1>9

\* libusb finds an endpoint for every address that is declared below an interface.
LEMMA TreeFinds ==
  ASSUME BuildInv, \A j \in Positions(descr, "ep") : \E i \in Positions(descr, "if") : i < j
  PROVE  FoundByAddress(descr) = pcap_epmap_learn(descr)
<1> DEFINE tree == parse_config(descr)
<1>1. /\ DOMAIN tree = {descr[i].ifnum : i \in Ifs}
      /\ \A i \in Ifs : \E k \in DOMAIN tree[descr[i].ifnum] : tree[descr[i].ifnum][k] = Setting(i)
      /\ \A n \in DOMAIN tree : \A k \in DOMAIN tree[n] : \E i \in Ifs : tree[n][k] = Setting(i)
  BY TreeHolds
<1>2. \A a : a \in FoundByAddress(descr) <=>
             \E n \in DOMAIN tree : \E k \in DOMAIN tree[n] : a \in tree[n][k].eps
  BY DEF FoundByAddress
<1> HIDE DEF tree
<1>3. \A i : Setting(i).eps = {descr[j].addr : j \in Under(descr, i)}
  BY DEF Setting
<1>4. ASSUME NEW a \in FoundByAddress(descr) PROVE a \in pcap_epmap_learn(descr)
  <2>1. PICK i \in Ifs : a \in Setting(i).eps
    BY <1>1, <1>2
  <2>2. PICK j \in Under(descr, i) : a = descr[j].addr
    BY <1>3, <2>1
  <2>3. j \in Positions(descr, "ep")
    BY DEF Under
  <2> QED BY <2>2, <2>3 DEF pcap_epmap_learn
<1>5. ASSUME NEW a \in pcap_epmap_learn(descr) PROVE a \in FoundByAddress(descr)
  <2>1. PICK j \in Positions(descr, "ep") : a = descr[j].addr
    BY DEF pcap_epmap_learn
  <2>2. PICK i \in Ifs : j \in Under(descr, i)
    BY SomewhereBelow DEF Ifs
  <2>3. a \in Setting(i).eps
    BY <1>3, <2>1, <2>2
  <2>4. PICK n : n = descr[i].ifnum
    OBVIOUS
  <2>5. n \in DOMAIN tree /\ \E k \in DOMAIN tree[n] : tree[n][k] = Setting(i)
    BY <1>1, <2>4
  <2> QED BY <1>2, <2>3, <2>5
<1> QED
  BY <1>4, <1>5

\* What is looked for at plug time cannot be built.
LEMMA NoConflict ==
  ASSUME BuildInv, SoundNow
  PROVE  check_endpoint_conflicts
<1>1. MapLeads(eps, ep_map) /\ OneInterface(eps, ep_reserved, n_ifnums) /\ eps \in Seq(Endpoints)
      /\ \A a \in Addresses : ep_map[a] \in 0..Len(eps)
  BY DEF BuildInv, BuildTypes, TypesOf, RefersBack, RefersTo, SoundNow, Sound
<1>2. DOMAIN eps = 1..Len(eps) /\ Len(eps) \in Nat
  BY <1>1, LenProperties
<1> SUFFICES ASSUME NEW i \in 1..Len(eps), ep_map[eps[i].addr] # 0
             PROVE  eps[ep_map[eps[i].addr]].ifnum = eps[i].ifnum
  BY <1>2 DEF check_endpoint_conflicts
<1>3. PICK a, k : a = eps[i].addr /\ k = ep_map[a]
  OBVIOUS
<1>4. a \in Addresses /\ k \in 0..Len(eps) /\ k # 0 /\ eps[k].addr = a
  BY <1>1, <1>3, EndpointTypes DEF MapLeads
<1>5. k \in 1..Len(eps)
  BY <1>2, <1>4
<1> QED
  BY <1>1, <1>3, <1>4, <1>5 DEF OneInterface

\* Every reader of the blob finds the device the tables describe.
LEMMA ReadersAgree ==
  ASSUME BuildInv, SoundNow
  PROVE  BlobIsReadAlike
<1> SUFFICES ASSUME WellFormed PROVE BlobIsReadAlike
  BY DEF BlobIsReadAlike
<1> DEFINE parsed == parse_config(descr)
<1>1. emit_iface_list(descr) = NumIfaces
  BY TuplesAnnounced
<1>2. {lk_iface_number_by_index(descr, i) : i \in 0..(NumIfaces - 1)} = DOMAIN parsed
  BY IndicesEnumerate, TreeHolds
<1>3. ASSUME NEW i \in Positions(descr, "if"), ifalt_for(descr[i].ifnum, descr[i].alt) # {}
      PROVE  LET tree == parsed[descr[i].ifnum]
                 walked == {lk_ep_off(descr, i, k) : k \in 0..(descr[i].count - 1)}
             IN /\ lk_iface_off(descr, descr[i].ifnum, descr[i].alt) = {i}
                /\ \A w \in walked : Cardinality(w) = 1
                /\ lk_ep_off(descr, i, descr[i].count) = {}
                /\ \E k \in DOMAIN tree : /\ tree[k].alt = descr[i].alt
                                          /\ tree[k].eps = {descr[j].addr : j \in UNION walked}
  <2>1. i \in Ifs
    BY DEF Ifs
  <2> DEFINE walked == {lk_ep_off(descr, i, k) : k \in 0..(descr[i].count - 1)}
             tree == parsed[descr[i].ifnum]
  <2>2. PICK W : W = Walked(i)
    OBVIOUS
  <2>3. W = walked
    BY <2>2 DEF Walked
  <2>4. /\ lk_iface_off(descr, descr[i].ifnum, descr[i].alt) = {i}
        /\ \A w \in W : Cardinality(w) = 1
        /\ lk_ep_off(descr, i, descr[i].count) = {}
        /\ UNION W = Under(descr, i)
    BY <1>3, <2>1, <2>2, WalksFind
  <2>5. PICK k \in DOMAIN tree : tree[k] = Setting(i)
    BY <2>1, TreeHolds
  <2>6. tree[k].alt = descr[i].alt /\ tree[k].eps = {descr[j].addr : j \in Under(descr, i)}
    BY <2>5 DEF Setting
  <2> HIDE DEF tree, walked
  <2> QED BY <2>3, <2>4, <2>6 DEF tree, walked
<1>4. pcap_epmap_learn(descr) = {a \in Addresses : ep_map[a] # 0} /\ check_endpoint_conflicts
  BY CaptureLearns, NoConflict
<1>5. (\A j \in Positions(descr, "ep") : \E i \in Positions(descr, "if") : i < j)
        => FoundByAddress(descr) = pcap_epmap_learn(descr)
  BY TreeFinds
<1> HIDE DEF parsed
<1> QED
  BY <1>1, <1>2, <1>3, <1>4, <1>5 DEF BlobIsReadAlike, parsed

-----------------------------------------------------------------------------
(* Microsoft OS descriptors and request routes                             *)

\* An interface is in a group.
Within(x, h) == h.first_ifnum <= x /\ x < h.first_ifnum + h.n_ifs

\* Where a request goes is the function of the group the interface is in; g and f are the
\* groups and the functions, the first n of them.
Routed(c, g, f, n) ==
  \A x \in 0..(MaxIf - 1) : c[x] # 0 => \E k \in 1..n : Within(x, g[k]) /\ c[x] = f[k]
DefaultOf(f, n) == IF n = 0 THEN 0 ELSE f[1]

\* Groups and functions come and go together, the groups in the order of the blob; the function
\* being built is the last, its group holds all interfaces declared since, and what a rollback
\* would restore are routes to the others.
RouteInv ==
  /\ Len(funcs) = Len(groups)
  /\ DOMAIN ctrl = 0..(MaxIf - 1) /\ Routed(ctrl, groups, funcs, Len(groups))
  /\ ctrl_default = DefaultOf(funcs, Len(funcs))
  /\ \A k, l \in 1..Len(groups) : k < l => groups[k].descr_off <= groups[l].descr_off
  /\ building # 0 =>
       /\ funcs[Len(funcs)] = building
       /\ \A x \in gmark.n_ifnums..(n_ifnums - 1) : x < MaxIf => Within(x, groups[Len(groups)])
       /\ DOMAIN gmark.ctrl = 0..(MaxIf - 1) /\ Routed(gmark.ctrl, groups, funcs, Len(groups) - 1)
       /\ gmark.ctrl_default = DefaultOf(funcs, Len(funcs) - 1)

\* The types of groups and functions.
LEMMA GroupTypes ==
  ASSUME BuildInv
  PROVE  /\ groups \in Seq(GroupRecords) /\ Len(groups) \in Nat /\ DOMAIN groups = 1..Len(groups)
         /\ funcs \in Seq(Nat) /\ Len(funcs) \in Nat /\ building \in Nat /\ made \in Nat
         /\ n_ifnums \in Nat /\ n_ifnums <= MaxIf + 1 /\ (groups = <<>> <=> Len(groups) = 0)
         /\ \A k \in 1..Len(groups) :
              /\ groups[k] \in GroupRecords
              /\ groups[k].first_ifnum \in Nat /\ groups[k].n_ifs \in Nat /\ groups[k].descr_off \in Nat
<1>1. /\ groups \in Seq(GroupRecords) /\ funcs \in Seq(Nat) /\ building \in Nat /\ made \in Nat
      /\ n_ifnums \in Nat /\ n_ifnums <= MaxIf + 1
  BY DEF BuildInv, BuildTypes, TypesOf, RefersBack, RefersTo
<1>2. \A k \in 1..Len(groups) : groups[k] \in GroupRecords
  BY <1>1, ElementOfSeq
<1>3. \A k \in 1..Len(groups) :
        groups[k].first_ifnum \in Nat /\ groups[k].n_ifs \in Nat /\ groups[k].descr_off \in Nat
  BY <1>2 DEF GroupRecords
<1>4. Len(groups) \in Nat /\ DOMAIN groups = 1..Len(groups) /\ Len(funcs) \in Nat
      /\ (groups = <<>> <=> Len(groups) = 0)
  BY <1>1, LenProperties, EmptySeq
<1> QED
  BY <1>1, <1>2, <1>3, <1>4

\* An interface more: no group loses one, and the group that is open gets a new number.
LEMMA RegisteredKeeps ==
  ASSUME BuildInv, NEW i \in Nat, NEW k \in 1..Len(groups)
  PROVE  /\ Registered(i)[k].descr_off = groups[k].descr_off
         /\ \A x \in Nat : Within(x, groups[k]) => Within(x, Registered(i)[k])
<1>1. PICK g : g = groups[k]
  OBVIOUS
<1>2. g.first_ifnum \in Nat /\ g.n_ifs \in Nat /\ g \in GroupRecords
  BY <1>1, GroupTypes
<1>3. \/ Registered(i)[k] = g
      \/ Registered(i)[k] = [g EXCEPT !.first_ifnum = IF g.n_ifs = 0 THEN i ELSE @, !.n_ifs = @ + 1]
  BY <1>1, RegisteredGroups DEF BuildInv
<1>4. CASE Registered(i)[k] = g
  BY <1>1, <1>4
<1>5. CASE Registered(i)[k] = [g EXCEPT !.first_ifnum = IF g.n_ifs = 0 THEN i ELSE @, !.n_ifs = @ + 1]
  <2>1. PICK h : h = Registered(i)[k]
    OBVIOUS
  <2>2. h.descr_off = g.descr_off /\ h.n_ifs = g.n_ifs + 1
        /\ h.first_ifnum = IF g.n_ifs = 0 THEN i ELSE g.first_ifnum
    BY <1>2, <1>5, <2>1 DEF GroupRecords
  <2>3. \A x \in Nat : Within(x, g) => Within(x, h)
    BY <1>2, <2>2 DEF Within
  <2> QED BY <1>1, <2>1, <2>2, <2>3
<1> QED
  BY <1>3, <1>4, <1>5

\* A number that is new goes to the open group.
LEMMA RegisteredTakes ==
  ASSUME BuildInv, SoundNow, groups # <<>>, n_ifnums < MaxIf
  PROVE  Within(n_ifnums, Registered(n_ifnums)[Len(groups)])
<1>1. Len(groups) \in 1..Len(groups) /\ n_ifnums \in Nat /\ Len(groups) # 0
  BY GroupTypes
<1>2. PICK g, h : g = groups[Len(groups)] /\ h = Registered(n_ifnums)[Len(groups)]
  OBVIOUS
<1>3. g.first_ifnum \in Nat /\ g.n_ifs \in Nat /\ g \in GroupRecords
  BY <1>1, <1>2, GroupTypes
<1>4. GroupsCount(descr, groups, n_ifnums) /\ NumbersInOrder(descr, if_present, n_ifnums)
  BY DEF SoundNow, Sound
<1>5. g.n_ifs > 0 => g.first_ifnum + g.n_ifs = n_ifnums
  BY <1>1, <1>2, <1>4 DEF GroupsCount
<1>6. n_ifnums \notin if_present
  BY <1>1, <1>4 DEF NumbersInOrder
<1>7. h = [g EXCEPT !.first_ifnum = IF g.n_ifs = 0 THEN n_ifnums ELSE @, !.n_ifs = @ + 1]
  <2>1. ~(n_ifnums >= MaxIf) /\ ~(Len(groups) < Len(groups))
    BY <1>1, Bounds
  <2>2. Registered(n_ifnums)[Len(groups)] =
          IF Len(groups) < Len(groups) \/ n_ifnums >= MaxIf \/ n_ifnums \in if_present THEN groups[Len(groups)]
          ELSE [groups[Len(groups)] EXCEPT !.first_ifnum = IF groups[Len(groups)].n_ifs = 0 THEN n_ifnums ELSE @,
                                           !.n_ifs = @ + 1]
    BY <1>1, RegisteredGroups DEF BuildInv
  <2> QED BY <1>2, <1>6, <2>1, <2>2
<1>8. h.n_ifs = g.n_ifs + 1 /\ h.first_ifnum = IF g.n_ifs = 0 THEN n_ifnums ELSE g.first_ifnum
  BY <1>3, <1>7 DEF GroupRecords
<1>9. Within(n_ifnums, h)
  BY <1>1, <1>3, <1>5, <1>8 DEF Within
<1> QED
  BY <1>2, <1>9

LEMMA InitRouteInv == Init => RouteInv
<1> SUFFICES ASSUME Init PROVE RouteInv
  OBVIOUS
<1>1. groups = <<>> /\ funcs = <<>> /\ ctrl = [i \in 0..(MaxIf - 1) |-> 0] /\ ctrl_default = 0 /\ building = 0
  BY DEF Init
<1>2. Len(groups) = 0 /\ Len(funcs) = 0 /\ 1..0 = {}
  BY <1>1
<1>3. Routed(ctrl, groups, funcs, Len(groups)) /\ DOMAIN ctrl = 0..(MaxIf - 1)
  BY <1>1 DEF Routed
<1>4. ctrl_default = DefaultOf(funcs, Len(funcs))
  BY <1>1, <1>2 DEF DefaultOf
<1>5. \A k, l \in 1..Len(groups) : k < l => groups[k].descr_off <= groups[l].descr_off
  BY <1>2
<1> QED
  BY <1>1, <1>2, <1>3, <1>4, <1>5 DEF RouteInv

\* A function begins with a group and no interface.
LEMMA AddClassRoutes ==
  ASSUME BuildInv, SoundNow, RouteInv, AddClass
  PROVE  RouteInv'
<1> DEFINE g == [first_ifnum |-> 0, n_ifs |-> 0, descr_off |-> Len(descr)]
<1>1. /\ groups' = Append(groups, g) /\ funcs' = Append(funcs, made + 1) /\ building' = made + 1
      /\ ctrl' = ctrl /\ ctrl_default' = IF funcs = <<>> THEN made + 1 ELSE ctrl_default
      /\ n_ifnums' = n_ifnums /\ gmark' = Mark
  BY DEF AddClass, GroupBegin, tables
<1>2. gmark'.n_ifnums = n_ifnums /\ gmark'.ctrl = ctrl /\ gmark'.ctrl_default = ctrl_default
  BY <1>1 DEF Mark
<1>3. Len(descr) \in Nat /\ g \in GroupRecords /\ g.descr_off = Len(descr)
  BY BlobPositions DEF GroupRecords
<1> HIDE DEF g
<1>4. /\ Len(groups') = Len(groups) + 1 /\ \A k \in 1..Len(groups) : groups'[k] = groups[k]
      /\ groups'[Len(groups) + 1] = g
  BY <1>1, <1>3, GroupTypes, Appends
<1>5. /\ Len(funcs') = Len(funcs) + 1 /\ funcs'[Len(funcs) + 1] = made + 1
      /\ \A k \in 1..Len(funcs) : funcs'[k] = funcs[k]
  <2>1. made + 1 \in Nat
    BY GroupTypes
  <2> QED BY <1>1, <2>1, GroupTypes, Appends
<1>6. PICK n : n = Len(groups)
  OBVIOUS
<1>7. n \in Nat /\ Len(funcs) = n /\ Len(groups') = n + 1 /\ Len(funcs') = n + 1 /\ n + 1 # 0 /\ (n + 1) - 1 = n
  BY <1>4, <1>5, <1>6, GroupTypes DEF RouteInv
<1>8. Routed(ctrl, groups, funcs, n) => Routed(ctrl, groups', funcs', n) /\ Routed(ctrl, groups', funcs', n + 1)
  <2>1. \A k \in 1..n : k \in 1..(n + 1) /\ groups'[k] = groups[k] /\ funcs'[k] = funcs[k]
    BY <1>4, <1>5, <1>6, <1>7
  <2> QED BY <2>1 DEF Routed
<1>9. DOMAIN ctrl = 0..(MaxIf - 1) /\ Routed(ctrl, groups, funcs, n) /\ ctrl_default = DefaultOf(funcs, n)
  BY <1>6, <1>7 DEF RouteInv
<1>10. /\ ctrl_default = DefaultOf(funcs', n) /\ ctrl_default' = DefaultOf(funcs', n + 1)
  <2>1. funcs = <<>> <=> n = 0
    BY <1>7, GroupTypes, EmptySeq
  <2>2. n # 0 => funcs'[1] = funcs[1]
    <3>1. n # 0 => 1 \in 1..Len(funcs)
      BY <1>7
    <3> QED BY <1>5, <3>1
  <2>3. n = 0 => funcs'[1] = made + 1
    BY <1>5, <1>7
  <2> QED BY <1>1, <1>7, <1>9, <2>1, <2>2, <2>3 DEF DefaultOf
<1>11. \A k, l \in 1..Len(groups') : k < l => groups'[k].descr_off <= groups'[l].descr_off
  <2> SUFFICES ASSUME NEW k \in 1..(n + 1), NEW l \in 1..(n + 1), k < l
               PROVE  groups'[k].descr_off <= groups'[l].descr_off
    BY <1>7
  <2>1. k \in 1..n /\ (l \in 1..n \/ l = n + 1)
    BY <1>7
  <2>2. groups[k].descr_off <= Len(descr)
    BY <1>6, <2>1 DEF SoundNow, Sound, GroupsCount
  <2>3. CASE l \in 1..n
    BY <1>4, <1>6, <2>1, <2>3 DEF RouteInv
  <2>4. CASE l = n + 1
    BY <1>3, <1>4, <1>6, <2>1, <2>2, <2>4
  <2> QED BY <2>1, <2>3, <2>4
<1>12. n_ifnums \in Nat /\ n_ifnums..(n_ifnums - 1) = {}
  BY GroupTypes
<1> QED
  BY <1>1, <1>2, <1>5, <1>7, <1>8, <1>9, <1>10, <1>11, <1>12 DEF RouteInv

\* An interface goes to the function that declares it, if any.
LEMMA AddInterfaceRoutes ==
  ASSUME BuildInv, SoundNow, RouteInv, NEW i \in Nat, NEW alt \in Nat, AddInterface(i, alt), i <= n_ifnums,
         UNCHANGED <<gmark, ctrl_default, funcs, building>>, DOMAIN ctrl' = DOMAIN ctrl,
         \A x \in DOMAIN ctrl :
           ctrl'[x] = ctrl[x] \/ (x = i /\ building # 0 /\ i >= gmark.n_ifnums /\ ctrl'[x] = building)
  PROVE  RouteInv'
<1>1. groups' = Registered(i) /\ n_ifnums' = IF i + 1 > n_ifnums THEN i + 1 ELSE n_ifnums
  BY DEF AddInterface
<1>2. PICK n : n = Len(groups)
  OBVIOUS
<1>3. /\ n \in Nat /\ Len(groups') = n /\ Len(funcs) = n
      /\ \A k \in 1..n : /\ groups'[k].descr_off = groups[k].descr_off
                         /\ \A x \in Nat : Within(x, groups[k]) => Within(x, groups'[k])
  <2>1. Len(Registered(i)) = Len(groups)
    BY RegisteredGroups DEF BuildInv
  <2>2. \A k \in 1..n : /\ Registered(i)[k].descr_off = groups[k].descr_off
                        /\ \A x \in Nat : Within(x, groups[k]) => Within(x, Registered(i)[k])
    BY <1>2, RegisteredKeeps
  <2> QED BY <1>1, <1>2, <2>1, <2>2, GroupTypes DEF RouteInv
<1>4. MaxIf \in Nat /\ n_ifnums \in Nat /\ \A x \in 0..(MaxIf - 1) : x \in Nat /\ x < MaxIf
  BY Bounds, GroupTypes
<1>5. ASSUME NEW c, NEW m, m \in {n, n - 1}, Routed(c, groups, funcs, m)
      PROVE  Routed(c, groups', funcs', m)
  <2>1. \A k \in 1..m : k \in 1..n
    BY <1>3, <1>5
  <2> QED BY <1>3, <1>4, <1>5, <2>1 DEF Routed
<1>6. ASSUME building # 0, NEW x \in gmark.n_ifnums..(n_ifnums' - 1), x < MaxIf
      PROVE  Within(x, groups'[n])
  <2>1. groups # <<>> /\ gmark.n_ifnums \in Nat
    BY <1>6 DEF BuildInv, MarkIsBehind
  <2>2. n \in 1..n /\ n # 0 /\ x \in Nat
    BY <1>2, <1>3, <1>6, <2>1, GroupTypes
  <2>3. CASE x < n_ifnums
    <3>1. x \in gmark.n_ifnums..(n_ifnums - 1)
      BY <1>4, <1>6, <2>1, <2>2, <2>3
    <3>2. Within(x, groups[n])
      BY <1>2, <1>6, <3>1 DEF RouteInv
    <3> QED BY <1>3, <2>2, <3>2
  <2>4. CASE ~(x < n_ifnums)
    <3>1. x = n_ifnums /\ i = n_ifnums
      BY <1>1, <1>4, <1>6, <2>1, <2>2, <2>4
    <3>2. Within(n_ifnums, Registered(n_ifnums)[Len(groups)])
      BY <1>6, <2>1, <3>1, RegisteredTakes
    <3> QED BY <1>1, <1>2, <3>1, <3>2
  <2> QED BY <2>3, <2>4
<1>7. Routed(ctrl', groups', funcs', n)
  <2>1. Routed(ctrl, groups, funcs, n) /\ DOMAIN ctrl = 0..(MaxIf - 1)
    BY <1>2 DEF RouteInv
  <2>2. Routed(ctrl, groups', funcs', n)
    BY <1>5, <2>1
  <2> SUFFICES ASSUME NEW x \in 0..(MaxIf - 1), ctrl'[x] # 0
               PROVE  \E k \in 1..n : Within(x, groups'[k]) /\ ctrl'[x] = funcs'[k]
    BY DEF Routed
  <2>3. CASE ctrl'[x] = ctrl[x]
    BY <2>2, <2>3 DEF Routed
  <2>4. CASE x = i /\ building # 0 /\ i >= gmark.n_ifnums /\ ctrl'[x] = building
    <3>1. gmark.n_ifnums \in Nat /\ groups # <<>>
      BY <2>4 DEF BuildInv, MarkIsBehind
    <3>2. x \in gmark.n_ifnums..(n_ifnums' - 1) /\ x < MaxIf
      BY <1>1, <1>4, <2>4, <3>1
    <3>3. Within(x, groups'[n])
      BY <1>6, <2>4, <3>2
    <3>4. n \in 1..n
      BY <1>2, <1>3, <3>1, GroupTypes
    <3>5. funcs'[n] = building
      BY <1>3, <2>4 DEF RouteInv
    <3> QED BY <2>4, <3>3, <3>4, <3>5
  <2> QED BY <2>1, <2>3, <2>4
<1>8. \A k, l \in 1..n : k < l => groups'[k].descr_off <= groups'[l].descr_off
  BY <1>2, <1>3 DEF RouteInv
<1>9. building # 0 => Routed(gmark'.ctrl, groups', funcs', n - 1) /\ DOMAIN gmark'.ctrl = 0..(MaxIf - 1)
  <2> SUFFICES ASSUME building # 0
               PROVE  Routed(gmark.ctrl, groups', funcs', n - 1) /\ DOMAIN gmark.ctrl = 0..(MaxIf - 1)
    OBVIOUS
  <2>1. Routed(gmark.ctrl, groups, funcs, n - 1) /\ DOMAIN gmark.ctrl = 0..(MaxIf - 1)
    BY <1>2 DEF RouteInv
  <2> QED BY <1>5, <2>1
<1>10. /\ ctrl_default' = DefaultOf(funcs', Len(funcs')) /\ DOMAIN ctrl' = 0..(MaxIf - 1)
       /\ building' # 0 => /\ funcs'[Len(funcs')] = building'
                           /\ gmark'.ctrl_default = DefaultOf(funcs', Len(funcs') - 1)
  BY DEF RouteInv
<1> QED
  BY <1>3, <1>6, <1>7, <1>8, <1>9, <1>10 DEF RouteInv

\* usbip_device_group_abort restores the routes to the functions that are left.
LEMMA FailClassRoutes ==
  ASSUME BuildInv, RouteInv, FailClass
  PROVE  RouteInv'
<1>1. /\ building # 0 /\ building' = 0 /\ groups' = SubSeq(groups, 1, Len(groups) - 1)
      /\ funcs' = SubSeq(funcs, 1, Len(funcs) - 1) /\ ctrl' = gmark.ctrl /\ ctrl_default' = gmark.ctrl_default
  BY DEF FailClass, GroupAbort, RestoredRoutes
<1>2. PICK n : n = Len(groups) - 1
  OBVIOUS
<1>3. n \in Nat /\ n <= Len(groups) /\ Len(funcs) - 1 = n /\ n <= Len(funcs)
  <2>1. groups # <<>>
    BY <1>1 DEF BuildInv
  <2> QED BY <1>2, <2>1, GroupTypes DEF RouteInv
<1>4. Len(groups') = n /\ \A k \in 1..n : groups'[k] = groups[k] /\ k \in 1..Len(groups)
  <2>1. SubSeq(groups, 1, n) \in Seq(GroupRecords) /\ Len(SubSeq(groups, 1, n)) = n
        /\ \A k \in 1..n : SubSeq(groups, 1, n)[k] = groups[k]
    BY <1>3, GroupTypes, PrefixType
  <2>2. \A k \in 1..n : k \in 1..Len(groups)
    BY <1>3, GroupTypes
  <2> QED BY <1>1, <1>2, <2>1, <2>2
<1>5. Len(funcs') = n /\ \A k \in 1..n : funcs'[k] = funcs[k]
  <2>1. SubSeq(funcs, 1, n) \in Seq(Nat) /\ Len(SubSeq(funcs, 1, n)) = n
        /\ \A k \in 1..n : SubSeq(funcs, 1, n)[k] = funcs[k]
    BY <1>3, GroupTypes, PrefixType
  <2> QED BY <1>1, <1>3, <2>1
<1>6. /\ DOMAIN gmark.ctrl = 0..(MaxIf - 1) /\ Routed(gmark.ctrl, groups, funcs, n)
      /\ gmark.ctrl_default = DefaultOf(funcs, n)
      /\ \A k, l \in 1..Len(groups) : k < l => groups[k].descr_off <= groups[l].descr_off
  BY <1>1, <1>2, <1>3 DEF RouteInv
<1>7. Routed(ctrl', groups', funcs', n) /\ DOMAIN ctrl' = 0..(MaxIf - 1)
  BY <1>1, <1>4, <1>5, <1>6 DEF Routed
<1>8. ctrl_default' = DefaultOf(funcs', n)
  <2>1. n # 0 => 1 \in 1..n
    BY <1>3
  <2> QED BY <1>1, <1>5, <1>6, <2>1 DEF DefaultOf
<1>9. \A k, l \in 1..n : k < l => groups'[k].descr_off <= groups'[l].descr_off
  BY <1>4, <1>6
<1> QED
  BY <1>1, <1>4, <1>5, <1>7, <1>8, <1>9 DEF RouteInv

LEMMA NextRoutes ==
  ASSUME BuildInv, SoundNow, RouteInv, [Next]_vars
  PROVE  RouteInv'
<1>1. CASE AddClass \/ FailClass
  BY <1>1, AddClassRoutes, FailClassRoutes
<1>2. ASSUME UNCHANGED <<groups, gmark, routes, funcs, n_ifnums>>, building' \in {building, 0}
      PROVE  RouteInv'
  BY <1>2 DEF RouteInv, routes
<1>3. CASE EndClass \/ FunctionAddOther \/ (\E g \in -1..(MaxGroups - 1) : EnableMsos(g)) \/ UNCHANGED vars
  <2>1. UNCHANGED <<groups, gmark, routes, funcs, n_ifnums>> /\ building' \in {building, 0}
    BY <1>3 DEF EndClass, FunctionAddOther, AddOther, EnableMsos, tables, layer, vars
  <2> QED BY <1>2, <2>1
<1>4. ASSUME NEW want \in 0..MaxNumber, NEW dir \in Dirs,
             \/ FunctionAddEndpoint(want, dir) \/ AppAddEndpoint(want, dir)
             \/ FunctionReserve(want, dir) \/ AppReserve(want, dir)
      PROVE  RouteInv'
  <2>1. UNCHANGED <<groups, gmark, routes, funcs, n_ifnums>> /\ building' \in {building, 0}
    BY <1>4 DEF FunctionAddEndpoint, AppAddEndpoint, FunctionReserve, AppReserve, AddEndpoint, Reserve, layer
  <2> QED BY <1>2, <2>1
<1>5. ASSUME NEW i \in IfNums, NEW alt \in 0..MaxAlt, FunctionAddInterface(i, alt)
      PROVE  RouteInv'
  <2>1. /\ building # 0 /\ ClassDeclares(i, alt) /\ AddInterface(i, alt)
        /\ UNCHANGED <<gmark, ctrl_default, funcs, building>>
        /\ ctrl' = [x \in DOMAIN ctrl |-> IF x = i THEN building ELSE ctrl[x]]
    BY <1>5 DEF FunctionAddInterface
  <2>2. n_ifnums \in Nat /\ cur_ifnum \in Nat \cup {-1} /\ cur_ifnum < n_ifnums
        /\ gmark.n_ifnums \in Nat /\ gmark.n_ifnums <= n_ifnums
        /\ (cur_iface => cur_ifnum >= gmark.n_ifnums)
    BY <2>1 DEF BuildInv, BuildTypes, TypesOf, RefersBack, RefersTo, MarkIsBehind, OwnInterfaces
  <2>3. i <= n_ifnums /\ i >= gmark.n_ifnums
    BY <2>1, <2>2 DEF ClassDeclares
  <2>4. i \in Nat /\ alt \in Nat
    BY Bounds DEF IfNums
  <2>5. DOMAIN ctrl' = DOMAIN ctrl /\ \A x \in DOMAIN ctrl : ctrl'[x] = IF x = i THEN building ELSE ctrl[x]
    BY <2>1
  <2> QED BY <2>1, <2>3, <2>4, <2>5, AddInterfaceRoutes
<1>6. ASSUME NEW i \in IfNums, NEW alt \in 0..MaxAlt, AppAddInterface(i, alt)
      PROVE  RouteInv'
  <2>1. /\ AddInterface(i, alt) /\ (i < n_ifnums \/ i = n_ifnums)
        /\ UNCHANGED <<gmark, ctrl, ctrl_default, funcs, building>>
    BY <1>6 DEF AppAddInterface, layer, routes
  <2>2. i \in Nat /\ alt \in Nat /\ i <= n_ifnums
    BY <2>1, Bounds, GroupTypes DEF IfNums
  <2> QED BY <2>1, <2>2, AddInterfaceRoutes
<1> QED
  BY <1>1, <1>3, <1>4, <1>5, <1>6 DEF Next

LEMMA RouteInvariant == Spec => []RouteInv
<1>1. BuildInv /\ SoundInv /\ RouteInv /\ [Next]_vars => RouteInv'
  BY NextRoutes DEF SoundInv
<1> QED
  BY <1>1, InitRouteInv, BuildInvariant, SoundInvariant, PTL DEF Spec

\* A request to an interface reaches the function of its group, or the first one.
LEMMA RequestsArrive ==
  ASSUME BuildInv, SoundNow, RouteInv
  PROVE  RequestsReachTheirFunction
<1>1. ctrl_default = IF funcs = <<>> THEN 0 ELSE funcs[1]
  <2>1. funcs = <<>> <=> Len(funcs) = 0
    BY GroupTypes, EmptySeq
  <2> QED BY <2>1 DEF RouteInv, DefaultOf
<1>2. \A x \in if_present : x \in 0..(MaxIf - 1)
  <2>1. if_present = {x \in 0..(n_ifnums - 1) : x < MaxIf} /\ n_ifnums \in Nat /\ MaxIf \in Nat
    BY GroupTypes, Bounds DEF SoundNow, Sound, NumbersInOrder
  <2> QED BY <2>1
<1>3. ASSUME NEW what, NEW x \in if_present, NEW f \in HandledBy(what, "interface", x)
      PROVE  f = ctrl_default \/ \E g \in DOMAIN groups : InGroup(x, g - 1) /\ f = funcs[g]
  <2>1. f = route("interface", x)
    BY <1>3 DEF HandledBy
  <2>2. f = ctrl_default \/ (ctrl[x] # 0 /\ f = ctrl[x])
    BY <2>1 DEF route
  <2>3. ASSUME ctrl[x] # 0 PROVE \E g \in DOMAIN groups : InGroup(x, g - 1) /\ ctrl[x] = funcs[g]
    <3>1. PICK g \in 1..Len(groups) : Within(x, groups[g]) /\ ctrl[x] = funcs[g]
      BY <1>2, <2>3 DEF RouteInv, Routed
    <3>2. (g - 1) + 1 = g /\ g \in DOMAIN groups
      BY GroupTypes
    <3>3. InGroup(x, g - 1)
      BY <3>1, <3>2 DEF InGroup, Within
    <3> QED BY <3>1, <3>2, <3>3
  <2> QED BY <2>2, <2>3
<1> QED
  BY <1>1, <1>3 DEF RequestsReachTheirFunction

\* No interface is in two groups.
LEMMA GroupsApart ==
  ASSUME BuildInv, SoundNow, RouteInv, NEW k \in 1..Len(groups), NEW l \in 1..Len(groups),
         NEW x \in Nat, Within(x, groups[k]), Within(x, groups[l])
  PROVE  k = l
<1>1. ASSUME NEW h \in 1..Len(groups), Within(x, groups[h])
      PROVE  \E n \in (groups[h].descr_off + 1)..EndOf(descr, groups, h) : FirstOf(descr, n, x)
  <2>1. Firsts(descr, groups[h].descr_off, EndOf(descr, groups, h))
          = groups[h].first_ifnum..(groups[h].first_ifnum + groups[h].n_ifs - 1)
    BY <1>1 DEF SoundNow, Sound, GroupsCount, Counts
  <2>2. x \in groups[h].first_ifnum..(groups[h].first_ifnum + groups[h].n_ifs - 1)
    <3>1. PICK a, b : a = groups[h].first_ifnum /\ b = groups[h].n_ifs
      OBVIOUS
    <3>2. a \in Nat /\ b \in Nat /\ a <= x /\ x < a + b
      BY <1>1, <3>1, GroupTypes DEF Within
    <3>3. x \in a..(a + b - 1)
      BY <3>2
    <3> QED BY <3>1, <3>3
  <2> QED BY <2>1, <2>2 DEF Firsts
<1>2. ASSUME NEW a \in 1..Len(groups), NEW b \in 1..Len(groups), a < b,
             Within(x, groups[a]), Within(x, groups[b])
      PROVE  FALSE
  <2>1. PICK n \in (groups[a].descr_off + 1)..EndOf(descr, groups, a) : FirstOf(descr, n, x)
    BY <1>1, <1>2
  <2>2. PICK m \in (groups[b].descr_off + 1)..EndOf(descr, groups, b) : FirstOf(descr, m, x)
    BY <1>1, <1>2
  <2>3. EndOf(descr, groups, a) = groups[a + 1].descr_off /\ a + 1 \in 1..Len(groups)
    <3>1. PICK N : N = Len(groups)
      OBVIOUS
    <3>2. N \in Nat /\ a \in 1..N /\ b \in 1..N
      BY <1>2, <3>1, GroupTypes
    <3>3. a < N /\ a + 1 \in 1..N
      BY <1>2, <3>2
    <3> QED BY <3>1, <3>3 DEF EndOf
  <2>4. groups[a + 1].descr_off <= groups[b].descr_off
    <3>1. a + 1 = b \/ a + 1 < b
      BY <1>2, GroupTypes
    <3>2. CASE a + 1 = b
      BY <2>3, <3>2, GroupTypes
    <3>3. CASE a + 1 < b
      BY <2>3, <3>3 DEF RouteInv
    <3> QED BY <3>1, <3>2, <3>3
  <2>5. /\ groups[a].descr_off \in Nat /\ groups[a + 1].descr_off \in Nat /\ groups[b].descr_off \in Nat
        /\ EndOf(descr, groups, b) <= Len(descr) /\ Len(descr) \in Nat
    BY <2>3, GroupTypes, BlobPositions DEF SoundNow, Sound, GroupsCount
  <2>6. n \in 1..(m - 1)
    <3>1. n \in Int /\ m \in Int /\ groups[a].descr_off + 1 <= n /\ n <= groups[a + 1].descr_off
          /\ groups[b].descr_off + 1 <= m
      BY <2>1, <2>2, <2>3, <2>5
    <3>2. PICK o, p, q : o = groups[a].descr_off /\ p = groups[a + 1].descr_off /\ q = groups[b].descr_off
      OBVIOUS
    <3>3. o \in Nat /\ p \in Nat /\ q \in Nat /\ p <= q /\ o + 1 <= n /\ n <= p /\ q + 1 <= m
      BY <2>4, <2>5, <3>1, <3>2
    <3> QED BY <3>1, <3>3
  <2> QED BY <2>1, <2>2, <2>6 DEF FirstOf
<1>3. k < l \/ l < k \/ k = l
  BY GroupTypes
<1> QED
  BY <1>2, <1>3

\* The length announced is the length written.
LEMMA LengthsAgree ==
  build_bos_desc # 0 => build_bos_desc = msos2_set.len
<1>1. \A e : msos2_feature_size(e) = msos2_feature(e)
  <2>1. utf16_len(20, 1) = 2 * 20 + 2 /\ utf16_len(GuidLen, 2) = 2 * GuidLen + 4
    BY RequestsAssumption DEF utf16_len
  <2>2. PICK d : d = GuidLen
    OBVIOUS
  <2>3. 20 + (8 + (2 * 20 + 2) + 2 + (2 * d + 4)) = 20 + (8 + (2 * 20 + 2) + 2 + (2 * d + 4)) /\ 20 + 0 = 20
    OBVIOUS
  <2> QED BY <2>1, <2>3 DEF msos2_feature_size, msos2_feature
<1> DEFINE lens == [g \in Covered |-> 8 + msos2_feature(msos_entry_for_group(g))]
<1>2. [g \in Covered |-> 8 + msos2_feature_size(msos_entry_for_group(g))] = lens
  BY <1>1
<1>3. msos2_set_size = 10 + IF ~msos_needs_subsets
                              THEN (IF FlatEntry = {} THEN 0 ELSE msos2_feature(FlatEntry))
                              ELSE 8 + Total(lens, Covered)
  BY <1>1, <1>2 DEF msos2_set_size
<1>4. msos2_set.len = IF ~msos_needs_subsets
                        THEN 10 + IF FlatEntry = {} THEN 0 ELSE msos2_feature(FlatEntry)
                        ELSE 10 + (8 + Total(lens, Covered))
  <2> DEFINE cfg == [g \in Covered |-> [first |-> group_first_ifnum(g), entry |-> msos_entry_for_group(g),
                                        len |-> 8 + msos2_feature(msos_entry_for_group(g))].len]
  <2>1. cfg = lens
    OBVIOUS
  <2>2. CASE ~msos_needs_subsets
    BY <2>2 DEF msos2_set
  <2>3. CASE msos_needs_subsets
    <3>1. msos2_set.len = 10 + (8 + Total(cfg, Covered))
      BY <2>3 DEF msos2_set
    <3> QED BY <2>1, <2>3, <3>1
  <2> QED BY <2>2, <2>3
<1> QED
  BY <1>3, <1>4 DEF build_bos_desc

\* All ways to ask which driver an interface wants name one advertisement.
LEMMA AnswersAgree ==
  ASSUME BuildInv, SoundNow, RouteInv, \A g \in DOMAIN groups : groups[g].n_ifs > 0,
         NEW g \in 0..(Len(groups) - 1), NEW x \in Nat, InGroup(x, g)
  PROVE  /\ msos_entry_for_interface(x) = msos_entry_for_group(g)
         /\ \A s \in msos1_compatid \cup msos2_set.subsets :
              s.first = groups[g + 1].first_ifnum => s.entry = msos_entry_for_group(g)
<1>1. PICK n : n = Len(groups)
  OBVIOUS
<1>2. n \in Nat /\ n # 0 /\ g \in 0..(n - 1) /\ g + 1 \in 1..n /\ \A h \in 0..(n - 1) : h \in Int /\ h + 1 \in 1..n
  BY <1>1, GroupTypes
<1>3. ASSUME NEW h \in 0..(n - 1), NEW y \in Nat, InGroup(y, g), InGroup(y, h) PROVE h = g
  <2>1. Within(y, groups[g + 1]) /\ Within(y, groups[h + 1])
    BY <1>3 DEF InGroup, Within
  <2>2. g + 1 = h + 1
    BY <1>1, <1>2, <2>1, GroupsApart
  <2> QED BY <1>2, <2>2
<1>4. \A h \in msos : h = -1 \/ h \in 0..(n - 1)
  <2>1. msos \subseteq -1..(n - 1)
    BY <1>1 DEF BuildInv, RefersBack, RefersTo
  <2> QED BY <1>2, <2>1
<1>5. msos_entry_for_interface(x) = msos_entry_for_group(g)
  <2> DEFINE own == {h \in msos : h >= 0 /\ h < Len(groups) /\ InGroup(x, h)}
  <2>1. \A h \in own : h \in 0..(n - 1) /\ h = g
    <3> SUFFICES ASSUME NEW h \in own PROVE h \in 0..(n - 1) /\ h = g
      OBVIOUS
    <3>1. h \in 0..(n - 1)
      BY <1>4
    <3> QED BY <1>3, <3>1
  <2>2. g \in msos => g \in own
    BY <1>1, <1>2
  <2>3. own = IF g \in msos THEN {g} ELSE {}
    <3>1. CASE g \in msos
      BY <2>1, <2>2, <3>1
    <3>2. CASE g \notin msos
      BY <2>1, <3>2
    <3> QED BY <3>1, <3>2
  <2>4. msos_entry_for_interface(x) = IF own # {} THEN own ELSE msos \cap {-1}
    BY DEF msos_entry_for_interface
  <2> HIDE DEF own
  <2> QED BY <2>3, <2>4 DEF msos_entry_for_group
<1>6. \A h \in 0..(n - 1) : group_first_ifnum(h) = groups[h + 1].first_ifnum
  <2> SUFFICES ASSUME NEW h \in 0..(n - 1) PROVE group_first_ifnum(h) = groups[h + 1].first_ifnum
    OBVIOUS
  <2>1. ~(h >= Len(groups)) /\ h + 1 \in DOMAIN groups
    BY <1>1, <1>2, GroupTypes
  <2>2. groups[h + 1].n_ifs > 0 /\ groups[h + 1].n_ifs \in Nat
    BY <1>1, <1>2, <2>1, GroupTypes
  <2>3. groups[h + 1].n_ifs # 0
    BY <2>2
  <2> QED BY <2>1, <2>3 DEF group_first_ifnum
<1>7. ASSUME NEW h \in 0..(n - 1), group_first_ifnum(h) = groups[g + 1].first_ifnum PROVE h = g
  <2>1. PICK y : y = groups[h + 1].first_ifnum
    OBVIOUS
  <2>2. y \in Nat /\ y = groups[g + 1].first_ifnum
    BY <1>1, <1>2, <1>6, <1>7, <2>1, GroupTypes
  <2>3. /\ groups[h + 1].n_ifs \in Nat /\ groups[h + 1].n_ifs > 0
        /\ groups[g + 1].n_ifs \in Nat /\ groups[g + 1].n_ifs > 0
    BY <1>1, <1>2, GroupTypes
  <2>4. InGroup(y, g) /\ InGroup(y, h)
    BY <2>1, <2>2, <2>3 DEF InGroup
  <2> QED BY <1>3, <2>2, <2>4
<1>8. Covered \subseteq 0..(n - 1)
  BY <1>1, <1>2, GroupTypes DEF Covered, msos_n_groups
<1>9. \A s \in msos1_compatid \cup msos2_set.subsets :
        \E h \in Covered : s.first = group_first_ifnum(h) /\ s.entry = msos_entry_for_group(h)
  <2>1. \A s \in msos1_compatid : \E h \in Covered : s.first = group_first_ifnum(h) /\ s.entry = msos_entry_for_group(h)
    BY DEF msos1_compatid
  <2>2. \A s \in msos2_set.subsets :
          \E h \in Covered : s.first = group_first_ifnum(h) /\ s.entry = msos_entry_for_group(h)
    <3>1. CASE ~msos_needs_subsets
      BY <3>1 DEF msos2_set
    <3>2. CASE msos_needs_subsets
      <4>1. msos2_set.subsets = {[first |-> group_first_ifnum(h), entry |-> msos_entry_for_group(h)] : h \in Covered}
        BY <3>2 DEF msos2_set
      <4> QED BY <4>1
    <3> QED BY <3>1, <3>2
  <2> QED BY <2>1, <2>2
<1>10. ASSUME NEW s \in msos1_compatid \cup msos2_set.subsets, s.first = groups[g + 1].first_ifnum
       PROVE  s.entry = msos_entry_for_group(g)
  <2>1. PICK h \in Covered : s.first = group_first_ifnum(h) /\ s.entry = msos_entry_for_group(h)
    BY <1>9
  <2>2. h = g
    BY <1>7, <1>8, <1>10, <2>1
  <2> QED BY <2>1, <2>2
<1> QED
  BY <1>5, <1>10

LEMMA AdvertisementsAgree ==
  ASSUME BuildInv, SoundNow, RouteInv
  PROVE  MsosIsConsistent
<1>1. build_bos_desc # 0 => build_bos_desc = msos2_set.len
  BY LengthsAgree
<1>2. \A x \in if_present : x \in Nat
  <2>1. if_present = {x \in 0..(n_ifnums - 1) : x < MaxIf} /\ n_ifnums \in Nat
    BY GroupTypes DEF SoundNow, Sound, NumbersInOrder
  <2> QED BY <2>1
<1>3. ASSUME \A g \in DOMAIN groups : groups[g].n_ifs > 0,
             NEW g \in 0..(Len(groups) - 1), NEW x \in if_present, InGroup(x, g)
      PROVE  /\ msos_entry_for_interface(x) = msos_entry_for_group(g)
             /\ \A s \in msos1_compatid \cup msos2_set.subsets :
                  s.first = groups[g + 1].first_ifnum => s.entry = msos_entry_for_group(g)
  <2>1. x \in Nat
    BY <1>2
  <2> QED BY <1>3, <2>1, AnswersAgree
<1> QED
  BY <1>1, <1>3 DEF MsosIsConsistent

\* What hosts make of a device: every reader of the blob finds the interfaces, settings and
\* endpoints the tables describe, the Microsoft OS sets have the length they announce and name
\* one advertisement for an interface however it is asked for, and a request to an interface
\* reaches the function that declared it, for tables of any size, through every rollback.
THEOREM HostSeesWhatWasBuiltHolds == Spec => []HostSeesWhatWasBuilt
<1>1. BuildInv /\ SoundInv /\ RouteInv => HostSeesWhatWasBuilt
  BY ReadersAgree, AdvertisementsAgree, RequestsArrive DEF SoundInv, HostSeesWhatWasBuilt
<1> QED
  BY <1>1, BuildInvariant, SoundInvariant, RouteInvariant, PTL

-----------------------------------------------------------------------------
(* Recursion over numbers                                                   *)

LEMMA LeastIndex ==
  ASSUME NEW T \in SUBSET Nat, T # {}
  PROVE  \E x \in T : \A y \in T : x =< y
<1>1. IsWellFoundedOn(OpToRel(<, Nat), Nat)
  BY NatLessThanWellFounded
<1>2. PICK x \in T : \A y \in T : <<y, x>> \notin OpToRel(<, Nat)
  BY <1>1, WFMin
<1>3. \A y \in T : ~(y < x)
  BY <1>2 DEF OpToRel
<1> QED BY <1>3

LEMMA UpTo ==
  ASSUME NEW n \in Nat, NEW P, 0 \in P, \A i \in 1..n : i - 1 \in P => i \in P
  PROVE  \A i \in 0..n : i \in P
<1> SUFFICES ASSUME NEW z \in 0..n, z \notin P PROVE FALSE
  OBVIOUS
<1> DEFINE T == {i \in 0..n : i \notin P}
<1>1. T \in SUBSET Nat /\ T # {}
  <2>1. \A i \in T : i \in Nat
    OBVIOUS
  <2>2. z \in T
    OBVIOUS
  <2> QED BY <2>1, <2>2
<1>2. PICK x \in T : \A y \in T : x =< y
  BY <1>1, LeastIndex
<1>3. x # 0 /\ x \in 1..n /\ x - 1 \in 0..n
  OBVIOUS
<1>4. x - 1 \in P
  <2>1. ~(x =< x - 1)
    BY <1>3
  <2>2. x - 1 \notin T
    BY <1>2, <2>1
  <2> QED BY <1>3, <2>2
<1> QED
  BY <1>3, <1>4

IsRun(n, X, x, F, g) ==
  g \in [0..n -> X] /\ g[0] = x /\ \A i \in 1..n : g[i] = F[i][g[i - 1]]

LEMMA RunsExist ==
  ASSUME NEW n \in Nat, NEW X, NEW x \in X, NEW F, \A i \in 1..n : \A y \in X : F[i][y] \in X
  PROVE  \E g : IsRun(n, X, x, F, g)
<1> DEFINE P == {i \in 0..n : \E g : IsRun(i, X, x, F, g)}
<1>1. 0 \in P
  <2> DEFINE g == [i \in 0..0 |-> x]
  <2>1. g \in [0..0 -> X] /\ g[0] = x
    OBVIOUS
  <2>2. \A i \in 1..0 : g[i] = F[i][g[i - 1]]
    OBVIOUS
  <2> HIDE DEF g
  <2>3. IsRun(0, X, x, F, g)
    BY <2>1, <2>2 DEF IsRun
  <2> QED BY <2>3
<1>2. ASSUME NEW i \in 1..n, i - 1 \in P PROVE i \in P
  <2>1. PICK g : IsRun(i - 1, X, x, F, g)
    BY <1>2
  <2>2. /\ i - 1 \in 0..(i - 1) /\ 0 \in 0..(i - 1) /\ i - 1 \in Nat /\ i \in 0..n /\ i \in 0..i /\ 0 \in 0..i /\ i # 0
        /\ \A j \in 0..i : j # i => j \in 0..(i - 1)
        /\ \A j \in 1..i : j \in 0..i /\ j - 1 \in 0..i /\ j - 1 # i /\ (j # i => j \in 1..(i - 1))
    OBVIOUS
  <2> DEFINE h == [j \in 0..i |-> IF j = i THEN F[i][g[i - 1]] ELSE g[j]]
  <2>3. g \in [0..(i - 1) -> X] /\ g[0] = x /\ \A j \in 1..(i - 1) : g[j] = F[j][g[j - 1]]
    BY <2>1 DEF IsRun
  <2>4. g[i - 1] \in X
    BY <2>2, <2>3
  <2>5. F[i][g[i - 1]] \in X
    BY <2>4
  <2>6. h \in [0..i -> X] /\ h[0] = x
    BY <2>2, <2>3, <2>5
  <2>7. ASSUME NEW j \in 1..i PROVE h[j] = F[j][h[j - 1]]
    <3>1. h[j - 1] = g[j - 1]
      BY <2>2
    <3>2. CASE j = i
      BY <2>2, <3>1, <3>2
    <3>3. CASE j # i
      <4>1. h[j] = g[j] /\ g[j] = F[j][g[j - 1]]
        BY <2>2, <2>3, <3>3
      <4> QED BY <3>1, <4>1
    <3> QED BY <3>2, <3>3
  <2> HIDE DEF h
  <2>8. IsRun(i, X, x, F, h)
    BY <2>6, <2>7 DEF IsRun
  <2> QED BY <2>2, <2>8
<1> HIDE DEF P
<1>3. \A i \in 0..n : i \in P
  BY <1>1, <1>2, UpTo
<1>4. n \in P
  BY <1>3
<1> QED
  BY <1>4 DEF P

-----------------------------------------------------------------------------
(* What the build functions put on a device                                 *)

BuildSpec == BuildInit /\ [][BuildNext]_buildvars

Kinds == {"if", "alt", "ep", "reserve", "cs", "iad"}
Addrs == Int \X {"in", "out", "none"}
Asked == [k : Kinds, len : Nat, total : Nat, ifs : SUBSET Nat, named : BOOLEAN, addr : Addrs, cover : Nat]
Descr == [k : Kinds, len : Nat, total : Nat, cover : Nat, func : Nat, if : Int, alt : Nat, next : Nat,
          ifs : SUBSET Nat, addr : Addrs]

\* An address that an interface is given is nobody else's, and the one it wants when it can be.
LEMMA AllocatedIs ==
  ASSUME NEW b, NEW ifnum, NEW want \in Addrs
  PROVE  /\ Allocated(b, ifnum, want) \subseteq Addrs
         /\ \A a \in Allocated(b, ifnum, want) : Holds(b, a) \subseteq {ifnum}
         /\ Holds(b, want) \subseteq {ifnum} => Allocated(b, ifnum, want) = {want}
<1>1. PICK x \in Int, y \in {"in", "out", "none"} : want = <<x, y>>
  BY DEF Addrs
<1>2. want[2] = y
  BY <1>1
<1> DEFINE free == {n \in 1..LastNumber : Holds(b, <<n, want[2]>>) = {}}
<1>3. \A n \in free : <<n, want[2]>> \in Addrs /\ Holds(b, <<n, want[2]>>) = {}
  BY <1>2 DEF Addrs
<1>4. Allocated(b, ifnum, want) =
        IF Holds(b, want) \subseteq {ifnum} THEN {want}
        ELSE {<<n, want[2]>> : n \in {n \in free : \A m \in free : n <= m}}
  BY DEF Allocated
<1> HIDE DEF free
<1>5. CASE Holds(b, want) \subseteq {ifnum}
  BY <1>4, <1>5
<1>6. CASE ~(Holds(b, want) \subseteq {ifnum})
  <2>1. \A a \in Allocated(b, ifnum, want) : \E n \in free : a = <<n, want[2]>>
    BY <1>4, <1>6
  <2> QED BY <1>3, <1>6, <2>1
<1> QED BY <1>5, <1>6

LEMMA AddressedIs ==
  ASSUME NEW b \in Seq(Descr), NEW d \in Asked, NEW ifnum
  PROVE  Addressed(b, d, ifnum) \subseteq Addrs
<1>1. Claimed(b, ifnum) \subseteq Addrs
  <2>1. \A i \in Reserved(b, ifnum) : b[i] \in Descr
    BY DEF Reserved
  <2>2. \A i \in Reserved(b, ifnum) : b[i].addr \in Addrs
    BY <2>1 DEF Descr
  <2> QED BY <2>2 DEF Claimed
<1>2. d.addr \in Addrs
  BY DEF Asked
<1>3. Allocated(b, ifnum, d.addr) \subseteq Addrs
  BY <1>2, AllocatedIs
<1>4. UNION {Allocated(b, ifnum, want) : want \in Claimed(b, ifnum)} \subseteq Addrs
  BY <1>1, AllocatedIs
<1> QED
  BY <1>1, <1>2, <1>3, <1>4 DEF Addressed

\* Descriptor d of function f as it is on the device behind b.
IsNext(r, b, d, f, base) ==
  /\ r.k = d.k /\ r.len = d.len /\ r.total = d.total /\ r.cover = d.cover /\ r.func = f
  /\ r.next = Cursor(b).next + (IF d.k = "if" THEN 1 ELSE 0) /\ r.if = r.next - 1
  /\ r.alt = IF d.k = "if" THEN 0 ELSE Cursor(b).alt + (IF d.k = "alt" THEN 1 ELSE 0)
  /\ r.ifs = {base + i : i \in d.ifs} /\ r.addr \in Addressed(b, d, r.if)

\* One descriptor is added, at the cursor.
LEMMA PlaceIs ==
  ASSUME NEW b \in Seq(Descr), NEW d \in Asked, NEW f \in Nat, NEW base \in Nat, NEW c \in Place(b, d, f, base)
  PROVE  /\ c \in Seq(Descr) /\ Len(c) = Len(b) + 1 /\ \A i \in 1..Len(b) : c[i] = b[i]
         /\ IsNext(c[Len(b) + 1], b, d, f, base)
<1> DEFINE next == Cursor(b).next + (IF d.k = "if" THEN 1 ELSE 0)
           alt == IF d.k = "if" THEN 0 ELSE Cursor(b).alt + (IF d.k = "alt" THEN 1 ELSE 0)
           R(a) == [k |-> d.k, len |-> d.len, total |-> d.total, cover |-> d.cover, func |-> f,
                    if |-> next - 1, alt |-> alt, next |-> next, ifs |-> {base + i : i \in d.ifs}, addr |-> a]
<1>1. PICK a \in Addressed(b, d, next - 1) : c = Append(b, R(a))
  BY DEF Place
<1>2. Cursor(b).next \in Nat /\ Cursor(b).alt \in Nat
  <2>1. CASE b = <<>>
    BY <2>1 DEF Cursor
  <2>2. CASE b # <<>>
    <3>1. Last(b) \in Descr
      <4>1. Len(b) \in 1..Len(b)
        BY <2>2
      <4> QED BY <4>1 DEF Last
    <3>2. Cursor(b) = Last(b)
      BY <2>2 DEF Cursor
    <3> QED BY <3>1, <3>2 DEF Descr
  <2> QED BY <2>1, <2>2
<1>3. next \in Nat /\ next - 1 \in Int /\ alt \in Nat
  BY <1>2
<1>4. {base + i : i \in d.ifs} \in SUBSET Nat
  BY DEF Asked
<1>5. a \in Addrs
  BY <1>1, AddressedIs
<1>6. d.k \in Kinds /\ d.len \in Nat /\ d.total \in Nat /\ d.cover \in Nat
  BY DEF Asked
<1> DEFINE r == R(a)
<1>7. r \in Descr
  <2> HIDE DEF next, alt
  <2> QED BY <1>3, <1>4, <1>5, <1>6 DEF Descr
<1>8. /\ r.k = d.k /\ r.len = d.len /\ r.total = d.total /\ r.cover = d.cover /\ r.func = f
      /\ r.next = next /\ r.if = next - 1 /\ r.alt = alt /\ r.ifs = {base + i : i \in d.ifs} /\ r.addr = a
  OBVIOUS
<1>9. c = Append(b, r)
  BY <1>1
<1> HIDE DEF r
<1>10. /\ c \in Seq(Descr) /\ Len(c) = Len(b) + 1 /\ \A i \in 1..Len(b) : c[i] = b[i]
       /\ c[Len(b) + 1] = r
  BY <1>7, <1>9, AppendProperties
<1>11. IsNext(r, b, d, f, base)
  BY <1>1, <1>8 DEF IsNext
<1> QED
  BY <1>10, <1>11

\* How a plan is carried out, descriptor by descriptor.
Chain(c, n, p, f) ==
  /\ c \in [0..n -> Seq(Descr)] /\ c[0] = blob
  /\ \A x \in 1..n : c[x] \in Place(c[x - 1], p[x], f, n_ifs)

LEMMA PlacedIs ==
  ASSUME blob \in Seq(Descr), n_ifs \in Nat, NEW p \in Seq(Asked), NEW f \in Nat, NEW b \in Placed(p, f)
  PROVE  \E c : Chain(c, Len(p), p, f) /\ c[Len(p)] = b
<1> DEFINE L == Len(p)
           X == SUBSET Seq(Descr)
           F == [i \in 1..L |-> [y \in X |-> UNION {Place(s, p[i], f, n_ifs) : s \in y}]]
<1>1. L \in Nat /\ \A i \in 1..L : p[i] \in Asked
  OBVIOUS
<1>2. ASSUME NEW i \in 1..L, NEW y \in X
      PROVE  F[i][y] = UNION {Place(s, p[i], f, n_ifs) : s \in y} /\ F[i][y] \in X
  <2>1. \A s \in y : \A z \in Place(s, p[i], f, n_ifs) : z \in Seq(Descr)
    BY <1>1, PlaceIs
  <2>2. F[i][y] = UNION {Place(s, p[i], f, n_ifs) : s \in y}
    OBVIOUS
  <2> QED BY <2>1, <2>2
<1> HIDE DEF F
<1>3. {blob} \in X
  OBVIOUS
<1>4. PICK g : IsRun(L, X, {blob}, F, g)
  <2> HIDE DEF X, L
  <2> QED BY <1>1, <1>2, <1>3, RunsExist
<1>5. g \in [0..L -> X] /\ g[0] = {blob} /\ \A i \in 1..L : g[i] = F[i][g[i - 1]]
  BY <1>4 DEF IsRun
<1>6. \A i \in 0..L : i = 0 \/ (i \in 1..L /\ i - 1 \in 0..L)
  BY <1>1
<1>7. \A i \in 1..L : g[i] = UNION {Place(s, p[i], f, n_ifs) : s \in g[i - 1]}
  <2> SUFFICES ASSUME NEW i \in 1..L PROVE g[i] = UNION {Place(s, p[i], f, n_ifs) : s \in g[i - 1]}
    OBVIOUS
  <2>1. i - 1 \in 0..L
    BY <1>1
  <2>2. g[i - 1] \in X
    BY <1>5, <2>1
  <2> QED BY <1>2, <1>5, <2>2
<1>8. g = [i \in 0..L |-> IF i = 0 THEN {blob} ELSE UNION {Place(s, p[i], f, n_ifs) : s \in g[i - 1]}]
  <2>1. \A i \in 0..L : g[i] = IF i = 0 THEN {blob} ELSE UNION {Place(s, p[i], f, n_ifs) : s \in g[i - 1]}
    BY <1>5, <1>6, <1>7
  <2> QED BY <1>5, <2>1
<1> DEFINE after == CHOOSE e : e = [i \in 0..L |-> IF i = 0 THEN {blob}
                                                   ELSE UNION {Place(s, p[i], f, n_ifs) : s \in e[i - 1]}]
<1>9. Placed(p, f) = after[L]
  BY DEF Placed
<1>10. after = [i \in 0..L |-> IF i = 0 THEN {blob} ELSE UNION {Place(s, p[i], f, n_ifs) : s \in after[i - 1]}]
  BY <1>8
<1> HIDE DEF after
<1> DEFINE P == {i \in 0..L : \A s \in after[i] : \E c : Chain(c, i, p, f) /\ c[i] = s}
<1>11. 0 \in P
  <2>1. after[0] = {blob} /\ 0 \in 0..L
    BY <1>1, <1>10
  <2> DEFINE c == [x \in 0..0 |-> blob]
  <2>2. c \in [0..0 -> Seq(Descr)] /\ c[0] = blob
    OBVIOUS
  <2>3. \A x \in 1..0 : c[x] \in Place(c[x - 1], p[x], f, n_ifs)
    OBVIOUS
  <2> HIDE DEF c
  <2>4. Chain(c, 0, p, f) /\ c[0] = blob
    BY <2>2, <2>3 DEF Chain
  <2> QED BY <2>1, <2>4
<1>12. ASSUME NEW i \in 1..L, i - 1 \in P PROVE i \in P
  <2>1. i \in 0..L /\ i # 0
    BY <1>1
  <2>2. after[i] = IF i = 0 THEN {blob} ELSE UNION {Place(s, p[i], f, n_ifs) : s \in after[i - 1]}
    BY <1>10, <2>1, Zenon
  <2>3. after[i] = UNION {Place(s, p[i], f, n_ifs) : s \in after[i - 1]}
    BY <2>1, <2>2
  <2>4. ASSUME NEW s \in after[i] PROVE \E c : Chain(c, i, p, f) /\ c[i] = s
    <3>1. PICK t \in after[i - 1] : s \in Place(t, p[i], f, n_ifs)
      BY <2>3, <2>4
    <3>2. PICK c : Chain(c, i - 1, p, f) /\ c[i - 1] = t
      BY <1>12, <3>1
    <3>3. /\ i - 1 \in 0..(i - 1) /\ 0 \in 0..(i - 1) /\ i \in 0..i /\ 0 \in 0..i /\ i # 0
          /\ \A j \in 0..i : j # i => j \in 0..(i - 1)
          /\ \A j \in 1..i : j \in 0..i /\ j - 1 \in 0..i /\ j - 1 # i /\ (j # i => j \in 1..(i - 1))
      OBVIOUS
    <3>4. /\ c \in [0..(i - 1) -> Seq(Descr)] /\ c[0] = blob
          /\ \A x \in 1..(i - 1) : c[x] \in Place(c[x - 1], p[x], f, n_ifs)
      BY <3>2 DEF Chain
    <3>5. s \in Seq(Descr)
      <4>1. t \in Seq(Descr)
        BY <3>2, <3>3, <3>4
      <4> QED BY <1>1, <3>1, <4>1, PlaceIs
    <3> DEFINE e == [j \in 0..i |-> IF j = i THEN s ELSE c[j]]
    <3>6. e \in [0..i -> Seq(Descr)] /\ e[0] = blob /\ e[i] = s
      BY <3>3, <3>4, <3>5
    <3>7. ASSUME NEW x \in 1..i PROVE e[x] \in Place(e[x - 1], p[x], f, n_ifs)
      <4>1. e[x - 1] = c[x - 1]
        BY <3>3
      <4>2. CASE x = i
        BY <3>1, <3>2, <3>6, <4>1, <4>2
      <4>3. CASE x # i
        <5>1. e[x] = c[x] /\ c[x] \in Place(c[x - 1], p[x], f, n_ifs)
          BY <3>3, <3>4, <4>3
        <5> QED BY <4>1, <5>1
      <4> QED BY <4>2, <4>3
    <3> HIDE DEF e
    <3>8. Chain(e, i, p, f)
      BY <3>6, <3>7 DEF Chain
    <3> QED BY <3>6, <3>8
  <2> QED BY <2>1, <2>4
<1> HIDE DEF P
<1>13. \A i \in 0..L : i \in P
  BY <1>1, <1>11, <1>12, UpTo
<1>14. L \in P
  BY <1>1, <1>13
<1> QED
  BY <1>9, <1>14 DEF P

\* What is on the device stays where it is while a plan is carried out.
LEMMA ChainGrows ==
  ASSUME blob \in Seq(Descr), n_ifs \in Nat, NEW p \in Seq(Asked), NEW f \in Nat,
         NEW c, Chain(c, Len(p), p, f)
  PROVE  /\ \A x \in 0..Len(p) : c[x] \in Seq(Descr) /\ Len(c[x]) = Len(blob) + x
         /\ \A x \in 0..Len(p) : \A i \in 1..(Len(blob) + x) : c[x][i] = c[Len(p)][i]
<1> DEFINE L == Len(p)
           m == Len(blob)
<1>1. L \in Nat /\ m \in Nat /\ \A i \in 1..L : p[i] \in Asked
  OBVIOUS
<1>2. /\ c \in [0..L -> Seq(Descr)] /\ c[0] = blob
      /\ \A x \in 1..L : c[x] \in Place(c[x - 1], p[x], f, n_ifs)
  BY DEF Chain
<1>3. ASSUME NEW x \in 1..L
      PROVE  /\ x - 1 \in 0..L /\ x \in 0..L /\ Len(c[x]) = Len(c[x - 1]) + 1
             /\ \A i \in 1..Len(c[x - 1]) : c[x][i] = c[x - 1][i]
  <2>1. x - 1 \in 0..L /\ x \in 0..L
    BY <1>1
  <2>2. c[x - 1] \in Seq(Descr)
    BY <1>2, <2>1
  <2>3. p[x] \in Asked /\ c[x] \in Place(c[x - 1], p[x], f, n_ifs)
    BY <1>1, <1>2
  <2>4. Len(c[x]) = Len(c[x - 1]) + 1 /\ \A i \in 1..Len(c[x - 1]) : c[x][i] = c[x - 1][i]
    BY <2>2, <2>3, PlaceIs
  <2> QED BY <2>1, <2>4
<1> DEFINE P == {x \in 0..L : Len(c[x]) = m + x /\ \A y \in 0..x : \A i \in 1..(m + y) : c[y][i] = c[x][i]}
<1>4. 0 \in P
  BY <1>1, <1>2
<1>5. ASSUME NEW x \in 1..L, x - 1 \in P PROVE x \in P
  <2>1. Len(c[x - 1]) = m + (x - 1) /\ \A y \in 0..(x - 1) : \A i \in 1..(m + y) : c[y][i] = c[x - 1][i]
    BY <1>5
  <2>2. Len(c[x]) = m + x /\ x \in 0..L
    BY <1>1, <1>3, <2>1
  <2>3. ASSUME NEW y \in 0..x, NEW i \in 1..(m + y) PROVE c[y][i] = c[x][i]
    <3>1. CASE y = x
      BY <3>1
    <3>2. CASE y # x
      <4>1. y \in 0..(x - 1) /\ i \in 1..(m + (x - 1))
        BY <1>1, <3>2
      <4> QED BY <1>3, <2>1, <4>1
    <3> QED BY <3>1, <3>2
  <2> QED BY <2>2, <2>3
<1> HIDE DEF P
<1>6. \A x \in 0..L : x \in P
  BY <1>1, <1>4, <1>5, UpTo
<1>7. L \in P
  BY <1>1, <1>6
<1> QED
  BY <1>2, <1>6, <1>7 DEF P

\* The interfaces a plan has up to each descriptor, and the setting this one is in.
Numbers(p, N, A) ==
  /\ N \in [0..Len(p) -> Nat] /\ A \in [0..Len(p) -> Nat] /\ N[0] = 0
  /\ \A x \in 1..Len(p) :
       /\ N[x] = N[x - 1] + (IF p[x].k = "if" THEN 1 ELSE 0)
       /\ N[x] > 0 => A[x] = IF p[x].k = "if" THEN 0 ELSE A[x - 1] + (IF p[x].k = "alt" THEN 1 ELSE 0)

\* A plan's descriptor x on the device, at y.
IsPlaced(r, d, f, n, a) ==
  /\ r.k = d.k /\ r.len = d.len /\ r.total = d.total /\ r.cover = d.cover /\ r.func = f
  /\ r.next = n_ifs + n /\ r.if = (n_ifs + n) - 1 /\ r.ifs = {n_ifs + i : i \in d.ifs}
  /\ n > 0 => r.alt = a

LEMMA ChainIs ==
  ASSUME blob \in Seq(Descr), n_ifs \in Nat, n_ifs = Cursor(blob).next, NEW p \in Seq(Asked), NEW f \in Nat,
         NEW c, Chain(c, Len(p), p, f), NEW N, NEW A, Numbers(p, N, A)
  PROVE  \A x \in 1..Len(p) : /\ IsPlaced(c[Len(p)][Len(blob) + x], p[x], f, N[x], A[x])
                              /\ c[Len(p)][Len(blob) + x].addr \in Addressed(c[x - 1], p[x], (n_ifs + N[x]) - 1)
<1> DEFINE L == Len(p)
           m == Len(blob)
           b == c[L]
<1>1. L \in Nat /\ m \in Nat /\ \A i \in 1..L : p[i] \in Asked
  OBVIOUS
<1>2. /\ c \in [0..L -> Seq(Descr)] /\ c[0] = blob
      /\ \A x \in 1..L : c[x] \in Place(c[x - 1], p[x], f, n_ifs)
  BY DEF Chain
<1>3. /\ \A x \in 0..L : c[x] \in Seq(Descr) /\ Len(c[x]) = m + x
      /\ \A x \in 0..L : \A i \in 1..(m + x) : c[x][i] = b[i]
  BY ChainGrows
<1>4. /\ N \in [0..L -> Nat] /\ A \in [0..L -> Nat] /\ N[0] = 0
      /\ \A x \in 1..L : /\ N[x] = N[x - 1] + (IF p[x].k = "if" THEN 1 ELSE 0)
                         /\ N[x] > 0 => A[x] = IF p[x].k = "if" THEN 0
                                               ELSE A[x - 1] + (IF p[x].k = "alt" THEN 1 ELSE 0)
  BY DEF Numbers
<1> DEFINE There(x) == /\ IsPlaced(b[m + x], p[x], f, N[x], A[x])
                       /\ b[m + x].addr \in Addressed(c[x - 1], p[x], (n_ifs + N[x]) - 1)
           P == {x \in 0..L : x > 0 => There(x)}
<1>5. 0 \in P
  BY <1>1
<1>6. ASSUME NEW x \in 1..L, x - 1 \in P PROVE x \in P
  <2>1. x \in 0..L /\ x - 1 \in 0..L /\ p[x] \in Asked
    BY <1>1
  <2>2. c[x - 1] \in Seq(Descr) /\ Len(c[x - 1]) = m + (x - 1) /\ Len(c[x - 1]) + 1 = m + x
    <3>1. c[x - 1] \in Seq(Descr) /\ Len(c[x - 1]) = m + (x - 1)
      BY <1>3, <2>1
    <3> QED BY <1>1, <3>1
  <2>3. Cursor(c[x - 1]).next = n_ifs + N[x - 1] /\ (N[x - 1] > 0 => Cursor(c[x - 1]).alt = A[x - 1])
    <3>1. CASE x = 1
      BY <1>2, <1>4, <3>1
    <3>2. CASE x # 1
      <4>1. x - 1 > 0 /\ m + (x - 1) \in 1..(m + (x - 1))
        BY <1>1, <3>2
      <4>2. c[x - 1] # <<>>
        BY <2>2, <4>1
      <4>3. Cursor(c[x - 1]) = b[m + (x - 1)]
        <5>1. Cursor(c[x - 1]) = c[x - 1][m + (x - 1)]
          BY <2>2, <4>2 DEF Cursor, Last
        <5> QED BY <1>3, <2>1, <4>1, <5>1
      <4>4. There(x - 1)
        BY <1>6, <4>1
      <4> QED BY <4>3, <4>4 DEF IsPlaced
    <3> QED BY <3>1, <3>2
  <2>4. c[x][m + x] = b[m + x]
    <3>1. m + x \in 1..(m + x)
      BY <1>1
    <3> QED BY <1>3, <2>1, <3>1
  <2>10. PICK r : r = b[m + x]
    OBVIOUS
  <2>5. IsNext(r, c[x - 1], p[x], f, n_ifs)
    <3>1. c[x] \in Place(c[x - 1], p[x], f, n_ifs)
      BY <1>2
    <3>2. IsNext(c[x][Len(c[x - 1]) + 1], c[x - 1], p[x], f, n_ifs)
      BY <2>1, <2>2, <3>1, PlaceIs
    <3>3. c[x][Len(c[x - 1]) + 1] = r
      BY <2>2, <2>4, <2>10
    <3> QED BY <3>2, <3>3
  <2>6. N[x - 1] \in Nat /\ N[x] \in Nat /\ N[x] = N[x - 1] + (IF p[x].k = "if" THEN 1 ELSE 0)
    BY <1>4, <2>1
  <2>7. r.next = n_ifs + N[x] /\ r.if = (n_ifs + N[x]) - 1
    <3>1. r.next = Cursor(c[x - 1]).next + (IF p[x].k = "if" THEN 1 ELSE 0) /\ r.if = r.next - 1
      BY <2>5 DEF IsNext
    <3> DEFINE one == IF p[x].k = "if" THEN 1 ELSE 0
    <3>2. one \in Nat /\ N[x] = N[x - 1] + one /\ r.next = Cursor(c[x - 1]).next + one /\ r.if = r.next - 1
      BY <2>6, <3>1
    <3> HIDE DEF one
    <3>3. Cursor(c[x - 1]).next = n_ifs + N[x - 1] /\ n_ifs \in Nat /\ N[x - 1] \in Nat
      BY <2>3, <2>6
    <3>4. r.next = n_ifs + N[x]
      BY <3>2, <3>3
    <3>5. r.if = (n_ifs + N[x]) - 1
      BY <3>2, <3>4, Zenon
    <3> QED BY <3>4, <3>5
  <2>8. N[x] > 0 => r.alt = A[x]
    <3>1. CASE p[x].k = "if"
      BY <1>4, <2>5, <3>1 DEF IsNext
    <3>2. CASE p[x].k # "if"
      BY <1>4, <2>3, <2>5, <2>6, <3>2 DEF IsNext
    <3> QED BY <3>1, <3>2
  <2>9. There(x)
    BY <2>5, <2>7, <2>8, <2>10 DEF IsNext, IsPlaced
  <2> QED BY <2>1, <2>9
<1> HIDE DEF P
<1>7. \A x \in 0..L : x \in P
  BY <1>1, <1>5, <1>6, UpTo
<1>8. \A x \in 1..L : x \in 0..L /\ x > 0
  BY <1>1
<1> QED
  BY <1>7, <1>8 DEF P

\* The lengths of some descriptors, added up.
IsSum(b, is, g) ==
  /\ g \in [0..Len(b) -> Nat] /\ g[0] = 0
  /\ \A i \in 1..Len(b) : g[i] = g[i - 1] + (IF i \in is THEN b[i].len ELSE 0)

LEMMA SumExists ==
  ASSUME NEW b \in Seq(Descr), NEW is
  PROVE  \E g : IsSum(b, is, g)
<1> DEFINE n == Len(b)
           Part(i) == IF i \in is THEN b[i].len ELSE 0
           F == [i \in 1..n |-> [y \in Nat |-> y + Part(i)]]
<1>1. n \in Nat /\ \A i \in 1..n : Part(i) \in Nat
  <2> SUFFICES ASSUME NEW i \in 1..n PROVE Part(i) \in Nat
    OBVIOUS
  <2>1. b[i] \in Descr
    OBVIOUS
  <2> QED BY <2>1 DEF Descr
<1> HIDE DEF Part
<1>2. \A i \in 1..n : \A y \in Nat : F[i][y] = y + Part(i) /\ F[i][y] \in Nat
  BY <1>1
<1> HIDE DEF F
<1>3. PICK g : IsRun(n, Nat, 0, F, g)
  BY <1>1, <1>2, RunsExist
<1>4. g \in [0..n -> Nat] /\ g[0] = 0 /\ \A i \in 1..n : g[i] = F[i][g[i - 1]]
  BY <1>3 DEF IsRun
<1>5. \A i \in 1..n : g[i] = g[i - 1] + Part(i)
  <2> SUFFICES ASSUME NEW i \in 1..n PROVE g[i] = g[i - 1] + Part(i)
    OBVIOUS
  <2>1. i - 1 \in 0..n
    BY <1>1
  <2>2. g[i - 1] \in Nat
    BY <1>4, <2>1
  <2> QED BY <1>2, <1>4, <2>2
<1> QED
  BY <1>4, <1>5 DEF IsSum, Part

LEMMA SumIs ==
  ASSUME NEW b \in Seq(Descr), NEW is, NEW g, IsSum(b, is, g)
  PROVE  SumLengths(b, is) = g[Len(b)]
<1> DEFINE n == Len(b)
           Part(i) == IF i \in is THEN b[i].len ELSE 0
           sum == CHOOSE e : e = [i \in 0..n |-> IF i = 0 THEN 0 ELSE e[i - 1] + Part(i)]
<1>1. n \in Nat /\ g \in [0..n -> Nat] /\ g[0] = 0 /\ \A i \in 1..n : g[i] = g[i - 1] + Part(i)
  BY DEF IsSum
<1>2. SumLengths(b, is) = sum[n]
  BY DEF SumLengths
<1> HIDE DEF Part
<1>3. g = [i \in 0..n |-> IF i = 0 THEN 0 ELSE g[i - 1] + Part(i)]
  <2>1. \A i \in 0..n : i = 0 \/ i \in 1..n
    BY <1>1
  <2>2. \A i \in 0..n : g[i] = IF i = 0 THEN 0 ELSE g[i - 1] + Part(i)
    BY <1>1, <2>1
  <2> QED BY <1>1, <2>2
<1>4. sum = [i \in 0..n |-> IF i = 0 THEN 0 ELSE sum[i - 1] + Part(i)]
  BY <1>3
<1> HIDE DEF sum
<1> DEFINE P == {i \in 0..n : sum[i] = g[i]}
<1>5. 0 \in P
  BY <1>1, <1>4
<1>6. ASSUME NEW i \in 1..n, i - 1 \in P PROVE i \in P
  <2>1. i \in 0..n /\ i # 0
    BY <1>1
  <2>2. sum[i] = IF i = 0 THEN 0 ELSE sum[i - 1] + Part(i)
    BY <1>4, <2>1, Zenon
  <2> QED BY <1>1, <1>6, <2>1, <2>2
<1> HIDE DEF P
<1>7. \A i \in 0..n : i \in P
  BY <1>1, <1>5, <1>6, UpTo
<1>8. n \in P
  BY <1>1, <1>7
<1> QED
  BY <1>2, <1>8 DEF P

\* What follows the last descriptor that is counted adds nothing, and what precedes the first neither.
LEMMA SumBehind ==
  ASSUME NEW b \in Seq(Descr), NEW t \in Seq(Descr), Len(b) <= Len(t), \A i \in 1..Len(b) : t[i] = b[i],
         NEW is \in SUBSET (1..Len(b))
  PROVE  SumLengths(t, is) = SumLengths(b, is)
<1>1. PICK g : IsSum(b, is, g)
  BY SumExists
<1>2. /\ g \in [0..Len(b) -> Nat] /\ g[0] = 0
      /\ \A i \in 1..Len(b) : g[i] = g[i - 1] + (IF i \in is THEN b[i].len ELSE 0)
  BY <1>1 DEF IsSum
<1> DEFINE m == Len(b)
           n == Len(t)
           h == [i \in 0..n |-> IF i <= m THEN g[i] ELSE g[m]]
<1>3. m \in Nat /\ n \in Nat /\ m <= n
  OBVIOUS
<1>4. h \in [0..n -> Nat] /\ h[0] = 0 /\ h[n] = g[m]
  <2>1. \A i \in 0..n : (i <= m => i \in 0..m) /\ m \in 0..m
    BY <1>3
  <2> QED BY <1>2, <1>3, <2>1
<1>5. ASSUME NEW i \in 1..n PROVE h[i] = h[i - 1] + (IF i \in is THEN t[i].len ELSE 0)
  <2>1. i \in 0..n /\ i - 1 \in 0..n
    BY <1>3
  <2>2. CASE i <= m
    <3>1. i \in 1..m /\ i - 1 <= m /\ i \in 0..m /\ i - 1 \in 0..m
      BY <1>3, <2>2
    <3>2. h[i] = g[i] /\ h[i - 1] = g[i - 1]
      BY <2>1, <3>1
    <3> QED BY <1>2, <3>1, <3>2
  <2>3. CASE ~(i <= m)
    <3>1. i \notin is /\ h[i] = g[m] /\ g[m] \in Nat
      BY <1>2, <1>3, <2>1, <2>3
    <3>2. h[i - 1] = g[m]
      <4>1. CASE i - 1 <= m
        <5>1. i - 1 = m
          BY <1>3, <2>3, <4>1
        <5> QED BY <2>1, <4>1, <5>1
      <4>2. CASE ~(i - 1 <= m)
        BY <2>1, <4>2
      <4> QED BY <4>1, <4>2
    <3> QED BY <3>1, <3>2
  <2> QED BY <2>2, <2>3
<1> HIDE DEF h
<1>6. IsSum(t, is, h)
  BY <1>4, <1>5 DEF IsSum
<1> QED
  BY <1>1, <1>4, <1>6, SumIs

LEMMA SumBefore ==
  ASSUME NEW t \in Seq(Descr), NEW m \in 0..Len(t), NEW is, \A i \in 1..m : i \notin is,
         NEW g \in [0..(Len(t) - m) -> Nat], g[0] = 0,
         \A y \in 1..(Len(t) - m) : g[y] = g[y - 1] + (IF m + y \in is THEN t[m + y].len ELSE 0)
  PROVE  SumLengths(t, is) = g[Len(t) - m]
<1> DEFINE n == Len(t)
           h == [i \in 0..n |-> IF i <= m THEN 0 ELSE g[i - m]]
<1>1. m \in Nat /\ n \in Nat /\ m <= n
  OBVIOUS
<1>2. h \in [0..n -> Nat] /\ h[0] = 0 /\ h[n] = g[n - m]
  <2>1. \A i \in 0..n : ~(i <= m) => i - m \in 0..(n - m)
    BY <1>1
  <2>2. n <= m => n - m = 0
    BY <1>1
  <2> QED BY <1>1, <2>1, <2>2
<1>3. ASSUME NEW i \in 1..n PROVE h[i] = h[i - 1] + (IF i \in is THEN t[i].len ELSE 0)
  <2>1. i \in 0..n /\ i - 1 \in 0..n
    BY <1>1
  <2>2. CASE i <= m
    <3>1. i \notin is /\ i - 1 <= m
      BY <1>1, <2>2
    <3> QED BY <2>1, <2>2, <3>1
  <2>3. CASE ~(i <= m)
    <3>1. i - m \in 1..(n - m) /\ m + (i - m) = i /\ (i - 1) - m = (i - m) - 1
      BY <1>1, <2>3
    <3>2. h[i - 1] = g[(i - m) - 1]
      <4>1. CASE i - 1 <= m
        <5>1. (i - m) - 1 = 0
          BY <1>1, <2>3, <4>1
        <5> QED BY <2>1, <4>1, <5>1
      <4>2. CASE ~(i - 1 <= m)
        BY <2>1, <3>1, <4>2
      <4> QED BY <4>1, <4>2
    <3>3. h[i] = g[i - m]
      BY <2>1, <2>3
    <3>4. g[i - m] = g[(i - m) - 1] + (IF i \in is THEN t[i].len ELSE 0)
      BY <3>1
    <3> QED BY <3>2, <3>3, <3>4
  <2> QED BY <2>2, <2>3
<1> HIDE DEF h
<1>4. IsSum(t, is, h)
  BY <1>2, <1>3 DEF IsSum
<1> QED
  BY <1>2, <1>4, SumIs

-----------------------------------------------------------------------------
(* What a plan's descriptors say of each other, whatever device it is for.  *)

\* The lengths of the class descriptors in the setting of descriptor x, added up.
IsTotal(p, N, A, x, S) ==
  /\ S \in [0..Len(p) -> Nat] /\ S[0] = 0 /\ S[Len(p)] = p[x].total
  /\ \A y \in 1..Len(p) :
       S[y] = S[y - 1] + (IF p[y].k = "cs" /\ N[y] = N[x] /\ A[y] = A[x] THEN p[y].len ELSE 0)

\* An address is reserved before descriptor x, which names it, and the interface's next
\* endpoint takes it.
IsAnnounced(p, N, x) ==
  \E r, e \in 1..Len(p) :
    /\ r < x /\ x < e /\ p[r].k = "reserve" /\ ~p[r].named /\ p[e].k = "ep" /\ ~p[e].named
    /\ N[r] = N[x] /\ N[e] = N[x]
    /\ \A y \in (r + 1)..(e - 1) : p[y].k \notin {"reserve", "ep"}

PlanSays(p, N, A, x) ==
  /\ p[x].k = "cs" => N[x] > 0
  /\ p[x].k = "cs" /\ p[x].total # 0 => \E S : IsTotal(p, N, A, x, S)
  /\ \A i \in p[x].ifs : \E y \in 1..Len(p) : p[y].k = "if" /\ N[y] = i + 1
  /\ p[x].k = "cs" => IF p[x].named THEN IsAnnounced(p, N, x) ELSE p[x].addr[1] = 0
  /\ p[x].k = "iad" => /\ p[x].cover = 2
                       /\ \E u, w \in 1..Len(p) : u # w /\ {y \in 1..Len(p) : p[y].k = "if"} = {u, w}

IsPlan(p) ==
  /\ p \in Seq(Asked) /\ Len(p) > 0
  /\ \E N, A : Numbers(p, N, A) /\ \A x \in 1..Len(p) : PlanSays(p, N, A, x)

FuncsShape ==
  /\ blob \in Seq(Descr) /\ n_ifs \in Nat /\ n_funcs \in Nat /\ composite \in BOOLEAN
  /\ n_ifs = Cursor(blob).next
  /\ \A i \in 1..Len(blob) : blob[i].func <= n_funcs /\ blob[i].if < n_ifs

\* A plan p that has been carried out: b is the device, with a function more.
Carried(b, p, N, A, c) ==
  /\ FuncsShape /\ p \in Seq(Asked) /\ Numbers(p, N, A) /\ \A x \in 1..Len(p) : PlanSays(p, N, A, x)
  /\ Chain(c, Len(p), p, n_funcs + 1) /\ c[Len(p)] = b

LEMMA CarriedIs ==
  ASSUME NEW b, NEW p, NEW N, NEW A, NEW c, Carried(b, p, N, A, c)
  PROVE  /\ b \in Seq(Descr) /\ Len(b) = Len(blob) + Len(p)
         /\ \A i \in 1..Len(blob) : b[i] = blob[i]
         /\ \A x \in 1..Len(p) : /\ IsPlaced(b[Len(blob) + x], p[x], n_funcs + 1, N[x], A[x])
                                 /\ b[Len(blob) + x].addr \in Addressed(c[x - 1], p[x], (n_ifs + N[x]) - 1)
         /\ \A i \in 1..Len(b) : i \in 1..Len(blob) \/ \E x \in 1..Len(p) : i = Len(blob) + x
<1>1. /\ blob \in Seq(Descr) /\ n_ifs \in Nat /\ n_ifs = Cursor(blob).next /\ p \in Seq(Asked)
      /\ n_funcs + 1 \in Nat /\ Chain(c, Len(p), p, n_funcs + 1) /\ c[Len(p)] = b /\ Numbers(p, N, A)
  BY DEF Carried, FuncsShape
<1>2. Len(p) \in Nat /\ Len(blob) \in Nat /\ Len(p) \in 0..Len(p) /\ 0 \in 0..Len(p)
  BY <1>1
<1>3. b \in Seq(Descr) /\ Len(b) = Len(blob) + Len(p)
  BY <1>1, <1>2, ChainGrows
<1>4. \A i \in 1..Len(blob) : b[i] = blob[i]
  <2>1. c[0] = blob
    BY <1>1 DEF Chain
  <2>2. \A i \in 1..(Len(blob) + 0) : c[0][i] = c[Len(p)][i]
    BY <1>1, <1>2, ChainGrows
  <2>3. Len(blob) + 0 = Len(blob)
    BY <1>2
  <2> QED BY <1>1, <2>1, <2>2, <2>3
<1>5. \A x \in 1..Len(p) : /\ IsPlaced(b[Len(blob) + x], p[x], n_funcs + 1, N[x], A[x])
                           /\ b[Len(blob) + x].addr \in Addressed(c[x - 1], p[x], (n_ifs + N[x]) - 1)
  BY <1>1, ChainIs
<1>6. ASSUME NEW i \in 1..Len(b), i \notin 1..Len(blob)
      PROVE  \E x \in 1..Len(p) : i = Len(blob) + x
  <2>1. i - Len(blob) \in 1..Len(p) /\ i = Len(blob) + (i - Len(blob))
    <3>1. PICK l \in Nat : l = Len(blob)
      BY <1>2
    <3>2. PICK n \in Nat : n = Len(p)
      BY <1>2
    <3>3. i \in 1..(l + n) /\ i \notin 1..l
      BY <1>3, <1>6, <3>1, <3>2
    <3>4. i - l \in 1..n /\ i = l + (i - l)
      BY <3>3
    <3> QED BY <3>1, <3>2, <3>4
  <2> QED BY <2>1
<1> QED BY <1>3, <1>4, <1>5, <1>6

\* What is numbered from n on is not what was numbered below it.
LEMMA NumberedAfter ==
  \A i \in Int, n, k \in Nat :
    /\ i <= n => i # n + 1 /\ i <= n + 1
    /\ i < n => i < n + k /\ (k > 0 => i # (n + k) - 1)
OBVIOUS

\* The functions that were there still agree.
LEMMA OldAgree ==
  ASSUME NEW b, NEW p, NEW N, NEW A, NEW c, Carried(b, p, N, A, c), NEW i \in 1..Len(blob), Agrees(blob, i)
  PROVE  Agrees(b, i)
<1> DEFINE m == Len(blob)
           f == blob[i].func
<1>1. /\ blob \in Seq(Descr) /\ n_ifs \in Nat /\ n_funcs \in Nat /\ p \in Seq(Asked) /\ m \in Nat /\ Len(p) \in Nat
      /\ \A j \in 1..m : blob[j].func <= n_funcs /\ blob[j].if < n_ifs
  BY DEF Carried, FuncsShape
<1>2. /\ b \in Seq(Descr) /\ Len(b) = m + Len(p) /\ \A j \in 1..m : b[j] = blob[j]
      /\ \A x \in 1..Len(p) : IsPlaced(b[m + x], p[x], n_funcs + 1, N[x], A[x])
      /\ \A j \in 1..Len(b) : j \in 1..m \/ \E x \in 1..Len(p) : j = m + x
  BY CarriedIs
<1>3. b[i] = blob[i] /\ i \in 1..Len(b) /\ \A j \in 1..m : j \in 1..Len(b)
  <2>1. Len(b) \in Nat /\ m <= Len(b)
    BY <1>1, <1>2
  <2>2. \A j \in 1..m : j \in 1..Len(b)
    BY <1>1, <2>1
  <2> QED BY <1>2, <2>2
<1>4. blob[i] \in Descr /\ blob[i].if < n_ifs /\ f <= n_funcs /\ f \in Nat /\ blob[i].if \in Int
  <2>1. blob[i] \in Descr
    BY <1>1
  <2>2. blob[i].func \in Nat /\ blob[i].if \in Int
    BY <2>1 DEF Descr
  <2> QED BY <1>1, <2>1, <2>2
<1>5. ASSUME NEW x \in 1..Len(p)
      PROVE  b[m + x].func # f /\ (b[m + x].k = "cs" => b[m + x].if # blob[i].if)
  <2>1. b[m + x].k = p[x].k /\ b[m + x].func = n_funcs + 1 /\ b[m + x].if = (n_ifs + N[x]) - 1
    BY <1>2 DEF IsPlaced
  <2>2. p[x].k = "cs" => N[x] > 0
    BY DEF Carried, PlanSays
  <2>3. N[x] \in Nat
    <3>1. N \in [0..Len(p) -> Nat] /\ x \in 0..Len(p)
      BY <1>1 DEF Carried, Numbers
    <3> QED BY <3>1
  <2>4. n_ifs \in Nat /\ n_funcs \in Nat
    BY <1>1
  <2>5. f # n_funcs + 1
    BY <1>4, <2>4, NumberedAfter
  <2>6. N[x] > 0 => blob[i].if # (n_ifs + N[x]) - 1
    BY <1>4, <2>3, <2>4, NumberedAfter
  <2> QED BY <2>1, <2>2, <2>5, <2>6
<1>6. \A kinds : InFunc(b, f, kinds) = InFunc(blob, f, kinds)
  <2> SUFFICES ASSUME NEW kinds PROVE InFunc(b, f, kinds) = InFunc(blob, f, kinds)
    OBVIOUS
  <2>1. \A j \in 1..Len(b) : b[j].func = f => j \in 1..m
    BY <1>2, <1>5
  <2>2. DOMAIN b = 1..Len(b) /\ DOMAIN blob = 1..m
    BY <1>1, <1>2
  <2>3. ASSUME NEW j \in InFunc(b, f, kinds) PROVE j \in InFunc(blob, f, kinds)
    BY <1>2, <2>1, <2>2 DEF InFunc
  <2>4. ASSUME NEW j \in InFunc(blob, f, kinds) PROVE j \in InFunc(b, f, kinds)
    BY <1>2, <1>3, <2>2 DEF InFunc
  <2> QED BY <2>3, <2>4
<1>7. Section(b, i) = Section(blob, i) /\ Section(blob, i) \in SUBSET (1..m)
  <2>1. \A j \in 1..Len(b) : b[j].k = "cs" /\ b[j].if = blob[i].if => j \in 1..m
    BY <1>2, <1>5
  <2>2. DOMAIN b = 1..Len(b) /\ DOMAIN blob = 1..m
    BY <1>1, <1>2
  <2>3. ASSUME NEW j \in Section(b, i) PROVE j \in Section(blob, i)
    BY <1>2, <1>3, <2>1, <2>2 DEF Section
  <2>4. ASSUME NEW j \in Section(blob, i) PROVE j \in Section(b, i)
    BY <1>2, <1>3, <2>2 DEF Section
  <2>5. \A j \in Section(blob, i) : j \in 1..m
    BY <2>2 DEF Section
  <2> QED BY <2>3, <2>4, <2>5
<1>8. SumLengths(b, Section(b, i)) = SumLengths(blob, Section(blob, i))
  <2>1. Len(blob) <= Len(b)
    BY <1>1, <1>2
  <2> QED BY <1>1, <1>2, <1>7, <2>1, SumBehind
<1>9. \A kinds : \A j \in InFunc(blob, f, kinds) : b[j] = blob[j]
  BY <1>1, <1>2 DEF InFunc
<1>10. blob[i].k = "cs" /\ blob[i].total # 0 => blob[i].total = SumLengths(b, Section(b, i))
  BY <1>8 DEF Agrees
<1>11. blob[i].ifs \subseteq {b[j].if : j \in InFunc(b, f, {"if"})}
  BY <1>6, <1>9 DEF Agrees
<1>12. blob[i].k = "cs" /\ blob[i].addr[1] # 0 =>
         \E j \in InFunc(b, f, {"ep"}) : b[j].addr = blob[i].addr /\ b[j].if = blob[i].if
  BY <1>6, <1>9 DEF Agrees
<1>13. blob[i].k = "iad" => blob[i].cover = Cardinality(InFunc(b, f, {"if"}))
  BY <1>6 DEF Agrees
<1> QED
  BY <1>3, <1>10, <1>11, <1>12, <1>13 DEF Agrees

\* The address of descriptor x is that of an endpoint of its interface.
IsNamed(b, p, N, x) ==
  \E e \in 1..Len(p) : p[e].k = "ep" /\ N[e] = N[x] /\ b[Len(blob) + e].addr = b[Len(blob) + x].addr

\* A header that names the reserved endpoint names the one its function got.
LEMMA AnnouncedIs ==
  ASSUME NEW b, NEW p, NEW N, NEW A, NEW c, Carried(b, p, N, A, c), NEW x \in 1..Len(p),
         p[x].named, IsAnnounced(p, N, x)
  PROVE  IsNamed(b, p, N, x)
<1> DEFINE m == Len(blob)
           L == Len(p)
<1>1. /\ blob \in Seq(Descr) /\ n_ifs \in Nat /\ n_funcs + 1 \in Nat /\ p \in Seq(Asked) /\ m \in Nat /\ L \in Nat
      /\ Chain(c, L, p, n_funcs + 1) /\ c[L] = b /\ N \in [0..L -> Nat]
  BY DEF Carried, FuncsShape, Numbers
<1>2. /\ b \in Seq(Descr) /\ Len(b) = m + L
      /\ \A y \in 1..L : /\ IsPlaced(b[m + y], p[y], n_funcs + 1, N[y], A[y])
                         /\ b[m + y].addr \in Addressed(c[y - 1], p[y], (n_ifs + N[y]) - 1)
  BY CarriedIs
<1>3. /\ \A y \in 0..L : c[y] \in Seq(Descr) /\ Len(c[y]) = m + y
      /\ \A y \in 0..L : \A i \in 1..(m + y) : c[y][i] = b[i]
  <2>1. /\ \A y \in 0..Len(p) : c[y] \in Seq(Descr) /\ Len(c[y]) = Len(blob) + y
        /\ \A y \in 0..Len(p) : \A i \in 1..(Len(blob) + y) : c[y][i] = c[Len(p)][i]
    BY <1>1, ChainGrows
  <2> QED BY <1>1, <2>1
<1>4. PICK r \in 1..L, e \in 1..L :
        /\ r < x /\ x < e /\ p[r].k = "reserve" /\ ~p[r].named /\ p[e].k = "ep" /\ ~p[e].named
        /\ N[r] = N[x] /\ N[e] = N[x]
        /\ \A y \in (r + 1)..(e - 1) : p[y].k \notin {"reserve", "ep"}
  BY DEF IsAnnounced
<1> DEFINE n == (n_ifs + N[x]) - 1
           a == b[m + r].addr
<1>5. r - 1 \in 0..L /\ x - 1 \in 0..L /\ e - 1 \in 0..L /\ r \in Nat /\ x \in Nat /\ e \in Nat
  BY <1>1
<1>6. a \in Addrs /\ Holds(c[r - 1], a) \subseteq {n}
  <2>1. b[m + r].addr \in Addressed(c[r - 1], p[r], n)
    BY <1>2, <1>4
  <2>2. Addressed(c[r - 1], p[r], n) = Allocated(c[r - 1], n, p[r].addr)
    BY <1>4 DEF Addressed
  <2>3. p[r] \in Asked
    BY <1>1
  <2>4. p[r].addr \in Addrs
    BY <2>3 DEF Asked
  <2> QED BY <2>1, <2>2, <2>4, AllocatedIs
<1>7. b[m + r].k = "reserve" /\ b[m + r].if = n
  BY <1>2, <1>4 DEF IsPlaced
\* Between the reservation and the endpoint nobody gets an address.
<1>8. ASSUME NEW t \in r..(e - 1), NEW i \in 1..(m + t), b[i].k \in {"reserve", "ep"}
      PROVE  i \in 1..(m + (r - 1)) \/ i = m + r
  <2> SUFFICES ASSUME i \notin 1..(m + (r - 1)), i # m + r PROVE FALSE
    OBVIOUS
  <2>1. i - m \in (r + 1)..(e - 1) /\ i - m \in 1..L /\ i = m + (i - m)
    <3>1. PICK l \in Nat, n1 \in Nat : l = m /\ n1 = L
      BY <1>1
    <3>2. r \in 1..n1 /\ e \in 1..n1 /\ t \in r..(e - 1) /\ i \in 1..(l + t) /\ i \notin 1..(l + (r - 1)) /\ i # l + r
      BY <1>8, <3>1
    <3>3. i - l \in (r + 1)..(e - 1) /\ i - l \in 1..n1 /\ i = l + (i - l)
      BY <3>2
    <3> QED BY <3>1, <3>3
  <2>2. PICK y \in (r + 1)..(e - 1) : y = i - m /\ y \in 1..L /\ i = m + y
    BY <2>1
  <2>3. b[i].k = p[y].k
    <3>1. IsPlaced(b[m + y], p[y], n_funcs + 1, N[y], A[y])
      BY <1>2, <2>2
    <3> QED BY <2>2, <3>1 DEF IsPlaced
  <2> QED BY <1>4, <1>8, <2>2, <2>3
<1>9. ASSUME NEW t \in r..(e - 1)
      PROVE  Claimed(c[t], n) = {a} /\ Holds(c[t], a) \subseteq {n} /\ Reserved(c[t], n) # {}
  <2>1. /\ t \in 0..L /\ t \in Nat /\ DOMAIN c[t] = 1..(m + t) /\ \A i \in 1..(m + t) : c[t][i] = b[i]
        /\ DOMAIN c[r - 1] = 1..(m + (r - 1)) /\ \A i \in 1..(m + (r - 1)) : c[r - 1][i] = b[i]
    <3>1. t \in 0..L /\ t \in Nat
      BY <1>1, <1>5
    <3>2. /\ c[t] \in Seq(Descr) /\ Len(c[t]) = m + t
          /\ c[r - 1] \in Seq(Descr) /\ Len(c[r - 1]) = m + (r - 1)
      BY <1>3, <1>5, <3>1
    <3>3. DOMAIN c[t] = 1..(m + t) /\ DOMAIN c[r - 1] = 1..(m + (r - 1))
      BY <3>2
    <3>4. /\ \A i \in 1..(m + t) : c[t][i] = b[i]
          /\ \A i \in 1..(m + (r - 1)) : c[r - 1][i] = b[i]
      BY <1>3, <1>5, <3>1
    <3> QED BY <3>1, <3>3, <3>4
  <2>2. m + r \in 1..(m + t)
    BY <1>1, <1>5, <2>1
  <2>3. m + r \in Reserved(c[t], n)
    BY <1>7, <2>1, <2>2 DEF Reserved
  <2>4. \A i \in Reserved(c[t], n) : i <= m + r
    <3> SUFFICES ASSUME NEW i \in Reserved(c[t], n) PROVE i <= m + r
      OBVIOUS
    <3>1. i \in 1..(m + t) /\ b[i].k = "reserve"
      BY <2>1 DEF Reserved
    <3>2. i \in 1..(m + (r - 1)) \/ i = m + r
      BY <1>8, <3>1
    <3> QED BY <1>1, <1>5, <3>2
  <2>5. {i \in Reserved(c[t], n) : \A j \in Reserved(c[t], n) : j <= i} = {m + r}
    <3>1. m + r \in Nat /\ \A i \in Reserved(c[t], n) : i \in Int
      <4>1. \A i \in Reserved(c[t], n) : i \in 1..(m + t)
        BY <2>1 DEF Reserved
      <4> QED BY <1>1, <1>5, <4>1
    <3> QED BY <2>3, <2>4, <3>1
  <2>6. Claimed(c[t], n) = {c[t][i].addr : i \in {m + r}}
    BY <2>5 DEF Claimed
  <2>7. Claimed(c[t], n) = {a}
    BY <2>1, <2>2, <2>6
  <2>8. ASSUME NEW h \in Holds(c[t], a) PROVE h = n
    <3>1. PICK i \in 1..(m + t) : c[t][i].k \in {"ep", "reserve"} /\ c[t][i].addr = a /\ h = c[t][i].if
      BY <2>1 DEF Holds
    <3>2. b[i].k \in {"reserve", "ep"} /\ b[i].addr = a /\ h = b[i].if
      BY <2>1, <3>1
    <3>3. CASE i = m + r
      BY <1>7, <3>2, <3>3
    <3>4. CASE i \in 1..(m + (r - 1))
      <4>1. h \in Holds(c[r - 1], a)
        BY <2>1, <3>2, <3>4 DEF Holds
      <4> QED BY <1>6, <4>1
    <3> QED BY <1>8, <3>2, <3>3, <3>4
  <2> QED BY <2>3, <2>7, <2>8
<1>10. x - 1 \in r..(e - 1) /\ e - 1 \in r..(e - 1)
  BY <1>4, <1>5
<1>11. b[m + x].addr = a
  <2>1. b[m + x].addr \in Addressed(c[x - 1], p[x], n)
    BY <1>2
  <2>2. Addressed(c[x - 1], p[x], n) = Claimed(c[x - 1], n)
    BY DEF Addressed
  <2> QED BY <1>9, <1>10, <2>1, <2>2
<1>12. b[m + e].addr = a
  <2>1. b[m + e].addr \in Addressed(c[e - 1], p[e], n)
    BY <1>2, <1>4
  <2>2. Claimed(c[e - 1], n) = {a} /\ Holds(c[e - 1], a) \subseteq {n} /\ Reserved(c[e - 1], n) # {}
    BY <1>9, <1>10
  <2>3. Addressed(c[e - 1], p[e], n) = UNION {Allocated(c[e - 1], n, want) : want \in Claimed(c[e - 1], n)}
    BY <1>4, <2>2 DEF Addressed
  <2>4. Addressed(c[e - 1], p[e], n) = Allocated(c[e - 1], n, a)
    <3>1. {Allocated(c[e - 1], n, want) : want \in Claimed(c[e - 1], n)} = {Allocated(c[e - 1], n, a)}
      BY <2>2
    <3> QED BY <2>3, <3>1
  <2>5. Allocated(c[e - 1], n, a) = {a}
    BY <1>6, <2>2, AllocatedIs
  <2> QED BY <2>1, <2>4, <2>5
<1> QED
  BY <1>4, <1>11, <1>12 DEF IsNamed

\* So does the function that was added.
LEMMA NewAgrees ==
  ASSUME NEW b, NEW p, NEW N, NEW A, NEW c, Carried(b, p, N, A, c), NEW x \in 1..Len(p)
  PROVE  Agrees(b, Len(blob) + x)
<1> DEFINE m == Len(blob)
           L == Len(p)
           f == n_funcs + 1
<1>1. /\ blob \in Seq(Descr) /\ n_ifs \in Nat /\ n_funcs \in Nat /\ p \in Seq(Asked) /\ m \in Nat /\ L \in Nat
      /\ \A j \in 1..m : blob[j].func <= n_funcs /\ blob[j].if < n_ifs
      /\ \A y \in 1..L : PlanSays(p, N, A, y)
  BY DEF Carried, FuncsShape
<1>2. /\ b \in Seq(Descr) /\ Len(b) = m + L /\ \A j \in 1..m : b[j] = blob[j]
      /\ \A y \in 1..L : /\ IsPlaced(b[m + y], p[y], f, N[y], A[y])
                         /\ b[m + y].addr \in Addressed(c[y - 1], p[y], (n_ifs + N[y]) - 1)
      /\ \A j \in 1..Len(b) : j \in 1..m \/ \E y \in 1..L : j = m + y
  BY CarriedIs
<1>3. \A y \in 1..L : N[y] \in Nat /\ A[y] \in Nat /\ m + y \in 1..Len(b) /\ m + y \notin 1..m
  <2>1. N \in [0..L -> Nat] /\ A \in [0..L -> Nat]
    BY DEF Carried, Numbers
  <2>2. \A y \in 1..L : y \in 0..L /\ m + y \in 1..(m + L) /\ m + y \notin 1..m
    BY <1>1
  <2> QED BY <1>2, <2>1, <2>2
<1>4. DOMAIN b = 1..Len(b)
  BY <1>2
<1>5. ASSUME NEW y \in 1..L
      PROVE  /\ b[m + y].k = p[y].k /\ b[m + y].len = p[y].len /\ b[m + y].total = p[y].total
             /\ b[m + y].cover = p[y].cover /\ b[m + y].func = f /\ b[m + y].if = (n_ifs + N[y]) - 1
             /\ b[m + y].ifs = {n_ifs + i : i \in p[y].ifs} /\ (N[y] > 0 => b[m + y].alt = A[y])
  BY <1>2 DEF IsPlaced
<1>6. ASSUME NEW y \in 1..L, p[y].k = "cs" PROVE N[y] > 0
  BY <1>1, <1>6 DEF PlanSays
<1>7. \A kinds : \A j : j \in InFunc(b, f, kinds) <=> \E y \in 1..L : j = m + y /\ p[y].k \in kinds
  <2> SUFFICES ASSUME NEW kinds, NEW j
               PROVE  j \in InFunc(b, f, kinds) <=> \E y \in 1..L : j = m + y /\ p[y].k \in kinds
    OBVIOUS
  <2>1. ASSUME j \in InFunc(b, f, kinds) PROVE \E y \in 1..L : j = m + y /\ p[y].k \in kinds
    <3>1. j \in 1..Len(b) /\ b[j].func = f /\ b[j].k \in kinds
      BY <1>4, <2>1 DEF InFunc
    <3>2. j \notin 1..m
      <4> SUFFICES ASSUME j \in 1..m PROVE FALSE
        OBVIOUS
      <4>1. b[j].func <= n_funcs
        BY <1>1, <1>2
      <4> QED BY <1>1, <3>1, <4>1
    <3>3. PICK y \in 1..L : j = m + y
      BY <1>2, <3>1, <3>2
    <3> QED BY <1>5, <3>1, <3>3
  <2>2. ASSUME NEW y \in 1..L, j = m + y, p[y].k \in kinds PROVE j \in InFunc(b, f, kinds)
    BY <1>3, <1>4, <1>5, <2>2 DEF InFunc
  <2> QED BY <2>1, <2>2
<1> DEFINE i == m + x
<1>8. b[i].k = "cs" /\ b[i].total # 0 => b[i].total = SumLengths(b, Section(b, i))
  <2> SUFFICES ASSUME b[i].k = "cs", b[i].total # 0 PROVE b[i].total = SumLengths(b, Section(b, i))
    OBVIOUS
  <2>1. p[x].k = "cs" /\ p[x].total # 0 /\ N[x] > 0
    BY <1>5, <1>6
  <2>2. PICK S : IsTotal(p, N, A, x, S)
    BY <1>1, <2>1 DEF PlanSays
  <2>3. /\ S \in [0..L -> Nat] /\ S[0] = 0 /\ S[L] = p[x].total
        /\ \A y \in 1..L : S[y] = S[y - 1] + (IF p[y].k = "cs" /\ N[y] = N[x] /\ A[y] = A[x] THEN p[y].len ELSE 0)
    BY <2>2 DEF IsTotal
  <2>4. \A j \in 1..m : j \notin Section(b, i)
    <3> SUFFICES ASSUME NEW j \in 1..m, j \in Section(b, i) PROVE FALSE
      OBVIOUS
    <3>1. b[j].if = (n_ifs + N[x]) - 1
      BY <1>5 DEF Section
    <3>2. b[j].if < n_ifs
      BY <1>1, <1>2
    <3>3. n_ifs \in Nat /\ N[x] \in Nat
      BY <1>1, <1>3
    <3> QED BY <2>1, <3>1, <3>2, <3>3
  <2>5. ASSUME NEW y \in 1..L
        PROVE  m + y \in Section(b, i) <=> p[y].k = "cs" /\ N[y] = N[x] /\ A[y] = A[x]
    <3>1. m + y \in Section(b, i) <=> b[m + y].k = "cs" /\ b[m + y].if = b[i].if /\ b[m + y].alt = b[i].alt
      BY <1>3, <1>4 DEF Section
    <3>2. b[m + y].if = b[i].if <=> N[y] = N[x]
      <4>1. b[m + y].if = (n_ifs + N[y]) - 1 /\ b[i].if = (n_ifs + N[x]) - 1
        BY <1>5
      <4>2. N[y] \in Nat /\ N[x] \in Nat
        BY <1>3
      <4>3. n_ifs \in Nat
        BY <1>1
      <4>4. (n_ifs + N[y]) - 1 = (n_ifs + N[x]) - 1 <=> N[y] = N[x]
        BY <4>2, <4>3
      <4> QED BY <4>1, <4>4
    <3>3. p[y].k = "cs" => (b[m + y].alt = b[i].alt <=> A[y] = A[x])
      BY <1>5, <1>6, <2>1
    <3> QED BY <1>5, <3>1, <3>2, <3>3
  <2>6. \A y \in 1..L : S[y] = S[y - 1] + (IF m + y \in Section(b, i) THEN b[m + y].len ELSE 0)
    BY <1>5, <2>3, <2>5
  <2>7. Len(b) - m = L /\ m \in 0..Len(b)
    BY <1>1, <1>2
  <2>8. SumLengths(b, Section(b, i)) = S[L]
    <3>1. PICK is : is = Section(b, i)
      OBVIOUS
    <3>2. S \in [0..(Len(b) - m) -> Nat] /\ S[0] = 0 /\ \A j \in 1..m : j \notin is
      BY <2>3, <2>4, <2>7, <3>1
    <3>3. \A y \in 1..(Len(b) - m) : S[y] = S[y - 1] + (IF m + y \in is THEN b[m + y].len ELSE 0)
      BY <2>6, <2>7, <3>1
    <3>4. SumLengths(b, is) = S[Len(b) - m]
      BY <1>2, <2>7, <3>2, <3>3, SumBefore
    <3> QED BY <2>7, <3>1, <3>4
  <2> QED BY <1>5, <2>3, <2>8
<1>9. b[i].ifs \subseteq {b[j].if : j \in InFunc(b, f, {"if"})}
  <2> SUFFICES ASSUME NEW g \in b[i].ifs PROVE \E j \in InFunc(b, f, {"if"}) : g = b[j].if
    OBVIOUS
  <2>1. PICK h \in p[x].ifs : g = n_ifs + h
    BY <1>5
  <2>2. PICK y \in 1..L : p[y].k = "if" /\ N[y] = h + 1
    BY <1>1 DEF PlanSays
  <2>3. h \in Nat
    <3>1. p[x] \in Asked
      BY <1>1
    <3> QED BY <3>1 DEF Asked
  <2>4. m + y \in InFunc(b, f, {"if"})
    BY <1>7, <2>2
  <2>5. b[m + y].if = (n_ifs + N[y]) - 1
    BY <1>5
  <2>6. b[m + y].if = g
    BY <1>1, <2>1, <2>2, <2>3, <2>5
  <2> QED BY <2>4, <2>6
<1>10. b[i].k = "cs" /\ b[i].addr[1] # 0 =>
         \E j \in InFunc(b, f, {"ep"}) : b[j].addr = b[i].addr /\ b[j].if = b[i].if
  <2> SUFFICES ASSUME b[i].k = "cs", b[i].addr[1] # 0
               PROVE  \E j \in InFunc(b, f, {"ep"}) : b[j].addr = b[i].addr /\ b[j].if = b[i].if
    OBVIOUS
  <2>1. p[x].k = "cs"
    BY <1>5
  <2>2. CASE ~p[x].named
    <3>1. p[x].addr[1] = 0
      BY <1>1, <2>1, <2>2 DEF PlanSays
    <3>2. b[i].addr \in Addressed(c[x - 1], p[x], (n_ifs + N[x]) - 1)
      BY <1>2
    <3>3. Addressed(c[x - 1], p[x], (n_ifs + N[x]) - 1) = {p[x].addr}
      BY <2>1, <2>2 DEF Addressed
    <3>4. b[i].addr = p[x].addr
      BY <3>2, <3>3
    <3> QED BY <3>1, <3>4
  <2>3. CASE p[x].named
    <3>1. IsAnnounced(p, N, x)
      BY <1>1, <2>1, <2>3 DEF PlanSays
    <3>2. PICK e \in 1..L : p[e].k = "ep" /\ N[e] = N[x] /\ b[m + e].addr = b[m + x].addr
      <4>1. IsNamed(b, p, N, x)
        BY <2>3, <3>1, AnnouncedIs
      <4> QED BY <4>1 DEF IsNamed
    <3>3. m + e \in InFunc(b, f, {"ep"})
      BY <1>7, <3>2
    <3>4. b[m + e].if = b[i].if
      BY <1>5, <3>2
    <3> QED BY <3>2, <3>3, <3>4
  <2> QED BY <2>2, <2>3
<1>11. b[i].k = "iad" => b[i].cover = Cardinality(InFunc(b, f, {"if"}))
  <2> SUFFICES ASSUME b[i].k = "iad" PROVE b[i].cover = Cardinality(InFunc(b, f, {"if"}))
    OBVIOUS
  <2>1. p[x].k = "iad" /\ b[i].cover = p[x].cover
    BY <1>5
  <2>2. /\ p[x].cover = 2
        /\ \E u, w \in 1..L : u # w /\ {y \in 1..L : p[y].k = "if"} = {u, w}
    BY <1>1, <2>1 DEF PlanSays
  <2>3. PICK u \in 1..L, w \in 1..L : u # w /\ {y \in 1..L : p[y].k = "if"} = {u, w}
    BY <2>2
  <2>4. InFunc(b, f, {"if"}) = {m + u, m + w}
    <3>1. \A y \in 1..L : p[y].k = "if" <=> y = u \/ y = w
      BY <2>3
    <3>2. \A j : j \in InFunc(b, f, {"if"}) <=> j = m + u \/ j = m + w
      <4> SUFFICES ASSUME NEW j PROVE j \in InFunc(b, f, {"if"}) <=> j = m + u \/ j = m + w
        OBVIOUS
      <4>1. j \in InFunc(b, f, {"if"}) <=> \E y \in 1..L : j = m + y /\ p[y].k \in {"if"}
        BY <1>7
      <4>2. (\E y \in 1..L : j = m + y /\ p[y].k \in {"if"}) <=> j = m + u \/ j = m + w
        BY <2>3, <3>1
      <4> QED BY <4>1, <4>2
    <3> QED BY <3>2
  <2>5. m + u # m + w
    BY <1>1, <2>3
  <2>6. Cardinality({m + u}) = 1 /\ IsFiniteSet({m + u})
    BY FS_Singleton
  <2>7. Cardinality({m + u} \cup {m + w}) = 2
    <3>1. m + w \notin {m + u}
      BY <2>5
    <3>2. Cardinality({m + u} \cup {m + w}) = Cardinality({m + u}) + 1
      BY <2>6, <3>1, FS_AddElement
    <3> QED BY <2>6, <3>2
  <2>8. {m + u} \cup {m + w} = {m + u, m + w}
    OBVIOUS
  <2> QED BY <2>1, <2>2, <2>4, <2>7, <2>8
<1>12. b[i].func = f
  BY <1>5
<1> QED
  BY <1>8, <1>9, <1>10, <1>11, <1>12 DEF Agrees

LEMMA NumbersExist ==
  ASSUME NEW p \in Seq(Asked)
  PROVE  \E N, A : Numbers(p, N, A)
<1> DEFINE L == Len(p)
           one(x) == IF p[x].k = "if" THEN 1 ELSE 0
           alt(x) == IF p[x].k = "alt" THEN 1 ELSE 0
           F == [x \in 1..L |-> [y \in Nat |-> y + one(x)]]
           G == [x \in 1..L |-> [y \in Nat |-> IF p[x].k = "if" THEN 0 ELSE y + alt(x)]]
<1>1. L \in Nat /\ 0 \in Nat /\ \A x \in 1..L : x - 1 \in 0..L /\ one(x) \in Nat /\ alt(x) \in Nat
  OBVIOUS
<1> HIDE DEF one, alt
<1>2. \A x \in 1..L : \A y \in Nat : F[x][y] = y + one(x) /\ F[x][y] \in Nat
  BY <1>1
<1>3. \A x \in 1..L : \A y \in Nat : G[x][y] = (IF p[x].k = "if" THEN 0 ELSE y + alt(x)) /\ G[x][y] \in Nat
  BY <1>1
<1> HIDE DEF F, G
<1>4. PICK N : IsRun(L, Nat, 0, F, N)
  BY <1>1, <1>2, RunsExist
<1>5. PICK A : IsRun(L, Nat, 0, G, A)
  BY <1>1, <1>3, RunsExist
<1>6. N \in [0..L -> Nat] /\ N[0] = 0 /\ \A x \in 1..L : N[x] = F[x][N[x - 1]]
  BY <1>4 DEF IsRun
<1>7. A \in [0..L -> Nat] /\ \A x \in 1..L : A[x] = G[x][A[x - 1]]
  BY <1>5 DEF IsRun
<1>8. ASSUME NEW x \in 1..L
      PROVE  N[x] = N[x - 1] + one(x) /\ A[x] = IF p[x].k = "if" THEN 0 ELSE A[x - 1] + alt(x)
  <2>1. N[x - 1] \in Nat /\ A[x - 1] \in Nat
    BY <1>1, <1>6, <1>7
  <2>2. F[x][N[x - 1]] = N[x - 1] + one(x)
    BY <1>2, <2>1
  <2>3. G[x][A[x - 1]] = IF p[x].k = "if" THEN 0 ELSE A[x - 1] + alt(x)
    BY <1>3, <2>1
  <2> QED BY <1>6, <1>7, <2>2, <2>3
<1>9. \A x \in 1..Len(p) :
        /\ N[x] = N[x - 1] + (IF p[x].k = "if" THEN 1 ELSE 0)
        /\ A[x] = IF p[x].k = "if" THEN 0 ELSE A[x - 1] + (IF p[x].k = "alt" THEN 1 ELSE 0)
  BY <1>8 DEF one, alt
<1>10. Numbers(p, N, A)
  <2>1. N \in [0..Len(p) -> Nat] /\ A \in [0..Len(p) -> Nat] /\ N[0] = 0
    BY <1>6, <1>7
  <2> QED BY <1>9, <2>1 DEF Numbers
<1> QED
  BY <1>10

\* Descriptors that say nothing of others.
Simple == {d \in Asked : /\ d.k # "iad" /\ d.total = 0 /\ d.ifs = {} /\ ~d.named
                         /\ d.k = "cs" => d.addr[1] = 0}

LEMMA PlainIs ==
  /\ Plain \in Asked /\ Plain.k = "cs" /\ Plain.total = 0 /\ Plain.ifs = {} /\ Plain.named = FALSE
  /\ Plain.addr = <<0, "none">> /\ Plain.cover = 0
  /\ Kinds = {"if", "alt", "ep", "reserve", "cs", "iad"}
  /\ \A n \in Nat : \A dir \in {"in", "out", "none"} : <<n, dir>> \in Addrs /\ <<n, dir>>[1] = n
<1>1. \A n \in Nat : \A dir \in {"in", "out", "none"} : <<n, dir>> \in Addrs /\ <<n, dir>>[1] = n
  BY DEF Addrs
<1>2. Kinds = {"if", "alt", "ep", "reserve", "cs", "iad"}
  BY DEF Kinds
<1>3. <<0, "none">> \in Addrs
  BY <1>1
<1>4. Plain \in Asked
  BY <1>2, <1>3 DEF Plain, Asked
<1> QED BY <1>1, <1>2, <1>4 DEF Plain

LEMMA SimpleIs ==
  /\ NewInterface \in Simple /\ NewInterface.k = "if"
  /\ AltSetting \in Simple /\ AltSetting.k = "alt"
  /\ \A n \in Nat : \A dir \in {"in", "out"} : NewEndpoint(n, dir) \in Simple /\ NewEndpoint(n, dir).k = "ep"
  /\ \A n \in Nat : Reservation(n, "in") \in Simple /\ Reservation(n, "in").k = "reserve"
  /\ \A l \in Nat : Desc(l) \in Simple /\ Desc(l).k = "cs" /\ Desc(l).len = l
<1>1. \A d \in Asked : /\ d.k # "iad" /\ d.total = 0 /\ d.ifs = {} /\ d.named = FALSE
                       /\ d.k = "cs" => d.addr[1] = 0
                       => d \in Simple
  BY DEF Simple
<1>2. NewInterface \in Simple /\ NewInterface.k = "if"
  <2>1. /\ NewInterface \in Asked /\ NewInterface.k = "if" /\ NewInterface.total = 0 /\ NewInterface.ifs = {}
        /\ NewInterface.named = FALSE
    BY PlainIs DEF NewInterface, Asked
  <2> QED BY <1>1, <2>1
<1>3. AltSetting \in Simple /\ AltSetting.k = "alt"
  <2>1. /\ AltSetting \in Asked /\ AltSetting.k = "alt" /\ AltSetting.total = 0 /\ AltSetting.ifs = {}
        /\ AltSetting.named = FALSE
    BY PlainIs DEF AltSetting, Asked
  <2> QED BY <1>1, <2>1
<1>4. ASSUME NEW n \in Nat, NEW dir \in {"in", "out"}
      PROVE  NewEndpoint(n, dir) \in Simple /\ NewEndpoint(n, dir).k = "ep"
  <2>1. <<n, dir>> \in Addrs
    BY PlainIs
  <2>2. LET d == NewEndpoint(n, dir)
        IN d \in Asked /\ d.k = "ep" /\ d.total = 0 /\ d.ifs = {} /\ d.named = FALSE
    BY <2>1, PlainIs DEF NewEndpoint, Asked
  <2> QED BY <1>1, <2>2
<1>5. ASSUME NEW n \in Nat PROVE Reservation(n, "in") \in Simple /\ Reservation(n, "in").k = "reserve"
  <2>1. <<n, "in">> \in Addrs
    BY PlainIs
  <2>2. LET d == Reservation(n, "in")
        IN d \in Asked /\ d.k = "reserve" /\ d.total = 0 /\ d.ifs = {} /\ d.named = FALSE
    BY <2>1, PlainIs DEF Reservation, Asked
  <2> QED BY <1>1, <2>2
<1>6. ASSUME NEW l \in Nat PROVE Desc(l) \in Simple /\ Desc(l).k = "cs" /\ Desc(l).len = l
  <2>1. LET d == Desc(l)
        IN /\ d \in Asked /\ d.k = "cs" /\ d.len = l /\ d.total = 0 /\ d.ifs = {} /\ d.named = FALSE
           /\ d.addr = Plain.addr
    BY PlainIs DEF Desc, Asked
  <2>2. Plain.addr[1] = 0
    BY PlainIs
  <2> QED BY <1>1, <2>1, <2>2
<1> QED BY <1>2, <1>3, <1>4, <1>5, <1>6

LEMMA SimplePlan ==
  ASSUME NEW p \in Seq(Simple), Len(p) > 0, p[1].k = "if"
  PROVE  IsPlan(p)
<1>1. p \in Seq(Asked) /\ Len(p) \in Nat /\ \A x \in 1..Len(p) : p[x] \in Simple
  BY DEF Simple
<1>2. PICK N, A : Numbers(p, N, A)
  BY <1>1, NumbersExist
<1>3. /\ N \in [0..Len(p) -> Nat] /\ N[0] = 0
      /\ \A x \in 1..Len(p) : N[x] = N[x - 1] + (IF p[x].k = "if" THEN 1 ELSE 0)
  BY <1>2 DEF Numbers
<1> DEFINE P == {x \in 0..Len(p) : x > 0 => N[x] > 0}
<1>4. 0 \in P
  BY <1>1
<1>5. ASSUME NEW x \in 1..Len(p), x - 1 \in P PROVE x \in P
  <2>1. x \in 0..Len(p) /\ x - 1 \in 0..Len(p) /\ N[x - 1] \in Nat
    BY <1>1, <1>3
  <2>2. CASE x = 1
    BY <1>3, <2>1, <2>2
  <2>3. CASE x # 1
    <3>1. N[x - 1] > 0
      BY <1>5, <2>3
    <3> QED BY <1>3, <2>1, <3>1
  <2> QED BY <2>2, <2>3
<1> HIDE DEF P
<1>6. \A x \in 0..Len(p) : x \in P
  BY <1>1, <1>4, <1>5, UpTo
<1>7. ASSUME NEW x \in 1..Len(p) PROVE PlanSays(p, N, A, x)
  <2>1. N[x] > 0
    BY <1>1, <1>6 DEF P
  <2>2. p[x].k # "iad" /\ p[x].total = 0 /\ p[x].ifs = {} /\ ~p[x].named /\ (p[x].k = "cs" => p[x].addr[1] = 0)
    BY <1>1 DEF Simple
  <2> QED BY <2>1, <2>2 DEF PlanSays
<1> QED
  BY <1>1, <1>2, <1>7 DEF IsPlan

\* A plan of two parts, and where the descriptors of each are.
LEMMA PartsAre ==
  ASSUME NEW S, NEW s \in Seq(S), NEW t \in Seq(S)
  PROVE  /\ s \o t \in Seq(S) /\ Len(s \o t) = Len(s) + Len(t)
         /\ \A x \in 1..Len(s) : (s \o t)[x] = s[x]
         /\ \A x \in 1..Len(t) : (s \o t)[Len(s) + x] = t[x]
<1>1. /\ s \o t \in Seq(S) /\ Len(s \o t) = Len(s) + Len(t)
      /\ \A i \in 1..(Len(s) + Len(t)) : (s \o t)[i] = IF i <= Len(s) THEN s[i] ELSE t[i - Len(s)]
  BY ConcatProperties
<1>2. \A x \in 1..Len(s) : x \in 1..(Len(s) + Len(t)) /\ x <= Len(s)
  OBVIOUS
<1>3. \A x \in 1..Len(t) : /\ Len(s) + x \in 1..(Len(s) + Len(t)) /\ ~(Len(s) + x <= Len(s))
                           /\ (Len(s) + x) - Len(s) = x
  OBVIOUS
<1> QED BY <1>1, <1>2, <1>3

LEMMA TuplesAre ==
  ASSUME NEW S
  PROVE  /\ \A a \in S : <<a>> \in Seq(S) /\ Len(<<a>>) > 0 /\ <<a>>[1] = a
         /\ \A a, b, c \in S : <<a, b, c>> \in Seq(S) /\ Len(<<a, b, c>>) > 0 /\ <<a, b, c>>[1] = a
         /\ \A a, b, c, d \in S : /\ <<a, b, c, d>> \in Seq(S) /\ Len(<<a, b, c, d>>) > 0
                                  /\ <<a, b, c, d>>[1] = a
  OBVIOUS

LEMMA HidMscDfuMtpBtPlans ==
  ASSUME NEW p, p \in hid_build \cup msc_build \cup dfu_build \cup mtp_build \cup bt_build
  PROVE  IsPlan(p)
<1>1. SUFFICES p \in Seq(Simple) /\ Len(p) > 0 /\ p[1] = NewInterface
  BY SimpleIs, SimplePlan
<1>2. \A s, t \in Seq(Simple) : Len(s) > 0 => s \o t \in Seq(Simple) /\ Len(s \o t) > 0 /\ (s \o t)[1] = s[1]
  <2> SUFFICES ASSUME NEW s \in Seq(Simple), NEW t \in Seq(Simple), Len(s) > 0
               PROVE  s \o t \in Seq(Simple) /\ Len(s \o t) > 0 /\ (s \o t)[1] = s[1]
    OBVIOUS
  <2>1. /\ s \o t \in Seq(Simple) /\ Len(s \o t) = Len(s) + Len(t)
        /\ \A x \in 1..Len(s) : (s \o t)[x] = s[x]
    BY PartsAre
  <2>2. Len(s) \in Nat /\ Len(t) \in Nat /\ 1 \in 1..Len(s)
    OBVIOUS
  <2> QED BY <2>1, <2>2
<1>3. <<>> \in Seq(Simple)
  OBVIOUS
<1>4. CASE p \in hid_build
  <2> DEFINE s == <<NewInterface, Desc(9), NewEndpoint(1, "in")>>
  <2>1. PICK t \in {<<>>, <<NewEndpoint(1, "out")>>} : p = s \o t
    BY <1>4 DEF hid_build
  <2>2. t \in Seq(Simple)
    <3>1. <<NewEndpoint(1, "out")>> \in Seq(Simple)
      BY SimpleIs, TuplesAre
    <3> QED BY <1>3, <2>1, <3>1
  <2>3. s \in Seq(Simple) /\ Len(s) > 0 /\ s[1] = NewInterface
    BY SimpleIs
  <2> HIDE DEF s
  <2> QED BY <1>2, <2>1, <2>2, <2>3
<1>5. CASE p \in msc_build
  <2>1. NewEndpoint(2, "in") \in Simple /\ NewEndpoint(1, "out") \in Simple /\ NewInterface \in Simple
    BY SimpleIs
  <2>2. p = <<NewInterface, NewEndpoint(2, "in"), NewEndpoint(1, "out")>>
    BY <1>5 DEF msc_build
  <2> QED BY <2>1, <2>2, TuplesAre
<1>6. CASE p \in dfu_build
  <2>1. PICK t \in {<<>>, <<AltSetting>>} : p = (<<NewInterface>> \o t) \o <<Desc(9)>>
    BY <1>6 DEF dfu_build
  <2>2. t \in Seq(Simple) /\ <<Desc(9)>> \in Seq(Simple)
    <3>1. <<AltSetting>> \in Seq(Simple) /\ <<Desc(9)>> \in Seq(Simple)
      BY SimpleIs, TuplesAre
    <3> QED BY <1>3, <2>1, <3>1
  <2>3. <<NewInterface>> \in Seq(Simple) /\ Len(<<NewInterface>>) > 0 /\ <<NewInterface>>[1] = NewInterface
    BY SimpleIs
  <2>4. LET s == <<NewInterface>> \o t IN s \in Seq(Simple) /\ Len(s) > 0 /\ s[1] = NewInterface
    BY <1>2, <2>2, <2>3
  <2> QED BY <1>2, <2>1, <2>2, <2>4
<1>7. CASE p \in mtp_build
  <2>1. NewEndpoint(1, "out") \in Simple /\ NewEndpoint(1, "in") \in Simple /\ NewEndpoint(2, "in") \in Simple
    BY SimpleIs
  <2>2. p = <<NewInterface, NewEndpoint(1, "out"), NewEndpoint(1, "in"), NewEndpoint(2, "in")>>
    BY <1>7 DEF mtp_build
  <2>3. NewInterface \in Simple
    BY SimpleIs
  <2> QED BY <2>1, <2>2, <2>3, TuplesAre
<1>8. CASE p \in bt_build
  <2> DEFINE sco == <<NewEndpoint(3, "out"), NewEndpoint(3, "in")>>
             s == <<NewInterface, NewEndpoint(1, "in"), NewEndpoint(2, "out"), NewEndpoint(2, "in")>>
  <2>1. PICK t \in {<<>>, ((<<NewInterface>> \o sco) \o <<AltSetting>>) \o sco} : p = s \o t
    BY <1>8 DEF bt_build
  <2>2. sco \in Seq(Simple) /\ <<NewInterface>> \in Seq(Simple) /\ <<AltSetting>> \in Seq(Simple)
    BY SimpleIs
  <2>3. s \in Seq(Simple) /\ Len(s) > 0 /\ s[1] = NewInterface
    BY SimpleIs
  <2> HIDE DEF sco, s
  <2>4. t \in Seq(Simple)
    <3>1. <<NewInterface>> \o sco \in Seq(Simple)
      BY <2>2, PartsAre
    <3>2. (<<NewInterface>> \o sco) \o <<AltSetting>> \in Seq(Simple)
      BY <2>2, <3>1, PartsAre
    <3>3. ((<<NewInterface>> \o sco) \o <<AltSetting>>) \o sco \in Seq(Simple)
      BY <2>2, <3>2, PartsAre
    <3> QED BY <1>3, <2>1, <3>3
  <2> QED BY <1>2, <2>1, <2>3, <2>4
<1> QED BY <1>4, <1>5, <1>6, <1>7, <1>8

LEMMA HeaderIs ==
  ASSUME NEW l \in Nat, NEW t \in Nat, NEW ifs \in SUBSET Nat, NEW d, d = Header(l, t, ifs)
  PROVE  d \in Asked /\ d.k = "cs" /\ d.len = l /\ d.total = t /\ d.ifs = ifs /\ ~d.named /\ d.addr[1] = 0
<1>1. d \in Asked /\ d.k = "cs" /\ d.len = l /\ d.total = t /\ d.ifs = ifs /\ d.named = FALSE
      /\ d.addr = Plain.addr
  BY PlainIs DEF Header, Asked
<1>2. Plain.addr[1] = 0
  BY PlainIs
<1> QED BY <1>1, <1>2

LEMMA AssociateIs ==
  /\ Associate(2) \in Asked /\ Associate(2).k = "iad" /\ Associate(2).total = 0 /\ Associate(2).ifs = {}
  /\ Associate(2).cover = 2
<1>1. Associate(2) \in Asked /\ Associate(2).k = "iad" /\ Associate(2).total = 0 /\ Associate(2).ifs = {}
  BY PlainIs DEF Associate, Asked
<1>2. Associate(2).cover = 2
  BY PlainIs DEF Associate, Asked
<1> QED BY <1>1, <1>2

LEMMA SimpleSays ==
  ASSUME NEW p, NEW N, NEW A, NEW x, p[x] \in Simple, p[x].k = "cs" => N[x] > 0
  PROVE  PlanSays(p, N, A, x)
<1>1. p[x].k # "iad" /\ p[x].total = 0 /\ p[x].ifs = {} /\ ~p[x].named /\ (p[x].k = "cs" => p[x].addr[1] = 0)
  BY DEF Simple
<1> QED BY <1>1 DEF PlanSays

\* Two interfaces, the first with the headers that name both; an association in front on a
\* composite device.
LEMMA CdcPlan ==
  ASSUME NEW p \in cdc_build
  PROVE  IsPlan(p)
<1> DEFINE h1 == Header(5, 0, {1})
           h2 == Header(5, 0, {0, 1})
           s == <<NewInterface, Desc(5), h1, Desc(4), h2, NewEndpoint(2, "in")>>
           t == <<NewInterface, NewEndpoint(1, "in"), NewEndpoint(1, "out")>>
<1>1. PICK i \in {<<Associate(2)>>, <<>>} : p = (i \o s) \o t
  BY DEF cdc_build
<1>2. /\ NewInterface \in Simple /\ Desc(5) \in Simple /\ Desc(4) \in Simple /\ NewEndpoint(2, "in") \in Simple
      /\ NewEndpoint(1, "in") \in Simple /\ NewEndpoint(1, "out") \in Simple
      /\ NewInterface.k = "if" /\ Desc(5).k = "cs" /\ Desc(4).k = "cs" /\ NewEndpoint(2, "in").k = "ep"
      /\ NewEndpoint(1, "in").k = "ep" /\ NewEndpoint(1, "out").k = "ep"
  BY SimpleIs
<1>3. /\ h1 \in Asked /\ h1.k = "cs" /\ h1.total = 0 /\ h1.ifs = {1} /\ ~h1.named /\ h1.addr[1] = 0
      /\ h2 \in Asked /\ h2.k = "cs" /\ h2.total = 0 /\ h2.ifs = {0, 1} /\ ~h2.named /\ h2.addr[1] = 0
  <2>1. {1} \in SUBSET Nat /\ {0, 1} \in SUBSET Nat /\ 0 \in Nat /\ 5 \in Nat
    OBVIOUS
  <2>2. h1 \in Asked /\ h1.k = "cs" /\ h1.total = 0 /\ h1.ifs = {1} /\ ~h1.named /\ h1.addr[1] = 0
    BY <2>1, HeaderIs
  <2>3. h2 \in Asked /\ h2.k = "cs" /\ h2.total = 0 /\ h2.ifs = {0, 1} /\ ~h2.named /\ h2.addr[1] = 0
    BY <2>1, HeaderIs
  <2> QED BY <2>2, <2>3
<1>4. Associate(2) \in Asked
  BY AssociateIs
<1>5. \A d \in Simple : d \in Asked
  BY DEF Simple
<1> HIDE DEF h1, h2
<1>6. s \in Seq(Asked) /\ Len(s) = 6 /\ t \in Seq(Asked) /\ Len(t) = 3
  BY <1>2, <1>3, <1>5
<1>7. i \in Seq(Asked) /\ Len(i) \in {0, 1} /\ (Len(i) = 1 => i[1] = Associate(2))
  <2>1. PICK a \in Asked : a = Associate(2)
    BY <1>4
  <2>2. <<a>> \in Seq(Asked) /\ Len(<<a>>) = 1 /\ <<a>>[1] = a /\ <<>> \in Seq(Asked) /\ Len(<<>>) = 0
    OBVIOUS
  <2>3. i = <<a>> \/ i = <<>>
    BY <1>1, <2>1
  <2>4. CASE i = <<a>>
    <3>1. i \in Seq(Asked) /\ Len(i) = 1 /\ i[1] = a
      BY <2>2, <2>4
    <3> QED BY <2>1, <3>1
  <2>5. CASE i = <<>>
    <3>1. i \in Seq(Asked) /\ Len(i) = 0
      BY <2>2, <2>5
    <3> QED BY <3>1
  <2> QED BY <2>3, <2>4, <2>5
<1>8. PICK o \in {0, 1} : o = Len(i)
  BY <1>7
<1>9. /\ p \in Seq(Asked) /\ Len(p) = o + 9 /\ (o = 1 => p[1] = Associate(2))
      /\ p[o + 1] = NewInterface /\ p[o + 2] = Desc(5) /\ p[o + 3] = h1 /\ p[o + 4] = Desc(4) /\ p[o + 5] = h2
      /\ p[o + 6] = NewEndpoint(2, "in")
      /\ p[o + 7] = NewInterface /\ p[o + 8] = NewEndpoint(1, "in") /\ p[o + 9] = NewEndpoint(1, "out")
  <2> DEFINE q == i \o s
  <2>1. /\ q \in Seq(Asked) /\ Len(q) = o + 6 /\ (o = 1 => q[1] = Associate(2))
        /\ \A x \in 1..6 : q[o + x] = s[x]
    <3>1. /\ q \in Seq(Asked) /\ Len(q) = Len(i) + Len(s)
          /\ \A x \in 1..Len(i) : q[x] = i[x]
          /\ \A x \in 1..Len(s) : q[Len(i) + x] = s[x]
      BY <1>6, <1>7, PartsAre
    <3>2. Len(s) = 6
      BY <1>6
    <3> HIDE DEF q, s
    <3> QED BY <1>7, <1>8, <3>1, <3>2
  <2>2. /\ q \o t \in Seq(Asked) /\ Len(q \o t) = Len(q) + Len(t)
        /\ \A x \in 1..Len(q) : (q \o t)[x] = q[x]
        /\ \A x \in 1..Len(t) : (q \o t)[Len(q) + x] = t[x]
    <3>1. t \in Seq(Asked)
      BY <1>6
    <3> HIDE DEF q, s, t
    <3>2. q \in Seq(Asked)
      BY <2>1
    <3> QED BY <3>1, <3>2, PartsAre
  <2>3. p = q \o t
    BY <1>1
  <2> HIDE DEF q
  <2>4. \A x \in 1..3 : p[(o + 6) + x] = t[x]
    BY <1>6, <2>1, <2>2, <2>3
  <2>5. (o + 6) + 1 = o + 7 /\ (o + 6) + 2 = o + 8 /\ (o + 6) + 3 = o + 9
    OBVIOUS
  <2>6. p[o + 7] = NewInterface /\ p[o + 8] = NewEndpoint(1, "in") /\ p[o + 9] = NewEndpoint(1, "out")
    BY <2>4, <2>5
  <2>7. \A x \in 1..6 : p[o + x] = s[x]
    <3>1. \A x \in 1..6 : o + x \in 1..(o + 6)
      OBVIOUS
    <3> QED BY <2>1, <2>2, <2>3, <3>1
  <2>8. /\ p[o + 1] = NewInterface /\ p[o + 2] = Desc(5) /\ p[o + 3] = h1 /\ p[o + 4] = Desc(4) /\ p[o + 5] = h2
        /\ p[o + 6] = NewEndpoint(2, "in")
    BY <2>7
  <2>9. o = 1 => p[1] = Associate(2)
    BY <2>1, <2>2, <2>3
  <2>10. p \in Seq(Asked) /\ Len(p) = o + 9
    BY <1>6, <2>1, <2>2, <2>3
  <2> QED BY <2>6, <2>8, <2>9, <2>10
<1> DEFINE N == [x \in 0..(o + 9) |-> IF x <= o THEN 0 ELSE IF x <= o + 6 THEN 1 ELSE 2]
           A == [x \in 0..(o + 9) |-> 0]
<1>10. \A x \in 1..(o + 9) : \/ (o = 1 /\ x = 1) \/ x = o + 1 \/ x = o + 2 \/ x = o + 3 \/ x = o + 4 \/ x = o + 5
                             \/ x = o + 6 \/ x = o + 7 \/ x = o + 8 \/ x = o + 9
  OBVIOUS
<1>11. /\ o = 1 => p[1].k = "iad"
       /\ p[o + 1].k = "if" /\ p[o + 2].k = "cs" /\ p[o + 3].k = "cs" /\ p[o + 4].k = "cs" /\ p[o + 5].k = "cs"
       /\ p[o + 6].k = "ep" /\ p[o + 7].k = "if" /\ p[o + 8].k = "ep" /\ p[o + 9].k = "ep"
  BY <1>2, <1>3, <1>9, AssociateIs
<1>12. Numbers(p, N, A)
  <2>1. N \in [0..Len(p) -> Nat] /\ A \in [0..Len(p) -> Nat] /\ N[0] = 0
    BY <1>9
  <2>2. ASSUME NEW x \in 1..Len(p)
        PROVE  /\ N[x] = N[x - 1] + (IF p[x].k = "if" THEN 1 ELSE 0)
               /\ N[x] > 0 => A[x] = IF p[x].k = "if" THEN 0 ELSE A[x - 1] + (IF p[x].k = "alt" THEN 1 ELSE 0)
    <3>1. x \in 0..(o + 9) /\ x - 1 \in 0..(o + 9)
      BY <1>9
    <3>2. A[x] = 0 /\ A[x - 1] = 0 /\ p[x].k # "alt"
      BY <1>9, <1>10, <1>11, <3>1
    <3>3. N[x] = N[x - 1] + (IF p[x].k = "if" THEN 1 ELSE 0)
      BY <1>9, <1>10, <1>11, <3>1
    <3> QED BY <3>2, <3>3
  <2> QED BY <2>1, <2>2 DEF Numbers
<1>13. ASSUME NEW x \in 1..Len(p) PROVE PlanSays(p, N, A, x)
  <2>1. x \in 1..(o + 9)
    BY <1>9
  <2>2. N[x] > 0 \/ (o = 1 /\ x = 1)
    BY <1>10, <2>1
  <2>3. N[o + 1] = 1 /\ N[o + 7] = 2 /\ o + 1 \in 1..Len(p) /\ o + 7 \in 1..Len(p)
    BY <1>9
  <2> HIDE DEF N, A
  <2>4. CASE x \in {o + 3, o + 5}
    <3>1. p[x].k = "cs" /\ p[x].total = 0 /\ p[x].ifs \subseteq {0, 1} /\ ~p[x].named /\ p[x].addr[1] = 0
      BY <1>3, <1>9, <2>4
    <3>2. \A h \in {0, 1} : \E y \in 1..Len(p) : p[y].k = "if" /\ N[y] = h + 1
      <4>1. /\ o + 1 \in 1..Len(p) /\ p[o + 1].k = "if" /\ N[o + 1] = 0 + 1
            /\ o + 7 \in 1..Len(p) /\ p[o + 7].k = "if" /\ N[o + 7] = 1 + 1
        BY <1>11, <2>3
      <4> QED BY <4>1, Zenon
    <3> QED BY <2>2, <2>4, <3>1, <3>2 DEF PlanSays
  <2>5. CASE o = 1 /\ x = 1
    <3>1. p[x].k = "iad" /\ p[x].total = 0 /\ p[x].ifs = {} /\ p[x].cover = 2
      BY <1>9, <2>5, AssociateIs
    <3>2. {y \in 1..Len(p) : p[y].k = "if"} = {o + 1, o + 7}
      <4>1. \A y \in 1..Len(p) : p[y].k = "if" <=> y = o + 1 \/ y = o + 7
        BY <1>9, <1>10, <1>11
      <4> QED BY <2>3, <4>1
    <3> QED BY <2>3, <3>1, <3>2 DEF PlanSays
  <2>6. CASE x \notin {o + 3, o + 5} /\ ~(o = 1 /\ x = 1)
    <3>1. p[x] \in Simple
      BY <1>2, <1>9, <1>10, <2>1, <2>6
    <3> QED BY <2>2, <2>6, <3>1, SimpleSays
  <2> QED BY <2>4, <2>5, <2>6
<1> HIDE DEF N, A
<1> QED
  BY <1>9, <1>12, <1>13 DEF IsPlan

\* A control interface whose header counts its terminals and units and names the two
\* streaming interfaces behind it.
LEMMA UacPlan ==
  ASSUME NEW p \in uac_build
  PROVE  IsPlan(p)
<1> DEFINE h == Header(10, 71, {1, 2})
           s == <<NewInterface, h, Desc(12), Desc(10), Desc(9), Desc(12), Desc(9), Desc(9)>>
           t(n, dir) == <<NewInterface, AltSetting, Desc(7), Desc(11), NewEndpoint(n, dir), Desc(7)>>
<1>1. p = (s \o t(1, "out")) \o t(2, "in")
  <2>1. 10 + 12 + 10 + 9 + 12 + 9 + 9 = 71
    OBVIOUS
  <2> QED BY <2>1 DEF uac_build
<1>2. /\ NewInterface \in Simple /\ NewInterface.k = "if" /\ AltSetting \in Simple /\ AltSetting.k = "alt"
      /\ NewEndpoint(1, "out") \in Simple /\ NewEndpoint(1, "out").k = "ep"
      /\ NewEndpoint(2, "in") \in Simple /\ NewEndpoint(2, "in").k = "ep"
      /\ \A l \in {7, 9, 10, 11, 12} : Desc(l) \in Simple /\ Desc(l).k = "cs" /\ Desc(l).len = l
  BY SimpleIs
<1>3. h \in Asked /\ h.k = "cs" /\ h.len = 10 /\ h.total = 71 /\ h.ifs = {1, 2} /\ ~h.named /\ h.addr[1] = 0
  <2>1. {1, 2} \in SUBSET Nat /\ 10 \in Nat /\ 71 \in Nat
    OBVIOUS
  <2> QED BY <2>1, HeaderIs
<1>4. \A d \in Simple : d \in Asked
  BY DEF Simple
<1> HIDE DEF h
<1>5. /\ s \in Seq(Asked) /\ Len(s) = 8 /\ s[1] = NewInterface /\ s[2] = h /\ s[3] = Desc(12) /\ s[4] = Desc(10)
      /\ s[5] = Desc(9) /\ s[6] = Desc(12) /\ s[7] = Desc(9) /\ s[8] = Desc(9)
  BY <1>2, <1>3, <1>4
<1>6. ASSUME NEW n, NEW dir, NewEndpoint(n, dir) \in Simple
      PROVE  LET u == t(n, dir)
             IN /\ u \in Seq(Asked) /\ Len(u) = 6 /\ u[1] = NewInterface /\ u[2] = AltSetting /\ u[3] = Desc(7)
                /\ u[4] = Desc(11) /\ u[5] = NewEndpoint(n, dir) /\ u[6] = Desc(7)
  <2>1. NewEndpoint(n, dir) \in Asked /\ NewInterface \in Asked /\ AltSetting \in Asked /\ Desc(7) \in Asked /\ Desc(11) \in Asked
    BY <1>2, <1>4, <1>6
  <2> QED BY <2>1
<1>7. PICK a, b : a = t(1, "out") /\ b = t(2, "in")
  OBVIOUS
<1>8. /\ a \in Seq(Asked) /\ Len(a) = 6 /\ a[1] = NewInterface /\ a[2] = AltSetting /\ a[3] = Desc(7)
      /\ a[4] = Desc(11) /\ a[5] = NewEndpoint(1, "out") /\ a[6] = Desc(7)
  BY <1>2, <1>6, <1>7
<1>9. /\ b \in Seq(Asked) /\ Len(b) = 6 /\ b[1] = NewInterface /\ b[2] = AltSetting /\ b[3] = Desc(7)
      /\ b[4] = Desc(11) /\ b[5] = NewEndpoint(2, "in") /\ b[6] = Desc(7)
  BY <1>2, <1>6, <1>7
<1>10. p = (s \o a) \o b
  BY <1>1, <1>7
<1> HIDE DEF s, t
<1>11. /\ p \in Seq(Asked) /\ Len(p) = 20
       /\ \A x \in 1..8 : p[x] = s[x]
       /\ \A x \in 1..6 : p[8 + x] = a[x]
       /\ \A x \in 1..6 : p[14 + x] = b[x]
  <2>1. PICK q : q = s \o a
    OBVIOUS
  <2>2. /\ q \in Seq(Asked) /\ Len(q) = 14
        /\ \A x \in 1..8 : q[x] = s[x]
        /\ \A x \in 1..6 : q[8 + x] = a[x]
    <3>1. /\ s \o a \in Seq(Asked) /\ Len(s \o a) = Len(s) + Len(a)
          /\ \A x \in 1..Len(s) : (s \o a)[x] = s[x]
          /\ \A x \in 1..Len(a) : (s \o a)[Len(s) + x] = a[x]
      <4>1. s \in Seq(Asked) /\ a \in Seq(Asked)
        BY <1>5, <1>8
      <4> QED BY <4>1, PartsAre
    <3>2. Len(s) = 8 /\ Len(a) = 6
      BY <1>5, <1>8
    <3>3. /\ \A x \in 1..8 : (s \o a)[x] = s[x]
          /\ \A x \in 1..6 : (s \o a)[8 + x] = a[x]
      BY <3>1, <3>2, Zenon
    <3>4. Len(s \o a) = 14
      BY <3>1, <3>2
    <3> QED BY <2>1, <3>1, <3>3, <3>4, Zenon
  <2>3. /\ p \in Seq(Asked) /\ Len(p) = 20
        /\ \A x \in 1..14 : p[x] = q[x]
        /\ \A x \in 1..6 : p[14 + x] = b[x]
    <3>1. /\ q \o b \in Seq(Asked) /\ Len(q \o b) = Len(q) + Len(b)
          /\ \A x \in 1..Len(q) : (q \o b)[x] = q[x]
          /\ \A x \in 1..Len(b) : (q \o b)[Len(q) + x] = b[x]
      <4>1. q \in Seq(Asked) /\ b \in Seq(Asked)
        BY <1>9, <2>2
      <4> QED BY <4>1, PartsAre
    <3>2. Len(q) = 14 /\ Len(b) = 6 /\ p = q \o b
      BY <1>9, <1>10, <2>1, <2>2
    <3>3. /\ \A x \in 1..14 : (q \o b)[x] = q[x]
          /\ \A x \in 1..6 : (q \o b)[14 + x] = b[x]
      BY <3>1, <3>2, Zenon
    <3>4. Len(q \o b) = 20
      BY <3>1, <3>2
    <3> QED BY <3>1, <3>2, <3>3, <3>4, Zenon
  <2>4. \A x \in 1..8 : x \in 1..14
    OBVIOUS
  <2>5. \A x \in 1..6 : 8 + x \in 1..14
    OBVIOUS
  <2> QED BY <2>2, <2>3, <2>4, <2>5
<1>12. /\ p[1] = NewInterface /\ p[2] = h /\ p[3] = Desc(12) /\ p[4] = Desc(10) /\ p[5] = Desc(9)
       /\ p[6] = Desc(12) /\ p[7] = Desc(9) /\ p[8] = Desc(9)
  BY <1>5, <1>11
<1>13. /\ p[9] = NewInterface /\ p[10] = AltSetting /\ p[11] = Desc(7) /\ p[12] = Desc(11)
       /\ p[13] = NewEndpoint(1, "out") /\ p[14] = Desc(7)
  <2>1. /\ p[8 + 1] = a[1] /\ p[8 + 2] = a[2] /\ p[8 + 3] = a[3] /\ p[8 + 4] = a[4]
        /\ p[8 + 5] = a[5] /\ p[8 + 6] = a[6]
    BY <1>11
  <2> QED BY <1>8, <2>1
<1>14. /\ p[15] = NewInterface /\ p[16] = AltSetting /\ p[17] = Desc(7) /\ p[18] = Desc(11)
       /\ p[19] = NewEndpoint(2, "in") /\ p[20] = Desc(7)
  <2>1. /\ p[14 + 1] = b[1] /\ p[14 + 2] = b[2] /\ p[14 + 3] = b[3] /\ p[14 + 4] = b[4]
        /\ p[14 + 5] = b[5] /\ p[14 + 6] = b[6]
    BY <1>11
  <2> QED BY <1>9, <2>1
<1>15. \A x \in 1..20 : \/ x = 1 \/ x = 2 \/ x = 3 \/ x = 4 \/ x = 5 \/ x = 6 \/ x = 7 \/ x = 8 \/ x = 9 \/ x = 10
                        \/ x = 11 \/ x = 12 \/ x = 13 \/ x = 14 \/ x = 15 \/ x = 16 \/ x = 17 \/ x = 18
                        \/ x = 19 \/ x = 20
  OBVIOUS
<1>16. /\ \A x \in 1..20 : p[x].k = "if" <=> x \in {1, 9, 15}
       /\ \A x \in 1..20 : p[x].k = "alt" <=> x \in {10, 16}
       /\ \A x \in 1..20 : x # 2 => p[x] \in Simple
       /\ p[2].k = "cs" /\ p[2].len = 10 /\ p[3].k = "cs" /\ p[3].len = 12 /\ p[4].k = "cs" /\ p[4].len = 10
       /\ p[5].k = "cs" /\ p[5].len = 9 /\ p[6].k = "cs" /\ p[6].len = 12 /\ p[7].k = "cs" /\ p[7].len = 9
       /\ p[8].k = "cs" /\ p[8].len = 9
  <2>1. /\ p[2].k = "cs" /\ p[2].len = 10 /\ p[3].k = "cs" /\ p[3].len = 12 /\ p[4].k = "cs" /\ p[4].len = 10
        /\ p[5].k = "cs" /\ p[5].len = 9 /\ p[6].k = "cs" /\ p[6].len = 12 /\ p[7].k = "cs" /\ p[7].len = 9
        /\ p[8].k = "cs" /\ p[8].len = 9
    BY <1>2, <1>3, <1>12
  <2>2. /\ p[1].k = "if" /\ p[9].k = "if" /\ p[15].k = "if" /\ p[10].k = "alt" /\ p[16].k = "alt"
        /\ p[11].k = "cs" /\ p[12].k = "cs" /\ p[13].k = "ep" /\ p[14].k = "cs"
        /\ p[17].k = "cs" /\ p[18].k = "cs" /\ p[19].k = "ep" /\ p[20].k = "cs"
    BY <1>2, <1>12, <1>13, <1>14
  <2>3. \A x \in 1..20 : x # 2 => p[x] \in Simple
    BY <1>2, <1>12, <1>13, <1>14, <1>15
  <2>4. \A x \in 1..20 : p[x].k = "if" <=> x \in {1, 9, 15}
    BY <1>15, <2>1, <2>2
  <2>5. \A x \in 1..20 : p[x].k = "alt" <=> x \in {10, 16}
    BY <1>15, <2>1, <2>2
  <2> QED BY <2>1, <2>3, <2>4, <2>5
<1> DEFINE N == [x \in 0..20 |-> IF x = 0 THEN 0 ELSE IF x <= 8 THEN 1 ELSE IF x <= 14 THEN 2 ELSE 3]
           A == [x \in 0..20 |-> IF x \in (10..14) \cup (16..20) THEN 1 ELSE 0]
           S == [x \in 0..20 |-> IF x <= 1 THEN 0 ELSE IF x = 2 THEN 10 ELSE IF x = 3 THEN 22 ELSE IF x = 4 THEN 32
                                 ELSE IF x = 5 THEN 41 ELSE IF x = 6 THEN 53 ELSE IF x = 7 THEN 62 ELSE 71]
<1>17. \A x \in 1..20 : x \in 0..20 /\ x - 1 \in 0..20
  OBVIOUS
<1>18. Numbers(p, N, A)
  <2>1. N \in [0..Len(p) -> Nat] /\ A \in [0..Len(p) -> Nat] /\ N[0] = 0
    BY <1>11
  <2>2. ASSUME NEW x \in 1..Len(p)
        PROVE  /\ N[x] = N[x - 1] + (IF p[x].k = "if" THEN 1 ELSE 0)
               /\ A[x] = IF p[x].k = "if" THEN 0 ELSE A[x - 1] + (IF p[x].k = "alt" THEN 1 ELSE 0)
    <3>1. x \in 1..20 /\ x \in 0..20 /\ x - 1 \in 0..20
      BY <1>11, <1>17
    <3>2. /\ N[x] = IF x = 0 THEN 0 ELSE IF x <= 8 THEN 1 ELSE IF x <= 14 THEN 2 ELSE 3
          /\ N[x - 1] = IF x - 1 = 0 THEN 0 ELSE IF x - 1 <= 8 THEN 1 ELSE IF x - 1 <= 14 THEN 2 ELSE 3
          /\ A[x] = IF x \in (10..14) \cup (16..20) THEN 1 ELSE 0
          /\ A[x - 1] = IF x - 1 \in (10..14) \cup (16..20) THEN 1 ELSE 0
      BY <3>1
    <3> HIDE DEF N, A
    <3>3. N[x] = N[x - 1] + (IF x \in {1, 9, 15} THEN 1 ELSE 0)
      BY <3>1, <3>2
    <3>4. A[x] = IF x \in {1, 9, 15} THEN 0 ELSE A[x - 1] + (IF x \in {10, 16} THEN 1 ELSE 0)
      BY <3>1, <3>2
    <3> QED BY <1>16, <3>1, <3>3, <3>4
  <2> HIDE DEF N, A
  <2> QED BY <2>1, <2>2 DEF Numbers
<1>19. IsTotal(p, N, A, 2, S)
  <2>1. S \in [0..Len(p) -> Nat] /\ S[0] = 0 /\ S[Len(p)] = 71 /\ p[2].total = 71
    BY <1>3, <1>11, <1>12
  <2>2. ASSUME NEW y \in 1..Len(p)
        PROVE  S[y] = S[y - 1] + (IF p[y].k = "cs" /\ N[y] = N[2] /\ A[y] = A[2] THEN p[y].len ELSE 0)
    <3>1. y \in 1..20 /\ y \in 0..20 /\ y - 1 \in 0..20
      BY <1>11, <1>17
    <3>2. /\ N[2] = 1 /\ A[2] = 0 /\ (y <= 8 => N[y] = 1 /\ A[y] = 0) /\ (y > 8 => N[y] # 1)
          /\ (y > 8 => S[y] = 71 /\ S[y - 1] = 71)
      <4>1. N[2] = 1 /\ A[2] = 0
        OBVIOUS
      <4>2. y <= 8 => N[y] = 1
        <5>1. N[y] = IF y = 0 THEN 0 ELSE IF y <= 8 THEN 1 ELSE IF y <= 14 THEN 2 ELSE 3
          BY <3>1
        <5> QED BY <3>1, <5>1
      <4>3. y > 8 => N[y] # 1
        <5>1. N[y] = IF y = 0 THEN 0 ELSE IF y <= 8 THEN 1 ELSE IF y <= 14 THEN 2 ELSE 3
          BY <3>1
        <5> QED BY <3>1, <5>1
      <4>4. y <= 8 => A[y] = 0
        <5>1. y <= 8 => y \notin (10..14) \cup (16..20)
          BY <3>1
        <5>2. A[y] = IF y \in (10..14) \cup (16..20) THEN 1 ELSE 0
          BY <3>1
        <5> HIDE DEF A
        <5> QED BY <5>1, <5>2
      <4>5. \A z \in 0..20 : z >= 8 => S[z] = 71
        OBVIOUS
      <4>6. y > 8 => y >= 8 /\ y - 1 >= 8
        BY <3>1
      <4> HIDE DEF N, A, S
      <4> QED BY <3>1, <4>1, <4>2, <4>3, <4>4, <4>5, <4>6
    <3>3. /\ S[0] = 0 /\ S[1] = 0 /\ S[2] = 10 /\ S[3] = 22 /\ S[4] = 32 /\ S[5] = 41 /\ S[6] = 53 /\ S[7] = 62
          /\ S[8] = 71
      OBVIOUS
    <3> HIDE DEF N, A, S
    <3>4. y = 1 \/ y = 2 \/ y = 3 \/ y = 4 \/ y = 5 \/ y = 6 \/ y = 7 \/ y = 8 \/ y > 8
      BY <3>1
    <3>5. CASE y = 1
      <4>1. p[1].k = "if" /\ y - 1 = 0
        BY <1>16, <3>5
      <4> QED BY <3>3, <3>5, <4>1
    <3>6. CASE y > 8
      BY <3>2, <3>6
    <3>7. CASE y \in 2..8
      <4>1. p[y].k = "cs" /\ N[y] = N[2] /\ A[y] = A[2]
        BY <1>16, <3>2, <3>4, <3>7
      <4>2. S[y] = S[y - 1] + p[y].len
        <5>1. /\ S[2] = S[2 - 1] + p[2].len /\ S[3] = S[3 - 1] + p[3].len /\ S[4] = S[4 - 1] + p[4].len
              /\ S[5] = S[5 - 1] + p[5].len /\ S[6] = S[6 - 1] + p[6].len /\ S[7] = S[7 - 1] + p[7].len
              /\ S[8] = S[8 - 1] + p[8].len
          <6>1. /\ p[2].len = 10 /\ p[3].len = 12 /\ p[4].len = 10 /\ p[5].len = 9 /\ p[6].len = 12
                /\ p[7].len = 9 /\ p[8].len = 9
            BY <1>16
          <6>2. 2 - 1 = 1 /\ 3 - 1 = 2 /\ 4 - 1 = 3 /\ 5 - 1 = 4 /\ 6 - 1 = 5 /\ 7 - 1 = 6 /\ 8 - 1 = 7
            OBVIOUS
          <6>3. /\ S[2] = S[1] + p[2].len /\ S[3] = S[2] + p[3].len /\ S[4] = S[3] + p[4].len
                /\ S[5] = S[4] + p[5].len /\ S[6] = S[5] + p[6].len /\ S[7] = S[6] + p[7].len
                /\ S[8] = S[7] + p[8].len
            BY <3>3, <6>1
          <6> QED BY <6>2, <6>3
        <5>2. y = 2 \/ y = 3 \/ y = 4 \/ y = 5 \/ y = 6 \/ y = 7 \/ y = 8
          BY <3>7
        <5> QED BY <5>1, <5>2, Zenon
      <4> QED BY <4>1, <4>2
    <3> QED BY <3>4, <3>5, <3>6, <3>7
  <2> HIDE DEF N, A, S
  <2> QED BY <2>1, <2>2 DEF IsTotal
<1>20. ASSUME NEW x \in 1..Len(p) PROVE PlanSays(p, N, A, x)
  <2>1. x \in 1..20 /\ x \in 0..20
    BY <1>11, <1>17
  <2>2. N[x] > 0
    BY <2>1
  <2>3. CASE x # 2
    <3> HIDE DEF N, A
    <3> QED BY <1>16, <2>1, <2>2, <2>3, SimpleSays
  <2>4. CASE x = 2
    <3>1. p[x].k = "cs" /\ p[x].ifs = {1, 2} /\ ~p[x].named /\ p[x].addr[1] = 0
      BY <1>3, <1>12, <2>4
    <3>2. N[9] = 2 /\ N[15] = 3
      OBVIOUS
    <3> HIDE DEF N, A, S
    <3>3. \A g \in {1, 2} : \E y \in 1..Len(p) : p[y].k = "if" /\ N[y] = g + 1
      <4>1. 9 \in 1..Len(p) /\ 15 \in 1..Len(p) /\ p[9].k = "if" /\ p[15].k = "if"
        BY <1>11, <1>16
      <4> QED BY <3>2, <4>1
    <3> QED BY <1>19, <2>2, <2>4, <3>1, <3>3 DEF PlanSays
  <2> QED BY <2>3, <2>4
<1> HIDE DEF N, A
<1> QED
  BY <1>11, <1>18, <1>20 DEF IsPlan


\* The descriptors of a camera's formats: their lengths added up, and what vs_total makes of them.
IsFormats(mid, k, c, G, offer) ==
  /\ k \in {3, 6} /\ c \in {1, 2} /\ mid \in Seq(Simple) /\ Len(mid) = k
  /\ G \in [0..k -> Nat] /\ G[0] = 0
  /\ \A j \in 1..k : mid[j].k = "cs" /\ G[j] = G[j - 1] + mid[j].len
  /\ Cardinality(offer) = c /\ vs_total(offer) = (13 + c) + G[k]

\* The formats of one kind.
LEMMA FormatIs ==
  ASSUME NEW l \in {11, 27}, NEW t, t = <<Desc(l), Desc(30), Desc(6)>>
  PROVE  /\ t \in Seq(Simple) /\ Len(t) = 3 /\ \A j \in 1..3 : t[j].k = "cs"
         /\ t[1].len = l /\ t[2].len = 30 /\ t[3].len = 6
<1>1. /\ \A i \in {l, 30, 6} : Desc(i) \in Simple /\ Desc(i).k = "cs" /\ Desc(i).len = i
  BY SimpleIs
<1>2. PICK a \in Simple, b \in Simple, c \in Simple : a = Desc(l) /\ b = Desc(30) /\ c = Desc(6)
  BY <1>1
<1>3. t = <<a, b, c>> /\ a.k = "cs" /\ b.k = "cs" /\ c.k = "cs" /\ a.len = l /\ b.len = 30 /\ c.len = 6
  BY <1>1, <1>2
<1>4. t \in Seq(Simple) /\ Len(t) = 3 /\ t[1] = a /\ t[2] = b /\ t[3] = c
  BY <1>3
<1>5. \A j \in 1..3 : j = 1 \/ j = 2 \/ j = 3
  OBVIOUS
<1> QED BY <1>3, <1>4, <1>5

LEMMA OneFormat ==
  ASSUME NEW l \in {11, 27}, NEW t, t = <<Desc(l), Desc(30), Desc(6)>>, NEW offer, Cardinality(offer) = 1,
         vs_total(offer) = (13 + 1) + (l + 36)
  PROVE  \E G : IsFormats(t, 3, 1, G, offer)
<1> DEFINE G == [j \in 0..3 |-> IF j = 0 THEN 0 ELSE IF j = 1 THEN l ELSE IF j = 2 THEN l + 30 ELSE l + 36]
<1>1. /\ t \in Seq(Simple) /\ Len(t) = 3 /\ \A j \in 1..3 : t[j].k = "cs"
      /\ t[1].len = l /\ t[2].len = 30 /\ t[3].len = 6
  BY FormatIs
<1>2. /\ G \in [0..3 -> Nat] /\ G[0] = 0 /\ G[1] = l /\ G[2] = l + 30 /\ G[3] = l + 36
  OBVIOUS
<1> HIDE DEF G
<1>3. ASSUME NEW j \in 1..3 PROVE t[j].k = "cs" /\ G[j] = G[j - 1] + t[j].len
  <2>1. CASE j = 1
    <3>1. j - 1 = 0
      BY <2>1
    <3> QED BY <1>1, <1>2, <2>1, <3>1
  <2>2. CASE j = 2
    <3>1. j - 1 = 1
      BY <2>2
    <3> QED BY <1>1, <1>2, <2>2, <3>1
  <2>3. CASE j = 3
    <3>1. j - 1 = 2
      BY <2>3
    <3> QED BY <1>1, <1>2, <2>3, <3>1
  <2> QED BY <2>1, <2>2, <2>3
<1>4. Cardinality(offer) = 1 /\ vs_total(offer) = (13 + 1) + G[3]
  BY <1>2
<1> QED BY <1>1, <1>2, <1>3, <1>4 DEF IsFormats

LEMMA FormatsAre ==
  ASSUME NEW offer \in Offers
  PROVE  LET mid == (IF "yuyv" \in offer THEN FormatDescs("yuyv") ELSE <<>>)
                    \o (IF "mjpeg" \in offer THEN FormatDescs("mjpeg") ELSE <<>>)
         IN \E k, c, G : IsFormats(mid, k, c, G, offer)
<1> DEFINE y == <<Desc(27), Desc(30), Desc(6)>>
           m == <<Desc(11), Desc(30), Desc(6)>>
           Y == IF "yuyv" \in offer THEN y ELSE <<>>
           M == IF "mjpeg" \in offer THEN m ELSE <<>>
<1>1. SUFFICES \E k, c, G : IsFormats(Y \o M, k, c, G, offer)
  BY DEF FormatDescs
<1>2. /\ y \in Seq(Simple) /\ Len(y) = 3 /\ \A j \in 1..3 : y[j].k = "cs"
      /\ y[1].len = 27 /\ y[2].len = 30 /\ y[3].len = 6
  <2>1. PICK t : t = y
    OBVIOUS
  <2>2. 27 \in {11, 27}
    OBVIOUS
  <2> QED BY <2>1, <2>2, FormatIs
<1>3. /\ m \in Seq(Simple) /\ Len(m) = 3 /\ \A j \in 1..3 : m[j].k = "cs"
      /\ m[1].len = 11 /\ m[2].len = 30 /\ m[3].len = 6
  <2>1. PICK t : t = m
    OBVIOUS
  <2>2. 11 \in {11, 27}
    OBVIOUS
  <2> QED BY <2>1, <2>2, FormatIs
<1>4. offer = {"yuyv"} \/ offer = {"mjpeg"} \/ offer = {"yuyv", "mjpeg"}
  <2>1. offer # {} /\ \A f \in offer : f = "yuyv" \/ f = "mjpeg"
    <3>1. offer \in SUBSET {"yuyv", "mjpeg"} /\ offer \notin {{}}
      BY Zenon DEF Offers
    <3>2. offer # {}
      BY <3>1, Zenon
    <3>3. \A f \in offer : f \in {"yuyv", "mjpeg"}
      BY <3>1, Zenon
    <3> QED BY <3>2, <3>3
  <2>2. CASE "yuyv" \in offer /\ "mjpeg" \in offer
    BY <2>1, <2>2
  <2>3. CASE "yuyv" \notin offer
    BY <2>1, <2>3
  <2>4. CASE "mjpeg" \notin offer
    BY <2>1, <2>4
  <2> QED BY <2>2, <2>3, <2>4
<1>5. CASE offer = {"yuyv"}
  <2>1. Cardinality(offer) = 1
    BY <1>5, FS_Singleton
  <2>2. vs_total(offer) = (13 + 1) + (27 + 36)
    BY <1>5, <2>1 DEF vs_total
  <2>3. \E G : IsFormats(y, 3, 1, G, offer)
    <3>1. 27 \in {11, 27}
      OBVIOUS
    <3>2. PICK t : t = y
      OBVIOUS
    <3> QED BY <2>1, <2>2, <3>1, <3>2, OneFormat
  <2>4. Y \o M = y
    <3>1. Y = y /\ M = <<>>
      BY <1>5
    <3> HIDE DEF y, Y, M
    <3> QED BY <1>2, <3>1, ConcatEmptySeq
  <2> HIDE DEF y, Y, M
  <2> QED BY <2>3, <2>4
<1>6. CASE offer = {"mjpeg"}
  <2>1. Cardinality(offer) = 1
    BY <1>6, FS_Singleton
  <2>2. vs_total(offer) = (13 + 1) + (11 + 36)
    BY <1>6, <2>1 DEF vs_total
  <2>3. \E G : IsFormats(m, 3, 1, G, offer)
    <3>1. 11 \in {11, 27}
      OBVIOUS
    <3>2. PICK t : t = m
      OBVIOUS
    <3> QED BY <2>1, <2>2, <3>1, <3>2, OneFormat
  <2>4. Y \o M = m
    <3>1. Y = <<>> /\ M = m
      BY <1>6
    <3> HIDE DEF m, Y, M
    <3> QED BY <1>3, <3>1, ConcatEmptySeq
  <2> HIDE DEF m, Y, M
  <2> QED BY <2>3, <2>4
<1>7. CASE offer = {"yuyv", "mjpeg"}
  <2>1. Cardinality(offer) = 2
    <3>1. Cardinality({"yuyv"}) = 1 /\ IsFiniteSet({"yuyv"})
      BY FS_Singleton
    <3>2. offer = {"yuyv"} \cup {"mjpeg"} /\ "mjpeg" \notin {"yuyv"}
      BY <1>7
    <3> QED BY <3>1, <3>2, FS_AddElement
  <2>2. vs_total(offer) = (13 + 2) + 110
    BY <1>7, <2>1 DEF vs_total
  <2> DEFINE t == y \o m
             G == [j \in 0..6 |-> IF j = 0 THEN 0 ELSE IF j = 1 THEN 27 ELSE IF j = 2 THEN 57 ELSE IF j = 3 THEN 63
                                  ELSE IF j = 4 THEN 74 ELSE IF j = 5 THEN 104 ELSE 110]
  <2>3. Y \o M = t
    <3>1. Y = y /\ M = m
      BY <1>7
    <3> HIDE DEF y, m, Y, M
    <3> QED BY <3>1
  <2> HIDE DEF y, m, Y, M
  <2>4. /\ t \in Seq(Simple) /\ Len(t) = 6
        /\ t[1] = y[1] /\ t[2] = y[2] /\ t[3] = y[3] /\ t[4] = m[1] /\ t[5] = m[2] /\ t[6] = m[3]
    <3>1. /\ t \in Seq(Simple) /\ Len(t) = Len(y) + Len(m)
          /\ \A x \in 1..Len(y) : t[x] = y[x]
          /\ \A x \in 1..Len(m) : t[Len(y) + x] = m[x]
      <4>1. y \in Seq(Simple) /\ m \in Seq(Simple)
        BY <1>2, <1>3
      <4> QED BY <4>1, PartsAre
    <3>2. \A x \in 1..3 : t[x] = y[x] /\ t[3 + x] = m[x]
      BY <1>2, <1>3, <3>1, Zenon
    <3> HIDE DEF t
    <3>3. Len(t) = 6
      <4>1. Len(y) = 3 /\ Len(m) = 3
        BY <1>2, <1>3
      <4> QED BY <3>1, <4>1
    <3>4. t[3 + 1] = m[1] /\ t[3 + 2] = m[2] /\ t[3 + 3] = m[3] /\ t[1] = y[1] /\ t[2] = y[2] /\ t[3] = y[3]
      BY <3>2
    <3>5. 3 + 1 = 4 /\ 3 + 2 = 5 /\ 3 + 3 = 6
      OBVIOUS
    <3>6. t \in Seq(Simple)
      BY <3>1
    <3>7. t[4] = m[1] /\ t[5] = m[2] /\ t[6] = m[3]
      BY <3>4, <3>5
    <3> QED BY <3>3, <3>4, <3>6, <3>7
  <2>5. /\ G \in [0..6 -> Nat] /\ G[0] = 0 /\ G[1] = 27 /\ G[2] = 57 /\ G[3] = 63 /\ G[4] = 74 /\ G[5] = 104
        /\ G[6] = 110
    OBVIOUS
  <2> HIDE DEF t, G
  <2>6. /\ t[1].k = "cs" /\ t[2].k = "cs" /\ t[3].k = "cs" /\ t[4].k = "cs" /\ t[5].k = "cs" /\ t[6].k = "cs"
        /\ t[1].len = 27 /\ t[2].len = 30 /\ t[3].len = 6 /\ t[4].len = 11 /\ t[5].len = 30 /\ t[6].len = 6
    BY <1>2, <1>3, <2>4
  <2>7. ASSUME NEW j \in 1..6 PROVE t[j].k = "cs" /\ G[j] = G[j - 1] + t[j].len
    <3>1. /\ G[1] = G[0] + t[1].len /\ G[2] = G[1] + t[2].len /\ G[3] = G[2] + t[3].len
          /\ G[4] = G[3] + t[4].len /\ G[5] = G[4] + t[5].len /\ G[6] = G[5] + t[6].len
      BY <2>5, <2>6
    <3>2. \/ j = 1 /\ j - 1 = 0
          \/ j = 2 /\ j - 1 = 1
          \/ j = 3 /\ j - 1 = 2
          \/ j = 4 /\ j - 1 = 3
          \/ j = 5 /\ j - 1 = 4
          \/ j = 6 /\ j - 1 = 5
      OBVIOUS
    <3> QED BY <2>6, <3>1, <3>2
  <2>8. IsFormats(t, 6, 2, G, offer)
    BY <2>1, <2>2, <2>4, <2>5, <2>7 DEF IsFormats
  <2> QED BY <2>3, <2>8
<1> QED BY <1>4, <1>5, <1>6, <1>7

\* The camera: an association over two interfaces, the header of the control interface, and the
\* streaming header, which counts the formats behind it and names the endpoint of the second setting.
LEMMA UvcPlan ==
  ASSUME NEW p \in uvc_build
  PROVE  IsPlan(p)
<1>1. PICK offer \in Offers :
        p = ((<<Associate(2), NewInterface, Header(13, 13 + 18 + 9, {1}), Desc(18), Desc(9), NewInterface, Reservation(1, "in"),
                [Header(13 + Cardinality(offer), vs_total(offer), {}) EXCEPT !.named = TRUE]>>
              \o (IF "yuyv" \in offer THEN FormatDescs("yuyv") ELSE <<>>))
             \o (IF "mjpeg" \in offer THEN FormatDescs("mjpeg") ELSE <<>>))
            \o <<AltSetting, NewEndpoint(1, "in")>>
  BY DEF uvc_build
<1> DEFINE Y == IF "yuyv" \in offer THEN FormatDescs("yuyv") ELSE <<>>
           M == IF "mjpeg" \in offer THEN FormatDescs("mjpeg") ELSE <<>>
           E == <<AltSetting, NewEndpoint(1, "in")>>
           h == Header(13, 40, {1})
<1>2. PICK mid, k, c, G : mid = Y \o M /\ IsFormats(mid, k, c, G, offer)
  BY FormatsAre
<1> DEFINE v == [Header(13 + c, (13 + c) + G[k], {}) EXCEPT !.named = TRUE]
           s == <<Associate(2), NewInterface, h, Desc(18), Desc(9), NewInterface, Reservation(1, "in"), v>>
<1>3. /\ k \in {3, 6} /\ c \in {1, 2} /\ mid \in Seq(Simple) /\ Len(mid) = k
      /\ G \in [0..k -> Nat] /\ G[0] = 0 /\ G[k] \in Nat
      /\ \A j \in 1..k : mid[j].k = "cs" /\ G[j] = G[j - 1] + mid[j].len
  <2>1. /\ k \in {3, 6} /\ c \in {1, 2} /\ mid \in Seq(Simple) /\ Len(mid) = k
        /\ G \in [0..k -> Nat] /\ G[0] = 0
        /\ \A j \in 1..k : mid[j].k = "cs" /\ G[j] = G[j - 1] + mid[j].len
    BY <1>2 DEF IsFormats
  <2>2. k \in 0..k
    BY <2>1
  <2> QED BY <2>1, <2>2
<1>4. k \in {3, 6} /\ c \in {1, 2} /\ 13 + c \in Nat /\ G[0] = 0 /\ G[k] \in Nat
  <2>1. k \in {3, 6} /\ c \in {1, 2} /\ G[0] = 0 /\ G[k] \in Nat
    BY <1>3
  <2> QED BY <2>1
<1>5. p = ((s \o Y) \o M) \o E
  <2>1. Cardinality(offer) = c /\ vs_total(offer) = (13 + c) + G[k]
    BY <1>2 DEF IsFormats
  <2>2. 13 + 18 + 9 = 40
    OBVIOUS
  <2> QED BY <1>1, <2>1, <2>2, Zenon
<1>6. /\ NewInterface \in Simple /\ NewInterface.k = "if" /\ AltSetting \in Simple /\ AltSetting.k = "alt"
      /\ NewEndpoint(1, "in") \in Simple /\ NewEndpoint(1, "in").k = "ep"
      /\ Reservation(1, "in") \in Simple /\ Reservation(1, "in").k = "reserve"
      /\ Desc(18) \in Simple /\ Desc(18).k = "cs" /\ Desc(18).len = 18
      /\ Desc(9) \in Simple /\ Desc(9).k = "cs" /\ Desc(9).len = 9
  BY SimpleIs
<1>7. h \in Asked /\ h.k = "cs" /\ h.len = 13 /\ h.total = 40 /\ h.ifs = {1} /\ ~h.named /\ h.addr[1] = 0
  <2>1. {1} \in SUBSET Nat /\ 13 \in Nat /\ 40 \in Nat
    OBVIOUS
  <2> QED BY <2>1, HeaderIs
<1>8. v \in Asked /\ v.k = "cs" /\ v.len = 13 + c /\ v.total = (13 + c) + G[k] /\ v.ifs = {} /\ v.named = TRUE
  <2>1. PICK l \in Nat, w \in Nat : l = 13 + c /\ w = (13 + c) + G[k]
    <3>1. 13 + c \in Nat
      BY <1>3
    <3>2. (13 + c) + G[k] \in Nat
      BY <1>3, <3>1
    <3> QED BY <3>1, <3>2
  <2>2. PICK d : d = Header(l, w, {})
    OBVIOUS
  <2>3. d \in Asked /\ d.k = "cs" /\ d.len = l /\ d.total = w /\ d.ifs = {}
    BY <2>2, HeaderIs
  <2>4. v = [d EXCEPT !.named = TRUE]
    BY <2>1, <2>2
  <2> HIDE DEF v
  <2>5. v \in Asked /\ v.k = "cs" /\ v.len = l /\ v.total = w /\ v.ifs = {} /\ v.named = TRUE
    BY <2>3, <2>4 DEF Asked
  <2> QED BY <2>1, <2>5
<1>9. \A d \in Simple : d \in Asked
  BY DEF Simple
<1>10. Associate(2) \in Asked
  BY AssociateIs
<1> HIDE DEF h, v
<1>11. /\ s \in Seq(Asked) /\ Len(s) = 8 /\ s[1] = Associate(2) /\ s[2] = NewInterface /\ s[3] = h /\ s[4] = Desc(18)
       /\ s[5] = Desc(9) /\ s[6] = NewInterface /\ s[7] = Reservation(1, "in") /\ s[8] = v
  <2>1. /\ NewInterface \in Asked /\ Desc(18) \in Asked /\ Desc(9) \in Asked /\ Reservation(1, "in") \in Asked
        /\ h \in Asked /\ v \in Asked
    BY <1>6, <1>7, <1>8, <1>9
  <2>2. PICK a \in Asked, b \in Asked, d \in Asked, e \in Asked, f \in Asked :
          a = Associate(2) /\ b = NewInterface /\ d = Desc(18) /\ e = Desc(9) /\ f = Reservation(1, "in")
    BY <1>10, <2>1
  <2>3. s = <<a, b, h, d, e, b, f, v>>
    BY <2>2
  <2> HIDE DEF s
  <2>4. /\ s \in Seq(Asked) /\ Len(s) = 8 /\ s[1] = a /\ s[2] = b /\ s[3] = h /\ s[4] = d
        /\ s[5] = e /\ s[6] = b /\ s[7] = f /\ s[8] = v
    BY <2>1, <2>3
  <2> QED BY <2>2, <2>4
<1>12. E \in Seq(Asked) /\ Len(E) = 2 /\ E[1] = AltSetting /\ E[2] = NewEndpoint(1, "in")
  <2>1. PICK a \in Asked, b \in Asked : a = AltSetting /\ b = NewEndpoint(1, "in")
    BY <1>6, <1>9
  <2>2. E = <<a, b>>
    BY <2>1
  <2> HIDE DEF E
  <2>3. E \in Seq(Asked) /\ Len(E) = 2 /\ E[1] = a /\ E[2] = b
    BY <2>2
  <2> QED BY <2>1, <2>3
<1>13. p = (s \o mid) \o E
  <2>1. (s \o Y) \o M = s \o (Y \o M)
    <3>1. Y \in Seq(Asked) /\ M \in Seq(Asked)
      <4>1. \A l \in {11, 27} : <<Desc(l), Desc(30), Desc(6)>> \in Seq(Simple)
        BY FormatIs
      <4>2. \A t \in Seq(Simple) : t \in Seq(Asked)
        BY <1>9
      <4>3. <<>> \in Seq(Asked)
        OBVIOUS
      <4>4. FormatDescs("yuyv") \in Seq(Asked) /\ FormatDescs("mjpeg") \in Seq(Asked)
        BY <4>1, <4>2 DEF FormatDescs
      <4> QED BY <4>3, <4>4
    <3>2. s \in Seq(Asked)
      BY <1>11
    <3> HIDE DEF s, Y, M
    <3> QED BY <3>1, <3>2, ConcatAssociative
  <2> QED BY <1>2, <1>5, <2>1
<1>14. mid \in Seq(Asked) /\ \A j \in 1..k : mid[j] \in Simple
  BY <1>3, <1>9
<1> HIDE DEF s, E
<1>15. /\ p \in Seq(Asked) /\ Len(p) = k + 10
       /\ \A x \in 1..8 : p[x] = s[x]
       /\ \A x \in 1..k : p[8 + x] = mid[x]
       /\ p[k + 9] = AltSetting /\ p[k + 10] = NewEndpoint(1, "in")
  <2>1. PICK q : q = s \o mid
    OBVIOUS
  <2>2. /\ q \in Seq(Asked) /\ Len(q) = 8 + k
        /\ \A x \in 1..8 : q[x] = s[x]
        /\ \A x \in 1..k : q[8 + x] = mid[x]
    <3>1. /\ s \o mid \in Seq(Asked) /\ Len(s \o mid) = Len(s) + Len(mid)
          /\ \A x \in 1..Len(s) : (s \o mid)[x] = s[x]
          /\ \A x \in 1..Len(mid) : (s \o mid)[Len(s) + x] = mid[x]
      <4>1. s \in Seq(Asked) /\ mid \in Seq(Asked)
        BY <1>11, <1>14
      <4> QED BY <4>1, PartsAre
    <3>2. Len(s) = 8 /\ Len(mid) = k
      BY <1>3, <1>11
    <3> QED BY <2>1, <3>1, <3>2, Zenon
  <2>3. /\ p \in Seq(Asked) /\ Len(p) = (8 + k) + 2
        /\ \A x \in 1..(8 + k) : p[x] = q[x]
        /\ \A x \in 1..2 : p[(8 + k) + x] = E[x]
    <3>1. /\ q \o E \in Seq(Asked) /\ Len(q \o E) = Len(q) + Len(E)
          /\ \A x \in 1..Len(q) : (q \o E)[x] = q[x]
          /\ \A x \in 1..Len(E) : (q \o E)[Len(q) + x] = E[x]
      <4>1. q \in Seq(Asked) /\ E \in Seq(Asked)
        BY <1>12, <2>2
      <4> QED BY <4>1, PartsAre
    <3>2. Len(q) = 8 + k /\ Len(E) = 2 /\ p = q \o E
      BY <1>12, <1>13, <2>1, <2>2
    <3> QED BY <3>1, <3>2, Zenon
  <2>4. /\ (8 + k) + 2 = k + 10 /\ (8 + k) + 1 = k + 9 /\ 1 \in 1..2 /\ 2 \in 1..2
        /\ \A x \in 1..8 : x \in 1..(8 + k)
        /\ \A x \in 1..k : 8 + x \in 1..(8 + k)
    BY <1>4
  <2>5. p[k + 9] = AltSetting /\ p[k + 10] = NewEndpoint(1, "in")
    BY <1>12, <2>3, <2>4
  <2>6. /\ \A x \in 1..8 : p[x] = s[x]
        /\ \A x \in 1..k : p[8 + x] = mid[x]
    BY <2>2, <2>3, <2>4
  <2> QED BY <2>3, <2>4, <2>5, <2>6
<1>16. /\ p[1] = Associate(2) /\ p[2] = NewInterface /\ p[3] = h /\ p[4] = Desc(18)
       /\ p[5] = Desc(9) /\ p[6] = NewInterface /\ p[7] = Reservation(1, "in") /\ p[8] = v
  BY <1>11, <1>15
<1> DEFINE n == k + 10
<1>17. \A x \in 1..n : \/ x \in 1..8
                       \/ x \in 9..(k + 8) /\ x - 8 \in 1..k /\ 8 + (x - 8) = x
                       \/ x = k + 9
                       \/ x = k + 10
  BY <1>4
<1>18. \A x \in 9..(k + 8) : p[x] = mid[x - 8] /\ p[x] \in Simple /\ p[x].k = "cs"
  <2> SUFFICES ASSUME NEW x \in 9..(k + 8) PROVE p[x] = mid[x - 8] /\ p[x] \in Simple /\ p[x].k = "cs"
    OBVIOUS
  <2>1. x - 8 \in 1..k /\ 8 + (x - 8) = x
    BY <1>4
  <2>2. p[8 + (x - 8)] = mid[x - 8]
    BY <1>15, <2>1
  <2>3. p[x] = mid[x - 8]
    BY <2>1, <2>2
  <2> QED BY <1>3, <1>14, <2>1, <2>3
<1>19. /\ p[1].k = "iad" /\ p[2].k = "if" /\ p[3].k = "cs" /\ p[4].k = "cs" /\ p[5].k = "cs" /\ p[6].k = "if"
       /\ p[7].k = "reserve" /\ p[8].k = "cs" /\ p[k + 9].k = "alt" /\ p[k + 10].k = "ep"
       /\ p[3].len = 13 /\ p[4].len = 18 /\ p[5].len = 9 /\ p[8].len = 13 + c
  BY <1>6, <1>7, <1>8, <1>15, <1>16, AssociateIs
<1>20. \A x \in 1..8 : x = 1 \/ x = 2 \/ x = 3 \/ x = 4 \/ x = 5 \/ x = 6 \/ x = 7 \/ x = 8
  OBVIOUS
<1>21. /\ \A x \in 1..n : p[x].k = "if" <=> x = 2 \/ x = 6
       /\ \A x \in 1..n : p[x].k = "alt" <=> x = k + 9
       /\ \A x \in 1..n : p[x].k = "cs" <=> x \in 3..5 \/ x \in 8..(k + 8)
       /\ \A x \in 1..n : x # 1 /\ x # 3 /\ x # 8 => p[x] \in Simple
  <2> SUFFICES ASSUME NEW x \in 1..n
               PROVE  /\ p[x].k = "if" <=> x = 2 \/ x = 6
                      /\ p[x].k = "alt" <=> x = k + 9
                      /\ p[x].k = "cs" <=> x \in 3..5 \/ x \in 8..(k + 8)
                      /\ x # 1 /\ x # 3 /\ x # 8 => p[x] \in Simple
    OBVIOUS
  <2>1. CASE x \in 1..8
    <3>1. /\ x # k + 9 /\ x # k + 10 /\ (x \in 3..5 <=> x = 3 \/ x = 4 \/ x = 5) /\ (x \in 8..(k + 8) <=> x = 8)
      BY <1>4, <2>1
    <3>2. x # 1 /\ x # 3 /\ x # 8 => p[x] \in Simple
      BY <1>6, <1>16, <1>20, <2>1
    <3> QED BY <1>19, <1>20, <2>1, <3>1, <3>2
  <2>2. CASE x \in 9..(k + 8)
    <3>1. x # 2 /\ x # 6 /\ x # k + 9 /\ x \in 8..(k + 8)
      BY <1>4, <2>2
    <3> QED BY <1>18, <2>2, <3>1
  <2>3. CASE x = k + 9
    <3>1. x # 2 /\ x # 6 /\ x \notin 3..5 /\ x \notin 8..(k + 8)
      BY <1>4, <2>3
    <3> QED BY <1>6, <1>15, <1>19, <2>3, <3>1
  <2>4. CASE x = k + 10
    <3>1. x # 2 /\ x # 6 /\ x \notin 3..5 /\ x \notin 8..(k + 8) /\ x # k + 9
      BY <1>4, <2>4
    <3> QED BY <1>6, <1>15, <1>19, <2>4, <3>1
  <2> QED BY <1>17, <2>1, <2>2, <2>3, <2>4
<1> DEFINE N == [x \in 0..n |-> IF x <= 1 THEN 0 ELSE IF x <= 5 THEN 1 ELSE 2]
           A == [x \in 0..n |-> IF x <= k + 8 THEN 0 ELSE 1]
<1>22. \A x \in 1..n : x \in 0..n /\ x - 1 \in 0..n
  BY <1>4
<1>23. /\ \A x \in 0..n : N[x] = IF x <= 1 THEN 0 ELSE IF x <= 5 THEN 1 ELSE 2
       /\ \A x \in 0..n : A[x] = IF x <= k + 8 THEN 0 ELSE 1
       /\ N \in [0..n -> Nat] /\ A \in [0..n -> Nat]
  OBVIOUS
<1>24. /\ 0 \in 0..n /\ 2 \in 0..n /\ 3 \in 0..n /\ 6 \in 0..n /\ 7 \in 0..n /\ 8 \in 0..n /\ n \in 0..n /\ n \in 1..n
       /\ 2 \in 1..n /\ 3 \in 1..n /\ 6 \in 1..n /\ 7 \in 1..n /\ 8 \in 1..n /\ n \in Nat
  BY <1>4
<1> HIDE DEF N, A
<1>25. /\ N[0] = 0 /\ N[2] = 1 /\ N[3] = 1 /\ N[6] = 2 /\ N[7] = 2 /\ N[8] = 2 /\ N[n] = 2 /\ A[3] = 0 /\ A[8] = 0
  <2>1. 3 <= k + 8 /\ 8 <= k + 8 /\ ~(n <= 5)
    BY <1>4
  <2> QED BY <1>23, <1>24, <2>1
<1>26. Numbers(p, N, A)
  <2>1. ASSUME NEW x \in 1..n
        PROVE  /\ N[x] = N[x - 1] + (IF p[x].k = "if" THEN 1 ELSE 0)
               /\ N[x] > 0 => A[x] = IF p[x].k = "if" THEN 0 ELSE A[x - 1] + (IF p[x].k = "alt" THEN 1 ELSE 0)
    <3>1. /\ N[x] = IF x <= 1 THEN 0 ELSE IF x <= 5 THEN 1 ELSE 2
          /\ N[x - 1] = IF x - 1 <= 1 THEN 0 ELSE IF x - 1 <= 5 THEN 1 ELSE 2
          /\ A[x] = IF x <= k + 8 THEN 0 ELSE 1
          /\ A[x - 1] = IF x - 1 <= k + 8 THEN 0 ELSE 1
      BY <1>22, <1>23
    <3>2. N[x] = N[x - 1] + (IF x = 2 \/ x = 6 THEN 1 ELSE 0)
      BY <1>4, <3>1
    <3>3. A[x] = IF x = 2 \/ x = 6 THEN 0 ELSE A[x - 1] + (IF x = k + 9 THEN 1 ELSE 0)
      BY <1>4, <3>1
    <3> QED BY <1>21, <3>2, <3>3
  <2> QED BY <1>15, <1>23, <1>25, <2>1 DEF Numbers
\* The control interface's header: itself, the terminal in and the terminal out.
<1>27. \E S : IsTotal(p, N, A, 3, S)
  <2> DEFINE S == [x \in 0..n |-> IF x <= 2 THEN 0 ELSE IF x = 3 THEN 13 ELSE IF x = 4 THEN 31 ELSE 40]
  <2>1. \A x \in 0..n : S[x] = IF x <= 2 THEN 0 ELSE IF x = 3 THEN 13 ELSE IF x = 4 THEN 31 ELSE 40
    OBVIOUS
  <2>2. S \in [0..n -> Nat]
    OBVIOUS
  <2> HIDE DEF S
  <2>3. S[0] = 0 /\ S[n] = 40
    <3>1. ~(n <= 2) /\ n # 3 /\ n # 4
      BY <1>4
    <3> QED BY <1>24, <2>1, <3>1
  <2>4. p[3].total = 40
    BY <1>7, <1>16
  <2>5. ASSUME NEW y \in 1..n
        PROVE  S[y] = S[y - 1] + (IF p[y].k = "cs" /\ N[y] = N[3] /\ A[y] = A[3] THEN p[y].len ELSE 0)
    <3>1. p[y].k = "cs" /\ N[y] = N[3] /\ A[y] = A[3] <=> y \in 3..5
      <4>1. N[y] = IF y <= 1 THEN 0 ELSE IF y <= 5 THEN 1 ELSE 2
        BY <1>22, <1>23
      <4>2. A[y] = IF y <= k + 8 THEN 0 ELSE 1
        BY <1>22, <1>23
      <4>3. y \in 3..5 => y <= k + 8 /\ y <= 5 /\ ~(y <= 1)
        BY <1>4
      <4>4. y \in 8..(k + 8) => ~(y <= 5)
        OBVIOUS
      <4> QED BY <1>21, <1>25, <4>1, <4>2, <4>3, <4>4
    <3>2. /\ S[y] = IF y <= 2 THEN 0 ELSE IF y = 3 THEN 13 ELSE IF y = 4 THEN 31 ELSE 40
          /\ S[y - 1] = IF y - 1 <= 2 THEN 0 ELSE IF y - 1 = 3 THEN 13 ELSE IF y - 1 = 4 THEN 31 ELSE 40
      BY <1>22, <2>1
    <3>3. CASE y \in 3..5
      <4>1. y = 3 \/ y = 4 \/ y = 5
        BY <3>3
      <4>2. S[y] = S[y - 1] + p[y].len
        BY <1>19, <3>2, <4>1
      <4> QED BY <3>1, <3>3, <4>2
    <3>4. CASE y \notin 3..5
      <4>1. S[y] = S[y - 1] + 0
        BY <3>2, <3>4
      <4> QED BY <3>1, <3>4, <4>1
    <3> QED BY <3>3, <3>4
  <2>6. Len(p) = n
    BY <1>15
  <2>7. IsTotal(p, N, A, 3, S)
    <3> HIDE DEF n
    <3> QED BY <2>2, <2>3, <2>4, <2>5, <2>6 DEF IsTotal
  <2> QED BY <2>7
\* The streaming interface's header: itself and the formats behind it.
<1>28. \E S : IsTotal(p, N, A, 8, S)
  <2> DEFINE S == [x \in 0..n |-> IF x <= 7 THEN 0 ELSE IF x <= k + 8 THEN (13 + c) + G[x - 8] ELSE (13 + c) + G[k]]
  <2>1. \A x \in 0..n : S[x] = IF x <= 7 THEN 0 ELSE IF x <= k + 8 THEN (13 + c) + G[x - 8] ELSE (13 + c) + G[k]
    OBVIOUS
  <2>2. S \in [0..n -> Nat]
    <3>1. ASSUME NEW x \in 0..n
          PROVE  (IF x <= 7 THEN 0 ELSE IF x <= k + 8 THEN (13 + c) + G[x - 8] ELSE (13 + c) + G[k]) \in Nat
      <4>1. CASE x <= 7
        BY <4>1
      <4>2. CASE ~(x <= 7) /\ x <= k + 8
        <5>1. x - 8 \in 0..k
          BY <1>4, <4>2
        <5>2. G[x - 8] \in Nat
          BY <1>3, <5>1
        <5> QED BY <1>4, <4>2, <5>2
      <4>3. CASE ~(x <= 7) /\ ~(x <= k + 8)
        BY <1>4, <4>3
      <4> QED BY <4>1, <4>2, <4>3
    <3> QED BY <3>1
  <2> HIDE DEF S
  <2>3. S[0] = 0 /\ S[n] = (13 + c) + G[k]
    <3>1. ~(n <= 7) /\ ~(n <= k + 8)
      BY <1>4
    <3> QED BY <1>24, <2>1, <3>1
  <2>4. p[8].total = (13 + c) + G[k]
    BY <1>8, <1>16
  <2>5. ASSUME NEW y \in 1..n
        PROVE  S[y] = S[y - 1] + (IF p[y].k = "cs" /\ N[y] = N[8] /\ A[y] = A[8] THEN p[y].len ELSE 0)
    <3>1. p[y].k = "cs" /\ N[y] = N[8] /\ A[y] = A[8] <=> y \in 8..(k + 8)
      <4>1. N[y] = IF y <= 1 THEN 0 ELSE IF y <= 5 THEN 1 ELSE 2
        BY <1>22, <1>23
      <4>2. A[y] = IF y <= k + 8 THEN 0 ELSE 1
        BY <1>22, <1>23
      <4>3. y \in 8..(k + 8) => y <= k + 8 /\ ~(y <= 5) /\ ~(y <= 1)
        BY <1>4
      <4>4. y \in 3..5 => y <= 5
        OBVIOUS
      <4> QED BY <1>21, <1>25, <4>1, <4>2, <4>3, <4>4
    <3>2. /\ S[y] = IF y <= 7 THEN 0 ELSE IF y <= k + 8 THEN (13 + c) + G[y - 8] ELSE (13 + c) + G[k]
          /\ S[y - 1] = IF y - 1 <= 7 THEN 0 ELSE IF y - 1 <= k + 8 THEN (13 + c) + G[(y - 1) - 8] ELSE (13 + c) + G[k]
      BY <1>22, <2>1
    <3>3. CASE y = 8
      <4>1. y <= k + 8 /\ ~(y <= 7) /\ y - 1 <= 7 /\ y - 8 = 0 /\ y \in 8..(k + 8)
        BY <1>4, <3>3
      <4>2. S[y] = (13 + c) + G[0] /\ S[y - 1] = 0
        BY <3>2, <4>1
      <4>3. S[y] = S[y - 1] + p[y].len
        BY <1>4, <1>19, <3>3, <4>2
      <4> QED BY <3>1, <4>1, <4>3
    <3>4. CASE y \in 9..(k + 8)
      <4>1. /\ y <= k + 8 /\ ~(y <= 7) /\ ~(y - 1 <= 7) /\ y - 1 <= k + 8 /\ y \in 8..(k + 8)
            /\ y - 8 \in 1..k /\ y - 8 \in 0..k /\ (y - 8) - 1 \in 0..k /\ (y - 1) - 8 = (y - 8) - 1
        BY <1>4, <3>4
      <4>2. S[y] = (13 + c) + G[y - 8] /\ S[y - 1] = (13 + c) + G[(y - 8) - 1]
        BY <3>2, <4>1
      <4>3. G[y - 8] = G[(y - 8) - 1] + p[y].len /\ G[(y - 8) - 1] \in Nat /\ p[y].len \in Nat
        <5>1. p[y] = mid[y - 8] /\ p[y] \in Asked
          BY <1>9, <1>18, <3>4
        <5>2. p[y].len \in Nat
          BY <5>1 DEF Asked
        <5> QED BY <1>3, <4>1, <5>1, <5>2
      <4>4. S[y] = S[y - 1] + p[y].len
        <5>1. PICK u \in Nat, l \in Nat, w \in Nat : u = G[(y - 8) - 1] /\ l = p[y].len /\ w = 13 + c
          <6>1. 13 + c \in Nat
            BY <1>4
          <6> QED BY <4>3, <6>1
        <5>2. S[y] = w + (u + l) /\ S[y - 1] = w + u
          BY <4>2, <4>3, <5>1
        <5> QED BY <5>1, <5>2
      <4> QED BY <3>1, <4>1, <4>4
    <3>5. CASE y < 8
      <4>1. y <= 7 /\ y - 1 <= 7 /\ y \notin 8..(k + 8)
        BY <3>5
      <4> QED BY <3>1, <3>2, <4>1
    <3>6. CASE y > k + 8
      <4>1. /\ ~(y <= 7) /\ ~(y <= k + 8) /\ ~(y - 1 <= 7) /\ y \notin 8..(k + 8)
            /\ (y - 1 <= k + 8 => (y - 1) - 8 = k)
        BY <1>4, <3>6
      <4>2. S[y] = (13 + c) + G[k] /\ S[y - 1] = (13 + c) + G[k]
        BY <3>2, <4>1
      <4>3. S[y] = S[y - 1] + 0
        BY <1>4, <4>2
      <4> QED BY <3>1, <4>1, <4>3
    <3>7. y < 8 \/ y = 8 \/ y \in 9..(k + 8) \/ y > k + 8
      BY <1>4
    <3> QED BY <3>3, <3>4, <3>5, <3>6, <3>7
  <2>6. Len(p) = n
    BY <1>15
  <2>7. IsTotal(p, N, A, 8, S)
    <3> HIDE DEF n
    <3> QED BY <2>2, <2>3, <2>4, <2>5, <2>6 DEF IsTotal
  <2> QED BY <2>7
<1>29. IsAnnounced(p, N, 8)
  <2>1. /\ 7 \in 1..Len(p) /\ n \in 1..Len(p) /\ 7 < 8 /\ 8 < n
    BY <1>4, <1>15, <1>24
  <2>2. p[7].k = "reserve" /\ ~p[7].named /\ p[n].k = "ep" /\ ~p[n].named
    <3>1. p[7] \in Simple /\ p[n] \in Simple
      BY <1>6, <1>15, <1>16
    <3> QED BY <1>19, <3>1 DEF Simple
  <2>3. \A y \in (7 + 1)..(n - 1) : p[y].k \notin {"reserve", "ep"}
    <3> SUFFICES ASSUME NEW y \in (7 + 1)..(n - 1) PROVE p[y].k \notin {"reserve", "ep"}
      OBVIOUS
    <3>1. y \in 8..(k + 8) \/ y = k + 9
      BY <1>4
    <3>2. y \in 1..n
      BY <1>4
    <3> QED BY <1>21, <3>1, <3>2
  <2> QED BY <1>25, <2>1, <2>2, <2>3 DEF IsAnnounced
<1>30. ASSUME NEW x \in 1..n PROVE PlanSays(p, N, A, x)
  <2>1. x \in 0..n /\ N[x] = IF x <= 1 THEN 0 ELSE IF x <= 5 THEN 1 ELSE 2
    BY <1>22, <1>23
  <2>2. x # 1 => N[x] > 0
    BY <2>1
  <2>3. CASE x = 1
    <3>1. p[x].k = "iad" /\ p[x].total = 0 /\ p[x].ifs = {} /\ p[x].cover = 2
      BY <1>16, <2>3, AssociateIs
    <3>2. {y \in 1..Len(p) : p[y].k = "if"} = {2, 6}
      BY <1>15, <1>21, <1>24
    <3>3. 2 \in 1..Len(p) /\ 6 \in 1..Len(p) /\ 2 # 6
      BY <1>15, <1>24
    <3> QED BY <3>1, <3>2, <3>3 DEF PlanSays
  <2>4. CASE x = 3
    <3>1. p[x].k = "cs" /\ p[x].ifs = {1} /\ ~p[x].named /\ p[x].addr[1] = 0
      BY <1>7, <1>16, <2>4
    <3>2. \A i \in {1} : \E y \in 1..Len(p) : p[y].k = "if" /\ N[y] = i + 1
      <4>1. 6 \in 1..Len(p) /\ p[6].k = "if" /\ N[6] = 1 + 1
        BY <1>15, <1>19, <1>24, <1>25
      <4> QED BY <4>1
    <3> QED BY <1>27, <2>2, <2>4, <3>1, <3>2 DEF PlanSays
  <2>5. CASE x = 8
    <3>1. p[x].k = "cs" /\ p[x].ifs = {} /\ p[x].named = TRUE
      BY <1>8, <1>16, <2>5
    <3> QED BY <1>28, <1>29, <2>2, <2>5, <3>1 DEF PlanSays
  <2>6. CASE x # 1 /\ x # 3 /\ x # 8
    <3>1. p[x] \in Simple
      BY <1>21, <2>6
    <3> QED BY <2>2, <2>6, <3>1, SimpleSays
  <2> QED BY <2>3, <2>4, <2>5, <2>6
<1>31. Len(p) > 0 /\ p \in Seq(Asked) /\ \A x \in 1..Len(p) : PlanSays(p, N, A, x)
  BY <1>4, <1>15, <1>30
<1> QED
  BY <1>26, <1>31 DEF IsPlan

FuncsInv == FuncsShape /\ ClassDescriptorsAgree

LEMMA PlansAre ==
  ASSUME NEW class \in Classes, NEW p \in Plans(class)
  PROVE  IsPlan(p)
<1>1. /\ class = "cdc" \/ class = "hid" \/ class = "msc" \/ class = "dfu" \/ class = "mtp" \/ class = "bt"
         \/ class = "uac" \/ class = "uvc"
  BY ClassBuildAssumption
<1>2. CASE class = "cdc"
  <2>1. p \in cdc_build
    BY <1>2 DEF Plans
  <2> QED BY <2>1, CdcPlan
<1>3. CASE class = "hid"
  <2>1. p \in hid_build
    BY <1>3 DEF Plans
  <2> QED BY <2>1, HidMscDfuMtpBtPlans
<1>4. CASE class = "msc"
  <2>1. p \in msc_build
    BY <1>4 DEF Plans
  <2> QED BY <2>1, HidMscDfuMtpBtPlans
<1>5. CASE class = "dfu"
  <2>1. p \in dfu_build
    BY <1>5 DEF Plans
  <2> QED BY <2>1, HidMscDfuMtpBtPlans
<1>6. CASE class = "mtp"
  <2>1. p \in mtp_build
    BY <1>6 DEF Plans
  <2> QED BY <2>1, HidMscDfuMtpBtPlans
<1>7. CASE class = "bt"
  <2>1. p \in bt_build
    BY <1>7 DEF Plans
  <2> QED BY <2>1, HidMscDfuMtpBtPlans
<1>8. CASE class = "uac"
  <2>1. p \in uac_build
    BY <1>8 DEF Plans
  <2> QED BY <2>1, UacPlan
<1>9. CASE class = "uvc"
  <2>1. p \in uvc_build
    BY <1>9 DEF Plans
  <2> QED BY <2>1, UvcPlan
<1> QED BY <1>1, <1>2, <1>3, <1>4, <1>5, <1>6, <1>7, <1>8, <1>9

\* No descriptor of a plan is behind more interfaces than the whole plan has.
LEMMA NumbersGrow ==
  ASSUME NEW p \in Seq(Asked), NEW N, NEW A, Numbers(p, N, A), NEW x \in 1..Len(p)
  PROVE  N[x] \in Nat /\ N[Len(p)] \in Nat /\ N[x] <= N[Len(p)]
<1> DEFINE L == Len(p)
           P == {i \in 0..L : x <= i => N[x] <= N[i]}
<1>1. L \in Nat /\ L \in 0..L /\ x \in 0..L /\ x <= L
  OBVIOUS
<1>2. /\ N \in [0..L -> Nat]
      /\ \A y \in 1..L : N[y] = N[y - 1] + (IF p[y].k = "if" THEN 1 ELSE 0)
  BY DEF Numbers
<1>3. 0 \in P
  BY <1>1
<1>4. ASSUME NEW i \in 1..L, i - 1 \in P PROVE i \in P
  <2>1. i \in 0..L /\ i - 1 \in 0..L
    BY <1>1
  <2>2. N[i] \in Nat /\ N[i - 1] \in Nat /\ N[i - 1] <= N[i] /\ N[x] \in Nat
    <3>1. N[i] \in Nat /\ N[i - 1] \in Nat /\ N[x] \in Nat
      BY <1>1, <1>2, <2>1
    <3> QED BY <1>2, <3>1
  <2>3. CASE x <= i - 1
    <3>1. N[x] <= N[i - 1]
      BY <1>4, <2>3
    <3> QED BY <2>1, <2>2, <3>1
  <2>4. CASE ~(x <= i - 1)
    <3>1. x <= i => x = i
      BY <2>4
    <3> QED BY <2>1, <2>2, <3>1
  <2> QED BY <2>3, <2>4
<1> HIDE DEF P
<1>5. \A i \in 0..L : i \in P
  BY <1>1, <1>3, <1>4, UpTo
<1>6. N[x] <= N[L]
  BY <1>1, <1>5 DEF P
<1> QED BY <1>1, <1>2, <1>6

LEMMA AddKeeps ==
  ASSUME FuncsInv, NEW class \in Classes, AddFunction(class)
  PROVE  FuncsInv'
<1>1. PICK p \in Plans(class) : \E b \in Placed(p, n_funcs + 1) : blob' = b /\ n_ifs' = Last(b).next
  BY DEF AddFunction
<1>2. PICK b \in Placed(p, n_funcs + 1) : blob' = b /\ n_ifs' = Last(b).next
  BY <1>1
<1>3. n_funcs' = n_funcs + 1 /\ composite' = composite
  BY DEF AddFunction
<1>4. FuncsShape /\ p \in Seq(Asked) /\ Len(p) > 0 /\ \A i \in 1..Len(blob) : Agrees(blob, i)
  <2>1. p \in Seq(Asked) /\ Len(p) > 0
    BY PlansAre DEF IsPlan
  <2>2. DOMAIN blob = 1..Len(blob)
    BY DEF FuncsInv, FuncsShape
  <2> QED BY <2>1, <2>2 DEF FuncsInv, ClassDescriptorsAgree
<1>5. PICK N, A : Numbers(p, N, A) /\ \A x \in 1..Len(p) : PlanSays(p, N, A, x)
  BY PlansAre DEF IsPlan
<1>6. /\ blob \in Seq(Descr) /\ n_ifs \in Nat /\ n_funcs \in Nat /\ n_funcs + 1 \in Nat /\ composite \in BOOLEAN
      /\ \A i \in 1..Len(blob) : blob[i].func <= n_funcs /\ blob[i].if < n_ifs
  BY <1>4 DEF FuncsShape
<1>7. PICK c : Chain(c, Len(p), p, n_funcs + 1) /\ c[Len(p)] = b
  BY <1>4, <1>6, PlacedIs
<1>8. Carried(b, p, N, A, c)
  BY <1>4, <1>5, <1>7 DEF Carried
<1> DEFINE m == Len(blob)
           L == Len(p)
<1>9. /\ b \in Seq(Descr) /\ Len(b) = m + L /\ \A i \in 1..m : b[i] = blob[i]
      /\ \A x \in 1..L : IsPlaced(b[m + x], p[x], n_funcs + 1, N[x], A[x])
      /\ \A i \in 1..Len(b) : i \in 1..m \/ \E x \in 1..L : i = m + x
  BY <1>8, CarriedIs
<1>10. m \in Nat /\ L \in Nat /\ L > 0 /\ L \in 1..L /\ m + L \in 1..(m + L)
  BY <1>4, <1>6
<1>11. \A i \in 1..Len(b) : Agrees(b, i)
  <2>1. \A i \in 1..m : Agrees(b, i)
    BY <1>4, <1>8, OldAgree
  <2>2. \A x \in 1..L : Agrees(b, m + x)
    BY <1>8, NewAgrees
  <2> QED BY <1>9, <2>1, <2>2
<1>12. n_ifs' = n_ifs + N[L] /\ n_ifs' = Cursor(b).next /\ N[L] \in Nat
  <2>1. Last(b) = b[m + L] /\ Cursor(b) = Last(b)
    <3>1. Len(b) = m + L /\ b # <<>>
      BY <1>9, <1>10
    <3> QED BY <3>1 DEF Last, Cursor
  <2>2. b[m + L].next = n_ifs + N[L]
    BY <1>9, <1>10 DEF IsPlaced
  <2>3. N[L] \in Nat
    BY <1>4, <1>5, <1>10, NumbersGrow
  <2> QED BY <1>2, <2>1, <2>2, <2>3
<1>13. n_ifs \in Nat /\ n_funcs \in Nat /\ N[L] \in Nat
  BY <1>6, <1>12
<1>14. ASSUME NEW i \in 1..Len(b) PROVE b[i].func <= n_funcs + 1 /\ b[i].if < n_ifs + N[L]
  <2>1. CASE i \in 1..m
    <3>1. b[i] = blob[i] /\ blob[i].func <= n_funcs /\ blob[i].if < n_ifs /\ blob[i] \in Descr
      BY <1>6, <1>9, <2>1
    <3>2. blob[i].func \in Nat /\ blob[i].if \in Int
      BY <3>1 DEF Descr
    <3>3. blob[i].func <= n_funcs + 1
      <4>1. blob[i].func <= n_funcs /\ blob[i].func \in Int /\ n_funcs \in Nat
        BY <1>13, <3>1, <3>2
      <4> QED BY <4>1, NumberedAfter
    <3>4. blob[i].if < n_ifs + N[L]
      <4>1. PICK k \in Nat : k = N[L]
        BY <1>13
      <4>2. blob[i].if < n_ifs /\ blob[i].if \in Int /\ n_ifs \in Nat
        BY <1>13, <3>1, <3>2
      <4>3. blob[i].if < n_ifs + k
        BY <4>2, NumberedAfter
      <4> QED BY <4>1, <4>3
    <3> QED BY <3>1, <3>3, <3>4
  <2>2. CASE \E x \in 1..L : i = m + x
    <3>1. PICK x \in 1..L : i = m + x
      BY <2>2
    <3>2. b[i].func = n_funcs + 1 /\ b[i].if = (n_ifs + N[x]) - 1
      BY <1>9, <3>1 DEF IsPlaced
    <3>3. N[x] \in Nat /\ N[x] <= N[L]
      BY <1>4, <1>5, NumbersGrow
    <3>4. b[i].func <= n_funcs + 1
      BY <1>13, <3>2
    <3>5. (n_ifs + N[x]) - 1 < n_ifs + N[L]
      BY <1>13, <3>3
    <3> QED BY <3>2, <3>4, <3>5
  <2> QED BY <1>9, <2>1, <2>2
<1>15. FuncsShape'
  <2>1. n_ifs' \in Nat /\ n_funcs' \in Nat
    BY <1>3, <1>6, <1>12
  <2>2. \A i \in 1..Len(blob') : blob'[i].func <= n_funcs' /\ blob'[i].if < n_ifs'
    BY <1>2, <1>3, <1>12, <1>14
  <2>3. blob' \in Seq(Descr) /\ composite' \in BOOLEAN /\ n_ifs' = Cursor(blob').next
    BY <1>2, <1>3, <1>6, <1>9, <1>12
  <2> QED BY <2>1, <2>2, <2>3 DEF FuncsShape, Cursor
<1>16. ClassDescriptorsAgree'
  <2>1. DOMAIN b = 1..Len(b)
    BY <1>9
  <2>2. \A i \in DOMAIN blob' : Agrees(blob', i)
    BY <1>2, <1>11, <2>1
  <2> QED BY <2>2 DEF ClassDescriptorsAgree, Agrees, InFunc, Section, SumLengths
<1> QED BY <1>15, <1>16 DEF FuncsInv

\* What a function's descriptors say of each other holds on every device, whatever classes it is put
\* together from, in whatever order, and wherever ep_alloc_number moved their endpoints: the total
\* of a header (uac.c, uvc.c), the interfaces a CDC union or a header names, the endpoint UVC's
\* input header announced before it was added, and the span of an interface association.
THEOREM ClassDescriptorsAgreeHolds == BuildSpec => []ClassDescriptorsAgree
<1>1. BuildInit => FuncsInv
  <2> SUFFICES ASSUME BuildInit PROVE FuncsInv
    OBVIOUS
  <2>1. blob = <<>> /\ n_ifs = 0 /\ n_funcs = 0 /\ composite = FALSE
    BY DEF BuildInit
  <2>2. blob \in Seq(Descr) /\ Len(blob) = 0 /\ Cursor(blob).next = 0 /\ DOMAIN blob = {}
    BY <2>1 DEF Cursor
  <2>3. FuncsShape
    <3>1. n_ifs \in Nat /\ n_funcs \in Nat /\ composite \in BOOLEAN /\ n_ifs = Cursor(blob).next
      BY <2>1, <2>2
    <3>2. \A i \in 1..Len(blob) : blob[i].func <= n_funcs /\ blob[i].if < n_ifs
      BY <2>2
    <3> QED BY <2>2, <3>1, <3>2 DEF FuncsShape
  <2>4. ClassDescriptorsAgree
    BY <2>2 DEF ClassDescriptorsAgree
  <2> QED BY <2>3, <2>4 DEF FuncsInv
<1>2. FuncsInv /\ [BuildNext]_buildvars => FuncsInv'
  <2> SUFFICES ASSUME FuncsInv, [BuildNext]_buildvars PROVE FuncsInv'
    OBVIOUS
  <2>1. ASSUME blob' = blob, n_ifs' = n_ifs, n_funcs' = n_funcs, composite' \in BOOLEAN PROVE FuncsInv'
    <3>1. FuncsShape'
      BY <2>1 DEF FuncsInv, FuncsShape, Cursor
    <3>2. ClassDescriptorsAgree'
      <4>1. \A i \in DOMAIN blob : Agrees(blob, i)
        BY DEF FuncsInv, ClassDescriptorsAgree
      <4>2. \A i \in DOMAIN blob' : Agrees(blob', i)
        BY <2>1, <4>1
      <4> QED BY <4>2 DEF ClassDescriptorsAgree, Agrees, InFunc, Section, SumLengths
    <3> QED BY <3>1, <3>2 DEF FuncsInv
  <2>2. CASE SetComposite
    BY <2>1, <2>2 DEF SetComposite
  <2>3. ASSUME NEW class \in Classes, AddFunction(class) PROVE FuncsInv'
    BY <2>3, AddKeeps
  <2>4. CASE UNCHANGED buildvars
    <3>1. composite \in BOOLEAN
      BY DEF FuncsInv, FuncsShape
    <3> QED BY <2>1, <2>4, <3>1 DEF buildvars
  <2> QED BY <2>2, <2>3, <2>4 DEF BuildNext
<1>3. FuncsInv => ClassDescriptorsAgree
  BY DEF FuncsInv
<1> QED
  BY <1>1, <1>2, <1>3, PTL DEF BuildSpec
=============================================================================
