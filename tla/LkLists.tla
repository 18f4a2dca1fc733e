------------------------------ MODULE LkLists ------------------------------
(***************************************************************************)
(* Device lists of the libusbK replacement (LstK_* of                      *)
(* src/wrapper/libusbK/libusbk.c): lists of device infos that the program  *)
(* walks, moves between lists, clones, frees and syncs with the server,    *)
(* while it keeps pointers to the infos. A linked list is a sequence here, *)
(* and a DeviceID stands for its busid.                                    *)
(***************************************************************************)
EXTENDS UsbipClient, SequencesExt

CONSTANTS
  Lists,     \* list handles
  Els,       \* struct klst_el that can be allocated
  NoEl, NoList

ASSUME ListsAssumption == IsFiniteSet(Els) /\ NoEl \notin Els /\ NoList \notin Lists

VARIABLES
  lst,       \* per list: allocated or not, its elements, cursor and started
  el         \* per element: allocated or not, owner, busid, Connected, SyncFlags

lkvars == <<lst, el>>

NewList == [live |-> TRUE, els |-> <<>>, cursor |-> NoEl, started |-> FALSE]
NoInfo == [live |-> FALSE, owner |-> NoList, busid |-> "none", connected |-> FALSE, sync |-> "none"]

ListsTypeOK ==
  /\ lst \in [Lists -> [live : BOOLEAN, els : Seq(Els), cursor : Els \cup {NoEl}, started : BOOLEAN]]
  /\ el \in [Els -> [live : BOOLEAN, owner : Lists \cup {NoList}, busid : Busids \cup {"none"},
       connected : BOOLEAN, sync : {"none", "unchanged", "added", "removed", "connect_change"}]]

ListsInit ==
  /\ lst = [l \in Lists |-> [NewList EXCEPT !.live = FALSE]]
  /\ el = [e \in Els |-> NoInfo]

Spare == {e \in Els : ~el[e].live}
Ids(l) == {el[e].busid : e \in ToSet(lst[l].els)}

Position(s, e) == CHOOSE i \in DOMAIN s : s[i] = e

\* What s has at the positions I, in its order.
Picked(s, I) ==
  [k \in 1..Cardinality(I) |-> s[CHOOSE i \in I : Cardinality({j \in I : j <= i}) = k]]

Without(s, e) == Picked(s, {i \in DOMAIN s : s[i] # e})

\* The elements calloc returns for n infos.
Allocated(n) == SubSeq(SetToSeq(Spare), 1, n)

\* What the server lists now, as infos in some order (lk_fill_devinfo).
Snapshot == [i \in 1..Cardinality(usbip_client_devlist) |->
  [live |-> TRUE, owner |-> NoList, busid |-> SetToSeq(usbip_client_devlist)[i].busid,
   connected |-> TRUE, sync |-> "none"]]

\* A list made of copies of infos, appended in order (lk_list_append).
Filled(l, infos) ==
  LET s == Allocated(Len(infos)) IN
  /\ ~lst[l].live /\ Cardinality(Spare) >= Len(infos)
  /\ lst' = [lst EXCEPT ![l] = [NewList EXCEPT !.els = s]]
  /\ el' = [e \in Els |-> IF e \notin ToSet(s) THEN el[e]
                          ELSE [infos[Position(s, e)] EXCEPT !.owner = l]]

LstK_Init(l) == Filled(l, Snapshot)

\* The copies start with the source's public fields.
LstK_Clone(src, l) ==
  /\ lst[src].live
  /\ Filled(l, [i \in DOMAIN lst[src].els |-> el[lst[src].els[i]]])

LstK_Free(l) ==
  /\ lst[l].live
  /\ el' = [e \in Els |-> IF e \in ToSet(lst[l].els) THEN NoInfo ELSE el[e]]
  /\ lst' = [lst EXCEPT ![l] = [NewList EXCEPT !.live = FALSE]]

---------------------------------------------------------------------------
(* Walking. *)

LstK_MoveReset(l) ==
  /\ lst[l].live
  /\ lst' = [lst EXCEPT ![l].cursor = NoEl, ![l].started = FALSE]
  /\ UNCHANGED el

After(l, e) == LET i == Position(lst[l].els, e)
               IN IF i = Len(lst[l].els) THEN NoEl ELSE lst[l].els[i + 1]

LstK_MoveNext(l) ==
  /\ lst[l].live
  /\ lst' = [lst EXCEPT ![l].started = TRUE,
       ![l].cursor = IF lst[l].started
                     THEN IF lst[l].cursor = NoEl THEN NoEl ELSE After(l, lst[l].cursor)
                     ELSE IF lst[l].els = <<>> THEN NoEl ELSE Head(lst[l].els)]
  /\ UNCHANGED el

LstK_FindByVidPid(l, e) ==
  /\ lst[l].live /\ e \in ToSet(lst[l].els)
  /\ lst' = [lst EXCEPT ![l].cursor = e, ![l].started = TRUE]
  /\ UNCHANGED el

---------------------------------------------------------------------------
(* Moving elements between lists. *)

Before(l, e) == LET i == Position(lst[l].els, e)
                IN IF i = 1 THEN NoEl ELSE lst[l].els[i - 1]

\* A cursor on the element moves to the one before it.
CursorWithout(l, e) == IF lst[l].cursor = e THEN Before(l, e) ELSE lst[l].cursor

\* lk_list_unlink
LstK_DetachInfo(l, e) ==
  /\ lst[l].live /\ el[e].owner = l
  /\ lst' = [lst EXCEPT ![l].els = Without(@, e), ![l].cursor = CursorWithout(l, e)]
  /\ el' = [el EXCEPT ![e].owner = NoList]

MayAttach(e) == el[e].live /\ el[e].owner = NoList

LstK_AttachInfo(l, e) ==
  /\ lst[l].live /\ MayAttach(e) /\ Len(lst[l].els) < Cardinality(Els)
  /\ lst' = [lst EXCEPT ![l].els = Append(@, e)]
  /\ el' = [el EXCEPT ![e].owner = l]

LstK_CloneInfo(e, c) ==
  /\ el[e].live /\ c \in Spare
  /\ el' = [el EXCEPT ![c] = [el[e] EXCEPT !.owner = NoList]]
  /\ UNCHANGED lst

\* Refused while a list owns it.
LstK_FreeInfo(e) ==
  /\ el[e].live /\ el[e].owner = NoList
  /\ el' = [el EXCEPT ![e] = NoInfo]
  /\ UNCHANGED lst

---------------------------------------------------------------------------
(* LstK_Sync against a fresh snapshot. *)

\* Fault: a device that came back is not looked for among the ones marked removed.
Known_Connected(m) == {el[e].busid : e \in {d \in ToSet(lst[m].els) : el[d].connected}}

Known(m) == Ids(m)

Marked(e, infos) ==
  IF \A i \in DOMAIN infos : infos[i].busid # el[e].busid
  THEN [el[e] EXCEPT !.sync = "removed", !.connected = FALSE]
  ELSE IF ~el[e].connected THEN [el[e] EXCEPT !.sync = "connect_change", !.connected = TRUE]
  ELSE [el[e] EXCEPT !.sync = "unchanged"]

LstK_Sync(m, drop) ==
  LET added == Picked(Snapshot, {i \in DOMAIN Snapshot : Snapshot[i].busid \notin Known(m)})
      s == Allocated(Len(added))
      mark == [e \in Els |-> IF e \in ToSet(lst[m].els) THEN Marked(e, Snapshot) ELSE el[e]]
      kept == Picked(lst[m].els, {i \in DOMAIN lst[m].els : ~drop \/ mark[lst[m].els[i]].sync # "removed"})
  IN /\ lst[m].live /\ Cardinality(Spare) >= Len(added)
     /\ lst' = [lst EXCEPT ![m].els = kept \o s, ![m].cursor = NoEl, ![m].started = FALSE]
     /\ el' = [e \in Els |->
          IF e \in ToSet(s) THEN [added[Position(s, e)] EXCEPT !.owner = m, !.sync = "added"]
          ELSE IF e \in ToSet(lst[m].els) \ ToSet(kept) THEN NoInfo ELSE mark[e]]

---------------------------------------------------------------------------
ListsNext ==
  /\ \/ \E l \in Lists :
          \/ LstK_Init(l) \/ LstK_Free(l) \/ LstK_MoveReset(l) \/ LstK_MoveNext(l)
          \/ \E src \in Lists : LstK_Clone(src, l)
          \/ \E e \in Els : LstK_FindByVidPid(l, e) \/ LstK_DetachInfo(l, e) \/ LstK_AttachInfo(l, e)
          \/ \E drop \in BOOLEAN : LstK_Sync(l, drop)
     \/ \E e \in Els : LstK_FreeInfo(e) \/ \E c \in Els : LstK_CloneInfo(e, c)
  /\ UNCHANGED clientvars

---------------------------------------------------------------------------
ListShape ==
  /\ \A l \in Lists : /\ \A e \in ToSet(lst[l].els) : el[e].live /\ el[e].owner = l
                      /\ IsInjective(lst[l].els)
                      /\ lst[l].cursor = NoEl \/ lst[l].cursor \in ToSet(lst[l].els)
  /\ \A e \in Els : el[e].owner # NoList => e \in ToSet(lst[el[e].owner].els)

SyncIsExact ==
  [][\A m \in Lists : (\E drop \in BOOLEAN : LstK_Sync(m, drop)) =>
       /\ {el'[e].busid : e \in {d \in ToSet(lst'[m].els) : el'[d].connected}}
            = {b \in Busids : exported[b] # 0}
       /\ (\A b \in Busids : Cardinality({e \in ToSet(lst[m].els) : el[e].busid = b}) <= 1) =>
          \A b \in Busids : Cardinality({e \in ToSet(lst'[m].els) : el'[e].busid = b}) <= 1]_lkvars

\* Whatever the program attaches, detaches, clones or frees, an info is in at
\* most one list, the one it says owns it, so no list frees it twice, and the
\* cursor of a walk is on an info of its own list.  After a sync the infos
\* marked connected are what the server exports now: nothing missing, nothing
\* that is gone, and a device that came back revives its old info instead of
\* getting a second one.
ListsAreSound == []ListShape /\ SyncIsExact
=============================================================================
