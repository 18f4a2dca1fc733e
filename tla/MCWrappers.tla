----------------------------- MODULE MCWrappers -----------------------------
(* The importing libraries for TLC, one at a time: a run's program uses the   *)
(* device objects of the libusb replacement, the host API, or the transfers,  *)
(* the pipe streams or the device lists of the libusbK replacement, against   *)
(* one server whose devices come and go.                                      *)
EXTENDS LibusbDevices, HostApi, LkOverlapped, LkStream, LkLists

CONSTANTS app, work, h1, h2, c1, c2
VARIABLE program

MCThreads == {app, work}
MCHandles == {h1, h2}
MCCallers == {c1, c2}
Programs == {"devices", "host", "transfers", "streams", "lists"}

vars == <<program, clientvars, devvars, hostvars, ovlvars, streamvars, lkvars>>

\* A component that does not run stays in one initial state.
Init ==
  /\ program \in Programs
  /\ ClientInit /\ DevicesInit /\ HostInit /\ OvlInit /\ StreamInit /\ ListsInit
  /\ program # "host" => user = [h \in Handles |-> app]
  /\ program # "transfers" => ~clears
  /\ program # "streams" => dir = "in"

MCSymmetry == Permutations(Devs)

Uses(p) == program = p /\ UNCHANGED program

\* What the server does, as much as each program can tell apart.
Server ==
  /\ \/ program # "streams" /\ Plug("a")
     \/ program # "transfers" /\ Unplug("a")
     \/ program \in {"devices", "lists"} /\ Plug("b")
     \/ program = "lists" /\ Unplug("b")
     \/ program \in {"host", "transfers"} /\ \E h \in Handles : ServerAnswers(h) \/ ServerDrops(h)
  /\ program # "devices" => next_devnum' <= 3
  /\ UNCHANGED <<program, devvars, hostvars, ovlvars, streamvars, lkvars>>

Next ==
  \/ Server
  \/ Uses("devices") /\ DevicesNext /\ UNCHANGED <<hostvars, ovlvars, streamvars, lkvars>>
  \/ Uses("host") /\ HostNext /\ ~conn'[h2].open /\ UNCHANGED <<devvars, ovlvars, streamvars, lkvars>>
  \/ Uses("transfers") /\ OvlNext /\ UNCHANGED <<devvars, hostvars, streamvars, lkvars>>
  \/ Uses("streams") /\ StreamNext /\ UNCHANGED <<clientvars, devvars, hostvars, ovlvars, lkvars>>
  \/ Uses("lists") /\ ListsNext /\ UNCHANGED <<devvars, hostvars, ovlvars, streamvars>>

Spec == Init /\ [][Next]_vars
=============================================================================
