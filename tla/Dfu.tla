-------------------------------- MODULE Dfu --------------------------------
(***************************************************************************)
(* The DFU class (src/src/classes/device/dfu.c): a control-only state      *)
(* machine over several targets (alternate settings), the application's    *)
(* backend for each, and a host that downloads images block by block.  The *)
(* host polls GETSTATUS after every block and clears errors, but it may    *)
(* also send any request at any time.                                      *)
(***************************************************************************)
EXTENDS Integers, Sequences

CONSTANTS
  Targets,         \* alternate settings 0..n_targets-1
  Alts,            \* alternate settings a host may ask for
  ImageLengths,         \* lengths of images, in blocks
  BlockNumbers,    \* wValue is a block number modulo this (2^16 on the wire)
  MaxStrays,       \* bound: requests the host sends out of turn
  BackendMayFail,    \* whether target->write can report an error
  MaxDownloads     \* bound: downloads started

ASSUME DfuAssumption ==
  /\ Targets \subseteq Nat
  /\ 0 \in Targets
  /\ Targets \subseteq Alts
  /\ ImageLengths \subseteq Nat \ {0}
  /\ BlockNumbers \in Nat \ {0}
  /\ MaxStrays \in Nat
  /\ BackendMayFail \in BOOLEAN
  /\ MaxDownloads \in Nat

States == {"idle", "dnload_sync", "dnload_idle", "manifest_sync", "upload_idle", "error"}

VARIABLES
  state,           \* st->state
  status,          \* st->status: "ok" or "err"
  cur,             \* st->cur
  image,           \* per target, the blocks its backend holds: offset -> download number
  committed,       \* per target, the image when finish was called last (0 or 1 entries)
  stage,           \* the host: "ready", "blocks", "poll", "end", "done"
  job,             \* the download: its number, its target, its length, the blocks sent
  strays           \* requests sent out of turn

dfudev == <<state, status, cur, image, committed>>
dfuhost == <<stage, job>>
dfuvars == <<dfudev, dfuhost, strays>>

Image == [0..(BlockNumbers - 1) -> 0..MaxDownloads]
Blank == [o \in 0..(BlockNumbers - 1) |-> 0]
NoJob == [n |-> 0, target |-> 0, length |-> 0, sent |-> 0]

MaxLength == CHOOSE l \in ImageLengths : \A k \in ImageLengths : k <= l

DfuTypeOK ==
  /\ state \in States
  /\ status \in {"ok", "err"}
  /\ cur \in Targets
  /\ image \in [Targets -> Image]
  /\ committed \in [Targets -> Seq(Image)]
  /\ stage \in {"ready", "blocks", "poll", "end", "done"}
  /\ job \in [n : 0..MaxDownloads, target : Targets, length : ImageLengths \cup {0}, sent : 0..MaxLength]
  /\ strays \in 0..MaxStrays

DfuInit ==
  /\ state = "idle"
  /\ status = "ok"
  /\ cur = 0
  /\ image = [t \in Targets |-> Blank]
  /\ committed = [t \in Targets |-> <<>>]
  /\ stage = "ready"
  /\ job = NoJob
  /\ strays = 0

-----------------------------------------------------------------------------
(* dfu_control and dfu_set_alt                                             *)

\* Block 0 starts a fresh image.
Begun(wValue) == IF wValue = 0 THEN Blank ELSE image[cur]

\* Fault: a block that failed is acknowledged like any other.
FailedState_Sync == "dnload_sync"

FailedState == "error"

\* DNLOAD of a block: the state it is in does not matter.
Dnload(wValue, n) ==
  /\ \/ /\ image' = [image EXCEPT ![cur] = [Begun(wValue) EXCEPT ![wValue] = n]]
        /\ state' = "dnload_sync"
        /\ status' = "ok"
     \/ /\ BackendMayFail
        /\ image' = [image EXCEPT ![cur] = Begun(wValue)]
        /\ state' = FailedState
        /\ status' = "err"
  /\ UNCHANGED <<cur, committed>>

\* DNLOAD of nothing: the end of the image.
DnloadEnd ==
  /\ committed' = [committed EXCEPT ![cur] = <<image[cur]>>]
  /\ state' = "manifest_sync"
  /\ status' = "ok"
  /\ UNCHANGED <<cur, image>>

\* UPLOAD: the backend returns data, or nothing at the end.
Upload ==
  /\ state' \in {"upload_idle", "idle"}
  /\ status' = "ok"
  /\ UNCHANGED <<cur, image, committed>>

GetStatus ==
  /\ state' = CASE state = "dnload_sync" -> "dnload_idle"
                [] state = "manifest_sync" -> "idle"
                [] OTHER -> state
  /\ UNCHANGED <<status, cur, image, committed>>

\* DFU_CLRSTATUS and DFU_ABORT
ToIdle ==
  /\ state' = "idle"
  /\ status' = "ok"
  /\ UNCHANGED <<cur, image, committed>>

\* dfu_set_alt ignores a setting there is no target for.
Selected(alt) == IF alt \in Targets THEN alt ELSE cur

\* SET_INTERFACE
SetAlt(alt) ==
  /\ cur' = Selected(alt)
  /\ state' = IF alt \in Targets THEN "idle" ELSE state
  /\ status' = IF alt \in Targets THEN "ok" ELSE status
  /\ UNCHANGED <<image, committed>>

-----------------------------------------------------------------------------
(* The host                                                                *)

\* Select a target and start a download.
Start(t, length) ==
  /\ stage = "ready"
  /\ job.n < MaxDownloads
  /\ SetAlt(t)
  /\ job' = [n |-> job.n + 1, target |-> t, length |-> length, sent |-> 0]
  /\ stage' = "blocks"
  /\ UNCHANGED strays

SendBlock ==
  /\ stage = "blocks"
  /\ Dnload(job.sent % BlockNumbers, job.n)
  /\ job' = [job EXCEPT !.sent = @ + 1]
  /\ stage' = "poll"
  /\ UNCHANGED strays

SendEnd ==
  /\ stage = "end"
  /\ DnloadEnd
  /\ stage' = "done"
  /\ UNCHANGED <<job, strays>>

\* GETSTATUS: on an error clear it and give the download up, otherwise go on.
Poll ==
  /\ stage = "poll"
  /\ state # "error"
  /\ GetStatus
  /\ stage' = IF job.sent = job.length THEN "end" ELSE "blocks"
  /\ UNCHANGED <<job, strays>>

PollError ==
  /\ stage = "poll"
  /\ state = "error"
  /\ ToIdle
  /\ stage' = "ready"
  /\ UNCHANGED <<job, strays>>

\* The manifestation is polled for as well; then the host may start over.
Finish ==
  /\ stage = "done"
  /\ GetStatus
  /\ stage' = "ready"
  /\ UNCHANGED <<job, strays>>

\* The host gives up a download between two blocks.
Abort ==
  /\ stage \in {"blocks", "end"}
  /\ ToIdle
  /\ stage' = "ready"
  /\ UNCHANGED <<job, strays>>

\* An upload between downloads.
ReadBack ==
  /\ stage = "ready"
  /\ Upload
  /\ UNCHANGED <<dfuhost, strays>>

\* Any request at any time.
AnyRequest ==
  /\ strays < MaxStrays
  /\ strays' = strays + 1
  /\ \/ \E b \in 0..(BlockNumbers - 1) : Dnload(b, job.n)
     \/ DnloadEnd
     \/ Upload
     \/ GetStatus
     \/ ToIdle
     \/ \E a \in Alts : SetAlt(a)
  /\ UNCHANGED dfuhost

DfuNext ==
  \/ \E t \in Targets, l \in ImageLengths : Start(t, l)
  \/ SendBlock \/ SendEnd \/ Poll \/ PollError \/ Finish \/ Abort \/ ReadBack
  \/ AnyRequest

-----------------------------------------------------------------------------
(* Properties                                                              *)

OneImage ==
  stage = "done" /\ strays = 0 =>
    committed[job.target] =
      <<[o \in 0..(BlockNumbers - 1) |-> IF o < job.length THEN job.n ELSE 0]>>

AckedIsKept ==
  stage = "end" /\ strays = 0
  => \A o \in 0..(job.length - 1) : image[job.target][o % BlockNumbers] = job.n

StatusMatchesState == (state = "error") <=> (status = "err")

\* What a target commits is the whole image of one download, and nothing of an earlier
\* one that was longer, aborted or failed: begin, write and finish fit together.  When the
\* host has polled its last block without an error, the backend holds every block of this
\* download: neither a block whose write failed nor one that a later begin wiped was
\* reported as taken.  And whatever requests come in whatever order, GETSTATUS reports an
\* error status exactly when it reports dfuERROR.
DownloadIsSound == OneImage /\ AckedIsKept /\ StatusMatchesState
=============================================================================
