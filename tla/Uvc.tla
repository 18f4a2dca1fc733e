-------------------------------- MODULE Uvc --------------------------------
(***************************************************************************)
(* The video class (src/src/classes/device/uvc.c): Probe/Commit, streaming *)
(* that SET_INTERFACE switches, and frames cut into payloads with a header *)
(* each; and a host that puts them together again by FID and EOF.  Each    *)
(* unit of a frame is a number of its own.  The host selects setting 0     *)
(* before it starts to stream, as video drivers do when they bind.         *)
(***************************************************************************)
EXTENDS IsoPayload

CONSTANTS
  FrameCap,       \* frame_cap: the longest frame
  FrameLengths,   \* lengths of frames that next_frame returns
  Requests,       \* lengths of the packets the host asks for
  UrbPackets,     \* bound: packets of a URB
  MaxFrames,      \* bound: frames of a session
  Formats         \* bFormatIndex values of the host; 0 keeps the current one

ASSUME UvcAssumption ==
  FrameCap \in Nat /\ FrameLengths \subseteq 0..FrameCap /\ Requests \subseteq Nat /\ UrbPackets \in Nat \ {0} /\ MaxFrames \in Nat

HdrLen == 2       \* UVC_PAYLOAD_HDR_LEN

VARIABLES
  cam,        \* struct uvc_state: streaming, frame_index, frame_len, frame_pos, fid, cur_format
  viewer,     \* the host: the FID it is on, what it has of the frame, frames it has seen
  shown,      \* the last frame it completed, and which one it took it for
  asked       \* the format the host asked for last

uvcvars == <<cam, viewer, shown, asked>>

Nothing == [n |-> 0, data |-> <<>>, whole |-> <<>>]

UvcInit ==
  /\ cam = [streaming |-> FALSE, frame_index |-> 0, frame_len |-> 0, frame_pos |-> 0, fid |-> 0, cur_format |-> 1]
  /\ viewer = [fid |-> 0, data |-> <<>>, frames |-> 0]
  /\ shown = Nothing /\ asked = 1

\* SET_CUR of Probe and of Commit alike; what GET_CUR answers (fill_probe) is cur_format.
SetCur(format) ==
  /\ cam' = [cam EXCEPT !.cur_format = IF format = 0 THEN @ ELSE format]
  /\ asked' = IF format = 0 THEN asked ELSE format
  /\ UNCHANGED <<viewer, shown>>

\* Fault: a session goes on with the frame the last one was in.
Restarted_Resumes(c) == [c EXCEPT !.streaming = TRUE, !.fid = 0, !.frame_index = 0]

\* frame_pos is cleared with a frame_len of 0, where nothing reads it.
Restarted(c) ==
  [c EXCEPT !.streaming = TRUE, !.frame_len = 0, !.frame_pos = 0, !.fid = 0, !.frame_index = 0]

\* uvc_set_alt: only the streaming interface has settings.
uvc_set_alt(alt) ==
  cam' = IF alt = 1 /\ ~cam.streaming THEN Restarted(cam)
         ELSE IF alt = 0 /\ cam.streaming THEN [cam EXCEPT !.streaming = FALSE] ELSE cam

Stream(alt) ==
  /\ uvc_set_alt(alt)
  /\ viewer' = IF alt = 1 /\ ~cam.streaming THEN [fid |-> 0, data |-> <<>>, frames |-> 0] ELSE viewer
  /\ shown' = IF alt = 1 /\ ~cam.streaming THEN Nothing ELSE shown
  /\ UNCHANGED asked

\* A host that went away leaves the camera streaming; the next one sets both settings.
Rebind ==
  /\ cam' = Restarted([cam EXCEPT !.streaming = FALSE])
  /\ viewer' = [fid |-> 0, data |-> <<>>, frames |-> 0]
  /\ shown' = Nothing /\ UNCHANGED asked

---------------------------------------------------------------------------
\* Unit k of frame f.
Pixel(f, k) == FrameCap * f + k

FrameOf(c) == [k \in 1..c.frame_len |-> Pixel(c.frame_index, k)]

\* produce_frame, when there is none under way: the source returns n units.
Produced(c, n) == IF c.frame_len = 0 THEN [c EXCEPT !.frame_len = n, !.frame_pos = 0] ELSE c

\* One packet of uvc_on_iso: header and chunk, and the camera after it.
Payload(c, req, n) ==
  IF ~c.streaming \/ req < HdrLen THEN [cam |-> c, pkt |-> <<>>, whole |-> <<>>]
  ELSE LET d == Produced(c, n)
           cap == req - HdrLen
           chunk == IF d.frame_len - d.frame_pos < cap THEN d.frame_len - d.frame_pos ELSE cap
           done == d.frame_pos + chunk >= d.frame_len
       IN [pkt |-> <<HdrLen, d.fid + IF done THEN 2 ELSE 0>>
                   \o SubSeq(FrameOf(d), d.frame_pos + 1, d.frame_pos + chunk),
           whole |-> IF done THEN FrameOf(d) ELSE <<>>,
           cam |-> IF done THEN [d EXCEPT !.frame_len = 0, !.frame_pos = 0, !.fid = 1 - @, !.frame_index = @ + 1]
                   ELSE [d EXCEPT !.frame_pos = @ + chunk]]

\* The packets of a URB, each from the camera that the one before left; ns[i] is what
\* next_frame returns if packet i calls it.
uvc_on_iso(lens, ns) ==
  LET made[i \in 0..Len(lens)] ==
        IF i = 0 THEN [cam |-> cam, pkt |-> <<>>, whole |-> <<>>]
        ELSE Payload(made[i - 1].cam, lens[i], ns[i])
  IN made

\* The host takes a payload: a toggled FID starts a frame, EOF ends one.
Taken(v, pkt) ==
  IF pkt = <<>> THEN [view |-> v, complete |-> FALSE, data |-> <<>>]
  ELSE LET fid == pkt[2] % 2
           data == (IF fid # v.fid THEN <<>> ELSE v.data) \o SubSeq(pkt, HdrLen + 1, Len(pkt))
           eof == pkt[2] >= 2
       IN [view |-> [fid |-> IF eof THEN 1 - fid ELSE fid, data |-> IF eof THEN <<>> ELSE data,
                     frames |-> v.frames + IF eof THEN 1 ELSE 0],
           complete |-> eof, data |-> data]

\* One packet after the other; what is shown is checked against the frame that was cut up.
Viewed(pkts, made) ==
  LET seen[i \in 0..Len(pkts)] ==
        IF i = 0 THEN [viewer |-> viewer, shown |-> shown]
        ELSE LET t == Taken(seen[i - 1].viewer, pkts[i]) IN
             [viewer |-> t.view,
              shown |-> IF t.complete THEN [n |-> t.view.frames, data |-> t.data, whole |-> made[i].whole]
                        ELSE seen[i - 1].shown]
  IN seen

View(lens) ==
  /\ \E ns \in [DOMAIN lens -> FrameLengths] :
       LET made == uvc_on_iso(lens, ns)
           pkts == Inbound(Slots(lens), [i \in DOMAIN lens |-> made[i].pkt])
           seen == Viewed(pkts, made) IN
       /\ made[Len(lens)].cam.frame_index <= MaxFrames
       /\ cam' = made[Len(lens)].cam
       /\ viewer' = seen[Len(lens)].viewer /\ shown' = seen[Len(lens)].shown
  /\ UNCHANGED asked

UvcNext ==
  \/ \E f \in Formats : SetCur(f)
  \/ \E alt \in 0..1 : Stream(alt)
  \/ Rebind
  \/ \E lens \in PacketLengths(Requests, UrbPackets) : View(lens)

---------------------------------------------------------------------------
\* The frames a host puts together are the frames that were produced, whole
\* and in order from the first of the session, whatever the lengths of frames
\* and packets (packets with no room for a header, or for nothing else, among
\* them), and however often streaming is stopped in the middle of a frame; and
\* the device's idea of the frame and of the format is the host's.
VideoIsWhole ==
  /\ shown.n > 0 => shown.data = shown.whole /\ \A k \in DOMAIN shown.data : shown.data[k] = Pixel(shown.n - 1, k)
  /\ cam.streaming => viewer.frames = cam.frame_index /\ viewer.fid = cam.fid /\ Len(viewer.data) = cam.frame_pos
  /\ asked = cam.cur_format
=============================================================================
