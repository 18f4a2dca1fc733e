-------------------------------- MODULE Uac --------------------------------
(***************************************************************************)
(* The audio class (src/src/classes/device/uac.c): microphone and speaker  *)
(* streams that SET_INTERFACE switches on and off, and a Feature Unit for  *)
(* each.  Sample n of the microphone is the number n; Silence stands for a *)
(* muted one.  A unit of a buffer is one sample.                           *)
(***************************************************************************)
EXTENDS IsoPayload

CONSTANTS
  MicLengths,   \* samples the host asks for in a packet
  MaxPackets,   \* bound: packets of a URB
  MaxSamples    \* bound: samples of a session

ASSUME UacAssumption == MicLengths \subseteq Nat /\ MaxPackets \in Nat \ {0} /\ MaxSamples \in Nat

Silence == -1

VARIABLES
  uac,        \* struct uac_state: mic_on, spk_on, mic_samples, spk_bytes, and the mutes
  recorded,   \* the host: samples it got in this session, and the packets of the last URB
  played      \* what the host sent last to the speaker, and what the application got of it

uacvars == <<uac, recorded, played>>

UacInit ==
  /\ uac = [mic_on |-> FALSE, spk_on |-> FALSE, mic_samples |-> 0, spk_bytes |-> 0,
            mute_play |-> FALSE, mute_cap |-> FALSE]
  /\ recorded = [from |-> 0, data |-> <<>>]
  /\ played = [sent |-> <<>>, sink |-> <<>>, total |-> 0]

\* uac_control: the Feature Units' mute. Volume is kept and changes no sample.
Mute(which, on) ==
  /\ uac' = [uac EXCEPT ![which] = on]
  /\ UNCHANGED <<recorded, played>>

\* A stream that is on already goes on.
Starts(alt, on) == alt = 1 /\ ~on

\* uac_set_alt on the microphone's interface, and on the speaker's.
SetMic(alt) ==
  /\ uac' = [uac EXCEPT !.mic_on = IF alt = 1 THEN TRUE ELSE IF alt = 0 THEN FALSE ELSE @,
                        !.mic_samples = IF Starts(alt, uac.mic_on) THEN 0 ELSE @]
  /\ recorded' = IF alt = 1 /\ ~uac.mic_on THEN [from |-> 0, data |-> <<>>] ELSE recorded
  /\ UNCHANGED played

SetSpeaker(alt) ==
  /\ uac' = [uac EXCEPT !.spk_on = IF alt = 1 THEN TRUE ELSE IF alt = 0 THEN FALSE ELSE @,
                        !.spk_bytes = IF Starts(alt, uac.spk_on) THEN 0 ELSE @]
  /\ played' = IF alt = 1 /\ ~uac.spk_on THEN [sent |-> <<>>, sink |-> <<>>, total |-> 0] ELSE played
  /\ UNCHANGED recorded

\* How many of the n samples asked for in a packet come, when the source makes m of them: a
\* muted microphone makes all of them, silent.
Frames(n, m) == IF ~uac.mic_on THEN 0 ELSE IF uac.mute_cap THEN n ELSE m

\* uac_in_iso, packet by packet: from mic_samples on, which counts what the packets before held.
uac_in_iso(lens, ms) ==
  LET frames == [i \in DOMAIN lens |-> Frames(lens[i], ms[i])] IN
  [i \in DOMAIN lens |-> [k \in 1..frames[i] |->
     IF uac.mute_cap THEN Silence ELSE uac.mic_samples + Ends(frames)[i - 1] + k - 1]]

\* What the source may make of the samples asked for.
MicSource(lens) == {ms \in [DOMAIN lens -> 0..Total(lens)] : \A i \in DOMAIN lens : ms[i] <= lens[i]}

Record(lens) ==
  /\ \E ms \in MicSource(lens) :
       LET made == uac_in_iso(lens, ms)
           got == FlattenSeq(Inbound(Slots(lens), made))
           next == uac.mic_samples + Total(Lengths(made)) IN
       /\ next <= MaxSamples /\ recorded.from + Len(recorded.data) + Len(got) <= MaxSamples
       /\ uac' = [uac EXCEPT !.mic_samples = next]
       /\ recorded' = [from |-> recorded.from + Len(recorded.data), data |-> got]
  /\ UNCHANGED played

\* uac_out_iso: packets of the host's samples, to the application unless it is muted.
uac_out_iso(made) == IF uac.mute_play THEN <<>> ELSE FlattenSeq(made)

Play(lens) ==
  LET buf == [k \in 1..Total(lens) |-> k]  made == Outbound(buf, Slots(lens)) IN
  /\ uac.spk_bytes + Total(lens) <= MaxSamples
  /\ uac' = [uac EXCEPT !.spk_bytes = @ + Total(lens)]
  /\ played' = [sent |-> IF uac.mute_play THEN <<>> ELSE buf, sink |-> uac_out_iso(made),
                total |-> played.total + Total(lens)]
  /\ UNCHANGED recorded

UacNext ==
  \/ \E w \in {"mute_play", "mute_cap"}, on \in BOOLEAN : Mute(w, on)
  \/ \E alt \in 0..2 : SetMic(alt) \/ SetSpeaker(alt)
  \/ \E lens \in PacketLengths(MicLengths, MaxPackets) : Record(lens) \/ Play(lens)

---------------------------------------------------------------------------
\* The two streams keep their samples in order through mute, short packets,
\* an alternate setting that is set again and both directions at once: the
\* host finds at each place of a recording the sample of that place, or
\* silence; the speaker's application gets what the host's slots held, and the
\* counter reported at the end of a session counts it all.
AudioIsContinuous ==
  /\ \A k \in DOMAIN recorded.data : recorded.data[k] \in {Silence, recorded.from + k - 1}
  /\ played.sink = played.sent
  /\ played.total = uac.spk_bytes
=============================================================================
