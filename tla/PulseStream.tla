----------------------------- MODULE PulseStream -----------------------------
(***************************************************************************)
(* The Pulse stream of utils.c, kept from text to text: pulse_open, the    *)
(* loop of speak_piper that plays on it, and the end of speech_close.  The *)
(* sound server is external: an open may fail, and the connection of a     *)
(* stream may break at any time; no write on it succeeds after that.       *)
(***************************************************************************)
EXTENDS Integers

CONSTANTS
  Headers,   \* what wav_read_header may return
  MaxOpens   \* bound: streams opened in a behaviour

ASSUME HeadersAssumption  == \A h \in Headers : h.channels \in Nat
ASSUME MaxOpensAssumption == MaxOpens \in Nat

VARIABLES
  pc,       \* where the worker is: "idle", "header", "play" or "discard"
  info,     \* the header of the text being spoken
  stream,   \* pulse_stream: the number of a stream, 0 for NULL
  spec,     \* pulse_spec
  opened,   \* how many streams were opened
  handles,  \* the streams opened and not freed
  broken    \* those whose connection broke

vars == <<pc, info, stream, spec, opened, handles, broken>>

\* The cast to uint8_t.
Uint8(n) == n % 256

\* The sample spec of a header: channels is cast to 8 bits.
SpecOf(h) == [rate |-> h.rate, channels |-> Uint8(h.channels)]

\* pa_sample_spec_valid, with the limits of PulseAudio.
PA_RATE_MAX == 48000 * 8
Valid(s) == s.rate \in 1 .. PA_RATE_MAX /\ s.channels \in 1 .. 32

\* pa_sample_spec, with channels in 8 bits.
SampleSpecs == [rate : {h.rate : h \in Headers}, channels : 0 .. 255]

TypeOK ==
  /\ pc \in {"idle", "header", "play", "discard"}
  /\ info \in Headers
  /\ opened \in 0 .. MaxOpens /\ stream \in 0 .. opened
  /\ spec \in SampleSpecs
  /\ handles \subseteq 1 .. opened
  /\ broken \subseteq 1 .. opened

Init ==
  /\ pc = "idle" /\ info \in Headers
  /\ stream = 0 /\ spec = SpecOf(info)
  /\ opened = 0 /\ handles = {} /\ broken = {}

\* The next text; its WAV header can be read, or not.
Speak ==
  /\ pc = "idle"
  /\ \/ pc' = "header" /\ info' \in Headers
     \/ pc' = "discard" /\ UNCHANGED info
  /\ UNCHANGED <<stream, spec, opened, handles, broken>>

Refused(h) ==
  \/ h.format # 1 \/ h.bits # 16
  \/ h.channels = 0 \/ h.rate = 0
  \/ ~Valid(SpecOf(h))

OpenRefused ==
  /\ pc = "header" /\ Refused(info)
  /\ pc' = "discard"
  /\ UNCHANGED <<info, stream, spec, opened, handles, broken>>

\* Mutant: the stream is kept if the rate is the same.
SameRate == stream # 0 /\ spec.rate = info.rate

\* The open stream has the sample spec of the new text.
Fits == stream # 0 /\ spec = SpecOf(info)

OpenReused ==
  /\ pc = "header" /\ ~Refused(info) /\ Fits
  /\ pc' = "play"
  /\ UNCHANGED <<info, stream, spec, opened, handles, broken>>

\* Mutant: the old stream is not freed.
OpenNewOverOld ==
  /\ pc = "header" /\ ~Refused(info) /\ ~Fits
  /\ opened < MaxOpens
  /\ opened' = opened + 1 /\ stream' = opened'
  /\ handles' = handles \cup {stream'}
  /\ spec' = SpecOf(info) /\ pc' = "play"
  /\ UNCHANGED <<info, broken>>

\* The old stream is freed, and pa_simple_new makes another, or fails.
OpenNew ==
  /\ pc = "header" /\ ~Refused(info) /\ ~Fits
  /\ \/ /\ opened < MaxOpens
        /\ opened' = opened + 1 /\ stream' = opened'
        /\ handles' = (handles \ {stream}) \cup {stream'}
        /\ spec' = SpecOf(info) /\ pc' = "play"
     \/ /\ stream' = 0
        /\ handles' = handles \ {stream}
        /\ pc' = "discard" /\ UNCHANGED <<opened, spec>>
  /\ UNCHANGED <<info, broken>>

\* pa_simple_write of what was read: it plays, or fails and ends the loop.
Write ==
  /\ pc = "play"
  /\ IF stream \in broken
     THEN pc' = "idle"
     ELSE UNCHANGED pc
  /\ UNCHANGED <<info, stream, spec, opened, handles, broken>>

\* The end of the WAV data, played or discarded.
EndOfText ==
  /\ pc \in {"play", "discard"}
  /\ pc' = "idle"
  /\ UNCHANGED <<info, stream, spec, opened, handles, broken>>

\* speech_close, and a later start.
Close ==
  /\ pc = "idle"
  /\ stream' = 0 /\ handles' = handles \ {stream}
  /\ UNCHANGED <<pc, info, spec, opened, broken>>

\* External: the server ends, or drops the connection.
Breaks ==
  /\ stream # 0
  /\ broken' = broken \cup {stream}
  /\ UNCHANGED <<pc, info, stream, spec, opened, handles>>

Next ==
  \/ Speak \/ OpenRefused \/ OpenReused \/ OpenNew
  \/ Write \/ EndOfText \/ Close \/ Breaks

Spec == Init /\ [][Next]_vars

-----------------------------------------------------------------------------
(* Properties.                                                             *)

\* What is played is played on an open stream of the rate and the channels its
\* own header gives, also when the stream was opened for an earlier text; with
\* fewer than 257 channels, of which the cast would make one.
PlayedAsHeader ==
  pc = "play" /\ info.channels <= 256 =>
    /\ stream \in handles
    /\ info.format = 1 /\ info.bits = 16
    /\ spec.rate = info.rate /\ spec.channels = info.channels

\* No stream is ever lost track of: the one open stream is the one in use.
OneStream == handles = {stream} \ {0}
=============================================================================
