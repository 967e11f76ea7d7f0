---------------------------- MODULE MCSpeakPiper ----------------------------
(***************************************************************************)
(* Model checking of SpeakPiper, with a sink and with PIPER_PULSE at once: *)
(* the initial state chooses.  Two lines, so that Piper stops to write     *)
(* while more text waits, and an outpipe smaller than what one line makes, *)
(* so that Piper blocks on it (the WAV data of a sentence is larger than   *)
(* the 64 KiB of a pipe).                                                  *)
(***************************************************************************)
EXTENDS SpeakPiper
=============================================================================
