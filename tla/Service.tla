------------------------------ MODULE Service ------------------------------
(***************************************************************************)
(* The speech service with speak_piper in the place of its backend: the    *)
(* worker of Speech goes through SpeakPiper for each text it pops, step by *)
(* step, while the host speaks, starts and stops.  Speech takes backend_say *)
(* for one step that returns; here that is shown of the code.              *)
(***************************************************************************)
EXTENDS Integers

CONSTANTS
  Cap, Texts, NULL, Main, Callers, UseSpeechd, UsePulse,   \* of Speech
  Lines, Wav, InCap, OutCap, IgnoreSigpipe                 \* of SpeakPiper

VARIABLES q, heap, ready, started, backend, cmds, conn, unavailable, pulse,
          pc, copy, worker, taken                          \* of Speech

VARIABLES at,      \* pc of SpeakPiper
          pulseEnabled, left, open, cloexec, inb, outb, piper, sink, owe, played, fell, clean

VARIABLE inside    \* the worker is in speak_piper

S == INSTANCE Speech
P == INSTANCE SpeakPiper WITH pc <- at

ASSUME SpeechAssumption == S!CapAssumption /\ S!NullAssumption /\ S!BuildAssumption
ASSUME PiperAssumption  == P!TextFitsPipe /\ P!WavAssumption /\ P!BuildAssumption

speech   == <<q, heap, ready, started, backend, cmds, conn, unavailable, pulse,
              pc, copy, worker, taken>>
speaking == <<at, pulseEnabled, left, open, cloexec, inb, outb, piper, sink, owe, played,
              fell, clean>>
vars     == <<speech, speaking, inside>>

Init ==
  /\ S!Init /\ P!Init /\ inside = FALSE
  /\ pulseEnabled => UsePulse

\* Everything of Speech but what the worker does with a text.
Start ==
  /\ \/ \E piperOk, spdOk \in BOOLEAN :
          S!SpeechInitFails(piperOk, spdOk) \/ S!SpeechInit(piperOk, spdOk)
     \/ S!SpeechReady
  /\ UNCHANGED <<speaking, inside>>

Say ==
  /\ \E t \in Callers : S!SpeechSay(t) \/ S!QueuePush(t)
  /\ UNCHANGED <<speaking, inside>>

Pop ==
  /\ S!QueuePop
  /\ UNCHANGED <<speaking, inside>>

Wakeup ==
  /\ S!SpuriousWakeup
  /\ UNCHANGED <<speaking, inside>>

Stop ==
  /\ S!SpeechClose \/ S!QueueStop \/ S!JoinWorker \/ S!Release
  /\ UNCHANGED <<speaking, inside>>

\* backend_say with TTS_PIPER: into speak_piper, on, and out of it.
Begin ==
  /\ worker = "say" /\ backend = "PIPER" /\ ~inside
  /\ P!Speak
  /\ inside' = TRUE
  /\ UNCHANGED speech

GoOn ==
  /\ P!Host
  /\ UNCHANGED <<speech, inside>>

\* What of the fallback and of the Pulse stream is left behind: a connection,
\* or the mark that there is none, only if the text was given to the fallback.
End ==
  /\ inside /\ at = "idle"
  /\ S!BackendSay
  /\ IF fell THEN conn' \/ unavailable' ELSE <<conn', unavailable'>> = <<conn, unavailable>>
  /\ pulseEnabled \/ pulse' = pulse
  /\ inside' = FALSE
  /\ UNCHANGED speaking

\* backend_say with TTS_SPEECHD.
SayWithSpeechd ==
  /\ backend # "PIPER"
  /\ S!BackendSay
  /\ UNCHANGED <<speaking, inside>>

PiperWorks ==
  /\ P!PiperWorks
  /\ UNCHANGED <<speech, inside>>

SinkWorks ==
  /\ P!SinkWorks
  /\ UNCHANGED <<speech, inside>>

ChildFails ==
  /\ P!PiperFails \/ P!SinkFails
  /\ UNCHANGED <<speech, inside>>

OtherStarts ==
  /\ P!OtherStarts
  /\ UNCHANGED <<speech, inside>>

OtherEnds ==
  /\ P!OtherEnds
  /\ UNCHANGED <<speech, inside>>

Next ==
  \/ Start \/ Say \/ Pop \/ Wakeup \/ Stop
  \/ Begin \/ GoOn \/ End \/ SayWithSpeechd
  \/ PiperWorks \/ SinkWorks \/ ChildFails \/ OtherStarts \/ OtherEnds

\* The threads go on, and the children as SpeakPiper assumes.  Nothing is said
\* of how long speak_piper takes, or that it ends.
Fairness ==
  /\ WF_vars(Pop) /\ WF_vars(Begin \/ GoOn \/ End \/ SayWithSpeechd)
  /\ WF_vars(S!SpeechReady /\ UNCHANGED <<speaking, inside>>)
  /\ WF_vars(S!QueueStop /\ UNCHANGED <<speaking, inside>>)
  /\ WF_vars(S!JoinWorker /\ UNCHANGED <<speaking, inside>>)
  /\ WF_vars(S!Release /\ UNCHANGED <<speaking, inside>>)
  /\ \A t \in Callers : WF_vars(S!QueuePush(t) /\ UNCHANGED <<speaking, inside>>)
  /\ WF_vars(PiperWorks) /\ WF_vars(SinkWorks) /\ WF_vars(OtherEnds)

Spec == Init /\ [][Next]_vars /\ Fairness

-----------------------------------------------------------------------------
(* Properties.                                                             *)

\* The detailed service is the one of Speech, its fairness included: that
\* backend_say returns is no assumption but what speak_piper does.
ImplementsSpeech == S!Spec

\* speak_piper runs with what it uses in place: the argv of its children, a
\* text that is not freed, and a service that has not been torn down.  When it
\* does not run, in the service's teardown too, no pipe of it is open and no
\* child is left.
SpeaksAlive ==
  IF inside
  THEN /\ worker = "say" /\ cmds /\ backend = "PIPER" /\ q.usable
       /\ taken \in heap
  ELSE at = "idle" /\ open["host"] = {} /\ piper = "none" /\ sink = "none"
=============================================================================
