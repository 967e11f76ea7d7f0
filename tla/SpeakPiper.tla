----------------------------- MODULE SpeakPiper -----------------------------
(***************************************************************************)
(* speak_piper of utils.c: the worker thread speaks one text through two   *)
(* pipes and two children.  The text goes down inpipe to Piper; the WAV    *)
(* data Piper makes comes up outpipe, to a sink process (aplay) or, with   *)
(* PIPER_PULSE set, to the thread itself, which plays it.                  *)
(*                                                                         *)
(* A pipe is a count of units and the sets of its ends that processes have *)
(* open: a read of an empty pipe blocks while some process has the write   *)
(* end, a write to a full one while some process has the read end.  A unit *)
(* of inpipe is a line of the text; Piper makes Wav units from each.       *)
(* Piper, the sink and the other processes of the host are external.       *)
(***************************************************************************)
EXTENDS Integers

CONSTANTS
  Lines,          \* lines of a text, the last one ended by speak_piper
  Wav,            \* units of WAV data per line
  InCap, OutCap,  \* what the kernel buffers in each pipe
  IgnoreSigpipe,  \* the host process ignores SIGPIPE
  UseSpeechd      \* the build option USE_SPEECHD

\* A text is cut to TTS_MAX_TEXT = 4096 bytes, a pipe holds 65536.
ASSUME TextFitsPipe == Lines \in Nat \ {0} /\ InCap \in Nat /\ Lines <= InCap
ASSUME WavAssumption == Wav \in Nat \ {0} /\ OutCap \in Nat \ {0}
ASSUME BuildAssumption ==
  IgnoreSigpipe \in BOOLEAN /\ UseSpeechd \in BOOLEAN

Procs == {"host", "piper", "sink", "other"}
InEnds  == {"inR", "inW"}     \* inpipe[0], inpipe[1]
OutEnds == {"outR", "outW"}   \* outpipe[0], outpipe[1]
Ends    == InEnds \cup OutEnds
CloseAll == Ends              \* close_all

VARIABLES
  pulseEnabled, \* pulse_enabled: built with USE_PULSE, and PIPER_PULSE was set at
                \* speech_init; no step of the worker changes it
  pc,       \* where the worker thread is in speak_piper
  left,     \* lines of the text not yet written to inpipe
  open,     \* the pipe ends each process has open
  cloexec,  \* the ends of the host that an exec closes
  inb, outb,\* units in each pipe
  piper, sink, \* the children: "none", "run", or "zombie" until waited for
  owe,      \* units Piper still has to write for the line it read
  played,   \* units of this text that became sound
  fell,     \* this text was given to speech-dispatcher
  clean     \* nothing failed while this text was spoken

pipes == <<open, cloexec, inb, outb>>
vars  == <<pulseEnabled, pc, left, pipes, piper, sink, owe, played, fell, clean>>

Places ==
  {"idle", "pipe in", "pipe out", "cloexec", "spawn piper", "close child ends",
   "write", "spawn sink", "hand over", "wait piper", "wait sink",
   "kill", "wait killed", "close out",
   "header", "play", "discard", "close pulse", "wait pulse", "killed"}

TypeOK ==
  /\ pulseEnabled \in BOOLEAN
  /\ pc \in Places /\ left \in 0 .. Lines
  /\ open \in [Procs -> SUBSET Ends] /\ cloexec \subseteq Ends
  /\ inb \in 0 .. InCap /\ outb \in 0 .. OutCap
  /\ piper \in {"none", "run", "zombie"} /\ sink \in {"none", "run", "zombie"}
  /\ owe \in 0 .. Wav /\ played \in 0 .. Lines * Wav
  /\ fell \in BOOLEAN /\ clean \in BOOLEAN

Init ==
  /\ pulseEnabled \in BOOLEAN
  /\ pc = "idle" /\ left = 0
  /\ open = [p \in Procs |-> {}] /\ cloexec = {}
  /\ inb = 0 /\ outb = 0
  /\ piper = "none" /\ sink = "none" /\ owe = 0
  /\ played = 0 /\ fell = FALSE /\ clean = FALSE

Goto(from, to) == pc = from /\ pc' = to

\* Some process, perhaps the host itself, has this end of a pipe.
Held(e) == \E p \in Procs : e \in open[p]

\* Mutant: the ends of outpipe are forgotten.
CloseInOnly(es) == open' = [open EXCEPT !["host"] = @ \ (es \cap InEnds)]

Close(es) == open' = [open EXCEPT !["host"] = @ \ es]

\* pipe(): its ends are the host's alone and survive an exec.
NewPipe(es) ==
  /\ open' = [p \in Procs |-> IF p = "host" THEN open[p] \cup es ELSE open[p] \ es]
  /\ cloexec' = cloexec \ es

\* spawn_process: dup2 the standard streams, close close_all, exec.
Inherited(std) == ((open["host"] \ cloexec) \ CloseAll) \cup std
Spawn(child, std) == open' = [open EXCEPT ![child] = Inherited(std)]

\* speechd_fallback_say; whether speech-dispatcher is there is in Speech.
Fallback == fell' = UseSpeechd

-----------------------------------------------------------------------------
(* The worker thread in speak_piper, one action per system call that can   *)
(* fail, block or be seen by another process.                              *)

Speak ==
  /\ Goto("idle", "pipe in")
  /\ left' = Lines
  /\ played' = 0 /\ fell' = FALSE /\ clean' = TRUE
  /\ UNCHANGED <<pulseEnabled, pipes, piper, sink, owe>>

PipeIn ==
  /\ \/ /\ Goto("pipe in", "pipe out")
        /\ NewPipe(InEnds) /\ inb' = 0
        /\ UNCHANGED clean
     \/ /\ Goto("pipe in", "idle")
        /\ clean' = FALSE
        /\ UNCHANGED <<open, cloexec, inb>>
  /\ UNCHANGED <<pulseEnabled, left, outb, piper, sink, owe, played, fell>>

PipeOut ==
  /\ \/ /\ Goto("pipe out", "cloexec")
        /\ NewPipe(OutEnds) /\ outb' = 0
        /\ UNCHANGED clean
     \/ /\ Goto("pipe out", "idle")
        /\ Close(InEnds)
        /\ clean' = FALSE
        /\ UNCHANGED <<cloexec, outb>>
  /\ UNCHANGED <<pulseEnabled, left, inb, piper, sink, owe, played, fell>>

\* The four set_cloexec.  What a process started between two of them inherits
\* is part of what one started before the first inherits.
SetCloexec ==
  /\ Goto("cloexec", "spawn piper")
  /\ cloexec' = Ends
  /\ UNCHANGED <<pulseEnabled, left, open, inb, outb, piper, sink, owe, played, fell, clean>>

SpawnPiper ==
  /\ \/ /\ Goto("spawn piper", "close child ends")
        /\ Spawn("piper", {"inR", "outW"})
        /\ piper' = "run" /\ owe' = 0
        /\ UNCHANGED <<fell, clean>>
     \/ /\ Goto("spawn piper", "idle")
        /\ Close(Ends)
        /\ Fallback
        /\ clean' = FALSE
        /\ UNCHANGED <<piper, owe>>
  /\ UNCHANGED <<pulseEnabled, left, cloexec, inb, outb, sink, played>>

CloseChildEnds ==
  /\ Goto("close child ends", "write")
  /\ Close({"inR", "outW"})
  /\ UNCHANGED <<pulseEnabled, left, cloexec, inb, outb, piper, sink, owe, played, fell, clean>>

\* write_all: blocks while the pipe is full, gives up on an error; without a
\* reader the kernel sends SIGPIPE, which ends a host that does not ignore it.
WriteText ==
  /\ pc = "write" /\ left > 0
  /\ IF Held("inR")
     THEN /\ inb < InCap
          /\ inb' = inb + 1 /\ left' = left - 1
          /\ UNCHANGED <<pc, open, clean>>
     ELSE /\ clean' = FALSE
          /\ IF IgnoreSigpipe
             THEN left' = 0 /\ UNCHANGED <<pc, open>>
             ELSE pc' = "killed" /\ Close(Ends) /\ UNCHANGED left
          /\ UNCHANGED inb
  /\ UNCHANGED <<pulseEnabled, cloexec, outb, piper, sink, owe, played, fell>>

\* Mutant: inpipe stays open.
CloseTextNot ==
  /\ left = 0
  /\ Goto("write", IF pulseEnabled THEN "header" ELSE "spawn sink")
  /\ UNCHANGED <<pulseEnabled, left, pipes, piper, sink, owe, played, fell, clean>>

CloseText ==
  /\ left = 0
  /\ Goto("write", IF pulseEnabled THEN "header" ELSE "spawn sink")
  /\ Close({"inW"})
  /\ UNCHANGED <<pulseEnabled, left, cloexec, inb, outb, piper, sink, owe, played, fell, clean>>

SpawnSink ==
  /\ \/ /\ Goto("spawn sink", "hand over")
        /\ Spawn("sink", {"outR"})
        /\ sink' = "run"
        /\ UNCHANGED clean
     \/ /\ Goto("spawn sink", "kill")
        /\ clean' = FALSE
        /\ UNCHANGED <<open, sink>>
  /\ UNCHANGED <<pulseEnabled, left, cloexec, inb, outb, piper, owe, played, fell>>

HandOver ==
  /\ Goto("hand over", "wait piper")
  /\ Close({"outR"})
  /\ UNCHANGED <<pulseEnabled, left, cloexec, inb, outb, piper, sink, owe, played, fell, clean>>

\* Mutant: Piper is reaped without waiting for its end.
ReapAtOnce(from, to) ==
  /\ Goto(from, to)
  /\ piper' = "none" /\ open' = [open EXCEPT !["piper"] = {}]
  /\ UNCHANGED <<pulseEnabled, left, cloexec, inb, outb, sink, owe, played, fell, clean>>

\* waitpid blocks until the child is dead, and reaps it.
WaitPiper(from, to) ==
  /\ Goto(from, to)
  /\ piper = "zombie" /\ piper' = "none"
  /\ UNCHANGED <<pulseEnabled, left, pipes, sink, owe, played, fell, clean>>

\* Mutant: fall back when the sink has failed, too.
WaitSinkFallsBack ==
  /\ Goto("wait sink", "idle")
  /\ sink = "zombie" /\ sink' = "none"
  /\ fell' = (UseSpeechd /\ ~clean)
  /\ UNCHANGED <<pulseEnabled, left, pipes, piper, owe, played, clean>>

WaitSink ==
  /\ Goto("wait sink", "idle")
  /\ sink = "zombie" /\ sink' = "none"
  /\ UNCHANGED <<pulseEnabled, left, pipes, piper, owe, played, fell, clean>>

\* The sink could not be spawned: kill(piper_pid, SIGTERM).
KillPiper ==
  /\ Goto("kill", "wait killed")
  /\ piper' = "zombie"
  /\ open' = [open EXCEPT !["piper"] = {}]
  /\ UNCHANGED <<pulseEnabled, left, cloexec, inb, outb, sink, owe, played, fell, clean>>

CloseOut ==
  /\ Goto("close out", "idle")
  /\ Close({"outR"})
  /\ Fallback
  /\ UNCHANGED <<pulseEnabled, left, cloexec, inb, outb, piper, sink, owe, played, clean>>

\* Mutants: an empty pipe is read, or taken for its end.
ReadOutBlindly == outb' = outb - 1
EndWhenEmpty   == outb = 0

\* PIPER_PULSE: a read of outpipe, or its end.
ReadOut  == outb > 0 /\ outb' = outb - 1
EndOfOut == outb = 0 /\ ~Held("outW")

\* wav_read_header and pulse_open: the first unit is the header.
PulseHeader ==
  /\ pc = "header"
  /\ \/ ReadOut /\ pc' = "play" /\ UNCHANGED clean
     \/ ReadOut /\ pc' = "discard" /\ clean' = FALSE
     \/ EndOfOut /\ pc' = "discard" /\ clean' = FALSE /\ UNCHANGED outb
  /\ UNCHANGED <<pulseEnabled, left, open, cloexec, inb, piper, sink, owe, played, fell>>

\* pa_simple_write plays what was read, or fails and ends the loop.
PulsePlay ==
  /\ pc = "play"
  /\ \/ ReadOut /\ played' = played + 1 /\ UNCHANGED <<pc, clean>>
     \/ ReadOut /\ pc' = "close pulse" /\ clean' = FALSE /\ UNCHANGED played
     \/ EndOfOut /\ pc' = "close pulse" /\ UNCHANGED <<outb, played, clean>>
  /\ UNCHANGED <<pulseEnabled, left, open, cloexec, inb, piper, sink, owe, fell>>

PulseDiscard ==
  /\ pc = "discard"
  /\ \/ ReadOut /\ UNCHANGED pc
     \/ EndOfOut /\ pc' = "close pulse" /\ UNCHANGED outb
  /\ UNCHANGED <<pulseEnabled, left, open, cloexec, inb, piper, sink, owe, played, fell, clean>>

\* Mutants: outpipe is closed after Piper is waited for; a failed playback
\* falls back.
PulseCloseLate ==
  /\ Goto("close pulse", "wait pulse")
  /\ UNCHANGED <<pulseEnabled, left, pipes, piper, sink, owe, played, fell, clean>>

PulseCloseFallsBack ==
  /\ Goto("close pulse", "wait pulse")
  /\ Close({"outR"})
  /\ fell' = (UseSpeechd /\ ~clean)
  /\ UNCHANGED <<pulseEnabled, left, cloexec, inb, outb, piper, sink, owe, played, clean>>

PulseClose ==
  /\ Goto("close pulse", "wait pulse")
  /\ Close({"outR"})
  /\ UNCHANGED <<pulseEnabled, left, cloexec, inb, outb, piper, sink, owe, played, fell, clean>>

-----------------------------------------------------------------------------
(* External: the children and the rest of the host.                        *)

PiperExits == piper' = "zombie" /\ open' = [open EXCEPT !["piper"] = {}]
SinkExits  == sink' = "zombie" /\ open' = [open EXCEPT !["sink"] = {}]

\* Piper reads a line when it has written all the WAV data of the last one,
\* and is ended by SIGPIPE, or by the error, when nobody is left to read.
PiperReads ==
  /\ piper = "run" /\ owe = 0
  /\ inb > 0 /\ inb' = inb - 1
  /\ owe' = Wav
  /\ UNCHANGED <<pulseEnabled, pc, left, open, cloexec, outb, piper, sink, played, fell, clean>>

PiperWrites ==
  /\ piper = "run" /\ owe > 0
  /\ IF Held("outR")
     THEN /\ outb < OutCap /\ outb' = outb + 1
          /\ owe' = owe - 1
          /\ UNCHANGED <<open, piper, clean>>
     ELSE PiperExits /\ clean' = FALSE /\ UNCHANGED <<outb, owe>>
  /\ UNCHANGED <<pulseEnabled, pc, left, cloexec, inb, sink, played, fell>>

PiperDone ==
  /\ piper = "run" /\ owe = 0
  /\ inb = 0 /\ ~Held("inW")
  /\ PiperExits
  /\ UNCHANGED <<pulseEnabled, pc, left, cloexec, inb, outb, sink, owe, played, fell, clean>>

\* A model file that does not load, a crash, a kill.
PiperFails ==
  /\ piper = "run"
  /\ PiperExits
  /\ clean' = FALSE
  /\ UNCHANGED <<pulseEnabled, pc, left, cloexec, inb, outb, sink, owe, played, fell>>

SinkPlays ==
  /\ sink = "run"
  /\ ReadOut
  /\ played' = played + 1
  /\ UNCHANGED <<pulseEnabled, pc, left, open, cloexec, inb, piper, sink, owe, fell, clean>>

SinkDone ==
  /\ sink = "run"
  /\ EndOfOut
  /\ SinkExits
  /\ UNCHANGED <<pulseEnabled, pc, left, cloexec, inb, outb, piper, owe, played, fell, clean>>

SinkFails ==
  /\ sink = "run"
  /\ SinkExits
  /\ clean' = FALSE
  /\ UNCHANGED <<pulseEnabled, pc, left, cloexec, inb, outb, piper, owe, played, fell>>

\* Another thread of the host starts a process, which inherits every end that
\* is open and not yet close-on-exec; and that process ends.
OtherStarts ==
  /\ open["other"] = {} /\ open["host"] \ cloexec # {}
  /\ open' = [open EXCEPT !["other"] = open["host"] \ cloexec]
  /\ UNCHANGED <<pulseEnabled, pc, left, cloexec, inb, outb, piper, sink, owe, played, fell, clean>>

OtherEnds ==
  /\ open["other"] # {}
  /\ open' = [open EXCEPT !["other"] = {}]
  /\ UNCHANGED <<pulseEnabled, pc, left, cloexec, inb, outb, piper, sink, owe, played, fell, clean>>

-----------------------------------------------------------------------------
Pulse == PulseHeader \/ PulsePlay \/ PulseDiscard \/ PulseClose

Host ==
  \/ PipeIn \/ PipeOut \/ SetCloexec
  \/ SpawnPiper \/ CloseChildEnds \/ WriteText \/ CloseText
  \/ SpawnSink \/ HandOver \/ WaitPiper("wait piper", "wait sink") \/ WaitSink
  \/ KillPiper \/ WaitPiper("wait killed", "close out") \/ CloseOut
  \/ Pulse \/ WaitPiper("wait pulse", "idle")

PiperWorks == PiperReads \/ PiperWrites \/ PiperDone
SinkWorks  == SinkPlays \/ SinkDone

Next ==
  \/ Speak \/ Host
  \/ PiperWorks \/ PiperFails \/ SinkWorks \/ SinkFails
  \/ OtherStarts \/ OtherEnds

\* The code waits for Piper and the sink without a timeout, so it is only as
\* live as they are: each goes on reading and writing while it can.  A process
\* of the host that holds a pipe end ends some day.
Fairness ==
  /\ WF_vars(Host)
  /\ WF_vars(PiperWorks) /\ WF_vars(SinkWorks) /\ WF_vars(OtherEnds)

Spec == Init /\ [][Next]_vars /\ Fairness

-----------------------------------------------------------------------------
(* Properties.                                                             *)

\* Whichever call fails, speak_piper returns with every pipe end closed and
\* both children reaped, so a second text never overlaps the sound of the
\* first, and no number of failures exhausts descriptors or processes.
NothingLeaked ==
  pc = "idle" => open["host"] = {} /\ piper = "none" /\ sink = "none"

\* A text is never heard twice: speech-dispatcher gets it only if no part of
\* what Piper made of it was played.
SpokenOnce == fell => played = 0

\* If no call fails and no child dies, all of the text is heard before
\* speak_piper returns: nothing is cut off by an early close or kill.  With
\* Pulse the first unit is the header.
Audio == IF pulseEnabled THEN 1 ELSE 0
HeardInFull ==
  pc = "idle" /\ clean =>
    inb = 0 /\ outb = 0 /\ owe = 0 /\ played = Lines * Wav - Audio

\* speak_piper always returns: the thread and the children never wait for each
\* other in a circle, and every reader sees the end of its pipe.
SpeakReturns == pc = "pipe in" ~> pc = "idle"

\* What README.md says of an invalid model, which Piper leaves at once on:
\* there is no audio.  It does not say that the simulator ends.
HostSurvives == pc # "killed"
=============================================================================
