-------------------------- MODULE SpeakPiperProofs --------------------------
(***************************************************************************)
(* speak_piper cleans up after itself on every path, and speaks a text at  *)
(* most once: for texts, pipes and WAV data of every size, whichever call  *)
(* fails and whenever a child dies.                                        *)
(***************************************************************************)
EXTENDS SpeakPiper, TLAPS

\* The ends the host has open at each place.
HostEnds(at) ==
  CASE at = "pipe out" -> InEnds
    [] at \in {"cloexec", "spawn piper", "close child ends"} -> Ends
    [] at = "write" -> {"inW", "outR"}
    [] at \in {"spawn sink", "hand over", "kill", "wait killed", "close out",
               "header", "play", "discard", "close pulse"} -> {"outR"}
    [] OTHER -> {}

\* The places without a Piper to wait for, and those with a sink.
NoPiper == {"idle", "pipe in", "pipe out", "cloexec", "spawn piper",
            "wait sink", "close out", "killed"}
WithSink == {"hand over", "wait piper", "wait sink"}

\* The places a text reaches after some of it may have been played.
MayHavePlayed == WithSink \cup {"idle", "play", "close pulse", "wait pulse"}

ChildType == piper \in {"none", "run", "zombie"} /\ sink \in {"none", "run", "zombie"}

EndsInv ==
  /\ pc \in Places
  /\ open \in [Procs -> SUBSET Ends]
  /\ open["host"] = HostEnds(pc)

ChildrenInv ==
  /\ ChildType
  /\ pc \in NoPiper \ {"killed"} => piper = "none"
  /\ sink # "none" => pc \in WithSink

SoundInv ==
  /\ fell => pc = "idle" /\ played = 0
  /\ pc \notin MayHavePlayed => played = 0

PInv == EndsInv /\ ChildrenInv /\ SoundInv

LEMMA PInvInit == Init => PInv
BY DEF Init, PInv, EndsInv, ChildrenInv, SoundInv, HostEnds, Places, NoPiper,
       WithSink, MayHavePlayed, ChildType, Procs, Ends, InEnds, OutEnds

\* One step of the thread, of a child or of another process keeps it.
LEMMA PInvNext == PInv /\ [Next]_vars => PInv'
<1> SUFFICES ASSUME PInv, [Next]_vars PROVE PInv'
  OBVIOUS
<1> USE DEF pipes
<1>i. EndsInv /\ ChildrenInv /\ SoundInv
  BY DEF PInv
<1> USE BuildAssumption
    DEF PInv, EndsInv, ChildrenInv, SoundInv, HostEnds, Places, Ends, InEnds, OutEnds,
        NoPiper, WithSink, MayHavePlayed, ChildType
<1>p. "host" \in Procs /\ "piper" \in Procs /\ "sink" \in Procs /\ "other" \in Procs
  BY DEF Procs
<1>1. CASE Speak
  BY <1>i, <1>p, <1>1 DEF Speak, Goto
<1>2. CASE PipeIn
  BY <1>i, <1>p, <1>2 DEF PipeIn, Goto, NewPipe
<1>3. CASE PipeOut
  BY <1>i, <1>p, <1>3, ZenonT(40) DEF PipeOut, Goto, NewPipe, Close
<1>4. CASE SetCloexec
  BY <1>i, <1>p, <1>4 DEF SetCloexec, Goto
<1>5. CASE SpawnPiper
  <2>1. CASE pc' = "close child ends"
    <3>1. Inherited({"inR", "outW"}) \in SUBSET Ends
      BY <1>i, <1>p DEF Inherited, CloseAll
    <3>2. /\ pc = "spawn piper" /\ piper' = "run"
          /\ open' = [open EXCEPT !["piper"] = Inherited({"inR", "outW"})]
          /\ UNCHANGED <<fell, sink, played>>
      BY <1>5, <2>1 DEF SpawnPiper, Goto, Spawn
    <3> QED
      BY <1>i, <1>p, <2>1, <3>1, <3>2
  <2>2. CASE pc' = "idle"
    BY <1>i, <1>p, <1>5, <2>2 DEF SpawnPiper, Goto, Close, Fallback
  <2> QED
    BY <1>5, <2>1, <2>2 DEF SpawnPiper, Goto
<1>6. CASE CloseChildEnds
  BY <1>i, <1>p, <1>6 DEF CloseChildEnds, Goto, Close
<1>7. CASE WriteText
  BY <1>i, <1>p, <1>7, ZenonT(40) DEF WriteText, Close
<1>8. CASE CloseText
  BY <1>i, <1>p, <1>8 DEF CloseText, Goto, Close
<1>9. CASE SpawnSink
  BY <1>i, <1>p, <1>9 DEF SpawnSink, Goto, Spawn, Inherited, CloseAll
<1>10. CASE HandOver
  BY <1>i, <1>p, <1>10 DEF HandOver, Goto, Close
<1>11. CASE WaitPiper("wait piper", "wait sink")
  BY <1>i, <1>p, <1>11 DEF WaitPiper, Goto
<1>12. CASE WaitSink
  BY <1>i, <1>p, <1>12 DEF WaitSink, Goto
<1>13. CASE KillPiper
  BY <1>i, <1>p, <1>13 DEF KillPiper, Goto
<1>14. CASE WaitPiper("wait killed", "close out")
  BY <1>i, <1>p, <1>14 DEF WaitPiper, Goto
<1>15. CASE CloseOut
  BY <1>i, <1>p, <1>15 DEF CloseOut, Goto, Close, Fallback
<1>16. CASE PulseHeader
  BY <1>i, <1>p, <1>16 DEF PulseHeader, ReadOut, EndOfOut
<1>17. CASE PulsePlay
  BY <1>i, <1>p, <1>17 DEF PulsePlay, ReadOut, EndOfOut
<1>18. CASE PulseDiscard
  BY <1>i, <1>p, <1>18 DEF PulseDiscard, ReadOut, EndOfOut
<1>19. CASE PulseClose
  BY <1>i, <1>p, <1>19 DEF PulseClose, Goto, Close
<1>20. CASE WaitPiper("wait pulse", "idle")
  BY <1>i, <1>p, <1>20 DEF WaitPiper, Goto
<1>21. CASE PiperReads
  BY <1>i, <1>p, <1>21 DEF PiperReads
<1>22. CASE PiperWrites
  BY <1>i, <1>p, <1>22 DEF PiperWrites, PiperExits
<1>23. CASE PiperDone
  BY <1>i, <1>p, <1>23 DEF PiperDone, PiperExits
<1>24. CASE PiperFails
  BY <1>i, <1>p, <1>24 DEF PiperFails, PiperExits
<1>25. CASE SinkPlays
  BY <1>i, <1>p, <1>25 DEF SinkPlays, ReadOut
<1>26. CASE SinkDone
  BY <1>i, <1>p, <1>26 DEF SinkDone, SinkExits
<1>27. CASE SinkFails
  BY <1>i, <1>p, <1>27 DEF SinkFails, SinkExits
<1>28. CASE OtherStarts
  BY <1>i, <1>p, <1>28 DEF OtherStarts
<1>29. CASE OtherEnds
  BY <1>i, <1>p, <1>29 DEF OtherEnds
<1>30. CASE UNCHANGED vars
  BY <1>i, <1>30 DEF vars
<1> QED
  BY <1>1, <1>2, <1>3, <1>4, <1>5, <1>6, <1>7, <1>8, <1>9, <1>10, <1>11, <1>12, <1>13,
     <1>14, <1>15,
     <1>16, <1>17, <1>18, <1>19, <1>20, <1>21, <1>22, <1>23,
     <1>24, <1>25, <1>26, <1>27, <1>28, <1>29, <1>30
     DEF Next, Host, Pulse, PiperWorks, SinkWorks

LEMMA PInvariant == Spec => []PInv
BY PInvInit, PInvNext, PTL DEF Spec

\* speak_piper returns with no pipe end open and no child unreaped, whichever
\* of its calls failed and however its children ended.
THEOREM NeverLeaks == Spec => []NothingLeaked
<1>1. PInv => NothingLeaked
  BY DEF PInv, EndsInv, ChildrenInv, HostEnds, NoPiper, WithSink, NothingLeaked
<1> QED
  BY <1>1, PInvariant, PTL

\* The fallback to speech-dispatcher never repeats a text Piper has begun to
\* speak.
THEOREM NeverRepeats == Spec => []SpokenOnce
<1>1. PInv => SpokenOnce
  BY DEF PInv, SoundInv, SpokenOnce
<1> QED
  BY <1>1, PInvariant, PTL

-----------------------------------------------------------------------------
(* The data of a text: no unit appears from nowhere, and while nothing     *)
(* fails none is lost.                                                     *)

\* The places before Piper runs, and those from which it may.
Fresh  == {"pipe in", "pipe out", "cloexec", "spawn piper"}
Active == Places \ (Fresh \cup {"idle", "killed"})

\* Of those before, the places where inpipe is there, and where outpipe is too.
InReady  == {"pipe out", "cloexec", "spawn piper"}
OutReady == {"cloexec", "spawn piper"}

\* The places of the build with a sink, and of the one that plays itself.
SinkPlaces  == {"spawn sink", "hand over", "wait piper", "wait sink",
                "kill", "wait killed", "close out"}
PulsePlaces == {"header", "play", "discard", "close pulse", "wait pulse"}

\* WAV units that Piper makes from n lines.
Made(n) == n * Wav

\* Each line makes Wav units more.
LEMMA MadeStep ==
  ASSUME NEW n \in Nat
  PROVE  Made(n) \in Nat /\ Made(0) = 0 /\ Made(n + 1) = Made(n) + Wav
BY WavAssumption DEF Made

\* More lines make no less.
LEMMA MadeMonotone ==
  ASSUME NEW m \in Nat, NEW n \in Nat
  PROVE  Made(n) <= Made(m + n)
<1>1. Made(m + n) = Made(m) + Made(n)
  BY WavAssumption DEF Made
<1>2. Made(m) \in Nat /\ Made(n) \in Nat
  BY MadeStep
<1> QED
  BY <1>1, <1>2

\* What a text still is, on its way from the text to the sound.
Volume == Made(left + inb) + owe + outb + played

\* The header, once it was read.
Header == IF pc \in {"play", "close pulse", "wait pulse"} THEN 1 ELSE 0

FlagType ==
  /\ pulseEnabled \in BOOLEAN /\ clean \in BOOLEAN /\ fell \in BOOLEAN
  /\ cloexec \subseteq Ends

CountType ==
  /\ left \in 0 .. Lines /\ inb \in 0 .. InCap /\ outb \in 0 .. OutCap
  /\ owe \in 0 .. Wav /\ played \in Nat

\* The counts at each place.
VolumeInv ==
  /\ pc \in Fresh => left = Lines /\ played = 0
  /\ pc \in InReady => inb = 0
  /\ pc \in OutReady => outb = 0
  /\ pc \in SinkPlaces => left = 0 /\ ~pulseEnabled
  /\ pc \in PulsePlaces => left = 0 /\ pulseEnabled
  /\ played <= Made(Lines)
  /\ pc \in Active => Volume <= Made(Lines)
  /\ pc \in Active /\ clean => Volume + Header = Made(Lines)

\* Who has ended has ended for want of data, unless something failed.
DrainInv ==
  /\ piper = "run" => {"inR", "outW"} \subseteq open["piper"]
  /\ pc \in WithSink => sink # "none"
  /\ pc \in {"kill", "wait killed", "close out", "discard"} => ~clean
  /\ clean /\ pc \in Active /\ piper # "run" => left = 0 /\ inb = 0 /\ owe = 0
  /\ clean /\ sink = "zombie" => outb = 0 /\ piper # "run"
  /\ clean /\ pc \in {"close pulse", "wait pulse"} => outb = 0 /\ piper # "run"

DInv == FlagType /\ CountType /\ VolumeInv /\ DrainInv /\ HeardInFull

\* The flags and the close-on-exec marks keep their type.
LEMMA FlagNext == DInv /\ [Next]_vars => FlagType'
<1> SUFFICES ASSUME DInv, [Next]_vars PROVE FlagType'
  OBVIOUS
<1> USE DEF pipes
<1>f. pulseEnabled \in BOOLEAN /\ clean \in BOOLEAN /\ fell \in BOOLEAN
      /\ cloexec \subseteq Ends
  BY DEF DInv, FlagType
<1> USE BuildAssumption DEF FlagType, Ends, InEnds, OutEnds
<1>1. CASE Speak
  BY <1>f, <1>1 DEF Speak, Goto
<1>2. CASE PipeIn
  BY <1>f, <1>2 DEF PipeIn, Goto, NewPipe
<1>3. CASE PipeOut
  BY <1>f, <1>3 DEF PipeOut, Goto, NewPipe, Close
<1>4. CASE SetCloexec
  BY <1>f, <1>4 DEF SetCloexec, Goto
<1>5. CASE SpawnPiper
  BY <1>f, <1>5 DEF SpawnPiper, Goto, Close, Fallback
<1>6. CASE CloseChildEnds
  BY <1>f, <1>6 DEF CloseChildEnds, Goto, Close
<1>7. CASE WriteText
  BY <1>f, <1>7 DEF WriteText, Close
<1>8. CASE CloseText
  BY <1>f, <1>8 DEF CloseText, Goto, Close
<1>9. CASE SpawnSink
  BY <1>f, <1>9 DEF SpawnSink, Goto
<1>10. CASE HandOver
  BY <1>f, <1>10 DEF HandOver, Goto, Close
<1>11. CASE WaitPiper("wait piper", "wait sink")
  BY <1>f, <1>11 DEF WaitPiper, Goto
<1>12. CASE WaitSink
  BY <1>f, <1>12 DEF WaitSink, Goto
<1>13. CASE KillPiper
  BY <1>f, <1>13 DEF KillPiper, Goto
<1>14. CASE WaitPiper("wait killed", "close out")
  BY <1>f, <1>14 DEF WaitPiper, Goto
<1>15. CASE CloseOut
  BY <1>f, <1>15 DEF CloseOut, Goto, Close, Fallback
<1>16. CASE PulseHeader
  BY <1>f, <1>16 DEF PulseHeader, ReadOut, EndOfOut
<1>17. CASE PulsePlay
  BY <1>f, <1>17 DEF PulsePlay, ReadOut, EndOfOut
<1>18. CASE PulseDiscard
  BY <1>f, <1>18 DEF PulseDiscard, ReadOut, EndOfOut
<1>19. CASE PulseClose
  BY <1>f, <1>19 DEF PulseClose, Goto, Close
<1>20. CASE WaitPiper("wait pulse", "idle")
  BY <1>f, <1>20 DEF WaitPiper, Goto
<1>21. CASE PiperReads
  BY <1>f, <1>21 DEF PiperReads
<1>22. CASE PiperWrites
  BY <1>f, <1>22 DEF PiperWrites, PiperExits
<1>23. CASE PiperDone
  BY <1>f, <1>23 DEF PiperDone, PiperExits
<1>24. CASE PiperFails
  BY <1>f, <1>24 DEF PiperFails, PiperExits
<1>25. CASE SinkPlays
  BY <1>f, <1>25 DEF SinkPlays, ReadOut
<1>26. CASE SinkDone
  BY <1>f, <1>26 DEF SinkDone, SinkExits, EndOfOut
<1>27. CASE SinkFails
  BY <1>f, <1>27 DEF SinkFails, SinkExits
<1>28. CASE OtherStarts
  BY <1>f, <1>28 DEF OtherStarts
<1>29. CASE OtherEnds
  BY <1>f, <1>29 DEF OtherEnds
<1>30. CASE UNCHANGED vars
  BY <1>f, <1>30 DEF vars
<1> QED
  BY <1>1, <1>2, <1>3, <1>4, <1>5, <1>6, <1>7, <1>8, <1>9, <1>10, <1>11, <1>12, <1>13,
     <1>14, <1>15, <1>16, <1>17, <1>18, <1>19, <1>20, <1>21, <1>22, <1>23, <1>24, <1>25,
     <1>26, <1>27, <1>28, <1>29, <1>30
     DEF Next, Host, Pulse, PiperWorks, SinkWorks

\* Each step moves units of the text one place on, or loses some of them because
\* something has failed; none makes units that the text does not have.
LEMMA VolumeNext == PInv /\ PInv' /\ DInv /\ [Next]_vars => (CountType /\ VolumeInv)'
<1> SUFFICES ASSUME PInv, PInv', DInv, [Next]_vars PROVE (CountType /\ VolumeInv)'
  OBVIOUS
<1>c. /\ pc \in Places /\ pc' \in Places
      /\ pc \in NoPiper \ {"killed"} => piper = "none"
      /\ sink # "none" => pc \in WithSink
  BY DEF PInv, EndsInv, ChildrenInv
<1>m. /\ Made(0) = 0
      /\ \A n \in Nat : Made(n) \in Nat /\ Made(n + 1) = Made(n) + Wav
      /\ \A j, n \in Nat : Made(n) <= Made(j + n)
  BY MadeStep, MadeMonotone
<1>n. /\ Lines \in Nat \ {0} /\ InCap \in Nat /\ Wav \in Nat \ {0} /\ OutCap \in Nat \ {0}
      /\ left \in 0 .. Lines /\ inb \in 0 .. InCap /\ outb \in 0 .. OutCap
      /\ owe \in 0 .. Wav /\ played \in Nat
  BY TextFitsPipe, WavAssumption DEF DInv, CountType
<1>v. VolumeInv
  BY DEF DInv
<1>d. pc = "discard" => ~clean
  BY DEF DInv, DrainInv
<1>k. Made(0) = 0 /\ Made(Lines) \in Nat /\ Made(left + inb) \in Nat /\ Header \in {0, 1}
  BY <1>m, <1>n DEF Header
<1>1. CASE Speak
  <2>1. /\ pc' = "pipe in" /\ left' = Lines /\ played' = 0
        /\ UNCHANGED <<inb, outb, owe>>
    BY <1>1 DEF Speak, Goto, pipes
  <2>2. /\ left' = Lines /\ played' = 0
        /\ UNCHANGED <<inb, outb, owe>>
    BY <2>1 DEF Places, Fresh, InReady, OutReady, Active, SinkPlaces, PulsePlaces, Header
  <2>3. /\ pc' \in Fresh /\ pc' \notin Active \cup InReady \cup OutReady
             \cup SinkPlaces \cup PulsePlaces
    BY <2>1, <1>c DEF Places, Fresh, InReady, OutReady, Active, SinkPlaces, PulsePlaces,
       NoPiper, WithSink, Header
  <2>4. CountType'
    BY <1>n, <2>2 DEF CountType
  <2>5. VolumeInv'
    BY <1>k, <1>n, <1>v, <2>2, <2>3, <2>4 DEF VolumeInv, Volume, CountType
  <2> QED
    BY <2>4, <2>5
<1>2. CASE PipeIn
  <2>1. /\ pc = "pipe in" /\ UNCHANGED <<left, outb, owe, played>>
        /\ \/ pc' = "pipe out" /\ inb' = 0
           \/ pc' = "idle" /\ inb' = inb
    BY <1>2 DEF PipeIn, Goto, pipes
  <2>2. /\ UNCHANGED <<left, outb, owe, played>>
        /\ \/ inb' = 0
           \/ inb' = inb /\ pc' \notin Fresh \cup InReady
    BY <2>1 DEF Places, Fresh, InReady, OutReady, Active, SinkPlaces, PulsePlaces, Header
  <2>3. /\ pc \in Fresh /\ pc' \notin Active \cup OutReady \cup SinkPlaces \cup PulsePlaces
    BY <2>1, <1>c DEF Places, Fresh, InReady, OutReady, Active, SinkPlaces, PulsePlaces,
       NoPiper, WithSink, Header
  <2>4. CountType'
    BY <1>n, <2>2 DEF CountType
  <2>5. VolumeInv'
    BY <1>k, <1>n, <1>v, <2>2, <2>3, <2>4 DEF VolumeInv, Volume, CountType
  <2> QED
    BY <2>4, <2>5
<1>3. CASE PipeOut
  <2>1. /\ pc = "pipe out" /\ UNCHANGED <<left, inb, owe, played>>
        /\ \/ pc' = "cloexec" /\ outb' = 0
           \/ pc' = "idle" /\ outb' = outb
    BY <1>3 DEF PipeOut, Goto, pipes
  <2>2. /\ UNCHANGED <<left, inb, owe, played>>
        /\ \/ outb' = 0
           \/ outb' = outb /\ pc' \notin Fresh \cup InReady \cup OutReady
    BY <2>1 DEF Places, Fresh, InReady, OutReady, Active, SinkPlaces, PulsePlaces, Header
  <2>3. /\ pc \in Fresh /\ pc \in InReady /\ pc' \notin Active \cup SinkPlaces \cup PulsePlaces
    BY <2>1, <1>c DEF Places, Fresh, InReady, OutReady, Active, SinkPlaces, PulsePlaces,
       NoPiper, WithSink, Header
  <2>4. CountType'
    BY <1>n, <2>2 DEF CountType
  <2>5. VolumeInv'
    BY <1>k, <1>n, <1>v, <2>2, <2>3, <2>4 DEF VolumeInv, Volume, CountType
  <2> QED
    BY <2>4, <2>5
<1>4. CASE SetCloexec
  BY <1>c, <1>m, <1>n, <1>v, <1>4 DEF SetCloexec, Goto, pipes, CountType,
     VolumeInv, Places, NoPiper, WithSink,
     Fresh, InReady, OutReady, Active, SinkPlaces, PulsePlaces, Volume, Header
<1>5. CASE SpawnPiper
  <2>1. /\ pc = "spawn piper" /\ UNCHANGED <<left, inb, outb, played>>
        /\ \/ pc' = "close child ends" /\ owe' = 0
           \/ pc' = "idle" /\ owe' = owe
    BY <1>5 DEF SpawnPiper, Goto, pipes
  <2>2. /\ UNCHANGED <<left, inb, outb, played>>
        /\ \/ owe' = 0
           \/ owe' = owe /\ pc' \notin Active
    BY <2>1 DEF Places, Fresh, InReady, OutReady, Active, SinkPlaces, PulsePlaces, Header
  <2>3. /\ pc \in Fresh /\ pc \in InReady /\ pc \in OutReady
        /\ pc' \notin Fresh \cup InReady \cup OutReady \cup SinkPlaces \cup PulsePlaces
        /\ Header' = 0
    BY <2>1, <1>c DEF Places, Fresh, InReady, OutReady, Active, SinkPlaces, PulsePlaces,
       NoPiper, WithSink, Header
  <2>4. CountType'
    BY <1>n, <2>2 DEF CountType
  <2>5. VolumeInv'
    BY <1>k, <1>n, <1>v, <2>2, <2>3, <2>4 DEF VolumeInv, Volume, CountType
  <2> QED
    BY <2>4, <2>5
<1>6. CASE CloseChildEnds
  BY <1>c, <1>m, <1>n, <1>v, <1>6 DEF CloseChildEnds, Goto, pipes, CountType,
     VolumeInv, Places, NoPiper, WithSink,
     Fresh, InReady, OutReady, Active, SinkPlaces, PulsePlaces, Volume, Header
<1>7. CASE WriteText
  <2>1. /\ pc = "write" /\ pc' \in {"write", "killed"}
        /\ UNCHANGED <<outb, owe, played>> /\ left > 0
        /\ \/ inb < InCap /\ inb' = inb + 1 /\ left' = left - 1 /\ (clean' => clean)
           \/ ~clean' /\ inb' = inb /\ (left' = 0 \/ left' = left)
    BY <1>7 DEF WriteText, pipes
  <2>2. /\ UNCHANGED <<outb, owe, played>> /\ left > 0 /\ (clean' => clean)
        /\ \/ inb < InCap /\ inb' = inb + 1 /\ left' = left - 1
           \/ ~clean' /\ inb' = inb /\ (left' = 0 \/ left' = left)
    BY <2>1 DEF Places, Fresh, InReady, OutReady, Active, SinkPlaces, PulsePlaces, Header
  <2>3. /\ pc \in Active
        /\ pc' \notin Fresh \cup InReady \cup OutReady \cup SinkPlaces \cup PulsePlaces
        /\ Header = 0 /\ Header' = 0
    BY <2>1, <1>c DEF Places, Fresh, InReady, OutReady, Active, SinkPlaces, PulsePlaces,
       NoPiper, WithSink, Header
  <2>4. CountType'
    BY <1>n, <2>2 DEF CountType
  <2>m. /\ Made(left' + inb') \in Nat /\ Made(left' + inb') <= Made(left + inb)
        /\ clean' => Made(left' + inb') = Made(left + inb)
    <3>1. left' = left - 1 /\ inb' = inb + 1 => left' + inb' = left + inb
      BY <1>n
    <3>2. Made(inb) <= Made(left + inb) /\ 0 + inb = inb
      BY <1>n, <1>m
    <3>3. Made(left + inb) <= Made(left + inb)
      BY <1>k
    <3>4. left' + inb' \in Nat
      BY <1>n, <2>2
    <3> QED
      BY <2>2, <3>1, <3>2, <3>3, <3>4, <1>m
  <2>5. VolumeInv'
    BY <1>k, <1>n, <1>v, <2>2, <2>3, <2>4, <2>m DEF VolumeInv, Volume, CountType
  <2> QED
    BY <2>4, <2>5
<1>8. CASE CloseText
  BY <1>c, <1>m, <1>n, <1>v, <1>8 DEF CloseText, Goto, pipes, CountType,
     VolumeInv, Places, NoPiper, WithSink,
     Fresh, InReady, OutReady, Active, SinkPlaces, PulsePlaces, Volume, Header
<1>9. CASE SpawnSink
  <2>1. /\ pc = "spawn sink" /\ UNCHANGED <<left, inb, outb, owe, played>>
        /\ pulseEnabled' <=> pulseEnabled
        /\ pc' = "hand over" \/ pc' = "kill"
        /\ clean' => clean
    <3>1. CASE Goto("spawn sink", "hand over") /\ UNCHANGED clean
      BY <1>9, <3>1 DEF SpawnSink, Goto
    <3>2. CASE Goto("spawn sink", "kill") /\ clean' = FALSE
      BY <1>9, <3>2 DEF SpawnSink, Goto
    <3> QED
      BY <1>9, <3>1, <3>2 DEF SpawnSink
  <2>3. /\ pc \in Active /\ pc \in SinkPlaces /\ pc' \in Active
        /\ pc' \notin Fresh \cup InReady \cup OutReady \cup PulsePlaces
        /\ Header = 0 /\ Header' = 0
    BY <2>1, <1>c DEF Places, Fresh, InReady, OutReady, Active, SinkPlaces, PulsePlaces,
       NoPiper, WithSink, Header
  <2>4. CountType'
    BY <1>n, <2>1 DEF CountType
  <2>5. VolumeInv'
    BY <1>k, <1>n, <1>v, <2>1, <2>3, <2>4 DEF VolumeInv, Volume, CountType
  <2> QED
    BY <2>4, <2>5
<1>10. CASE HandOver
  BY <1>c, <1>m, <1>n, <1>v, <1>10 DEF HandOver, Goto, pipes, CountType,
     VolumeInv, Places, NoPiper, WithSink,
     Fresh, InReady, OutReady, Active, SinkPlaces, PulsePlaces, Volume, Header
<1>11. CASE WaitPiper("wait piper", "wait sink")
  BY <1>c, <1>m, <1>n, <1>v, <1>11 DEF WaitPiper, Goto, pipes, CountType,
     VolumeInv, Places, NoPiper, WithSink,
     Fresh, InReady, OutReady, Active, SinkPlaces, PulsePlaces, Volume, Header
<1>12. CASE WaitSink
  BY <1>c, <1>m, <1>n, <1>v, <1>12 DEF WaitSink, Goto, pipes, CountType,
     VolumeInv, Places, NoPiper, WithSink,
     Fresh, InReady, OutReady, Active, SinkPlaces, PulsePlaces, Volume, Header
<1>13. CASE KillPiper
  BY <1>c, <1>m, <1>n, <1>v, <1>13 DEF KillPiper, Goto, pipes, CountType,
     VolumeInv, Places, NoPiper, WithSink,
     Fresh, InReady, OutReady, Active, SinkPlaces, PulsePlaces, Volume, Header
<1>14. CASE WaitPiper("wait killed", "close out")
  BY <1>c, <1>m, <1>n, <1>v, <1>14 DEF WaitPiper, Goto, pipes, CountType,
     VolumeInv, Places, NoPiper, WithSink,
     Fresh, InReady, OutReady, Active, SinkPlaces, PulsePlaces, Volume, Header
<1>15. CASE CloseOut
  BY <1>c, <1>m, <1>n, <1>v, <1>15 DEF CloseOut, Goto, pipes, CountType,
     VolumeInv, Places, NoPiper, WithSink,
     Fresh, InReady, OutReady, Active, SinkPlaces, PulsePlaces, Volume, Header
<1>16. CASE PulseHeader
  <2>1. /\ pc = "header" /\ pc' \in {"play", "discard"}
        /\ UNCHANGED <<left, inb, owe, played>> /\ (pulseEnabled' <=> pulseEnabled)
        /\ \/ /\ clean' => clean
              /\ pc' = "play" /\ outb > 0 /\ outb' = outb - 1
           \/ ~clean' /\ outb > 0 /\ outb' = outb - 1
           \/ ~clean' /\ outb' = outb
    BY <1>16 DEF PulseHeader, ReadOut, pipes
  <2>2. /\ UNCHANGED <<left, inb, owe, played>> /\ (pulseEnabled' <=> pulseEnabled)
        /\ \/ /\ clean' => clean
              /\ Header' = 1 /\ outb > 0 /\ outb' = outb - 1
           \/ ~clean' /\ outb > 0 /\ outb' = outb - 1
           \/ ~clean' /\ outb' = outb
    BY <2>1 DEF Places, Fresh, InReady, OutReady, Active, SinkPlaces, PulsePlaces, Header
  <2>3. /\ pc \in Active /\ pc \in PulsePlaces /\ pc' \in Active
        /\ pc' \notin Fresh \cup InReady \cup OutReady \cup SinkPlaces
        /\ Header = 0
    BY <2>1, <1>c DEF Places, Fresh, InReady, OutReady, Active, SinkPlaces, PulsePlaces,
       NoPiper, WithSink, Header
  <2>4. CountType'
    BY <1>n, <2>2 DEF CountType
  <2>5. VolumeInv'
    BY <1>k, <1>n, <1>v, <2>2, <2>3, <2>4 DEF VolumeInv, Volume, CountType
  <2> QED
    BY <2>4, <2>5
<1>17. CASE PulsePlay
  <2>1. /\ pc = "play" /\ pc' \in {"play", "close pulse"}
        /\ UNCHANGED <<left, inb, owe>> /\ (pulseEnabled' <=> pulseEnabled)
        /\ \/ /\ clean' => clean
              /\ outb > 0 /\ outb' = outb - 1 /\ played' = played + 1
           \/ ~clean' /\ outb > 0 /\ outb' = outb - 1 /\ played' = played
           \/ (clean' => clean) /\ outb' = outb /\ played' = played
    <3>1. CASE ReadOut /\ played' = played + 1 /\ UNCHANGED <<pc, clean>>
      BY <1>17, <3>1 DEF PulsePlay, ReadOut
    <3>2. CASE ReadOut /\ pc' = "close pulse" /\ clean' = FALSE /\ UNCHANGED played
      BY <1>17, <3>2 DEF PulsePlay, ReadOut
    <3>3. CASE EndOfOut /\ pc' = "close pulse" /\ UNCHANGED <<outb, played, clean>>
      BY <1>17, <3>3 DEF PulsePlay
    <3> QED
      BY <1>17, <3>1, <3>2, <3>3 DEF PulsePlay
  <2>2. /\ UNCHANGED <<left, inb, owe>> /\ (pulseEnabled' <=> pulseEnabled)
        /\ \/ /\ clean' => clean
              /\ outb > 0 /\ outb' = outb - 1 /\ played' = played + 1
           \/ ~clean' /\ outb > 0 /\ outb' = outb - 1 /\ played' = played
           \/ (clean' => clean) /\ outb' = outb /\ played' = played
    BY <2>1 DEF Places, Fresh, InReady, OutReady, Active, SinkPlaces, PulsePlaces, Header
  <2>3. /\ pc \in Active /\ pc \in PulsePlaces /\ pc' \in Active
        /\ pc' \notin Fresh \cup InReady \cup OutReady \cup SinkPlaces
        /\ Header' = Header
    BY <2>1, <1>c DEF Places, Fresh, InReady, OutReady, Active, SinkPlaces, PulsePlaces,
       NoPiper, WithSink, Header
  <2>4. CountType'
    BY <1>n, <2>2 DEF CountType
  <2>5. VolumeInv'
    BY <1>k, <1>n, <1>v, <2>2, <2>3, <2>4 DEF VolumeInv, Volume, CountType
  <2> QED
    BY <2>4, <2>5
<1>18. CASE PulseDiscard
  <2>1. /\ pc = "discard" /\ pc' \in {"discard", "close pulse"}
        /\ UNCHANGED <<left, inb, owe, played>> /\ (pulseEnabled' <=> pulseEnabled)
        /\ ~clean'
        /\ (outb > 0 /\ outb' = outb - 1) \/ outb' = outb
    BY <1>18, <1>d DEF PulseDiscard, ReadOut, pipes
  <2>2. /\ UNCHANGED <<left, inb, owe, played>> /\ (pulseEnabled' <=> pulseEnabled) /\ ~clean'
        /\ outb' = outb \/ (outb > 0 /\ outb' = outb - 1)
    BY <2>1 DEF Places, Fresh, InReady, OutReady, Active, SinkPlaces, PulsePlaces, Header
  <2>3. /\ pc \in Active /\ pc \in PulsePlaces /\ pc' \in Active
        /\ pc' \notin Fresh \cup InReady \cup OutReady \cup SinkPlaces
    BY <2>1, <1>c DEF Places, Fresh, InReady, OutReady, Active, SinkPlaces, PulsePlaces,
       NoPiper, WithSink, Header
  <2>4. CountType'
    BY <1>n, <2>2 DEF CountType
  <2>5. VolumeInv'
    BY <1>k, <1>n, <1>v, <2>2, <2>3, <2>4 DEF VolumeInv, Volume, CountType
  <2> QED
    BY <2>4, <2>5
<1>19. CASE PulseClose
  BY <1>c, <1>m, <1>n, <1>v, <1>19 DEF PulseClose, Goto, pipes, CountType,
     VolumeInv, Places, NoPiper, WithSink,
     Fresh, InReady, OutReady, Active, SinkPlaces, PulsePlaces, Volume, Header
<1>20. CASE WaitPiper("wait pulse", "idle")
  BY <1>c, <1>m, <1>n, <1>v, <1>20 DEF WaitPiper, Goto, pipes, CountType,
     VolumeInv, Places, NoPiper, WithSink,
     Fresh, InReady, OutReady, Active, SinkPlaces, PulsePlaces, Volume, Header
<1>21. CASE PiperReads
  <2>1. /\ UNCHANGED <<pc, left, outb, played>> /\ (pulseEnabled' <=> pulseEnabled)
        /\ clean' => clean
        /\ piper = "run" /\ owe = 0 /\ inb > 0 /\ inb' = inb - 1 /\ owe' = Wav
    BY <1>21 DEF PiperReads, pipes
  <2>3. /\ pc' \notin Fresh \cup InReady \cup OutReady
        /\ Header' = Header
    BY <2>1, <1>c DEF Places, Fresh, InReady, OutReady, Active, SinkPlaces, PulsePlaces,
       NoPiper, WithSink, Header
  <2>4. CountType'
    BY <1>n, <2>1 DEF CountType
  <2>m. Made(left + inb) = Made(left' + inb') + Wav
    <3>1. left' + inb' \in Nat /\ (left' + inb') + 1 = left + inb
      BY <1>n, <2>1
    <3> QED
      BY <3>1, <1>m
  <2>5. VolumeInv'
    BY <1>k, <1>n, <1>v, <2>1, <2>3, <2>4, <2>m DEF VolumeInv, Volume, CountType
  <2> QED
    BY <2>4, <2>5
<1>22. CASE PiperWrites
  <2>1. /\ UNCHANGED <<pc, left, inb, played>> /\ (pulseEnabled' <=> pulseEnabled)
        /\ piper = "run"
        /\ \/ /\ clean' => clean
              /\ outb < OutCap /\ outb' = outb + 1 /\ owe > 0 /\ owe' = owe - 1
           \/ ~clean' /\ UNCHANGED <<outb, owe>>
    BY <1>22 DEF PiperWrites, pipes
  <2>3. /\ pc' \notin Fresh \cup InReady \cup OutReady
        /\ Header' = Header
    BY <2>1, <1>c DEF Places, Fresh, InReady, OutReady, Active, SinkPlaces, PulsePlaces,
       NoPiper, WithSink, Header
  <2>4. CountType'
    BY <1>n, <2>1 DEF CountType
  <2>5. VolumeInv'
    BY <1>k, <1>n, <1>v, <2>1, <2>3, <2>4 DEF VolumeInv, Volume, CountType
  <2> QED
    BY <2>4, <2>5
<1>23. CASE PiperDone
  BY <1>c, <1>m, <1>n, <1>v, <1>23, ZenonT(40) DEF PiperDone, pipes, CountType,
     VolumeInv, Places, NoPiper, WithSink,
     Fresh, InReady, OutReady, Active, SinkPlaces, PulsePlaces, Volume, Header
<1>24. CASE PiperFails
  BY <1>c, <1>m, <1>n, <1>v, <1>24 DEF PiperFails, pipes, CountType,
     VolumeInv, Places, NoPiper, WithSink,
     Fresh, InReady, OutReady, Active, SinkPlaces, PulsePlaces, Volume, Header
<1>25. CASE SinkPlays
  <2>1. /\ UNCHANGED <<pc, left, inb, owe>> /\ (pulseEnabled' <=> pulseEnabled)
        /\ clean' => clean
        /\ sink = "run" /\ outb > 0 /\ outb' = outb - 1 /\ played' = played + 1
    BY <1>25 DEF SinkPlays, ReadOut, pipes
  <2>3. /\ pc \in Active
        /\ pc' \notin Fresh \cup InReady \cup OutReady
        /\ Header' = Header
    BY <2>1, <1>c DEF Places, Fresh, InReady, OutReady, Active, SinkPlaces, PulsePlaces,
       NoPiper, WithSink, Header
  <2>4. CountType'
    BY <1>n, <2>1 DEF CountType
  <2>5. VolumeInv'
    BY <1>k, <1>n, <1>v, <2>1, <2>3, <2>4 DEF VolumeInv, Volume, CountType
  <2> QED
    BY <2>4, <2>5
<1>26. CASE SinkDone
  BY <1>c, <1>m, <1>n, <1>v, <1>26 DEF SinkDone, pipes, CountType,
     VolumeInv, Places, NoPiper, WithSink,
     Fresh, InReady, OutReady, Active, SinkPlaces, PulsePlaces, Volume, Header
<1>27. CASE SinkFails
  BY <1>c, <1>m, <1>n, <1>v, <1>27 DEF SinkFails, pipes, CountType,
     VolumeInv, Places, NoPiper, WithSink,
     Fresh, InReady, OutReady, Active, SinkPlaces, PulsePlaces, Volume, Header
<1>28. CASE OtherStarts
  BY <1>c, <1>m, <1>n, <1>v, <1>28 DEF OtherStarts, pipes, CountType,
     VolumeInv, Places, NoPiper, WithSink,
     Fresh, InReady, OutReady, Active, SinkPlaces, PulsePlaces, Volume, Header
<1>29. CASE OtherEnds
  BY <1>c, <1>m, <1>n, <1>v, <1>29 DEF OtherEnds, pipes, CountType,
     VolumeInv, Places, NoPiper, WithSink,
     Fresh, InReady, OutReady, Active, SinkPlaces, PulsePlaces, Volume, Header
<1>30. CASE UNCHANGED vars
  BY <1>c, <1>m, <1>n, <1>v, <1>30 DEF vars, pipes, CountType,
     VolumeInv, Places, NoPiper, WithSink,
     Fresh, InReady, OutReady, Active, SinkPlaces, PulsePlaces, Volume, Header
<1> QED
  BY <1>1, <1>2, <1>3, <1>4, <1>5, <1>6, <1>7, <1>8, <1>9, <1>10, <1>11, <1>12, <1>13,
     <1>14, <1>15, <1>16, <1>17, <1>18, <1>19, <1>20, <1>21, <1>22, <1>23, <1>24, <1>25,
     <1>26, <1>27, <1>28, <1>29, <1>30
     DEF Next, Host, Pulse, PiperWorks, SinkWorks

\* Piper, the sink and the Pulse loop end at the end of their data, which the
\* writer before them has closed; or something has failed.
LEMMA DrainNext == PInv /\ PInv' /\ DInv /\ [Next]_vars => DrainInv'
<1> SUFFICES ASSUME PInv, PInv', DInv, [Next]_vars PROVE DrainInv'
  OBVIOUS
<1> USE DEF pipes
<1>i. EndsInv /\ ChildrenInv /\ EndsInv' /\ ChildrenInv'
  BY DEF PInv
<1>p. "host" \in Procs /\ "piper" \in Procs /\ "sink" \in Procs /\ "other" \in Procs
  BY DEF Procs
<1>n. /\ Lines \in Nat \ {0} /\ InCap \in Nat /\ Wav \in Nat \ {0} /\ OutCap \in Nat \ {0}
      /\ left \in Nat /\ inb \in Nat /\ outb \in Nat /\ owe \in Nat
  BY TextFitsPipe, WavAssumption DEF DInv, CountType
<1>v. DrainInv /\ (pc \in SinkPlaces \cup PulsePlaces => left = 0)
  BY DEF DInv, VolumeInv
<1> USE DEF EndsInv, ChildrenInv, ChildType, HostEnds, Places, Ends, InEnds, OutEnds,
     NoPiper,
        WithSink, DrainInv, Fresh, Active, SinkPlaces, PulsePlaces
<1>1. CASE Speak
  BY <1>i, <1>p, <1>n, <1>v, <1>1 DEF Speak, Goto
<1>2. CASE PipeIn
  BY <1>i, <1>p, <1>n, <1>v, <1>2 DEF PipeIn, Goto, NewPipe
<1>3. CASE PipeOut
  BY <1>i, <1>p, <1>n, <1>v, <1>3 DEF PipeOut, Goto, NewPipe, Close
<1>4. CASE SetCloexec
  BY <1>i, <1>p, <1>n, <1>v, <1>4 DEF SetCloexec, Goto
<1>5. CASE SpawnPiper
  BY <1>i, <1>p, <1>n, <1>v, <1>5, ZenonT(40) DEF SpawnPiper, Goto, Spawn, Inherited, CloseAll,
     Close, Fallback
<1>6. CASE CloseChildEnds
  BY <1>i, <1>p, <1>n, <1>v, <1>6 DEF CloseChildEnds, Goto, Close
<1>7. CASE WriteText
  <2>1. CASE Held("inR")
    BY <1>i, <1>p, <1>n, <1>v, <1>7, <2>1 DEF WriteText, Close
  <2>2. CASE ~Held("inR") /\ IgnoreSigpipe
    BY <1>i, <1>p, <1>n, <1>v, <1>7, <2>2 DEF WriteText, Close
  <2>3. CASE ~Held("inR") /\ ~IgnoreSigpipe
    BY <1>i, <1>p, <1>n, <1>v, <1>7, <2>3 DEF WriteText, Close
  <2> QED
    BY <1>7, <2>1, <2>2, <2>3 DEF WriteText, Close
<1>8. CASE CloseText
  BY <1>i, <1>p, <1>n, <1>v, <1>8 DEF CloseText, Goto, Close
<1>9. CASE SpawnSink
  <2>1. CASE Goto("spawn sink", "hand over") /\ Spawn("sink", {"outR"}) /\ sink' = "run"
           /\ UNCHANGED clean
    BY <1>i, <1>p, <1>n, <1>v, <1>9, <2>1 DEF SpawnSink, Goto, Spawn, Inherited, CloseAll
  <2>2. CASE Goto("spawn sink", "kill") /\ clean' = FALSE /\ UNCHANGED <<open, sink>>
    BY <1>i, <1>p, <1>n, <1>v, <1>9, <2>2 DEF SpawnSink, Goto, Spawn, Inherited, CloseAll
  <2> QED
    BY <1>9, <2>1, <2>2 DEF SpawnSink, Goto, Spawn, Inherited, CloseAll
<1>10. CASE HandOver
  BY <1>i, <1>p, <1>n, <1>v, <1>10 DEF HandOver, Goto, Close
<1>11. CASE WaitPiper("wait piper", "wait sink")
  BY <1>i, <1>p, <1>n, <1>v, <1>11 DEF WaitPiper, Goto
<1>12. CASE WaitSink
  BY <1>i, <1>p, <1>n, <1>v, <1>12 DEF WaitSink, Goto
<1>13. CASE KillPiper
  BY <1>i, <1>p, <1>n, <1>v, <1>13 DEF KillPiper, Goto
<1>14. CASE WaitPiper("wait killed", "close out")
  BY <1>i, <1>p, <1>n, <1>v, <1>14 DEF WaitPiper, Goto
<1>15. CASE CloseOut
  BY <1>i, <1>p, <1>n, <1>v, <1>15 DEF CloseOut, Goto, Close, Fallback
<1>16. CASE PulseHeader
  <2>1. CASE ReadOut /\ pc' = "play" /\ UNCHANGED clean
    BY <1>i, <1>p, <1>n, <1>v, <1>16, <2>1 DEF PulseHeader
  <2>2. CASE ReadOut /\ pc' = "discard" /\ clean' = FALSE
    BY <1>i, <1>p, <1>n, <1>v, <1>16, <2>2 DEF PulseHeader
  <2>3. CASE EndOfOut /\ pc' = "discard" /\ clean' = FALSE /\ UNCHANGED outb
    BY <1>i, <1>p, <1>n, <1>v, <1>16, <2>3 DEF PulseHeader
  <2> QED
    BY <1>16, <2>1, <2>2, <2>3 DEF PulseHeader
<1>17. CASE PulsePlay
  <2>1. CASE ReadOut /\ played' = played + 1 /\ UNCHANGED <<pc, clean>>
    BY <1>i, <1>p, <1>n, <1>v, <1>17, <2>1 DEF PulsePlay, EndOfOut, Held
  <2>2. CASE ReadOut /\ pc' = "close pulse" /\ clean' = FALSE /\ UNCHANGED played
    BY <1>i, <1>p, <1>n, <1>v, <1>17, <2>2 DEF PulsePlay, EndOfOut, Held
  <2>3. CASE EndOfOut /\ pc' = "close pulse" /\ UNCHANGED <<outb, played, clean>>
    BY <1>i, <1>p, <1>n, <1>v, <1>17, <2>3 DEF PulsePlay, EndOfOut, Held
  <2> QED
    BY <1>17, <2>1, <2>2, <2>3 DEF PulsePlay, EndOfOut, Held
<1>18. CASE PulseDiscard
  BY <1>i, <1>p, <1>n, <1>v, <1>18 DEF PulseDiscard, ReadOut, EndOfOut, Held
<1>19. CASE PulseClose
  BY <1>i, <1>p, <1>n, <1>v, <1>19 DEF PulseClose, Goto, Close
<1>20. CASE WaitPiper("wait pulse", "idle")
  BY <1>i, <1>p, <1>n, <1>v, <1>20 DEF WaitPiper, Goto
<1>21. CASE PiperReads
  BY <1>i, <1>p, <1>n, <1>v, <1>21 DEF PiperReads
<1>22. CASE PiperWrites
  BY <1>i, <1>p, <1>n, <1>v, <1>22 DEF PiperWrites, PiperExits, Held
<1>23. CASE PiperDone
  BY <1>i, <1>p, <1>n, <1>v, <1>23 DEF PiperDone, PiperExits, Held
<1>24. CASE PiperFails
  BY <1>i, <1>p, <1>n, <1>v, <1>24 DEF PiperFails, PiperExits
<1>25. CASE SinkPlays
  BY <1>i, <1>p, <1>n, <1>v, <1>25 DEF SinkPlays, ReadOut
<1>26. CASE SinkDone
  BY <1>i, <1>p, <1>n, <1>v, <1>26 DEF SinkDone, SinkExits, EndOfOut, Held
<1>27. CASE SinkFails
  BY <1>i, <1>p, <1>n, <1>v, <1>27 DEF SinkFails, SinkExits
<1>28. CASE OtherStarts
  BY <1>i, <1>p, <1>n, <1>v, <1>28 DEF OtherStarts
<1>29. CASE OtherEnds
  BY <1>i, <1>p, <1>n, <1>v, <1>29 DEF OtherEnds
<1>30. CASE UNCHANGED vars
  BY <1>i, <1>p, <1>n, <1>v, <1>30 DEF vars
<1> QED
  BY <1>1, <1>2, <1>3, <1>4, <1>5, <1>6, <1>7, <1>8, <1>9, <1>10, <1>11, <1>12, <1>13,
     <1>14, <1>15, <1>16, <1>17, <1>18, <1>19, <1>20, <1>21, <1>22, <1>23, <1>24, <1>25,
     <1>26, <1>27, <1>28, <1>29, <1>30
     DEF Next, Host, Pulse, PiperWorks, SinkWorks

\* speak_piper returns with everything played, or after a failure.
LEMMA HeardNext == PInv /\ DInv /\ [Next]_vars => HeardInFull'
<1> SUFFICES ASSUME PInv, DInv, [Next]_vars, pc' = "idle", clean'
             PROVE  /\ inb' = 0 /\ outb' = 0 /\ owe' = 0
                    /\ played' = Lines * Wav - Audio'
  BY DEF HeardInFull
<1> USE DEF pipes
<1>c. /\ pc \in Places
      /\ pc \in NoPiper \ {"killed"} => piper = "none"
      /\ sink # "none" => pc \in WithSink
  BY DEF PInv, EndsInv, ChildrenInv
<1>v. VolumeInv /\ DrainInv /\ HeardInFull
  BY DEF DInv
<1>n. /\ Lines \in Nat /\ Wav \in Nat /\ left \in Nat /\ inb \in Nat /\ outb \in Nat
      /\ owe \in Nat /\ played \in Nat
      /\ Made(0) = 0 /\ Made(Lines) = Lines * Wav
  BY TextFitsPipe, WavAssumption, MadeStep DEF DInv, CountType, Made
<1>1. CASE pc = "idle"
  <2>1. piper = "none" /\ sink = "none"
    BY <1>1, <1>c DEF NoPiper, WithSink
  <2>2. OtherStarts \/ OtherEnds \/ UNCHANGED vars
    BY <1>1, <2>1
       DEF Next, Host, Pulse, PiperWorks, SinkWorks, Goto, Speak, PipeIn, PipeOut,
            SetCloexec,
           SpawnPiper, CloseChildEnds, WriteText, CloseText, SpawnSink, HandOver, WaitPiper,
           WaitSink, KillPiper, CloseOut, PulseHeader, PulsePlay, PulseDiscard, PulseClose,
           PiperReads, PiperWrites, PiperDone, PiperFails, SinkPlays, SinkDone, SinkFails
  <2>3. UNCHANGED <<inb, outb, owe, played>> /\ (clean <=> clean') /\ Audio' = Audio
    <3>1. UNCHANGED <<inb, outb, owe, played, clean, pulseEnabled>>
      BY <2>2 DEF OtherStarts, OtherEnds, vars
    <3> QED
      BY <3>1 DEF Audio
  <2> QED
    BY <1>1, <1>v, <2>3 DEF HeardInFull
<1>2. CASE pc # "idle"
  <2>1. \/ WaitSink
        \/ WaitPiper("wait pulse", "idle")
    <3>1. ~CloseOut
      BY <1>v DEF CloseOut, Goto, DrainInv
    <3>2. ~PipeIn /\ ~PipeOut /\ ~SpawnPiper
      BY <1>2 DEF PipeIn, PipeOut, SpawnPiper, Goto
    <3>3. pc' # pc /\ ~(UNCHANGED vars)
      BY <1>2 DEF vars
    <3> QED
      BY <3>1, <3>2, <3>3
         DEF Next, Host, Pulse, PiperWorks, SinkWorks, Goto, Speak, SetCloexec,
             CloseChildEnds, WriteText, CloseText, SpawnSink, HandOver, WaitPiper,
             KillPiper, PulseHeader, PulsePlay, PulseDiscard, PulseClose,
             PiperReads, PiperWrites, PiperDone, PiperFails, SinkPlays, SinkDone, SinkFails,
             OtherStarts, OtherEnds
  <2>2. ASSUME pc \in Active, clean, piper # "run", outb = 0,
               UNCHANGED <<inb, outb, owe, played>>, Header = Audio'
        PROVE  /\ inb' = 0 /\ outb' = 0 /\ owe' = 0
               /\ played' = Lines * Wav - Audio'
    <3>1. left = 0 /\ inb = 0 /\ owe = 0
      BY <1>v, <2>2 DEF DrainInv
    <3>2. Made(left + inb) + owe + outb + played + Header = Made(Lines)
      BY <1>v, <2>2 DEF VolumeInv, Volume
    <3>3. left + inb = 0 /\ Header \in Int
      BY <3>1 DEF Header
    <3>4. Made(left + inb) = 0
      BY <1>n, <3>3
    <3>5. played + Header = Made(Lines)
      <4>1. outb = 0
        BY <2>2
      <4>2. 0 + 0 + 0 + played + Header = Made(Lines)
        BY <4>1, <3>1, <3>2, <3>4
      <4> QED
        BY <4>2, <1>n, <3>3
    <3>6. played = Lines * Wav - Header
      BY <1>n, <3>3, <3>5
    <3> QED
      BY <2>2, <3>1, <3>6
  <2>3. CASE WaitSink
    <3>1. /\ pc = "wait sink" /\ sink = "zombie" /\ clean /\ ~pulseEnabled'
          /\ UNCHANGED <<inb, outb, owe, played>>
      BY <2>3, <1>v DEF WaitSink, Goto, VolumeInv, SinkPlaces
    <3>2. outb = 0 /\ piper # "run"
      BY <3>1, <1>v DEF DrainInv
    <3>3. pc \in Active /\ Header = Audio'
      BY <3>1, <1>c DEF Active, Fresh, Header, Audio
    <3> QED
      BY <2>2, <3>1, <3>2, <3>3
  <2>4. CASE WaitPiper("wait pulse", "idle")
    <3>1. /\ pc = "wait pulse" /\ clean /\ pulseEnabled'
          /\ UNCHANGED <<inb, outb, owe, played>>
      BY <2>4, <1>v DEF WaitPiper, Goto, VolumeInv, PulsePlaces
    <3>2. outb = 0 /\ piper # "run"
      BY <3>1, <1>v DEF DrainInv
    <3>3. pc \in Active /\ Header = Audio'
      BY <3>1, <1>c DEF Active, Fresh, Header, Audio
    <3> QED
      BY <2>2, <3>1, <3>2, <3>3
  <2> QED
    BY <2>1, <2>3, <2>4
<1> QED
  BY <1>1, <1>2

\* Before the first text there is nothing to lose.
LEMMA DInvInit == Init => DInv
<1>0. Init => FlagType
  BY DEF Init, FlagType
<1>1. Init => CountType
  BY TextFitsPipe, WavAssumption DEF Init, CountType
<1>2. 0 <= Made(Lines)
  BY TextFitsPipe, MadeStep
<1>3. Init => VolumeInv
  BY <1>2 DEF Init, VolumeInv, Fresh, InReady, OutReady, Active, SinkPlaces, PulsePlaces
<1>4. Init => DrainInv /\ HeardInFull
  BY DEF Init, DrainInv, HeardInFull, WithSink, Active, Fresh
<1> QED
  BY <1>0, <1>1, <1>3, <1>4 DEF DInv

\* Together with who has which pipe end and which child, this is inductive.
LEMMA DInvariant == Spec => [](PInv /\ DInv)
<1>1. PInv /\ DInv /\ [Next]_vars => (PInv /\ DInv)'
  BY PInvNext, FlagNext, VolumeNext, DrainNext, HeardNext DEF DInv
<1> QED
  BY <1>1, PInvInit, DInvInit, PTL DEF Spec

\* Every variable keeps its type: among others, no pipe holds more than the
\* kernel buffers, and no more is played than Piper makes of the text.
THEOREM TypeCorrect == Spec => []TypeOK
<1>1. PInv /\ DInv => TypeOK
  BY DEF PInv, EndsInv, ChildrenInv, ChildType, DInv, FlagType, CountType, VolumeInv,
     Made, TypeOK
<1> QED
  BY <1>1, DInvariant, PTL

\* When nothing fails, speak_piper returns only after all of the text was
\* heard: no early close, kill or reaping cuts it off, in either build, for
\* every text and every size of the pipes.
THEOREM NothingCutOff == Spec => []HeardInFull
<1>1. DInv => HeardInFull
  BY DEF DInv
<1> QED
  BY <1>1, DInvariant, PTL
=============================================================================
