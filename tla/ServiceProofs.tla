---------------------------- MODULE ServiceProofs ----------------------------
(***************************************************************************)
(* The service with speak_piper inside it.  Every step is one of Speech,   *)
(* and one of SpeakPiper, or leaves the one or the other alone: so each of *)
(* the two keeps its safety where the other runs with it, and speak_piper  *)
(* only ever runs while the service holds what it uses.                    *)
(***************************************************************************)
EXTENDS Service, TLAPS

L == INSTANCE SpeechProofs
K == INSTANCE SpeakPiperProofs WITH pc <- at

\* What Speech asks of the constants is asked of the service's.
LEMMA Assumed == L!CapAssumption /\ L!NullAssumption /\ L!BuildAssumption
BY SpeechAssumption
   DEF S!CapAssumption, S!NullAssumption, S!BuildAssumption,
       L!CapAssumption, L!NullAssumption, L!BuildAssumption

LEMMA PiperAssumed == K!TextFitsPipe /\ K!WavAssumption /\ K!BuildAssumption
BY PiperAssumption
   DEF P!TextFitsPipe, P!WavAssumption, P!BuildAssumption,
       K!TextFitsPipe, K!WavAssumption, K!BuildAssumption

-----------------------------------------------------------------------------
(* Each step, seen from either part.                                       *)

LEMMA SpeechInitKept == Init => S!Init
BY DEF Init

LEMMA SpeechStep == [Next]_vars => [S!Next]_(S!vars)
<1> SUFFICES ASSUME [Next]_vars PROVE [S!Next]_(S!vars)
  OBVIOUS
<1>u. UNCHANGED speech => UNCHANGED S!vars
  BY DEF speech, S!vars, S!life, S!resources
<1>1. CASE Start \/ Say \/ Pop \/ Wakeup \/ Stop
  BY <1>1 DEF Start, Say, Pop, Wakeup, Stop, S!Next
<1>2. CASE End \/ SayWithSpeechd
  BY <1>2 DEF End, SayWithSpeechd, S!Next
<1>3. CASE Begin \/ GoOn \/ PiperWorks \/ SinkWorks \/ ChildFails \/ OtherStarts \/ OtherEnds
  BY <1>3, <1>u DEF Begin, GoOn, PiperWorks, SinkWorks, ChildFails, OtherStarts, OtherEnds
<1>4. CASE UNCHANGED vars
  BY <1>4, <1>u DEF vars
<1> QED
  BY <1>1, <1>2, <1>3, <1>4 DEF Next

LEMMA PiperStep == [Next]_vars => [P!Next]_(P!vars)
<1> SUFFICES ASSUME [Next]_vars PROVE [P!Next]_(P!vars)
  OBVIOUS
<1>u. UNCHANGED speaking => UNCHANGED P!vars
  BY DEF speaking, P!vars, P!pipes
<1>1. CASE Start \/ Say \/ Pop \/ Wakeup \/ Stop \/ End \/ SayWithSpeechd
  BY <1>1, <1>u DEF Start, Say, Pop, Wakeup, Stop, End, SayWithSpeechd
<1>2. CASE Begin \/ GoOn \/ PiperWorks \/ SinkWorks \/ ChildFails \/ OtherStarts \/ OtherEnds
  BY <1>2 DEF Begin, GoOn, PiperWorks, SinkWorks, ChildFails, OtherStarts, OtherEnds,
     P!Next
<1>3. CASE UNCHANGED vars
  BY <1>3, <1>u DEF vars
<1> QED
  BY <1>1, <1>2, <1>3 DEF Next

\* Every behaviour of the service with speak_piper in it is one of Speech, in
\* which backend_say is one step: the safety part of ImplementsSpeech.
THEOREM ImplementsSpeechSafely == Spec => S!Init /\ [][S!Next]_(S!vars)
BY SpeechInitKept, SpeechStep, PTL DEF Spec

\* And one of SpeakPiper: a service that speaks, starts and stops around it
\* never disturbs the pipes and children of a text.
THEOREM ImplementsSpeakPiperSafely == Spec => P!Init /\ [][P!Next]_(P!vars)
<1>1. Init => P!Init
  BY DEF Init
<1> QED
  BY <1>1, PiperStep, PTL DEF Spec

-----------------------------------------------------------------------------
(* The steps of the two parts under the names SpeechProofs and             *)
(* SpeakPiperProofs have for them.                                         *)

LEMMA SameQueue ==
  /\ S!Threads = L!Threads /\ S!Zeroed = L!Zeroed /\ S!QueueInit = L!QueueInit
  /\ S!Waiting(q) = L!Waiting(q)
  /\ \A r, x : S!Push(r, x) = L!Push(r, x)
BY DEF S!Threads, L!Threads, S!Slots, L!Slots, S!Zeroed, L!Zeroed, S!QueueInit,
   L!QueueInit,
       S!Waiting, L!Waiting, S!Contents, L!Contents, S!SlotAt, L!SlotAt,
       S!Push, L!Push, S!AddTail, L!AddTail, S!DropHead, L!DropHead, S!Advance, L!Advance

LEMMA SameSpeechInit == S!Init => L!Init
BY SameQueue DEF S!Init, L!Init

LEMMA SameSpeechNext == [S!Next]_(S!vars) => [L!Next]_(L!vars)
<1> USE DEF S!Goto, L!Goto, S!life, L!life, S!resources, L!resources, S!Signalled,
     L!Signalled
<1>1. ASSUME NEW piperOk \in BOOLEAN, NEW spdOk \in BOOLEAN
      PROVE  /\ S!SpeechInit(piperOk, spdOk) => L!SpeechInit(piperOk, spdOk)
             /\ S!SpeechInitFails(piperOk, spdOk) => L!SpeechInitFails(piperOk, spdOk)
  BY SameQueue DEF S!SpeechInit, L!SpeechInit, S!SpeechInitFails, L!SpeechInitFails,
                   S!Chosen, L!Chosen
<1>2. ASSUME NEW t \in Callers
      PROVE  /\ S!SpeechSay(t) => L!SpeechSay(t)
             /\ S!QueuePush(t) => L!QueuePush(t)
  BY SameQueue DEF S!SpeechSay, L!SpeechSay, S!QueuePush, L!QueuePush, S!Evicted,
     L!Evicted
<1>3. /\ S!QueuePop => L!QueuePop
      /\ S!SpuriousWakeup => L!SpuriousWakeup
      /\ S!BackendSay => L!BackendSay
  BY DEF S!QueuePop, L!QueuePop, S!PopItem, L!PopItem, S!PopRest, L!PopRest,
         S!DropHead, L!DropHead, S!Advance, L!Advance, S!SlotAt, L!SlotAt,
         S!SpuriousWakeup, L!SpuriousWakeup, S!BackendSay, L!BackendSay, S!Fallback, L!Fallback
<1>4. /\ S!SpeechReady => L!SpeechReady
      /\ S!SpeechClose => L!SpeechClose
      /\ S!QueueStop => L!QueueStop
      /\ S!JoinWorker => L!JoinWorker
      /\ S!Release => L!Release
  BY SameQueue
     DEF S!SpeechReady, L!SpeechReady, S!SpeechClose, L!SpeechClose, S!QueueStop,
          L!QueueStop,
         S!JoinWorker, L!JoinWorker, S!Release, L!Release, S!Stopped, L!Stopped
<1>5. UNCHANGED S!vars => UNCHANGED L!vars
  BY DEF S!vars, L!vars
<1> QED
  BY <1>1, <1>2, <1>3, <1>4, <1>5 DEF S!Next, L!Next

LEMMA SamePiperNext == [P!Next]_(P!vars) => [K!Next]_(K!vars)
<1> USE DEF P!Goto, K!Goto, P!pipes, K!pipes, P!Ends, K!Ends, P!InEnds, K!InEnds,
            P!OutEnds, K!OutEnds, P!Procs, K!Procs, P!Close, K!Close, P!Held, K!Held
<1>1. /\ P!Speak => K!Speak
      /\ P!PipeIn => K!PipeIn
      /\ P!PipeOut => K!PipeOut
      /\ P!SetCloexec => K!SetCloexec
  BY DEF P!Speak, K!Speak, P!PipeIn, K!PipeIn, P!PipeOut, K!PipeOut,
         P!NewPipe, K!NewPipe, P!SetCloexec, K!SetCloexec
<1>2. /\ P!SpawnPiper => K!SpawnPiper
      /\ P!CloseChildEnds => K!CloseChildEnds
      /\ P!WriteText => K!WriteText
      /\ P!CloseText => K!CloseText
      /\ P!SpawnSink => K!SpawnSink
      /\ P!HandOver => K!HandOver
  BY DEF P!SpawnPiper, K!SpawnPiper, P!CloseChildEnds, K!CloseChildEnds, P!WriteText,
     K!WriteText,
         P!CloseText, K!CloseText, P!SpawnSink, K!SpawnSink, P!HandOver, K!HandOver,
         P!Spawn, K!Spawn, P!Inherited, K!Inherited, P!CloseAll, K!CloseAll,
         P!Fallback, K!Fallback
<1>3. /\ \A from, to : P!WaitPiper(from, to) => K!WaitPiper(from, to)
      /\ P!WaitSink => K!WaitSink
      /\ P!KillPiper => K!KillPiper
      /\ P!CloseOut => K!CloseOut
  BY DEF P!WaitPiper, K!WaitPiper, P!WaitSink, K!WaitSink, P!KillPiper, K!KillPiper,
         P!CloseOut, K!CloseOut, P!Fallback, K!Fallback
<1>4. P!Pulse => K!Pulse
  BY DEF P!Pulse, K!Pulse, P!PulseHeader, K!PulseHeader, P!PulsePlay, K!PulsePlay,
         P!PulseDiscard, K!PulseDiscard, P!PulseClose, K!PulseClose,
         P!ReadOut, K!ReadOut, P!EndOfOut, K!EndOfOut
<1>5. P!PiperWorks \/ P!PiperFails => K!PiperWorks \/ K!PiperFails
  BY DEF P!PiperWorks, K!PiperWorks, P!PiperReads, K!PiperReads, P!PiperWrites,
     K!PiperWrites,
         P!PiperDone, K!PiperDone, P!PiperFails, K!PiperFails, P!PiperExits, K!PiperExits
<1>6. P!SinkWorks \/ P!SinkFails => K!SinkWorks \/ K!SinkFails
  BY DEF P!SinkWorks, K!SinkWorks, P!SinkPlays, K!SinkPlays, P!SinkDone, K!SinkDone,
         P!SinkFails, K!SinkFails, P!SinkExits, K!SinkExits,
         P!ReadOut, K!ReadOut, P!EndOfOut, K!EndOfOut
<1>7. P!OtherStarts \/ P!OtherEnds => K!OtherStarts \/ K!OtherEnds
  BY DEF P!OtherStarts, K!OtherStarts, P!OtherEnds, K!OtherEnds
<1>8. UNCHANGED P!vars => UNCHANGED K!vars
  BY DEF P!vars, K!vars
<1>9. P!Host => K!Host
  BY <1>1, <1>2, <1>3, <1>4 DEF P!Host, K!Host
<1> QED
  BY <1>1, <1>5, <1>6, <1>7, <1>8, <1>9 DEF P!Next, K!Next

-----------------------------------------------------------------------------
(* What the service and speak_piper say of each other.                     *)

\* The worker is in speak_piper only on behalf of a text it took for Piper.
InsideInv ==
  /\ inside => worker = "say" /\ backend = "PIPER"
  /\ ~inside => at = "idle"

SInv == L!IInv /\ L!OwnerInv /\ K!PInv /\ InsideInv

\* Once it has returned, speak_piper takes no step.
LEMMA HostRuns == P!Host => at # "idle"
BY DEF P!Host, P!PipeIn, P!PipeOut, P!SetCloexec, P!SpawnPiper, P!CloseChildEnds,
   P!WriteText,
       P!CloseText, P!SpawnSink, P!HandOver, P!WaitPiper, P!WaitSink, P!KillPiper, P!CloseOut,
       P!Pulse, P!PulseHeader, P!PulsePlay, P!PulseDiscard, P!PulseClose, P!Goto

LEMMA InsideNext == L!IInv /\ InsideInv /\ [Next]_vars => InsideInv'
<1> SUFFICES ASSUME L!IInv, InsideInv, [Next]_vars PROVE InsideInv'
  OBVIOUS
<1>i. L!LifeInv
  BY DEF L!IInv
<1>1. CASE Start
  BY <1>1, <1>i
     DEF Start, speaking, S!SpeechInitFails, S!SpeechInit, S!SpeechReady, S!Goto,
         L!LifeInv, InsideInv
<1>2. CASE Say
  BY <1>2 DEF Say, speaking, S!SpeechSay, S!QueuePush, S!Signalled, S!life, InsideInv
<1>3. CASE Pop \/ Wakeup
  BY <1>3 DEF Pop, Wakeup, speaking, S!QueuePop, S!SpuriousWakeup, S!life, InsideInv
<1>4. CASE Stop
  BY <1>4, <1>i
     DEF Stop, speaking, S!SpeechClose, S!QueueStop, S!JoinWorker, S!Release, S!Goto,
         S!Signalled, S!life, L!LifeInv, InsideInv
<1>5. CASE Begin
  BY <1>5 DEF Begin, speech, InsideInv
<1>6. CASE End
  BY <1>6 DEF End, speaking, InsideInv
<1>7. CASE SayWithSpeechd
  BY <1>7 DEF SayWithSpeechd, speaking, InsideInv
<1>8. CASE GoOn
  BY <1>8, HostRuns DEF GoOn, speech, InsideInv
<1>9. CASE PiperWorks \/ SinkWorks \/ ChildFails \/ OtherStarts \/ OtherEnds
  <2>1. UNCHANGED <<speech, inside, at>>
    BY <1>9
       DEF PiperWorks, SinkWorks, ChildFails, OtherStarts, OtherEnds, P!PiperWorks,
            P!PiperReads,
           P!PiperWrites, P!PiperDone, P!PiperFails, P!SinkWorks, P!SinkPlays, P!SinkDone,
           P!SinkFails, P!OtherStarts, P!OtherEnds
  <2> QED
    BY <2>1 DEF speech, InsideInv
<1>10. CASE UNCHANGED vars
  BY <1>10 DEF vars, speech, speaking, InsideInv
<1> QED
  BY <1>1, <1>2, <1>3, <1>4, <1>5, <1>6, <1>7, <1>8, <1>9, <1>10 DEF Next

LEMMA ServiceInvariant == Spec => []SInv
<1>1. Init => SInv
  <2> SUFFICES ASSUME Init PROVE SInv
    OBVIOUS
  <2>1. L!IInv /\ L!OwnerInv
    BY Assumed, SpeechInitKept, SameSpeechInit, L!InvInit, L!OwnerInit
  <2>2. K!Init
    BY DEF Init, P!Init, K!Init, P!Procs, K!Procs
  <2>3. K!PInv
    BY <2>2, PiperAssumed, K!PInvInit
  <2>4. InsideInv
    BY DEF Init, P!Init, InsideInv
  <2> QED
    BY <2>1, <2>3, <2>4 DEF SInv
<1>2. SInv /\ [Next]_vars => SInv'
  <2>1. [Next]_vars => [L!Next]_(L!vars) /\ [K!Next]_(K!vars)
    BY SpeechStep, SameSpeechNext, PiperStep, SamePiperNext
  <2>2. SInv /\ [Next]_vars => L!IInv' /\ L!OwnerInv'
    BY <2>1, Assumed, L!InvNext, L!OwnerNext DEF SInv
  <2>3. SInv /\ [Next]_vars => K!PInv'
    BY <2>1, PiperAssumed, K!PInvNext DEF SInv
  <2>4. SInv /\ [Next]_vars => InsideInv'
    BY InsideNext DEF SInv
  <2> QED
    BY <2>2, <2>3, <2>4 DEF SInv
<1> QED
  BY <1>1, <1>2, PTL DEF Spec

\* speak_piper never runs on an argv, a text or a service that is gone, and a
\* service never goes down, nor takes the next text, before the pipes and the
\* children of the last are gone; for every capacity, text and pipe.
THEOREM SpeaksOnlyAlive == Spec => []SpeaksAlive
<1>1. SInv => SpeaksAlive
  <2> SUFFICES ASSUME SInv PROVE SpeaksAlive
    OBVIOUS
  <2>1. CASE inside
    <3>1. worker = "say" /\ backend = "PIPER"
      BY <2>1 DEF SInv, InsideInv
    <3>2. q.usable
      BY <3>1, Assumed, L!WorkerHasQueue DEF SInv
    <3>3. cmds /\ taken \in heap
      BY <3>1 DEF SInv, L!IInv, L!ResourceInv, L!WorkerInv, L!OwnerInv
    <3> QED
      BY <2>1, <3>1, <3>2, <3>3 DEF SpeaksAlive
  <2>2. CASE ~inside
    <3>1. at = "idle"
      BY <2>2 DEF SInv, InsideInv
    <3>2. open["host"] = {} /\ piper = "none" /\ sink = "none"
      BY <3>1 DEF SInv, K!PInv, K!EndsInv, K!ChildrenInv, K!HostEnds, K!NoPiper,
         K!WithSink
    <3> QED
      BY <2>2, <3>1, <3>2 DEF SpeaksAlive
  <2> QED
    BY <2>1, <2>2
<1> QED
  BY <1>1, ServiceInvariant, PTL
=============================================================================
