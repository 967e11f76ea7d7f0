---------------------------- MODULE PluginProofs ----------------------------
(***************************************************************************)
(* Safety of the plugin's start, stop and hooked calls over the speech     *)
(* service.  Every step of the plugin but the unloading is a step of       *)
(* Speech, or leaves it alone, so what SpeechProofs shows of those steps   *)
(* holds here; what is left is where the host is with the plugin.          *)
(***************************************************************************)
EXTENDS Plugin, FiniteSetTheorems, TLAPS

P == INSTANCE SpeechProofs

\* The modules Speech and SpeechProofs name the same steps.
LEMMA Assumed == P!CapAssumption /\ P!NullAssumption /\ P!BuildAssumption
BY SpeechAssumption
   DEF S!CapAssumption, S!NullAssumption, S!BuildAssumption,
       P!CapAssumption, P!NullAssumption, P!BuildAssumption

LEMMA SameQueue ==
  /\ S!Threads = P!Threads /\ S!Slots = P!Slots
  /\ S!Zeroed = P!Zeroed /\ S!QueueInit = P!QueueInit
  /\ S!Waiting(q) = P!Waiting(q)
  /\ \A r, x : S!Push(r, x) = P!Push(r, x)
BY DEF S!Threads, P!Threads, S!Slots, P!Slots, S!Zeroed, P!Zeroed, S!QueueInit,
   P!QueueInit,
       S!Waiting, P!Waiting, S!Contents, P!Contents, S!SlotAt, P!SlotAt,
       S!Push, P!Push, S!AddTail, P!AddTail, S!DropHead, P!DropHead, S!Advance, P!Advance

LEMMA SameInit == S!Init => P!Init
BY SameQueue DEF S!Init, P!Init

LEMMA SameStart ==
  ASSUME NEW piperOk \in BOOLEAN, NEW spdOk \in BOOLEAN
  PROVE  /\ S!SpeechInit(piperOk, spdOk) => P!SpeechInit(piperOk, spdOk)
         /\ S!SpeechInitFails(piperOk, spdOk) => P!SpeechInitFails(piperOk, spdOk)
BY SameQueue
   DEF S!SpeechInit, P!SpeechInit, S!SpeechInitFails, P!SpeechInitFails, S!Chosen,
        P!Chosen,
       S!Goto, P!Goto

LEMMA SameSay ==
  ASSUME NEW t \in Callers
  PROVE  /\ S!SpeechSay(t) => P!SpeechSay(t)
         /\ S!QueuePush(t) => P!QueuePush(t)
<1>1. S!SpeechSay(t) => P!SpeechSay(t)
  BY DEF S!SpeechSay, P!SpeechSay, S!Goto, P!Goto, S!life, P!life, S!resources,
     P!resources
<1>2. S!QueuePush(t) => P!QueuePush(t)
  BY SameQueue
     DEF S!QueuePush, P!QueuePush, S!Goto, P!Goto, S!life, P!life, S!resources,
          P!resources,
         S!Evicted, P!Evicted, S!Signalled, P!Signalled
<1> QED
  BY <1>1, <1>2

LEMMA SameWorker ==
  /\ S!QueuePop => P!QueuePop
  /\ S!SpuriousWakeup => P!SpuriousWakeup
  /\ S!BackendSay => P!BackendSay
BY DEF S!QueuePop, P!QueuePop, S!PopItem, P!PopItem, S!PopRest, P!PopRest,
       S!DropHead, P!DropHead, S!Advance, P!Advance, S!SlotAt, P!SlotAt,
       S!SpuriousWakeup, P!SpuriousWakeup, S!BackendSay, P!BackendSay, S!Fallback, P!Fallback,
       S!life, P!life, S!resources, P!resources

LEMMA SameClose ==
  /\ S!SpeechReady => P!SpeechReady
  /\ S!SpeechClose => P!SpeechClose
  /\ S!QueueStop => P!QueueStop
  /\ S!JoinWorker => P!JoinWorker
  /\ S!Release => P!Release
BY SameQueue
   DEF S!SpeechReady, P!SpeechReady, S!SpeechClose, P!SpeechClose, S!QueueStop,
        P!QueueStop,
       S!JoinWorker, P!JoinWorker, S!Release, P!Release, S!Goto, P!Goto,
       S!Stopped, P!Stopped, S!Signalled, P!Signalled, S!life, P!life, S!resources, P!resources

\* So are the instances' numbers of elements.
LEMMA SameSize ==
  /\ \A X : P!IsFiniteSet(X) <=> IsFiniteSet(X)
  /\ \A X : S!Cardinality(X) = Cardinality(X) /\ P!Cardinality(X) = Cardinality(X)
<1>1. \A X : P!IsFiniteSet(X) <=> IsFiniteSet(X)
  BY DEF P!IsFiniteSet, IsFiniteSet
<1>2. \A X : S!Cardinality(X) = Cardinality(X) /\ P!Cardinality(X) = Cardinality(X)
  BY DEF S!Cardinality, P!Cardinality, Cardinality
<1> QED
  BY <1>1, <1>2

\* And their steps of the abstract FIFO.
LEMMA SameFifo ==
  /\ P!Fifo!Init => S!Fifo!Init
  /\ [P!Fifo!Next]_(P!Fifo!vars) => [S!Fifo!Next]_(S!Fifo!vars)
<1> USE DEF S!Contents, P!Contents, S!SlotAt, P!SlotAt
<1>1. P!Fifo!Init => S!Fifo!Init
  BY DEF P!Fifo!Init, S!Fifo!Init
<1>2. P!Fifo!vars = S!Fifo!vars /\ P!Fifo!vars' = S!Fifo!vars'
  BY DEF P!Fifo!vars, S!Fifo!vars
<1>3. P!Fifo!Next => S!Fifo!Next
  BY DEF P!Fifo!Next, S!Fifo!Next, P!Fifo!Open, S!Fifo!Open, P!Fifo!Accept, S!Fifo!Accept,
         P!Fifo!Take, S!Fifo!Take, P!Fifo!Finish, S!Fifo!Finish, P!Fifo!Drain, S!Fifo!Drain,
         P!Fifo!Shutdown, S!Fifo!Shutdown
<1> QED
  BY <1>1, <1>2, <1>3

-----------------------------------------------------------------------------
(* Where the main thread is with the plugin, and where it is in Speech.    *)

Phases == {"loaded", "speech", "hook", "patch", "back", "running", "stopping", "stopped",
           "unloaded"}

\* The service is up only between XPluginStart and XPluginStop.
PhaseInv ==
  /\ phase \in Phases
  /\ phase \in {"loaded", "stopped", "unloaded"} => pc[Main] = "idle" /\ ~ready
  /\ phase = "speech" => pc[Main] \in {"idle", "ready"} /\ ~ready
  /\ phase \in {"hook", "patch", "back", "running"} => pc[Main] \in {"idle", "push"}
  /\ phase = "stopping" => pc[Main] \in {"stop", "join", "release"} /\ ~ready

\* A step of the plugin is one of the service or of none of its state, except
\* that the unloading clears the variables that live in the plugin.
LEMMA ServiceStep == [Next]_vars => [P!Next]_(P!vars) \/ Unload
<1> SUFFICES ASSUME [Next]_vars, ~Unload PROVE [P!Next]_(P!vars)
  OBVIOUS
<1>u. UNCHANGED speech => UNCHANGED P!vars
  BY DEF speech, P!vars, P!life, P!resources
<1>1. CASE StartFinds \/ Load \/ UNCHANGED vars
  BY <1>1, <1>u DEF StartFinds, Load, vars
<1>h. CASE NotHooked \/ JumpBegins \/ JumpEnds \/ JumpBack
  BY <1>h, <1>u DEF NotHooked, JumpBegins, JumpEnds, JumpBack
<1>2. CASE StartSpeech
  BY <1>2, SameStart DEF StartSpeech, P!Next
<1>3. CASE SpeechReady \/ StopGoesOn \/ StopEnds
  BY <1>3, SameClose DEF SpeechReady, StopGoesOn, StopEnds, P!Next
<1>4. CASE StopBegins
  BY <1>4, <1>u, SameClose DEF StopBegins, P!Next
<1>5. CASE Worker
  BY <1>5, SameWorker DEF Worker, P!Next
<1>6. ASSUME NEW t \in Callers, Call(t) \/ Leave(t) \/ Trampoline(t)
      PROVE  [P!Next]_(P!vars)
  BY <1>6, <1>u DEF Call, Leave, Trampoline
<1>7. ASSUME NEW t \in Callers, Kuk(t) \/ Push(t)
      PROVE  [P!Next]_(P!vars)
  BY <1>7, <1>u, SameSay DEF Kuk, Push, P!Next
<1> QED
  BY <1>1, <1>h, <1>2, <1>3, <1>4, <1>5, <1>6, <1>7 DEF Next

\* What the unloading leaves of the service: the queue's memory zeroed, no
\* thread in a call, and the heap as it was.
LEMMA UnloadEffect ==
  Unload =>
    /\ phase = "stopped" /\ phase' = "unloaded"
    /\ q' = P!Zeroed /\ unavailable' = FALSE
    /\ pc' = [t \in P!Threads |-> "idle"] /\ copy' = [t \in P!Threads |-> NULL]
    /\ UNCHANGED <<heap, ready, started, backend, cmds, conn, pulse, worker, taken>>
BY SameQueue DEF Unload, Phase

LEMMA PhaseNext == P!IInv /\ PhaseInv /\ [Next]_vars => PhaseInv'
<1> SUFFICES ASSUME P!IInv, PhaseInv, [Next]_vars PROVE PhaseInv'
  OBVIOUS
<1>i. /\ Main \in P!Threads /\ (\A t \in Callers : t \in P!Threads)
      /\ pc \in [P!Threads -> {"idle", "push", "ready", "stop", "join", "release"}]
      /\ ready \in BOOLEAN /\ (pc[Main] = "push" => ready)
  BY DEF P!IInv, P!TypeOK, P!LifeInv, P!Threads
<1>1. CASE StartFinds \/ Load \/ UNCHANGED vars
  BY <1>1 DEF StartFinds, Load, vars, speech, plugin, Phase, PhaseInv, Phases
<1>h. CASE NotHooked \/ JumpBegins \/ JumpEnds \/ JumpBack
  BY <1>h DEF NotHooked, JumpBegins, JumpEnds, JumpBack, speech, Phase, PhaseInv, Phases
<1>2. CASE StartSpeech
  BY <1>2, <1>i, SameStart
     DEF StartSpeech, P!SpeechInit, P!SpeechInitFails, P!Goto, Phase, PhaseInv, Phases
<1>3. CASE SpeechReady
  BY <1>3, <1>i, SameClose DEF SpeechReady, P!SpeechReady, P!Goto, Phase, PhaseInv, Phases
<1>4. CASE StopBegins
  BY <1>4, <1>i, SameClose
     DEF StopBegins, speech, P!SpeechClose, P!Goto, Phase, PhaseInv, Phases
<1>5. CASE StopGoesOn
  BY <1>5, <1>i, SameClose
     DEF StopGoesOn, plugin, P!QueueStop, P!JoinWorker, P!Goto, P!life, PhaseInv, Phases
<1>6. CASE StopEnds
  BY <1>6, <1>i, SameClose DEF StopEnds, P!Release, P!Goto, Phase, PhaseInv, Phases
<1>7. CASE Worker
  BY <1>7, SameWorker
     DEF Worker, plugin, P!QueuePop, P!SpuriousWakeup, P!BackendSay, P!life, PhaseInv,
          Phases
<1>8. ASSUME NEW t \in Callers, Call(t) \/ Leave(t) \/ Trampoline(t)
      PROVE  PhaseInv'
  BY <1>8 DEF Call, Leave, Trampoline, speech, PhaseInv, Phases
<1>9. ASSUME NEW t \in Callers, Kuk(t) \/ Push(t)
      PROVE  PhaseInv'
  BY <1>9, <1>i, SameSay
     DEF Kuk, Push, speech, P!SpeechSay, P!QueuePush, P!Goto, P!life, PhaseInv, Phases
<1>10. CASE Unload
  BY <1>10, <1>i, UnloadEffect DEF PhaseInv, Phases
<1> QED
  BY <1>1, <1>h, <1>2, <1>3, <1>4, <1>5, <1>6, <1>7, <1>8, <1>9, <1>10 DEF Next

\* The unloading finds the service down, and so keeps what holds of it.
LEMMA UnloadKeeps == P!IInv /\ PhaseInv /\ Unload => P!IInv'
<1> SUFFICES ASSUME P!IInv, PhaseInv, Unload PROVE P!IInv'
  OBVIOUS
<1>0. Main \in P!Threads
  BY DEF P!Threads
<1>i. P!TypeOK /\ P!CallersInv /\ P!LifeInv /\ P!WorkerInv /\ P!ResourceInv
  BY DEF P!IInv
<1>1. /\ pc[Main] = "idle" /\ ~ready
      /\ q' = P!Zeroed /\ unavailable' = FALSE
      /\ pc' = [t \in P!Threads |-> "idle"] /\ copy' = [t \in P!Threads |-> NULL]
      /\ UNCHANGED <<heap, ready, started, backend, cmds, conn, pulse, worker, taken>>
  BY UnloadEffect DEF PhaseInv
<1>2. q' \in P!Queue /\ P!WellFormed(q') /\ ~q'.usable /\ ~q'.stop /\ q'.count = 0
  BY <1>1, Assumed, P!ZeroedType, P!ZeroedWellFormed DEF P!Zeroed
<1>3. P!TypeOK'
  BY <1>i, <1>1, <1>2 DEF P!TypeOK
<1>4. P!CallersInv'
  BY <1>1 DEF P!CallersInv
<1>5. P!LifeInv'
  BY <1>0, <1>i, <1>1, <1>2 DEF P!LifeInv
<1>6. P!WorkerInv' /\ P!ResourceInv'
  BY <1>0, <1>i, <1>1, <1>2 DEF P!LifeInv, P!WorkerInv, P!ResourceInv
<1> QED
  BY <1>2, <1>3, <1>4, <1>5, <1>6 DEF P!IInv

LEMMA InvariantInit == Init => P!IInv /\ PhaseInv
<1>1. Init => P!Init
  BY SameInit DEF Init
<1>2. Init => PhaseInv
  BY <1>1 DEF Init, P!Init, P!Threads, PhaseInv, Phases
<1> QED
  BY <1>1, <1>2, Assumed, P!InvInit

LEMMA InvariantNext == P!IInv /\ PhaseInv /\ [Next]_vars => (P!IInv /\ PhaseInv)'
BY Assumed, P!InvNext, ServiceStep, PhaseNext, UnloadKeeps

LEMMA PluginInvariant == Spec => [](P!IInv /\ PhaseInv)
BY InvariantInit, InvariantNext, PTL DEF Spec

\* When the host may unload the plugin, its worker has been joined, its backend
\* closed and its queue destroyed, however often it was started, stopped,
\* failed to start or was reloaded.
THEOREM NothingRuns == Spec => []NothingRunsWhenStopped
<1>1. P!IInv /\ PhaseInv => NothingRunsWhenStopped
  BY DEF P!IInv, P!LifeInv, P!ResourceInv, PhaseInv, NothingRunsWhenStopped
<1> QED
  BY <1>1, PluginInvariant, PTL

-----------------------------------------------------------------------------
(* The hooked calls.                                                       *)

Places == {"out", "head", "stub", "say", "tail", "lost"}

\* Until the host unloads the plugin, a jump leads to where it is mapped, and
\* once the writing is over the trampoline leads back.
PatchInv ==
  /\ phase # "unloaded" /\ lib # 0
  /\ jump \in {0, Torn, lib}
  /\ jump = Torn <=> phase = "patch"
  /\ phase \in {"loaded", "speech", "hook"} => jump = 0
  /\ phase = "back" => jump = lib
  /\ jump = lib /\ phase # "back" => tramp

\* A thread in the plugin came over the jump; one that is lost, or still in the
\* bytes that were overwritten, has met the writing, and so has every call there
\* is while it lasts.
CaughtInv ==
  \A t \in Callers :
    /\ at[t] \in {"stub", "say", "tail"} => jump = lib
    /\ at[t] = "lost" => t \in caught
    /\ at[t] = "head" /\ jump # 0 => t \in caught
    /\ Writing /\ at[t] # "out" => t \in caught

\* The main thread, which writes, is in no call then.
HookInv ==
  /\ lib \in Nat
  /\ at \in [P!Threads -> Places]
  /\ phase \in Phases
  /\ phase \notin {"running", "stopped"} => at[Main] = "out"
  /\ Main \notin caught
  /\ ~gone => PatchInv /\ CaughtInv

LEMMA HookInit == Init => HookInv
<1> SUFFICES ASSUME Init PROVE HookInv
  OBVIOUS
<1>1. lib \in Nat /\ lib # 0 /\ Main \in P!Threads /\ \A t \in Callers : t \in P!Threads
  BY BasesAssumption DEF Init, P!Threads
<1>2. at = [t \in P!Threads |-> "out"]
  BY SameQueue DEF Init
<1>3. PatchInv
  BY <1>1 DEF Init, PatchInv, Torn
<1>4. CaughtInv
  BY <1>1, <1>2 DEF Init, CaughtInv, Writing
<1> QED
  BY <1>1, <1>2, <1>3, <1>4 DEF Init, HookInv, Phases, Places

\* One step for each action; for those of a call, one for each part.
LEMMA HookNext == HookInv /\ [Next]_vars => HookInv'
<1> SUFFICES ASSUME HookInv, [Next]_vars PROVE HookInv'
  OBVIOUS
<1>0. Main \in P!Threads /\ \A t \in Callers : t \in P!Threads
  BY DEF P!Threads
<1> USE DEF HookInv, PatchInv, CaughtInv, Phases, Torn, Writing
<1>1. CASE StartFinds \/ StartSpeech \/ SpeechReady \/ StopBegins \/ StopEnds
  BY <1>1 DEF StartFinds, StartSpeech, SpeechReady, StopBegins, StopEnds, Phase
<1>2. CASE StopGoesOn \/ Worker \/ UNCHANGED vars
  BY <1>2 DEF StopGoesOn, Worker, vars, plugin
<1>3. CASE NotHooked
  BY <1>3 DEF NotHooked, Phase
<1>4. CASE JumpBegins
  BY <1>0, <1>4 DEF JumpBegins, Phase
<1>5. CASE JumpEnds
  BY <1>5 DEF JumpEnds, Phase
<1>6. CASE JumpBack
  BY <1>6 DEF JumpBack, Phase
<1>7. CASE Unload
  BY <1>0, <1>7, SameQueue DEF Unload, Phase, Places
<1>8. CASE Load
  BY <1>8, BasesAssumption DEF Load, Phase
<1>9. ASSUME NEW t \in Callers, Call(t) PROVE HookInv'
  BY <1>0, <1>9 DEF Call, Goes, Places
<1>10. ASSUME NEW t \in Callers, Leave(t) PROVE HookInv'
  BY <1>0, <1>10 DEF Leave, Returns, Goes, Places
<1>11. ASSUME NEW t \in Callers, Kuk(t) \/ Push(t) PROVE HookInv'
  BY <1>0, <1>11 DEF Kuk, Push, Goes, Places
<1>12. ASSUME NEW t \in Callers, Trampoline(t) PROVE HookInv'
  BY <1>0, <1>12 DEF Trampoline, Returns, Goes, Places
<1> QED
  BY <1>1, <1>2, <1>3, <1>4, <1>5, <1>6, <1>7, <1>8, <1>9, <1>10, <1>11, <1>12 DEF Next

\* Until the first unloading, in all phases of start and stop, a call of the
\* main thread is never lost, and one of another thread only if it and
\* hook_proc's writing of the patch overlap.
THEOREM CallsGoOn == Spec => []CallsSurvive
<1>1. HookInv => CallsSurvive
  BY DEF HookInv, CaughtInv, CallsSurvive
<1> QED
  BY <1>1, HookInit, HookNext, PTL DEF Spec

-----------------------------------------------------------------------------
(* The copies of the texts, and their order.                               *)

\* The unloading forgets pointers, and those of a service that is down have
\* nothing left to free but what late callers hold.
LEMMA UnloadOwners ==
  P!IInv /\ PhaseInv /\ P!OwnerInv /\ Unload => P!OwnerInv'
<1> SUFFICES ASSUME P!IInv, PhaseInv, P!OwnerInv, Unload PROVE P!OwnerInv'
  OBVIOUS
<1>1. /\ q' = P!Zeroed /\ copy' = [t \in P!Threads |-> NULL]
      /\ UNCHANGED <<heap, worker, taken>>
  BY UnloadEffect
<1>2. P!Waiting(q') = {} /\ P!Distinct(q')
  BY <1>1, Assumed, P!ZeroedEmpty
<1>3. taken = NULL
  BY UnloadEffect DEF PhaseInv, P!IInv, P!LifeInv, P!WorkerInv
<1> QED
  BY <1>1, <1>2, <1>3 DEF P!OwnerInv

LEMMA UnloadLate ==
  ASSUME IsFiniteSet(Callers)
  PROVE  Unload => P!LateInv'
<1> SUFFICES ASSUME Unload PROVE P!LateInv'
  OBVIOUS
<1>1. q' = P!Zeroed /\ pc' = [t \in P!Threads |-> "idle"]
  BY UnloadEffect
<1>2. q'.count = 0 /\ P!Late' = {}
  BY <1>1 DEF P!Zeroed, P!Late, P!Threads
<1>3. Cardinality({}) = 0 /\ Cardinality(Callers \ {Main}) \in Nat
  BY FS_EmptySet, FS_Subset, FS_CardinalityType
<1> QED
  BY <1>2, <1>3, SameSize DEF P!LateInv

\* Every copy of a text has one owner, also across stops, failed starts and
\* reloads; what is left in a dead queue is one text of each thread that was
\* inside its call, for any number of threads.
THEOREM CopiesStayOwned ==
  ASSUME IsFiniteSet(Callers)
  PROVE  Spec => []CopiesOwned
<1> DEFINE Inv == P!IInv /\ PhaseInv /\ P!OwnerInv /\ P!LateInv
<1>1. Init => Inv
  <2>1. Init => P!Init /\ P!IInv /\ PhaseInv
    BY SameInit, InvariantInit DEF Init
  <2> QED
    BY <2>1, Assumed, SameSize, P!OwnerInit, P!LateInit
<1>2. Inv /\ [Next]_vars => Inv'
  <2>1. Inv /\ [Next]_vars => (P!IInv /\ PhaseInv)'
    BY InvariantNext
  <2>2. Inv /\ [P!Next]_(P!vars) => P!OwnerInv' /\ P!LateInv'
    BY Assumed, SameSize, P!InvNext, P!OwnerNext, P!LateNext
  <2>3. Inv /\ Unload => P!OwnerInv' /\ P!LateInv'
    BY UnloadOwners, UnloadLate
  <2> QED
    BY <2>1, <2>2, <2>3, ServiceStep
<1>3. Inv => CopiesOwned
  <2>1. Inv => P!OneOwner /\ P!LateCopiesBounded
    BY Assumed, SameSize, P!OwnerImplies, P!LateImplies
  <2>2. P!OneOwner => S!OneOwner
    BY SameQueue
       DEF P!OneOwner, S!OneOwner, P!Held, S!Held, P!Contents, S!Contents, P!SlotAt,
            S!SlotAt
  <2>3. P!LateCopiesBounded => S!LateCopiesBounded
    BY SameSize DEF P!LateCopiesBounded, S!LateCopiesBounded
  <2> QED
    BY <2>1, <2>2, <2>3 DEF CopiesOwned
<1> QED
  BY <1>1, <1>2, <1>3, PTL DEF Spec

\* The abstract FIFO's promise survives the plugin's life: order, displacement
\* of the oldest only, one text at a time, and a close that drains, over any
\* number of starts, stops and reloads.
THEOREM FifoIsKept == Spec => FifoKept
<1>1. P!IInv /\ PhaseInv /\ Unload => UNCHANGED P!Fifo!vars
  <2> SUFFICES ASSUME P!IInv, PhaseInv, Unload PROVE UNCHANGED P!Fifo!vars
    OBVIOUS
  <2>1. q' = P!Zeroed /\ ~q.usable /\ taken' = taken
    BY UnloadEffect DEF PhaseInv, P!IInv, P!LifeInv
  <2> QED
    BY <2>1 DEF P!Fifo!vars, P!Zeroed
<1>2. P!IInv /\ PhaseInv /\ [Next]_vars => [P!Fifo!Next]_(P!Fifo!vars)
  BY <1>1, Assumed, P!InvNext, P!RefinesNext, ServiceStep
<1>3. Init => P!Fifo!Init
  BY Assumed, SameInit, P!RefinesInit DEF Init
<1> QED
  BY <1>2, <1>3, SameFifo, PluginInvariant, PTL DEF Spec, FifoKept, S!Fifo!SafeSpec
=============================================================================
