---------------------------- MODULE SpeechProofs ----------------------------
(***************************************************************************)
(* Safety of the speech service for every queue capacity, every set of     *)
(* texts and every set of calling threads.                                 *)
(***************************************************************************)
EXTENDS Speech, TtsQueueProofs, FiniteSetTheorems

-----------------------------------------------------------------------------
(* The inductive invariant: where the main thread is decides what exists.  *)

\* Only a thread inside queue_push holds a copy, and only Main is ever inside
\* speech_init or speech_close.
CallersInv ==
  /\ \A t \in Threads : pc[t] = "push" <=> copy[t] # NULL
  /\ \A t \in Threads \ {Main} : pc[t] \in {"idle", "push"}

\* The worker, its queue and the stop flag at each place of Main.
LifeInv ==
  /\ ready => pc[Main] \in {"idle", "push"} /\ started
  /\ ready \/ pc[Main] \in {"ready", "stop"} =>
       worker \notin {"none", "done"} /\ q.usable /\ ~q.stop
  /\ pc[Main] = "push" => ready
  /\ pc[Main] \in {"stop", "join"} => started
  /\ pc[Main] = "join" => worker # "none" /\ q.usable /\ q.stop
  /\ pc[Main] = "release" =>
       worker = "none" /\ ~started /\ q.usable /\ q.stop /\ q.count = 0
  /\ pc[Main] = "idle" /\ ~ready =>
       worker = "none" /\ ~started /\ ~q.usable /\ ~q.stop

\* What each place of the worker says of the queue.
WorkerInv ==
  /\ worker = "done" => q.stop /\ q.count = 0
  /\ worker = "wait" => ~q.stop /\ q.count = 0
  /\ worker = "say" <=> taken # NULL

\* What the backend needs is there exactly while there is a backend.
ResourceInv ==
  /\ worker # "none" => \/ backend = "PIPER" /\ cmds
                        \/ backend = "SPEECHD" /\ conn
  /\ cmds => backend = "PIPER"
  /\ pc[Main] = "idle" /\ ~ready =>
       backend = "NONE" /\ ~cmds /\ ~conn /\ ~pulse

IInv == TypeOK /\ WellFormed(q) /\ CallersInv /\ LifeInv /\ WorkerInv /\ ResourceInv

LEMMA InvInit == Init => IInv
<1> SUFFICES ASSUME Init PROVE IInv
  OBVIOUS
<1>1. q = Zeroed /\ q \in Queue /\ WellFormed(q)
  BY ZeroedType, ZeroedWellFormed DEF Init
<1>2. ~q.usable /\ ~q.stop /\ q.count = 0
  BY <1>1 DEF Zeroed
<1>3. TypeOK
  BY <1>1, NullAssumption DEF Init, TypeOK, Backends
<1>4. CallersInv
  BY DEF Init, CallersInv
<1>5. LifeInv /\ WorkerInv /\ ResourceInv
  BY <1>2 DEF Init, LifeInv, WorkerInv, ResourceInv, Threads
<1> QED
  BY <1>1, <1>3, <1>4, <1>5 DEF IInv

\* Every step of the host threads and of the worker keeps it.
LEMMA InvNext == IInv /\ [Next]_vars => IInv'
<1> SUFFICES ASSUME IInv, [Next]_vars PROVE IInv'
  OBVIOUS
<1> USE DEF life, resources
<1>0. Main \in Threads /\ \A t \in Callers : t \in Threads
  BY DEF Threads
<1>i. TypeOK /\ WellFormed(q) /\ CallersInv /\ LifeInv /\ WorkerInv /\ ResourceInv
  BY DEF IInv
<1>1. ASSUME NEW piperOk \in BOOLEAN, NEW spdOk \in BOOLEAN,
             SpeechInitFails(piperOk, spdOk)
      PROVE  IInv'
  <2>1. q' = Zeroed /\ q' \in Queue /\ WellFormed(q')
    BY <1>1, ZeroedType, ZeroedWellFormed DEF SpeechInitFails
  <2>2. ~q'.usable /\ ~q'.stop /\ q'.count = 0
    BY <2>1 DEF Zeroed
  <2>3. TypeOK'
    BY <1>0, <1>i, <1>1, <2>1, <2>2, NullAssumption DEF SpeechInitFails, TypeOK, Backends
  <2>4. CallersInv'
    BY <1>0, <1>i, <1>1, <2>1, <2>2, NullAssumption
       DEF SpeechInitFails, CallersInv, TypeOK
  <2>5. LifeInv'
    BY <1>0, <1>i, <1>1, <2>1, <2>2, NullAssumption DEF SpeechInitFails, LifeInv, TypeOK
  <2>6. WorkerInv'
    BY <1>0, <1>i, <1>1, <2>1, <2>2, NullAssumption
       DEF SpeechInitFails, LifeInv, WorkerInv, TypeOK
  <2>7. ResourceInv'
    BY <1>0, <1>i, <1>1, <2>1, <2>2, NullAssumption
       DEF SpeechInitFails, ResourceInv, LifeInv, TypeOK
  <2> QED
    BY <2>1, <2>2, <2>3, <2>4, <2>5, <2>6, <2>7, <1>i DEF IInv
<1>2. ASSUME NEW piperOk \in BOOLEAN, NEW spdOk \in BOOLEAN,
             SpeechInit(piperOk, spdOk)
      PROVE  IInv'
  <2>1. q' = QueueInit /\ q' \in Queue /\ WellFormed(q')
    BY <1>2, ZeroedType, ZeroedWellFormed DEF SpeechInit
  <2>2. q'.usable /\ ~q'.stop /\ q'.count = 0
    BY <2>1 DEF QueueInit
  <2>3. TypeOK'
    BY <1>0, <1>i, <1>2, <2>1, <2>2, NullAssumption
       DEF SpeechInit, Chosen, Goto, TypeOK, Backends
  <2>4. CallersInv'
    BY <1>0, <1>i, <1>2, <2>1, <2>2, NullAssumption
       DEF SpeechInit, Chosen, Goto, CallersInv, TypeOK
  <2>5. LifeInv'
    BY <1>0, <1>i, <1>2, <2>1, <2>2, NullAssumption
       DEF SpeechInit, Chosen, Goto, LifeInv, TypeOK
  <2>6. WorkerInv'
    BY <1>0, <1>i, <1>2, <2>1, <2>2, NullAssumption
       DEF SpeechInit, Chosen, Goto, LifeInv, WorkerInv, TypeOK
  <2>7. ResourceInv'
    BY <1>0, <1>i, <1>2, <2>1, <2>2, NullAssumption
       DEF SpeechInit, Chosen, Goto, ResourceInv, LifeInv, TypeOK
  <2> QED
    BY <2>1, <2>2, <2>3, <2>4, <2>5, <2>6, <2>7, <1>i DEF IInv
<1>3. CASE SpeechReady
  <2>1. q' = q /\ q' \in Queue /\ WellFormed(q')
    BY <1>i, <1>3 DEF TypeOK, SpeechReady
  <2>2. TypeOK'
    BY <1>0, <1>i, <1>3, <2>1, NullAssumption DEF SpeechReady, Goto, TypeOK, Backends
  <2>3. CallersInv'
    BY <1>0, <1>i, <1>3, <2>1, NullAssumption DEF SpeechReady, Goto, CallersInv, TypeOK
  <2>4. LifeInv'
    BY <1>0, <1>i, <1>3, <2>1, NullAssumption DEF SpeechReady, Goto, LifeInv, TypeOK
  <2>5. WorkerInv'
    BY <1>0, <1>i, <1>3, <2>1, NullAssumption DEF SpeechReady, Goto, WorkerInv, TypeOK
  <2>6. ResourceInv'
    BY <1>0, <1>i, <1>3, <2>1, NullAssumption
       DEF SpeechReady, Goto, ResourceInv, LifeInv, TypeOK
  <2> QED
    BY <2>1, <2>2, <2>3, <2>4, <2>5, <2>6, <1>i DEF IInv
<1>4. ASSUME NEW t \in Callers, SpeechSay(t)
      PROVE  IInv'
  <2>1. q' = q /\ q' \in Queue /\ WellFormed(q')
    BY <1>i, <1>4 DEF TypeOK, SpeechSay
  <2>2. TypeOK'
    BY <1>0, <1>i, <1>4, <2>1, NullAssumption DEF SpeechSay, Goto, TypeOK, Backends
  <2>3. CallersInv'
    BY <1>0, <1>i, <1>4, <2>1, NullAssumption DEF SpeechSay, Goto, CallersInv, TypeOK
  <2>4. LifeInv'
    BY <1>0, <1>i, <1>4, <2>1, NullAssumption DEF SpeechSay, Goto, LifeInv, TypeOK
  <2>5. WorkerInv'
    BY <1>0, <1>i, <1>4, <2>1, NullAssumption DEF SpeechSay, Goto, WorkerInv, TypeOK
  <2>6. ResourceInv'
    BY <1>0, <1>i, <1>4, <2>1, NullAssumption
       DEF SpeechSay, Goto, ResourceInv, LifeInv, TypeOK
  <2> QED
    BY <2>1, <2>2, <2>3, <2>4, <2>5, <2>6, <1>i DEF IInv
<1>5. ASSUME NEW t \in Callers, QueuePush(t)
      PROVE  IInv'
  <2> DEFINE x == copy[t]
  <2>1. t \in Threads /\ q \in Queue /\ x \in Texts /\ pc[t] = "push"
    BY <1>0, <1>5, <1>i DEF QueuePush, Goto, TypeOK, CallersInv
  <2>2. /\ pc' = [pc EXCEPT ![t] = "idle"] /\ copy' = [copy EXCEPT ![t] = NULL]
        /\ UNCHANGED <<life, resources, taken>>
    BY <1>5 DEF QueuePush, Goto
  <2>3. /\ q' \in Queue /\ WellFormed(q') /\ q'.stop = q.stop /\ q'.usable = q.usable
        /\ q.stop => q' = q /\ worker' = worker
        /\ ~q.stop => worker' = Signalled(worker)
        /\ heap' \subseteq heap
    <3>1. CASE q.stop
      BY <1>5, <1>i, <2>1, <3>1 DEF QueuePush
    <3>2. CASE ~q.stop
      <4>1. q' = Push(q, x) /\ worker' = Signalled(worker) /\ heap' \subseteq heap
        BY <1>5, <3>2 DEF QueuePush
      <4>2. /\ Push(q, x) \in Queue /\ WellFormed(Push(q, x))
            /\ Push(q, x).stop = q.stop /\ Push(q, x).usable = q.usable
        BY <1>i, <2>1, PushIsAppend
      <4> QED
        BY <3>2, <4>1, <4>2
    <3> QED
      BY <3>1, <3>2
  <2>4. TypeOK'
    BY <1>0, <1>i, <2>1, <2>2, <2>3, NullAssumption DEF Signalled, TypeOK, Backends
  <2>5. CallersInv'
    BY <1>0, <1>i, <2>1, <2>2, <2>3, NullAssumption DEF CallersInv, TypeOK
  <2>6. LifeInv'
    BY <1>0, <1>i, <2>1, <2>2, <2>3, NullAssumption DEF Signalled, LifeInv, TypeOK
  <2>7. WorkerInv'
    BY <1>0, <1>i, <2>1, <2>2, <2>3, NullAssumption DEF Signalled, WorkerInv, TypeOK
  <2>8. ResourceInv'
    BY <1>0, <1>i, <2>1, <2>2, <2>3, NullAssumption
       DEF Signalled, ResourceInv, LifeInv, TypeOK
  <2> QED
    BY <2>3, <2>4, <2>5, <2>6, <2>7, <2>8 DEF IInv
<1>6. CASE QueuePop
  <2>1. q \in Queue /\ worker = "pop" /\ taken = NULL
    BY <1>6, <1>i DEF TypeOK, QueuePop, WorkerInv
  <2>2. UNCHANGED <<heap, life, resources, pc, copy>>
    BY <1>6 DEF QueuePop
  <2>3. /\ q' \in Queue /\ WellFormed(q') /\ taken' \in Texts \cup {NULL}
        /\ q'.stop = q.stop /\ q'.usable = q.usable
        /\ \/ worker' = "wait" /\ taken' = NULL /\ q'.count = 0 /\ ~q.stop
           \/ worker' = "done" /\ taken' = NULL /\ q'.count = 0 /\ q.stop
           \/ worker' = "say" /\ taken' # NULL
    <3>1. /\ PopRest(q) \in Queue /\ WellFormed(PopRest(q))
          /\ PopRest(q).stop = q.stop /\ PopRest(q).usable = q.usable
          /\ PopItem(q) = NULL <=> q.count = 0
          /\ q.count = 0 => PopRest(q) = q
          /\ q.count # 0 => PopItem(q) \in Texts
      BY <1>i, <2>1, PopKeepsRing
    <3>2. CASE q.count = 0 /\ ~q.stop
      BY <1>6, <1>i, <2>1, <3>2 DEF QueuePop
    <3>3. CASE ~(q.count = 0 /\ ~q.stop)
      <4>1. /\ taken' = PopItem(q) /\ q' = PopRest(q)
            /\ worker' = IF taken' = NULL THEN "done" ELSE "say"
        BY <1>6, <3>3 DEF QueuePop
      <4> QED
        BY <3>1, <3>3, <4>1, NullAssumption
    <3> QED
      BY <3>2, <3>3
  <2>4. TypeOK'
    BY <1>i, <2>2, <2>3 DEF TypeOK
  <2>5. CallersInv'
    BY <1>i, <2>2 DEF CallersInv
  <2>6. LifeInv'
    BY <1>i, <2>1, <2>2, <2>3 DEF LifeInv
  <2>7. WorkerInv'
    BY <2>3 DEF WorkerInv
  <2>8. ResourceInv'
    BY <1>i, <2>1, <2>2 DEF ResourceInv
  <2> QED
    BY <2>3, <2>4, <2>5, <2>6, <2>7, <2>8 DEF IInv
<1>7. CASE SpuriousWakeup
  <2>1. q' = q /\ q' \in Queue /\ WellFormed(q')
    BY <1>i, <1>7 DEF TypeOK, SpuriousWakeup
  <2>2. TypeOK'
    BY <1>0, <1>i, <1>7, <2>1, NullAssumption DEF SpuriousWakeup, TypeOK, Backends
  <2>3. CallersInv'
    BY <1>0, <1>i, <1>7, <2>1, NullAssumption DEF SpuriousWakeup, CallersInv, TypeOK
  <2>4. LifeInv'
    BY <1>0, <1>i, <1>7, <2>1, NullAssumption DEF SpuriousWakeup, LifeInv, TypeOK
  <2>5. WorkerInv'
    BY <1>0, <1>i, <1>7, <2>1, NullAssumption DEF SpuriousWakeup, WorkerInv, TypeOK
  <2>6. ResourceInv'
    BY <1>0, <1>i, <1>7, <2>1, NullAssumption
       DEF SpuriousWakeup, ResourceInv, LifeInv, TypeOK
  <2> QED
    BY <2>1, <2>2, <2>3, <2>4, <2>5, <2>6, <1>i DEF IInv
<1>8. CASE BackendSay
  <2>1. q' = q /\ q' \in Queue /\ WellFormed(q')
    BY <1>i, <1>8 DEF TypeOK, BackendSay
  <2>2. TypeOK'
    BY <1>0, <1>i, <1>8, <2>1, NullAssumption DEF BackendSay, Fallback, TypeOK, Backends
  <2>3. CallersInv'
    BY <1>0, <1>i, <1>8, <2>1, NullAssumption DEF BackendSay, Fallback, CallersInv, TypeOK
  <2>4. LifeInv'
    BY <1>0, <1>i, <1>8, <2>1, NullAssumption DEF BackendSay, Fallback, LifeInv, TypeOK
  <2>5. WorkerInv'
    BY <1>0, <1>i, <1>8, <2>1, NullAssumption DEF BackendSay, Fallback, WorkerInv, TypeOK
  <2>6. ResourceInv'
    BY <1>0, <1>i, <1>8, <2>1, NullAssumption
       DEF BackendSay, Fallback, ResourceInv, LifeInv, TypeOK
  <2> QED
    BY <2>1, <2>2, <2>3, <2>4, <2>5, <2>6, <1>i DEF IInv
<1>9. CASE SpeechClose
  <2>1. q' = q /\ q' \in Queue /\ WellFormed(q')
    BY <1>i, <1>9 DEF TypeOK, SpeechClose
  <2>2. TypeOK'
    BY <1>0, <1>i, <1>9, <2>1, NullAssumption DEF SpeechClose, Goto, TypeOK, Backends
  <2>3. CallersInv'
    BY <1>0, <1>i, <1>9, <2>1, NullAssumption DEF SpeechClose, Goto, CallersInv, TypeOK
  <2>4. LifeInv'
    BY <1>0, <1>i, <1>9, <2>1, NullAssumption DEF SpeechClose, Goto, LifeInv, TypeOK
  <2>5. WorkerInv'
    BY <1>0, <1>i, <1>9, <2>1, NullAssumption DEF SpeechClose, Goto, WorkerInv, TypeOK
  <2>6. ResourceInv'
    BY <1>0, <1>i, <1>9, <2>1, NullAssumption
       DEF SpeechClose, Goto, ResourceInv, LifeInv, TypeOK
  <2> QED
    BY <2>1, <2>2, <2>3, <2>4, <2>5, <2>6, <1>i DEF IInv
<1>10. CASE QueueStop
  <2>1. q \in Queue
    BY <1>i DEF TypeOK
  <2>2. /\ q' = Stopped(q) /\ q' \in Queue /\ WellFormed(q') /\ q'.stop
        /\ q'.usable = q.usable /\ q'.count = q.count
    BY <1>10, <1>i, <2>1, StoppedKeepsRing DEF QueueStop
  <2>3. TypeOK'
    BY <1>0, <1>i, <1>10, <2>1, <2>2, NullAssumption
       DEF QueueStop, Goto, Signalled, TypeOK, Backends
  <2>4. CallersInv'
    BY <1>0, <1>i, <1>10, <2>1, <2>2, NullAssumption
       DEF QueueStop, Goto, Signalled, CallersInv, TypeOK
  <2>5. LifeInv'
    BY <1>0, <1>i, <1>10, <2>1, <2>2, NullAssumption
       DEF QueueStop, Goto, Signalled, LifeInv, TypeOK
  <2>6. WorkerInv'
    BY <1>0, <1>i, <1>10, <2>1, <2>2, NullAssumption
       DEF QueueStop, Goto, Signalled, WorkerInv, TypeOK
  <2>7. ResourceInv'
    BY <1>0, <1>i, <1>10, <2>1, <2>2, NullAssumption
       DEF QueueStop, Goto, Signalled, ResourceInv, LifeInv, TypeOK
  <2> QED
    BY <2>1, <2>2, <2>3, <2>4, <2>5, <2>6, <2>7, <1>i DEF IInv
<1>11. CASE JoinWorker
  <2>1. q' = q /\ q' \in Queue /\ WellFormed(q')
    BY <1>i, <1>11 DEF TypeOK, JoinWorker
  <2>2. TypeOK'
    BY <1>0, <1>i, <1>11, <2>1, NullAssumption DEF JoinWorker, Goto, TypeOK, Backends
  <2>3. CallersInv'
    BY <1>0, <1>i, <1>11, <2>1, NullAssumption DEF JoinWorker, Goto, CallersInv, TypeOK
  <2>4. LifeInv'
    BY <1>0, <1>i, <1>11, <2>1, NullAssumption
       DEF JoinWorker, Goto, LifeInv, WorkerInv, TypeOK
  <2>5. WorkerInv'
    BY <1>0, <1>i, <1>11, <2>1, NullAssumption
       DEF JoinWorker, Goto, LifeInv, WorkerInv, TypeOK
  <2>6. ResourceInv'
    BY <1>0, <1>i, <1>11, <2>1, NullAssumption
       DEF JoinWorker, Goto, ResourceInv, LifeInv, TypeOK
  <2> QED
    BY <2>1, <2>2, <2>3, <2>4, <2>5, <2>6, <1>i DEF IInv
<1>12. CASE Release
  <2>1. q' = Zeroed /\ q' \in Queue /\ WellFormed(q')
    BY <1>12, ZeroedType, ZeroedWellFormed DEF Release
  <2>2. ~q'.usable /\ ~q'.stop /\ q'.count = 0
    BY <2>1 DEF Zeroed
  <2>3. TypeOK'
    BY <1>0, <1>i, <1>12, <2>1, <2>2, NullAssumption DEF Release, Goto, TypeOK, Backends
  <2>4. CallersInv'
    BY <1>0, <1>i, <1>12, <2>1, <2>2, NullAssumption DEF Release, Goto, CallersInv, TypeOK
  <2>5. LifeInv'
    BY <1>0, <1>i, <1>12, <2>1, <2>2, NullAssumption DEF Release, Goto, LifeInv, TypeOK
  <2>6. WorkerInv'
    BY <1>0, <1>i, <1>12, <2>1, <2>2, NullAssumption
       DEF Release, Goto, LifeInv, WorkerInv, TypeOK
  <2>7. ResourceInv'
    BY <1>0, <1>i, <1>12, <2>1, <2>2, NullAssumption
       DEF Release, Goto, ResourceInv, LifeInv, TypeOK
  <2> QED
    BY <2>1, <2>2, <2>3, <2>4, <2>5, <2>6, <2>7, <1>i DEF IInv
<1>13. CASE UNCHANGED vars
  BY <1>i, <1>13
     DEF vars, IInv, TypeOK, CallersInv, LifeInv, WorkerInv, ResourceInv, Queue,
          WellFormed
<1> QED
  BY <1>1, <1>2, <1>3, <1>4, <1>5, <1>6, <1>7, <1>8, <1>9, <1>10, <1>11, <1>12, <1>13
     DEF Next

-----------------------------------------------------------------------------
(* What follows.                                                           *)

LEMMA Invariant == Spec => []IInv
BY InvInit, InvNext, PTL DEF Spec

\* Every variable of the service keeps its type, whatever the capacity.
THEOREM TypeCorrect == Spec => []TypeOK
<1>1. IInv => TypeOK
  BY DEF IInv
<1> QED
  BY <1>1, Invariant, PTL

\* The ring keeps its shape in every interleaving of pushes, pops and teardown.
THEOREM RingSafe == Spec => []RingWellFormed
<1>1. IInv => RingWellFormed
  BY DEF IInv, RingWellFormed
<1> QED
  BY <1>1, Invariant, PTL

\* The worker never leaves a text unspoken behind, and never leaves early.
THEOREM WorkerDrains == Spec => []WorkerExitsDrained
<1>1. IInv => WorkerExitsDrained
  BY DEF IInv, WorkerInv, WorkerExitsDrained
<1> QED
  BY <1>1, Invariant, PTL

\* The worker never sleeps through a text or through the stop flag.
THEOREM WakeupsArrive == Spec => []NoLostWakeup
<1>1. IInv => NoLostWakeup
  BY DEF IInv, WorkerInv, NoLostWakeup
<1> QED
  BY <1>1, Invariant, PTL

\* A worker that may still run has its queue.
LEMMA WorkerHasQueue == IInv /\ worker # "none" => q.usable
BY DEF IInv, LifeInv, CallersInv, TypeOK, Threads

\* A worker that may still run has its queue and its backend.
THEOREM TeardownSafe == Spec => []TeardownAfterJoin
<1>1. IInv => TeardownAfterJoin
  BY WorkerHasQueue DEF IInv, ResourceInv, TeardownAfterJoin
<1> QED
  BY <1>1, Invariant, PTL

\* Nothing is left when the service is down.
THEOREM DownIsEmpty == Spec => []NothingHeldWhenDown
<1>1. IInv => NothingHeldWhenDown
  BY DEF IInv, LifeInv, ResourceInv, NothingHeldWhenDown
<1> QED
  BY <1>1, Invariant, PTL

-----------------------------------------------------------------------------
(* Who owns the copies of the texts.                                       *)

\* OneOwner, text by text: what waits, what each thread holds and what the
\* worker speaks are allocated, and are different copies.
OwnerInv ==
  /\ Waiting(q) \subseteq heap
  /\ Distinct(q)
  /\ \A t \in Threads : copy[t] # NULL =>
       copy[t] \in heap /\ copy[t] \notin Waiting(q) /\ copy[t] # taken
  /\ taken # NULL => taken \in heap /\ taken \notin Waiting(q)
  /\ \A s, t \in Threads : copy[s] = copy[t] /\ copy[s] # NULL => s = t

\* queue_init and queue_destroy make empty rings.
LEMMA ZeroedEmpty ==
  /\ Waiting(Zeroed) = {} /\ Distinct(Zeroed) /\ Zeroed.count = 0
  /\ Waiting(QueueInit) = {} /\ Distinct(QueueInit) /\ QueueInit.count = 0
<1>1. Zeroed \in Queue /\ QueueInit \in Queue
  BY ZeroedType
<1>2. Zeroed.count = 0 /\ QueueInit.count = 0
  BY DEF Zeroed, QueueInit
<1> QED
  BY <1>1, <1>2, WaitingEmpty

LEMMA OwnerInit == Init => OwnerInv
BY ZeroedEmpty DEF Init, OwnerInv

\* Every step moves copies from one owner to the next, or frees one that has
\* no other owner.
LEMMA OwnerNext == IInv /\ OwnerInv /\ [Next]_vars => OwnerInv'
<1> SUFFICES ASSUME IInv, OwnerInv, [Next]_vars PROVE OwnerInv'
  OBVIOUS
<1>0. Main \in Threads /\ \A t \in Callers : t \in Threads
  BY DEF Threads
<1>i. TypeOK /\ WellFormed(q) /\ CallersInv /\ LifeInv /\ WorkerInv
  BY DEF IInv
<1>q. q \in Queue /\ Waiting(q) \subseteq Texts /\ NULL \notin Waiting(q)
  BY <1>i, WaitingType, NullAssumption DEF TypeOK
<1>u. ASSUME UNCHANGED <<q, heap, copy, taken>> PROVE OwnerInv'
  <2>1. Waiting(q') = Waiting(q) /\ Distinct(q') = Distinct(q)
    BY <1>u
  <2> QED
    BY <1>u, <2>1 DEF OwnerInv
<1>1. ASSUME NEW piperOk \in BOOLEAN, NEW spdOk \in BOOLEAN,
             SpeechInitFails(piperOk, spdOk) \/ SpeechInit(piperOk, spdOk)
      PROVE  OwnerInv'
  <2>1. Waiting(q') = {} /\ Distinct(q')
    BY <1>1, ZeroedEmpty DEF SpeechInitFails, SpeechInit
  <2>2. UNCHANGED <<heap, copy, taken>>
    BY <1>1 DEF SpeechInitFails, SpeechInit
  <2> QED
    BY <2>1, <2>2 DEF OwnerInv
<1>2. ASSUME NEW t \in Callers, SpeechSay(t) PROVE OwnerInv'
  <2>1. PICK x \in Texts \ heap :
          heap' = heap \cup {x} /\ copy' = [copy EXCEPT ![t] = x]
    BY <1>2 DEF SpeechSay
  <2>2. q' = q /\ taken' = taken /\ t \in Threads /\ copy \in [Threads -> Texts \cup {NULL}]
    BY <1>0, <1>2, <1>i DEF SpeechSay, TypeOK
  <2>3. x # NULL /\ x \notin Waiting(q) /\ x # taken /\ \A s \in Threads : copy[s] # x
    BY <2>1, <2>2, NullAssumption DEF OwnerInv
  <2> QED
    BY <2>1, <2>2, <2>3 DEF OwnerInv
<1>3. ASSUME NEW t \in Callers, QueuePush(t) PROVE OwnerInv'
  <2> DEFINE x == copy[t]
  <2>1. /\ t \in Threads /\ x \in Texts /\ x # NULL
        /\ copy \in [Threads -> Texts \cup {NULL}]
        /\ copy' = [copy EXCEPT ![t] = NULL] /\ taken' = taken
    BY <1>0, <1>3, <1>i, NullAssumption DEF QueuePush, Goto, TypeOK, CallersInv
  <2>2. /\ x \in heap /\ x \notin Waiting(q) /\ x # taken
        /\ \A s \in Threads : s # t => copy[s] # x
    BY <2>1 DEF OwnerInv
  <2>3. \A s \in Threads : copy'[s] = IF s = t THEN NULL ELSE copy[s]
    BY <2>1
  <2>4. CASE q.stop
    <3>1. q' = q /\ heap' = heap \ {x}
      BY <1>3, <2>4 DEF QueuePush
    <3> QED
      BY <2>1, <2>2, <2>3, <3>1 DEF OwnerInv
  <2>5. CASE ~q.stop
    <3>1. q' = Push(q, x) /\ heap' = heap \ Evicted(q)
      BY <1>3, <2>5 DEF QueuePush
    <3>2. /\ Evicted(q) \subseteq Waiting(q)
          /\ Waiting(q') = (Waiting(q) \ Evicted(q)) \cup {x}
          /\ Distinct(q')
      BY <1>i, <1>q, <2>1, <2>2, <3>1, WaitingPush DEF OwnerInv
    <3>3. Waiting(q') \subseteq heap'
      BY <2>2, <3>1, <3>2 DEF OwnerInv
    <3>4. \A s \in Threads : copy'[s] # NULL =>
            copy'[s] \in heap' /\ copy'[s] \notin Waiting(q') /\ copy'[s] # taken'
      BY <2>1, <2>2, <2>3, <3>1, <3>2 DEF OwnerInv
    <3>5. taken' # NULL => taken' \in heap' /\ taken' \notin Waiting(q')
      BY <2>1, <2>2, <3>1, <3>2 DEF OwnerInv
    <3>6. \A r, s \in Threads : copy'[r] = copy'[s] /\ copy'[r] # NULL => r = s
      BY <2>3 DEF OwnerInv
    <3> QED
      BY <3>2, <3>3, <3>4, <3>5, <3>6 DEF OwnerInv
  <2> QED
    BY <2>4, <2>5
<1>4. CASE QueuePop
  <2>1. taken = NULL /\ UNCHANGED <<heap, copy>>
    BY <1>4, <1>i DEF QueuePop, WorkerInv
  <2>2. \/ UNCHANGED <<q, taken>>
        \/ taken' = PopItem(q) /\ q' = PopRest(q)
    BY <1>4 DEF QueuePop
  <2>3. CASE taken' = PopItem(q) /\ q' = PopRest(q)
    <3>1. /\ Waiting(q') = Waiting(q) \ {taken'}
          /\ taken' # NULL => taken' \in Waiting(q)
          /\ Distinct(q')
      BY <1>i, <1>q, <2>3, WaitingPop DEF OwnerInv
    <3> QED
      BY <2>1, <3>1 DEF OwnerInv
  <2> QED
    BY <1>u, <2>1, <2>2, <2>3
<1>5. CASE BackendSay
  <2>1. heap' = heap \ {taken} /\ taken' = NULL /\ UNCHANGED <<q, copy>>
    BY <1>5 DEF BackendSay
  <2> QED
    BY <1>q, <1>5, <1>i, <2>1 DEF OwnerInv, BackendSay, WorkerInv
<1>6. CASE QueueStop
  <2>1. q' = Stopped(q) /\ UNCHANGED <<heap, copy, taken>>
    BY <1>6 DEF QueueStop
  <2>2. Waiting(q') = Waiting(q) /\ Distinct(q') = Distinct(q)
    BY <1>i, <1>q, <2>1, WaitingStopped
  <2> QED
    BY <2>1, <2>2 DEF OwnerInv
<1>7. CASE Release
  <2>1. Waiting(q') = {} /\ Distinct(q')
    BY <1>7, ZeroedEmpty DEF Release
  <2>2. heap' = heap \ Waiting(q) /\ UNCHANGED <<copy, taken>>
    BY <1>7 DEF Release
  <2> QED
    BY <2>1, <2>2 DEF OwnerInv
<1>8. CASE SpeechReady \/ SpuriousWakeup \/ SpeechClose \/ JoinWorker \/ UNCHANGED vars
  BY <1>8, <1>u DEF SpeechReady, SpuriousWakeup, SpeechClose, JoinWorker, vars
<1> QED
  BY <1>1, <1>2, <1>3, <1>4, <1>5, <1>6, <1>7, <1>8 DEF Next

LEMMA OwnerImplies == IInv /\ OwnerInv => OneOwner
<1> SUFFICES ASSUME IInv, OwnerInv PROVE OneOwner
  OBVIOUS
<1>1. Waiting(q) \subseteq Texts
  BY WaitingType DEF IInv, TypeOK
<1>2. Waiting(q) \cup Held \subseteq heap
  BY DEF OwnerInv, Held
<1>3. Waiting(q) \cap Held = {}
  BY DEF OwnerInv, Held
<1>4. taken \notin {copy[t] : t \in Threads} \/ taken = NULL
  BY DEF OwnerInv
<1> QED
  BY <1>2, <1>3, <1>4 DEF OwnerInv, OneOwner, Distinct

\* No copy is ever freed twice or used after it was freed: in every
\* interleaving each one has one owner, for every set of calling threads.
THEOREM CopiesHaveOneOwner == Spec => []OneOwner
<1>1. Init => IInv /\ OwnerInv
  BY InvInit, OwnerInit
<1>2. IInv /\ OwnerInv /\ [Next]_vars => (IInv /\ OwnerInv)'
  BY InvNext, OwnerNext
<1> QED
  BY <1>1, <1>2, OwnerImplies, PTL DEF Spec

-----------------------------------------------------------------------------
(* What becomes of the copies when the service goes down.                  *)

\* With one calling thread a dead queue is empty, and every allocated copy
\* still has the owner that will free it.
KeepInv ==
  /\ ~q.usable => q.count = 0
  /\ \A x \in heap : \/ x \in Waiting(q)
                     \/ x = taken
                     \/ \E t \in Threads : x = copy[t]

\* The steps of one calling thread, the closing one, lose no copy: tts_ready is
\* still up when its copy reaches the queue.
LEMMA KeepNext ==
  ASSUME Callers \subseteq {Main}
  PROVE  IInv /\ OwnerInv /\ KeepInv /\ [Next]_vars => KeepInv'
<1> SUFFICES ASSUME IInv, OwnerInv, KeepInv, [Next]_vars PROVE KeepInv'
  OBVIOUS
<1>0. Main \in Threads /\ \A t \in Threads : t = Main
  BY DEF Threads
<1>i. TypeOK /\ WellFormed(q) /\ CallersInv /\ LifeInv /\ WorkerInv
  BY DEF IInv
<1>q. q \in Queue /\ Waiting(q) \subseteq Texts /\ NULL \notin Waiting(q)
  BY <1>i, WaitingType, NullAssumption DEF TypeOK
<1>h. heap \subseteq Texts /\ NULL \notin heap
  BY <1>i, NullAssumption DEF TypeOK
<1>e. q.count = 0 => Waiting(q) = {}
  BY <1>q, WaitingEmpty
<1>u. ASSUME UNCHANGED <<q, heap, copy, taken>> PROVE KeepInv'
  <2>1. Waiting(q') = Waiting(q)
    BY <1>u
  <2> QED
    BY <1>u, <2>1 DEF KeepInv
<1>1. ASSUME NEW piperOk \in BOOLEAN, NEW spdOk \in BOOLEAN,
             SpeechInitFails(piperOk, spdOk) \/ SpeechInit(piperOk, spdOk)
      PROVE  KeepInv'
  <2>1. q'.count = 0 /\ Waiting(q') = {}
    BY <1>1, ZeroedEmpty DEF SpeechInitFails, SpeechInit
  <2>2. UNCHANGED <<heap, copy, taken>>
    BY <1>1 DEF SpeechInitFails, SpeechInit
  <2>3. Waiting(q) = {}
    BY <1>1, <1>i, <1>e DEF SpeechInitFails, SpeechInit, Goto, LifeInv, KeepInv
  <2> QED
    BY <2>1, <2>2, <2>3 DEF KeepInv
<1>2. ASSUME NEW t \in Callers, SpeechSay(t) PROVE KeepInv'
  <2>1. PICK x \in Texts \ heap :
          heap' = heap \cup {x} /\ copy' = [copy EXCEPT ![t] = x]
    BY <1>2 DEF SpeechSay
  <2>2. /\ q' = q /\ taken' = taken /\ t \in Threads
        /\ copy \in [Threads -> Texts \cup {NULL}] /\ pc[t] = "idle"
    BY <1>2, <1>i DEF SpeechSay, Goto, TypeOK, Threads
  <2>3. copy[t] = NULL /\ copy'[t] = x
    BY <2>1, <2>2, <1>i DEF CallersInv
  <2>4. Waiting(q') = Waiting(q)
    BY <2>2
  <2> QED
    BY <1>0, <1>h, <2>1, <2>2, <2>3, <2>4 DEF KeepInv
<1>3. ASSUME NEW t \in Callers, QueuePush(t) PROVE KeepInv'
  <2> DEFINE x == copy[t]
  <2>1. /\ t \in Threads /\ t = Main /\ x \in Texts /\ x # NULL /\ pc[Main] = "push"
        /\ taken' = taken
    BY <1>0, <1>3, <1>i, NullAssumption DEF QueuePush, Goto, TypeOK, CallersInv, Threads
  <2>2. q.usable /\ ~q.stop
    BY <2>1, <1>i DEF LifeInv
  <2>3. q' = Push(q, x) /\ heap' = heap \ Evicted(q)
    BY <1>3, <2>2 DEF QueuePush
  <2>4. /\ Waiting(q') = (Waiting(q) \ Evicted(q)) \cup {x}
        /\ q'.usable
    BY <1>i, <1>q, <2>1, <2>2, <2>3, WaitingPush, PushIsAppend DEF OwnerInv
  <2> QED
    BY <1>0, <2>1, <2>3, <2>4 DEF KeepInv
<1>4. CASE QueuePop
  <2>1. taken = NULL /\ UNCHANGED <<heap, copy>> /\ q.usable
    BY <1>4, <1>i, WorkerHasQueue DEF QueuePop, WorkerInv
  <2>2. \/ UNCHANGED <<q, taken>>
        \/ taken' = PopItem(q) /\ q' = PopRest(q)
    BY <1>4 DEF QueuePop
  <2>3. CASE taken' = PopItem(q) /\ q' = PopRest(q)
    <3>1. Waiting(q') = Waiting(q) \ {taken'} /\ q'.usable
      BY <1>i, <1>q, <2>1, <2>3, WaitingPop, PopKeepsRing DEF OwnerInv
    <3> QED
      BY <1>h, <2>1, <3>1 DEF KeepInv
  <2> QED
    BY <1>u, <2>1, <2>2, <2>3
<1>5. CASE BackendSay
  <2>1. heap' = heap \ {taken} /\ taken' = NULL /\ UNCHANGED <<q, copy>>
    BY <1>5 DEF BackendSay
  <2>2. Waiting(q') = Waiting(q)
    BY <2>1
  <2> QED
    BY <2>1, <2>2 DEF KeepInv
<1>6. CASE QueueStop
  <2>1. q' = Stopped(q) /\ UNCHANGED <<heap, copy, taken>>
    BY <1>6 DEF QueueStop
  <2>2. Waiting(q') = Waiting(q) /\ q'.count = q.count /\ q'.usable = q.usable
    BY <1>i, <1>q, <2>1, WaitingStopped, StoppedKeepsRing
  <2> QED
    BY <2>1, <2>2 DEF KeepInv
<1>7. CASE Release
  <2>1. q'.count = 0 /\ Waiting(q') = {}
    BY <1>7, ZeroedEmpty DEF Release, Zeroed
  <2>2. heap' = heap \ Waiting(q) /\ UNCHANGED <<copy, taken>>
    BY <1>7 DEF Release
  <2> QED
    BY <2>1, <2>2 DEF KeepInv
<1>8. CASE SpeechReady \/ SpuriousWakeup \/ SpeechClose \/ JoinWorker \/ UNCHANGED vars
  BY <1>8, <1>u DEF SpeechReady, SpuriousWakeup, SpeechClose, JoinWorker, vars
<1> QED
  BY <1>1, <1>2, <1>3, <1>4, <1>5, <1>6, <1>7, <1>8 DEF Next

\* A host that speaks from the thread that starts and stops the plugin never
\* leaks a copy: each one waits, is being pushed or is being spoken.
THEOREM NothingLeaks ==
  ASSUME Callers \subseteq {Main}
  PROVE  Spec => []NoLeak
<1>1. Init => IInv /\ OwnerInv /\ KeepInv
  <2>1. Init => KeepInv
    BY DEF Init, KeepInv, Zeroed
  <2> QED
    BY <2>1, InvInit, OwnerInit
<1>2. IInv /\ OwnerInv /\ KeepInv /\ [Next]_vars => (IInv /\ OwnerInv /\ KeepInv)'
  BY InvNext, OwnerNext, KeepNext
<1>3. IInv /\ KeepInv => NoLeak
  BY NullAssumption DEF IInv, TypeOK, KeepInv, NoLeak, Held
<1> QED
  BY <1>1, <1>2, <1>3, PTL DEF Spec

\* The calling threads that tested tts_ready and have not reached the queue.
Late == {t \in Callers : pc[t] = "push"}

\* What a dead queue holds and what may still arrive there is one text of each
\* thread that does not close the service.
LateInv == ~q.usable => q.count + Cardinality(Late) <= Cardinality(Callers \ {Main})

\* A thread leaves queue_push with one text at most added to the queue.
LEMMA PushCount ==
  ASSUME NEW r \in Queue, NEW x \in Texts, WellFormed(r)
  PROVE  Push(r, x).count <= r.count + 1
<1>1. r.count \in 0 .. Cap /\ Cap \in Nat \ {0}
  BY CapAssumption DEF Queue
<1> QED
  BY <1>1 DEF Push, AddTail, DropHead

LEMMA LateNext ==
  ASSUME IsFiniteSet(Callers)
  PROVE  IInv /\ IInv' /\ LateInv /\ [Next]_vars => LateInv'
<1> SUFFICES ASSUME IInv, IInv', LateInv, [Next]_vars PROVE LateInv'
  OBVIOUS
<1> DEFINE Others == Callers \ {Main}
<1>0. Main \in Threads /\ \A t \in Callers : t \in Threads
  BY DEF Threads
<1>i. TypeOK /\ WellFormed(q) /\ CallersInv /\ LifeInv /\ WorkerInv
  BY DEF IInv
<1>n. q \in Queue /\ q.count \in Nat /\ pc \in [Threads -> {"idle", "push", "ready",
      "stop", "join", "release"}]
  BY <1>i, CapAssumption DEF TypeOK, Queue
<1>f. /\ IsFiniteSet(Others) /\ Cardinality(Others) \in Nat
      /\ IsFiniteSet(Late) /\ Cardinality(Late) \in Nat
      /\ IsFiniteSet(Late') /\ Cardinality(Late') \in Nat
  <2>1. Late \subseteq Callers /\ Late' \subseteq Callers /\ Others \subseteq Callers
    BY DEF Late
  <2> QED
    BY <2>1, FS_Subset, FS_CardinalityType
<1>z. ASSUME q'.count = 0, pc'[Main] # "push" PROVE LateInv'
  <2>1. Late' \subseteq Others
    BY <1>z DEF Late
  <2>2. Cardinality(Late') <= Cardinality(Others)
    BY <2>1, <1>f, FS_Subset
  <2> QED
    BY <2>2, <1>z, <1>f DEF LateInv
<1>u. ASSUME UNCHANGED q, Late' = Late PROVE LateInv'
  BY <1>u DEF LateInv
<1>m. ASSUME UNCHANGED q, NEW from, NEW to, Goto(Main, from, to), from # "push", to # "push"
      PROVE  LateInv'
  <2>1. \A t \in Callers : pc'[t] = "push" <=> pc[t] = "push"
    BY <1>0, <1>m, <1>n DEF Goto
  <2>2. Late' = Late
    BY <2>1 DEF Late
  <2> QED
    BY <1>m, <1>u, <2>2
<1>1. ASSUME NEW piperOk \in BOOLEAN, NEW spdOk \in BOOLEAN,
             SpeechInitFails(piperOk, spdOk)
      PROVE  LateInv'
  BY <1>1, <1>z DEF SpeechInitFails, Zeroed
<1>2. ASSUME NEW piperOk \in BOOLEAN, NEW spdOk \in BOOLEAN, SpeechInit(piperOk, spdOk)
      PROVE  LateInv'
  BY <1>2 DEF SpeechInit, QueueInit, LateInv
<1>3. CASE SpeechReady
  BY <1>3, <1>m DEF SpeechReady
<1>4. ASSUME NEW t \in Callers, SpeechSay(t) PROVE LateInv'
  BY <1>4, <1>i DEF SpeechSay, LifeInv, LateInv
<1>5. ASSUME NEW t \in Callers, QueuePush(t) PROVE LateInv'
  <2>1. /\ t \in Late /\ t \in Threads /\ copy[t] \in Texts
        /\ pc' = [pc EXCEPT ![t] = "idle"]
    BY <1>0, <1>5, <1>i, NullAssumption DEF QueuePush, Goto, Late, TypeOK, CallersInv
  <2>2. Late' = Late \ {t}
    BY <1>0, <1>n, <2>1 DEF Late
  <2>3. Cardinality(Late') = Cardinality(Late) - 1
    BY <2>1, <2>2, <1>f, FS_RemoveElement
  <2>4. q'.count \in Nat /\ q'.count <= q.count + 1 /\ q'.usable = q.usable
    <3>1. CASE q.stop
      BY <1>5, <1>n, <3>1 DEF QueuePush
    <3>2. CASE ~q.stop
      <4>1. q' = Push(q, copy[t])
        BY <1>5, <3>2 DEF QueuePush
      <4>2. Push(q, copy[t]) \in Queue /\ Push(q, copy[t]).usable = q.usable
        BY <1>i, <1>n, <2>1, PushIsAppend
      <4>3. Push(q, copy[t]).count <= q.count + 1
        BY <1>i, <1>n, <2>1, PushCount
      <4> QED
        BY <4>1, <4>2, <4>3, CapAssumption DEF Queue
    <3> QED
      BY <3>1, <3>2
  <2> QED
    BY <2>3, <2>4, <1>n, <1>f DEF LateInv
<1>6. CASE QueuePop
  <2>1. q.usable
    BY <1>6, WorkerHasQueue DEF QueuePop
  <2>2. q'.usable
    BY <1>6, <1>i, <1>n, <2>1, PopKeepsRing DEF QueuePop
  <2> QED
    BY <2>2 DEF LateInv
<1>7. CASE SpuriousWakeup \/ BackendSay \/ UNCHANGED vars
  BY <1>7, <1>u DEF SpuriousWakeup, BackendSay, vars, Late
<1>8. CASE SpeechClose
  BY <1>8, <1>m DEF SpeechClose
<1>9. CASE QueueStop
  <2>1. q' = Stopped(q) /\ q.usable
    BY <1>9, <1>i DEF QueueStop, Goto, LifeInv
  <2>2. q'.usable
    BY <2>1, <1>i, <1>n, StoppedKeepsRing
  <2> QED
    BY <2>2 DEF LateInv
<1>10. CASE JoinWorker
  BY <1>10, <1>m DEF JoinWorker
<1>11. CASE Release
  <2>1. q'.count = 0 /\ pc'[Main] # "push"
    BY <1>0, <1>n, <1>11 DEF Release, Goto, Zeroed
  <2> QED
    BY <2>1, <1>z
<1> QED
  BY <1>1, <1>2, <1>3, <1>4, <1>5, <1>6, <1>7, <1>8, <1>9, <1>10, <1>11 DEF Next

LEMMA LateInit ==
  ASSUME IsFiniteSet(Callers)
  PROVE  Init => LateInv
<1> SUFFICES ASSUME Init PROVE LateInv
  OBVIOUS
<1>1. Late = {} /\ q.count = 0
  BY DEF Init, Late, Zeroed, Threads
<1>2. Cardinality({}) = 0 /\ Cardinality(Callers \ {Main}) \in Nat
  BY FS_EmptySet, FS_Subset, FS_CardinalityType
<1> QED
  BY <1>1, <1>2 DEF LateInv

LEMMA LateImplies ==
  ASSUME IsFiniteSet(Callers)
  PROVE  IInv /\ LateInv => LateCopiesBounded
<1> SUFFICES ASSUME IInv, LateInv, ~q.usable
             PROVE  q.count <= Cardinality(Callers \ {Main})
  BY DEF LateCopiesBounded
<1>1. q.count \in Nat /\ Cardinality(Late) \in Nat /\ Cardinality(Callers \ {Main}) \in Nat
  BY FS_Subset, FS_CardinalityType, CapAssumption DEF IInv, TypeOK, Queue, Late
<1> QED
  BY <1>1 DEF LateInv

\* What a late caller leaves in the dead queue, where nobody frees it, is one
\* text of each thread other than the closing one, for any number of threads.
THEOREM LateCopiesFew ==
  ASSUME IsFiniteSet(Callers)
  PROVE  Spec => []LateCopiesBounded
<1>1. IInv /\ LateInv /\ [Next]_vars => (IInv /\ LateInv)'
  BY InvNext, LateNext
<1> QED
  BY <1>1, InvInit, LateInit, LateImplies, PTL DEF Spec

-----------------------------------------------------------------------------
(* The service implements the FIFO of SpeechFifo: every step of the code   *)
(* is one step of it, or changes nothing it speaks of.                     *)

\* A ring without entries holds the empty sequence.
LEMMA EmptyContents ==
  ASSUME NEW r \in Queue, WellFormed(r), r.count = 0
  PROVE  Contents(r) = <<>>
BY ContentsType

LEMMA RefinesInit == Init => Fifo!Init
BY DEF Init, Fifo!Init, Zeroed

LEMMA RefinesNext == IInv /\ IInv' /\ [Next]_vars => [Fifo!Next]_(Fifo!vars)
<1> SUFFICES ASSUME IInv, IInv', [Next]_vars PROVE [Fifo!Next]_(Fifo!vars)
  OBVIOUS
<1>i. TypeOK /\ WellFormed(q) /\ CallersInv /\ LifeInv /\ WorkerInv
  BY DEF IInv
<1>q. q \in Queue /\ q' \in Queue /\ WellFormed(q) /\ WellFormed(q')
  BY DEF IInv, TypeOK
<1>u. UNCHANGED <<q, taken>> => UNCHANGED Fifo!vars
  BY DEF Fifo!vars
<1>1. ASSUME NEW piperOk \in BOOLEAN, NEW spdOk \in BOOLEAN,
             SpeechInitFails(piperOk, spdOk)
      PROVE  UNCHANGED Fifo!vars
  <2>1. ~q.usable /\ q' = Zeroed /\ taken' = taken
    BY <1>1, <1>i DEF SpeechInitFails, LifeInv
  <2> QED
    BY <2>1 DEF Fifo!vars, Zeroed
<1>2. ASSUME NEW piperOk \in BOOLEAN, NEW spdOk \in BOOLEAN,
             SpeechInit(piperOk, spdOk)
      PROVE  Fifo!Open
  <2>1. ~q.usable /\ q' = QueueInit /\ taken' = taken
    BY <1>2, <1>i DEF SpeechInit, Goto, LifeInv
  <2>2. Contents(q') = <<>> /\ q'.usable /\ ~q'.stop
    BY <2>1, <1>q, EmptyContents DEF QueueInit
  <2> QED
    BY <2>1, <2>2 DEF Fifo!Open
<1>3. CASE SpeechReady
  BY <1>3, <1>u DEF SpeechReady
<1>4. ASSUME NEW t \in Callers, SpeechSay(t) PROVE UNCHANGED Fifo!vars
  BY <1>4, <1>u DEF SpeechSay
<1>5. ASSUME NEW t \in Callers, QueuePush(t)
      PROVE  [Fifo!Next]_(Fifo!vars)
  <2>1. copy[t] \in Texts /\ taken' = taken
    BY <1>5, <1>i DEF QueuePush, Goto, TypeOK, CallersInv, Threads
  <2>2. CASE q.stop
    BY <1>5, <1>u, <2>2 DEF QueuePush
  <2>3. CASE ~q.stop
    <3>1. q' = Push(q, copy[t])
      BY <1>5, <2>3 DEF QueuePush
    <3>2. /\ q'.stop = q.stop /\ q'.usable = q.usable
          /\ Contents(q') = Append(IF Len(Contents(q)) = Cap THEN Tail(Contents(q))
                                   ELSE Contents(q), copy[t])
      BY <3>1, <2>1, <1>q, PushIsAppend
    <3>3. CASE q.usable
      <4>1. Fifo!Accept(copy[t])
        BY <2>1, <2>3, <3>2, <3>3 DEF Fifo!Accept
      <4> QED
        BY <2>1, <4>1 DEF Fifo!Next
    <3>4. CASE ~q.usable
      BY <2>1, <3>2, <3>4 DEF Fifo!vars
    <3> QED
      BY <3>3, <3>4
  <2> QED
    BY <2>2, <2>3
<1>6. CASE QueuePop
  <2>1. worker = "pop" /\ taken = NULL /\ q.usable
    BY <1>6, <1>i, WorkerHasQueue DEF QueuePop, WorkerInv
  <2>2. CASE q.count = 0
    <3>1. PopRest(q) = q /\ PopItem(q) = NULL
      BY <2>2 DEF PopRest, PopItem
    <3> QED
      BY <1>6, <1>u, <2>1, <2>2, <3>1 DEF QueuePop
  <2>3. CASE q.count # 0
    <3>1. q' = DropHead(q) /\ taken' = PopItem(q) /\ q.count > 0
      BY <1>6, <1>q, <2>3, CapAssumption DEF QueuePop, PopRest, Queue
    <3>2. /\ Contents(q') = Tail(Contents(q))
          /\ PopItem(q) = Head(Contents(q))
          /\ q'.stop = q.stop /\ q'.usable = q.usable
      BY <1>q, <3>1, ContentsDropHead DEF DropHead
    <3>3. Contents(q) # <<>>
      BY <1>q, <2>3, ContentsType
    <3>4. Fifo!Take
      BY <2>1, <3>1, <3>2, <3>3 DEF Fifo!Take
    <3> QED
      BY <3>4 DEF Fifo!Next
  <2> QED
    BY <2>2, <2>3
<1>7. CASE SpuriousWakeup
  BY <1>7, <1>u DEF SpuriousWakeup
<1>8. CASE BackendSay
  <2>1. taken # NULL /\ taken' = NULL /\ q' = q
    BY <1>8, <1>i DEF BackendSay, WorkerInv
  <2>2. Fifo!Finish
    BY <2>1 DEF Fifo!Finish
  <2> QED
    BY <2>2 DEF Fifo!Next
<1>9. CASE SpeechClose
  BY <1>9, <1>u DEF SpeechClose
<1>10. CASE QueueStop
  <2>1. q.usable /\ ~q.stop /\ q' = Stopped(q) /\ taken' = taken
    BY <1>10, <1>i DEF QueueStop, Goto, LifeInv
  <2>2. q'.usable /\ q'.stop /\ Contents(q') = Contents(q)
    BY <1>q, <2>1, StoppedKeepsRing
  <2>3. Fifo!Drain
    BY <2>1, <2>2 DEF Fifo!Drain
  <2> QED
    BY <2>3 DEF Fifo!Next
<1>11. CASE JoinWorker
  BY <1>11, <1>u DEF JoinWorker
<1>12. CASE Release
  <2>1. /\ q.usable /\ q.stop /\ q.count = 0 /\ worker = "none"
        /\ q' = Zeroed /\ taken' = taken
    BY <1>12, <1>i DEF Release, Goto, LifeInv
  <2>2. taken = NULL /\ Contents(q) = <<>> /\ ~q'.usable
    BY <1>i, <1>q, <2>1, EmptyContents DEF WorkerInv, Zeroed
  <2>3. Fifo!Shutdown
    BY <2>1, <2>2 DEF Fifo!Shutdown
  <2> QED
    BY <2>3 DEF Fifo!Next
<1>13. CASE UNCHANGED vars
  BY <1>13, <1>u DEF vars
<1> QED
  BY <1>1, <1>2, <1>3, <1>4, <1>5, <1>6, <1>7, <1>8, <1>9, <1>10, <1>11, <1>12,
     <1>13 DEF Next, Fifo!Next

\* Texts are spoken in the order queue_push accepted them, only the oldest of
\* a full queue is ever displaced, one text is spoken at a time, and the
\* service goes down only when all of them have been: the safety part of
\* ImplementsFifo, for every capacity.
THEOREM ImplementsFifoSafely == Spec => Fifo!SafeSpec
<1>1. IInv /\ IInv' /\ [Next]_vars => [Fifo!Next]_(Fifo!vars)
  BY RefinesNext
<1> QED
  BY <1>1, RefinesInit, Invariant, PTL DEF Spec, Fifo!SafeSpec
=============================================================================
