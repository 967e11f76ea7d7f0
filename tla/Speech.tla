------------------------------- MODULE Speech -------------------------------
(***************************************************************************)
(* The speech service of utils.c: speech_init, speech_say and speech_close *)
(* called by threads of the host, and the worker thread that pops texts    *)
(* and passes them to the backend.  A critical section on q->mtx is one    *)
(* step; everything the code does outside the mutex is a step of its own.  *)
(*                                                                         *)
(* Main is the host thread that starts and stops the plugin.  Callers are  *)
(* the threads on which the hooked functions run: {Main} for a host that   *)
(* speaks from one thread.                                                 *)
(***************************************************************************)
EXTENDS TtsQueue, FiniteSets

CONSTANTS
  Main, Callers,
  UseSpeechd, UsePulse   \* the build options USE_SPEECHD and USE_PULSE

ASSUME BuildAssumption == UseSpeechd \in BOOLEAN /\ UsePulse \in BOOLEAN

Threads  == Callers \cup {Main}
Backends == {"NONE", "PIPER", "SPEECHD"}

VARIABLES
  q,            \* queue_state
  heap,         \* the text copies malloc'ed and not freed
  ready,        \* tts_ready
  started,      \* worker_started
  backend,      \* backend
  cmds,         \* piper_cmd and sink_cmd hold their argv
  conn,         \* conn # NULL: the speech-dispatcher connection is open
  unavailable,  \* speechd_unavailable
  pulse,        \* pulse_stream # NULL
  pc,           \* where each host thread is, "idle" outside this module
  copy,         \* the copy a thread inside queue_push holds, or NULL
  worker,       \* where the worker thread is, "none" when there is none
  taken         \* the text the worker popped and has not freed, or NULL

resources == <<cmds, conn, unavailable, pulse>>
life      == <<ready, started, backend>>
vars      == <<q, heap, life, resources, pc, copy, worker, taken>>

TypeOK ==
  /\ q \in Queue
  /\ heap \subseteq Texts
  /\ ready \in BOOLEAN /\ started \in BOOLEAN /\ backend \in Backends
  /\ cmds \in BOOLEAN /\ conn \in BOOLEAN
  /\ unavailable \in BOOLEAN /\ pulse \in BOOLEAN
  /\ pc \in [Threads -> {"idle", "push", "ready", "stop", "join", "release"}]
  /\ copy \in [Threads -> Texts \cup {NULL}]
  /\ worker \in {"none", "pop", "wait", "say", "done"}
  /\ taken \in Texts \cup {NULL}

Init ==
  /\ q = Zeroed /\ heap = {}
  /\ ready = FALSE /\ started = FALSE /\ backend = "NONE"
  /\ cmds = FALSE /\ conn = FALSE /\ unavailable = FALSE /\ pulse = FALSE
  /\ pc = [t \in Threads |-> "idle"]
  /\ copy = [t \in Threads |-> NULL]
  /\ worker = "none" /\ taken = NULL

Goto(t, from, to) == pc[t] = from /\ pc' = [pc EXCEPT ![t] = to]

-----------------------------------------------------------------------------
(* speech_init.  piperOk: both commands could be built; spdOk: spd_open    *)
(* connects.                                                               *)

Chosen(piperOk, spdOk) ==
  IF piperOk THEN "PIPER"
  ELSE IF UseSpeechd /\ spdOk THEN "SPEECHD" ELSE "NONE"

\* No backend, or pthread_create fails: everything is undone.
SpeechInitFails(piperOk, spdOk) ==
  /\ pc[Main] = "idle" /\ ~ready
  /\ q' = Zeroed
  /\ backend' = "NONE"
  /\ unavailable' = FALSE
  /\ cmds' = FALSE
  /\ conn' = IF piperOk THEN conn ELSE FALSE
  /\ UNCHANGED <<heap, ready, started, pulse, pc, copy, worker, taken>>

\* A backend is chosen and the worker runs; tts_ready is not set yet.  No host
\* thread is still inside speech_say from before: the host unloads the plugin
\* between a stop and the next start.
SpeechInit(piperOk, spdOk) ==
  /\ ~ready
  /\ \A t \in Callers : pc[t] # "push"
  /\ Chosen(piperOk, spdOk) # "NONE"
  /\ Goto(Main, "idle", "ready")
  /\ q' = QueueInit
  /\ backend' = Chosen(piperOk, spdOk)
  /\ unavailable' = FALSE
  /\ cmds' = (backend' = "PIPER")
  /\ conn' = IF piperOk THEN conn ELSE TRUE
  /\ worker' = "pop"
  /\ UNCHANGED <<heap, ready, started, pulse, copy, taken>>

SpeechReady ==
  /\ Goto(Main, "ready", "idle")
  /\ started' = TRUE
  /\ ready' = TRUE
  /\ UNCHANGED <<q, heap, backend, resources, copy, worker, taken>>

-----------------------------------------------------------------------------
(* speech_say: tts_ready is read without a lock, the copy is made before   *)
(* the queue is locked.                                                    *)

\* Mutant: the signal is forgotten.
SignalledNot(w) == w

\* pthread_cond_signal and pthread_cond_broadcast: the worker is the only
\* thread that ever waits.
Signalled(w) == IF w = "wait" THEN "pop" ELSE w

\* Mutant: tts_ready is not tested.
SpeechSayAlways(t) ==
  /\ Goto(t, "idle", "push")
  /\ \E x \in Texts \ heap :
       heap' = heap \cup {x} /\ copy' = [copy EXCEPT ![t] = x]
  /\ UNCHANGED <<q, life, resources, worker, taken>>

SpeechSay(t) ==
  /\ ready
  /\ Goto(t, "idle", "push")
  /\ \E x \in Texts \ heap :
       heap' = heap \cup {x} /\ copy' = [copy EXCEPT ![t] = x]
  /\ UNCHANGED <<q, life, resources, worker, taken>>

\* Mutant: a full queue is waited for, not trimmed.
QueuePushWaits(t) ==
  /\ q.count < Cap \/ q.stop
  /\ Goto(t, "push", "idle")
  /\ copy' = [copy EXCEPT ![t] = NULL]
  /\ heap' = IF q.stop THEN heap \ {copy[t]} ELSE heap
  /\ q' = IF q.stop THEN q ELSE Push(q, copy[t])
  /\ worker' = Signalled(worker)
  /\ UNCHANGED <<life, resources, taken>>

QueuePush(t) ==
  /\ Goto(t, "push", "idle")
  /\ copy' = [copy EXCEPT ![t] = NULL]
  /\ \/ /\ q.stop
        /\ heap' = heap \ {copy[t]}
        /\ UNCHANGED <<q, worker>>
     \/ /\ ~q.stop
        /\ heap' = heap \ Evicted(q)
        /\ q' = Push(q, copy[t])
        /\ worker' = Signalled(worker)
  /\ UNCHANGED <<life, resources, taken>>

-----------------------------------------------------------------------------
(* tts_worker: queue_pop, backend_say, free.                               *)

\* One pass of queue_pop's loop.  A NULL item ends the thread.
QueuePop ==
  /\ worker = "pop"
  /\ IF q.count = 0 /\ ~q.stop
     THEN worker' = "wait" /\ UNCHANGED <<q, taken>>
     ELSE /\ taken' = PopItem(q)
          /\ q' = PopRest(q)
          /\ worker' = IF taken' = NULL THEN "done" ELSE "say"
  /\ UNCHANGED <<heap, life, resources, pc, copy>>

\* pthread_cond_wait may return without a signal.
SpuriousWakeup ==
  /\ worker = "wait"
  /\ worker' = "pop"
  /\ UNCHANGED <<q, heap, life, resources, pc, copy, taken>>

\* speak_piper may open the Pulse stream, or fall back to speech-dispatcher,
\* whose connection it opens on first use and gives up for good on failure.
Fallback ==
  \/ UNCHANGED resources
  \/ UsePulse /\ pulse' \in BOOLEAN /\ UNCHANGED <<cmds, conn, unavailable>>
  \/ /\ UseSpeechd /\ ~conn /\ ~unavailable
     /\ conn' \in BOOLEAN
     /\ unavailable' = ~conn'
     /\ UNCHANGED <<cmds, pulse>>

\* backend_say returns and the worker frees the text.
BackendSay ==
  /\ worker = "say"
  /\ IF backend = "PIPER" THEN Fallback ELSE UNCHANGED resources
  /\ heap' = heap \ {taken}
  /\ taken' = NULL
  /\ worker' = "pop"
  /\ UNCHANGED <<q, life, pc, copy>>

-----------------------------------------------------------------------------
(* speech_close.                                                           *)

SpeechClose ==
  /\ ready
  /\ Goto(Main, "idle", "stop")
  /\ ready' = FALSE
  /\ UNCHANGED <<q, heap, started, backend, resources, copy, worker, taken>>

QueueStop ==
  /\ Goto(Main, "stop", "join")
  /\ q' = Stopped(q)
  /\ worker' = Signalled(worker)
  /\ UNCHANGED <<heap, life, resources, copy, taken>>

\* Mutant: the worker is not waited for.
JoinForgotten ==
  /\ Goto(Main, "join", "release")
  /\ started' = FALSE
  /\ UNCHANGED <<q, heap, ready, backend, resources, copy, worker, taken>>

JoinWorker ==
  /\ Goto(Main, "join", "release")
  /\ started => worker = "done"
  /\ worker' = IF started THEN "none" ELSE worker
  /\ started' = FALSE
  /\ UNCHANGED <<q, heap, ready, backend, resources, copy, taken>>

\* Mutant: only the chosen backend is closed, not the one fallen back to.
ReleaseChosen ==
  /\ Goto(Main, "release", "idle")
  /\ q' = Zeroed
  /\ heap' = heap \ Waiting(q)
  /\ cmds' = FALSE
  /\ pulse' = FALSE
  /\ conn' = (conn /\ backend # "SPEECHD")
  /\ backend' = "NONE"
  /\ UNCHANGED <<unavailable, ready, started, copy, worker, taken>>

\* queue_destroy, then the commands, the Pulse stream and the connection.
Release ==
  /\ Goto(Main, "release", "idle")
  /\ q' = Zeroed
  /\ heap' = heap \ Waiting(q)
  /\ cmds' = (cmds /\ backend # "PIPER")
  /\ pulse' = FALSE
  /\ conn' = FALSE
  /\ unavailable' = (unavailable /\ ~conn)
  /\ backend' = "NONE"
  /\ UNCHANGED <<ready, started, copy, worker, taken>>

-----------------------------------------------------------------------------
Next ==
  \/ \E piperOk, spdOk \in BOOLEAN :
       SpeechInitFails(piperOk, spdOk) \/ SpeechInit(piperOk, spdOk)
  \/ SpeechReady
  \/ \E t \in Callers : SpeechSay(t)
  \/ \E t \in Callers : QueuePush(t)
  \/ QueuePop \/ SpuriousWakeup \/ BackendSay
  \/ SpeechClose \/ QueueStop \/ JoinWorker \/ Release

\* Threads that can run do run.  The host owes no call, and spurious wakeups
\* are never owed.  That backend_say returns is the subject of SpeakPiper.
Fairness ==
  /\ WF_vars(QueuePop) /\ WF_vars(BackendSay)
  /\ WF_vars(SpeechReady) /\ WF_vars(QueueStop)
  /\ WF_vars(JoinWorker) /\ WF_vars(Release)
  /\ \A t \in Callers : WF_vars(QueuePush(t))

Spec == Init /\ [][Next]_vars /\ Fairness

-----------------------------------------------------------------------------
(* Properties.                                                             *)

\* The ring never loses its shape: the pointers are exactly the count slots
\* from head, so queue_pop of a non-empty queue never yields NULL, which the
\* worker would take for the order to exit.
RingWellFormed == WellFormed(q)

\* The worker thread ends only when the service was stopped and every text
\* it had accepted has been spoken or displaced.
WorkerExitsDrained == worker = "done" => q.stop /\ q.count = 0

\* No lost wakeup: the worker never sleeps in pthread_cond_wait while a text
\* waits or the stop flag is up.
NoLostWakeup == worker = "wait" => q.count = 0 /\ ~q.stop

\* While the worker can still run, nothing it reads has been torn down: the
\* queue it locks, the argv of the backend, the connection it speaks to.
TeardownAfterJoin ==
  worker # "none" =>
    /\ q.usable
    /\ \/ backend = "PIPER" /\ cmds
       \/ backend = "SPEECHD" /\ conn

\* The pointers to text copies that the program still has.
Held == ({copy[t] : t \in Threads} \cup {taken}) \ {NULL}

\* Every copy has one owner: the queue, one thread in queue_push, or the
\* worker; and all of them point to memory that is still allocated.  (A second
\* owner would be a double free, a freed one a use after free.)
OneOwner ==
  /\ Waiting(q) \cup Held \subseteq heap
  /\ Waiting(q) \cap Held = {}
  /\ taken \notin {copy[t] : t \in Threads} \/ taken = NULL
  /\ \A i, j \in 1 .. q.count : Contents(q)[i] = Contents(q)[j] => i = j
  /\ \A s, t \in Threads : copy[s] = copy[t] /\ copy[s] # NULL => s = t

\* With speech on the host's main thread alone, no copy is ever leaked.
NoLeak == heap \subseteq Waiting(q) \cup Held

\* A thread that was between the test of tts_ready and the queue when the
\* service closed may leave its text in the dead queue, where nobody frees it;
\* it is one text of each such thread, and never one of the closing thread.
LateCopiesBounded ==
  ~q.usable => q.count <= Cardinality(Callers \ {Main})

\* After speech_close, or a speech_init that failed, nothing remains: no
\* thread, command, connection, stream or queue.
NothingHeldWhenDown ==
  pc[Main] = "idle" /\ ~ready =>
    /\ worker = "none" /\ ~started /\ backend = "NONE"
    /\ ~cmds /\ ~conn /\ ~pulse /\ ~q.usable

\* speech_close always returns, however many texts wait and wherever the
\* worker is.
CloseReturns == pc[Main] = "stop" ~> pc[Main] = "idle"

\* The service implements the abstract FIFO: order, displacement of the oldest
\* only, one text at a time, and a close that drains.
Fifo == INSTANCE SpeechFifo WITH
  phase    <- IF ~q.usable THEN "down" ELSE IF q.stop THEN "draining" ELSE "up",
  pending  <- IF q.usable THEN Contents(q) ELSE <<>>,
  speaking <- taken

ImplementsFifo == Fifo!Spec
=============================================================================
