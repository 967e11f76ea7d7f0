------------------------------- MODULE Plugin -------------------------------
(***************************************************************************)
(* xpl.c over the speech service: XPluginStart and XPluginStop step by     *)
(* step, with the host's calls of the function they hook.  A call of a     *)
(* hooked function jumps to the stub in the plugin, speaks there, runs the *)
(* trampoline and goes on in the host.                                     *)
(*                                                                         *)
(* hook_proc writes the jump into the function, and behind it the          *)
(* trampoline's jump back, while other threads of the host may be calling  *)
(* the function.  Its stores are seen in the order of the code; a thread   *)
(* that runs bytes half written may go anywhere.                           *)
(*                                                                         *)
(* The host unloads the plugin after XPluginStop and may load and start it *)
(* again (XPLMReloadPlugins); its variables are then as at the start of    *)
(* the process, the host's code is not.  One function of ptrs is found;    *)
(* what two do to each other is in module Hook.                            *)
(***************************************************************************)
EXTENDS Integers

CONSTANTS
  Cap, Texts, NULL, Main, Callers, UseSpeechd, UsePulse,  \* of Speech
  Bases,    \* where the loader may map the plugin
  Unloads   \* the host unloads plugins before it ends

ASSUME BasesAssumption == Bases \subseteq Nat \ {0} /\ Unloads \in BOOLEAN

VARIABLES q, heap, ready, started, backend, cmds, conn, unavailable, pulse,
          pc, copy, worker, taken       \* of Speech

S == INSTANCE Speech

ASSUME SpeechAssumption == S!CapAssumption /\ S!NullAssumption /\ S!BuildAssumption

speech == <<q, heap, ready, started, backend, cmds, conn, unavailable, pulse,
            pc, copy, worker, taken>>

VARIABLES
  phase,  \* where the host's main thread is with the plugin
  lib,    \* where the plugin is mapped, 0 when it is not
  jump,   \* where the function's first bytes jump to: 0 when they are its own,
          \* Torn when they are half written
  tramp,  \* trampoline1 is filled in
  at,     \* where each thread is in a call of the function
  gone,   \* the host has unloaded the plugin at least once
  caught  \* history: the threads whose call met the writing of the patch

plugin == <<phase, lib, jump, tramp, at, gone, caught>>
vars   == <<speech, plugin>>

Init ==
  /\ S!Init
  /\ phase = "loaded" /\ lib \in Bases /\ jump = 0 /\ tramp = FALSE
  /\ at = [t \in S!Threads |-> "out"]
  /\ gone = FALSE /\ caught = {}

Torn == -1

Phase(from, to) == phase = from /\ phase' = to

-----------------------------------------------------------------------------
(* XPluginStart returns 1 wherever it gives up.                            *)

\* locate_tables and find_functions: nothing found, or the function.
StartFinds ==
  /\ Phase("loaded", "speech") \/ Phase("loaded", "running")
  /\ UNCHANGED <<speech, lib, jump, tramp, at, gone, caught>>

StartSpeech ==
  /\ \E piperOk, spdOk \in BOOLEAN :
       \/ S!SpeechInit(piperOk, spdOk) /\ phase = "speech" /\ UNCHANGED phase
       \/ S!SpeechInitFails(piperOk, spdOk) /\ Phase("speech", "running")
  /\ UNCHANGED <<lib, jump, tramp, at, gone, caught>>

SpeechReady ==
  /\ S!SpeechReady
  /\ Phase("speech", "hook")
  /\ UNCHANGED <<lib, jump, tramp, at, gone, caught>>

\* hook leaves a function alone that begins with an unknown instruction, as the
\* jump of an earlier start is, or whose pages or trampoline it cannot unprotect.
NotHooked ==
  /\ Phase("hook", "running")
  /\ UNCHANGED <<speech, lib, jump, tramp, at, gone, caught>>

\* The instructions are in the trampoline, where no thread is yet, and the first
\* bytes of the jump are in the function.
JumpBegins ==
  /\ Phase("hook", "patch")
  /\ jump = 0 /\ jump' = Torn
  /\ caught' = {t \in Callers : at[t] # "out"}
  /\ UNCHANGED <<speech, lib, tramp, at, gone>>

\* Mutant: it returns before the trampoline has its jump back, as the 32-bit
\* code does when the function's pages cannot be protected again.
JumpEndsEarly ==
  /\ Phase("patch", "running")
  /\ jump' = lib
  /\ UNCHANGED <<speech, lib, tramp, at, gone, caught>>

JumpEnds ==
  /\ Phase("patch", "back")
  /\ jump' = lib
  /\ UNCHANGED <<speech, lib, tramp, at, gone, caught>>

JumpBack ==
  /\ Phase("back", "running")
  /\ tramp' = TRUE
  /\ UNCHANGED <<speech, lib, jump, at, gone, caught>>

Writing == phase \in {"patch", "back"}

-----------------------------------------------------------------------------
(* A call of the function by a thread of the host.                         *)

Goes(t, from, to) == at[t] = from /\ at' = [at EXCEPT ![t] = to]

Returns(t, from) == Goes(t, from, "out") /\ caught' = caught \ {t}

\* The main thread calls it when it is not in the plugin's start or stop.  A
\* jump to where the plugin is no more is lost.
Call(t) ==
  /\ t = Main => phase \in {"running", "stopped"}
  /\ Goes(t, "out", CASE jump \in {0, Torn} -> "head"
                      [] jump = lib        -> "stub"
                      [] OTHER             -> "lost")
  /\ caught' = IF Writing THEN caught \cup {t} ELSE caught
  /\ UNCHANGED <<speech, phase, lib, jump, tramp, gone>>

\* External: the function's first bytes, and behind them the rest of it.  Under
\* a thread between them the jump may be written, in part or all of it.
Leave(t) ==
  /\ \/ Returns(t, "head")
     \/ /\ jump # 0
        /\ \E place \in {"lost"} \cup (IF jump = lib THEN {"stub"} ELSE {}) :
             Goes(t, "head", place)
        /\ UNCHANGED caught
  /\ UNCHANGED <<speech, phase, lib, jump, tramp, gone>>

\* kuk: speech_say, which returns at once when the service is not ready, there
\* is no text, or no memory for its copy.
Kuk(t) ==
  /\ \/ S!SpeechSay(t) /\ Goes(t, "stub", "say")
     \/ Goes(t, "stub", "tail") /\ UNCHANGED speech
  /\ UNCHANGED <<phase, lib, jump, tramp, gone, caught>>

Push(t) ==
  /\ S!QueuePush(t)
  /\ Goes(t, "say", "tail")
  /\ UNCHANGED <<phase, lib, jump, tramp, gone, caught>>

\* The trampoline, and behind it the rest of the function.  Without its jump
\* back a thread runs off the end of the copied instructions.
Trampoline(t) ==
  /\ \/ tramp /\ Returns(t, "tail")
     \/ ~tramp /\ Goes(t, "tail", "lost") /\ UNCHANGED caught
  /\ UNCHANGED <<speech, phase, lib, jump, tramp, gone>>

-----------------------------------------------------------------------------
(* XPluginStop: speech_close, and nothing for the hooks.                   *)

\* The main thread is inside no call then.
StopBegins ==
  /\ at[Main] = "out"
  /\ \/ S!SpeechClose /\ Phase("running", "stopping")
     \/ ~ready /\ Phase("running", "stopped") /\ UNCHANGED speech
  /\ UNCHANGED <<lib, jump, tramp, at, gone, caught>>

StopGoesOn ==
  /\ S!QueueStop \/ S!JoinWorker
  /\ UNCHANGED plugin

StopEnds ==
  /\ S!Release
  /\ Phase("stopping", "stopped")
  /\ UNCHANGED <<lib, jump, tramp, at, gone, caught>>

Worker ==
  /\ S!QueuePop \/ S!SpuriousWakeup \/ S!BackendSay
  /\ UNCHANGED plugin

\* External: dlclose and dlopen.  A thread in the plugin's code is lost; heap
\* blocks outlive the variables that point to them.
Unload ==
  /\ Unloads
  /\ at[Main] = "out"
  /\ Phase("stopped", "unloaded")
  /\ lib' = 0 /\ tramp' = FALSE
  /\ at' = [t \in S!Threads |-> IF at[t] \in {"out", "head"} THEN at[t] ELSE "lost"]
  /\ q' = S!Zeroed /\ unavailable' = FALSE
  /\ pc' = [t \in S!Threads |-> "idle"] /\ copy' = [t \in S!Threads |-> NULL]
  /\ gone' = TRUE
  /\ UNCHANGED <<heap, ready, started, backend, cmds, conn, pulse, worker, taken, jump, caught>>

Load ==
  /\ Phase("unloaded", "loaded")
  /\ lib' \in Bases
  /\ UNCHANGED <<speech, jump, tramp, at, gone, caught>>

Next ==
  \/ StartFinds \/ StartSpeech \/ SpeechReady
  \/ NotHooked \/ JumpBegins \/ JumpEnds \/ JumpBack
  \/ StopBegins \/ StopGoesOn \/ StopEnds
  \/ Worker
  \/ \E t \in Callers : Call(t)
  \/ \E t \in Callers : Leave(t)
  \/ \E t \in Callers : Kuk(t) \/ Push(t)
  \/ \E t \in Callers : Trampoline(t)
  \/ Unload \/ Load

\* Only a thread inside a call owes its next step: neither the worker, nor
\* Piper, nor the main thread in a start or a stop.
Fairness == \A t \in Callers : WF_vars(Leave(t) \/ Kuk(t) \/ Push(t) \/ Trampoline(t))

Spec == Init /\ [][Next]_vars /\ Fairness

-----------------------------------------------------------------------------
(* Properties.                                                             *)

\* Until the host unloads the plugin a call ends in the host's function, whatever
\* the phase of start and stop, also after XPluginStop, which leaves the hooks in
\* place.  The only calls that may be lost are those of other threads than the
\* one that starts the plugin which meet hook_proc at its writing.
CallsSurvive ==
  ~gone => \A t \in Callers : at[t] = "lost" => t # Main /\ t \in caught

\* No call is lost, not after an unload either, as XPLMReloadPlugins would need it.
CallsSurviveReload == \A t \in Callers : at[t] # "lost"

\* A call never waits for speech: it comes back although the worker may stand
\* still with a full queue, and though the service is being closed.  Excepted are
\* the calls that CallsSurvive excepts.
CallsReturn ==
  \A t \in Callers :
    at[t] \notin {"out", "lost"}
      ~> at[t] = "out" \/ gone \/ (at[t] = "lost" /\ t # Main /\ t \in caught)

\* When the host may unload the plugin, nothing of it runs or is left: the
\* worker has ended, its backend is closed, and the queue is destroyed.
NothingRunsWhenStopped ==
  phase \in {"stopped", "unloaded", "loaded"} =>
    /\ worker = "none" /\ backend = "NONE"
    /\ ~cmds /\ ~conn /\ ~pulse /\ ~q.usable

\* With two threads that speak, every copy still has one owner; what a thread
\* that was inside its call leaves behind in the queue of a service that closed
\* is its one text, and the closing thread leaves none.
CopiesOwned == S!OneOwner /\ S!LateCopiesBounded

\* With two threads that speak, through stops, reloads and failed starts, the
\* texts still come out as the abstract FIFO lets them: in order, the oldest
\* displaced, none after a close.
FifoKept == S!Fifo!SafeSpec
=============================================================================
