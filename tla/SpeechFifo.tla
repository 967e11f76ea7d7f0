----------------------------- MODULE SpeechFifo -----------------------------
(***************************************************************************)
(* What the speech service promises the plugin, without ring, mutex,       *)
(* condition variable or thread: texts are spoken one at a time in the     *)
(* order they were accepted; when Cap texts wait, a new one displaces the  *)
(* oldest and nothing else is ever lost; the service closes only when      *)
(* everything it accepted has been spoken.                                 *)
(***************************************************************************)
EXTENDS Integers, Sequences

CONSTANTS Cap, Texts, NULL

VARIABLES
  phase,    \* "down", "up" or "draining"
  pending,  \* the texts accepted and not yet begun, oldest first
  speaking  \* the text being spoken, or NULL

vars == <<phase, pending, speaking>>

Init == phase = "down" /\ pending = <<>> /\ speaking = NULL

Open ==
  /\ phase = "down"
  /\ phase' = "up"
  /\ UNCHANGED <<pending, speaking>>

Accept(x) ==
  /\ phase = "up"
  /\ pending' = Append(IF Len(pending) = Cap THEN Tail(pending) ELSE pending, x)
  /\ UNCHANGED <<phase, speaking>>

Take ==
  /\ speaking = NULL
  /\ pending # <<>>
  /\ speaking' = Head(pending)
  /\ pending' = Tail(pending)
  /\ UNCHANGED phase

Finish ==
  /\ speaking # NULL
  /\ speaking' = NULL
  /\ UNCHANGED <<phase, pending>>

Drain ==
  /\ phase = "up"
  /\ phase' = "draining"
  /\ UNCHANGED <<pending, speaking>>

Shutdown ==
  /\ phase = "draining" /\ pending = <<>> /\ speaking = NULL
  /\ phase' = "down"
  /\ UNCHANGED <<pending, speaking>>

Next ==
  \/ Open \/ Take \/ Finish \/ Drain \/ Shutdown
  \/ \E x \in Texts : Accept(x)

\* The service, once asked, keeps speaking, and closes when it is drained.
Fairness == WF_vars(Take) /\ WF_vars(Finish) /\ WF_vars(Shutdown)

SafeSpec == Init /\ [][Next]_vars
Spec     == SafeSpec /\ Fairness
=============================================================================
