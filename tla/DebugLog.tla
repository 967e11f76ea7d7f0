------------------------------ MODULE DebugLog ------------------------------
(***************************************************************************)
(* xcDebug of utils.c: a message is formatted into the one buffer msg,     *)
(* which is doubled until the message fits, kept for the next call, and    *)
(* given up when it cannot grow.  There is no lock: the calls come one     *)
(* after the other.                                                        *)
(*                                                                         *)
(* A message is its length; Bad is one that vsnprintf cannot format.       *)
(***************************************************************************)
EXTENDS Integers

CONSTANTS
  Lengths,   \* of messages
  Memory     \* the largest block the allocator has

ASSUME LengthsAssumption == Lengths \subseteq Nat
ASSUME MemoryAssumption  == Memory \in Nat /\ Memory >= 2

Bad == -1

VARIABLES
  step,    \* "idle", "enter", "format" or "grow"
  len,     \* of the message of this call
  size,    \* msgSize
  room,    \* the size of the block msg points to, 0 when it is NULL
  problem, \* an allocation failed, or the message is Bad
  printed  \* characters of the message given to XPLMDebugString, Bad for the
           \*   plugin's own line about a problem

logVars == <<step, len, size, room, problem, printed>>

LogTypeOK ==
  /\ step \in {"idle", "enter", "format", "grow"}
  /\ len \in Lengths \cup {Bad} /\ printed \in Lengths \cup {Bad}
  /\ size \in 0 .. Memory /\ room \in 0 .. Memory
  /\ problem \in BOOLEAN

LogInit ==
  /\ step = "idle" /\ len = Bad /\ printed = Bad
  /\ size = 0 /\ room = 0 /\ problem = FALSE

XcDebug ==
  /\ step = "idle" /\ step' = "enter"
  /\ len' \in Lengths \cup {Bad}
  /\ problem' = (len' = Bad)
  /\ UNCHANGED <<size, room, printed>>

Gives(chars) == step' = "idle" /\ printed' = chars

\* The buffer is made on first use; no memory for it ends the call.
FirstBuffer ==
  /\ step = "enter"
  /\ \/ /\ room # 0
        /\ step' = "format" /\ UNCHANGED <<size, room, problem, printed>>
     \/ /\ room = 0
        /\ size' = 2 /\ room' = 2
        /\ step' = "format" /\ UNCHANGED <<problem, printed>>
     \/ /\ room = 0
        /\ size' = 2 /\ problem' = TRUE
        /\ Gives(Bad) /\ UNCHANGED room
  /\ UNCHANGED len

\* What vsnprintf returns is the length, whatever it had room for.
RoomFor == len > -1 /\ len < size

\* vsnprintf writes at most size characters, the last of them NUL.
Format ==
  /\ step = "format"
  /\ IF RoomFor THEN Gives(IF len < size THEN len ELSE size - 1)
                ELSE step' = "grow" /\ UNCHANGED printed
  /\ UNCHANGED <<len, size, room, problem>>

\* Mutant: a failed realloc leaves msg and the doubled msgSize.
GrowOrTruncate ==
  /\ step = "grow"
  /\ size' = 2 * size
  /\ \/ /\ size' <= Memory /\ room' = size'
        /\ step' = "format" /\ UNCHANGED <<problem, printed>>
     \/ /\ problem' = TRUE /\ Gives(Bad) /\ UNCHANGED room
  /\ UNCHANGED len

\* realloc to twice the size; when it fails the buffer is forgotten (and, with
\* msg set to NULL, its block is lost).
Grow ==
  /\ step = "grow"
  /\ \/ /\ 2 * size <= Memory
        /\ size' = 2 * size /\ room' = 2 * size
        /\ step' = "format" /\ UNCHANGED <<problem, printed>>
     \/ /\ size' = 0 /\ room' = 0
        /\ problem' = TRUE /\ Gives(Bad)
  /\ UNCHANGED len

LogNext == XcDebug \/ FirstBuffer \/ Format \/ Grow

LogSpec == LogInit /\ [][LogNext]_logVars

-----------------------------------------------------------------------------
(* Properties.                                                             *)

\* vsnprintf is never told of more room than the block has, also in the calls
\* after one in which memory ran out.
SizeIsRoom == step = "format" => size = room /\ size > 0

\* A message is printed whole, or replaced by the line about a problem, and
\* that only if an allocation failed or it could not be formatted.
PrintedWhole ==
  [][step # "idle" /\ step' = "idle" => printed' = len \/ (printed' = Bad /\ problem')]_logVars
=============================================================================
