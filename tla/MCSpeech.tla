------------------------------ MODULE MCSpeech ------------------------------
(***************************************************************************)
(* Model checking of Speech.  A ring of 2 or 3 slots instead of 64 is full *)
(* at times, partly full at others, and wraps.  There is one text block    *)
(* more than the ring, the worker and the callers can hold at once, so a   *)
(* caller never waits for one.                                             *)
(***************************************************************************)
EXTENDS Speech
=============================================================================
