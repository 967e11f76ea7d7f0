------------------------------ MODULE KukText ------------------------------
(***************************************************************************)
(* How the text of a hooked call is found: kuk0, kuk1 and kuk2 of hook.c   *)
(* get the host's C++ string and look for its characters in memory, and    *)
(* queue_push of utils.c copies what is there.  The host builds one string *)
(* object, gives it new texts and calls, again and again.                  *)
(*                                                                         *)
(* Memory is a function of addresses.  A cell is a byte; one of the words  *)
(* the code reads is a cell with the whole word.  The string of libstdc++  *)
(* before C++11 ("cow") is a pointer to the characters; that of libc++ has *)
(* short texts in itself, behind a byte with twice their length, and from  *)
(* its first long text on a pointer in its third word, behind a capacity   *)
(* whose lowest bit is set.                                                *)
(***************************************************************************)
EXTENDS Integers, Sequences, FiniteSetsExt

CONSTANTS
  MaxText,   \* TTS_MAX_TEXT
  ShortCap,  \* the longest text a libc++ string keeps in itself
  Texts,     \* what the host speaks: sequences of bytes, NUL among them
  Room,      \* the bytes of a block the host allocates for a text and its NUL
  MaxCalls   \* bound: the calls with one string

ASSUME MaxTextAssumption  == MaxText \in Nat \ {0}
ASSUME ShortCapAssumption == ShortCap \in Nat /\ ShortCap < 23
ASSUME TextsAssumption    == Texts \subseteq Seq(0 .. 255)
ASSUME RoomAssumption     == Room \in Nat /\ \A t \in Texts : Len(t) < Room

NUL    == 0
Str    == 0                          \* the object, three words of 8 bytes
Blocks == {24, 24 + Room}            \* where its characters can be allocated
Memory == Str .. 24 + 2 * Room
Odd(n) == n % 2 = 1

VARIABLES
  entry,  \* the field hook of the function's entry in ptrs
  text,   \* what the string has
  mem,    \* memory
  kukPc,  \* "host", "kuk" or "push"
  ptr,    \* the argument of speech_say
  queued, \* the block that went into the queue, <<>> when none did
  calls   \* how often the host has called

kukVars == <<entry, text, mem, kukPc, ptr, queued, calls>>

\* The entries whose names say libc++ have hook 1; the others are "cow".
Library == IF entry = 1 THEN "libc++" ELSE "cow"

\* Memory with a text and its NUL from an address on; the rest stays.
Put(t, at) ==
  [a \in Memory |-> IF a \in at .. at + Len(t) - 1 THEN t[a - at + 1]
                    ELSE IF a = at + Len(t) THEN NUL ELSE mem[a]]

IsLong == Odd(mem[Str])

KukInit ==
  /\ entry \in {0, 1, 2}
  /\ text = <<>> /\ kukPc = "host" /\ ptr = NUL /\ queued = <<>> /\ calls = 0
  /\ \E fill \in {1, 2} : mem = [a \in Memory |-> IF a \in {Str, Str + 1} THEN NUL ELSE fill]

-----------------------------------------------------------------------------
(* The host: it assigns a text and calls the function.                     *)

CallsWith(t) ==
  /\ kukPc = "host" /\ calls < MaxCalls
  /\ kukPc' = "kuk" /\ text' = t /\ calls' = calls + 1
  /\ UNCHANGED <<entry, ptr, queued>>

\* A string of libstdc++; whether it finds its block large enough is its matter.
AssignCow(t) ==
  /\ Library = "cow"
  /\ \E b \in Blocks : mem' = [Put(t, b) EXCEPT ![Str] = b]
  /\ CallsWith(t)

\* A string of libc++ that has not been long yet, and is not now.
AssignShort(t) ==
  /\ Library = "libc++" /\ ~IsLong /\ Len(t) <= ShortCap
  /\ mem' = [Put(t, Str + 1) EXCEPT ![Str] = 2 * Len(t)]
  /\ CallsWith(t)

\* One that is long, or becomes it: it never goes back.
AssignLong(t) ==
  /\ Library = "libc++" /\ (IsLong \/ Len(t) > ShortCap)
  /\ \E b \in Blocks :
       mem' = [Put(t, b) EXCEPT ![Str] = 33, ![Str + 8] = Len(t), ![Str + 16] = b]
  /\ CallsWith(t)

-----------------------------------------------------------------------------
(* The plugin.                                                             *)

Kuk(reads) ==
  kukPc = "kuk" /\ kukPc' = "push" /\ ptr' = reads /\ UNCHANGED <<entry, text, mem, queued, calls>>

\* Mutant: the text is taken for one in the string whatever the first byte says.
Kuk2Inline == entry = 1 /\ Kuk(Str + 1)

Kuk0 == entry = 2 /\ Kuk(mem[Str])
Kuk1 == entry = 0 /\ Kuk(mem[Str])
Kuk2 == entry = 1 /\ Kuk(IF Odd(mem[Str]) THEN mem[Str + 16] ELSE Str + 1)

\* strnlen: it looks at no more than most characters.
Strnlen(at, most) ==
  Min({most} \cup {n \in 0 .. most - 1 : at + n \in Memory /\ mem[at + n] = NUL})

\* Mutant: room for the characters and not for their NUL.
CopyCut(len) == [i \in 1 .. len |-> IF i = len THEN NUL ELSE mem[ptr + i - 1]]

\* malloc, memcpy and the NUL behind.
Copy(len) == [i \in 1 .. len + 1 |-> IF i = len + 1 THEN NUL ELSE mem[ptr + i - 1]]

\* queue_push up to the lock.  An empty text is dropped, and so is one there
\* is no memory for.
QueuePush ==
  /\ kukPc = "push" /\ kukPc' = "host"
  /\ \/ mem[ptr] # NUL /\ queued' = Copy(Strnlen(ptr, MaxText))
     \/ queued' = <<>>
  /\ UNCHANGED <<entry, text, mem, ptr, calls>>

KukNext ==
  \/ \E t \in Texts : AssignCow(t) \/ AssignShort(t) \/ AssignLong(t)
  \/ Kuk0 \/ Kuk1 \/ Kuk2
  \/ QueuePush

KukSpec == KukInit /\ [][KukNext]_kukVars

-----------------------------------------------------------------------------
(* Properties.                                                             *)

\* What C takes for the text: the characters before the first NUL.
CString(t) ==
  SubSeq(t, 1, Min({MaxText, Len(t)} \cup {i - 1 : i \in {j \in DOMAIN t : t[j] = NUL}}))

\* What is queued, if anything, is the text of this call, whole up to
\* TTS_MAX_TEXT and terminated, wherever the library has put it and whatever
\* earlier texts have left around it; nothing is queued for an empty one.
TextFound ==
  [][kukPc = "push" /\ queued' # <<>> =>
       CString(text) # <<>> /\ queued' = Append(CString(text), NUL)]_kukVars
=============================================================================
