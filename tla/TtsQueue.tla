------------------------------ MODULE TtsQueue ------------------------------
(***************************************************************************)
(* struct tts_queue of utils.c: a ring of TTS_QUEUE_CAP slots, each NULL   *)
(* or a pointer to a heap copy of a text, with head, tail, count and the   *)
(* stop flag.  Every operation of this module is the body of one critical  *)
(* section on q->mtx, as a function of the queue record; the threads that  *)
(* run them are in module Speech.                                          *)
(***************************************************************************)
EXTENDS Integers, Sequences

CONSTANTS
  Cap,     \* TTS_QUEUE_CAP
  Texts,   \* the heap blocks that strdup-like copies of texts live in
  NULL     \* the null pointer

ASSUME CapAssumption  == Cap \in Nat \ {0}
ASSUME NullAssumption == NULL \notin Texts

Slots == 0 .. Cap - 1

\* The record of a queue.  usable is TRUE between pthread_mutex_init and
\* pthread_mutex_destroy: what a thread may lock.
Queue ==
  [items : [Slots -> Texts \cup {NULL}], head : Slots, tail : Slots,
   count : 0 .. Cap, stop : BOOLEAN, usable : BOOLEAN]

\* memset(q, 0, sizeof(*q)): how a queue is before queue_init, and what
\* queue_destroy leaves.  The stop flag is cleared with the rest.
Zeroed ==
  [items |-> [i \in Slots |-> NULL], head |-> 0, tail |-> 0,
   count |-> 0, stop |-> FALSE, usable |-> FALSE]

QueueInit ==
  [items |-> [i \in Slots |-> NULL], head |-> 0, tail |-> 0,
   count |-> 0, stop |-> FALSE, usable |-> TRUE]

\* The slot k places after slot h, and the one after slot i.
SlotAt(h, k) == (h + k) % Cap
Advance(i)   == SlotAt(i, 1)

\* Take the oldest entry out: the overflow branch of queue_push and the
\* second half of queue_pop are the same three assignments.
\* Mutant: the slot keeps its pointer.
DropHeadKeeps(q) ==
  [q EXCEPT !.head = Advance(@), !.count = @ - 1]

DropHead(q) ==
  [items |-> [q.items EXCEPT ![q.head] = NULL],
   head  |-> Advance(q.head), tail |-> q.tail, count |-> q.count - 1,
   stop  |-> q.stop, usable |-> q.usable]

AddTail(q, x) ==
  [items |-> [q.items EXCEPT ![q.tail] = x],
   head  |-> q.head, tail |-> Advance(q.tail), count |-> q.count + 1,
   stop  |-> q.stop, usable |-> q.usable]

\* Mutants: the displaced text is not freed, or is when one slot is left; the
\* ring is not checked for being full, or the newest text is displaced.
EvictedNothing(q)  == {}
EvictedEarly(q)    == IF q.count >= Cap - 1 THEN {q.items[q.head]} \ {NULL} ELSE {}
PushUnbounded(q, x) == AddTail(q, x)
PushOverNewest(q, x) ==
  IF q.count = Cap THEN [q EXCEPT !.items[SlotAt(q.tail, Cap - 1)] = x] ELSE AddTail(q, x)

\* What queue_push frees to make room, and the queue it leaves.
Evicted(q) == IF q.count = Cap THEN {q.items[q.head]} ELSE {}
Push(q, x) == AddTail(IF q.count = Cap THEN DropHead(q) ELSE q, x)

\* Mutant: stop goes before what still waits.
PopItemUnlessStopped(q) == IF q.count > 0 /\ ~q.stop THEN q.items[q.head] ELSE NULL

\* What queue_pop returns once its wait loop is over, and the queue it leaves.
PopItem(q) == IF q.count > 0 THEN q.items[q.head] ELSE NULL
PopRest(q) == IF q.count > 0 THEN DropHead(q) ELSE q

\* Mutant: the flag is forgotten.
StoppedNot(q) == q

Stopped(q) == [q EXCEPT !.stop = TRUE]

\* The texts waiting, oldest first; what queue_destroy walks and frees.
Contents(q) == [i \in 1 .. q.count |-> q.items[SlotAt(q.head, i - 1)]]
Waiting(q)  == {Contents(q)[i] : i \in 1 .. q.count}

\* The ring is consistent: tail follows the count entries that start at head,
\* and the slots from head hold pointers for exactly count slots.
WellFormed(q) ==
  /\ q.tail = SlotAt(q.head, q.count)
  /\ \A k \in Slots : q.items[SlotAt(q.head, k)] # NULL <=> k < q.count
=============================================================================
