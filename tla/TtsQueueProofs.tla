--------------------------- MODULE TtsQueueProofs ---------------------------
(***************************************************************************)
(* What the ring operations of TtsQueue return and preserve, for every     *)
(* capacity: the facts the proofs about the threads rest on.               *)
(***************************************************************************)
EXTENDS TtsQueue, TLAPS

\* The slot k places after slot h: one reduction modulo Cap is enough for every
\* index the ring computes.
LEMMA SlotAfter ==
  ASSUME NEW h \in Slots, NEW k \in 0 .. Cap
  PROVE  SlotAt(h, k) = IF h + k < Cap THEN h + k ELSE h + k - Cap
BY CapAssumption, SMT DEF Slots, SlotAt

\* queue_init and queue_destroy make well-formed queues.
LEMMA ZeroedType ==
  Zeroed \in Queue /\ QueueInit \in Queue
BY CapAssumption, NullAssumption DEF Zeroed, QueueInit, Queue, Slots

LEMMA ZeroedWellFormed ==
  WellFormed(Zeroed) /\ WellFormed(QueueInit)
<1>1. 0 \in Slots
  BY CapAssumption DEF Slots
<1>2. \A k \in 0 .. Cap : SlotAt(0, k) = IF 0 + k < Cap THEN 0 + k ELSE 0 + k - Cap
  BY <1>1, SlotAfter
<1>3. \A k \in Slots : SlotAt(0, k) \in Slots
  BY <1>2, CapAssumption DEF Slots
<1>4. SlotAt(0, 0) = 0
  BY <1>2, CapAssumption
<1> QED
  BY <1>3, <1>4, CapAssumption DEF WellFormed, Zeroed, QueueInit, Slots

\* Counting from the next slot is counting from this one, one place further.
LEMMA ShiftSlot ==
  ASSUME NEW h \in Slots, NEW k \in Slots
  PROVE  /\ Advance(h) \in Slots
         /\ SlotAt(Advance(h), k) = SlotAt(h, k + 1)
<1>1. Cap \in Nat \ {0} /\ h \in 0 .. Cap - 1 /\ k \in 0 .. Cap - 1
  BY CapAssumption DEF Slots
<1>2. 1 \in 0 .. Cap /\ k \in 0 .. Cap /\ k + 1 \in 0 .. Cap
  BY <1>1
<1>3. Advance(h) = IF h + 1 < Cap THEN h + 1 ELSE h + 1 - Cap
  BY <1>2, SlotAfter DEF Advance
<1>4. Advance(h) \in Slots
  BY <1>1, <1>3 DEF Slots
<1>5. SlotAt(Advance(h), k) =
        IF Advance(h) + k < Cap THEN Advance(h) + k ELSE Advance(h) + k - Cap
  BY <1>2, <1>4, SlotAfter
<1>6. SlotAt(h, k + 1) = IF h + (k + 1) < Cap THEN h + (k + 1) ELSE h + (k + 1) - Cap
  BY <1>2, SlotAfter
<1> QED
  BY <1>1, <1>3, <1>4, <1>5, <1>6

\* Different places from head are different slots, and all places are slots.
LEMMA SlotInjective ==
  ASSUME NEW h \in Slots, NEW j \in Slots, NEW k \in Slots
  PROVE  /\ SlotAt(h, k) \in Slots
         /\ SlotAt(h, j) = SlotAt(h, k) => j = k
         /\ SlotAt(h, 0) = h
<1>1. /\ Cap \in Nat \ {0} /\ h \in 0 .. Cap - 1
      /\ j \in 0 .. Cap - 1 /\ k \in 0 .. Cap - 1
      /\ j \in 0 .. Cap /\ k \in 0 .. Cap /\ 0 \in 0 .. Cap
  BY CapAssumption DEF Slots
<1>2. SlotAt(h, j) = IF h + j < Cap THEN h + j ELSE h + j - Cap
  BY <1>1, SlotAfter
<1>3. SlotAt(h, k) = IF h + k < Cap THEN h + k ELSE h + k - Cap
  BY <1>1, SlotAfter
<1>4. SlotAt(h, 0) = IF h + 0 < Cap THEN h + 0 ELSE h + 0 - Cap
  BY <1>1, SlotAfter
<1> QED
  BY <1>1, <1>2, <1>3, <1>4 DEF Slots

\* Taking the oldest entry keeps the type and the shape of the ring.
LEMMA DropHeadWellFormed ==
  ASSUME NEW q \in Queue, q.count > 0, WellFormed(q)
  PROVE  DropHead(q) \in Queue /\ WellFormed(DropHead(q))
<1> DEFINE r == DropHead(q)
<1>1. /\ q.head \in Slots /\ q.tail \in Slots
      /\ q.count \in 1 .. Cap /\ Cap \in Nat \ {0}
  BY CapAssumption DEF Queue
<1>2. /\ r.items = [q.items EXCEPT ![q.head] = NULL]
      /\ r.head = Advance(q.head) /\ r.tail = q.tail /\ r.count = q.count - 1
  BY DEF DropHead
<1>3. r \in Queue
  <2>1. Advance(q.head) \in Slots /\ q.count - 1 \in 0 .. Cap
    BY <1>1, ShiftSlot
  <2>2. [q.items EXCEPT ![q.head] = NULL] \in [Slots -> Texts \cup {NULL}]
    BY DEF Queue
  <2> QED
    BY <2>1, <2>2, <1>1 DEF Queue, DropHead
<1>4. r.tail = SlotAt(r.head, r.count)
  <2>1. q.count - 1 \in Slots /\ (q.count - 1) + 1 = q.count
    BY <1>1 DEF Slots
  <2>2. SlotAt(Advance(q.head), q.count - 1) = SlotAt(q.head, (q.count - 1) + 1)
    BY <2>1, <1>1, ShiftSlot
  <2> QED
    BY <2>1, <2>2, <1>2 DEF WellFormed
<1>5. ASSUME NEW k \in Slots
      PROVE  r.items[SlotAt(r.head, k)] # NULL <=> k < r.count
  <2>1. SlotAt(r.head, k) = SlotAt(q.head, k + 1)
    BY <1>1, <1>2, ShiftSlot
  <2>2. k \in 0 .. Cap - 1
    BY DEF Slots
  <2>3. CASE k = Cap - 1
    <3>1. SlotAt(q.head, k + 1) = q.head
      <4>1. Cap \in 0 .. Cap /\ k + 1 = Cap
        BY <2>3, <1>1
      <4>2. SlotAt(q.head, Cap) = IF q.head + Cap < Cap THEN q.head + Cap
                                  ELSE q.head + Cap - Cap
        BY <4>1, <1>1, SlotAfter
      <4> QED
        BY <4>1, <4>2, <1>1 DEF Slots
    <3> QED
      BY <2>1, <2>2, <2>3, <3>1, <1>1, <1>2 DEF Queue
  <2>4. CASE k # Cap - 1
    <3>1. k + 1 \in Slots /\ 0 \in Slots /\ k + 1 # 0
      BY <2>2, <2>4, <1>1 DEF Slots
    <3>2. SlotAt(q.head, k + 1) \in Slots /\ SlotAt(q.head, k + 1) # q.head
      BY <3>1, <1>1, SlotInjective
    <3>3. q.items[SlotAt(q.head, k + 1)] # NULL <=> k + 1 < q.count
      BY <3>1 DEF WellFormed
    <3> QED
      BY <2>1, <2>2, <3>2, <3>3, <1>1, <1>2 DEF Queue
  <2> QED
    BY <2>3, <2>4
<1> QED
  BY <1>3, <1>4, <1>5 DEF WellFormed

\* So does appending to a ring that is not full.
LEMMA AddTailWellFormed ==
  ASSUME NEW q \in Queue, NEW x \in Texts, q.count < Cap, WellFormed(q)
  PROVE  AddTail(q, x) \in Queue /\ WellFormed(AddTail(q, x))
<1> DEFINE r == AddTail(q, x)
<1>1. q.head \in Slots /\ q.tail \in Slots
  BY DEF Queue
<1>2. /\ q.head \in 0 .. Cap - 1 /\ q.tail \in 0 .. Cap - 1
      /\ q.count \in 0 .. Cap - 1 /\ Cap \in Nat \ {0}
  BY CapAssumption DEF Queue, Slots
<1>3. \A k \in 0 .. Cap : SlotAt(q.head, k) =
        IF q.head + k < Cap THEN q.head + k ELSE q.head + k - Cap
  BY <1>1, SlotAfter
<1>4. Advance(q.tail) = IF q.tail + 1 < Cap THEN q.tail + 1 ELSE 0
  BY <1>1, <1>2, SlotAfter DEF Advance
<1>5. q.tail = SlotAt(q.head, q.count)
  BY DEF WellFormed
<1>6. q.tail = IF q.head + q.count < Cap THEN q.head + q.count
               ELSE q.head + q.count - Cap
  BY <1>2, <1>3, <1>5
<1>7. r \in Queue
  BY <1>2, <1>4 DEF Queue, Slots, AddTail
<1>8. r.tail = SlotAt(r.head, r.count)
  <2>1. SlotAt(q.head, q.count + 1) =
          IF q.head + (q.count + 1) < Cap THEN q.head + (q.count + 1)
          ELSE q.head + (q.count + 1) - Cap
    BY <1>2, <1>3
  <2>2. r.tail = Advance(q.tail) /\ r.head = q.head /\ r.count = q.count + 1
    BY DEF AddTail
  <2> QED
    BY <2>1, <2>2, <1>2, <1>4, <1>6
<1>9. ASSUME NEW k \in Slots
      PROVE  r.items[SlotAt(r.head, k)] # NULL <=> k < r.count
  <2>1. k \in 0 .. Cap - 1 /\ k \in 0 .. Cap
    BY <1>2 DEF Slots
  <2>2. SlotAt(q.head, k) = IF q.head + k < Cap THEN q.head + k
                             ELSE q.head + k - Cap
    BY <2>1, <1>3
  <2>3. SlotAt(q.head, k) \in Slots
    BY <2>1, <2>2, <1>2 DEF Slots
  <2>4. q.items[SlotAt(q.head, k)] # NULL <=> k < q.count
    BY DEF WellFormed
  <2>5. SlotAt(q.head, k) = q.tail <=> k = q.count
    BY <2>1, <2>2, <1>2, <1>6
  <2>6. r.items = [q.items EXCEPT ![q.tail] = x] /\ r.head = q.head
        /\ r.count = q.count + 1
    BY DEF AddTail
  <2>7. r.items[SlotAt(q.head, k)] =
          IF k = q.count THEN x ELSE q.items[SlotAt(q.head, k)]
    BY <2>3, <2>5, <2>6, <1>1 DEF Queue
  <2> QED
    BY <2>1, <2>4, <2>6, <2>7, <1>2, NullAssumption
<1> QED
  BY <1>7, <1>8, <1>9 DEF WellFormed

\* The texts waiting in a well-formed ring form a sequence, as long as count.
LEMMA ContentsType ==
  ASSUME NEW q \in Queue, WellFormed(q)
  PROVE  Contents(q) \in Seq(Texts) /\ Len(Contents(q)) = q.count
<1>1. q.head \in Slots /\ q.count \in 0 .. Cap /\ Cap \in Nat \ {0}
  BY CapAssumption DEF Queue
<1>2. ASSUME NEW i \in 1 .. q.count
      PROVE  q.items[SlotAt(q.head, i - 1)] \in Texts
  <2>1. i - 1 \in Slots /\ i - 1 < q.count
    BY <1>1 DEF Slots
  <2>2. SlotAt(q.head, i - 1) \in Slots
    BY <2>1, <1>1, SlotInjective
  <2>3. q.items[SlotAt(q.head, i - 1)] # NULL
    BY <2>1 DEF WellFormed
  <2> QED
    BY <2>2, <2>3 DEF Queue
<1>3. Contents(q) \in [1 .. q.count -> Texts]
  BY <1>2 DEF Contents
<1> QED
  BY <1>1, <1>3

\* queue_pop and the overflow branch take the oldest text and only that one.
LEMMA ContentsDropHead ==
  ASSUME NEW q \in Queue, WellFormed(q), q.count > 0
  PROVE  /\ Contents(DropHead(q)) = Tail(Contents(q))
         /\ PopItem(q) = Head(Contents(q))
         /\ PopItem(q) \in Texts
<1>1. q.head \in Slots /\ q.count \in 1 .. Cap /\ Cap \in Nat \ {0}
  BY CapAssumption DEF Queue
<1>2. Contents(q) \in Seq(Texts) /\ Len(Contents(q)) = q.count
  BY ContentsType
<1>3. Head(Contents(q)) = q.items[q.head] /\ PopItem(q) = q.items[q.head]
  <2>1. 1 \in 1 .. q.count /\ 0 \in Slots /\ 1 - 1 = 0
    BY <1>1 DEF Slots
  <2>2. Contents(q)[1] = q.items[SlotAt(q.head, 0)]
    BY <2>1 DEF Contents
  <2>3. SlotAt(q.head, 0) = q.head
    BY <2>1, <1>1, SlotInjective
  <2> QED
    BY <2>2, <2>3, <1>1, <1>2 DEF PopItem
<1>4. PopItem(q) \in Texts
  BY <1>1, <1>2, <1>3
<1>5. /\ DropHead(q) \in Queue /\ WellFormed(DropHead(q))
      /\ DropHead(q).count = q.count - 1
      /\ DropHead(q).head = Advance(q.head)
      /\ DropHead(q).items = [q.items EXCEPT ![q.head] = NULL]
  BY DropHeadWellFormed DEF DropHead
<1>6. /\ Contents(DropHead(q)) \in Seq(Texts)
      /\ Len(Contents(DropHead(q))) = q.count - 1
  BY <1>5, ContentsType
<1>7. /\ Tail(Contents(q)) \in Seq(Texts)
      /\ Len(Tail(Contents(q))) = q.count - 1
      /\ \A i \in 1 .. q.count - 1 : Tail(Contents(q))[i] = Contents(q)[i + 1]
  BY <1>1, <1>2
<1>8. ASSUME NEW i \in 1 .. q.count - 1
      PROVE  Contents(DropHead(q))[i] = Contents(q)[i + 1]
  <2>1. /\ i - 1 \in Slots /\ i \in Slots /\ i # 0 /\ 0 \in Slots
        /\ (i - 1) + 1 = i /\ (i + 1) - 1 = i /\ i + 1 \in 1 .. q.count
    BY <1>1 DEF Slots
  <2>2. Contents(DropHead(q))[i] =
          DropHead(q).items[SlotAt(DropHead(q).head, i - 1)]
    BY <1>5 DEF Contents
  <2>3. SlotAt(Advance(q.head), i - 1) = SlotAt(q.head, i)
    <3>1. SlotAt(Advance(q.head), i - 1) = SlotAt(q.head, (i - 1) + 1)
      BY <2>1, <1>1, ShiftSlot
    <3> QED
      BY <2>1, <3>1
  <2>4. SlotAt(q.head, i) \in Slots /\ SlotAt(q.head, i) # q.head
    BY <2>1, <1>1, SlotInjective
  <2>5. Contents(DropHead(q))[i] = q.items[SlotAt(q.head, i)]
    BY <2>2, <2>3, <2>4, <1>1, <1>5 DEF Queue
  <2>6. Contents(q)[i + 1] = q.items[SlotAt(q.head, (i + 1) - 1)]
    BY <2>1 DEF Contents
  <2> QED
    BY <2>1, <2>5, <2>6
<1> QED
  BY <1>3, <1>4, <1>6, <1>7, <1>8, <1>1

\* Adding at the tail appends.
LEMMA ContentsAddTail ==
  ASSUME NEW q \in Queue, WellFormed(q), q.count < Cap, NEW x \in Texts
  PROVE  Contents(AddTail(q, x)) = Append(Contents(q), x)
<1>1. /\ q.head \in Slots /\ q.tail \in Slots /\ Cap \in Nat \ {0}
      /\ q.count \in 0 .. Cap - 1
  BY CapAssumption DEF Queue
<1>2. Contents(q) \in Seq(Texts) /\ Len(Contents(q)) = q.count
  BY ContentsType
<1>3. /\ AddTail(q, x) \in Queue /\ WellFormed(AddTail(q, x))
      /\ AddTail(q, x).count = q.count + 1
      /\ AddTail(q, x).head = q.head
      /\ AddTail(q, x).items = [q.items EXCEPT ![q.tail] = x]
  BY AddTailWellFormed DEF AddTail
<1>4. /\ Contents(AddTail(q, x)) \in Seq(Texts)
      /\ Len(Contents(AddTail(q, x))) = q.count + 1
  BY <1>3, ContentsType
<1>5. q.tail = SlotAt(q.head, q.count) /\ q.count \in Slots
  BY <1>1 DEF WellFormed, Slots
<1>6. ASSUME NEW i \in 1 .. q.count + 1
      PROVE  Contents(AddTail(q, x))[i] = Append(Contents(q), x)[i]
  <2>1. i - 1 \in Slots
    BY <1>1 DEF Slots
  <2>2. Contents(AddTail(q, x))[i] = AddTail(q, x).items[SlotAt(q.head, i - 1)]
    BY <1>3 DEF Contents
  <2>3. SlotAt(q.head, i - 1) \in Slots
    BY <2>1, <1>1, SlotInjective
  <2>4. CASE i = q.count + 1
    <3>1. i - 1 = q.count
      BY <2>4, <1>1
    <3> QED
      BY <3>1, <2>2, <2>3, <2>4, <1>1, <1>2, <1>3, <1>5 DEF Queue
  <2>5. CASE i # q.count + 1
    <3>1. i \in 1 .. q.count /\ i - 1 # q.count
      BY <2>5, <1>1
    <3>2. SlotAt(q.head, i - 1) # q.tail
      BY <3>1, <2>1, <1>1, <1>5, SlotInjective
    <3>3. Contents(q)[i] = q.items[SlotAt(q.head, i - 1)]
      BY <3>1 DEF Contents
    <3> QED
      BY <3>1, <3>2, <3>3, <2>2, <2>3, <1>1, <1>2, <1>3 DEF Queue
  <2> QED
    BY <2>4, <2>5
<1> QED
  BY <1>1, <1>2, <1>4, <1>6

\* queue_push: the new text goes last, and only if Cap texts wait is one lost,
\* the oldest.  It frees exactly the texts it displaces.
LEMMA PushIsAppend ==
  ASSUME NEW q \in Queue, WellFormed(q), NEW x \in Texts
  PROVE  /\ Push(q, x) \in Queue /\ WellFormed(Push(q, x))
         /\ Push(q, x).stop = q.stop /\ Push(q, x).usable = q.usable
         /\ Push(q, x).count > 0
         /\ Contents(Push(q, x)) =
              Append(IF Len(Contents(q)) = Cap THEN Tail(Contents(q))
                     ELSE Contents(q), x)
<1>1. q.count \in 0 .. Cap /\ Cap \in Nat \ {0} /\ Len(Contents(q)) = q.count
  BY CapAssumption, ContentsType DEF Queue
<1>2. CASE q.count = Cap
  <2> DEFINE r == DropHead(q)
  <2>1. /\ r \in Queue /\ WellFormed(r) /\ r.count = Cap - 1
        /\ r.stop = q.stop /\ r.usable = q.usable
    BY <1>1, <1>2, DropHeadWellFormed DEF DropHead
  <2>2. Contents(r) = Tail(Contents(q))
    BY <1>1, <1>2, ContentsDropHead
  <2>3. Push(q, x) = AddTail(r, x)
    BY <1>2 DEF Push
  <2>4. /\ AddTail(r, x) \in Queue /\ WellFormed(AddTail(r, x))
        /\ Contents(AddTail(r, x)) = Append(Contents(r), x)
    BY <2>1, <1>1, AddTailWellFormed, ContentsAddTail
  <2>5. AddTail(r, x).stop = r.stop /\ AddTail(r, x).usable = r.usable
        /\ AddTail(r, x).count = r.count + 1
    BY DEF AddTail
  <2> QED
    BY <2>1, <2>2, <2>3, <2>4, <2>5, <1>1, <1>2
<1>3. CASE q.count # Cap
  <2>1. Push(q, x) = AddTail(q, x) /\ q.count < Cap
    BY <1>1, <1>3 DEF Push
  <2>2. AddTail(q, x).stop = q.stop /\ AddTail(q, x).usable = q.usable
        /\ AddTail(q, x).count = q.count + 1
    BY DEF AddTail
  <2> QED
    BY <2>1, <2>2, <1>1, <1>3, AddTailWellFormed, ContentsAddTail
<1> QED
  BY <1>2, <1>3

\* queue_stop changes nothing but the flag.
LEMMA StoppedKeepsRing ==
  ASSUME NEW q \in Queue, WellFormed(q)
  PROVE  /\ Stopped(q) \in Queue /\ WellFormed(Stopped(q))
         /\ Stopped(q).stop /\ Stopped(q).usable = q.usable
         /\ Stopped(q).count = q.count
         /\ Contents(Stopped(q)) = Contents(q)
<1>1. /\ Stopped(q).items = q.items /\ Stopped(q).head = q.head
      /\ Stopped(q).tail = q.tail /\ Stopped(q).count = q.count
      /\ Stopped(q).stop /\ Stopped(q).usable = q.usable
      /\ Stopped(q) \in Queue
  BY DEF Stopped, Queue
<1>2. WellFormed(Stopped(q))
  BY <1>1 DEF WellFormed
<1>3. Contents(Stopped(q)) = Contents(q)
  BY <1>1 DEF Contents
<1> QED
  BY <1>1, <1>2, <1>3

\* queue_pop, after its wait loop: it yields NULL only from an empty ring.
LEMMA PopKeepsRing ==
  ASSUME NEW q \in Queue, WellFormed(q)
  PROVE  /\ PopRest(q) \in Queue /\ WellFormed(PopRest(q))
         /\ PopRest(q).stop = q.stop /\ PopRest(q).usable = q.usable
         /\ PopItem(q) = NULL <=> q.count = 0
         /\ q.count = 0 => PopRest(q) = q
         /\ q.count # 0 => PopItem(q) \in Texts
<1>1. q.count \in Nat
  BY CapAssumption DEF Queue
<1>2. CASE q.count = 0
  BY <1>2 DEF PopRest, PopItem
<1>3. CASE q.count # 0
  <2>1. q.count > 0 /\ PopRest(q) = DropHead(q)
    BY <1>1, <1>3 DEF PopRest
  <2>2. DropHead(q) \in Queue /\ WellFormed(DropHead(q))
    BY <2>1, DropHeadWellFormed
  <2>3. DropHead(q).stop = q.stop /\ DropHead(q).usable = q.usable
    BY DEF DropHead
  <2>4. PopItem(q) \in Texts
    BY <2>1, ContentsDropHead
  <2> QED
    BY <1>3, <2>1, <2>2, <2>3, <2>4, NullAssumption
<1> QED
  BY <1>2, <1>3

-----------------------------------------------------------------------------
(* Which texts wait, and that none waits twice.                            *)

\* No two places of the ring hold the same copy.
Distinct(q) == \A i, j \in 1 .. q.count : Contents(q)[i] = Contents(q)[j] => i = j

\* An empty ring has nothing waiting.
LEMMA WaitingEmpty ==
  ASSUME NEW q \in Queue, q.count = 0
  PROVE  Waiting(q) = {} /\ Distinct(q)
BY DEF Waiting, Distinct

\* Only texts wait.
LEMMA WaitingType ==
  ASSUME NEW q \in Queue, WellFormed(q)
  PROVE  Waiting(q) \subseteq Texts
<1>1. Contents(q) \in Seq(Texts) /\ Len(Contents(q)) = q.count
  BY ContentsType
<1> QED
  BY <1>1 DEF Waiting

\* Taking the oldest leaves the others, each still once.
LEMMA WaitingDropHead ==
  ASSUME NEW q \in Queue, WellFormed(q), q.count > 0, Distinct(q)
  PROVE  /\ PopItem(q) \in Waiting(q)
         /\ Waiting(DropHead(q)) = Waiting(q) \ {PopItem(q)}
         /\ Distinct(DropHead(q))
<1> DEFINE r == DropHead(q)
           n == q.count
<1>1. n \in Nat \ {0} /\ r.count = n - 1
  BY CapAssumption DEF Queue, DropHead
<1>2. Contents(q) \in Seq(Texts) /\ Len(Contents(q)) = n
  BY ContentsType
<1>3. PopItem(q) = Contents(q)[1]
  BY <1>1, <1>2, ContentsDropHead
<1>4. \A i \in 1 .. n - 1 : Contents(r)[i] = Contents(q)[i + 1]
  BY <1>1, <1>2, ContentsDropHead, SMTT(30), ZenonT(30)
<1>5. PopItem(q) \in Waiting(q)
  BY <1>1, <1>3 DEF Waiting
<1>6. ASSUME NEW y \in Waiting(r)
      PROVE  y \in Waiting(q) \ {PopItem(q)}
  <2>1. PICK i \in 1 .. n - 1 : y = Contents(r)[i]
    BY <1>1 DEF Waiting
  <2>2. i + 1 \in 1 .. n /\ 1 \in 1 .. n /\ i + 1 # 1 /\ y = Contents(q)[i + 1]
    BY <1>1, <1>4, <2>1
  <2>3. y \in Waiting(q)
    BY <2>2 DEF Waiting
  <2>4. y # Contents(q)[1]
    BY <2>2 DEF Distinct
  <2> QED
    BY <2>3, <2>4, <1>3
<1>7. ASSUME NEW y \in Waiting(q), y # PopItem(q)
      PROVE  y \in Waiting(r)
  <2>1. PICK i \in 1 .. n : y = Contents(q)[i]
    BY DEF Waiting
  <2>2. i # 1
    BY <2>1, <1>3, <1>7
  <2>3. i - 1 \in 1 .. n - 1 /\ (i - 1) + 1 = i
    BY <1>1, <2>1, <2>2
  <2>4. Contents(r)[i - 1] = y
    BY <2>1, <2>3, <1>4
  <2> QED
    BY <2>3, <2>4, <1>1 DEF Waiting
<1>8. ASSUME NEW i \in 1 .. n - 1, NEW j \in 1 .. n - 1,
             Contents(r)[i] = Contents(r)[j]
      PROVE  i = j
  <2>1. i + 1 \in 1 .. n /\ j + 1 \in 1 .. n
    BY <1>1
  <2>2. Contents(q)[i + 1] = Contents(q)[j + 1]
    BY <1>4, <1>8
  <2>3. i + 1 = j + 1
    BY <2>1, <2>2 DEF Distinct
  <2> QED
    BY <2>3, <1>1
<1>9. Distinct(r)
  BY <1>1, <1>8 DEF Distinct
<1> QED
  BY <1>5, <1>6, <1>7, <1>9

\* Appending a text that does not wait adds exactly that text.
LEMMA WaitingAddTail ==
  ASSUME NEW q \in Queue, WellFormed(q), q.count < Cap, Distinct(q),
         NEW x \in Texts, x \notin Waiting(q)
  PROVE  /\ Waiting(AddTail(q, x)) = Waiting(q) \cup {x}
         /\ Distinct(AddTail(q, x))
<1> DEFINE r == AddTail(q, x)
           n == q.count
<1>1. n \in Nat /\ r.count = n + 1
  BY CapAssumption DEF Queue, AddTail
<1>2. Contents(q) \in Seq(Texts) /\ Len(Contents(q)) = n
  BY ContentsType
<1>3. Contents(r) = Append(Contents(q), x)
  BY ContentsAddTail
<1>4. \A i \in 1 .. n : i \in 1 .. n + 1 /\ Contents(r)[i] = Contents(q)[i]
  BY <1>1, <1>2, <1>3
<1>5. n + 1 \in 1 .. n + 1 /\ Contents(r)[n + 1] = x
  BY <1>1, <1>2, <1>3
<1>6. \A i \in 1 .. n + 1 : i \in 1 .. n \/ i = n + 1
  BY <1>1
<1>7. \A i \in 1 .. n : Contents(q)[i] # x
  BY DEF Waiting
<1>8. Waiting(r) = {Contents(r)[i] : i \in 1 .. n + 1}
  BY <1>1 DEF Waiting
<1>9. Waiting(r) = Waiting(q) \cup {x}
  BY <1>4, <1>5, <1>6, <1>8 DEF Waiting
<1>10. Distinct(r)
  <2> SUFFICES ASSUME NEW i \in 1 .. n + 1, NEW j \in 1 .. n + 1,
                      Contents(r)[i] = Contents(r)[j]
               PROVE  i = j
    BY <1>1 DEF Distinct
  <2>1. CASE i \in 1 .. n /\ j \in 1 .. n
    BY <2>1, <1>4 DEF Distinct
  <2>2. CASE i = n + 1 \/ j = n + 1
    BY <2>2, <1>4, <1>5, <1>6, <1>7
  <2> QED
    BY <2>1, <2>2, <1>6
<1> QED
  BY <1>9, <1>10

\* queue_push frees the text it displaces and no text that still waits.
LEMMA WaitingPush ==
  ASSUME NEW q \in Queue, WellFormed(q), Distinct(q),
         NEW x \in Texts, x \notin Waiting(q)
  PROVE  /\ Evicted(q) \subseteq Waiting(q)
         /\ Waiting(Push(q, x)) = (Waiting(q) \ Evicted(q)) \cup {x}
         /\ Distinct(Push(q, x))
<1>1. q.count \in 0 .. Cap /\ Cap \in Nat \ {0}
  BY CapAssumption DEF Queue
<1>2. CASE q.count = Cap
  <2> DEFINE r == DropHead(q)
  <2>1. q.count > 0 /\ Evicted(q) = {PopItem(q)} /\ Push(q, x) = AddTail(r, x)
    BY <1>1, <1>2 DEF Evicted, PopItem, Push
  <2>2. /\ PopItem(q) \in Waiting(q)
        /\ Waiting(r) = Waiting(q) \ {PopItem(q)}
        /\ Distinct(r)
    BY <2>1, WaitingDropHead
  <2>3. r \in Queue /\ WellFormed(r) /\ r.count < Cap
    BY <1>1, <1>2, <2>1, DropHeadWellFormed DEF DropHead
  <2>4. /\ Waiting(AddTail(r, x)) = Waiting(r) \cup {x}
        /\ Distinct(AddTail(r, x))
    BY <2>2, <2>3, WaitingAddTail
  <2> QED
    BY <2>1, <2>2, <2>4
<1>3. CASE q.count # Cap
  <2>1. q.count < Cap /\ Evicted(q) = {} /\ Push(q, x) = AddTail(q, x)
    BY <1>1, <1>3 DEF Evicted, Push
  <2> QED
    BY <2>1, WaitingAddTail
<1> QED
  BY <1>2, <1>3

\* queue_pop takes what it returns out of the ring.
LEMMA WaitingPop ==
  ASSUME NEW q \in Queue, WellFormed(q), Distinct(q)
  PROVE  /\ Waiting(PopRest(q)) = Waiting(q) \ {PopItem(q)}
         /\ PopItem(q) # NULL => PopItem(q) \in Waiting(q)
         /\ Distinct(PopRest(q))
<1>1. q.count \in Nat
  BY CapAssumption DEF Queue
<1>2. CASE q.count = 0
  BY <1>2, WaitingEmpty DEF PopRest, PopItem
<1>3. CASE q.count # 0
  BY <1>1, <1>3, WaitingDropHead DEF PopRest
<1> QED
  BY <1>2, <1>3

\* queue_stop leaves what waits.
LEMMA WaitingStopped ==
  ASSUME NEW q \in Queue, WellFormed(q)
  PROVE  Waiting(Stopped(q)) = Waiting(q) /\ Distinct(Stopped(q)) = Distinct(q)
BY StoppedKeepsRing DEF Waiting, Distinct
=============================================================================
