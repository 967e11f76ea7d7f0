---------------------------- MODULE HelperProofs ----------------------------
(***************************************************************************)
(* The safety of the parts the service rests on, as MCHelpers has them:    *)
(* PulseStream for every set of headers and any number of streams,         *)
(* DebugLog for messages of any length and any amount of memory, SpawnFds  *)
(* for any number of descriptors, WavHeader for files of any chunks,       *)
(* Commands for any values of the environment, and Manifest for archives   *)
(* with any entries.  They share no variable.                              *)
(***************************************************************************)
EXTENDS PulseStream, DebugLog, SpawnFds, WavHeader, Commands, Manifest, FiniteSetTheorems,
        NatLemmas, TLAPS

-----------------------------------------------------------------------------
(* PulseStream.                                                            *)

\* While a text plays, its header was not refused and the stream is its own.
PlayInv ==
  pc = "play" =>
    /\ stream # 0 /\ spec = SpecOf(info)
    /\ info.format = 1 /\ info.bits = 16
    /\ Uint8(info.channels) # 0

PulseIInv == TypeOK /\ OneStream /\ PlayInv

LEMMA Cast == \A n \in Nat : Uint8(n) \in 0 .. 255
  BY SMT DEF Uint8

LEMMA CastKeeps == \A n \in Nat : n <= 256 /\ Uint8(n) # 0 => Uint8(n) = n
  BY SMT DEF Uint8

LEMMA SampleSpec ==
  ASSUME NEW r \in {h.rate : h \in Headers}, NEW c \in 0 .. 255
  PROVE  [rate |-> r, channels |-> c] \in SampleSpecs
  BY Zenon DEF SampleSpecs

LEMMA SpecOfType ==
  ASSUME NEW h \in Headers
  PROVE  SpecOf(h) \in SampleSpecs
<1>1. h.channels \in Nat
  BY HeadersAssumption, Zenon
<1>2. Uint8(h.channels) \in 0 .. 255
  BY <1>1, Cast, Zenon
<1>. QED
  BY <1>2, SampleSpec, Zenon DEF SpecOf

\* What pulse_open goes on with: the cast has left some channel.
LEMMA Accepted ==
  ASSUME NEW h, ~Refused(h)
  PROVE  h.format = 1 /\ h.bits = 16 /\ Uint8(h.channels) # 0
<1>1. h.format = 1 /\ h.bits = 16 /\ SpecOf(h).channels \in 1 .. 32
  BY Zenon DEF Refused, Valid
<1>2. SpecOf(h).channels = Uint8(h.channels)
  BY Zenon DEF SpecOf
<1>3. \A n \in 1 .. 32 : n # 0
  OBVIOUS
<1>. QED
  BY <1>1, <1>2, <1>3, Zenon

LEMMA PulseInitIInv == Init => PulseIInv
<1>. SUFFICES ASSUME Init PROVE PulseIInv
  OBVIOUS
<1>1. TypeOK
  BY SpecOfType, MaxOpensAssumption DEF Init, TypeOK
<1>. QED
  BY <1>1 DEF Init, PulseIInv, OneStream, PlayInv

LEMMA PulseNextIInv == PulseIInv /\ [Next]_vars => PulseIInv'
<1>. SUFFICES ASSUME PulseIInv, [Next]_vars PROVE PulseIInv'
  OBVIOUS
<1>. USE DEF PulseIInv, TypeOK, OneStream, PlayInv
<1>1. CASE Speak
  BY <1>1 DEF Speak
<1>2. CASE OpenRefused
  BY <1>2 DEF OpenRefused
<1>3. CASE OpenReused
  BY <1>3, Accepted DEF OpenReused, Fits
<1>4. CASE OpenNew
  <2>1. SpecOf(info) \in SampleSpecs
    BY SpecOfType
  <2>2. CASE stream' = 0
    BY <1>4, <2>2, MaxOpensAssumption DEF OpenNew
  <2>3. CASE stream' # 0
    <3>1. /\ opened < MaxOpens /\ opened' = opened + 1 /\ stream' = opened + 1
          /\ handles' = (handles \ {stream}) \cup {stream'}
          /\ spec' = SpecOf(info) /\ pc' = "play"
          /\ ~Refused(info)
          /\ UNCHANGED <<info, broken>>
      BY <1>4, <2>3 DEF OpenNew
    <3>2. TypeOK'
      BY <2>1, <3>1, MaxOpensAssumption
    <3>3. OneStream'
      BY <3>1, MaxOpensAssumption
    <3>4. PlayInv'
      BY <3>1, Accepted, MaxOpensAssumption
    <3>. QED
      BY <3>2, <3>3, <3>4
  <2>. QED
    BY <2>2, <2>3
<1>5. CASE Write
  BY <1>5 DEF Write
<1>6. CASE EndOfText
  BY <1>6 DEF EndOfText
<1>7. CASE Close
  BY <1>7, MaxOpensAssumption DEF Close
<1>8. CASE Breaks
  BY <1>8, MaxOpensAssumption DEF Breaks
<1>9. CASE UNCHANGED vars
  BY <1>9 DEF vars
<1>. QED
  BY <1>1, <1>2, <1>3, <1>4, <1>5, <1>6, <1>7, <1>8, <1>9 DEF Next

LEMMA PulseAlwaysIInv == Spec => []PulseIInv
  BY PulseInitIInv, PulseNextIInv, PTL DEF Spec

\* The state keeps its type.
THEOREM PulseTypeCorrect == Spec => []TypeOK
<1>1. PulseIInv => TypeOK
  BY DEF PulseIInv
<1>. QED
  BY <1>1, PulseAlwaysIInv, PTL

\* pulse_open never loses a stream, and never uses one that was freed.
THEOREM NeverTwoStreams == Spec => []OneStream
<1>1. PulseIInv => OneStream
  BY DEF PulseIInv
<1>. QED
  BY <1>1, PulseAlwaysIInv, PTL

\* What plays is of the rate and the channels of its own header, whatever texts
\* came before.
THEOREM AlwaysPlayedAsHeader == Spec => []PlayedAsHeader
<1>1. PulseIInv => PlayedAsHeader
  <2>. SUFFICES ASSUME PulseIInv, pc = "play", info.channels <= 256
                PROVE  /\ stream \in handles
                       /\ info.format = 1 /\ info.bits = 16
                       /\ spec.rate = info.rate /\ spec.channels = info.channels
    BY DEF PlayedAsHeader
  <2>1. /\ stream # 0 /\ spec = SpecOf(info) /\ handles = {stream} \ {0}
        /\ info.format = 1 /\ info.bits = 16
    BY DEF PulseIInv, PlayInv, OneStream
  <2>2. info.channels \in Nat /\ Uint8(info.channels) # 0
    BY HeadersAssumption, Zenon DEF PulseIInv, TypeOK, PlayInv
  <2>3. Uint8(info.channels) = info.channels
    BY <2>2, CastKeeps, Zenon
  <2>4. stream \in handles
    BY <2>1
  <2>. QED
    BY <2>1, <2>3, <2>4, Zenon DEF SpecOf
<1>. QED
  BY <1>1, PulseAlwaysIInv, PTL

-----------------------------------------------------------------------------
(* DebugLog.                                                               *)

\* Between calls the buffer is there or not; size may be 2 without it.
BufferInv ==
  /\ room # 0 => size = room
  /\ step \in {"format", "grow"} => room # 0

LogIInv == LogTypeOK /\ BufferInv

\* LogTypeOK but for its Boolean part.
LogNumbers ==
  /\ step \in {"idle", "enter", "format", "grow"}
  /\ len \in Lengths \cup {Bad} /\ printed \in Lengths \cup {Bad}
  /\ size \in 0 .. Memory /\ room \in 0 .. Memory

LEMMA LogSplit == LogTypeOK <=> LogNumbers /\ problem \in BOOLEAN
  BY Zenon DEF LogTypeOK, LogNumbers

LEMMA LogInitIInv == LogInit => LogIInv
<1>1. LogInit => problem \in BOOLEAN
  BY Zenon DEF LogInit
<1>2. LogInit => LogNumbers /\ BufferInv
  BY MemoryAssumption DEF LogInit, LogNumbers, BufferInv
<1>. QED
  BY <1>1, <1>2, LogSplit, Zenon DEF LogIInv

LEMMA LogNextNumbers ==
  LogNumbers /\ BufferInv /\ [LogNext]_logVars => LogNumbers' /\ BufferInv'
<1>. SUFFICES ASSUME LogNumbers, BufferInv, [LogNext]_logVars PROVE LogNumbers' /\ BufferInv'
  OBVIOUS
<1>. USE DEF LogNumbers, BufferInv
<1>1. CASE XcDebug
  BY <1>1 DEF XcDebug
<1>2. CASE FirstBuffer
  BY <1>2, MemoryAssumption DEF FirstBuffer, Gives
<1>3. CASE Format
  <2>1. CASE RoomFor
    BY <1>3, <2>1, LengthsAssumption DEF Format, Gives, RoomFor, Bad
  <2>2. CASE ~RoomFor
    BY <1>3, <2>2 DEF Format
  <2>. QED
    BY <2>1, <2>2
<1>4. CASE Grow
  BY <1>4, MemoryAssumption DEF Grow, Gives
<1>5. CASE UNCHANGED logVars
  BY <1>5 DEF logVars
<1>. QED
  BY <1>1, <1>2, <1>3, <1>4, <1>5 DEF LogNext

LEMMA LogNextIInv == LogIInv /\ [LogNext]_logVars => LogIInv'
<1>. SUFFICES ASSUME LogIInv, [LogNext]_logVars PROVE LogIInv'
  OBVIOUS
<1>1. problem \in BOOLEAN
  BY Zenon DEF LogIInv, LogTypeOK
<1>2. problem' \in BOOLEAN
  BY <1>1, Zenon DEF LogNext, logVars, XcDebug, FirstBuffer, Format, Grow
<1>3. LogNumbers' /\ BufferInv'
  BY LogNextNumbers, LogSplit, Zenon DEF LogIInv
<1>4. LogTypeOK'
  BY <1>2, <1>3, Zenon DEF LogTypeOK, LogNumbers
<1>. QED
  BY <1>3, <1>4 DEF LogIInv

LEMMA LogAlwaysIInv == LogSpec => []LogIInv
  BY LogInitIInv, LogNextIInv, PTL DEF LogSpec

\* The state keeps its type: the buffer never outgrows the memory there is.
THEOREM LogTypeCorrect == LogSpec => []LogTypeOK
<1>1. LogIInv => LogTypeOK
  BY DEF LogIInv
<1>. QED
  BY <1>1, LogAlwaysIInv, PTL

\* msgSize never promises more than the block behind msg, whichever allocation
\* has failed before.
THEOREM NeverOverruns == LogSpec => []SizeIsRoom
<1>1. LogIInv => SizeIsRoom
  BY SMT DEF LogIInv, LogTypeOK, BufferInv, SizeIsRoom
<1>. QED
  BY <1>1, LogAlwaysIInv, PTL

\* No message is cut.
THEOREM AlwaysPrintedWhole == LogSpec => PrintedWhole
<1>1. ASSUME LogIInv, [LogNext]_logVars, step # "idle", step' = "idle"
      PROVE  printed' = len \/ (printed' = Bad /\ problem')
  <2>1. CASE FirstBuffer
    BY <1>1, <2>1 DEF FirstBuffer, Gives
  <2>2. CASE Format
    BY <1>1, <2>2 DEF Format, RoomFor, Gives
  <2>3. CASE Grow
    BY <1>1, <2>3 DEF Grow, Gives
  <2>4. CASE XcDebug \/ UNCHANGED logVars
    BY <1>1, <2>4 DEF XcDebug, logVars
  <2>. QED
    BY <1>1, <2>1, <2>2, <2>3, <2>4 DEF LogNext
<1>2. LogIInv /\ [LogNext]_logVars =>
        [step # "idle" /\ step' = "idle" =>
           printed' = len \/ (printed' = Bad /\ problem')]_logVars
  BY <1>1
<1>. QED
  BY <1>2, LogAlwaysIInv, PTL DEF LogSpec, PrintedWhole

-----------------------------------------------------------------------------
(* SpawnFds.                                                               *)

\* The places of the worker.
Places == {"idle", "pipe in", "pipe out", "cloexec", "spawn piper", "child ends",
          "text", "spawn sink", "hand over"}

\* The ends that are open when the worker is at a place of speak_piper.
OpenAt(place) ==
  CASE place \in {"idle", "pipe in"} -> {}
    [] place = "pipe out" -> {"inR", "inW"}
    [] place \in {"cloexec", "spawn piper", "child ends"} -> Ends
    [] place = "text" -> {"inW", "outR"}
    [] OTHER -> {"outR"}

FdTypeOK ==
  /\ at \in Places
  /\ fds \in [Numbers -> Ends \cup {"file", "free"}]
  /\ no \in [Ends -> Numbers]
  /\ DOMAIN child = {"piper", "sink"}

\* The numbers in inpipe and outpipe are those of the open ends, and no other
\* number is an end.
NumbersInv ==
  /\ \A e \in OpenAt(at) : fds[no[e]] = e
  /\ \A n \in Numbers : fds[n] \in Ends => fds[n] \in OpenAt(at) /\ no[fds[n]] = n
  /\ \A n \in 0 .. 2 : fds[n] = "file"
  /\ at \notin {"idle", "pipe in", "pipe out"} => \A e \in Ends : no[e] > 2

FdIInv == FdTypeOK /\ NumbersInv /\ ClosesItsOwn /\ ChildrenWired

LEMMA LowestFree ==
  ASSUME NEW table, FreeIn(table) # {}
  PROVE  Min(FreeIn(table)) \in FreeIn(table)
<1>1. FreeIn(table) \subseteq Nat
  BY MaxFdAssumption DEF FreeIn, Numbers
<1>. QED
  BY <1>1, MinIsIn

LEMMA TwoOrMore ==
  ASSUME NEW T, Cardinality(T) >= 2, NEW x
  PROVE  T # {x}
<1>1. Cardinality({x}) = 1
  BY FS_Singleton
<1>. QED
  BY <1>1

\* pipe takes two free numbers.
LEMMA PipeTakes ==
  ASSUME NEW r, NEW w, Pipe(r, w)
  PROVE  \E nr, nw \in FreeIn(fds) :
           /\ nr # nw
           /\ fds' = [fds EXCEPT ![nr] = r, ![nw] = w]
           /\ no' = [no EXCEPT ![r] = nr, ![w] = nw]
<1>. DEFINE free == FreeIn(fds)
           nr == Min(free)
           nw == Min(free \ {nr})
<1>1. free \subseteq Nat
  BY MaxFdAssumption DEF FreeIn, Numbers
<1>2. Cardinality(free) >= 2
  BY Zenon DEF Pipe
<1>3. free # {}
  BY <1>2, FS_EmptySet
<1>4. nr \in free
  BY <1>1, <1>3, MinIsIn
<1>5. free # {nr}
  BY <1>2, TwoOrMore, Zenon
<1>6. nw \in free \ {nr}
  <2>1. free \ {nr} # {} /\ free \ {nr} \subseteq Nat
    BY <1>1, <1>4, <1>5
  <2>. QED
    BY <2>1, MinIsIn
<1>7. fds' = [fds EXCEPT ![nr] = r, ![nw] = w] /\ no' = [no EXCEPT ![r] = nr, ![w] = nw]
  BY Zenon DEF Pipe
<1>. QED
  BY <1>4, <1>6, <1>7, Zenon

\* The invariant without what it says of the place of the worker.
Matched(ends) ==
  /\ \A e \in ends : fds[no[e]] = e
  /\ \A n \in Numbers : fds[n] \in Ends => fds[n] \in ends /\ no[fds[n]] = n
  /\ \A n \in 0 .. 2 : fds[n] = "file"

LEMMA PipeKeeps ==
  ASSUME FdTypeOK, NEW ends \in SUBSET Ends, Matched(ends),
         NEW r \in Ends \ ends, NEW w \in Ends \ ends, r # w, Pipe(r, w)
  PROVE  /\ fds' \in [Numbers -> Ends \cup {"file", "free"}]
         /\ no' \in [Ends -> Numbers]
         /\ Matched(ends \cup {r, w})'
<1>1. PICK nr, nw \in FreeIn(fds) :
           /\ nr # nw
           /\ fds' = [fds EXCEPT ![nr] = r, ![nw] = w]
           /\ no' = [no EXCEPT ![r] = nr, ![w] = nw]
  BY PipeTakes
<1>2. nr \in Numbers /\ nw \in Numbers /\ fds[nr] = "free" /\ fds[nw] = "free"
  BY DEF FreeIn
<1>3. 0 .. 2 \subseteq Numbers
  BY MaxFdAssumption DEF Numbers
<1>4. "free" \notin Ends /\ "file" \notin Ends
  BY DEF Ends
<1>. QED
  BY <1>1, <1>2, <1>3, <1>4 DEF FdTypeOK, Matched

LEMMA CloseKeeps ==
  ASSUME FdTypeOK, ClosesItsOwn, NEW ends \in SUBSET Ends, Matched(ends),
         NEW es \in SUBSET ends, CloseEnds(es), no' = no
  PROVE  /\ fds' \in [Numbers -> Ends \cup {"file", "free"}]
         /\ Matched(ends \ es)'
         /\ ClosesItsOwn'
<1>1. fds' = [n \in Numbers |-> IF \E e \in es : no[e] = n THEN "free" ELSE fds[n]]
  BY Zenon DEF CloseEnds
<1>2. \A e \in es : fds[no[e]] = e
  BY Zenon DEF Matched
<1>3. 0 .. 2 \subseteq Numbers
  BY MaxFdAssumption DEF Numbers
<1>4. "free" \notin Ends /\ "file" \notin Ends
  BY DEF Ends
<1>5. ClosesItsOwn'
  BY <1>2, Zenon DEF CloseEnds, ClosesItsOwn
<1>6. fds' \in [Numbers -> Ends \cup {"file", "free"}]
  BY <1>1 DEF FdTypeOK
<1>7. Matched(ends \ es)'
  BY <1>1, <1>2, <1>3, <1>4 DEF FdTypeOK, Matched
<1>. QED
  BY <1>5, <1>6, <1>7

\* NumbersInv is Matched, and what is known of all four numbers.
LEMMA NumbersSplit ==
  NumbersInv <=>
    /\ Matched(OpenAt(at))
    /\ at \notin {"idle", "pipe in", "pipe out"} => \A e \in Ends : no[e] > 2
  BY Zenon DEF NumbersInv, Matched

\* When all four are open, none of them is a standard stream.
LEMMA AllAbove ==
  ASSUME no \in [Ends -> Numbers], Matched(Ends)
  PROVE  \A e \in Ends : no[e] > 2
<1>1. \A e \in Ends : no[e] \in Numbers /\ fds[no[e]] = e
  BY DEF Matched
<1>2. \A n \in 0 .. 2 : fds[n] \notin Ends
  BY DEF Matched, Ends
<1>. QED
  BY <1>1, <1>2 DEF Numbers

LEMMA AllAboveNext ==
  ASSUME no' \in [Ends -> Numbers], Matched(Ends)'
  PROVE  \A e \in Ends : no'[e] > 2
<1>1. \A e \in Ends : no'[e] \in Numbers /\ fds'[no'[e]] = e
  BY DEF Matched
<1>2. \A n \in 0 .. 2 : fds'[n] \notin Ends
  BY DEF Matched, Ends
<1>. QED
  BY <1>1, <1>2 DEF Numbers

LEMMA OpenAtEnds == \A place : OpenAt(place) \subseteq Ends
  BY DEF OpenAt, Ends

LEMMA OpenAtPlaces ==
  /\ OpenAt("idle") = {} /\ OpenAt("pipe in") = {}
  /\ OpenAt("pipe out") = {"inR", "inW"}
  /\ OpenAt("cloexec") = Ends /\ OpenAt("spawn piper") = Ends /\ OpenAt("child ends") = Ends
  /\ OpenAt("text") = {"inW", "outR"}
  /\ OpenAt("spawn sink") = {"outR"} /\ OpenAt("hand over") = {"outR"}
  BY DEF OpenAt

\* What posix_spawnp makes of the numbers of the host.
LEMMA PiperWired ==
  ASSUME FdTypeOK, Matched(Ends), \A e \in Ends : no[e] > 2
  PROVE  LET table == Wired("inR", "outW")
         IN table[0] = "inR" /\ table[1] = "outW" /\ EndsIn(table) = {0, 1}
<1>. DEFINE table == Wired("inR", "outW")
            dup == [[fds EXCEPT ![0] = "inR"] EXCEPT ![1] = "outW"]
<1>1. 0 \in Numbers /\ 1 \in Numbers
  BY MaxFdAssumption DEF Numbers
<1>2. fds[no["inR"]] = "inR" /\ fds[no["outW"]] = "outW" /\ no["outW"] # 0
  BY DEF Matched, Ends
<1>3. \A e \in Ends : no[e] # 0 /\ no[e] # 1
  BY DEF FdTypeOK, Numbers
<1>4. table = [n \in Numbers |->
                 IF (\E e \in Ends : no[e] = n) \/ n \in cloexec \ {0, 1}
                 THEN "free" ELSE dup[n]]
  BY <1>1, <1>2 DEF Wired, FdTypeOK
<1>5. table[0] = "inR" /\ table[1] = "outW"
  BY <1>1, <1>3, <1>4 DEF FdTypeOK
<1>6. ASSUME NEW n \in Numbers \ {0, 1}
      PROVE  table[n] \notin Ends
  <2>1. CASE fds[n] \in Ends
    <3>1. \E e \in Ends : no[e] = n
      BY <2>1 DEF Matched
    <3>. QED
      BY <1>4, <3>1 DEF Ends
  <2>2. CASE fds[n] \notin Ends
    BY <1>4, <2>2 DEF FdTypeOK, Ends
  <2>. QED
    BY <2>1, <2>2
<1>7. EndsIn(table) = {0, 1}
  BY <1>1, <1>5, <1>6 DEF EndsIn, Ends
<1>. QED
  BY <1>5, <1>7

LEMMA SinkWired ==
  ASSUME FdTypeOK, Matched({"outR"}), \A e \in Ends : no[e] > 2
  PROVE  LET table == Wired("outR", "none")
         IN table[0] = "outR" /\ EndsIn(table) = {0}
<1>. DEFINE table == Wired("outR", "none")
            dup == [fds EXCEPT ![0] = "outR"]
<1>1. 0 \in Numbers
  BY MaxFdAssumption DEF Numbers
<1>2. fds[no["outR"]] = "outR"
  BY DEF Matched
<1>3. \A e \in Ends : no[e] # 0
  BY DEF FdTypeOK, Numbers
<1>4. table = [n \in Numbers |->
                 IF (\E e \in Ends : no[e] = n) \/ n \in cloexec \ {0}
                 THEN "free" ELSE dup[n]]
  BY <1>1, <1>2 DEF Wired, FdTypeOK
<1>5. table[0] = "outR"
  BY <1>1, <1>3, <1>4 DEF FdTypeOK
<1>6. ASSUME NEW n \in Numbers \ {0}
      PROVE  table[n] \notin Ends
  <2>1. CASE fds[n] \in Ends
    <3>1. \E e \in Ends : no[e] = n
      BY <2>1 DEF Matched, Ends
    <3>. QED
      BY <1>4, <3>1 DEF Ends
  <2>2. CASE fds[n] \notin Ends
    BY <1>4, <2>2 DEF FdTypeOK, Ends
  <2>. QED
    BY <2>1, <2>2
<1>7. EndsIn(table) = {0}
  BY <1>1, <1>5, <1>6 DEF EndsIn, Ends
<1>. QED
  BY <1>5, <1>7

LEMMA FdInitIInv == FdInit => FdIInv
<1>. SUFFICES ASSUME FdInit PROVE FdIInv
  OBVIOUS
<1>1. FdTypeOK
  BY MaxFdAssumption DEF FdInit, FdTypeOK, Places, Numbers, Ends
<1>2. OpenAt(at) = {} /\ at = "idle"
  BY OpenAtPlaces, Zenon DEF FdInit
<1>3. \A n \in Numbers : fds[n] \notin Ends
  BY DEF FdInit, Ends
<1>4. \A n \in 0 .. 2 : fds[n] = "file"
  BY MaxFdAssumption DEF FdInit, Numbers
<1>5. NumbersInv
  BY <1>2, <1>3, <1>4, Zenon DEF NumbersInv
<1>6. ClosesItsOwn /\ ChildrenWired
  BY DEF FdInit, ClosesItsOwn, ChildrenWired
<1>. QED
  BY <1>1, <1>5, <1>6 DEF FdIInv

\* The places before the pipes are both there.
Early == {"idle", "pipe in", "pipe out"}

\* The invariant at a place where certain ends are open.
Holds(place, ends) ==
  /\ at = place
  /\ fds \in [Numbers -> Ends \cup {"file", "free"}]
  /\ no \in [Ends -> Numbers]
  /\ DOMAIN child = {"piper", "sink"}
  /\ Matched(ends)
  /\ place \in Early \/ \A e \in Ends : no[e] > 2
  /\ ClosesItsOwn /\ ChildrenWired

LEMMA HoldsBefore ==
  ASSUME FdIInv, NEW place, at = place
  PROVE  Holds(place, OpenAt(place)) /\ FdTypeOK
  BY NumbersSplit, Zenon DEF FdIInv, FdTypeOK, Holds, Early

LEMMA HoldsAfter ==
  ASSUME NEW place \in Places, NEW ends, OpenAt(place) = ends, Holds(place, ends)'
  PROVE  FdIInv'
<1>1. FdTypeOK'
  BY Zenon DEF Holds, FdTypeOK
<1>2. at' = place /\ Matched(ends)' /\ (place \in Early \/ \A e \in Ends : no'[e] > 2)
  BY Zenon DEF Holds
<1>3. OpenAt(at') = ends
  BY <1>2, Zenon
<1>4. NumbersInv'
  BY <1>2, <1>3, Zenon DEF NumbersInv, Matched, Early
<1>. QED
  BY <1>1, <1>4, Zenon DEF Holds, FdIInv

LEMMA Kept ==
  ASSUME NEW ends, Matched(ends), UNCHANGED <<fds, no>>
  PROVE  Matched(ends)'
  BY Zenon DEF Matched

LEMMA ChildKept ==
  ASSUME ChildrenWired, UNCHANGED child
  PROVE  ChildrenWired'
  BY Zenon DEF ChildrenWired

LEMMA FdNextIInv == FdIInv /\ [FdNext]_fdVars => FdIInv'
<1>. SUFFICES ASSUME FdIInv, [FdNext]_fdVars PROVE FdIInv'
  OBVIOUS
<1>. USE DEF Goto
<1>1. CASE SpeakPiper
  <2>1. Holds("idle", {})
    BY <1>1, HoldsBefore, OpenAtPlaces, Zenon DEF SpeakPiper
  <2>2. Matched({})' /\ ClosesItsOwn'
    BY <1>1, <2>1, Kept, Zenon DEF SpeakPiper, Holds, ClosesItsOwn
  <2>3. ChildrenWired' /\ DOMAIN child' = {"piper", "sink"}
    BY <1>1 DEF SpeakPiper, ChildrenWired
  <2>4. Holds("pipe in", {})'
    BY <1>1, <2>1, <2>2, <2>3, Zenon DEF SpeakPiper, Holds, Early
  <2>. QED
    BY <2>4, HoldsAfter, OpenAtPlaces, Zenon DEF Places
<1>2. CASE PipeIn
  <2>1. Holds("pipe in", {}) /\ FdTypeOK
    BY <1>2, HoldsBefore, OpenAtPlaces, Zenon DEF PipeIn
  <2>2. ClosesItsOwn' /\ ChildrenWired' /\ child' = child
    BY <1>2, <2>1, ChildKept, Zenon DEF PipeIn, Holds, ClosesItsOwn
  <2>3. CASE Goto("pipe in", "pipe out") /\ Pipe("inR", "inW")
    <3>1. /\ fds' \in [Numbers -> Ends \cup {"file", "free"}]
          /\ no' \in [Ends -> Numbers]
          /\ Matched({} \cup {"inR", "inW"})'
      BY <2>1, <2>3, PipeKeeps DEF Ends, Holds
    <3>2. Holds("pipe out", {"inR", "inW"})'
      BY <2>1, <2>2, <2>3, <3>1 DEF Holds, Early
    <3>. QED
      BY <3>2, HoldsAfter, OpenAtPlaces, Zenon DEF Places
  <2>4. CASE Goto("pipe in", "idle") /\ UNCHANGED <<fds, cloexec, no>>
    <3>1. Holds("idle", {})'
      BY <2>1, <2>2, <2>4, Kept, Zenon DEF Holds, Early
    <3>. QED
      BY <3>1, HoldsAfter, OpenAtPlaces, Zenon DEF Places
  <2>. QED
    BY <1>2, <2>3, <2>4 DEF PipeIn
<1>3. CASE PipeOut
  <2>1. Holds("pipe out", {"inR", "inW"}) /\ FdTypeOK
    BY <1>3, HoldsBefore, OpenAtPlaces, Zenon DEF PipeOut
  <2>2. ChildrenWired' /\ child' = child
    BY <1>3, <2>1, ChildKept, Zenon DEF PipeOut, Holds
  <2>3. CASE Goto("pipe out", "cloexec") /\ Pipe("outR", "outW") /\ UNCHANGED strayed
    <3>1. /\ fds' \in [Numbers -> Ends \cup {"file", "free"}]
          /\ no' \in [Ends -> Numbers]
          /\ Matched({"inR", "inW"} \cup {"outR", "outW"})'
      BY <2>1, <2>3, PipeKeeps DEF Ends, Holds
    <3>2. Matched(Ends)' /\ at' = "cloexec"
      BY <2>3, <3>1 DEF Ends
    <3>3. \A e \in Ends : no'[e] > 2
      BY <3>1, <3>2, AllAboveNext, Zenon
    <3>4. Holds("cloexec", Ends)'
      BY <2>1, <2>2, <2>3, <3>1, <3>2, <3>3, Zenon DEF Holds, ClosesItsOwn
    <3>. QED
      BY <3>4, HoldsAfter, OpenAtPlaces, Zenon DEF Places
  <2>4. CASE Goto("pipe out", "idle") /\ CloseEnds({"inR", "inW"}) /\ UNCHANGED no
    <3>1. /\ fds' \in [Numbers -> Ends \cup {"file", "free"}]
          /\ Matched({"inR", "inW"} \ {"inR", "inW"})'
          /\ ClosesItsOwn'
      BY <2>1, <2>4, CloseKeeps DEF Ends, Holds
    <3>2. {"inR", "inW"} \ {"inR", "inW"} = {}
      OBVIOUS
    <3>3. Holds("idle", {})'
      BY <2>1, <2>2, <2>4, <3>1, <3>2, Zenon DEF Holds, Early
    <3>. QED
      BY <3>3, HoldsAfter, OpenAtPlaces, Zenon DEF Places
  <2>. QED
    BY <1>3, <2>3, <2>4 DEF PipeOut
<1>4. CASE SetCloexec
  <2>1. Holds("cloexec", Ends) /\ FdTypeOK
    BY <1>4, HoldsBefore, OpenAtPlaces, Zenon DEF SetCloexec
  <2>2. Holds("spawn piper", Ends)'
    <3>1. \A e \in Ends : no[e] > 2
      BY <2>1, AllAbove, Zenon DEF Holds
    <3>. QED
      BY <1>4, <2>1, <3>1, Kept, ChildKept, Zenon DEF SetCloexec, Holds, ClosesItsOwn
  <2>. QED
    BY <2>2, HoldsAfter, OpenAtPlaces, Zenon DEF Places
<1>5. CASE SpawnPiper
  <2>1. Holds("spawn piper", Ends) /\ FdTypeOK
    BY <1>5, HoldsBefore, OpenAtPlaces, Zenon DEF SpawnPiper
  <2>2. \A e \in Ends : no[e] > 2
    BY <2>1, AllAbove, Zenon DEF Holds
  <2>3. CASE /\ Goto("spawn piper", "child ends")
             /\ child' = [child EXCEPT !["piper"] = Wired("inR", "outW")]
             /\ UNCHANGED <<fds, cloexec, strayed>>
    <3>1. LET table == Wired("inR", "outW")
          IN table[0] = "inR" /\ table[1] = "outW" /\ EndsIn(table) = {0, 1}
      BY <2>1, <2>2, PiperWired, Zenon DEF Holds
    <3>2. DOMAIN child' = {"piper", "sink"} /\ child'["sink"] = child["sink"]
          /\ child'["piper"] = Wired("inR", "outW")
      BY <2>1, <2>3 DEF Holds
    <3>3. ChildrenWired'
      BY <2>1, <3>1, <3>2, Zenon DEF Holds, ChildrenWired, None, EndsIn
    <3>4. Holds("child ends", Ends)'
      BY <1>5, <2>1, <2>2, <2>3, <3>2, <3>3, Kept, Zenon DEF SpawnPiper, Holds,
         ClosesItsOwn
    <3>. QED
      BY <3>4, HoldsAfter, OpenAtPlaces, Zenon DEF Places
  <2>4. CASE Goto("spawn piper", "idle") /\ CloseEnds(Ends) /\ UNCHANGED child
    <3>1. /\ fds' \in [Numbers -> Ends \cup {"file", "free"}]
          /\ Matched(Ends \ Ends)'
          /\ ClosesItsOwn'
      BY <1>5, <2>1, <2>4, CloseKeeps DEF SpawnPiper, Holds
    <3>2. Ends \ Ends = {}
      OBVIOUS
    <3>3. Holds("idle", {})'
      BY <1>5, <2>1, <2>4, <3>1, <3>2, ChildKept, Zenon DEF SpawnPiper, Holds, Early
    <3>. QED
      BY <3>3, HoldsAfter, OpenAtPlaces, Zenon DEF Places
  <2>. QED
    BY <1>5, <2>3, <2>4 DEF SpawnPiper
<1>6. CASE CloseChildEnds
  <2>1. Holds("child ends", Ends) /\ FdTypeOK
    BY <1>6, HoldsBefore, OpenAtPlaces, Zenon DEF CloseChildEnds
  <2>2. /\ fds' \in [Numbers -> Ends \cup {"file", "free"}]
        /\ Matched(Ends \ {"inR", "outW"})'
        /\ ClosesItsOwn'
    BY <1>6, <2>1, CloseKeeps, ZenonT(40) DEF CloseChildEnds, Ends, Holds
  <2>3. Ends \ {"inR", "outW"} = {"inW", "outR"}
    BY DEF Ends
  <2>4. ASSUME at' = "text" PROVE FdIInv'
    <3>1. Holds("text", {"inW", "outR"})'
      BY <1>6, <2>1, <2>2, <2>3, <2>4, ChildKept, AllAbove, Zenon DEF CloseChildEnds,
         Holds, Early
    <3>. QED
      BY <3>1, HoldsAfter, OpenAtPlaces, Zenon DEF Places
  <2>. QED
    BY <1>6, <2>4, Zenon DEF CloseChildEnds
<1>7. CASE CloseText
  <2>1. Holds("text", {"inW", "outR"}) /\ FdTypeOK
    BY <1>7, HoldsBefore, OpenAtPlaces, Zenon DEF CloseText
  <2>2. /\ fds' \in [Numbers -> Ends \cup {"file", "free"}]
        /\ Matched({"inW", "outR"} \ {"inW"})'
        /\ ClosesItsOwn'
    <3>1. CloseEnds({"inW"}) /\ no' = no
      BY <1>7, Zenon DEF CloseText
    <3>2. {"inW", "outR"} \in SUBSET Ends /\ {"inW"} \in SUBSET {"inW", "outR"}
      BY DEF Ends
    <3>. QED
      BY <2>1, <3>1, <3>2, CloseKeeps, Zenon DEF Holds
  <2>3. {"inW", "outR"} \ {"inW"} = {"outR"}
    BY DEF Ends
  <2>4. ASSUME at' = "spawn sink" PROVE FdIInv'
    <3>1. Holds("spawn sink", {"outR"})'
      BY <1>7, <2>1, <2>2, <2>3, <2>4, ChildKept, AllAbove, Zenon DEF CloseText, Holds,
         Early
    <3>. QED
      BY <3>1, HoldsAfter, OpenAtPlaces, Zenon DEF Places
  <2>5. ASSUME at' = "hand over" PROVE FdIInv'
    <3>1. Holds("hand over", {"outR"})'
      BY <1>7, <2>1, <2>2, <2>3, <2>5, ChildKept, AllAbove, Zenon DEF CloseText, Holds,
         Early
    <3>. QED
      BY <3>1, HoldsAfter, OpenAtPlaces, Zenon DEF Places
  <2>. QED
    BY <1>7, <2>4, <2>5, Zenon DEF CloseText
<1>8. CASE SpawnSink
  <2>1. Holds("spawn sink", {"outR"}) /\ FdTypeOK
    BY <1>8, HoldsBefore, OpenAtPlaces, Zenon DEF SpawnSink
  <2>2. \A e \in Ends : no[e] > 2
    BY <2>1 DEF Holds, Early
  <2>3. CASE /\ Goto("spawn sink", "hand over")
             /\ child' = [child EXCEPT !["sink"] = Wired("outR", "none")]
             /\ UNCHANGED <<fds, cloexec, strayed>>
    <3>1. LET table == Wired("outR", "none")
          IN table[0] = "outR" /\ EndsIn(table) = {0}
      BY <2>1, <2>2, SinkWired, Zenon DEF Holds
    <3>2. DOMAIN child' = {"piper", "sink"} /\ child'["piper"] = child["piper"]
          /\ child'["sink"] = Wired("outR", "none")
      BY <2>1, <2>3 DEF Holds
    <3>3. ChildrenWired'
      BY <2>1, <3>1, <3>2, Zenon DEF Holds, ChildrenWired, None, EndsIn
    <3>4. Holds("hand over", {"outR"})'
      BY <1>8, <2>1, <2>2, <2>3, <3>2, <3>3, Kept, Zenon DEF SpawnSink, Holds,
         ClosesItsOwn
    <3>. QED
      BY <3>4, HoldsAfter, OpenAtPlaces, Zenon DEF Places
  <2>4. CASE Goto("spawn sink", "idle") /\ CloseEnds({"outR"}) /\ UNCHANGED child
    <3>1. /\ fds' \in [Numbers -> Ends \cup {"file", "free"}]
          /\ Matched({"outR"} \ {"outR"})'
          /\ ClosesItsOwn'
      BY <1>8, <2>1, <2>4, CloseKeeps DEF SpawnSink, Ends, Holds
    <3>2. {"outR"} \ {"outR"} = {}
      OBVIOUS
    <3>3. Holds("idle", {})'
      BY <1>8, <2>1, <2>4, <3>1, <3>2, ChildKept, Zenon DEF SpawnSink, Holds, Early
    <3>. QED
      BY <3>3, HoldsAfter, OpenAtPlaces, Zenon DEF Places
  <2>. QED
    BY <1>8, <2>3, <2>4 DEF SpawnSink
<1>9. CASE HandOver
  <2>1. Holds("hand over", {"outR"}) /\ FdTypeOK
    BY <1>9, HoldsBefore, OpenAtPlaces, Zenon DEF HandOver
  <2>2. /\ fds' \in [Numbers -> Ends \cup {"file", "free"}]
        /\ Matched({"outR"} \ {"outR"})'
        /\ ClosesItsOwn'
    BY <1>9, <2>1, CloseKeeps DEF HandOver, Ends, Holds
  <2>3. {"outR"} \ {"outR"} = {}
    BY DEF Ends
  <2>4. ASSUME at' = "idle" PROVE FdIInv'
    <3>1. Holds("idle", {})'
      BY <1>9, <2>1, <2>2, <2>3, <2>4, ChildKept, AllAbove, Zenon DEF HandOver, Holds,
         Early
    <3>. QED
      BY <3>1, HoldsAfter, OpenAtPlaces, Zenon DEF Places
  <2>. QED
    BY <1>9, <2>4, Zenon DEF HandOver
<1>10. CASE OpenFile
  <2>1. PICK place, ends : place \in Places /\ Holds(place, ends) /\ ends = OpenAt(place)
    BY HoldsBefore, Zenon DEF FdTypeOK
  <2>2. PICK n \in FreeIn(fds) : fds' = [fds EXCEPT ![n] = "file"]
    BY <1>10, LowestFree DEF OpenFile
  <2>3. fds[n] = "free" /\ n \in Numbers
    BY DEF FreeIn
  <2>4. Matched(ends)'
    <3>1. Matched(ends) /\ no' = no /\ fds \in [Numbers -> Ends \cup {"file", "free"}]
          /\ no \in [Ends -> Numbers]
      BY <1>10, <2>1, Zenon DEF OpenFile, Holds
    <3>2. ends \subseteq Ends /\ "file" \notin Ends /\ "free" \notin Ends
      BY <2>1, OpenAtEnds DEF Ends
    <3>3. \A m \in Numbers \ {n} : fds'[m] = fds[m]
      BY <2>2, <3>1
    <3>4. fds'[n] \notin Ends /\ fds[n] \notin Ends
      BY <2>2, <2>3, <3>1, <3>2
    <3>5. \A m \in 0 .. 2 : fds'[m] = "file"
      BY <2>2, <2>3, <3>1, MaxFdAssumption DEF Matched, Numbers
    <3>6. \A e \in ends : no[e] \in Numbers \ {n} /\ fds[no[e]] = e
      BY <3>1, <3>2, <3>4 DEF Matched
    <3>7. \A e \in ends : fds'[no'[e]] = e
      BY <3>1, <3>3, <3>6
    <3>8. \A m \in Numbers : fds'[m] \in Ends => fds'[m] \in ends /\ no'[fds'[m]] = m
      BY <3>1, <3>3, <3>4 DEF Matched
    <3>. QED
      BY <3>5, <3>7, <3>8, Zenon DEF Matched
  <2>5. fds' \in [Numbers -> Ends \cup {"file", "free"}]
    BY <2>1, <2>2 DEF Holds
  <2>. QED
    BY <1>10, <2>1, <2>4, <2>5, ChildKept, HoldsAfter DEF OpenFile, Holds, ClosesItsOwn
<1>11. CASE CloseFile
  <2>1. PICK place, ends : place \in Places /\ Holds(place, ends) /\ ends = OpenAt(place)
    BY HoldsBefore, Zenon DEF FdTypeOK
  <2>2. PICK n \in 3 .. MaxFd : fds[n] = "file" /\ fds' = [fds EXCEPT ![n] = "free"]
    BY <1>11 DEF CloseFile
  <2>3. n \in Numbers /\ n \notin 0 .. 2
    BY MaxFdAssumption DEF Numbers
  <2>4. Matched(ends)'
    <3>1. Matched(ends) /\ no' = no /\ fds \in [Numbers -> Ends \cup {"file", "free"}]
          /\ no \in [Ends -> Numbers]
      BY <1>11, <2>1, Zenon DEF CloseFile, Holds
    <3>2. ends \subseteq Ends /\ "file" \notin Ends /\ "free" \notin Ends
      BY <2>1, OpenAtEnds DEF Ends
    <3>3. \A m \in Numbers \ {n} : fds'[m] = fds[m]
      BY <2>2, <3>1
    <3>4. fds'[n] \notin Ends /\ fds[n] \notin Ends
      BY <2>2, <2>3, <3>1, <3>2
    <3>5. \A m \in 0 .. 2 : fds'[m] = "file"
      BY <2>2, <2>3, <3>1, MaxFdAssumption DEF Matched, Numbers
    <3>6. \A e \in ends : no[e] \in Numbers \ {n} /\ fds[no[e]] = e
      BY <3>1, <3>2, <3>4 DEF Matched
    <3>7. \A e \in ends : fds'[no'[e]] = e
      BY <3>1, <3>3, <3>6
    <3>8. \A m \in Numbers : fds'[m] \in Ends => fds'[m] \in ends /\ no'[fds'[m]] = m
      BY <3>1, <3>3, <3>4 DEF Matched
    <3>. QED
      BY <3>5, <3>7, <3>8, Zenon DEF Matched
  <2>5. fds' \in [Numbers -> Ends \cup {"file", "free"}]
    BY <2>1, <2>2 DEF Holds
  <2>. QED
    BY <1>11, <2>1, <2>4, <2>5, ChildKept, HoldsAfter DEF CloseFile, Holds, ClosesItsOwn
<1>12. CASE UNCHANGED fdVars
  BY <1>12, Zenon DEF fdVars, FdIInv, FdTypeOK, NumbersInv, ClosesItsOwn, ChildrenWired
<1>. QED
  BY <1>1, <1>2, <1>3, <1>4, <1>5, <1>6, <1>7, <1>8, <1>9, <1>10, <1>11, <1>12, Zenon
     DEF FdNext

LEMMA FdAlwaysIInv == FdSpec => []FdIInv
  BY FdInitIInv, FdNextIInv, PTL DEF FdSpec

\* speak_piper never closes a descriptor of the host, for any number of
\* descriptors and whatever the other threads open and close between its calls.
THEOREM ClosesOnlyItsOwn == FdSpec => []ClosesItsOwn
<1>1. FdIInv => ClosesItsOwn
  BY DEF FdIInv
<1>. QED
  BY <1>1, FdAlwaysIInv, PTL

\* Piper and the sink get the ends meant for them at their standard streams, and
\* no other end under any number.
THEOREM AlwaysWired == FdSpec => []ChildrenWired
<1>1. FdIInv => ChildrenWired
  BY DEF FdIInv
<1>. QED
  BY <1>1, FdAlwaysIInv, PTL

-----------------------------------------------------------------------------
(* WavHeader.                                                              *)

\* Where what is being read ends.
ReadEnd ==
  CASE doing = "riff"  -> RiffLen
    [] doing = "chunk" -> Start(cur + 1) + HeadLen
    [] doing = "fmt"   -> Start(cur) + HeadLen + FmtLen
    [] doing = "skip"  -> Start(cur) + HeadLen + wav[cur].size
    [] doing = "pad"   -> Start(cur + 1)

\* The walk is in step with the chunks, and none of those passed ends it.
WalkInv ==
  /\ wav \in Seq(Chunks) /\ cur \in 0 .. Len(wav)
  /\ need \in Nat /\ pos \in Nat /\ pos <= Start(Len(wav) + 1)
  /\ doing \in {"riff", "chunk", "fmt", "skip", "pad", "accepted", "refused"}
  /\ doing = "riff" => cur = 0
  /\ doing \in {"fmt", "skip", "pad"} => cur # 0
  /\ doing = "fmt" => wav[cur].id = "fmt "
  /\ Reading =>
       /\ pos + need = ReadEnd
       /\ \A j \in 1 .. cur : /\ wav[j].id # "data"
                              /\ wav[j].id = "fmt " => wav[j].size >= FmtLen

\* info is the last fmt chunk before chunk n, if there is one.
HasFormat(n) == IF gotFmt THEN fmt \in FormatOf(n) ELSE FormatOf(n) = {}

FormatInv == Reading => HasFormat(IF doing = "fmt" THEN cur ELSE cur + 1)

WavIInv == WalkInv /\ FormatInv /\ AcceptedAtAudio /\ RefusedForCause

\* Start is a recursive function: g is it, on the first n chunks of w.
IsStart(g, w, n) ==
  g = [j \in 1 .. n + 1 |->
         IF j = 1 THEN RiffLen
         ELSE g[j - 1] + HeadLen + w[j - 1].size + Pad(w[j - 1].size)]

LEMMA StartExists ==
  ASSUME NEW w, NEW n \in Nat
  PROVE  \E g : IsStart(g, w, n)
<1>. DEFINE S == {k \in Nat : \E g : IsStart(g, w, k)}
<1>1. 0 \in S
  <2>1. IsStart([j \in 1 .. 1 |-> RiffLen], w, 0)
    BY DEF IsStart
  <2>. QED
    BY <2>1
<1>2. ASSUME NEW k \in Nat, k \in S PROVE k + 1 \in S
  <2>1. PICK g : IsStart(g, w, k)
    BY <1>2
  <2>. DEFINE more == g[k + 1] + HeadLen + w[k + 1].size + Pad(w[k + 1].size)
              h    == [j \in 1 .. (k + 1) + 1 |-> IF j = k + 2 THEN more ELSE g[j]]
  <2>2. \A j \in 1 .. k + 1 :
          g[j] = IF j = 1 THEN RiffLen
                 ELSE g[j - 1] + HeadLen + w[j - 1].size + Pad(w[j - 1].size)
    BY <2>1 DEF IsStart
  <2>3. \A j \in 1 .. (k + 1) + 1 :
          h[j] = IF j = 1 THEN RiffLen
                 ELSE h[j - 1] + HeadLen + w[j - 1].size + Pad(w[j - 1].size)
    BY <2>2
  <2>4. IsStart(h, w, k + 1)
    BY <2>3 DEF IsStart
  <2>. HIDE DEF h
  <2>. QED
    BY <2>4
<1>. HIDE DEF S
<1>3. Nat \subseteq S
  BY <1>1, <1>2, SetInduction
<1>. QED
  BY <1>3 DEF S

\* The chunks lie one behind the other.
LaidOut ==
  /\ Start(1) = RiffLen
  /\ \A k \in 1 .. Len(wav) + 1 : Start(k) \in Nat
  /\ \A k \in 1 .. Len(wav) :
       /\ Start(k + 1) = Start(k) + HeadLen + wav[k].size + Pad(wav[k].size)
       /\ wav[k].size \in Nat /\ Pad(wav[k].size) \in {0, 1}
  /\ \A j, k \in 1 .. Len(wav) + 1 : j < k => Start(j) + HeadLen <= Start(k)

LEMMA Layout == ASSUME wav \in Seq(Chunks) PROVE LaidOut
<1>0. Len(wav) \in Nat
  OBVIOUS
<1>1. PICK f : IsStart(f, wav, Len(wav))
  BY <1>0, StartExists
<1>. DEFINE g == CHOOSE h : IsStart(h, wav, Len(wav))
<1>2. IsStart(g, wav, Len(wav))
  BY <1>1, Zenon
<1>3. \A k : Start(k) = g[k]
  BY DEF Start, IsStart
<1>. HIDE DEF g
<1>4. \A k \in 1 .. Len(wav) + 1 :
        Start(k) = IF k = 1 THEN RiffLen
                   ELSE Start(k - 1) + HeadLen + wav[k - 1].size + Pad(wav[k - 1].size)
  BY <1>0, <1>2, <1>3 DEF IsStart
<1>5. ASSUME NEW k \in 1 .. Len(wav)
      PROVE  wav[k].size \in Nat /\ Pad(wav[k].size) \in {0, 1}
  <2>1. wav[k].size \in Nat
    <3>1. wav[k] \in Chunks
      BY <1>0
    <3>2. wav[k] \in [id : {"fmt ", "data", "LIST"}, size : Nat]
      BY <3>1, ChunksAssumption, Zenon
    <3>. QED
      BY <3>2
  <2>. QED
    BY <2>1 DEF Pad
<1>6. Start(1) = RiffLen
  <2>1. 1 \in 1 .. Len(wav) + 1
    BY <1>0
  <2>. QED
    BY <1>4, <2>1, Zenon
<1>7. ASSUME NEW k \in 1 .. Len(wav)
      PROVE  Start(k + 1) = Start(k) + HeadLen + wav[k].size + Pad(wav[k].size)
  <2>1. k + 1 \in 1 .. Len(wav) + 1 /\ k + 1 # 1 /\ (k + 1) - 1 = k
    BY <1>0
  <2>. QED
    BY <1>4, <2>1
<1>. DEFINE S == {n \in Nat : n \in 1 .. Len(wav) + 1 =>
                    /\ Start(n) \in Nat
                    /\ \A j \in 1 .. n - 1 : Start(j) \in Nat /\ Start(j) + HeadLen <= Start(n)}
<1>8. 0 \in S
  OBVIOUS
<1>9. ASSUME NEW n \in Nat, n \in S PROVE n + 1 \in S
  <2>1. CASE n = 0
    BY <1>6, <2>1 DEF RiffLen
  <2>2. CASE n # 0 /\ n + 1 \in 1 .. Len(wav) + 1
    <3>1. n \in 1 .. Len(wav) /\ n \in 1 .. Len(wav) + 1
      BY <1>0, <2>2
    <3>2. /\ Start(n) \in Nat
          /\ \A j \in 1 .. n - 1 : Start(j) \in Nat /\ Start(j) + HeadLen <= Start(n)
      BY <1>9, <3>1
    <3>3. Start(n + 1) \in Nat /\ Start(n) + HeadLen <= Start(n + 1)
      <4>1. PICK bytes, pad : /\ bytes = wav[n].size /\ pad = Pad(wav[n].size)
                             /\ bytes \in Nat /\ pad \in {0, 1}
        BY <1>5, <3>1
      <4>2. Start(n + 1) = Start(n) + HeadLen + bytes + pad
        BY <1>7, <3>1, <4>1
      <4>. QED
        BY <3>2, <4>1, <4>2, SMTT(30) DEF HeadLen
    <3>4. ASSUME NEW j \in 1 .. (n + 1) - 1
          PROVE  Start(j) \in Nat /\ Start(j) + HeadLen <= Start(n + 1)
      <4>1. CASE j = n
        BY <3>2, <3>3, <4>1
      <4>2. CASE j # n
        <5>1. j \in 1 .. n - 1
          BY <4>2
        <5>2. Start(j) \in Nat /\ Start(j) + HeadLen <= Start(n)
          BY <3>2, <5>1
        <5>. QED
          BY <3>2, <3>3, <5>2 DEF HeadLen
      <4>. QED
        BY <4>1, <4>2
    <3>. QED
      BY <3>3, <3>4
  <2>. QED
    BY <2>1, <2>2
<1>10. Nat \subseteq S
  <2>. HIDE DEF S
  <2>. QED
    BY <1>8, <1>9, SetInduction
<1>11. \A k \in 1 .. Len(wav) + 1 : Start(k) \in Nat
  BY <1>0, <1>10
<1>12. ASSUME NEW j \in 1 .. Len(wav) + 1, NEW k \in 1 .. Len(wav) + 1, j < k
       PROVE  Start(j) + HeadLen <= Start(k)
  BY <1>0, <1>10, <1>12
<1>. QED
  BY <1>5, <1>6, <1>7, <1>11, <1>12 DEF LaidOut

\* The file stays, and with it where its chunks are and what it is.
LEMMA FileStays ==
  ASSUME WavIInv, WavNext \/ UNCHANGED wavVars
  PROVE  /\ wav' = wav /\ LaidOut
         /\ \A k : /\ Start(k)' = Start(k)
                   /\ DataAt(k)' = DataAt(k) /\ FormatOf(k)' = FormatOf(k)
         /\ Playable' = Playable
<1>1. wav' = wav /\ riff' = riff
  BY DEF WavNext, wavVars, Read, EndOfStream, RiffRead, ChunkRead, FmtRead, Skipped, PadSkipped
<1>2. LaidOut
  BY Layout DEF WavIInv, WalkInv
<1>. QED
  BY <1>1, <1>2 DEF Start, DataAt, FormatOf, Playable

LEMMA WalkTypes ==
  ASSUME WavIInv
  PROVE  /\ wav \in Seq(Chunks) /\ Len(wav) \in Nat /\ DOMAIN wav = 1 .. Len(wav)
         /\ cur \in 0 .. Len(wav) /\ pos \in Nat /\ need \in Nat
         /\ doing = "riff" => cur = 0
<1>1. /\ wav \in Seq(Chunks) /\ cur \in 0 .. Len(wav) /\ pos \in Nat /\ need \in Nat
      /\ doing = "riff" => cur = 0
  BY Zenon DEF WavIInv, WalkInv
<1>2. Len(wav) \in Nat /\ DOMAIN wav = 1 .. Len(wav)
  BY <1>1
<1>. QED
  BY <1>1, <1>2

\* No read goes past the end of the next chunk header.
LEMMA ReadAhead ==
  ASSUME WavIInv, LaidOut, Reading
  PROVE  pos + need <= Start(cur + 1) + HeadLen
<1>0. Len(wav) \in Nat /\ cur \in 0 .. Len(wav) /\ pos \in Nat /\ need \in Nat
  BY WalkTypes
<1>1. cur + 1 \in 1 .. Len(wav) + 1 /\ Start(cur + 1) \in Nat /\ Start(1) = RiffLen
  BY <1>0 DEF LaidOut
<1>2. ASSUME cur # 0
      PROVE  /\ Start(cur + 1) = Start(cur) + HeadLen + wav[cur].size + Pad(wav[cur].size)
             /\ wav[cur].size \in Nat /\ Pad(wav[cur].size) \in {0, 1} /\ Start(cur) \in Nat
             /\ wav[cur].id = "fmt " => wav[cur].size >= FmtLen
  <2>1. cur \in 1 .. Len(wav) /\ cur \in 1 .. cur /\ cur \in 1 .. Len(wav) + 1
    BY <1>0, <1>2
  <2>. QED
    BY <2>1 DEF WavIInv, WalkInv, LaidOut
<1>3. pos + need = ReadEnd
  BY DEF WavIInv, WalkInv
<1>4. CASE doing = "riff"
  <2>1. cur + 1 = 1
    BY <1>4, WalkTypes
  <2>2. ReadEnd = RiffLen
    BY <1>4 DEF ReadEnd
  <2>. QED
    BY <1>1, <1>3, <2>1, <2>2 DEF HeadLen, RiffLen
<1>5. CASE doing = "chunk"
  <2>1. ReadEnd = Start(cur + 1) + HeadLen
    BY <1>5 DEF ReadEnd
  <2>. QED
    BY <1>1, <1>3, <2>1 DEF HeadLen
<1>6. CASE doing \in {"fmt", "skip", "pad"}
  <2>1. cur # 0 /\ (doing = "fmt" => wav[cur].id = "fmt ")
    BY <1>6 DEF WavIInv, WalkInv
  <2>2. PICK bytes, pad, start :
          bytes = wav[cur].size /\ pad = Pad(wav[cur].size) /\ start = Start(cur)
    OBVIOUS
  <2>3. /\ Start(cur + 1) = start + HeadLen + bytes + pad
        /\ bytes \in Nat /\ pad \in {0, 1} /\ start \in Nat
        /\ doing = "fmt" => bytes >= FmtLen
    BY <1>2, <2>1, <2>2
  <2>4. \/ pos + need = start + HeadLen + FmtLen /\ bytes >= FmtLen
        \/ pos + need = start + HeadLen + bytes
        \/ pos + need = start + HeadLen + bytes + pad
    BY <1>3, <1>6, <2>2, <2>3 DEF ReadEnd
  <2>. QED
    BY <2>3, <2>4 DEF HeadLen, FmtLen
<1>. QED
  BY <1>4, <1>5, <1>6 DEF Reading, WavIInv, WalkInv

\* A chunk header that was read whole is that of the next chunk.
LEMMA NextHeader ==
  ASSUME WavIInv, LaidOut, doing = "chunk", need = 0
  PROVE  cur + 1 \in 1 .. Len(wav) /\ pos = Start(cur + 1) + HeadLen /\ ChunkBefore(pos) = cur + 1
<1>1. Len(wav) \in Nat /\ cur \in 0 .. Len(wav) /\ pos \in Nat
  BY WalkTypes
<1>2. pos = Start(cur + 1) + HeadLen
  <2>1. pos + need = ReadEnd
    BY DEF WavIInv, WalkInv, Reading
  <2>2. ReadEnd = Start(cur + 1) + HeadLen
    BY DEF ReadEnd
  <2>. QED
    BY <1>1, <2>1, <2>2
<1>3. pos <= Start(Len(wav) + 1)
  BY DEF WavIInv, WalkInv
<1>4. cur + 1 \in 1 .. Len(wav)
  <2>1. Start(Len(wav) + 1) \in Nat
    BY <1>1 DEF LaidOut
  <2>. QED
    BY <1>1, <1>2, <1>3, <2>1 DEF HeadLen
<1>5. ASSUME NEW k \in DOMAIN wav, Start(k) + HeadLen = pos PROVE k = cur + 1
  <2>1. /\ k \in 1 .. Len(wav) + 1 /\ cur + 1 \in 1 .. Len(wav) + 1
        /\ Start(k) \in Nat /\ Start(cur + 1) \in Nat
    BY <1>1, <1>4, WalkTypes DEF LaidOut
  <2>2. ~(k < cur + 1) /\ ~(cur + 1 < k)
    BY <1>2, <1>5, <2>1 DEF LaidOut, HeadLen
  <2>. QED
    BY <2>1, <2>2
<1>6. cur + 1 \in DOMAIN wav
  BY <1>4, WalkTypes
<1>. QED
  BY <1>2, <1>4, <1>5, <1>6 DEF ChunkBefore

LEMMA WavInitIInv == WavInit => WavIInv
<1>. SUFFICES ASSUME WavInit PROVE WavIInv
  OBVIOUS
<1>1. wav \in Seq(Chunks)
  BY MaxChunksAssumption DEF WavInit
<1>2. LaidOut /\ Len(wav) \in Nat
  BY <1>1, Layout
<1>3. RiffLen <= Start(Len(wav) + 1)
  <2>1. Start(1) = RiffLen /\ 1 \in 1 .. Len(wav) + 1 /\ Len(wav) + 1 \in 1 .. Len(wav) + 1
    BY <1>2 DEF LaidOut
  <2>2. Start(Len(wav) + 1) \in Nat
    BY <1>2, <2>1 DEF LaidOut
  <2>3. Len(wav) + 1 = 1 \/ Start(1) + HeadLen <= Start(Len(wav) + 1)
    BY <1>2, <2>1 DEF LaidOut
  <2>. QED
    BY <2>1, <2>2, <2>3 DEF HeadLen, RiffLen
<1>4. WalkInv
  <2>1. /\ need = 12 /\ pos = 0 /\ doing = "riff" /\ cur = 0
    BY DEF WavInit, RiffLen
  <2>2. ReadEnd = 12
    BY <2>1 DEF ReadEnd, RiffLen
  <2>3. cur \in 0 .. Len(wav) /\ 1 .. cur = {} /\ pos + need = ReadEnd
    BY <1>2, <2>1, <2>2
  <2>4. pos <= Start(Len(wav) + 1)
    <3>1. Start(Len(wav) + 1) \in Nat
      BY <1>2 DEF LaidOut
    <3>. QED
      BY <2>1, <3>1
  <2>5. need \in Nat /\ pos \in Nat
    BY <2>1
  <2>6. /\ doing \in {"riff", "chunk", "fmt", "skip", "pad", "accepted", "refused"}
        /\ doing \notin {"fmt", "skip", "pad"}
    BY <2>1
  <2>. QED
    BY <1>1, <2>1, <2>3, <2>4, <2>5, <2>6, Zenon DEF WalkInv
<1>5. FormatInv
  BY DEF WavInit, FormatInv, HasFormat, FormatOf
<1>. QED
  BY <1>4, <1>5 DEF WavInit, WavIInv, AcceptedAtAudio, RefusedForCause

\* What a step leaves to show when it goes on reading.
LEMMA WalkGoesOn ==
  ASSUME WavIInv, WavNext, Reading',
         cur' \in 0 .. Len(wav), need' \in Nat, pos' \in Nat, pos' <= Start(Len(wav) + 1),
         doing' # "riff" \/ cur' = 0,
         doing' \in {"fmt", "skip", "pad"} => cur' # 0,
         doing' = "fmt" => wav[cur'].id = "fmt ",
         pos' + need' = ReadEnd',
         \A j \in 1 .. cur' : /\ wav[j].id # "data"
                              /\ wav[j].id = "fmt " => wav[j].size >= FmtLen,
         doing' \in {"riff", "chunk", "fmt", "skip", "pad"},
         FormatInv'
  PROVE  WavIInv'
<1>1. /\ wav' = wav /\ wav \in Seq(Chunks) /\ Start(Len(wav) + 1)' = Start(Len(wav) + 1)
      /\ Start(Len(wav) + 1)' = Start(Len(wav) + 1)
  BY FileStays, WalkTypes
<1>2. WalkInv'
  BY <1>1 DEF WalkInv
<1>3. AcceptedAtAudio' /\ RefusedForCause'
  BY DEF AcceptedAtAudio, RefusedForCause
<1>. QED
  BY <1>2, <1>3 DEF WavIInv

LEMMA ReadKeeps == ASSUME WavIInv, Read PROVE WavIInv'
<1>1. WavNext
  BY DEF WavNext
<1>2. PICK n \in 1 .. need :
        pos + n <= Start(Len(wav) + 1) /\ pos' = pos + n /\ need' = need - n
  BY DEF Read
<1>3. doing' = doing /\ cur' = cur /\ wav' = wav /\ fmt' = fmt /\ gotFmt' = gotFmt
  BY DEF Read
<1>4. pos' + need' = ReadEnd'
  <2>1. pos' + need' = pos + need
    BY <1>2, WalkTypes
  <2>2. ReadEnd' = ReadEnd
    BY <1>1, <1>3, FileStays DEF ReadEnd
  <2>. QED
    BY <2>1, <2>2 DEF WavIInv, WalkInv, Read
<1>5. FormatInv'
  <2>1. \A k : FormatOf(k)' = FormatOf(k)
    BY <1>1, FileStays
  <2>. QED
    BY <1>3, <2>1 DEF WavIInv, FormatInv, HasFormat, Reading
<1>6. need' \in Nat /\ pos' \in Nat /\ pos' <= Start(Len(wav) + 1)
  BY <1>2, WalkTypes
<1>7. Reading /\ Reading'
  BY <1>3 DEF Read, Reading
<1>. QED
  BY <1>1, <1>3, <1>4, <1>5, <1>6, <1>7, WalkGoesOn DEF WavIInv, WalkInv, Reading

\* What a step leaves to show when it ends the walk.
LEMMA WalkEnds ==
  ASSUME WavIInv, WavNext, doing' \in {"accepted", "refused"},
         cur' \in 0 .. Len(wav), need' \in Nat, pos' = pos,
         AcceptedAtAudio', RefusedForCause'
  PROVE  WavIInv'
<1>1. /\ wav' = wav /\ wav \in Seq(Chunks) /\ Start(Len(wav) + 1)' = Start(Len(wav) + 1)
      /\ pos \in Nat /\ pos <= Start(Len(wav) + 1)
  BY FileStays, WalkTypes DEF WavIInv, WalkInv
<1>2. WalkInv'
  BY <1>1 DEF WalkInv, Reading
<1>3. FormatInv'
  BY DEF FormatInv, Reading
<1>. QED
  BY <1>2, <1>3 DEF WavIInv

\* The walk, as numbers: where the chunk read last begins, and what it holds.
LEMMA CurrentChunk ==
  ASSUME WavIInv, doing \in {"fmt", "skip", "pad"}, need = 0
  PROVE  /\ cur \in 1 .. Len(wav) /\ wav[cur].id # "data" /\ pos = ReadEnd
         /\ wav[cur].id = "fmt " => wav[cur].size >= FmtLen
         /\ \E start, bytes \in Nat, pad \in {0, 1} :
              /\ start = Start(cur) /\ bytes = wav[cur].size /\ pad = Pad(wav[cur].size)
              /\ Start(cur + 1) = start + HeadLen + bytes + pad
<1>1. Len(wav) \in Nat /\ cur \in 0 .. Len(wav) /\ pos \in Nat
  BY WalkTypes
<1>2. LaidOut
  BY Layout DEF WavIInv, WalkInv
<1>3. cur # 0 /\ Reading
  BY DEF WavIInv, WalkInv, Reading
<1>4. cur \in 1 .. Len(wav) /\ cur \in 1 .. cur /\ cur \in 1 .. Len(wav) + 1
  BY <1>1, <1>3
<1>5. /\ wav[cur].id # "data" /\ pos + need = ReadEnd
      /\ wav[cur].id = "fmt " => wav[cur].size >= FmtLen
  BY <1>3, <1>4 DEF WavIInv, WalkInv
<1>6. pos + need = pos
  BY <1>1
<1>7. /\ Start(cur) \in Nat /\ wav[cur].size \in Nat /\ Pad(wav[cur].size) \in {0, 1}
      /\ Start(cur + 1) = Start(cur) + HeadLen + wav[cur].size + Pad(wav[cur].size)
  BY <1>2, <1>4 DEF LaidOut
<1>. QED
  BY <1>4, <1>5, <1>6, <1>7

LEMMA RiffKeeps == ASSUME WavIInv, RiffRead PROVE WavIInv'
<1>1. WavNext
  BY DEF WavNext
<1>2. /\ cur = 0 /\ cur' = cur /\ pos' = pos /\ wav' = wav /\ fmt' = fmt /\ gotFmt' = gotFmt
      /\ cur \in 0 .. Len(wav) /\ Len(wav) \in Nat /\ pos \in Nat /\ doing = "riff" /\ need = 0
      /\ riff' = riff
  BY WalkTypes DEF RiffRead
<1>3. CASE riff
  <2>1. doing' = "chunk" /\ need' = 8 /\ Reading' /\ Reading
    BY <1>3 DEF RiffRead, NextChunk, Then, HeadLen, Reading
  <2>2. pos = 12
    <3>1. ReadEnd = 12 /\ pos + need = ReadEnd
      BY <1>2, <2>1 DEF ReadEnd, RiffLen, WavIInv, WalkInv
    <3>. QED
      BY <1>2, <3>1
  <2>3. ReadEnd' = 20
    <3>1. ReadEnd' = Start(cur + 1)' + HeadLen
      BY <2>1 DEF ReadEnd
    <3>2. cur' + 1 = 1 /\ Start(1)' = Start(1) /\ Start(1) = 12
      BY <1>1, <1>2, FileStays DEF LaidOut, RiffLen
    <3>3. Start(cur + 1)' = 12
      BY <3>2
    <3>. QED
      BY <3>1, <3>3 DEF HeadLen
  <2>4. FormatInv'
    <3>1. \A k : FormatOf(k)' = FormatOf(k)
      BY <1>1, FileStays
    <3>. QED
      BY <1>2, <2>1, <3>1 DEF WavIInv, FormatInv, HasFormat, Reading
  <2>5. need' \in Nat /\ pos' + need' = ReadEnd' /\ 1 .. cur' = {}
    BY <1>2, <2>1, <2>2, <2>3
  <2>6. pos' <= Start(Len(wav) + 1)
    BY <1>2 DEF WavIInv, WalkInv
  <2>. QED
    BY <1>1, <1>2, <2>1, <2>4, <2>5, <2>6, WalkGoesOn
<1>4. CASE ~riff
  <2>1. doing' = "refused" /\ need' = 0
    BY <1>4 DEF RiffRead, Then
  <2>2. AcceptedAtAudio' /\ RefusedForCause'
    BY <1>2, <1>4, <2>1 DEF AcceptedAtAudio, RefusedForCause, Playable
  <2>. QED
    BY <1>1, <1>2, <2>1, <2>2, WalkEnds
<1>. QED
  BY <1>3, <1>4

LEMMA EndKeeps == ASSUME WavIInv, EndOfStream PROVE WavIInv'
<1>1. WavNext /\ LaidOut /\ Reading /\ need # 0
  <2>1. wav \in Seq(Chunks) /\ WavNext /\ Reading /\ need # 0
    BY WalkTypes DEF WavNext, EndOfStream
  <2>. QED
    BY <2>1, Layout
<1>2. /\ cur' = cur /\ pos' = pos /\ need' = need /\ wav' = wav /\ doing' = "refused" /\ ended'
      /\ cur \in 0 .. Len(wav) /\ Len(wav) \in Nat /\ pos \in Nat /\ need \in Nat
      /\ DOMAIN wav = 1 .. Len(wav)
  BY WalkTypes DEF EndOfStream
<1>3. ASSUME NEW k \in DOMAIN wav, DataAt(k) PROVE pos < Start(k) + HeadLen
  <2>1. \A j \in 1 .. cur : wav[j].id # "data"
    BY <1>1 DEF WavIInv, WalkInv
  <2>2. k \in 1 .. Len(wav) + 1 /\ cur + 1 \in 1 .. Len(wav) + 1 /\ cur + 1 <= k
    BY <1>2, <1>3, <2>1 DEF DataAt
  <2>3. Start(k) \in Nat /\ Start(cur + 1) \in Nat /\ Start(cur + 1) <= Start(k)
    BY <1>1, <2>2 DEF LaidOut, HeadLen
  <2>4. pos + need <= Start(cur + 1) + HeadLen
    BY <1>1, ReadAhead
  <2>. QED
    BY <1>1, <1>2, <2>3, <2>4 DEF HeadLen
<1>4. AcceptedAtAudio'
  BY <1>2 DEF AcceptedAtAudio
<1>5. RefusedForCause'
  <2>. SUFFICES ASSUME Playable PROVE \E k \in DOMAIN wav : DataAt(k) /\ pos < Start(k) + HeadLen
    <3>1. /\ Playable' = Playable
          /\ \A k : DataAt(k)' = DataAt(k) /\ Start(k)' = Start(k)
      BY <1>1, FileStays
    <3>. QED
      BY <1>2, <3>1 DEF RefusedForCause
  <2>1. PICK k \in DOMAIN wav : DataAt(k)
    BY DEF Playable
  <2>. QED
    BY <1>3, <2>1
<1>. QED
  BY <1>1, <1>2, <1>4, <1>5, WalkEnds

LEMMA ChunkKeeps == ASSUME WavIInv, ChunkRead PROVE WavIInv'
<1>1. WavNext /\ LaidOut /\ doing = "chunk" /\ need = 0 /\ Reading
  <2>1. wav \in Seq(Chunks) /\ WavNext /\ doing = "chunk" /\ need = 0
    BY WalkTypes DEF WavNext, ChunkRead
  <2>. QED
    BY <2>1, Layout DEF Reading
<1>2. PICK k : k = cur + 1
  OBVIOUS
<1>3. k \in 1 .. Len(wav) /\ pos = Start(k) + HeadLen /\ ChunkBefore(pos) = k
  BY <1>1, <1>2, NextHeader
<1>4. /\ Len(wav) \in Nat /\ DOMAIN wav = 1 .. Len(wav) /\ k \in DOMAIN wav /\ k # 0
      /\ k \in 0 .. Len(wav) /\ pos \in Nat /\ cur \in 0 .. Len(wav) /\ k \in Nat
  BY <1>3, WalkTypes
<1>5. /\ cur' = k /\ pos' = pos /\ wav' = wav /\ fmt' = fmt /\ gotFmt' = gotFmt
      /\ riff' = riff /\ ended' = ended
  BY <1>3 DEF ChunkRead
<1>6. \/ wav[k].id = "fmt " /\ TooShort(wav[k].size) /\ Then("refused", 0)
      \/ wav[k].id = "fmt " /\ ~TooShort(wav[k].size) /\ Then("fmt", FmtLen)
      \/ wav[k].id = "data" /\ DataFound
      \/ wav[k].id = "LIST" /\ Then("skip", wav[k].size)
  BY <1>4, <1>5 DEF ChunkRead
<1>7. \A j \in 1 .. cur : /\ wav[j].id # "data"
                          /\ wav[j].id = "fmt " => wav[j].size >= FmtLen
  BY <1>1 DEF WavIInv, WalkInv
<1>8. Start(k) \in Nat /\ wav[k].size \in Nat /\ pos <= Start(Len(wav) + 1)
  <2>1. k \in 1 .. Len(wav) + 1
    BY <1>3, <1>4
  <2>. QED
    BY <1>1, <1>3, <2>1 DEF LaidOut, WavIInv, WalkInv
<1>9. HasFormat(k)
  BY <1>1, <1>2 DEF WavIInv, FormatInv
<1>10. /\ Playable' = Playable
       /\ \A n : /\ Start(n)' = Start(n) /\ DataAt(n)' = DataAt(n)
                 /\ FormatOf(n)' = FormatOf(n)
  BY <1>1, FileStays
<1>11. \A n : HasFormat(n)' = HasFormat(n)
  BY <1>5, <1>10 DEF HasFormat
<1>12. \A j \in 1 .. k : j \in 1 .. cur \/ j = k
  BY <1>2, <1>4
<1>13. CASE wav[k].id = "fmt " /\ TooShort(wav[k].size) /\ Then("refused", 0)
  <2>1. ~Playable
    <3>. SUFFICES ASSUME Playable PROVE FALSE
      OBVIOUS
    <3>1. PICK n \in DOMAIN wav :
            DataAt(n) /\ \A j \in 1 .. n - 1 : wav[j].id = "fmt " => wav[j].size >= FmtLen
      BY DEF Playable
    <3>2. wav[n].id = "data" /\ n \in 1 .. Len(wav)
      BY <1>4, <3>1 DEF DataAt
    <3>3. n \notin 1 .. cur /\ n # k
      BY <1>7, <1>13, <3>2
    <3>4. k \in 1 .. n - 1
      BY <1>2, <1>4, <3>2, <3>3
    <3>5. wav[k].size >= FmtLen
      BY <1>13, <3>1, <3>4
    <3>6. wav[k].size < FmtLen
      BY <1>13 DEF TooShort
    <3>. QED
      BY <1>8, <3>5, <3>6 DEF FmtLen
  <2>2. doing' = "refused" /\ need' = 0
    BY <1>13 DEF Then
  <2>3. AcceptedAtAudio' /\ RefusedForCause'
    BY <1>10, <2>1, <2>2 DEF AcceptedAtAudio, RefusedForCause
  <2>. QED
    BY <1>1, <1>4, <1>5, <2>2, <2>3, WalkEnds
<1>14. CASE wav[k].id = "fmt " /\ ~TooShort(wav[k].size) /\ Then("fmt", FmtLen)
  <2>1. doing' = "fmt" /\ need' = FmtLen /\ need' \in Nat /\ Reading'
    BY <1>14 DEF Then, Reading, FmtLen
  <2>2. pos' + need' = ReadEnd'
    <3>1. ReadEnd' = Start(cur)' + HeadLen + FmtLen
      BY <2>1 DEF ReadEnd
    <3>2. Start(cur)' = Start(k)
      BY <1>5, <1>10
    <3>. QED
      BY <1>3, <1>5, <1>8, <2>1, <3>1, <3>2 DEF HeadLen, FmtLen
  <2>3. FormatInv'
    <3>1. HasFormat(cur)'
      BY <1>5, <1>9, <1>11
    <3>. QED
      BY <2>1, <3>1 DEF FormatInv
  <2>4. \A j \in 1 .. cur' : /\ wav[j].id # "data"
                             /\ wav[j].id = "fmt " => wav[j].size >= FmtLen
    <3>1. ~(wav[k].size < FmtLen)
      BY <1>14 DEF TooShort
    <3>2. wav[k].size >= FmtLen
      BY <1>8, <3>1 DEF FmtLen
    <3>3. wav[k].id # "data"
      BY <1>14
    <3>. QED
      BY <1>5, <1>7, <1>12, <3>2, <3>3
  <2>. QED
    BY <1>1, <1>4, <1>5, <1>8, <1>14, <2>1, <2>2, <2>3, <2>4, WalkGoesOn
<1>15. CASE wav[k].id = "data" /\ DataFound
  <2>1. DataAt(k)
    <3>1. \A j \in 1 .. k - 1 : j \in 1 .. cur
      BY <1>2, <1>4
    <3>. QED
      BY <1>7, <1>15, <3>1 DEF DataAt
  <2>2. (doing' = IF gotFmt THEN "accepted" ELSE "refused") /\ need' = 0
    BY <1>15 DEF DataFound, Then
  <2>3. AcceptedAtAudio'
    <3>. SUFFICES ASSUME doing' = "accepted"
                  PROVE  \E n \in DOMAIN wav : /\ DataAt(n) /\ fmt \in FormatOf(n)
                                               /\ pos = Start(n) + HeadLen
      BY <1>5, <1>10 DEF AcceptedAtAudio
    <3>1. gotFmt
      BY <2>2
    <3>. QED
      BY <1>3, <1>4, <1>9, <2>1, <3>1 DEF HasFormat
  <2>4. RefusedForCause'
    <3>. SUFFICES ASSUME doing' = "refused" PROVE ~Playable
      BY <1>10 DEF RefusedForCause
    <3>1. FormatOf(k) = {}
      BY <1>9, <2>2 DEF HasFormat
    <3>2. ASSUME NEW n \in DOMAIN wav, DataAt(n) PROVE n = k
      <4>1. ~(n < k) /\ ~(k < n)
        BY <1>3, <1>4, <2>1, <3>2 DEF DataAt
      <4>. QED
        BY <1>4, <4>1
    <3>. QED
      BY <3>1, <3>2 DEF Playable
  <2>. QED
    BY <1>1, <1>4, <1>5, <2>2, <2>3, <2>4, WalkEnds
<1>16. CASE wav[k].id = "LIST" /\ Then("skip", wav[k].size)
  <2>1. doing' = "skip" /\ need' = wav[k].size /\ need' \in Nat /\ Reading'
    BY <1>8, <1>16 DEF Then, Reading
  <2>2. pos' + need' = ReadEnd'
    <3>1. ReadEnd' = Start(cur)' + HeadLen + wav'[cur'].size
      BY <2>1 DEF ReadEnd
    <3>2. Start(cur)' = Start(k) /\ wav'[cur'].size = need'
      BY <1>5, <1>10, <2>1
    <3>. QED
      BY <1>3, <1>5, <1>8, <2>1, <3>1, <3>2 DEF HeadLen
  <2>3. FormatInv'
    <3>1. FormatOf(k + 1) = FormatOf(k)
      <4>1. ASSUME NEW j PROVE j \in FormatOf(k + 1) <=> j \in FormatOf(k)
        <5>1. (k + 1) - 1 = k
          BY <1>4
        <5>2. /\ j \in 1 .. k /\ wav[j].id = "fmt " => j \in 1 .. k - 1
              /\ j \in 1 .. k - 1 => j \in 1 .. k
          <6>1. wav[k].id # "fmt "
            BY <1>16
          <6>2. j \in 1 .. k => j = k \/ j \in 1 .. k - 1
            BY <1>4
          <6>3. j \in 1 .. k - 1 => j \in 1 .. k
            BY <1>4
          <6>. QED
            BY <6>1, <6>2, <6>3
        <5>3. ASSUME j \in 1 .. k - 1
              PROVE  (\A i \in j + 1 .. k : wav[i].id # "fmt ")
                        <=> (\A i \in j + 1 .. k - 1 : wav[i].id # "fmt ")
          <6>1. ASSUME NEW i \in j + 1 .. k PROVE i \in j + 1 .. k - 1 \/ i = k
            BY <1>4, <5>3
          <6>2. ASSUME NEW i \in j + 1 .. k - 1 PROVE i \in j + 1 .. k
            BY <1>4, <5>3
          <6>. QED
            BY <1>16, <6>1, <6>2
        <5>. QED
          BY <5>1, <5>2, <5>3 DEF FormatOf
      <4>2. FormatOf(k + 1) \subseteq FormatOf(k) /\ FormatOf(k) \subseteq FormatOf(k + 1)
        BY <4>1
      <4>. QED
        BY <4>2
    <3>2. HasFormat(cur + 1)'
      <4>1. HasFormat(k + 1)'
        BY <1>9, <1>11, <3>1 DEF HasFormat
      <4>. QED
        BY <1>5, <4>1
    <3>. QED
      BY <2>1, <3>2 DEF FormatInv
  <2>4. \A j \in 1 .. cur' : /\ wav[j].id # "data"
                             /\ wav[j].id = "fmt " => wav[j].size >= FmtLen
    BY <1>5, <1>7, <1>12, <1>16
  <2>. QED
    BY <1>1, <1>4, <1>5, <1>8, <2>1, <2>2, <2>3, <2>4, WalkGoesOn
<1>. QED
  BY <1>6, <1>13, <1>14, <1>15, <1>16

LEMMA FmtKeeps == ASSUME WavIInv, FmtRead PROVE WavIInv'
<1>1. WavNext /\ doing = "fmt" /\ need = 0 /\ Reading /\ wav[cur].id = "fmt "
  BY DEF WavNext, FmtRead, Reading, WavIInv, WalkInv
<1>2. PICK start, bytes \in Nat, pad \in {0, 1} :
        /\ start = Start(cur) /\ bytes = wav[cur].size
        /\ Start(cur + 1) = start + HeadLen + bytes + pad
  BY <1>1, CurrentChunk
<1>3. bytes >= FmtLen /\ cur \in 1 .. Len(wav) /\ pos = ReadEnd
  BY <1>1, <1>2, CurrentChunk
<1>4. /\ doing' = "skip" /\ need' = bytes - FmtLen /\ Reading' /\ cur' = cur /\ pos' = pos
      /\ wav' = wav /\ fmt' = cur /\ gotFmt' = TRUE
  BY <1>1, <1>2 DEF FmtRead, Then, Reading
<1>5. /\ Len(wav) \in Nat /\ cur' \in 0 .. Len(wav) /\ cur' # 0 /\ pos' \in Nat
      /\ pos' <= Start(Len(wav) + 1)
  <2>1. pos <= Start(Len(wav) + 1)
    BY Zenon DEF WavIInv, WalkInv
  <2>2. Len(wav) \in Nat /\ pos \in Nat
    BY WalkTypes
  <2>. QED
    BY <1>3, <1>4, <2>1, <2>2
<1>6. \A n : Start(n)' = Start(n) /\ FormatOf(n)' = FormatOf(n)
  BY <1>1, FileStays
<1>7. pos' + need' = ReadEnd' /\ need' \in Nat
  <2>1. ReadEnd = start + HeadLen + FmtLen
    BY <1>1, <1>2 DEF ReadEnd
  <2>2. ReadEnd' = start + HeadLen + bytes
    <3>1. ReadEnd' = Start(cur)' + HeadLen + wav'[cur'].size
      BY <1>4 DEF ReadEnd
    <3>2. Start(cur)' = start /\ wav'[cur'].size = bytes
      BY <1>2, <1>4, <1>6
    <3>. QED
      BY <3>1, <3>2
  <2>3. pos' = start + 24 /\ need' = bytes - 16 /\ ReadEnd' = start + 8 + bytes
    BY <1>3, <1>4, <2>1, <2>2 DEF HeadLen, FmtLen
  <2>4. bytes >= 16
    BY <1>3 DEF FmtLen
  <2>. QED
    BY <1>2, <2>3, <2>4
<1>8. FormatInv'
  <2>1. cur \in FormatOf(cur + 1)
    <3>1. cur \in 1 .. (cur + 1) - 1 /\ cur + 1 .. (cur + 1) - 1 = {}
      BY <1>3, <1>5
    <3>. QED
      BY <1>1, <3>1 DEF FormatOf
  <2>2. cur \in FormatOf(cur + 1)'
    BY <1>4, <1>6, <2>1
  <2>. QED
    BY <1>4, <2>2 DEF FormatInv, HasFormat
<1>9. \A j \in 1 .. cur' : /\ wav[j].id # "data"
                           /\ wav[j].id = "fmt " => wav[j].size >= FmtLen
  BY <1>1, <1>4 DEF WavIInv, WalkInv
<1>. QED
  BY <1>1, <1>4, <1>5, <1>7, <1>8, <1>9, WalkGoesOn

\* A chunk that was read, or its pad byte, leaves the walk at the next header.
LEMMA ToNextChunk ==
  ASSUME WavIInv, WavNext, doing \in {"skip", "pad"}, cur \in 1 .. Len(wav),
         pos = Start(cur + 1), NextChunk, cur' = cur, pos' = pos, wav' = wav,
         fmt' = fmt, gotFmt' = gotFmt
  PROVE  WavIInv'
<1>1. doing' = "chunk" /\ need' = HeadLen /\ need' \in Nat /\ Reading' /\ Reading
  BY DEF NextChunk, Then, Reading, HeadLen
<1>2. /\ Len(wav) \in Nat /\ cur' \in 0 .. Len(wav) /\ pos' \in Nat
      /\ pos' <= Start(Len(wav) + 1)
  BY WalkTypes DEF WavIInv, WalkInv
<1>3. \A n : Start(n)' = Start(n) /\ FormatOf(n)' = FormatOf(n)
  BY FileStays
<1>4. pos' + need' = ReadEnd'
  <2>1. ReadEnd' = Start(cur + 1)' + HeadLen
    BY <1>1 DEF ReadEnd
  <2>2. Start(cur + 1)' = pos'
    BY <1>3
  <2>. QED
    BY <1>1, <2>1, <2>2
<1>5. FormatInv'
  BY <1>1, <1>3 DEF WavIInv, FormatInv, HasFormat
<1>6. \A j \in 1 .. cur' : /\ wav[j].id # "data"
                           /\ wav[j].id = "fmt " => wav[j].size >= FmtLen
  BY <1>1 DEF WavIInv, WalkInv
<1>. QED
  BY <1>1, <1>2, <1>4, <1>5, <1>6, WalkGoesOn

LEMMA SkippedKeeps == ASSUME WavIInv, Skipped PROVE WavIInv'
<1>1. WavNext /\ doing = "skip" /\ need = 0 /\ Reading
  BY DEF WavNext, Skipped, Reading
<1>2. PICK start, bytes \in Nat, pad \in {0, 1} :
        /\ start = Start(cur) /\ bytes = wav[cur].size /\ pad = Pad(wav[cur].size)
        /\ Start(cur + 1) = start + HeadLen + bytes + pad
  BY <1>1, CurrentChunk
<1>3. cur \in 1 .. Len(wav) /\ pos = ReadEnd
  BY <1>1, CurrentChunk
<1>4. /\ cur' = cur /\ pos' = pos /\ wav' = wav /\ fmt' = fmt /\ gotFmt' = gotFmt
  BY DEF Skipped
<1>5. pos = start + HeadLen + bytes
  BY <1>1, <1>2, <1>3 DEF ReadEnd
<1>6. cur # 0
  BY <1>3, WalkTypes
<1>7. IF pad = 1 THEN Then("pad", 1) ELSE NextChunk
  BY <1>2, <1>6 DEF Skipped, SkipPad
<1>8. CASE pad = 0
  <2>1. pos = Start(cur + 1) /\ NextChunk
    BY <1>2, <1>5, <1>7, <1>8 DEF HeadLen
  <2>. QED
    BY <1>1, <1>3, <1>4, <2>1, ToNextChunk
<1>9. CASE pad = 1
  <2>1. doing' = "pad" /\ need' = 1 /\ need' \in Nat /\ Reading'
    BY <1>7, <1>9 DEF Then, Reading
  <2>2. /\ Len(wav) \in Nat /\ cur' \in 0 .. Len(wav) /\ pos' \in Nat
        /\ pos' <= Start(Len(wav) + 1)
    BY <1>3, <1>4, WalkTypes DEF WavIInv, WalkInv
  <2>3. \A n : Start(n)' = Start(n) /\ FormatOf(n)' = FormatOf(n)
    BY <1>1, FileStays
  <2>4. pos' + need' = ReadEnd'
    <3>1. ReadEnd' = Start(cur + 1)'
      BY <2>1 DEF ReadEnd
    <3>2. Start(cur + 1)' = start + HeadLen + bytes + pad
      BY <1>2, <1>4, <2>3
    <3>. QED
      BY <1>2, <1>4, <1>5, <1>9, <2>1, <3>1, <3>2 DEF HeadLen
  <2>5. FormatInv'
    BY <1>1, <1>4, <2>1, <2>3 DEF WavIInv, FormatInv, HasFormat
  <2>6. \A j \in 1 .. cur' : /\ wav[j].id # "data"
                             /\ wav[j].id = "fmt " => wav[j].size >= FmtLen
    BY <1>1, <1>4 DEF WavIInv, WalkInv
  <2>. QED
    BY <1>1, <1>4, <1>6, <2>1, <2>2, <2>4, <2>5, <2>6, WalkGoesOn
<1>. QED
  BY <1>2, <1>8, <1>9

LEMMA PadKeeps == ASSUME WavIInv, PadSkipped PROVE WavIInv'
<1>1. WavNext /\ doing = "pad" /\ need = 0 /\ Reading
  BY DEF WavNext, PadSkipped, Reading
<1>2. cur \in 1 .. Len(wav) /\ pos = ReadEnd
  BY <1>1, CurrentChunk
<1>3. pos = Start(cur + 1)
  BY <1>1, <1>2 DEF ReadEnd
<1>. QED
  BY <1>1, <1>2, <1>3, ToNextChunk DEF PadSkipped

LEMMA WavNextIInv == WavIInv /\ [WavNext]_wavVars => WavIInv'
<1>. SUFFICES ASSUME WavIInv, [WavNext]_wavVars PROVE WavIInv'
  OBVIOUS
<1>1. CASE UNCHANGED wavVars
  <2>1. /\ riff' = riff /\ wav' = wav /\ pos' = pos /\ need' = need /\ doing' = doing
        /\ cur' = cur /\ fmt' = fmt /\ gotFmt' = gotFmt /\ ended' = ended
    BY <1>1 DEF wavVars
  <2>2. /\ Playable' = Playable
        /\ \A n : /\ Start(n)' = Start(n) /\ DataAt(n)' = DataAt(n)
                  /\ FormatOf(n)' = FormatOf(n)
    BY <1>1, FileStays
  <2>3. ReadEnd' = ReadEnd
    BY <2>1, <2>2 DEF ReadEnd
  <2>4. WalkInv'
    <3>1. Start(Len(wav) + 1)' = Start(Len(wav) + 1)
      BY <2>1, <2>2
    <3>. QED
      BY <2>1, <2>3, <3>1 DEF WavIInv, WalkInv, Reading
  <2>5. FormatInv'
    BY <2>1, <2>2 DEF WavIInv, FormatInv, HasFormat, Reading
  <2>6. AcceptedAtAudio' /\ RefusedForCause'
    BY <2>1, <2>2 DEF WavIInv, AcceptedAtAudio, RefusedForCause
  <2>. QED
    BY <2>4, <2>5, <2>6 DEF WavIInv
<1>. QED
  BY <1>1, ReadKeeps, EndKeeps, RiffKeeps, ChunkKeeps, FmtKeeps, SkippedKeeps, PadKeeps
  DEF WavNext

LEMMA WavInvariant == WavSpec => []WavIInv
BY WavInitIInv, WavNextIInv, PTL DEF WavSpec

\* However the bytes of a WAV file arrive, a header wav_read_header accepts
\* leaves the pipe at the first byte of audio with the format that precedes it.
THEOREM HeaderAccepted == WavSpec => []AcceptedAtAudio
<1>1. WavIInv => AcceptedAtAudio
  BY DEF WavIInv
<1>. QED
  BY <1>1, WavInvariant, PTL

\* wav_read_header refuses a playable file only when the stream ends before
\* the audio.
THEOREM HeaderRefused == WavSpec => []RefusedForCause
<1>1. WavIInv => RefusedForCause
  BY DEF WavIInv
<1>. QED
  BY <1>1, WavInvariant, PTL

-----------------------------------------------------------------------------
(* Commands.                                                               *)

Chars  == STRING \ {"?"}
IsToken(t) == t # Null /\ t # Junk

\* AddAll is a recursive function: g is it, on the first n tokens.
IsAdded(g, b, toks, n) ==
  g = [k \in 0 .. n |-> IF k = 0 THEN b ELSE Add(g[k - 1], toks[k])]

LEMMA AddedExists ==
  ASSUME NEW b, NEW toks, NEW n \in Nat
  PROVE  \E g : IsAdded(g, b, toks, n)
<1>. DEFINE S == {k \in Nat : \E g : IsAdded(g, b, toks, k)}
<1>1. 0 \in S
  <2>1. IsAdded([k \in 0 .. 0 |-> b], b, toks, 0)
    BY DEF IsAdded
  <2>. QED
    BY <2>1
<1>2. ASSUME NEW k \in Nat, k \in S PROVE k + 1 \in S
  <2>1. PICK g : IsAdded(g, b, toks, k)
    BY <1>2
  <2>. DEFINE h == [j \in 0 .. k + 1 |-> IF j = k + 1 THEN Add(g[k], toks[k + 1]) ELSE g[j]]
  <2>2. \A j \in 0 .. k : g[j] = IF j = 0 THEN b ELSE Add(g[j - 1], toks[j])
    BY <2>1 DEF IsAdded
  <2>3. \A j \in 0 .. k + 1 : h[j] = IF j = 0 THEN b ELSE Add(h[j - 1], toks[j])
    BY <2>2
  <2>4. IsAdded(h, b, toks, k + 1)
    BY <2>3 DEF IsAdded
  <2>. HIDE DEF h
  <2>. QED
    BY <2>4
<1>. HIDE DEF S
<1>3. Nat \subseteq S
  BY <1>1, <1>2, SetInduction
<1>. QED
  BY <1>3 DEF S

LEMMA AddAllIs ==
  ASSUME NEW b, NEW toks, Len(toks) \in Nat
  PROVE  \E g : /\ AddAll(b, toks) = g[Len(toks)] /\ g[0] = b
                /\ \A k \in 1 .. Len(toks) : g[k] = Add(g[k - 1], toks[k])
<1>1. PICK f : IsAdded(f, b, toks, Len(toks))
  BY AddedExists
<1>. DEFINE g == CHOOSE h : IsAdded(h, b, toks, Len(toks))
<1>2. IsAdded(g, b, toks, Len(toks))
  BY <1>1, Zenon
<1>3. AddAll(b, toks) = g[Len(toks)]
  BY DEF AddAll, IsAdded
<1>. HIDE DEF g
<1>4. g[0] = b /\ \A k \in 1 .. Len(toks) : g[k] = Add(g[k - 1], toks[k])
  BY <1>2 DEF IsAdded
<1>. QED
  BY <1>3, <1>4

\* An argv with the first n tokens, and a build that has come to the k-th:
\* it has them all, or has failed at an earlier one and kept those before it.
Filled(toks, n) ==
  IF n = 0 THEN EmptyCmd
  ELSE [argv |-> [i \in 1 .. n + 1 |-> IF i <= n THEN toks[i] ELSE Null], argc |-> n]

Cost(n) == IF n = 0 THEN 0 ELSE n + 1

IsBuild(b) ==
  DOMAIN b = {"cmd", "allocs", "live", "ok"} /\ b.allocs \in Nat /\ b.ok \in BOOLEAN

Building(b, before, toks, k) ==
  /\ IsBuild(b)
  /\ \E n \in 0 .. k : /\ b.cmd = Filled(toks, n) /\ b.live = before + Cost(n)
                       /\ b.ok => n = k

LEMMA FilledIs ==
  ASSUME NEW toks, NEW n \in Nat
  PROVE  /\ Blocks(Filled(toks, n)) = Cost(n) /\ Free(Filled(toks, n)) = EmptyCmd
         /\ Filled(toks, n).argc = n
         /\ n = 0 => Filled(toks, n).argv = <<>>
         /\ n # 0 => /\ Filled(toks, n).argv # <<>>
                     /\ Filled(toks, n).argv =
                          [i \in 1 .. n + 1 |-> IF i <= n THEN toks[i] ELSE Null]
<1>1. CASE n = 0
  BY <1>1 DEF Filled, EmptyCmd, Cost, Blocks, Free
<1>2. CASE n # 0
  <2>1. [i \in 1 .. n + 1 |-> IF i <= n THEN toks[i] ELSE Null] # <<>>
    <3>1. 1 \in DOMAIN [i \in 1 .. n + 1 |-> IF i <= n THEN toks[i] ELSE Null]
      OBVIOUS
    <3>2. 1 \notin DOMAIN <<>>
      OBVIOUS
    <3>. QED
      BY <3>1, <3>2, Zenon
  <2>2. /\ Filled(toks, n).argc = n
        /\ Filled(toks, n).argv = [i \in 1 .. n + 1 |-> IF i <= n THEN toks[i] ELSE Null]
    BY <1>2 DEF Filled
  <2>. QED
    BY <1>2, <2>1, <2>2, Zenon DEF Blocks, Free, Cost
<1>. QED
  BY <1>1, <1>2

\* What Add does, when it fails and when it does not.
LEMMA AddFails ==
  ASSUME NEW b, IsBuild(b), NEW tok, ~b.ok \/ b.allocs < 2
  PROVE  /\ IsBuild(Add(b, tok)) /\ ~Add(b, tok).ok
         /\ Add(b, tok).cmd = b.cmd /\ Add(b, tok).live = b.live
<1>1. CASE ~b.ok \/ b.allocs = 0
  <2>1. Add(b, tok) = [b EXCEPT !.ok = FALSE]
    BY <1>1, Zenon DEF Add
  <2>. QED
    BY <2>1 DEF IsBuild
<1>2. CASE b.ok /\ b.allocs = 1
  <2>1. b.allocs # 0
    BY <1>2
  <2>2. Add(b, tok) = [b EXCEPT !.ok = FALSE, !.allocs = 0]
    BY <1>2, <2>1, Zenon DEF Add
  <2>. QED
    BY <2>2 DEF IsBuild
<1>. QED
  BY <1>1, <1>2 DEF IsBuild

Grown(c, tok) ==
  [argv |-> [i \in 1 .. c.argc + 2 |->
               CASE i = c.argc + 1 -> tok
                 [] i = c.argc + 2 -> Null
                 [] OTHER -> IF i <= Len(c.argv) THEN c.argv[i] ELSE Junk],
   argc |-> c.argc + 1]

LEMMA AddGrows ==
  ASSUME NEW b, IsBuild(b), NEW tok, b.ok, b.allocs >= 2
  PROVE  Add(b, tok) = [ok |-> TRUE, allocs |-> b.allocs - 2,
                        live |-> b.live + IF b.cmd.argv = <<>> THEN 2 ELSE 1,
                        cmd |-> Grown(b.cmd, tok)]
<1>1. b.allocs # 0 /\ b.allocs # 1
  BY DEF IsBuild
<1>. QED
  BY <1>1, Zenon DEF Add, Grown

LEMMA FilledGrows ==
  ASSUME NEW toks, NEW k \in Nat
  PROVE  Grown(Filled(toks, k), toks[k + 1]) = Filled(toks, k + 1)
<1>1. PICK c : c = Filled(toks, k) /\ c.argc = k
  BY FilledIs
<1>2. PICK argv :
        argv = [i \in 1 .. k + 2 |->
                 CASE i = k + 1 -> toks[k + 1]
                   [] i = k + 2 -> Null
                   [] OTHER -> IF i <= Len(c.argv) THEN c.argv[i] ELSE Junk]
  OBVIOUS
<1>3. Grown(c, toks[k + 1]) = [argv |-> argv, argc |-> k + 1]
  BY <1>1, <1>2 DEF Grown
<1>4. ASSUME NEW i \in 1 .. k + 2
      PROVE  argv[i] = IF i <= k + 1 THEN toks[i] ELSE Null
  <2>1. CASE i = k + 1 \/ i = k + 2
    BY <1>2, <2>1
  <2>2. CASE i <= k
    <3>1. k # 0 /\ c.argv = [j \in 1 .. k + 1 |-> IF j <= k THEN toks[j] ELSE Null]
      BY <1>1, <2>2, FilledIs
    <3>2. Len(c.argv) = k + 1 /\ c.argv[i] = toks[i]
      BY <2>2, <3>1
    <3>3. i <= Len(c.argv) /\ i # k + 1 /\ i # k + 2 /\ i <= k + 1
      BY <2>2, <3>2
    <3>. QED
      BY <1>2, <3>2, <3>3
  <2>. QED
    BY <2>1, <2>2
<1>5. argv = [i \in 1 .. k + 2 |-> IF i <= k + 1 THEN toks[i] ELSE Null]
  BY <1>2, <1>4
<1>6. Filled(toks, k + 1) = [argv |-> [i \in 1 .. k + 2 |-> IF i <= k + 1 THEN toks[i] ELSE Null],
                             argc |-> k + 1]
  BY DEF Filled
<1>. QED
  BY <1>1, <1>3, <1>5, <1>6

LEMMA AddOne ==
  ASSUME NEW b, NEW before \in Int, NEW toks, NEW k \in Nat, Building(b, before, toks, k)
  PROVE  Building(Add(b, toks[k + 1]), before, toks, k + 1)
<1>1. PICK n \in 0 .. k : /\ b.cmd = Filled(toks, n) /\ b.live = before + Cost(n)
                          /\ b.ok => n = k
  BY DEF Building
<1>2. IsBuild(b)
  BY DEF Building
<1>3. CASE ~b.ok \/ b.allocs < 2
  <2>1. n \in 0 .. k + 1
    OBVIOUS
  <2>. QED
    BY <1>1, <1>2, <1>3, <2>1, AddFails DEF Building
<1>4. CASE b.ok /\ b.allocs >= 2
  <2>1. n = k
    BY <1>1, <1>4
  <2>2. PICK tok, c : tok = toks[k + 1] /\ c = b.cmd
    OBVIOUS
  <2>3. c = Filled(toks, k) /\ b.live = before + Cost(k)
    BY <1>1, <2>1, <2>2, Zenon
  <2>4. c.argc = k /\ ((c.argv = <<>>) <=> k = 0)
    BY <2>3, FilledIs
  <2>5. Add(b, tok) = [ok |-> TRUE, allocs |-> b.allocs - 2,
                       live |-> b.live + IF c.argv = <<>> THEN 2 ELSE 1,
                       cmd |-> Filled(toks, k + 1)]
    BY <1>2, <1>4, <2>2, <2>3, AddGrows, FilledGrows, ZenonT(40)
  <2>6. b.live + (IF c.argv = <<>> THEN 2 ELSE 1) = before + Cost(k + 1)
    BY <2>3, <2>4 DEF Cost
  <2>7. /\ Add(b, tok).cmd = Filled(toks, k + 1) /\ Add(b, tok).live = before + Cost(k + 1)
        /\ IsBuild(Add(b, tok))
    BY <1>2, <1>4, <2>5, <2>6 DEF IsBuild
  <2>8. k + 1 \in 0 .. k + 1
    OBVIOUS
  <2>. QED
    BY <2>2, <2>7, <2>8, Zenon DEF Building
<1>. QED
  BY <1>2, <1>3, <1>4 DEF IsBuild

LEMMA AddAllBuilds ==
  ASSUME NEW b, IsBuild(b), b.ok, b.cmd = EmptyCmd, b.live \in Int, NEW toks, Len(toks) \in Nat
  PROVE  Building(AddAll(b, toks), b.live, toks, Len(toks))
<1>. DEFINE before == b.live
<1>1. Building(b, before, toks, 0)
  <2>1. before + Cost(0) = before /\ Filled(toks, 0) = EmptyCmd /\ 0 \in 0 .. 0
    BY DEF Cost, Filled
  <2>2. IsBuild(b) /\ b.cmd = Filled(toks, 0) /\ b.live = before + Cost(0)
    BY <2>1
  <2>. QED
    BY <2>1, <2>2, Zenon DEF Building
<1>0. before \in Int
  OBVIOUS
<1>. HIDE DEF before
<1>2. PICK g : /\ AddAll(b, toks) = g[Len(toks)] /\ g[0] = b
               /\ \A k \in 1 .. Len(toks) : g[k] = Add(g[k - 1], toks[k])
  BY AddAllIs
<1>. DEFINE S == {k \in Nat : k <= Len(toks) => Building(g[k], before, toks, k)}
<1>3. 0 \in S
  BY <1>1, <1>2
<1>4. ASSUME NEW k \in Nat, k \in S PROVE k + 1 \in S
  <2>. SUFFICES ASSUME k + 1 <= Len(toks) PROVE Building(g[k + 1], before, toks, k + 1)
    OBVIOUS
  <2>1. Building(g[k], before, toks, k)
    BY <1>4
  <2>2. g[k + 1] = Add(g[k], toks[k + 1])
    <3>1. k + 1 \in 1 .. Len(toks) /\ (k + 1) - 1 = k
      OBVIOUS
    <3>. QED
      BY <1>2, <3>1
  <2>. QED
    BY <1>0, <2>1, <2>2, AddOne
<1>. HIDE DEF S
<1>5. Nat \subseteq S
  BY <1>3, <1>4, SetInduction
<1>6. Building(g[Len(toks)], before, toks, Len(toks))
  BY <1>5 DEF S
<1>. QED
  BY <1>2, <1>6 DEF before

\* What the two builds add, and how they end.
PiperTokens ==
  <<Default(env.bin, <<"piper">>)>>
    \o (IF env.args = Unset THEN DefaultArgs ELSE Split(env.args))
    \o (IF env.model = Unset THEN <<>> ELSE <<<<"--model">>, env.model>>)

SinkTokens == IF env.sink = Unset THEN DefaultSink ELSE Split(env.sink)

Environments == [bin : Bins, args : ArgLists, model : Models, sink : Sinks]

\* Both commands are built, or both are empty; and the blocks are theirs.
CmdIInv ==
  /\ env \in Environments /\ state \in {"down", "piper", "none"}
  /\ IF state = "piper"
     THEN /\ piper = Filled(PiperTokens, Len(PiperTokens))
          /\ sink = Filled(SinkTokens, Len(SinkTokens)) /\ sink.argc # 0
     ELSE piper = EmptyCmd /\ sink = EmptyCmd
  /\ live \in Int /\ BlocksOwned

LEMMA EmptyIs ==
  Blocks(EmptyCmd) = 0 /\ Free(EmptyCmd) = EmptyCmd
BY DEF Blocks, Free, EmptyCmd

\* A build that starts on an empty command ends on one that holds its blocks.
LEMMA BuiltIs ==
  ASSUME NEW b, NEW before \in Int, NEW toks, Len(toks) \in Nat,
         Building(b, before, toks, Len(toks))
  PROVE  /\ IsBuild(b) /\ b.live \in Int
         /\ b.live = before + Blocks(b.cmd) /\ Free(b.cmd) = EmptyCmd
         /\ Blocks(b.cmd) \in Nat
         /\ b.ok => b.cmd = Filled(toks, Len(toks))
<1>1. PICK n \in 0 .. Len(toks) : /\ b.cmd = Filled(toks, n) /\ b.live = before + Cost(n)
                                  /\ b.ok => n = Len(toks)
  BY DEF Building
<1>2. n \in Nat /\ Cost(n) \in Nat
  BY DEF Cost
<1>3. Blocks(b.cmd) = Cost(n) /\ Free(b.cmd) = EmptyCmd
  <2>1. Blocks(Filled(toks, n)) = Cost(n) /\ Free(Filled(toks, n)) = EmptyCmd
    BY <1>2, FilledIs, Zenon
  <2>. QED
    BY <1>1, <2>1, Zenon
<1>4. b.live \in Int
  BY <1>1, <1>2
<1>5. b.ok => b.cmd = Filled(toks, Len(toks))
  BY <1>1
<1>. QED
  BY <1>1, <1>2, <1>3, <1>4, <1>5, Zenon DEF Building

LEMMA InitBuilds ==
  ASSUME CmdIInv, NEW n \in Allocs, SpeechInit(n),
         Len(PiperTokens) \in Nat, Len(SinkTokens) \in Nat
  PROVE  CmdIInv'
<1>. DEFINE b == [cmd |-> piper, allocs |-> n, live |-> live, ok |-> TRUE]
            p == BuildPiper(b)
            q == [p EXCEPT !.cmd = sink]
            t == AddAll(q, SinkTokens)
            s == IF p.ok THEN BuildSink(q) ELSE q
<1>1. /\ state # "piper" /\ piper = EmptyCmd /\ sink = EmptyCmd
      /\ live \in Int /\ live = 0 /\ env' = env /\ env \in Environments
  BY EmptyIs DEF CmdIInv, SpeechInit, BlocksOwned
<1>2. /\ IsBuild(b) /\ b.ok /\ b.cmd = EmptyCmd /\ b.live = 0
  <2>1. n \in Nat
    BY AllocsAssumption
  <2>. QED
    BY <1>1, <2>1 DEF IsBuild
<1>3. p = AddAll(b, PiperTokens)
  BY DEF BuildPiper, PiperTokens
<1>4. Building(p, 0, PiperTokens, Len(PiperTokens))
  <2>. HIDE DEF b, p
  <2>. QED
    BY <1>2, <1>3, AddAllBuilds
<1>5. /\ IsBuild(p) /\ p.live = 0 + Blocks(p.cmd) /\ Free(p.cmd) = EmptyCmd
      /\ Blocks(p.cmd) \in Nat /\ p.live \in Int
      /\ p.ok => p.cmd = Filled(PiperTokens, Len(PiperTokens))
  <2>. HIDE DEF p
  <2>. QED
    BY <1>4, BuiltIs
<1>6. IsBuild(q) /\ q.cmd = EmptyCmd /\ q.live = p.live /\ q.ok = p.ok
  <2>. HIDE DEF p
  <2>. QED
    BY <1>1, <1>5 DEF IsBuild
<1>7. ASSUME p.ok
      PROVE  /\ IsBuild(t) /\ t.live = p.live + Blocks(t.cmd) /\ Free(t.cmd) = EmptyCmd
             /\ Blocks(t.cmd) \in Nat /\ t.live \in Int
             /\ t.ok => t.cmd = Filled(SinkTokens, Len(SinkTokens))
  <2>. HIDE DEF p, q
  <2>1. q.ok /\ q.live \in Int
    BY <1>5, <1>6, <1>7
  <2>2. Building(t, q.live, SinkTokens, Len(SinkTokens))
    BY <1>6, <2>1, AddAllBuilds
  <2>. HIDE DEF t
  <2>. QED
    BY <1>6, <2>1, <2>2, BuiltIs
<1>8. p.ok => BuildSink(q) = [t EXCEPT !.ok = @ /\ t.cmd.argc # 0]
  BY Zenon DEF BuildSink, SinkTokens
<1>9. /\ Blocks(s.cmd) \in Nat /\ s.live = p.live + Blocks(s.cmd) /\ s.live \in Int
      /\ Free(s.cmd) = EmptyCmd
      /\ s.ok => /\ p.ok /\ s.cmd = Filled(SinkTokens, Len(SinkTokens)) /\ s.cmd.argc # 0
  <2>. HIDE DEF p, q, t
  <2>1. CASE p.ok
    <3>1. s = [t EXCEPT !.ok = @ /\ t.cmd.argc # 0]
      BY <1>8, <2>1
    <3>. HIDE DEF s
    <3>2. s.cmd = t.cmd /\ s.live = t.live /\ (s.ok => t.ok /\ t.cmd.argc # 0)
      BY <1>7, <2>1, <3>1 DEF IsBuild
    <3>. QED
      BY <1>7, <2>1, <3>2, Zenon
  <2>2. CASE ~p.ok
    BY <1>5, <1>6, <2>2, EmptyIs
  <2>. QED
    BY <2>1, <2>2
<1>10. IF s.ok
       THEN /\ state' = "piper"
            /\ piper' = p.cmd /\ sink' = s.cmd /\ live' = s.live
       ELSE /\ state' = "none"
            /\ piper' = Free(p.cmd) /\ sink' = Free(s.cmd)
            /\ live' = s.live - Blocks(p.cmd) - Blocks(s.cmd)
  BY Zenon DEF SpeechInit
<1>11. PiperTokens' = PiperTokens /\ SinkTokens' = SinkTokens
  BY <1>1 DEF PiperTokens, SinkTokens
<1>. HIDE DEF p, q, t, s
<1>12. CASE s.ok
  <2>1. live' \in Int /\ live' = Blocks(piper') + Blocks(sink')
    BY <1>5, <1>9, <1>10, <1>12
  <2>2. /\ piper' = Filled(PiperTokens, Len(PiperTokens))
        /\ sink' = Filled(SinkTokens, Len(SinkTokens)) /\ sink'.argc # 0 /\ state' = "piper"
    BY <1>5, <1>9, <1>10, <1>12
  <2>. QED
    BY <1>1, <1>11, <2>1, <2>2 DEF CmdIInv, BlocksOwned
<1>13. CASE ~s.ok
  <2>1. piper' = EmptyCmd /\ sink' = EmptyCmd /\ state' = "none"
    BY <1>5, <1>9, <1>10, <1>13
  <2>2. live' = 0
    <3>1. PICK l, x, y \in Int : l = s.live /\ x = Blocks(p.cmd) /\ y = Blocks(s.cmd)
      BY <1>5, <1>9
    <3>2. l = x + y /\ live' = (l - x) - y
      BY <1>5, <1>9, <1>10, <1>13, <3>1
    <3>. QED
      BY <3>1, <3>2
  <2>. QED
    BY <1>1, <2>1, <2>2, EmptyIs DEF CmdIInv, BlocksOwned
<1>. QED
  BY <1>12, <1>13

LEMMA CloseFrees == ASSUME CmdIInv, SpeechClose, Len(PiperTokens) \in Nat, Len(SinkTokens) \in Nat
  PROVE CmdIInv'
<1>1. /\ piper = Filled(PiperTokens, Len(PiperTokens)) /\ sink = Filled(SinkTokens, Len(SinkTokens))
      /\ live = Blocks(piper) + Blocks(sink) /\ env \in Environments
  BY DEF CmdIInv, SpeechClose, BlocksOwned
<1>2. /\ state' = "down" /\ env' = env
      /\ piper' = Free(piper) /\ sink' = Free(sink)
      /\ live' = live - Blocks(piper) - Blocks(sink)
  BY DEF SpeechClose
<1>3. /\ Blocks(piper) \in Nat /\ Blocks(sink) \in Nat
      /\ Free(piper) = EmptyCmd /\ Free(sink) = EmptyCmd
  <2>1. /\ Blocks(piper) = Cost(Len(PiperTokens)) /\ Blocks(sink) = Cost(Len(SinkTokens))
        /\ Free(piper) = EmptyCmd /\ Free(sink) = EmptyCmd
    BY <1>1, FilledIs, Zenon
  <2>. QED
    BY <2>1 DEF Cost
<1>4. live' = 0
  <2>1. PICK x, y \in Nat : x = Blocks(piper) /\ y = Blocks(sink)
    BY <1>3
  <2>2. live = x + y /\ live' = (live - x) - y
    BY <1>1, <1>2, <2>1
  <2>. QED
    BY <2>1, <2>2
<1>. QED
  BY <1>1, <1>2, <1>3, <1>4, EmptyIs DEF CmdIInv, BlocksOwned

-----------------------------------------------------------------------------
\* Split is a recursive function: g is it, from place q of v on.
EndOfWord(v, p) ==
  CHOOSE e \in p .. Len(v) + 1 :
    /\ e = Len(v) + 1 \/ ~Word(v[e])
    /\ \A i \in p .. e - 1 : Word(v[i])

SplitStep(g, v, p) ==
  IF p = Len(v) + 1 THEN <<>>
  ELSE IF ~Word(v[p]) THEN g[p + 1]
  ELSE <<SubSeq(v, p, EndOfWord(v, p) - 1)>> \o g[EndOfWord(v, p)]

IsSplit(g, v, q) == g = [p \in q .. Len(v) + 1 |-> SplitStep(g, v, p)]

LEMMA EndOfWordIs ==
  ASSUME NEW v, Len(v) \in Nat, NEW p \in 1 .. Len(v), Word(v[p])
  PROVE  /\ EndOfWord(v, p) \in p + 1 .. Len(v) + 1
         /\ EndOfWord(v, p) = Len(v) + 1 \/ ~Word(v[EndOfWord(v, p)])
         /\ \A i \in p .. EndOfWord(v, p) - 1 : Word(v[i])
<1>. DEFINE Is(e) == /\ e = Len(v) + 1 \/ ~Word(v[e])
                     /\ \A i \in p .. e - 1 : Word(v[i])
            T == {e \in p .. Len(v) + 1 : e = Len(v) + 1 \/ ~Word(v[e])}
<1>1. T \subseteq Nat /\ Len(v) + 1 \in T
  OBVIOUS
<1>2. PICK e \in T : \A m \in T : e <= m
  BY <1>1, LeastNat
<1>3. e \in p .. Len(v) + 1 /\ Is(e)
  BY <1>2
<1>. DEFINE w == CHOOSE x \in p .. Len(v) + 1 : Is(x)
<1>4. w \in p .. Len(v) + 1 /\ Is(w)
  <2>. HIDE DEF Is
  <2>. QED
    BY <1>3, Zenon
<1>5. w # p
  BY <1>4
<1>6. w \in p + 1 .. Len(v) + 1
  <2>. HIDE DEF w
  <2>. QED
    BY <1>4, <1>5
<1>7. EndOfWord(v, p) = w
  BY DEF EndOfWord
<1>. HIDE DEF w
<1>. QED
  BY <1>4, <1>6, <1>7

LEMMA SplitExists ==
  ASSUME NEW v, Len(v) \in Nat, NEW n \in Nat, n <= Len(v)
  PROVE  \E g : IsSplit(g, v, Len(v) + 1 - n)
<1>. DEFINE S == {k \in Nat : k <= Len(v) => \E g : IsSplit(g, v, Len(v) + 1 - k)}
<1>1. 0 \in S
  <2>1. IsSplit([p \in Len(v) + 1 .. Len(v) + 1 |-> <<>>], v, Len(v) + 1 - 0)
    BY DEF IsSplit, SplitStep
  <2>. QED
    BY <2>1
<1>2. ASSUME NEW k \in Nat, k \in S PROVE k + 1 \in S
  <2>. SUFFICES ASSUME k + 1 <= Len(v) PROVE \E g : IsSplit(g, v, Len(v) + 1 - (k + 1))
    OBVIOUS
  <2>1. PICK g : IsSplit(g, v, Len(v) + 1 - k)
    BY <1>2
  <2>2. PICK q \in 1 .. Len(v) : q = Len(v) - k
    OBVIOUS
  <2>3. Len(v) + 1 - k = q + 1 /\ Len(v) + 1 - (k + 1) = q
    BY <2>2
  <2>. DEFINE h == [p \in q .. Len(v) + 1 |-> IF p = q THEN SplitStep(g, v, q) ELSE g[p]]
  <2>4. \A p \in q + 1 .. Len(v) + 1 : g[p] = SplitStep(g, v, p)
    BY <2>1, <2>3 DEF IsSplit
  <2>5. \A p \in q + 1 .. Len(v) + 1 : h[p] = g[p]
    OBVIOUS
  <2>6. ASSUME NEW p \in q .. Len(v) + 1 PROVE SplitStep(h, v, p) = SplitStep(g, v, p)
    <3>1. CASE p = Len(v) + 1
      BY <3>1 DEF SplitStep
    <3>2. CASE p # Len(v) + 1 /\ ~Word(v[p])
      <4>1. p + 1 \in q + 1 .. Len(v) + 1
        BY <3>2
      <4>2. h[p + 1] = g[p + 1]
        BY <2>5, <4>1, Zenon
      <4>. HIDE DEF h
      <4>. QED
        BY <3>2, <4>2, Zenon DEF SplitStep
    <3>3. CASE p # Len(v) + 1 /\ Word(v[p])
      <4>1. p \in 1 .. Len(v)
        BY <3>3
      <4>2. EndOfWord(v, p) \in p + 1 .. Len(v) + 1
        BY <3>3, <4>1, EndOfWordIs
      <4>3. EndOfWord(v, p) \in q + 1 .. Len(v) + 1
        BY <4>1, <4>2
      <4>4. h[EndOfWord(v, p)] = g[EndOfWord(v, p)]
        BY <2>5, <4>3, Zenon
      <4>. HIDE DEF h
      <4>. QED
        BY <3>3, <4>4, Zenon DEF SplitStep
    <3>. QED
      BY <3>1, <3>2, <3>3
  <2>7. \A p \in q .. Len(v) + 1 : h[p] = SplitStep(g, v, p)
    BY <2>4
  <2>8. h = [p \in q .. Len(v) + 1 |-> SplitStep(h, v, p)]
    <3>1. \A p \in q .. Len(v) + 1 : h[p] = SplitStep(h, v, p)
      BY <2>6, <2>7, Zenon
    <3>2. h = [p \in q .. Len(v) + 1 |-> h[p]]
      OBVIOUS
    <3>. HIDE DEF h
    <3>. QED
      BY <3>1, <3>2
  <2>9. IsSplit(h, v, q)
    BY <2>8, Zenon DEF IsSplit
  <2>. HIDE DEF h
  <2>. QED
    BY <2>3, <2>9
<1>. HIDE DEF S
<1>3. Nat \subseteq S
  BY <1>1, <1>2, SetInduction
<1>. QED
  BY <1>3 DEF S

LEMMA SplitIs ==
  ASSUME NEW v, Len(v) \in Nat
  PROVE  \E g : /\ Split(v) = g[1]
                /\ \A p \in 1 .. Len(v) + 1 : g[p] = SplitStep(g, v, p)
<1>1. PICK f : IsSplit(f, v, 1)
  <2>1. Len(v) + 1 - Len(v) = 1
    OBVIOUS
  <2>. QED
    BY <2>1, SplitExists
<1>. DEFINE g == CHOOSE h : IsSplit(h, v, 1)
<1>2. IsSplit(g, v, 1)
  BY <1>1, Zenon
<1>3. Split(v) = g[1]
  BY DEF Split, IsSplit, SplitStep, EndOfWord
<1>. HIDE DEF g
<1>. QED
  BY <1>2, <1>3 DEF IsSplit

\* The words of v from place p on, and a place where no word is cut.
WordsFrom(words, run, v, p) ==
  /\ Len(words) \in Nat /\ words \in Seq(Seq(Chars)) /\ \A k \in 1 .. Len(words) : IsToken(words[k])
  /\ run \in [1 .. Len(words) -> Runs(v)]
  /\ \A k \in 1 .. Len(words) : words[k] = SubSeq(v, run[k][1], run[k][2]) /\ run[k][1] >= p
  /\ \A j, k \in 1 .. Len(words) : j < k => run[j][2] < run[k][1]
  /\ \A r \in Runs(v) : r[1] >= p => \E k \in 1 .. Len(words) : run[k] = r

Between(v, p) == p = 1 \/ p = Len(v) + 1 \/ ~Word(v[p - 1]) \/ ~Word(v[p])

LEMMA RunIs ==
  ASSUME NEW v, Len(v) \in Nat, NEW r \in Runs(v)
  PROVE  /\ r[1] \in 1 .. Len(v) /\ r[2] \in 1 .. Len(v) /\ r[1] <= r[2]
         /\ \A i \in r[1] .. r[2] : Word(v[i])
         /\ r[1] = 1 \/ ~Word(v[r[1] - 1])
         /\ r[2] = Len(v) \/ ~Word(v[r[2] + 1])
         /\ r = <<r[1], r[2]>>
BY DEF Runs

LEMMA TokenIs ==
  ASSUME NEW v \in Seq(Chars), NEW i \in 1 .. Len(v), NEW j \in 1 .. Len(v), i <= j
  PROVE  SubSeq(v, i, j) \in Seq(Chars) /\ IsToken(SubSeq(v, i, j))
<1>1. SubSeq(v, i, j) \in Seq(Chars)
  OBVIOUS
<1>2. SubSeq(v, i, j) # <<>>
  <2>1. Len(SubSeq(v, i, j)) = j - i + 1
    OBVIOUS
  <2>. QED
    BY <2>1
<1>3. SubSeq(v, i, j) # <<"?">>
  <2>1. v[i] # "?"
    BY DEF Chars
  <2>2. SubSeq(v, i, j)[1] = v[i]
    OBVIOUS
  <2>3. <<"?">>[1] = "?"
    OBVIOUS
  <2>. QED
    BY <2>1, <2>2, <2>3, Zenon
<1>. QED
  BY <1>1, <1>2, <1>3 DEF IsToken, Null, Junk

\* One more word in front.
LEMMA WordBefore ==
  ASSUME NEW v \in Seq(Chars), NEW p \in 1 .. Len(v), Word(v[p]), p = 1 \/ ~Word(v[p - 1]),
         NEW e, e = EndOfWord(v, p), NEW words, NEW run, WordsFrom(words, run, v, e)
  PROVE  \E more : WordsFrom(<<SubSeq(v, p, e - 1)>> \o words, more, v, p)
<1>1. PICK n \in Nat : Len(words) = n /\ words \in Seq(Seq(Chars))
  BY DEF WordsFrom
<1>2. PICK l \in Nat : Len(v) = l
  OBVIOUS
<1>3. /\ e \in p + 1 .. l + 1
      /\ e = l + 1 \/ ~Word(v[e])
      /\ \A i \in p .. e - 1 : Word(v[i])
      /\ p \in 1 .. l
  BY <1>2, EndOfWordIs
<1>4. PICK first : first = <<p, e - 1>>
  OBVIOUS
<1>5. first \in Runs(v) /\ first[1] = p /\ first[2] = e - 1
  <2>1. p \in 1 .. l /\ e - 1 \in 1 .. l /\ p <= e - 1 /\ (e - 1) + 1 = e
    BY <1>3
  <2>2. first \in (1 .. l) \X (1 .. l) /\ first[1] = p /\ first[2] = e - 1
    BY <1>4, <2>1
  <2>3. e - 1 = l \/ ~Word(v[(e - 1) + 1])
    BY <1>3, <2>1
  <2>. QED
    BY <1>2, <1>3, <2>1, <2>2, <2>3 DEF Runs
<1>6. PICK all : all = <<SubSeq(v, p, e - 1)>> \o words
  OBVIOUS
<1>7. PICK more : more = [k \in 1 .. n + 1 |-> IF k = 1 THEN first ELSE run[k - 1]]
  OBVIOUS
<1>8. SubSeq(v, p, e - 1) \in Seq(Chars) /\ IsToken(SubSeq(v, p, e - 1))
  BY <1>2, <1>3, TokenIs
<1>9. /\ Len(all) = n + 1 /\ all \in Seq(Seq(Chars))
      /\ all[1] = SubSeq(v, p, e - 1) /\ more[1] = first
      /\ \A k \in 1 .. n : all[k + 1] = words[k] /\ more[k + 1] = run[k]
  BY <1>1, <1>6, <1>7, <1>8
<1>10. \A k \in 1 .. n + 1 : k = 1 \/ \E j \in 1 .. n : k = j + 1
  <2>1. ASSUME NEW k \in 1 .. n + 1, k # 1 PROVE k - 1 \in 1 .. n /\ k = (k - 1) + 1
    BY <2>1
  <2>. QED
    BY <2>1
<1>11. /\ \A k \in 1 .. n : /\ run[k] \in Runs(v) /\ IsToken(words[k])
                            /\ words[k] = SubSeq(v, run[k][1], run[k][2]) /\ run[k][1] >= e
       /\ \A j, k \in 1 .. n : j < k => run[j][2] < run[k][1]
       /\ \A r \in Runs(v) : r[1] >= e => \E k \in 1 .. n : run[k] = r
  BY <1>1 DEF WordsFrom
<1>12. more \in [1 .. n + 1 -> Runs(v)]
  <2>1. ASSUME NEW k \in 1 .. n + 1 PROVE more[k] \in Runs(v)
    <3>1. CASE k = 1
      BY <1>5, <1>9, <3>1, Zenon
    <3>2. CASE k # 1
      <4>1. PICK j \in 1 .. n : k = j + 1
        BY <1>10, <3>2
      <4>2. more[k] = run[j]
        BY <1>9, <4>1, Zenon
      <4>. QED
        BY <1>11, <4>2, Zenon
    <3>. QED
      BY <3>1, <3>2
  <2>. QED
    BY <1>7, <2>1
<1>13. ASSUME NEW k \in 1 .. n + 1
       PROVE  /\ IsToken(all[k]) /\ all[k] = SubSeq(v, more[k][1], more[k][2])
              /\ more[k][1] >= p
  <2>1. CASE k = 1
    <3>1. all[k] = SubSeq(v, p, e - 1) /\ more[k][1] = p /\ more[k][2] = e - 1
      BY <1>5, <1>9, <2>1, Zenon
    <3>2. p >= p
      BY <1>3
    <3>. QED
      BY <1>8, <3>1, <3>2, Zenon
  <2>2. CASE k # 1
    <3>1. PICK j \in 1 .. n : k = j + 1
      BY <1>10, <2>2
    <3>2. all[k] = words[j] /\ more[k] = run[j]
      BY <1>9, <3>1
    <3>3. run[j][1] \in Int
      BY <1>2, <1>11, RunIs
    <3>. QED
      BY <1>3, <1>11, <3>2, <3>3, SMTT(30)
  <2>. QED
    BY <2>1, <2>2
<1>14. ASSUME NEW j \in 1 .. n + 1, NEW k \in 1 .. n + 1, j < k
       PROVE  more[j][2] < more[k][1]
  <2>1. PICK i \in 1 .. n : k = i + 1
    BY <1>10, <1>14
  <2>2. more[k] = run[i] /\ run[i][1] >= e /\ run[i][1] \in Int
    <3>1. more[k] = run[i]
      BY <1>9, <2>1, Zenon
    <3>2. run[i] \in Runs(v) /\ run[i][1] >= e
      BY <1>11, Zenon
    <3>. QED
      BY <1>2, <3>1, <3>2, RunIs
  <2>3. CASE j = 1
    <3>1. more[j][2] = e - 1
      BY <1>5, <1>9, <2>3, Zenon
    <3>2. e - 1 < run[i][1]
      BY <1>3, <2>2
    <3>. QED
      BY <2>2, <3>1, <3>2
  <2>4. CASE j # 1
    <3>1. PICK h \in 1 .. n : j = h + 1
      BY <1>10, <2>4
    <3>2. h < i /\ more[j] = run[h]
      BY <1>9, <1>14, <2>1, <3>1
    <3>. QED
      BY <1>11, <2>2, <3>2
  <2>. QED
    BY <2>3, <2>4
<1>15. ASSUME NEW r \in Runs(v), r[1] >= p PROVE \E k \in 1 .. n + 1 : more[k] = r
  <2>1. /\ r[1] \in 1 .. l /\ r[2] \in 1 .. l /\ r[1] <= r[2] /\ r = <<r[1], r[2]>>
        /\ \A i \in r[1] .. r[2] : Word(v[i])
        /\ r[1] = 1 \/ ~Word(v[r[1] - 1])
        /\ r[2] = l \/ ~Word(v[r[2] + 1])
    BY <1>2, RunIs
  <2>2. CASE r[1] >= e
    <3>1. PICK k \in 1 .. n : run[k] = r
      BY <1>11, <2>2
    <3>2. k + 1 \in 1 .. n + 1 /\ more[k + 1] = r
      BY <1>9, <3>1
    <3>. QED
      BY <3>2
  <2>3. CASE r[1] < e
    <3>1. PICK i, j \in 1 .. l : i = r[1] /\ j = r[2]
      BY <2>1
    <3>2. i = p
      <4>. SUFFICES ASSUME i # p PROVE FALSE
        OBVIOUS
      <4>1. i - 1 \in p .. e - 1 /\ i # 1
        BY <1>3, <1>15, <2>3, <3>1, SMTT(30)
      <4>. QED
        BY <1>3, <2>1, <3>1, <4>1
    <3>3. j = e - 1
      <4>1. ~(j >= e)
        <5>. SUFFICES ASSUME j >= e PROVE FALSE
          OBVIOUS
        <5>1. e \in i .. j /\ e # l + 1
          BY <1>3, <3>1, <3>2
        <5>. QED
          BY <1>3, <2>1, <3>1, <5>1
      <4>2. ~(j < e - 1)
        <5>. SUFFICES ASSUME j < e - 1 PROVE FALSE
          OBVIOUS
        <5>1. j + 1 \in p .. e - 1 /\ j # l
          BY <1>3, <2>1, <3>1, <3>2, SMTT(30)
        <5>. QED
          BY <1>3, <2>1, <3>1, <5>1
      <4>. QED
        BY <1>3, <4>1, <4>2
    <3>4. r = first /\ 1 \in 1 .. n + 1
      BY <1>4, <2>1, <3>1, <3>2, <3>3
    <3>. QED
      BY <1>9, <3>4
  <2>. QED
    BY <1>3, <2>1, <2>2, <2>3
<1>16. WordsFrom(all, more, v, p)
  <2>1. PICK m : m = n + 1 /\ m \in Nat
    OBVIOUS
  <2>2. Len(all) = m
    BY <1>9, <2>1
  <2>. QED
    BY <1>9, <1>12, <1>13, <1>14, <1>15, <2>1, <2>2, Zenon DEF WordsFrom
<1>. QED
  BY <1>6, <1>16

LEMMA SplitWords ==
  ASSUME NEW v \in Seq(Chars)
  PROVE  \E run : WordsFrom(Split(v), run, v, 1)
<1>1. PICK l \in Nat : Len(v) = l
  OBVIOUS
<1>2. PICK g : Split(v) = g[1] /\ \A p \in 1 .. l + 1 : g[p] = SplitStep(g, v, p)
  BY <1>1, SplitIs
<1>. DEFINE S == {k \in Nat : \A p \in 1 .. l + 1 :
                    p >= (l + 1) - k /\ Between(v, p) => \E run : WordsFrom(g[p], run, v, p)}
<1>3. 0 \in S
  <2>. SUFFICES \E run : WordsFrom(g[l + 1], run, v, l + 1)
    OBVIOUS
  <2>1. g[l + 1] = <<>>
    <3>1. l + 1 \in 1 .. l + 1
      OBVIOUS
    <3>2. g[l + 1] = SplitStep(g, v, l + 1)
      BY <1>2, <3>1, Zenon
    <3>. QED
      BY <1>1, <3>2, Zenon DEF SplitStep
  <2>2. \A r \in Runs(v) : ~(r[1] >= l + 1)
    BY <1>1, RunIs
  <2>3. WordsFrom(<<>>, <<>>, v, l + 1)
    BY <2>2 DEF WordsFrom
  <2>. QED
    BY <2>1, <2>3
<1>4. ASSUME NEW k \in Nat, k \in S PROVE k + 1 \in S
  <2>. SUFFICES ASSUME NEW p \in 1 .. l + 1, p >= (l + 1) - (k + 1), Between(v, p)
                PROVE  \E run : WordsFrom(g[p], run, v, p)
    OBVIOUS
  <2>0. \A q \in 1 .. l + 1 : q > p /\ Between(v, q) => \E run : WordsFrom(g[q], run, v, q)
    BY <1>4
  <2>. HIDE DEF S
  <2>1. CASE p = l + 1
    <3>1. g[p] = <<>>
      BY <1>1, <1>2, <2>1 DEF SplitStep
    <3>2. \A r \in Runs(v) : ~(r[1] >= p)
      BY <1>1, <2>1, RunIs
    <3>3. WordsFrom(<<>>, <<>>, v, p)
      BY <3>2 DEF WordsFrom
    <3>. QED
      BY <3>1, <3>3
  <2>2. CASE p # l + 1 /\ ~Word(v[p])
    <3>1. p + 1 \in 1 .. l + 1 /\ p + 1 > p /\ (p + 1) - 1 = p
      BY <2>2
    <3>2. Between(v, p + 1)
      BY <2>2, <3>1 DEF Between
    <3>3. PICK run : WordsFrom(g[p + 1], run, v, p + 1)
      BY <2>0, <3>1, <3>2
    <3>4. g[p] = g[p + 1]
      BY <1>1, <1>2, <2>2 DEF SplitStep
    <3>5. \A r \in Runs(v) : r[1] >= p => r[1] >= p + 1
      <4>1. ASSUME NEW r \in Runs(v), r[1] >= p PROVE r[1] >= p + 1
        <5>1. r[1] \in Int /\ Word(v[r[1]])
          BY <1>1, RunIs
        <5>2. r[1] # p
          BY <2>2, <5>1
        <5>. QED
          BY <4>1, <5>1, <5>2
      <4>. QED
        BY <4>1
    <3>6. \A r \in Runs(v) : r[1] >= p + 1 => r[1] >= p
      BY <1>1, RunIs
    <3>7. WordsFrom(g[p + 1], run, v, p)
      BY <3>3, <3>5, <3>6 DEF WordsFrom
    <3>. QED
      BY <3>4, <3>7
  <2>3. CASE p # l + 1 /\ Word(v[p])
    <3>1. PICK e : e = EndOfWord(v, p)
      OBVIOUS
    <3>2. p \in 1 .. l /\ (p = 1 \/ ~Word(v[p - 1]))
      BY <1>1, <2>3 DEF Between
    <3>3. e \in 1 .. l + 1 /\ e > p /\ Between(v, e)
      <4>1. e \in p + 1 .. l + 1 /\ (e = l + 1 \/ ~Word(v[e]))
        BY <1>1, <2>3, <3>1, <3>2, EndOfWordIs
      <4>. QED
        BY <1>1, <4>1 DEF Between
    <3>4. PICK run : WordsFrom(g[e], run, v, e)
      BY <2>0, <3>3
    <3>5. g[p] = <<SubSeq(v, p, e - 1)>> \o g[e]
      BY <1>1, <1>2, <2>3, <3>1 DEF SplitStep
    <3>. QED
      BY <1>1, <2>3, <3>1, <3>2, <3>4, <3>5, WordBefore
  <2>. QED
    BY <2>1, <2>2, <2>3
<1>5. Nat \subseteq S
  <2>. HIDE DEF S
  <2>. QED
    BY <1>3, <1>4, SetInduction
<1>6. l \in S /\ 1 \in 1 .. l + 1 /\ 1 >= (l + 1) - l /\ Between(v, 1)
  <2>. HIDE DEF S
  <2>. QED
    BY <1>5 DEF Between
<1>7. \E run : WordsFrom(g[1], run, v, 1)
  BY <1>6
<1>. QED
  BY <1>2, <1>7

\* argv_add_split finds the words: the runs of characters that are no blanks.
LEMMA SplitRight ==
  ASSUME NEW v \in Seq(Chars)
  PROVE  /\ IsWordsOf(Split(v), v) /\ Split(v) \in Seq(Seq(Chars))
         /\ \A k \in 1 .. Len(Split(v)) : IsToken(Split(v)[k])
<1>1. PICK run : WordsFrom(Split(v), run, v, 1)
  BY SplitWords
<1>2. PICK words : words = Split(v)
  OBVIOUS
<1>3. /\ words \in Seq(Seq(Chars)) /\ \A k \in 1 .. Len(words) : IsToken(words[k])
      /\ DOMAIN words = 1 .. Len(words)
  BY <1>1, <1>2 DEF WordsFrom
<1>4. /\ run \in [DOMAIN words -> Runs(v)]
      /\ \A k \in DOMAIN words : words[k] = SubSeq(v, run[k][1], run[k][2])
      /\ \A j, k \in DOMAIN words : j < k => run[j][2] < run[k][1]
      /\ \A r \in Runs(v) : r[1] >= 1 => \E k \in DOMAIN words : run[k] = r
  BY <1>1, <1>2, <1>3, Zenon DEF WordsFrom
<1>5. \A r \in Runs(v) : r[1] >= 1
  <2>1. Len(v) \in Nat
    OBVIOUS
  <2>. QED
    BY <2>1, RunIs
<1>6. Range(run) = Runs(v)
  BY <1>4, <1>5 DEF Range
<1>. QED
  BY <1>2, <1>3, <1>4, <1>6, Zenon DEF IsWordsOf

-----------------------------------------------------------------------------
LEMMA EnvIs ==
  ASSUME env \in Environments
  PROVE  /\ env.bin \in Seq(Chars) /\ env.args \in Seq(Chars)
         /\ env.model \in Seq(Chars) /\ env.sink \in Seq(Chars)
<1>1. /\ env.bin \in Bins /\ env.args \in ArgLists /\ env.model \in Models /\ env.sink \in Sinks
  BY DEF Environments
<1>. QED
  BY <1>1, ValuesAssumption, Zenon DEF Chars

\* A value that is set is a token.
LEMMA ValueIsToken == ASSUME NEW v \in Seq(Chars), v # Unset PROVE IsToken(v)
<1>1. v # <<"?">>
  <2>. SUFFICES ASSUME v = <<"?">> PROVE FALSE
    OBVIOUS
  <2>1. v[1] \in Chars /\ v[1] = "?"
    <3>1. 1 \in 1 .. Len(v)
      OBVIOUS
    <3>. QED
      BY <3>1
  <2>. QED
    BY <2>1 DEF Chars
<1>. QED
  BY <1>1 DEF IsToken, Null, Junk, Unset

LEMMA SeqIsFunction == ASSUME NEW T, NEW s \in Seq(T) PROVE s = [k \in 1 .. Len(s) |-> s[k]]
  OBVIOUS

\* The tokens of PIPER_ARGS or PIPER_SINK, and of their defaults.
LEMMA ArgsAre ==
  ASSUME NEW v \in Seq(Chars), NEW d \in {DefaultArgs, DefaultSink}, NEW words,
         words = IF v = Unset THEN d ELSE Split(v)
  PROVE  \E n \in Nat : /\ Len(words) = n /\ words = [k \in 1 .. n |-> words[k]]
                        /\ \A k \in 1 .. n : IsToken(words[k])
<1>1. CASE v = Unset
  <2>1. words = d
    BY <1>1
  <2>2. /\ Len(d) = 2 /\ d = [k \in 1 .. 2 |-> d[k]] /\ 2 \in Nat
        /\ \A k \in 1 .. 2 : IsToken(d[k])
    BY DEF DefaultArgs, DefaultSink, IsToken, Null, Junk
  <2>. QED
    BY <2>1, <2>2, Zenon
<1>2. CASE v # Unset
  <2>1. words = Split(v)
    BY <1>2
  <2>2. words \in Seq(Seq(Chars)) /\ \A k \in 1 .. Len(words) : IsToken(words[k])
    BY <2>1, SplitRight
  <2>3. PICK n \in Nat : Len(words) = n
    BY <2>2
  <2>4. words = [k \in 1 .. n |-> words[k]]
    <3>1. words = [k \in 1 .. Len(words) |-> words[k]]
      BY <2>2, SeqIsFunction, Zenon
    <3>. QED
      BY <2>3, <3>1, Zenon
  <2>. QED
    BY <2>2, <2>3, <2>4, Zenon
<1>. QED
  BY <1>1, <1>2

\* The parts of piper's command line: bin, words and model, with n words and a
\* model of m tokens.
PartsAre(bin, words, model, n, m) ==
  /\ bin = <<IF env.bin = Unset THEN <<"piper">> ELSE env.bin>>
  /\ words = IF env.args = Unset THEN DefaultArgs ELSE Split(env.args)
  /\ model = IF env.model = Unset THEN <<>> ELSE <<<<"--model">>, env.model>>
  /\ PiperTokens = bin \o words \o model
  /\ Len(bin) = 1 /\ Len(words) = n /\ Len(model) = m
  /\ bin = [k \in 1 .. 1 |-> bin[k]] /\ words = [k \in 1 .. n |-> words[k]]
  /\ model = [k \in 1 .. m |-> model[k]]
  /\ IsToken(bin[1]) /\ \A k \in 1 .. n : IsToken(words[k])
  /\ \A k \in 1 .. m : IsToken(model[k])

\* The tokens of the two commands.
LEMMA TokensAre ==
  ASSUME env \in Environments
  PROVE  /\ \E n \in Nat : /\ Len(SinkTokens) = n /\ SinkTokens = [k \in 1 .. n |-> SinkTokens[k]]
                           /\ \A k \in 1 .. n : IsToken(SinkTokens[k])
         /\ \E n, m \in Nat : \E bin, words, model : PartsAre(bin, words, model, n, m)
<1>1. \E n \in Nat : /\ Len(SinkTokens) = n /\ SinkTokens = [k \in 1 .. n |-> SinkTokens[k]]
                     /\ \A k \in 1 .. n : IsToken(SinkTokens[k])
  BY EnvIs, ArgsAre, SMTT(30), ZenonT(30) DEF SinkTokens
<1>2. PICK words : words = IF env.args = Unset THEN DefaultArgs ELSE Split(env.args)
  OBVIOUS
<1>3. PICK n \in Nat : /\ Len(words) = n /\ words = [k \in 1 .. n |-> words[k]]
                       /\ \A k \in 1 .. n : IsToken(words[k])
  BY <1>2, EnvIs, ArgsAre, SMTT(30), ZenonT(30)
<1>4. PICK name : name = IF env.bin = Unset THEN <<"piper">> ELSE env.bin
  OBVIOUS
<1>5. IsToken(name)
  <2>1. IsToken(<<"piper">>)
    BY DEF IsToken, Null, Junk
  <2>. QED
    BY <1>4, <2>1, EnvIs, ValueIsToken
<1>6. PICK bin : bin = <<name>>
  OBVIOUS
<1>7. Len(bin) = 1 /\ bin = [k \in 1 .. 1 |-> bin[k]] /\ bin[1] = name
  BY <1>6
<1>8. PICK model : model = IF env.model = Unset THEN <<>> ELSE <<<<"--model">>, env.model>>
  OBVIOUS
<1>9. PICK m \in Nat : /\ Len(model) = m /\ model = [k \in 1 .. m |-> model[k]]
                       /\ \A k \in 1 .. m : IsToken(model[k])
  <2>1. CASE env.model = Unset
    <3>1. model = <<>>
      BY <1>8, <2>1
    <3>. QED
      BY <3>1
  <2>2. CASE env.model # Unset
    <3>1. PICK w : w = env.model
      OBVIOUS
    <3>2. model = <<<<"--model">>, w>>
      BY <1>8, <2>2, <3>1
    <3>3. IsToken(<<"--model">>) /\ IsToken(w)
      <4>1. IsToken(<<"--model">>)
        BY DEF IsToken, Null, Junk
      <4>. QED
        BY <2>2, <3>1, <4>1, EnvIs, ValueIsToken
    <3>4. /\ Len(model) = 2 /\ model = [k \in 1 .. 2 |-> model[k]] /\ 2 \in Nat
          /\ \A k \in 1 .. 2 : IsToken(model[k])
      BY <3>2, <3>3
    <3>. QED
      BY <3>4, Zenon
  <2>. QED
    BY <2>1, <2>2
<1>10. PiperTokens = bin \o words \o model
  BY <1>2, <1>4, <1>6, <1>8, Zenon DEF PiperTokens, Default
<1>11. bin = <<IF env.bin = Unset THEN <<"piper">> ELSE env.bin>>
  BY <1>4, <1>6, Zenon
<1>12. IsToken(bin[1])
  BY <1>5, <1>7
<1>13. PartsAre(bin, words, model, n, m)
  BY <1>2, <1>3, <1>7, <1>8, <1>9, <1>10, <1>11, <1>12, Zenon DEF PartsAre
<1>. QED
  BY <1>1, <1>13, Zenon

\* A command that was filled is one that execvp can take.
LEMMA FilledTerminated ==
  ASSUME NEW toks, NEW n \in Nat, n # 0, toks = [k \in 1 .. n |-> toks[k]],
         \A k \in 1 .. n : IsToken(toks[k])
  PROVE  Terminated(Filled(toks, n)) /\ Args(Filled(toks, n)) = toks
<1>1. PICK c : c = Filled(toks, n)
  OBVIOUS
<1>2. c.argc = n /\ c.argv = [i \in 1 .. n + 1 |-> IF i <= n THEN toks[i] ELSE Null]
  BY <1>1, FilledIs
<1>3. /\ Len(c.argv) = n + 1 /\ c.argv[n + 1] = Null
      /\ \A i \in 1 .. n : c.argv[i] = toks[i]
  BY <1>2
<1>4. Terminated(c)
  <2>1. Len(c.argv) > c.argc
    BY <1>2, <1>3
  <2>2. c.argv[c.argc + 1] = Null
    BY <1>2, <1>3
  <2>3. \A i \in 1 .. c.argc : c.argv[i] \notin {Null, Junk}
    BY <1>2, <1>3 DEF IsToken
  <2>. QED
    BY <2>1, <2>2, <2>3, Zenon DEF Terminated
<1>5. Args(c) = toks
  <2>1. PICK a : a = c.argv /\ a = [i \in 1 .. n + 1 |-> IF i <= n THEN toks[i] ELSE Null]
    BY <1>2
  <2>2. SubSeq(a, 1, n) = [i \in 1 .. n |-> a[i]]
    BY <2>1
  <2>3. SubSeq(a, 1, n) = toks
    BY <1>3, <2>1, <2>2
  <2>. QED
    BY <1>2, <2>1, <2>3, Zenon DEF Args
<1>. QED
  BY <1>1, <1>4, <1>5

LEMMA Documented == CmdIInv => ArgvAsDocumented
<1>. SUFFICES ASSUME CmdIInv, state = "piper" PROVE ArgvAsDocumented
  BY DEF ArgvAsDocumented
<1>1. /\ env \in Environments
      /\ piper = Filled(PiperTokens, Len(PiperTokens))
      /\ sink = Filled(SinkTokens, Len(SinkTokens)) /\ sink.argc # 0
  BY DEF CmdIInv
<1>2. Terminated(sink) /\ Args(sink) = SinkTokens
  <2>1. PICK n \in Nat : /\ Len(SinkTokens) = n /\ SinkTokens = [k \in 1 .. n |-> SinkTokens[k]]
                         /\ \A k \in 1 .. n : IsToken(SinkTokens[k])
    BY <1>1, TokensAre
  <2>2. sink = Filled(SinkTokens, n)
    BY <1>1, <2>1, Zenon
  <2>3. n # 0
    <3>1. sink.argc = n
      BY <2>2, FilledIs
    <3>. QED
      BY <1>1, <3>1
  <2>4. Terminated(Filled(SinkTokens, n)) /\ Args(Filled(SinkTokens, n)) = SinkTokens
    BY <2>1, <2>3, FilledTerminated
  <2>. QED
    BY <2>2, <2>4, Zenon
<1>3. PICK n, m \in Nat : \E bin, words, model : PartsAre(bin, words, model, n, m)
  BY <1>1, TokensAre, Zenon
<1>4. PICK bin, words, model : PartsAre(bin, words, model, n, m)
  BY <1>3, Zenon
<1>5. PICK all : all = bin \o words \o model
  OBVIOUS
<1>6. /\ Len(all) = 1 + n + m /\ all = [k \in 1 .. 1 + n + m |-> all[k]]
      /\ all[1] = bin[1] /\ \A k \in 1 .. n : all[k + 1] = words[k]
      /\ \A k \in 1 .. m : all[k + (1 + n)] = model[k]
  <2>0. /\ Len(bin) = 1 /\ Len(words) = n /\ Len(model) = m
        /\ bin = [k \in 1 .. 1 |-> bin[k]] /\ words = [k \in 1 .. n |-> words[k]]
        /\ model = [k \in 1 .. m |-> model[k]]
    BY <1>4, Zenon DEF PartsAre
  <2>1. PICK w : w = bin \o words
    OBVIOUS
  <2>2. /\ Len(w) = 1 + n /\ w[1] = bin[1] /\ \A k \in 1 .. n : w[k + 1] = words[k]
    BY <2>0, <2>1
  <2>3. all = w \o model
    BY <1>5, <2>1
  <2>4. Len(all) = 1 + n + m /\ all = [k \in 1 .. 1 + n + m |-> all[k]]
    BY <2>0, <2>2, <2>3
  <2>5. \A k \in 1 .. 1 + n : all[k] = w[k]
    BY <2>0, <2>2, <2>3
  <2>6. \A k \in 1 .. m : all[k + (1 + n)] = model[k]
    BY <2>0, <2>2, <2>3
  <2>7. all[1] = bin[1]
    <3>1. 1 \in 1 .. 1 + n
      OBVIOUS
    <3>. QED
      BY <2>2, <2>5, <3>1
  <2>8. ASSUME NEW k \in 1 .. n PROVE all[k + 1] = words[k]
    <3>1. k + 1 \in 1 .. 1 + n
      OBVIOUS
    <3>. QED
      BY <2>2, <2>5, <3>1
  <2>. QED
    BY <2>4, <2>6, <2>7, <2>8, Zenon
<1>7. ASSUME NEW k \in 1 .. 1 + n + m PROVE IsToken(all[k])
  <2>1. CASE k = 1
    BY <1>4, <1>6, <2>1, Zenon DEF PartsAre
  <2>2. CASE k \in 2 .. 1 + n
    <3>1. PICK j \in 1 .. n : k = j + 1
      <4>1. k - 1 \in 1 .. n /\ k = (k - 1) + 1
        BY <2>2
      <4>. QED
        BY <4>1
    <3>. QED
      BY <1>4, <1>6, <3>1, Zenon DEF PartsAre
  <2>3. CASE k > 1 + n
    <3>1. PICK j \in 1 .. m : k = j + (1 + n)
      <4>1. k - (1 + n) \in 1 .. m /\ k = (k - (1 + n)) + (1 + n)
        BY <2>3
      <4>. QED
        BY <4>1
    <3>. QED
      BY <1>4, <1>6, <3>1, Zenon DEF PartsAre
  <2>. QED
    BY <2>1, <2>2, <2>3
<1>8. Terminated(piper) /\ Args(piper) = all /\ piper.argc = 1 + n + m
  <2>1. PICK l \in Nat : l = 1 + n + m /\ l # 0
    OBVIOUS
  <2>2. Len(all) = l /\ all = [k \in 1 .. l |-> all[k]] /\ \A k \in 1 .. l : IsToken(all[k])
    BY <1>6, <1>7, <2>1
  <2>3. piper = Filled(all, l)
    BY <1>1, <1>4, <1>5, <2>2, Zenon DEF PartsAre
  <2>4. Terminated(Filled(all, l)) /\ Args(Filled(all, l)) = all /\ Filled(all, l).argc = l
    BY <2>1, <2>2, FilledTerminated, FilledIs
  <2>. QED
    BY <2>1, <2>3, <2>4
<1>9. SubSeq(Args(piper), 2, piper.argc - Len(model)) = words
  <2>1. piper.argc - Len(model) = n + 1
    <3>1. Len(model) = m
      BY <1>4, Zenon DEF PartsAre
    <3>. QED
      BY <1>8, <3>1
  <2>2. SubSeq(all, 2, n + 1) = [k \in 1 .. n |-> all[k + 1]]
    <3>1. Len(SubSeq(all, 2, n + 1)) = n
      BY <1>6
    <3>2. SubSeq(all, 2, n + 1) = [k \in 1 .. n |-> SubSeq(all, 2, n + 1)[k]]
      BY <1>6, <3>1
    <3>3. \A k \in 1 .. n : SubSeq(all, 2, n + 1)[k] = all[k + 1]
      BY <1>6
    <3>. QED
      BY <3>2, <3>3
  <2>3. words = [k \in 1 .. n |-> words[k]]
    BY <1>4, Zenon DEF PartsAre
  <2>4. SubSeq(all, 2, n + 1) = words
    BY <1>6, <2>2, <2>3
  <2>. QED
    BY <1>8, <2>1, <2>4
<1>10. IF env.args = Unset THEN words = DefaultArgs ELSE IsWordsOf(words, env.args)
  <2>1. words = IF env.args = Unset THEN DefaultArgs ELSE Split(env.args)
    BY <1>4, Zenon DEF PartsAre
  <2>. QED
    BY <1>1, <2>1, EnvIs, SplitRight
<1>11. IF env.sink = Unset THEN Args(sink) = DefaultSink ELSE IsWordsOf(Args(sink), env.sink)
  BY <1>1, <1>2, EnvIs, SplitRight DEF SinkTokens
<1>12. /\ Terminated(piper) /\ Terminated(sink) /\ Args(piper) = bin \o words \o model
       /\ bin = <<IF env.bin = Unset THEN <<"piper">> ELSE env.bin>>
       /\ model = IF env.model = Unset THEN <<>> ELSE <<<<"--model">>, env.model>>
  BY <1>2, <1>4, <1>5, <1>8, Zenon DEF PartsAre
<1>. QED
  BY <1>9, <1>10, <1>11, <1>12, Zenon DEF ArgvAsDocumented

LEMMA CmdNextIInv == CmdIInv /\ [CmdNext]_cmdVars => CmdIInv'
<1>. SUFFICES ASSUME CmdIInv, [CmdNext]_cmdVars PROVE CmdIInv'
  OBVIOUS
<1>1. Len(PiperTokens) \in Nat /\ Len(SinkTokens) \in Nat
  <2>1. env \in Environments
    BY DEF CmdIInv
  <2>2. Len(SinkTokens) \in Nat
    BY <2>1, TokensAre
  <2>3. PICK n, m \in Nat : \E bin, words, model : PartsAre(bin, words, model, n, m)
    BY <2>1, TokensAre, Zenon
  <2>4. PICK bin, words, model : PartsAre(bin, words, model, n, m)
    BY <2>3, Zenon
  <2>5. PICK all : all = PiperTokens
    OBVIOUS
  <2>6. /\ all = bin \o words \o model
        /\ Len(bin) = 1 /\ Len(words) = n /\ Len(model) = m
        /\ bin = [k \in 1 .. 1 |-> bin[k]] /\ words = [k \in 1 .. n |-> words[k]]
        /\ model = [k \in 1 .. m |-> model[k]]
    BY <2>4, <2>5, Zenon DEF PartsAre
  <2>7. Len(all) = 1 + n + m
    BY <2>6
  <2>. QED
    BY <2>2, <2>5, <2>7
<1>2. ASSUME UNCHANGED cmdVars PROVE CmdIInv'
  BY <1>2 DEF CmdIInv, cmdVars, PiperTokens, SinkTokens, BlocksOwned
<1>. QED
  BY <1>1, <1>2, InitBuilds, CloseFrees DEF CmdNext

LEMMA CmdInvariant == CmdSpec => []CmdIInv
<1>1. CmdInit => CmdIInv
  BY EmptyIs DEF CmdInit, CmdIInv, Environments, BlocksOwned
<1>. QED
  BY <1>1, CmdNextIInv, PTL DEF CmdSpec

\* Whatever the four variables say and whichever allocations fail: two command
\* lines that are taken are those README.md describes, and execvp can take them.
THEOREM CommandsAsDocumented == CmdSpec => []ArgvAsDocumented
  BY CmdInvariant, Documented, PTL

\* No block is lost or freed twice, over any number of starts.
THEOREM BlocksAreOwned == CmdSpec => []BlocksOwned
<1>1. CmdIInv => BlocksOwned
  BY DEF CmdIInv
<1>. QED
  BY <1>1, CmdInvariant, PTL

-----------------------------------------------------------------------------
(* Manifest.                                                               *)

PartNames == STRING \ {"/"}
Entries   == [name : Seq(PartNames) \ {<<>>}, link : BOOLEAN, data : {X64, Other}]

\* Parts and Lands are recursive functions: g is one, up to part n.
PartsStep(g, name, k) ==
  IF k = 0 THEN IF name[1] = "" THEN Root ELSE <<>>
  ELSE IF name[k] \in {"", "."} THEN g[k - 1] ELSE Append(g[k - 1], name[k])

LandsStep(g, name, k) ==
  IF k = 0 THEN IF name[1] = "" THEN Root ELSE <<>>
  ELSE IF g[k - 1] = Root \/ name[k] \in {"", "."} THEN g[k - 1]
  ELSE IF name[k] # ".." THEN Append(g[k - 1], name[k])
  ELSE IF g[k - 1] = <<>> THEN Root ELSE Front(g[k - 1])

IsParts(g, name, n) == g = [k \in 0 .. n |-> PartsStep(g, name, k)]
IsLands(g, name, n) == g = [k \in 0 .. n |-> LandsStep(g, name, k)]

LEMMA PartsExists ==
  ASSUME NEW name, NEW n \in Nat
  PROVE  \E g : IsParts(g, name, n)
<1>. DEFINE S == {k \in Nat : \E g : IsParts(g, name, k)}
<1>1. 0 \in S
  <2>1. IsParts([k \in 0 .. 0 |-> PartsStep(<<>>, name, 0)], name, 0)
    BY DEF IsParts, PartsStep
  <2>. QED
    BY <2>1
<1>2. ASSUME NEW k \in Nat, k \in S PROVE k + 1 \in S
  <2>1. PICK g : IsParts(g, name, k)
    BY <1>2
  <2>. DEFINE h == [j \in 0 .. k + 1 |-> IF j = k + 1 THEN PartsStep(g, name, k + 1) ELSE g[j]]
  <2>2. \A j \in 0 .. k : g[j] = PartsStep(g, name, j)
    BY <2>1 DEF IsParts
  <2>3. \A j \in 0 .. k : h[j] = g[j]
    OBVIOUS
  <2>4. ASSUME NEW j \in 0 .. k + 1 PROVE PartsStep(h, name, j) = PartsStep(g, name, j)
    <3>1. CASE j = 0
      BY <3>1 DEF PartsStep
    <3>2. CASE j # 0
      <4>1. j - 1 \in 0 .. k
        BY <3>2
      <4>2. h[j - 1] = g[j - 1]
        BY <2>3, <4>1, Zenon
      <4>. HIDE DEF h
      <4>. QED
        BY <4>2, Zenon DEF PartsStep
    <3>. QED
      BY <3>1, <3>2
  <2>5. \A j \in 0 .. k + 1 : h[j] = PartsStep(g, name, j)
    BY <2>2
  <2>6. h = [j \in 0 .. k + 1 |-> h[j]]
    OBVIOUS
  <2>. HIDE DEF h
  <2>7. IsParts(h, name, k + 1)
    BY <2>4, <2>5, <2>6 DEF IsParts
  <2>. QED
    BY <2>7
<1>. HIDE DEF S
<1>3. Nat \subseteq S
  BY <1>1, <1>2, SetInduction
<1>. QED
  BY <1>3 DEF S

LEMMA PartsIs ==
  ASSUME NEW name, Len(name) \in Nat
  PROVE  \E g : /\ Parts(name) = g[Len(name)]
                /\ \A k \in 0 .. Len(name) : g[k] = PartsStep(g, name, k)
<1>1. PICK f : IsParts(f, name, Len(name))
  BY PartsExists
<1>. DEFINE g == CHOOSE h : IsParts(h, name, Len(name))
<1>2. IsParts(g, name, Len(name))
  BY <1>1, Zenon
<1>3. Parts(name) = g[Len(name)]
  BY DEF Parts, IsParts, PartsStep
<1>. HIDE DEF g
<1>4. \A k \in 0 .. Len(name) : g[k] = PartsStep(g, name, k)
  BY <1>2 DEF IsParts
<1>. QED
  BY <1>3, <1>4

LEMMA LandsExists ==
  ASSUME NEW name, NEW n \in Nat
  PROVE  \E g : IsLands(g, name, n)
<1>. DEFINE S == {k \in Nat : \E g : IsLands(g, name, k)}
<1>1. 0 \in S
  <2>1. IsLands([k \in 0 .. 0 |-> LandsStep(<<>>, name, 0)], name, 0)
    BY DEF IsLands, LandsStep
  <2>. QED
    BY <2>1
<1>2. ASSUME NEW k \in Nat, k \in S PROVE k + 1 \in S
  <2>1. PICK g : IsLands(g, name, k)
    BY <1>2
  <2>. DEFINE h == [j \in 0 .. k + 1 |-> IF j = k + 1 THEN LandsStep(g, name, k + 1) ELSE g[j]]
  <2>2. \A j \in 0 .. k : g[j] = LandsStep(g, name, j)
    BY <2>1 DEF IsLands
  <2>3. \A j \in 0 .. k : h[j] = g[j]
    OBVIOUS
  <2>4. ASSUME NEW j \in 0 .. k + 1 PROVE LandsStep(h, name, j) = LandsStep(g, name, j)
    <3>1. CASE j = 0
      BY <3>1 DEF LandsStep
    <3>2. CASE j # 0
      <4>1. j - 1 \in 0 .. k
        BY <3>2
      <4>2. h[j - 1] = g[j - 1]
        BY <2>3, <4>1, Zenon
      <4>. HIDE DEF h
      <4>. QED
        BY <4>2, Zenon DEF LandsStep
    <3>. QED
      BY <3>1, <3>2
  <2>5. \A j \in 0 .. k + 1 : h[j] = LandsStep(g, name, j)
    BY <2>2
  <2>6. h = [j \in 0 .. k + 1 |-> h[j]]
    OBVIOUS
  <2>. HIDE DEF h
  <2>7. IsLands(h, name, k + 1)
    BY <2>4, <2>5, <2>6 DEF IsLands
  <2>. QED
    BY <2>7
<1>. HIDE DEF S
<1>3. Nat \subseteq S
  BY <1>1, <1>2, SetInduction
<1>. QED
  BY <1>3 DEF S

LEMMA LandsIs ==
  ASSUME NEW name, Len(name) \in Nat
  PROVE  \E g : /\ Lands(name) = g[Len(name)]
                /\ \A k \in 0 .. Len(name) : g[k] = LandsStep(g, name, k)
<1>1. PICK f : IsLands(f, name, Len(name))
  BY LandsExists
<1>. DEFINE g == CHOOSE h : IsLands(h, name, Len(name))
<1>2. IsLands(g, name, Len(name))
  BY <1>1, Zenon
<1>3. Lands(name) = g[Len(name)]
  BY DEF Lands, IsLands, LandsStep
<1>. HIDE DEF g
<1>4. \A k \in 0 .. Len(name) : g[k] = LandsStep(g, name, k)
  BY <1>2 DEF IsLands
<1>. QED
  BY <1>3, <1>4

\* A safe entry lands where its parts say, below XLinSpeak.
LEMMA SafeLands ==
  ASSUME NEW e \in Entries, ~Unsafe(e)
  PROVE  /\ Lands(e.name) = Parts(e.name) /\ ~e.link
         /\ Parts(e.name) \in Seq(PartNames) \ {<<>>} /\ Parts(e.name)[1] = "XLinSpeak"
<1>1. PICK name : name = e.name
  OBVIOUS
<1>2. name \in Seq(PartNames) /\ name # <<>>
  BY <1>1 DEF Entries
<1>3. Len(name) \in Nat /\ \A k \in 1 .. Len(name) : name[k] \in PartNames
  BY <1>2
<1>4. /\ name[1] # "" /\ ~e.link /\ Parts(name) # <<>> /\ Parts(name)[1] = "XLinSpeak"
      /\ ".." \notin ToSet(name)
  BY <1>1 DEF Unsafe
<1>5. \A k \in 1 .. Len(name) : name[k] # ".."
  <2>1. DOMAIN name = 1 .. Len(name)
    BY <1>2
  <2>. QED
    BY <1>4, <2>1 DEF ToSet
<1>6. PICK g : /\ Parts(name) = g[Len(name)]
               /\ \A k \in 0 .. Len(name) : g[k] = PartsStep(g, name, k)
  BY <1>3, PartsIs
<1>7. PICK h : /\ Lands(name) = h[Len(name)]
               /\ \A k \in 0 .. Len(name) : h[k] = LandsStep(h, name, k)
  BY <1>3, LandsIs
<1>. DEFINE S == {k \in Nat : k <= Len(name) => h[k] = g[k] /\ g[k] \in Seq(PartNames)}
<1>8. 0 \in S
  <2>1. 0 \in 0 .. Len(name)
    BY <1>3
  <2>2. g[0] = <<>> /\ h[0] = <<>>
    BY <1>4, <1>6, <1>7, <2>1, Zenon DEF PartsStep, LandsStep
  <2>3. <<>> \in Seq(PartNames)
    OBVIOUS
  <2>4. h[0] = g[0] /\ g[0] \in Seq(PartNames)
    BY <2>2, <2>3, Zenon
  <2>. QED
    BY <2>4
<1>9. ASSUME NEW k \in Nat, k \in S PROVE k + 1 \in S
  <2>. SUFFICES ASSUME k + 1 <= Len(name)
                PROVE  h[k + 1] = g[k + 1] /\ g[k + 1] \in Seq(PartNames)
    OBVIOUS
  <2>1. h[k] = g[k] /\ g[k] \in Seq(PartNames)
    BY <1>3, <1>9
  <2>2. /\ k + 1 \in 0 .. Len(name) /\ k + 1 \in 1 .. Len(name) /\ (k + 1) - 1 = k
        /\ k + 1 # 0
    BY <1>3
  <2>3. g[k + 1] = IF name[k + 1] \in {"", "."} THEN g[k] ELSE Append(g[k], name[k + 1])
    BY <1>6, <2>2, Zenon DEF PartsStep
  <2>4. name[k + 1] \in PartNames /\ name[k + 1] # ".."
    BY <1>3, <1>5, <2>2, Zenon
  <2>5. g[k] # Root
    <3>1. ASSUME g[k] = Root PROVE FALSE
      <4>1. Len(g[k]) = 1 /\ g[k][1] = "/"
        BY <3>1 DEF Root
      <4>2. g[k][1] \in PartNames
        BY <2>1, <4>1
      <4>. QED
        BY <4>1, <4>2 DEF PartNames
    <3>. QED
      BY <3>1
  <2>6. h[k + 1] = IF name[k + 1] \in {"", "."} THEN h[k] ELSE Append(h[k], name[k + 1])
    <3>1. h[k + 1] = LandsStep(h, name, k + 1)
      BY <1>7, <2>2, Zenon
    <3>2. h[k] # Root
      BY <2>1, <2>5, Zenon
    <3>. QED
      BY <2>2, <2>4, <3>1, <3>2 DEF LandsStep
  <2>7. h[k + 1] = g[k + 1]
    BY <2>1, <2>3, <2>6, Zenon
  <2>8. g[k + 1] \in Seq(PartNames)
    <3>1. PICK s \in Seq(PartNames) : s = g[k]
      BY <2>1
    <3>2. Append(s, name[k + 1]) \in Seq(PartNames)
      BY <2>4
    <3>. QED
      BY <2>1, <2>3, <3>1, <3>2, Zenon
  <2>. QED
    BY <2>7, <2>8
<1>. HIDE DEF S
<1>10. Len(name) \in S
  BY <1>3, <1>8, <1>9, SetInduction
<1>11. Lands(name) = Parts(name) /\ Parts(name) \in Seq(PartNames)
  <2>1. h[Len(name)] = g[Len(name)] /\ g[Len(name)] \in Seq(PartNames)
    BY <1>3, <1>10 DEF S
  <2>. QED
    BY <1>6, <1>7, <2>1, Zenon
<1>. QED
  BY <1>1, <1>4, <1>11, Zenon

Listing(e)       == <<Relative(e.name), e.data>>
Listings         == Seq(PartNames) \X {X64, Other}
FilesUpTo(a, n)  == {i \in 1 .. n - 1 : ~IsDir(a[i].name)}

\* What the loop has of archive a when it is at entry n: the paths, the list.
Listed(a, n, paths, list) ==
  /\ n \in 1 .. Len(a) + 1 /\ list \in Seq(Listings)
  /\ \A i \in 1 .. n - 1 : ~Unsafe(a[i])
  /\ ToSet(list) = {Listing(a[i]) : i \in FilesUpTo(a, n)}
  /\ paths = {Relative(a[i].name) : i \in FilesUpTo(a, n)}
  /\ IsFiniteSet(paths) /\ Cardinality(paths) = Len(list)
  /\ IsFiniteSet(FilesUpTo(a, n)) /\ Cardinality(FilesUpTo(a, n)) = Len(list)
  /\ \A i \in FilesUpTo(a, n) : Relative(a[i].name) = <<Plugin>> => a[i].data = X64

ManifestInv ==
  /\ archive \in Archives
  /\ manifestPc = "start" => next = 1 /\ seen = {} /\ files = <<>>
  /\ manifestPc \in {"entries", "made", "written"} => Listed(archive, next, seen, files)
  /\ manifestPc \in {"made", "written"} =>
       next = Len(archive) + 1 /\ {<<Plugin>>, <<Readme>>} \subseteq seen

LEMMA ArchiveIs ==
  ASSUME NEW a \in Archives
  PROVE  Len(a) \in Nat /\ DOMAIN a = 1 .. Len(a) /\ \A i \in 1 .. Len(a) : a[i] \in Entries
<1>1. a \in Seq(Entries)
  BY ArchivesAssumption, Zenon DEF Entries, PartNames
<1>. QED
  BY <1>1

LEMMA NothingListed == ASSUME NEW a \in Archives PROVE Listed(a, 1, {}, <<>>)
<1>1. FilesUpTo(a, 1) = {}
  BY DEF FilesUpTo
<1>2. IsFiniteSet({}) /\ Cardinality({}) = 0
  BY FS_EmptySet
<1>3. 1 \in 1 .. Len(a) + 1 /\ <<>> \in Seq(Listings) /\ Len(<<>>) = 0
  BY ArchiveIs
<1>4. ToSet(<<>>) = {}
  BY DEF ToSet
<1>5. 1 .. 1 - 1 = {}
  OBVIOUS
<1>. QED
  BY <1>1, <1>2, <1>3, <1>4, <1>5, Zenon DEF Listed

\* The next entry is one more file, or it is none.
LEMMA OneMore ==
  ASSUME NEW a \in Archives, NEW n \in 1 .. Len(a)
  PROVE  /\ 1 .. (n + 1) - 1 = (1 .. n - 1) \cup {n} /\ n \notin 1 .. n - 1
         /\ FilesUpTo(a, n + 1) =
              IF IsDir(a[n].name) THEN FilesUpTo(a, n) ELSE FilesUpTo(a, n) \cup {n}
<1>1. Len(a) \in Nat
  BY ArchiveIs
<1>2. 1 .. (n + 1) - 1 = (1 .. n - 1) \cup {n} /\ n \notin 1 .. n - 1
  BY <1>1
<1>. QED
  BY <1>2, Zenon DEF FilesUpTo

LEMMA DirectoryPassed ==
  ASSUME NEW a \in Archives, NEW n \in 1 .. Len(a), NEW paths, NEW list,
         Listed(a, n, paths, list), ~Unsafe(a[n]), IsDir(a[n].name)
  PROVE  Listed(a, n + 1, paths, list)
<1>1. n + 1 \in 1 .. Len(a) + 1
  BY ArchiveIs
<1>2. FilesUpTo(a, n + 1) = FilesUpTo(a, n)
  BY OneMore, Zenon
<1>3. \A i \in 1 .. (n + 1) - 1 : ~Unsafe(a[i])
  BY OneMore, Zenon DEF Listed
<1>. QED
  BY <1>1, <1>2, <1>3, Zenon DEF Listed

LEMMA ToSetAppend ==
  ASSUME NEW T, NEW s \in Seq(T), NEW x \in T
  PROVE  ToSet(Append(s, x)) = ToSet(s) \cup {x} /\ Append(s, x) \in Seq(T)
         /\ Len(Append(s, x)) = Len(s) + 1
<1>1. Append(s, x) \in Seq(T) /\ Len(Append(s, x)) = Len(s) + 1 /\ Len(s) \in Nat
  OBVIOUS
<1>2. DOMAIN s = 1 .. Len(s) /\ DOMAIN Append(s, x) = 1 .. Len(s) + 1
  BY <1>1
<1>3. 1 .. Len(s) + 1 = (1 .. Len(s)) \cup {Len(s) + 1}
  BY <1>1
<1>4. Append(s, x)[Len(s) + 1] = x /\ \A k \in 1 .. Len(s) : Append(s, x)[k] = s[k]
  OBVIOUS
<1>5. ToSet(Append(s, x)) = ToSet(s) \cup {x}
  BY <1>2, <1>3, <1>4, ZenonT(40) DEF ToSet
<1>. QED
  BY <1>1, <1>5

LEMMA FileListed ==
  ASSUME NEW a \in Archives, NEW n \in 1 .. Len(a), NEW paths, NEW list,
         Listed(a, n, paths, list), ~Unsafe(a[n]), ~IsDir(a[n].name),
         Relative(a[n].name) \notin paths,
         Relative(a[n].name) = <<Plugin>> => a[n].data = X64
  PROVE  Listed(a, n + 1, paths \cup {Relative(a[n].name)}, Append(list, Listing(a[n])))
<1>1. n + 1 \in 1 .. Len(a) + 1 /\ n \in Nat
  BY ArchiveIs
<1>2. FilesUpTo(a, n + 1) = FilesUpTo(a, n) \cup {n} /\ n \notin FilesUpTo(a, n)
  BY OneMore, Zenon DEF FilesUpTo
<1>3. \A i \in 1 .. (n + 1) - 1 : ~Unsafe(a[i])
  <2>1. \A i \in 1 .. n - 1 : ~Unsafe(a[i])
    BY Zenon DEF Listed
  <2>2. 1 .. (n + 1) - 1 = (1 .. n - 1) \cup {n}
    BY OneMore, Zenon
  <2>. QED
    BY <2>1, <2>2, Zenon
<1>4. a[n] \in Entries
  BY ArchiveIs, Zenon
<1>5. Listing(a[n]) \in Listings
  <2>1. Parts(a[n].name) \in Seq(PartNames) \ {<<>>}
    BY <1>4, SafeLands, Zenon
  <2>2. Tail(Parts(a[n].name)) \in Seq(PartNames)
    BY <2>1
  <2>3. a[n].data \in {X64, Other}
    BY <1>4 DEF Entries
  <2>. QED
    BY <2>2, <2>3 DEF Listing, Listings, Relative
<1>6. list \in Seq(Listings)
  BY DEF Listed
<1>7. /\ ToSet(Append(list, Listing(a[n]))) = ToSet(list) \cup {Listing(a[n])}
      /\ Append(list, Listing(a[n])) \in Seq(Listings)
      /\ Len(Append(list, Listing(a[n]))) = Len(list) + 1
  BY <1>5, <1>6, ToSetAppend
<1>8. ToSet(Append(list, Listing(a[n]))) = {Listing(a[i]) : i \in FilesUpTo(a, n + 1)}
  BY <1>2, <1>7, Zenon DEF Listed
<1>9. paths \cup {Relative(a[n].name)} = {Relative(a[i].name) : i \in FilesUpTo(a, n + 1)}
  BY <1>2, Zenon DEF Listed
<1>10. /\ IsFiniteSet(paths \cup {Relative(a[n].name)})
       /\ Cardinality(paths \cup {Relative(a[n].name)}) = Len(list) + 1
  <2>1. IsFiniteSet(paths) /\ Cardinality(paths) = Len(list)
    BY Zenon DEF Listed
  <2>. QED
    BY <2>1, FS_AddElement
<1>11. /\ IsFiniteSet(FilesUpTo(a, n + 1))
       /\ Cardinality(FilesUpTo(a, n + 1)) = Len(list) + 1
  <2>1. IsFiniteSet(FilesUpTo(a, n)) /\ Cardinality(FilesUpTo(a, n)) = Len(list)
    BY Zenon DEF Listed
  <2>2. /\ IsFiniteSet(FilesUpTo(a, n) \cup {n})
        /\ Cardinality(FilesUpTo(a, n) \cup {n}) = Cardinality(FilesUpTo(a, n)) + 1
    BY <1>2, <2>1, FS_AddElement
  <2>. QED
    BY <1>2, <2>1, <2>2, Zenon
<1>12. \A i \in FilesUpTo(a, n + 1) : Relative(a[i].name) = <<Plugin>> => a[i].data = X64
  BY <1>2, Zenon DEF Listed
<1>. QED
  BY <1>1, <1>3, <1>7, <1>8, <1>9, <1>10, <1>11, <1>12, Zenon DEF Listed

LEMMA ManifestInitInv == ManifestInit => ManifestInv
  BY DEF ManifestInit, ManifestInv

LEMMA ManifestNextInv == ManifestInv /\ [ManifestNext]_manifestVars => ManifestInv'
<1>. SUFFICES ASSUME ManifestInv, [ManifestNext]_manifestVars PROVE ManifestInv'
  OBVIOUS
<1>0. archive \in Archives
  BY DEF ManifestInv
<1>1. CASE Version
  BY <1>0, <1>1, NothingListed DEF Version, ManifestInv
<1>2. CASE CheckEntry
  <2>1. /\ manifestPc = "entries" /\ next <= Len(archive) /\ archive' = archive
        /\ Listed(archive, next, seen, files)
    BY <1>2 DEF CheckEntry, ManifestInv
  <2>2. next \in 1 .. Len(archive)
    BY <1>0, <2>1, ArchiveIs DEF Listed
  <2>3. CASE Rejected(Entry)
    BY <1>0, <1>2, <2>1, <2>3 DEF CheckEntry, ManifestInv
  <2>4. CASE ~Rejected(Entry)
    <3>1. next' = next + 1 /\ manifestPc' = "entries" /\ ~Unsafe(archive[next])
      BY <1>2, <2>1, <2>4, Zenon DEF CheckEntry, Rejected, Entry
    <3>2. CASE IsDir(archive[next].name)
      <4>1. seen' = seen /\ files' = files
        BY <1>2, <2>4, <3>2, Zenon DEF CheckEntry, Entry
      <4>2. Listed(archive, next + 1, seen, files)
        BY <1>0, <2>1, <2>2, <3>1, <3>2, DirectoryPassed, Zenon
      <4>3. Listed(archive, next, seen, files)'
        BY <2>1, <3>1, <4>1, <4>2, Zenon
      <4>. QED
        BY <1>0, <2>1, <3>1, <4>3 DEF ManifestInv
    <3>3. CASE ~IsDir(archive[next].name)
      <4>1. /\ seen' = seen \cup {Relative(archive[next].name)}
            /\ files' = Append(files, Listing(archive[next]))
        BY <1>2, <2>4, <3>3, Zenon DEF CheckEntry, Entry, Listing
      <4>2. /\ Relative(archive[next].name) \notin seen
            /\ Relative(archive[next].name) = <<Plugin>> => archive[next].data = X64
        BY <2>4, <3>3, Zenon DEF Rejected, Entry
      <4>3. Listed(archive, next + 1, seen \cup {Relative(archive[next].name)},
                   Append(files, Listing(archive[next])))
        BY <1>0, <2>1, <2>2, <3>1, <3>3, <4>2, FileListed, Zenon
      <4>4. Listed(archive, next, seen, files)'
        BY <2>1, <3>1, <4>1, <4>3, Zenon
      <4>. QED
        BY <1>0, <2>1, <3>1, <4>4 DEF ManifestInv
    <3>. QED
      BY <3>2, <3>3
  <2>. QED
    BY <2>3, <2>4
<1>3. CASE EndOfArchive
  <2>1. /\ manifestPc = "entries" /\ next > Len(archive)
        /\ UNCHANGED <<archive, next, seen, files>> /\ Listed(archive, next, seen, files)
        /\ manifestPc' = IF {<<Plugin>>, <<Readme>>} \subseteq seen THEN "made" ELSE "refused"
    BY <1>3 DEF EndOfArchive, ManifestInv
  <2>2. next = Len(archive) + 1
    BY <1>0, <2>1, ArchiveIs DEF Listed
  <2>3. Listed(archive, next, seen, files)'
    BY <2>1, Zenon
  <2>. QED
    BY <1>0, <2>1, <2>2, <2>3 DEF ManifestInv
<1>4. CASE WriteManifest
  <2>1. Listed(archive, next, seen, files)'
    BY <1>4 DEF WriteManifest, ManifestInv
  <2>. QED
    BY <1>0, <1>4, <2>1 DEF WriteManifest, ManifestInv
<1>5. CASE UNCHANGED manifestVars
  BY <1>5, Zenon DEF manifestVars, ManifestInv
<1>. QED
  BY <1>1, <1>2, <1>3, <1>4, <1>5, Zenon DEF ManifestNext

\* What a safe file's listing says of where it lands.
LEMMA ListedWhereItLands ==
  ASSUME NEW e \in Entries, ~Unsafe(e)
  PROVE  /\ ~e.link /\ IsPrefix(<<"XLinSpeak">>, Lands(e.name))
         /\ <<Tail(Lands(e.name)), e.data>> = Listing(e)
         /\ Relative(e.name) = <<Readme>> => Lands(e.name) = <<"XLinSpeak", Readme>>
<1>1. PICK p \in Seq(PartNames) \ {<<>>} :
        p = Parts(e.name) /\ p = Lands(e.name) /\ p[1] = "XLinSpeak" /\ ~e.link
  BY SafeLands, Zenon
<1>2. IsPrefix(<<"XLinSpeak">>, p)
  BY <1>1 DEF IsPrefix
<1>3. ASSUME Tail(p) = <<Readme>> PROVE p = <<"XLinSpeak", Readme>>
  <2>1. Len(p) = 2 /\ p[2] = Readme
    <3>0. Len(<<Readme>>) = 1 /\ <<Readme>>[1] = Readme
      OBVIOUS
    <3>1. Len(Tail(p)) = 1 /\ Tail(p)[1] = Readme
      BY <1>3, <3>0, Zenon
    <3>2. Len(p) \in Nat /\ Len(p) > 0 /\ Len(Tail(p)) = Len(p) - 1
      BY <1>1
    <3>3. Len(p) = 2
      BY <3>1, <3>2
    <3>4. Tail(p)[1] = p[2]
      BY <1>1, <3>3
    <3>. QED
      BY <3>1, <3>3, <3>4
  <2>2. p = [k \in 1 .. Len(p) |-> p[k]]
    BY <1>1
  <2>3. p = [k \in 1 .. 2 |-> p[k]]
    BY <2>1, <2>2, Zenon
  <2>. QED
    BY <1>1, <2>1, <2>3
<1>. QED
  BY <1>1, <1>2, <1>3, Zenon DEF Listing, Relative

LEMMA ListedIsTrue == ManifestInv => ManifestIsTrue
<1>. SUFFICES ASSUME ManifestInv, manifestPc = "written" PROVE ManifestIsTrue
  BY Zenon DEF ManifestIsTrue
<1>1. /\ archive \in Archives /\ next = Len(archive) + 1
      /\ Listed(archive, next, seen, files) /\ {<<Plugin>>, <<Readme>>} \subseteq seen
  BY DEF ManifestInv
<1>2. Len(archive) \in Nat /\ DOMAIN archive = 1 .. Len(archive)
  BY <1>1, ArchiveIs
<1>3. 1 .. next - 1 = 1 .. Len(archive)
  BY <1>1, <1>2
<1>4. FilesOf(archive) = FilesUpTo(archive, next)
  BY <1>2, <1>3, Zenon DEF FilesOf, FilesUpTo
<1>5. ASSUME NEW i \in FilesOf(archive)
      PROVE  archive[i] \in Entries /\ ~Unsafe(archive[i])
  <2>1. i \in 1 .. Len(archive)
    BY <1>2, Zenon DEF FilesOf
  <2>. QED
    BY <1>1, <1>3, <2>1, ArchiveIs, Zenon DEF Listed
<1>6. ToSet(files) = {Listing(archive[i]) : i \in FilesOf(archive)}
  BY <1>1, <1>4, Zenon DEF Listed
<1>7. ASSUME NEW i \in FilesOf(archive)
      PROVE  /\ ~archive[i].link /\ IsPrefix(<<"XLinSpeak">>, Lands(archive[i].name))
             /\ <<Tail(Lands(archive[i].name)), archive[i].data>> \in ToSet(files)
  BY <1>5, <1>6, ListedWhereItLands, Zenon
<1>8. Len(files) = Cardinality(FilesOf(archive))
  BY <1>1, <1>4, Zenon DEF Listed
<1>9. Cardinality({f[1] : f \in ToSet(files)}) = Len(files)
  <2>1. \A i \in FilesOf(archive) : Listing(archive[i])[1] = Relative(archive[i].name)
    BY DEF Listing
  <2>2. {f[1] : f \in ToSet(files)} = {Relative(archive[i].name) : i \in FilesOf(archive)}
    <3>1. ASSUME NEW x \in {f[1] : f \in ToSet(files)}
          PROVE  x \in {Relative(archive[i].name) : i \in FilesOf(archive)}
      <4>1. PICK f \in ToSet(files) : x = f[1]
        BY <3>1, Zenon
      <4>2. PICK i \in FilesOf(archive) : f = Listing(archive[i])
        BY <1>6, <4>1, Zenon
      <4>. QED
        BY <2>1, <4>1, <4>2, Zenon
    <3>2. ASSUME NEW i \in FilesOf(archive)
          PROVE  Relative(archive[i].name) \in {f[1] : f \in ToSet(files)}
      <4>1. Listing(archive[i]) \in ToSet(files)
        BY <1>6, Zenon
      <4>. QED
        BY <2>1, <4>1, Zenon
    <3>. QED
      BY <3>1, <3>2, Zenon
  <2>. QED
    BY <1>1, <1>4, <2>2, Zenon DEF Listed
<1>10. <<<<Plugin>>, X64>> \in ToSet(files)
  <2>1. PICK i \in FilesOf(archive) : Relative(archive[i].name) = <<Plugin>>
    BY <1>1, <1>4, Zenon DEF Listed
  <2>2. archive[i].data = X64
    BY <1>1, <1>4, <2>1, Zenon DEF Listed
  <2>3. Listing(archive[i]) = <<<<Plugin>>, X64>>
    BY <2>1, <2>2, Zenon DEF Listing
  <2>. QED
    BY <1>6, <2>3, Zenon
<1>11. \E i \in FilesOf(archive) : Lands(archive[i].name) = <<"XLinSpeak", Readme>>
  <2>1. PICK i \in FilesOf(archive) : Relative(archive[i].name) = <<Readme>>
    BY <1>1, <1>4, Zenon DEF Listed
  <2>. QED
    BY <1>5, <2>1, ListedWhereItLands, Zenon
<1>. QED
  BY <1>7, <1>8, <1>9, <1>10, <1>11, Zenon DEF ManifestIsTrue

\* create_mtk_manifest.py: for an archive with any entries, a manifest that is
\* written lists every file where unpacking puts it, each place once, with the
\* content found there afterwards, and names the plugin and its README.
THEOREM ManifestRight == ManifestSpec => []ManifestIsTrue
<1>1. ManifestSpec => []ManifestInv
  BY ManifestInitInv, ManifestNextInv, PTL DEF ManifestSpec
<1>. QED
  BY <1>1, ListedIsTrue, PTL
=============================================================================
