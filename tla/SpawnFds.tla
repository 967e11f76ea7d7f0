------------------------------ MODULE SpawnFds ------------------------------
(***************************************************************************)
(* The descriptor numbers of speak_piper: pipe takes the lowest free ones, *)
(* spawn_process duplicates some of them to 0 and 1 of the child and       *)
(* closes others there by number, and speak_piper closes its own by number *)
(* while other threads of the host open and close files.  SpeakPiper says  *)
(* when each end is open and where; here is that the numbers mean it.      *)
(*                                                                         *)
(* The host was started with 0, 1 and 2 open.                              *)
(***************************************************************************)
EXTENDS Integers, FiniteSets, FiniteSetsExt

CONSTANTS
  MaxFd   \* the limit of open files, less one

ASSUME MaxFdAssumption == MaxFd \in Nat /\ MaxFd >= 2

Numbers == 0 .. MaxFd
Ends    == {"inR", "inW", "outR", "outW"}

VARIABLES
  at,       \* where the worker is in speak_piper
  fds,      \* what each number of the host is: an end, "file", or "free"
  cloexec,  \* the numbers with FD_CLOEXEC
  no,       \* the number each end has in inpipe and outpipe
  child,    \* the numbers of Piper and the sink after exec
  strayed   \* a close hit a descriptor that was not the one meant

fdVars == <<at, fds, cloexec, no, child, strayed>>

None == [n \in Numbers |-> "free"]

FdInit ==
  /\ at = "idle"
  /\ fds = [n \in Numbers |-> IF n <= 2 THEN "file" ELSE "free"]
  /\ cloexec = {} /\ no = [e \in Ends |-> 0]
  /\ child = [c \in {"piper", "sink"} |-> None]
  /\ strayed = FALSE

Goto(from, to) == at = from /\ at' = to

FreeIn(table) == {n \in Numbers : table[n] = "free"}

\* close of the numbers kept for these ends.
CloseEnds(es) ==
  /\ fds' = [n \in Numbers |-> IF \E e \in es : no[e] = n THEN "free" ELSE fds[n]]
  /\ cloexec' = cloexec \ {no[e] : e \in es}
  /\ strayed' = (strayed \/ \E e \in es : fds[no[e]] # e)

\* pipe: its read end is the lowest free number, its write end the next.
Pipe(r, w) ==
  LET free == FreeIn(fds)
      nr == Min(free)
      nw == Min(free \ {nr})
  IN /\ Cardinality(free) >= 2
     /\ fds' = [fds EXCEPT ![nr] = r, ![nw] = w]
     /\ cloexec' = cloexec \ {nr, nw}
     /\ no' = [no EXCEPT ![r] = nr, ![w] = nw]

\* Mutant: close_all has the two ends of the child only.
WiredCloseOwn(in, out) ==
  [n \in Numbers |->
    CASE n = 0 -> fds[no[in]]
      [] n = 1 /\ out # "none" -> fds[no[out]]
      [] OTHER -> IF n = no[in] \/ (out # "none" /\ n = no[out]) THEN "free" ELSE fds[n]]

\* posix_spawnp: dup2 the standard streams, close close_all, exec.
Wired(in, out) ==
  LET std  == IF out = "none" THEN {0} ELSE {0, 1}
      dup0 == [fds EXCEPT ![0] = fds[no[in]]]
      dup1 == IF out = "none" THEN dup0 ELSE [dup0 EXCEPT ![1] = dup0[no[out]]]
  IN [n \in Numbers |->
       IF (\E e \in Ends : no[e] = n) \/ n \in cloexec \ std THEN "free" ELSE dup1[n]]

-----------------------------------------------------------------------------
(* speak_piper.                                                            *)

SpeakPiper ==
  /\ Goto("idle", "pipe in")
  /\ child' = [c \in {"piper", "sink"} |-> None]
  /\ UNCHANGED <<fds, cloexec, no, strayed>>

PipeIn ==
  /\ \/ Goto("pipe in", "pipe out") /\ Pipe("inR", "inW")
     \/ Goto("pipe in", "idle") /\ UNCHANGED <<fds, cloexec, no>>
  /\ UNCHANGED <<child, strayed>>

PipeOut ==
  /\ \/ Goto("pipe out", "cloexec") /\ Pipe("outR", "outW") /\ UNCHANGED strayed
     \/ Goto("pipe out", "idle") /\ CloseEnds({"inR", "inW"}) /\ UNCHANGED no
  /\ UNCHANGED child

SetCloexec ==
  /\ Goto("cloexec", "spawn piper")
  /\ cloexec' = cloexec \cup {no[e] : e \in Ends}
  /\ UNCHANGED <<fds, no, child, strayed>>

SpawnPiper ==
  /\ \/ /\ Goto("spawn piper", "child ends")
        /\ child' = [child EXCEPT !["piper"] = Wired("inR", "outW")]
        /\ UNCHANGED <<fds, cloexec, strayed>>
     \/ /\ Goto("spawn piper", "idle")
        /\ CloseEnds(Ends)
        /\ UNCHANGED child
  /\ UNCHANGED no

CloseChildEnds ==
  /\ Goto("child ends", "text")
  /\ CloseEnds({"inR", "outW"})
  /\ UNCHANGED <<no, child>>

\* The text is written; with PIPER_PULSE there is no sink.
CloseText ==
  /\ Goto("text", "spawn sink") \/ Goto("text", "hand over")
  /\ CloseEnds({"inW"})
  /\ UNCHANGED <<no, child>>

SpawnSink ==
  /\ \/ /\ Goto("spawn sink", "hand over")
        /\ child' = [child EXCEPT !["sink"] = Wired("outR", "none")]
        /\ UNCHANGED <<fds, cloexec, strayed>>
     \/ /\ Goto("spawn sink", "idle")
        /\ CloseEnds({"outR"})
        /\ UNCHANGED child
  /\ UNCHANGED no

\* Mutant: the end of the text is closed once more.
HandOverTwice ==
  /\ Goto("hand over", "idle")
  /\ CloseEnds({"outR", "inW"})
  /\ UNCHANGED <<no, child>>

HandOver ==
  /\ Goto("hand over", "idle")
  /\ CloseEnds({"outR"})
  /\ UNCHANGED <<no, child>>

-----------------------------------------------------------------------------
(* External: other threads of the host.                                    *)

OpenFile ==
  /\ FreeIn(fds) # {}
  /\ LET n == Min(FreeIn(fds))
     IN fds' = [fds EXCEPT ![n] = "file"] /\ cloexec' \in {cloexec \ {n}, cloexec \cup {n}}
  /\ UNCHANGED <<at, no, child, strayed>>

CloseFile ==
  /\ \E n \in 3 .. MaxFd :
       /\ fds[n] = "file"
       /\ fds' = [fds EXCEPT ![n] = "free"]
       /\ cloexec' = cloexec \ {n}
  /\ UNCHANGED <<at, no, child, strayed>>

FdNext ==
  \/ SpeakPiper \/ PipeIn \/ PipeOut \/ SetCloexec \/ SpawnPiper \/ CloseChildEnds
  \/ CloseText \/ SpawnSink \/ HandOver
  \/ OpenFile \/ CloseFile

FdSpec == FdInit /\ [][FdNext]_fdVars

-----------------------------------------------------------------------------
(* Properties.                                                             *)

\* A child has its ends of the pipes at its standard streams, and no other end
\* under any number, whatever files the host opened and closed meanwhile: with
\* one end more no reader would see the end of its pipe.
EndsIn(table) == {n \in Numbers : table[n] \in Ends}
ChildrenWired ==
  /\ child["piper"] # None =>
       /\ child["piper"][0] = "inR" /\ child["piper"][1] = "outW"
       /\ EndsIn(child["piper"]) = {0, 1}
  /\ child["sink"] # None =>
       child["sink"][0] = "outR" /\ EndsIn(child["sink"]) = {0}

\* speak_piper closes what it opened, once: a number it closed may be a file of
\* the host by the next close.
ClosesItsOwn == ~strayed
=============================================================================
