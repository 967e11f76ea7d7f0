------------------------------ MODULE Commands ------------------------------
(***************************************************************************)
(* The command lines of utils.c: argv_add, argv_add_split, argv_free,      *)
(* build_piper_cmd and build_sink_cmd, and what speech_init and            *)
(* speech_close do with the two struct tts_cmd, over several starts.  Any  *)
(* allocation may fail.                                                    *)
(*                                                                         *)
(* A value of the environment is a sequence of characters, of which only   *)
(* the blanks matter; "?" stands for what is none.  An argv is its array   *)
(* as allocated, slot by slot.                                             *)
(***************************************************************************)
EXTENDS Integers, Sequences, SequencesExt

CONSTANTS
  Bins, Models,   \* values of PIPER_BIN and PIPER_MODEL
  ArgLists,       \* values of PIPER_ARGS
  Sinks,          \* values of PIPER_SINK
  Allocs          \* how many allocations a start may be granted

ASSUME ValuesAssumption ==
  Bins \cup Models \cup ArgLists \cup Sinks \subseteq Seq(STRING \ {"?"})
ASSUME AllocsAssumption == Allocs \subseteq Nat

Unset == <<>>   \* getenv returns NULL, or an empty value: the code takes both alike
Space == " "
Null  == <<>>   \* the null pointer among the slots of an argv
Junk  == <<"?">>   \* what realloc leaves in a new slot

VARIABLES
  env,      \* the environment of the process
  piper, sink, \* piper_cmd, sink_cmd: [argv, argc]
  live,     \* blocks allocated and not freed
  state     \* "down", "piper" when both were built, "none" when not

cmdVars == <<env, piper, sink, live, state>>

EmptyCmd == [argv |-> <<>>, argc |-> 0]

CmdInit ==
  /\ env \in [bin : Bins, args : ArgLists, model : Models, sink : Sinks]
  /\ piper = EmptyCmd /\ sink = EmptyCmd
  /\ live = 0 /\ state = "down"

-----------------------------------------------------------------------------
(* A build goes from record to record: the command so far, the allocations *)
(* that will still succeed, the blocks allocated, and whether all is well. *)

Word(s) == s # Space

\* The tokens of argv_add_split, from place p on.
Split(v) ==
  LET EndOf(p) == CHOOSE e \in p .. Len(v) + 1 :
                    /\ e = Len(v) + 1 \/ ~Word(v[e])
                    /\ \A i \in p .. e - 1 : Word(v[i])
      from[p \in 1 .. Len(v) + 1] ==
        IF p = Len(v) + 1 THEN <<>>
        ELSE IF ~Word(v[p]) THEN from[p + 1]
        ELSE <<SubSeq(v, p, EndOf(p) - 1)>> \o from[EndOf(p)]
  IN from[1]

\* Mutants: no slot for the terminating NULL is filled; the token that has no
\* place in the array is not freed.
AddUnterminated(b, tok) ==
  IF ~b.ok \/ b.allocs < 2 THEN [b EXCEPT !.ok = FALSE]
  ELSE [b EXCEPT !.allocs = @ - 2, !.live = @ + IF b.cmd.argv = <<>> THEN 2 ELSE 1,
         !.cmd = [argv |-> Append(@.argv, tok), argc |-> @.argc + 1]]

AddLeaky(b, tok) ==
  IF ~b.ok \/ b.allocs = 0 THEN [b EXCEPT !.ok = FALSE]
  ELSE IF b.allocs = 1 THEN [b EXCEPT !.ok = FALSE, !.allocs = 0, !.live = @ + 1]
  ELSE AddUnterminated(b, tok)

\* argv_add, and the loop body of argv_add_split: a copy of the token, then
\* argv_add_owned, which makes room for it and for a NULL behind it; when that
\* fails the copy is freed.
Add(b, tok) ==
  IF ~b.ok \/ b.allocs = 0 THEN [b EXCEPT !.ok = FALSE]
  ELSE IF b.allocs = 1 THEN [b EXCEPT !.ok = FALSE, !.allocs = 0]
  ELSE LET n == b.cmd.argc
           Slot(i) == CASE i = n + 1 -> tok
                        [] i = n + 2 -> Null
                        [] OTHER -> IF i <= Len(b.cmd.argv) THEN b.cmd.argv[i] ELSE Junk
       IN [ok |-> TRUE, allocs |-> b.allocs - 2,
           live |-> b.live + IF b.cmd.argv = <<>> THEN 2 ELSE 1,
           cmd |-> [argv |-> [i \in 1 .. n + 2 |-> Slot(i)], argc |-> n + 1]]

AddAll(b, toks) ==
  LET added[k \in 0 .. Len(toks)] == IF k = 0 THEN b ELSE Add(added[k - 1], toks[k])
  IN added[Len(toks)]

Default(v, d) == IF v = Unset THEN d ELSE v

DefaultArgs == <<<<"--output_file">>, <<"-">>>>
DefaultSink == <<<<"aplay">>, <<"-q">>>>

BuildPiper(b) ==
  AddAll(b, <<Default(env.bin, <<"piper">>)>>
              \o (IF env.args = Unset THEN DefaultArgs ELSE Split(env.args))
              \o (IF env.model = Unset THEN <<>> ELSE <<<<"--model">>, env.model>>))

BuildSink(b) ==
  LET done == AddAll(b, IF env.sink = Unset THEN DefaultSink ELSE Split(env.sink))
  IN [done EXCEPT !.ok = @ /\ done.cmd.argc # 0]

\* Mutant: argc stays.
FreeKeepsCount(c) == [argv |-> <<>>, argc |-> c.argc]

\* argv_free, and how many blocks it frees.
Free(c)   == IF c.argv = <<>> THEN c ELSE EmptyCmd
Blocks(c) == IF c.argv = <<>> THEN 0 ELSE c.argc + 1

-----------------------------------------------------------------------------
\* speech_init up to the choice of the backend; n allocations succeed.
SpeechInit(n) ==
  /\ state # "piper"
  /\ LET p == BuildPiper([cmd |-> piper, allocs |-> n, live |-> live, ok |-> TRUE])
         s == IF p.ok THEN BuildSink([p EXCEPT !.cmd = sink]) ELSE [p EXCEPT !.cmd = sink]
     IN IF s.ok
        THEN /\ state' = "piper"
             /\ piper' = p.cmd /\ sink' = s.cmd /\ live' = s.live
        ELSE /\ state' = "none"
             /\ piper' = Free(p.cmd) /\ sink' = Free(s.cmd)
             /\ live' = s.live - Blocks(p.cmd) - Blocks(s.cmd)
  /\ UNCHANGED env

SpeechClose ==
  /\ state = "piper"
  /\ state' = "down"
  /\ piper' = Free(piper) /\ sink' = Free(sink)
  /\ live' = live - Blocks(piper) - Blocks(sink)
  /\ UNCHANGED env

CmdNext == (\E n \in Allocs : SpeechInit(n)) \/ SpeechClose

CmdSpec == CmdInit /\ [][CmdNext]_cmdVars

-----------------------------------------------------------------------------
(* Properties.                                                             *)

\* What execvp needs of an argv: argc tokens and a NULL, inside the array.
Terminated(c) ==
  /\ Len(c.argv) > c.argc /\ c.argv[c.argc + 1] = Null
  /\ \A i \in 1 .. c.argc : c.argv[i] \notin {Null, Junk}

\* The maximal runs of characters that are no blanks, and whether words are
\* they, in their order.
Runs(v) ==
  {run \in (1 .. Len(v)) \X (1 .. Len(v)) :
     /\ run[1] <= run[2] /\ \A i \in run[1] .. run[2] : Word(v[i])
     /\ run[1] = 1 \/ ~Word(v[run[1] - 1])
     /\ run[2] = Len(v) \/ ~Word(v[run[2] + 1])}

IsWordsOf(words, v) ==
  \E run \in [DOMAIN words -> Runs(v)] :
    /\ \A k \in DOMAIN words : words[k] = SubSeq(v, run[k][1], run[k][2])
    /\ \A j, k \in DOMAIN words : j < k => run[j][2] < run[k][1]
    /\ Range(run) = Runs(v)

Args(c) == SubSeq(c.argv, 1, c.argc)

\* What README.md says of the four variables: their defaults, the split at
\* blanks, and that a model is passed on; whatever failed before this start.
\* Both argv are what execvp needs.
ArgvAsDocumented ==
  state = "piper" =>
    /\ Terminated(piper) /\ Terminated(sink)
    /\ LET bin   == <<IF env.bin = Unset THEN <<"piper">> ELSE env.bin>>
           model == IF env.model = Unset THEN <<>> ELSE <<<<"--model">>, env.model>>
           args  == SubSeq(Args(piper), 2, piper.argc - Len(model))
       IN /\ Args(piper) = bin \o args \o model
          /\ IF env.args = Unset THEN args = DefaultArgs ELSE IsWordsOf(args, env.args)
    /\ IF env.sink = Unset THEN Args(sink) = DefaultSink ELSE IsWordsOf(Args(sink), env.sink)

\* Every block has its place in an argv: none is lost when an allocation in
\* the middle of a build fails, none is freed twice.
BlocksOwned == live = Blocks(piper) + Blocks(sink)
=============================================================================
