------------------------------ MODULE MCHelpers ------------------------------
(***************************************************************************)
(* Model checking of the parts that the service and the release rest on:   *)
(* PulseStream, DebugLog, WavHeader, SpawnFds, Commands and Manifest.  As  *)
(* in MCHooking, a behaviour is one of the part the initial state chooses, *)
(* and the others rest in an initial state of theirs.                      *)
(***************************************************************************)
EXTENDS PulseStream, DebugLog, SpawnFds, WavHeader, Commands, Manifest

VARIABLE part

-----------------------------------------------------------------------------
(* PulseStream: the voice of a model, its format with each field changed   *)
(* in turn, and channel counts around the 8 bits of the sample spec and    *)
(* the 32 that Pulse takes.                                                *)

Voice == [format |-> 1, channels |-> 1, rate |-> 22050, bits |-> 16]

SomeHeaders ==
  {Voice, [Voice EXCEPT !.format = 3], [Voice EXCEPT !.bits = 8]}
    \cup {[Voice EXCEPT !.rate = r] : r \in {0, 16000}}
    \cup {[Voice EXCEPT !.channels = c] : c \in {0, 2, 33, 256, 257}}

-----------------------------------------------------------------------------
(* WavHeader: every file of up to three chunks, a fmt chunk one byte       *)
(* short, exact, and one byte long, other chunks empty, odd and even.      *)
(* Audio is one byte, for all but its place is unread.                     *)

SomeChunks ==
  [id : {"fmt "}, size : {15, 16, 17}] \cup [id : {"LIST"}, size : {0, 1, 2}]
    \cup [id : {"data"}, size : {1}]

-----------------------------------------------------------------------------
(* SpawnFds: of eight numbers (MaxFd = 7) five are left for the four pipe  *)
(* ends and the files of the host, so that pipe fails at times.            *)

-----------------------------------------------------------------------------
(* Commands: all PIPER_ARGS of up to four characters and sinks of up to    *)
(* three, blank, leading, trailing and repeated blanks included, and every *)
(* allocation failing in turn.  The longest pair of argv here takes        *)
(* fourteen allocations.                                                   *)

SomeBins     == {<<>>, <<"b", " ", "c">>}
SomeModels   == {<<>>, <<"m">>}
SomeArgLists == SeqOf({" ", "x"}, 4)
SomeSinks    == SeqOf({" ", "x"}, 3)
SomeAllocs   == 0 .. 14

-----------------------------------------------------------------------------
(* Manifest: archives with the plugin, the README and one more entry, in   *)
(* every order, and archives that lack one of them.                        *)

File(name, data) == [name |-> name, link |-> FALSE, data |-> data]

Plugins == {File(<<"XLinSpeak", Plugin>>, data) : data \in {X64, Other}}
Readmes ==
  {File(<<"XLinSpeak", Readme>>, Other), File(<<"XLinSpeak", ".", Readme>>, Other)}

Names ==
  LET parts == {"", ".", "..", "XLinSpeak", Special, Readme}
  IN {<<x, y>> : x, y \in parts} \cup {<<"XLinSpeak", x, y>> : x, y \in parts}
       \cup {<<"XLinSpeak">>, <<".">>}

Others ==
  {File(name, Other) : name \in Names} \cup
  {[name |-> <<"XLinSpeak", "link">>, link |-> TRUE, data |-> Other]}

SomeArchives ==
  UNION {{<<p, r, o>>, <<o, r, p>>, <<p, o, r>>, <<p, o>>, <<o, r>>} :
           p \in Plugins, r \in Readmes, o \in Others}

-----------------------------------------------------------------------------
\* A part that rests has one initial state; DebugLog and SpawnFds have but one.
PulseRests    == info = Voice
HeaderRests   == riff = FALSE /\ wav = <<>>
CommandsRests == env = [bin |-> <<>>, args |-> <<>>, model |-> <<>>, sink |-> <<>>]
ManifestRests ==
  /\ archive = <<File(<<"XLinSpeak", Plugin>>, Other), File(<<".">>, Other)>>
  /\ versions = FALSE /\ output = "given"

PartsInit ==
  /\ part \in {"pulse", "log", "header", "descriptors", "commands", "manifest"}
  /\ IF part = "manifest" THEN TRUE ELSE ManifestRests
  /\ ManifestInit
  /\ IF part = "pulse"    THEN TRUE ELSE PulseRests
  /\ IF part = "header"   THEN TRUE ELSE HeaderRests
  /\ IF part = "commands" THEN TRUE ELSE CommandsRests
  /\ Init /\ LogInit /\ WavInit /\ FdInit /\ CmdInit

PulseStep   == part = "pulse" /\ Next
                 /\ UNCHANGED <<part, logVars, wavVars, fdVars, cmdVars, manifestVars>>
LogStep     == part = "log" /\ LogNext
                 /\ UNCHANGED <<part, vars, wavVars, fdVars, cmdVars, manifestVars>>
HeaderStep  == part = "header" /\ WavNext
                 /\ UNCHANGED <<part, vars, logVars, fdVars, cmdVars, manifestVars>>
FdStep      == part = "descriptors" /\ FdNext
                 /\ UNCHANGED <<part, vars, logVars, wavVars, cmdVars, manifestVars>>
CommandStep == part = "commands" /\ CmdNext
                 /\ UNCHANGED <<part, vars, logVars, wavVars, fdVars, manifestVars>>
ManifestStep == part = "manifest" /\ ManifestNext
                 /\ UNCHANGED <<part, vars, logVars, wavVars, fdVars, cmdVars>>

PartsNext ==
  PulseStep \/ LogStep \/ HeaderStep \/ FdStep \/ CommandStep \/ ManifestStep

allVars == <<part, vars, logVars, wavVars, fdVars, cmdVars, manifestVars>>

PartsSpec == PartsInit /\ [][PartsNext]_allVars
=============================================================================
