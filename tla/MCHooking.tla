------------------------------ MODULE MCHooking ------------------------------
(***************************************************************************)
(* Model checking of the parts between the host's executable and the text  *)
(* of a call: ElfTables, Decoder, Hook, Stub and KukText.  Each works on   *)
(* its own variables and none while another does, so a behaviour is one of *)
(* the part the initial state chooses; the others rest in an initial state *)
(* of theirs.                                                              *)
(***************************************************************************)
EXTENDS Hook, Decoder, Stub, KukText, ElfTables

CONSTANTS
  Parts,                      \* of "symbols", "length", "hook", "stub", "text"
  synth, speak,               \* functions of the host
  SomePrefixes, MaxPrefixes,  \* the prefix bytes tried, and how many of them
  a, b, c                     \* names of symbols

VARIABLE part

-----------------------------------------------------------------------------
(* Hook: one function that begins with every sequence of three of some     *)
(* instructions, at addresses where the jump ends before, at and behind a  *)
(* page boundary.  One-byte instructions follow them.                      *)

Prologues ==
  {<<\h55>>, <<\h41, \h57>>, <<\h48, \h83, \hEC, \h18>>, <<\hF6, \h06, \h01>>,
   <<\h48, \h8D, \h84, \h24, 0, 1, 0, 0>>, <<\hE8, 0, 0, 0, 0>>}

Filler == [k \in 1 .. 12 |-> <<\h90>>]

SomeBodies == {p \o Filler : p \in TupleOf(Prologues, 3)}

\* The stable X-Plane prologue, and one with a longer last instruction.
TwoBodies ==
  {<< <<\h55>>, <<\h41, \h57>>, <<\h41, \h56>>, <<\h53>>, <<\h48, \h83, \hEC, \h18>>,
      <<\h41, \h89, \hCE>> >> \o Filler,
   << <<\h41, \h57>>, <<\h48, \h83, \hEC, \h18>>,
      <<\h48, \h8D, \h84, \h24, 0, 1, 0, 0>> >> \o Filler}

\* A prologue that loads an address relative to rip: lea rax, [rip + 256].
RipBodies ==
  {<< <<\h55>>, <<\h48, \h83, \hEC, \h18>>, <<\h48, \h8D, \h05, 0, 1, 0, 0>> >> \o Filler}

ASSUME NoneMisread == NothingMisread

\* Only SPEECH_synth_non_radio is found; it and SPEECH_speakstring are found
\* at one address; they are two functions.
OneFunction  == <<[fun |-> synth, hook |-> 1]>>
OneAddress   == <<[fun |-> synth, hook |-> 1], [fun |-> synth, hook |-> 1]>>
TwoFunctions == <<[fun |-> synth, hook |-> 1], [fun |-> speak, hook |-> 1]>>

-----------------------------------------------------------------------------
(* Decoder: every combination of some prefixes, an opcode and the fields   *)
(* of ModR/M and SIB that decide a length; one step decodes it.            *)

Unknown == {\h0F, \hB8, \hC3, \hE8, \hFF}   \* some rows that are WRONG

SomeInstructions ==
  [prefixes : SeqOf(SomePrefixes, MaxPrefixes), op : Opcodes \cup Unknown,
   m : {64 * mod + 8 * reg + rm : mod \in 0 .. 3, reg \in {0, 1, 7}, rm \in {0, 4, 5, 6}},
   s : {\h24, \h25}]

-----------------------------------------------------------------------------
\* The call of every hooked function arrives behind the jump.
CallArrives == part = "stub" => RestReached

-----------------------------------------------------------------------------
(* KukText: texts of one character, an odd or an even byte, on both sides  *)
(* of ShortCap and MaxText; in some of them a NUL stands inside.           *)

Same(n, byte)   == [k \in 1 .. n |-> byte]
Cut(n, byte, k) == [Same(n, byte) EXCEPT ![k] = 0]

SomeTexts ==
  {Same(0, 97), Same(1, 97), Same(16, 98), Same(22, 98), Same(23, 97), Same(25, 98)}
    \cup {Cut(22, 97, 8), Cut(23, 98, 1)}

-----------------------------------------------------------------------------
(* ElfTables: symbol tables of up to three symbols, with names asked for   *)
(* and not, names twice, symbols that are no functions or undefined; the   *)
(* sections in the orders linkers leave them in, with other string tables  *)
(* before, between and behind, and the strings before the symbols.         *)

\* Values are the places in the table, so that no two symbols share one.
Kinds == {[name |-> n, func |-> fs[1], size |-> fs[2]] :
            n \in {a, b}, fs \in {<<TRUE, 1>>, <<FALSE, 1>>, <<TRUE, 0>>}}
         \cup {[name |-> n, func |-> TRUE, size |-> 1] : n \in {c, NULL}}
SymbolTables ==
  {[k \in DOMAIN t |-> [name |-> t[k].name, func |-> t[k].func,
                        size |-> t[k].size, value |-> k]] : t \in SeqOf(Kinds, 3)}

Other        == [type |-> "other", link |-> 0, data |-> <<>>]
Strtab       == [type |-> "strtab", link |-> 0, data |-> <<>>]
Symtab(l, t) == [type |-> "symtab", link |-> l, data |-> t]

SomeFiles ==
  UNION {{<<Other, Symtab(2, t), Strtab>>,
          <<Other, Strtab, Symtab(3, t), Strtab, Strtab>>,
          <<Other, Symtab(3, t), Strtab, Strtab>>,
          <<Other, Strtab, Symtab(1, t)>>,
          <<Other, Strtab>>} : t \in SymbolTables}

SomePtrs == <<a, b>>

-----------------------------------------------------------------------------
\* A part that rests has one initial state.
HookRests   == body = [f \in Funs |-> CHOOSE p \in Bodies : TRUE]
                 /\ addr = [f \in Funs |-> CHOOSE p \in Addresses : TRUE]
LengthRests == instr = [prefixes |-> <<>>, op |-> \h90, m |-> 0, s |-> \h24] /\ length = 0
KukRests    == entry = 0 /\ mem = [p \in Memory |-> IF p \in {0, 1} THEN 0 ELSE 1]
ElfRests    == file = <<Other, Strtab>> /\ NotRead

PartsInit ==
  /\ part \in Parts
  /\ IF part = "hook"    THEN TRUE ELSE HookRests
  /\ IF part = "length"  THEN DecoderInit ELSE LengthRests
  /\ IF part = "text"    THEN TRUE ELSE KukRests
  /\ IF part = "symbols" THEN ElfInit ELSE ElfRests
  /\ Init /\ StubInit /\ KukInit

SymbolStep == part = "symbols" /\ ElfNext
                /\ UNCHANGED <<part, vars, decoderVars, stubVars, kukVars>>
LengthStep == part = "length" /\ Decode
                /\ UNCHANGED <<part, vars, stubVars, kukVars, elfVars>>
HookStep   == part = "hook" /\ HookEntry
                /\ UNCHANGED <<part, decoderVars, stubVars, kukVars, elfVars>>
StubStep   == part = "stub" /\ StubNext
                /\ UNCHANGED <<part, vars, decoderVars, kukVars, elfVars>>
TextStep   == part = "text" /\ KukNext
                /\ UNCHANGED <<part, vars, decoderVars, stubVars, elfVars>>

PartsNext == SymbolStep \/ LengthStep \/ HookStep \/ StubStep \/ TextStep

allVars == <<part, vars, decoderVars, stubVars, kukVars, elfVars>>

PartsSpec ==
  PartsInit /\ [][PartsNext]_allVars /\ (part = "stub" => StubFairness)
=============================================================================
