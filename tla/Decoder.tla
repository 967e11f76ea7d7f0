------------------------------- MODULE Decoder -------------------------------
(***************************************************************************)
(* A call of read_instruction64 for an instruction: prefixes, an opcode,   *)
(* and the ModR/M and SIB bytes that decide its length.  What follows them *)
(* in memory does not matter.                                              *)
(***************************************************************************)
EXTENDS Len64, SequencesExt

CONSTANT
  Instructions   \* those the decoder is called for: [prefixes, op, m, s]

ASSUME InstructionsAssumption ==
  Instructions \subseteq
    [prefixes : Seq(PrefixBytes), op : Bytes \ PrefixBytes, m : Bytes, s : Bytes]

VARIABLES
  instr,    \* the instruction
  length    \* what read_instruction64 returned for it, 0 before the call

decoderVars == <<instr, length>>

Code(i) == i.prefixes \o <<i.op, i.m, i.s>>

DecoderInit == instr \in Instructions /\ length = 0

Decode == length = 0 /\ length' = ReadInstruction64(Code(instr), 1) /\ UNCHANGED instr

DecoderSpec == DecoderInit /\ [][Decode]_decoderVars

-----------------------------------------------------------------------------
(* Properties.                                                             *)

\* The two forms decoded otherwise are left out: REX.W after the operand size
\* prefix, and F6 /1, the undocumented TEST.
Covered(i) ==
  /\ ~(i.op = 5 /\ i.prefixes # <<>> /\ RexW(Last(i.prefixes)) /\ Contains(i.prefixes, X66))
  /\ ~(i.op = \hF6 /\ Reg(i.m) = 1)

\* Lengths that are decoded are what the processor takes them to be, and an
\* opcode the table does not know is refused: the trampoline never gets half
\* an instruction.
LengthIsRight ==
  length # 0 /\ Covered(instr) =>
    length = IF instr.op \in Opcodes
             THEN Amd64Length(instr.prefixes, instr.op, instr.m, instr.s)
             ELSE -1
=============================================================================
