-------------------------------- MODULE Len64 --------------------------------
(***************************************************************************)
(* len64.c: the length of an AMD64 instruction, for the few opcodes that   *)
(* function prologues are made of.  Code is a sequence of bytes; a         *)
(* decoder is an operator of the code and the index it looks at.           *)
(***************************************************************************)
EXTENDS Integers, Sequences

Bytes == 0 .. 255

(* The rows of byte1 that are not WRONG. *)
RexBytes  == \h40 .. \h4F
X66       == \h66
X67       == \h67
PrefixBytes  == RexBytes \cup {X66, X67}
WithModrm == {0, 1, 2, 3, \h83, \h89, \h8D, \hF6}
NoModrm   == {4, 5, \h90} \cup \h50 .. \h5F
Opcodes   == WithModrm \cup NoModrm

(* The fields of a ModR/M byte, and the base field of a SIB byte. *)
Mod(m)  == m \div 64
Reg(m)  == (m \div 8) % 8
Rm(m)   == m % 8
Base(s) == s % 8

\* How many prefix bytes the while loop consumes from at.
PrefixCount(code, at) ==
  CHOOSE n \in 0 .. Len(code) - at :
    /\ code[at + n] \notin PrefixBytes
    /\ \A j \in 0 .. n - 1 : code[at + j] \in PrefixBytes

\* The variants of an opcode: the immediate, which group3_byte has only for
\* reg = 0, and whose size the operand size prefix halves in one row.
Immediate(op, m, x66) ==
  CASE op \in {4, \h83}       -> 1
    [] op = 5                 -> IF x66 THEN 2 ELSE 4
    [] op = \hF6 /\ Reg(m) = 0 -> 1
    [] OTHER                  -> 0

\* Mutant: a register operand has a SIB byte, too.
HasSibAlways(m, x67) == ~x67 /\ Rm(m) = 4

HasSib(m, x67) == ~x67 /\ Rm(m) = 4 /\ Mod(m) # 3

Displacement(m, s, x67) ==
  IF x67
  THEN CASE Mod(m) = 0 /\ Rm(m) = 6 -> 2
         [] Mod(m) = 1              -> 1
         [] Mod(m) = 2              -> 2
         [] OTHER                   -> 0
  ELSE CASE Mod(m) = 0 /\ Rm(m) = 5                 -> 4
         [] Mod(m) = 0 /\ Rm(m) = 4 /\ Base(s) = 5  -> 4
         [] Mod(m) = 1                              -> 1
         [] Mod(m) = 2                              -> 4
         [] OTHER                                   -> 0

\* read_instruction64: the length, or -1 at the first byte the table has as
\* WRONG.
ReadInstruction64(code, at) ==
  LET n   == PrefixCount(code, at)
      Seen(p) == \E j \in 0 .. n - 1 : code[at + j] = p
      op  == code[at + n]
      m   == code[at + n + 1]
      sib == HasSib(m, Seen(X67))
  IN IF op \notin Opcodes THEN -1
     ELSE IF op \in NoModrm THEN n + 1 + Immediate(op, 0, Seen(X66))
     ELSE n + 2 + (IF sib THEN 1 ELSE 0)
            + Displacement(m, code[at + n + 2], Seen(X67))
            + Immediate(op, m, Seen(X66))

-----------------------------------------------------------------------------
(* What the processor does, for the same opcodes: the reference.  In 64-bit *)
(* mode an address size prefix selects 32-bit addressing, whose ModR/M and  *)
(* SIB bytes are those of 64-bit addressing; REX.W directly before the      *)
(* opcode overrides the operand size prefix.                                *)

RexW(b) == b \in \h48 .. \h4F

AddressBytes(m, s) ==
  LET none == Mod(m) = 3
      sib  == ~none /\ Rm(m) = 4
      disp == IF none THEN 0
              ELSE IF Mod(m) = 1 THEN 1
              ELSE IF Mod(m) = 2 \/ Rm(m) = 5 \/ (sib /\ Base(s) = 5) THEN 4
              ELSE 0
  IN disp + IF sib THEN 1 ELSE 0

OperandBytes(op, m, prefixes) ==
  LET last == IF prefixes = <<>> THEN 0 ELSE prefixes[Len(prefixes)]
      word == ~RexW(last) /\ \E j \in DOMAIN prefixes : prefixes[j] = X66
  IN IF op \in {4, \h83} \/ (op = \hF6 /\ Reg(m) \in {0, 1}) THEN 1
     ELSE IF op # 5 THEN 0
     ELSE IF word THEN 2 ELSE 4

Amd64Length(prefixes, op, m, s) ==
  Len(prefixes) + 1 + OperandBytes(op, m, prefixes)
    + IF op \in WithModrm THEN 1 + AddressBytes(m, s) ELSE 0

\* The forms that the code decodes otherwise: with an address size prefix, with
\* REX.W over an operand size prefix, and the undocumented TEST.
Misread(prefixes, op, m) ==
  \/ \E j \in DOMAIN prefixes : prefixes[j] = X67
  \/ /\ op = 5 /\ prefixes # <<>> /\ RexW(prefixes[Len(prefixes)])
     /\ \E j \in DOMAIN prefixes : prefixes[j] = X66
  \/ op = \hF6 /\ Reg(m) = 1
=============================================================================
