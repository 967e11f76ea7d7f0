-------------------------------- MODULE Stub --------------------------------
(***************************************************************************)
(* What the processor runs when the host calls a hooked function: the jump *)
(* that hook_proc wrote over its beginning, the stub hook1 of              *)
(* hook_asm64.asm around the call of *kuk, and the jump back that ends the *)
(* trampoline.  One instruction is one step.                               *)
(*                                                                         *)
(* A stack slot is 8 bytes; the first is the return address of the host's  *)
(* call, which leaves the stack pointer 8 below a multiple of 16.          *)
(***************************************************************************)
EXTENDS Integers, Sequences, SequencesExt

\* What a C function may change, the arguments among it.  kuk is compiled for
\* the same convention and keeps the other registers.
Regs == {"rax", "rcx", "rdx", "rsi", "rdi", "r8", "r9", "r10", "r11"}
Args == {"rdi", "rsi", "rdx", "rcx"}   \* this, str, type, i

VARIABLES
  rip,    \* the label and index of the next instruction
  regs,   \* the value of each register: its name stands for the host's value
  stack   \* top first

stubVars == <<rip, regs, stack>>

\* Mutants: the first two arguments are not saved; an odd number is.
SavedWithoutArgs == <<"rcx", "rdx", "r8", "r9", "r10", "r11">>
SavedOdd         == <<"rcx", "rdx", "r8", "r9", "r10", "rdi", "rsi">>

Saved == <<"rcx", "rdx", "r8", "r9", "r10", "r11", "rdi", "rsi">>

Op(name, x) == [op |-> name, arg |-> x]
Pushes(rs) == [i \in DOMAIN rs |-> Op("push", rs[i])]
Pops(rs)   == [i \in DOMAIN rs |-> Op("pop", rs[i])]

\* proc_start[0 .. 12]: push rax; mov rax, hook1; push rax; ret.
JumpIn == <<Op("push", "rax"), Op("load", "hook1"), Op("push", "rax"), Op("ret", "")>>

\* The HOOK macro.
HookStub ==
  Pushes(Saved) \o <<Op("load", "kuk"), Op("call", "")>> \o
  Pops(Reverse(Saved)) \o <<Op("pop", "rax"), Op("jmp", "trampoline1")>>

\* Mutant: it jumps back to where the jump to the hook is.
TrampolineToStart == <<Op("copied", ""), Op("pushlabel", "fun"), Op("ret", "")>>

\* The copied instructions are one step; push the address of the rest; ret.
Trampoline == <<Op("copied", ""), Op("pushlabel", "rest"), Op("ret", "")>>

Program ==
  [fun |-> JumpIn, hook1 |-> HookStub, trampoline1 |-> Trampoline, rest |-> <<>>]

StubInit ==
  /\ rip = <<"fun", 1>>
  /\ regs = [r \in Regs |-> r]
  /\ stack = <<"host">>

Current  == Program[rip[1]][rip[2]]
AtOp(o) == rip[2] \in DOMAIN Program[rip[1]] /\ Current.op = o
Continue == rip' = <<rip[1], rip[2] + 1>>

Push ==
  /\ AtOp("push") /\ Continue
  /\ stack' = <<regs[Current.arg]>> \o stack
  /\ UNCHANGED regs

PushLabel ==
  /\ AtOp("pushlabel") /\ Continue
  /\ stack' = <<Current.arg>> \o stack
  /\ UNCHANGED regs

Pop ==
  /\ AtOp("pop") /\ Continue
  /\ regs' = [regs EXCEPT ![Current.arg] = Head(stack)]
  /\ stack' = Tail(stack)

Load ==
  /\ AtOp("load") /\ Continue
  /\ regs' = [regs EXCEPT !["rax"] = Current.arg]
  /\ UNCHANGED stack

Ret ==
  /\ AtOp("ret")
  /\ rip' = <<Head(stack), 1>>
  /\ stack' = Tail(stack)
  /\ UNCHANGED regs

Jump ==
  /\ AtOp("jmp")
  /\ rip' = <<Current.arg, 1>>
  /\ UNCHANGED <<regs, stack>>

\* kuk returns with the stack as it was and any of these registers changed.
CallKuk ==
  /\ AtOp("call") /\ Continue
  /\ \E changed \in SUBSET Regs :
       regs' = [r \in Regs |-> IF r \in changed THEN "junk" ELSE regs[r]]
  /\ UNCHANGED stack

RunCopied == AtOp("copied") /\ Continue /\ UNCHANGED <<regs, stack>>

StubNext == Push \/ PushLabel \/ Pop \/ Load \/ Ret \/ Jump \/ CallKuk \/ RunCopied

\* The processor runs on.
StubFairness == WF_stubVars(StubNext)

StubSpec == StubInit /\ [][StubNext]_stubVars /\ StubFairness

-----------------------------------------------------------------------------
(* Properties.                                                             *)

\* The function's own instructions, the copied ones and those behind the
\* jump, run with the registers and the stack the host called it with,
\* whatever kuk did.
HookIsTransparent ==
  rip[1] = "rest" \/ AtOp("copied") =>
    regs = [r \in Regs |-> r] /\ stack = <<"host">>

\* kuk is called as the ABI asks: with the host's arguments in their registers
\* and the stack pointer a multiple of 16.
KukCallIsLegal ==
  AtOp("call") =>
    /\ \A r \in Args : regs[r] = r
    /\ Len(stack) % 2 = 0
    /\ regs["rax"] = "kuk"

\* The call reaches the rest of the function.
RestReached == <>(rip[1] = "rest")
=============================================================================
