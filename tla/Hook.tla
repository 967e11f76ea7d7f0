-------------------------------- MODULE Hook --------------------------------
(***************************************************************************)
(* hook.c, the stub of hook_asm64.asm and the loop of XPluginStart that    *)
(* hooks each function it found.  A hooked function begins with a jump to  *)
(* the stub hook1; the stub calls *kuk, which speaks, and jumps to         *)
(* trampoline1, which holds the overwritten instructions and a jump back.  *)
(* There is one stub, one kuk and one trampoline.                          *)
(*                                                                         *)
(* The host calls no hooked function before XPluginStart returns.          *)
(***************************************************************************)
EXTENDS Len64, SequencesExt

CONSTANTS
  Funs,      \* functions of the host
  Found,     \* the entries of ptrs with an address, in their order:
             \*   a sequence of [fun |-> ..., hook |-> 0 .. 2]
  Bodies,    \* what a function may begin with: sequences of instructions
  Addresses, \* where a function may start
  PageSize

\* The instruction i is as long as the processor takes it to be, if its opcode
\* is one that the code knows, and no longer than any.
IsInstruction(i) ==
  \E n \in 0 .. Len(i) - 1 :
    /\ \A j \in 1 .. n : i[j] \in PrefixBytes
    /\ i[n + 1] \notin PrefixBytes
    /\ i[n + 1] \in Opcodes =>
         Len(i) = Amd64Length(SubSeq(i, 1, n), i[n + 1], i[n + 2], i[n + 3])
    /\ Len(i) <= 15

ASSUME BodiesAssumption ==
  \A p \in Bodies : p \in Seq(Seq(Bytes)) /\ \A k \in DOMAIN p : IsInstruction(p[k])
ASSUME AddressesAssumption == Addresses \subseteq Nat
ASSUME FoundAssumption == Found \in Seq([fun : Funs, hook : 0 .. 2])
ASSUME PageAssumption == PageSize \in Nat \ {0} /\ PageSize >= 128

PatchLen == 13   \* what the jump to the hook takes
BackLen  == 14   \* what the jump back from the trampoline takes
TrampLen == 64   \* trampoline1: times 64 db 0
TrampAt  == 0    \* its address: a page of its own (align 4096)

\* No function ends before the jump does.
ASSUME LongAssumption == \A p \in Bodies : Len(FlattenSeq(p)) >= PatchLen

VARIABLES
  body,      \* the instructions each function was compiled to
  addr,      \* its address
  code,      \* its bytes as they are now
  tramp,     \* the bytes of trampoline1
  writable,  \* the pages (by address) mprotect made writable
  kuk,       \* the function kuk points to, or "NULL"
  next,      \* the entry of Found the loop is at
  log        \* what XPluginStart logs of each entry of Found

vars == <<body, addr, code, tramp, writable, kuk, next, log>>

Original(f) == FlattenSeq(body[f])

\* The offsets at which an instruction of f begins, or its body ends.
Boundaries(f) ==
  {Len(FlattenSeq(SubSeq(body[f], 1, k))) : k \in 0 .. Len(body[f])}

Init ==
  /\ body \in [Funs -> Bodies]
  /\ addr \in [Funs -> Addresses]
  /\ \A f, g \in Funs : f # g =>   \* they do not overlap
       addr[f] + Len(Original(f)) <= addr[g] \/ addr[g] + Len(Original(g)) <= addr[f]
  /\ code = [f \in Funs |-> Original(f)]
  /\ tramp = [i \in 1 .. TrampLen |-> 0]
  /\ writable = {} /\ kuk = "NULL"
  /\ next = 1 /\ log = [i \in DOMAIN Found |-> "none"]

-----------------------------------------------------------------------------
\* safe, and the mutant that keeps the value of the 32-bit build.
Safe32 == 5
Safe   == PatchLen

\* d of get_hook_space after k instructions, -1 once one of them is unknown.
Decoded(bytes) ==
  LET decoded[k \in 0 .. PatchLen] ==
        IF k = 0 THEN 0
        ELSE LET d == decoded[k - 1]
                 tmp == IF d < 0 THEN -1 ELSE ReadInstruction64(bytes, d + 1)
             IN IF tmp < 0 THEN -1 ELSE d + tmp
  IN decoded

\* get_hook_space: whole instructions until the jump fits.
HookSpace(bytes) ==
  LET decoded == Decoded(bytes)
      enough(k) == decoded[k] < 0 \/ decoded[k] >= Safe
  IN decoded[CHOOSE k \in 0 .. PatchLen :
               enough(k) /\ \A j \in 0 .. k - 1 : ~enough(j)]

PageStart(a) == a - (a % PageSize)

\* Mutant: only the first page.
PageOfStart(a, len) == {PageStart(a)}

\* The pages change_range_prot protects: that of the first byte, and that of
\* the byte after the last.
PagesOf(a, len) == {PageStart(a), PageStart(a + len)}

\* The copy of the instructions, and the jump back to address a: push of the
\* low dword, mov of the high one over its sign extension, ret.  The host is
\* linked below 4 GiB, so the high dword is 0.
Copied(bytes, n, old) == [i \in 1 .. TrampLen |-> IF i <= n THEN bytes[i] ELSE old[i]]
Dword(a) == [i \in 1 .. 4 |-> (a \div 256 ^ (i - 1)) % 256]
JumpBack(a) == <<\h68>> \o Dword(a) \o <<\hC7, \h44, \h24, \h04>> \o Dword(0) \o <<\hC3>>

\* The bytes that jump to the hook, the address of hook1 as zeros.
JumpToHook == <<\h50, \h48, \hB8, 0, 0, 0, 0, 0, 0, 0, 0, \h50, \hC3>>

\* No function of the host begins with that jump: it does not know the plugin.
ASSUME FreshAssumption ==
  \A p \in Bodies : SubSeq(FlattenSeq(p), 1, PatchLen) # JumpToHook

Patched(bytes) == [i \in DOMAIN bytes |-> IF i <= PatchLen THEN JumpToHook[i] ELSE bytes[i]]
WithJumpBack(t, n, a) ==
  [i \in 1 .. TrampLen |-> IF i \in n + 1 .. n + BackLen THEN JumpBack(a)[i - n] ELSE t[i]]

Variant(n) == CASE n = 0 -> "kuk1" [] n = 1 -> "kuk2" [] n = 2 -> "kuk0"

Logged(what) == log' = [log EXCEPT ![next] = what]

\* An instruction is unknown, or trampoline1 stays read-only.
NotHooked ==
  /\ Logged("unsuccessful")
  /\ UNCHANGED <<code, tramp, writable>>

\* Some page of f stays read-only: the copy is in the trampoline, and hook_proc
\* returns -1, which hook takes for success.
HalfHooked(f, copy) ==
  /\ copy > 0
  /\ \E ok \in SUBSET PagesOf(addr[f], copy) :
       ok # PagesOf(addr[f], copy) /\ writable' = writable \cup {TrampAt} \cup ok
  /\ tramp' = Copied(code[f], copy, tramp)
  /\ Logged("initialized")
  /\ UNCHANGED code

FullyHooked(f, copy) ==
  /\ copy > 0
  /\ writable' = writable \cup {TrampAt} \cup PagesOf(addr[f], copy)
  /\ tramp' = WithJumpBack(Copied(code[f], copy, tramp), copy, addr[f] + copy)
  /\ code' = [code EXCEPT ![f] = Patched(code[f])]
  /\ Logged("initialized")

\* hook, for the entry the loop is at, and the line XPluginStart logs.  Each
\* mprotect may fail.
HookEntry ==
  /\ next \in DOMAIN Found
  /\ next' = next + 1
  /\ kuk' = Variant(Found[next].hook)
  /\ LET f    == Found[next].fun
         copy == HookSpace(code[f])
     IN NotHooked \/ HalfHooked(f, copy) \/ FullyHooked(f, copy)
  /\ UNCHANGED <<body, addr>>

Spec == Init /\ [][HookEntry]_vars

-----------------------------------------------------------------------------
(* Properties, of the program once XPluginStart has returned.              *)

\* No instruction that a function begins with is one the decoder misreads; and
\* the entries of ptrs with an address are of one function: what the theorems
\* need, and the findings are about.
NothingMisread ==
  \A p \in Bodies : \A k \in DOMAIN p :
    LET n == PrefixCount(p[k], 1)
    IN ~Misread(SubSeq(p[k], 1, n), p[k][n + 1], p[k][n + 2])
OneFun == \A i, j \in DOMAIN Found : Found[i].fun = Found[j].fun

Running   == next > Len(Found)
Hooked(f) == SubSeq(code[f], 1, PatchLen) = JumpToHook

\* A hooked function still does what it did: after the stub it runs the
\* instructions it began with, whole, and goes on behind the jump, with what
\* is there untouched.
CallsContinue ==
  Running => \A f \in Funs : Hooked(f) =>
    \E n \in Boundaries(f) :
      /\ n >= PatchLen /\ n + BackLen <= TrampLen
      /\ SubSeq(tramp, 1, n) = SubSeq(Original(f), 1, n)
      /\ SubSeq(tramp, n + 1, n + BackLen) = JumpBack(addr[f] + n)
      /\ \A i \in n + 1 .. Len(Original(f)) : code[f][i] = Original(f)[i]

\* The address an instruction at a counts its memory operand from: that of the
\* next instruction for [rip + disp32], none for any other.
RipRelative(i) ==
  LET op == i[PrefixCount(i, 1) + 1]
      m  == i[PrefixCount(i, 1) + 2]
  IN op \in WithModrm /\ Mod(m) = 0 /\ Rm(m) = 5
OperandBase(i, a) == IF RipRelative(i) THEN {a + Len(i)} ELSE {}

\* The instructions copied from a hooked function refer to the same memory in
\* the trampoline as in the function ("copy enough off the function start, so
\* we can hook it").
OperandsKept ==
  Running => \A f \in Funs : Hooked(f) =>
    \A k \in DOMAIN body[f] :
      LET at == Len(FlattenSeq(SubSeq(body[f], 1, k - 1)))
      IN at < PatchLen =>
           OperandBase(body[f][k], TrampAt + at) = OperandBase(body[f][k], addr[f] + at)

\* Every byte the patch or the trampoline was written to is on a page that
\* was made writable first, also where the jump crosses a page boundary.
WritesAllowed ==
  /\ \A f \in Funs : Hooked(f) =>
       \A i \in 0 .. PatchLen - 1 : PageStart(addr[f] + i) \in writable
  /\ (\E i \in 1 .. TrampLen : tramp[i] # 0) => TrampAt \in writable

\* What XPluginStart logs, "Hook %d initialized.", is so.
LogIsTrue ==
  Running => \A i \in DOMAIN Found : log[i] = "initialized" => Hooked(Found[i].fun)
=============================================================================
