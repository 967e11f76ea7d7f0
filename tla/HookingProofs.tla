---------------------------- MODULE HookingProofs ----------------------------
(***************************************************************************)
(* Theorems about the decoder and the hooks, for every set of functions,   *)
(* instructions, addresses and page sizes: read_instruction64 gives the    *)
(* length that the processor takes, or refuses (LengthRight, DecodedRight),*)
(* a hooked function goes on (HookedGoesOn), and nothing is written to a   *)
(* page that is read-only (AlwaysAllowed).  The last two rest on what      *)
(* get_hook_space returns: whole instructions, 13 to 27 bytes              *)
(* (SpaceIsWhole, by induction over the instructions it has passed).       *)
(*                                                                         *)
(* About the search for the functions, for every executable whose tables   *)
(* are well-formed: it finds the right ones (AddressesAreRight).  About    *)
(* the stub: the function that is called does not notice kuk, and kuk is   *)
(* called as the ABI asks (HookTransparent, KukCalledLegally).  And about  *)
(* kuk0, kuk1 and kuk2, for all texts, limits and blocks: what is queued   *)
(* is the text of the call (TextIsFound).                                  *)
(***************************************************************************)
EXTENDS Hook, Decoder, Stub, KukText, ElfTables, NatLemmas, TLAPS

\* FlattenSeq is a recursive function: g is it, on the first n sequences of s.

IsFlatten(g, s, n) ==
  g = [i \in 1 .. n |-> IF i = 1 THEN s[i] ELSE g[i - 1] \o s[i]]

LEMMA FlattenExists ==
  ASSUME NEW s, NEW n \in Nat
  PROVE  \E g : IsFlatten(g, s, n)
<1>. DEFINE S == {k \in Nat : \E g : IsFlatten(g, s, k)}
<1>1. 0 \in S
  <2>1. IsFlatten(<<>>, s, 0)
    BY DEF IsFlatten
  <2> QED BY <2>1
<1>2. ASSUME NEW k \in Nat, k \in S PROVE k + 1 \in S
  <2>1. PICK g : IsFlatten(g, s, k)
    BY <1>2
  <2> DEFINE h == [i \in 1 .. k + 1 |->
                     IF i = k + 1 THEN (IF k = 0 THEN s[1] ELSE g[k] \o s[k + 1]) ELSE g[i]]
  <2>2. \A i \in 1 .. k : g[i] = IF i = 1 THEN s[i] ELSE g[i - 1] \o s[i]
    BY <2>1 DEF IsFlatten
  <2>3. \A i \in 1 .. k + 1 : h[i] = IF i = 1 THEN s[i] ELSE h[i - 1] \o s[i]
    BY <2>2
  <2>4. IsFlatten(h, s, k + 1)
    BY <2>3 DEF IsFlatten
  <2> HIDE DEF h
  <2> QED BY <2>4
<1>. HIDE DEF S
<1>3. Nat \subseteq S
  BY <1>1, <1>2, SetInduction
<1>. QED BY <1>3 DEF S

LEMMA FlattenIs ==
  ASSUME NEW s, Len(s) \in Nat, Len(s) # 0
  PROVE  \E g : IsFlatten(g, s, Len(s)) /\ FlattenSeq(s) = g[Len(s)]
<1>1. PICK f : IsFlatten(f, s, Len(s))
  BY FlattenExists
<1>. DEFINE g == CHOOSE h : IsFlatten(h, s, Len(s))
<1>2. IsFlatten(g, s, Len(s))
  BY <1>1, Zenon
<1>3. FlattenSeq(s) = g[Len(s)]
  BY DEF FlattenSeq, IsFlatten
<1>. HIDE DEF g
<1>. QED BY <1>2, <1>3

\* The first k sequences of s, put together.
Flat(s, k) == FlattenSeq(SubSeq(s, 1, k))

LEMMA FlatNone == ASSUME NEW s PROVE Flat(s, 0) = <<>>
<1>1. SubSeq(s, 1, 0) = <<>>
  OBVIOUS
<1>. QED
  BY <1>1 DEF Flat, FlattenSeq

\* g is Flat(s, _), as its own recursion.
IsFlat(g, s, B) ==
  \A k \in 1 .. Len(s) :
    /\ g[k] = Flat(s, k) /\ g[k] \in Seq(B)
    /\ g[k] = IF k = 1 THEN s[k] ELSE g[k - 1] \o s[k]

LEMMA FlatSome ==
  ASSUME NEW B, NEW s \in Seq(Seq(B))
  PROVE  \E g : IsFlat(g, s, B)
<1>1. PICK g : IsFlatten(g, s, Len(s))
  <2>1. Len(s) \in Nat
    OBVIOUS
  <2> QED
    BY <2>1, FlattenExists, Zenon
<1>2. \A k \in 1 .. Len(s) : g[k] = IF k = 1 THEN s[k] ELSE g[k - 1] \o s[k]
  BY <1>1 DEF IsFlatten
<1>3. ASSUME NEW k \in 1 .. Len(s) PROVE g[k] = Flat(s, k)
  <2> DEFINE t == SubSeq(s, 1, k)
  <2>1. Len(t) = k /\ k # 0 /\ k \in Nat /\ \A i \in 1 .. k : s[i] = t[i]
    OBVIOUS
  <2> HIDE DEF t
  <2>2. PICK h : IsFlatten(h, t, k) /\ FlattenSeq(t) = h[k]
    BY <2>1, FlattenIs
  <2>3. \A i \in 1 .. k : h[i] = IF i = 1 THEN s[i] ELSE h[i - 1] \o s[i]
    BY <2>1, <2>2 DEF IsFlatten
  <2> DEFINE S == {i \in Nat : i \in 1 .. k => g[i] = h[i]}
  <2>4. 0 \in S
    OBVIOUS
  <2>5. ASSUME NEW i \in Nat, i \in S PROVE i + 1 \in S
    <3>1. SUFFICES ASSUME i + 1 \in 1 .. k PROVE g[i + 1] = h[i + 1]
      OBVIOUS
    <3>2. i + 1 \in 1 .. Len(s) /\ (i = 0 \/ i \in 1 .. k)
      BY <3>1
    <3>3. g[i + 1] = IF i + 1 = 1 THEN s[i + 1] ELSE g[(i + 1) - 1] \o s[i + 1]
      BY <1>2, <3>2
    <3>4. h[i + 1] = IF i + 1 = 1 THEN s[i + 1] ELSE h[(i + 1) - 1] \o s[i + 1]
      BY <2>3, <3>1
    <3> QED
      BY <2>5, <3>2, <3>3, <3>4
  <2>6. Nat \subseteq S
    <3> HIDE DEF S
    <3> QED BY <2>4, <2>5, SetInduction
  <2>7. g[k] = h[k]
    BY <2>6
  <2> QED
    BY <2>2, <2>7, Zenon DEF t, Flat
<1>. DEFINE S == {k \in Nat : k \in 1 .. Len(s) => g[k] \in Seq(B)}
<1>4. 0 \in S
  OBVIOUS
<1>5. ASSUME NEW k \in Nat, k \in S PROVE k + 1 \in S
  <2>1. SUFFICES ASSUME k + 1 \in 1 .. Len(s) PROVE g[k + 1] \in Seq(B)
    OBVIOUS
  <2>2. g[k + 1] = IF k + 1 = 1 THEN s[k + 1] ELSE g[(k + 1) - 1] \o s[k + 1]
    BY <1>2, <2>1
  <2>3. s[k + 1] \in Seq(B)
    BY <2>1
  <2>4. k = 0 \/ ((k + 1) - 1 = k /\ g[k] \in Seq(B))
    BY <1>5, <2>1
  <2> QED
    BY <2>2, <2>3, <2>4
<1>6. Nat \subseteq S
  <2> HIDE DEF S
  <2> QED BY <1>4, <1>5, SetInduction
<1>7. \A k \in 1 .. Len(s) : g[k] \in Seq(B)
  BY <1>6
<1>. QED
  BY <1>2, <1>3, <1>7, Zenon DEF IsFlat

LEMMA FlatStep ==
  ASSUME NEW B, NEW s \in Seq(Seq(B)), NEW k \in 1 .. Len(s)
  PROVE  /\ Flat(s, k) = Flat(s, k - 1) \o s[k]
         /\ Flat(s, k) \in Seq(B) /\ Flat(s, k - 1) \in Seq(B) /\ s[k] \in Seq(B)
<1>0. PICK g : IsFlat(g, s, B)
  BY FlatSome, Zenon
<1>1. \A j \in 1 .. Len(s) :
        /\ g[j] = Flat(s, j) /\ g[j] \in Seq(B)
        /\ g[j] = IF j = 1 THEN s[j] ELSE g[j - 1] \o s[j]
  BY <1>0, Zenon DEF IsFlat
<1>2. s[k] \in Seq(B)
  OBVIOUS
<1>3. CASE k = 1
  <2>1. Flat(s, k - 1) = <<>>
    BY <1>3, FlatNone
  <2>2. Flat(s, k) = s[k]
    BY <1>1, <1>3
  <2>3. <<>> \in Seq(B) /\ <<>> \o s[k] = s[k]
    BY <1>2
  <2> QED
    BY <1>2, <2>1, <2>2, <2>3
<1>4. CASE k # 1
  <2>1. k - 1 \in 1 .. Len(s)
    BY <1>4
  <2> QED
    BY <1>1, <1>2, <1>4, <2>1
<1>. QED
  BY <1>3, <1>4

LEMMA FlatAll ==
  ASSUME NEW B, NEW s \in Seq(Seq(B))
  PROVE  Flat(s, Len(s)) = FlattenSeq(s) /\ FlattenSeq(s) \in Seq(B)
<1>1. SubSeq(s, 1, Len(s)) = s
  OBVIOUS
<1>2. Flat(s, Len(s)) = FlattenSeq(s)
  BY <1>1 DEF Flat
<1>3. CASE Len(s) = 0
  <2>1. Flat(s, Len(s)) = <<>>
    BY <1>3, FlatNone, Zenon
  <2> QED
    BY <1>2, <2>1
<1>4. CASE Len(s) # 0
  <2>1. Len(s) \in 1 .. Len(s)
    BY <1>4
  <2> QED
    BY <1>2, <2>1, FlatStep
<1>. QED
  BY <1>2, <1>3, <1>4

\* What is put together first stays where it is.
LEMMA FlatPrefix ==
  ASSUME NEW B, NEW s \in Seq(Seq(B)), NEW j \in 0 .. Len(s)
  PROVE  \A k \in j .. Len(s) :
           /\ Flat(s, j) \in Seq(B) /\ Flat(s, k) \in Seq(B)
           /\ Len(Flat(s, j)) <= Len(Flat(s, k))
           /\ \A i \in 1 .. Len(Flat(s, j)) : Flat(s, k)[i] = Flat(s, j)[i]
<1>. DEFINE Good(k) == /\ Flat(s, j) \in Seq(B) /\ Flat(s, k) \in Seq(B)
                      /\ Len(Flat(s, j)) <= Len(Flat(s, k))
                      /\ \A i \in 1 .. Len(Flat(s, j)) : Flat(s, k)[i] = Flat(s, j)[i]
           S == {k \in Nat : k \in j .. Len(s) => Good(k)}
<1>1. Flat(s, j) \in Seq(B)
  <2>1. CASE j = 0
    <3>1. Flat(s, j) = <<>>
      BY <2>1, FlatNone, Zenon
    <3> QED BY <3>1
  <2>2. CASE j # 0
    <3>1. j \in 1 .. Len(s)
      BY <2>2
    <3> QED BY <3>1, FlatStep, Zenon
  <2> QED BY <2>1, <2>2
<1>2. Good(j)
  BY <1>1
<1>3. 0 \in S
  BY <1>2
<1>4. ASSUME NEW k \in Nat, k \in S PROVE k + 1 \in S
  <2>1. SUFFICES ASSUME k + 1 \in j .. Len(s), k + 1 # j PROVE Good(k + 1)
    BY <1>2
  <2>2. Good(k)
    BY <1>4, <2>1
  <2>3. /\ Flat(s, k + 1) = Flat(s, k) \o s[k + 1]
        /\ Flat(s, k + 1) \in Seq(B) /\ Flat(s, k) \in Seq(B) /\ s[k + 1] \in Seq(B)
    <3>1. k + 1 \in 1 .. Len(s) /\ (k + 1) - 1 = k
      BY <2>1
    <3>2. Flat(s, k + 1) = Flat(s, (k + 1) - 1) \o s[k + 1] /\ Flat(s, k + 1) \in Seq(B)
          /\ Flat(s, (k + 1) - 1) \in Seq(B) /\ s[k + 1] \in Seq(B)
      BY <3>1, FlatStep
    <3> QED BY <3>1, <3>2, Zenon
  <2> QED
    BY <2>2, <2>3
<1>5. Nat \subseteq S
  <2> HIDE DEF S
  <2> QED BY <1>3, <1>4, SetInduction
<1>. QED
  BY <1>5

-----------------------------------------------------------------------------
\* The prefixes at a place in the bytes are counted right.
LEMMA PrefixCountIs ==
  ASSUME NEW bytes, Len(bytes) \in Nat, NEW at \in Nat, NEW n \in Nat, at + n <= Len(bytes),
         bytes[at + n] \notin PrefixBytes, \A j \in 0 .. n - 1 : bytes[at + j] \in PrefixBytes
  PROVE  PrefixCount(bytes, at) = n
<1>. DEFINE Is(k) == /\ bytes[at + k] \notin PrefixBytes
                     /\ \A j \in 0 .. k - 1 : bytes[at + j] \in PrefixBytes
<1>1. n \in 0 .. Len(bytes) - at /\ Is(n)
  OBVIOUS
<1>2. ASSUME NEW k \in 0 .. Len(bytes) - at, Is(k) PROVE k = n
  <2>1. ~(k < n) /\ ~(n < k)
    BY <1>2
  <2>. QED
    BY <2>1
<1>. HIDE DEF Is
<1>3. (CHOOSE k \in 0 .. Len(bytes) - at : Is(k)) = n
  BY <1>1, <1>2
<1>. QED
  BY <1>3, Zenon DEF PrefixCount, Is

\* The instruction lies at a place in the bytes, as far as its length depends on them.
LiesAt(bytes, at, prefixes, op, m, s) ==
  LET n == Len(prefixes)
  IN /\ at + n <= Len(bytes)
     /\ \A j \in 1 .. n : bytes[at + j - 1] = prefixes[j]
     /\ bytes[at + n] = op
     /\ op \in WithModrm =>
          bytes[at + n + 1] = m /\ (HasSib(m, FALSE) => bytes[at + n + 2] = s)

LEMMA AddressRight ==
  ASSUME NEW m \in Bytes, NEW s, NEW t, HasSib(m, FALSE) => t = s
  PROVE  AddressBytes(m, s) = (IF HasSib(m, FALSE) THEN 1 ELSE 0) + Displacement(m, t, FALSE)
<1>1. Mod(m) \in 0 .. 3
  BY DEF Mod, Bytes
<1>2. CASE Mod(m) = 3
  BY <1>2 DEF AddressBytes, HasSib, Displacement
<1>3. CASE Mod(m) # 3 /\ Rm(m) = 4
  <2>1. t = s
    BY <1>3 DEF HasSib
  <2>. QED
    BY <1>1, <1>3, <2>1 DEF AddressBytes, HasSib, Displacement
<1>4. CASE Mod(m) # 3 /\ Rm(m) # 4
  BY <1>1, <1>4 DEF AddressBytes, HasSib, Displacement
<1>. QED
  BY <1>2, <1>3, <1>4

\* The decoder gives the length that the processor takes, for any number of
\* prefixes, every opcode of the table and every operand, Misread excepted.
THEOREM LengthRight ==
  ASSUME NEW bytes, Len(bytes) \in Nat, NEW at \in Nat \ {0},
         NEW prefixes \in Seq(PrefixBytes), NEW op \in Opcodes, NEW m, NEW s,
         op \in WithModrm => m \in Bytes,
         LiesAt(bytes, at, prefixes, op, m, s), ~Misread(prefixes, op, m)
  PROVE  ReadInstruction64(bytes, at) = Amd64Length(prefixes, op, m, s)
<1>. DEFINE n == Len(prefixes)
            x66 == \E j \in DOMAIN prefixes : prefixes[j] = X66
<1>1. n \in Nat /\ \A j \in 1 .. n : bytes[at + j - 1] = prefixes[j]
      /\ prefixes[j] \in PrefixBytes
  BY DEF LiesAt
<1>2. op \notin PrefixBytes /\ bytes[at + n] = op
  BY DEF LiesAt, Opcodes, WithModrm, NoModrm, PrefixBytes, RexBytes, X66, X67
<1>3. PrefixCount(bytes, at) = n
  <2>1. \A j \in 0 .. n - 1 : bytes[at + j] \in PrefixBytes
    <3>1. ASSUME NEW j \in 0 .. n - 1 PROVE bytes[at + j] \in PrefixBytes
      <4>1. j + 1 \in 1 .. n /\ at + (j + 1) - 1 = at + j
        BY <1>1
      <4>. QED
        BY <1>1, <4>1
    <3>. QED
      BY <3>1
  <2>2. at + n <= Len(bytes) /\ at \in Nat
    BY DEF LiesAt
  <2>. QED
    BY <1>1, <1>2, <2>1, <2>2, PrefixCountIs
<1>4. ASSUME NEW p
      PROVE  (\E j \in 0 .. n - 1 : bytes[at + j] = p)
             <=> (\E j \in DOMAIN prefixes : prefixes[j] = p)
  <2>1. ASSUME NEW j \in 0 .. n - 1, bytes[at + j] = p
        PROVE \E k \in DOMAIN prefixes : prefixes[k] = p
    <3>1. j + 1 \in 1 .. n /\ at + (j + 1) - 1 = at + j
      BY <1>1
    <3>2. prefixes[j + 1] = p
      BY <1>1, <2>1, <3>1
    <3>. QED
      BY <3>1, <3>2
  <2>2. ASSUME NEW k \in DOMAIN prefixes, prefixes[k] = p
        PROVE \E j \in 0 .. n - 1 : bytes[at + j] = p
    <3>1. k \in 1 .. n /\ k - 1 \in 0 .. n - 1 /\ at + (k - 1) = at + k - 1
      BY <1>1
    <3>2. bytes[at + (k - 1)] = p
      BY <1>1, <2>2, <3>1
    <3>. QED
      BY <3>1, <3>2
  <2>. QED
    BY <2>1, <2>2
<1>5. ~(\E j \in DOMAIN prefixes : prefixes[j] = X67)
  BY DEF Misread
<1>6. ReadInstruction64(bytes, at) =
        IF op \in NoModrm THEN n + 1 + Immediate(op, 0, x66)
        ELSE n + 2 + (IF HasSib(bytes[at + n + 1], FALSE) THEN 1 ELSE 0)
               + Displacement(bytes[at + n + 1], bytes[at + n + 2], FALSE)
               + Immediate(op, bytes[at + n + 1], x66)
  BY <1>2, <1>3, <1>4, <1>5, Zenon DEF ReadInstruction64
<1>7. Amd64Length(prefixes, op, m, s) =
        n + 1 + OperandBytes(op, m, prefixes)
          + IF op \in WithModrm THEN 1 + AddressBytes(m, s) ELSE 0
  BY DEF Amd64Length
<1>8. x66 /\ op = 5 => prefixes # <<>> /\ ~RexW(prefixes[Len(prefixes)])
  BY DEF Misread
<1>9. CASE op \in NoModrm
  <2>1. op \notin WithModrm
    BY <1>9 DEF WithModrm, NoModrm
  <2>0. ASSUME NEW d \in Nat, Immediate(op, 0, x66) = d, OperandBytes(op, m, prefixes) = d
        PROVE  ReadInstruction64(bytes, at) = Amd64Length(prefixes, op, m, s)
    <3>1. ReadInstruction64(bytes, at) = n + 1 + d
      BY <1>6, <1>9, <2>0, Zenon
    <3>2. Amd64Length(prefixes, op, m, s) = n + 1 + d + 0
      BY <1>7, <2>0, <2>1, Zenon
    <3>. QED
      BY <1>1, <3>1, <3>2
  <2>2. CASE op = 5
    <3>1. Immediate(op, 0, x66) = OperandBytes(op, m, prefixes)
          /\ Immediate(op, 0, x66) \in Nat
      BY <1>8, <2>2 DEF Immediate, OperandBytes
    <3>. QED
      BY <2>0, <3>1
  <2>3. CASE op # 5
    <3>0. op \notin {\h83, \hF6}
      BY <1>9 DEF NoModrm
    <3>1. Immediate(op, 0, x66) = OperandBytes(op, m, prefixes)
          /\ Immediate(op, 0, x66) \in Nat
      <4>1. CASE op = 4
        BY <4>1 DEF Immediate, OperandBytes
      <4>2. CASE op # 4
        BY <2>3, <3>0, <4>2 DEF Immediate, OperandBytes
      <4>. QED
        BY <4>1, <4>2
    <3>. QED
      BY <2>0, <3>1
  <2>. QED
    BY <2>2, <2>3
<1>10. CASE op \notin NoModrm
  <2>1. op \in WithModrm
    BY <1>10 DEF Opcodes
  <2>2. bytes[at + n + 1] = m /\ m \in Bytes /\ (HasSib(m, FALSE) => bytes[at + n + 2] = s)
    BY <2>1 DEF LiesAt
  <2>3. AddressBytes(m, s) =
          (IF HasSib(m, FALSE) THEN 1 ELSE 0) + Displacement(m, bytes[at + n + 2], FALSE)
    BY <2>2, AddressRight
  <2>4. Displacement(m, bytes[at + n + 2], FALSE) \in Nat
    BY DEF Displacement
  <2>5. Reg(m) \in 0 .. 7 /\ ~(op = \hF6 /\ Reg(m) = 1)
    BY <2>2 DEF Reg, Bytes, Misread
  <2>6. Immediate(op, m, x66) = OperandBytes(op, m, prefixes) /\ Immediate(op, m, x66) \in Nat
    BY <2>1, <2>5 DEF Immediate, OperandBytes, WithModrm
  <2>. DEFINE d == Displacement(m, bytes[at + n + 2], FALSE)
              i == Immediate(op, m, x66)
              b == IF HasSib(m, FALSE) THEN 1 ELSE 0
  <2>7. ReadInstruction64(bytes, at) = n + 2 + b + d + i
    BY <1>6, <1>10, <2>2, Zenon
  <2>8. Amd64Length(prefixes, op, m, s) = n + 1 + i + (1 + (b + d))
    BY <1>7, <2>1, <2>3, <2>6, Zenon
  <2>9. d \in Nat /\ i \in Nat /\ b \in Nat /\ n \in Nat
    BY <1>1, <2>4, <2>6
  <2>. HIDE DEF d, i, b, n
  <2>. QED
    BY <2>7, <2>8, <2>9
<1>. QED
  BY <1>9, <1>10

\* The hypotheses of LengthRight.
Readable(bytes, at, prefixes, op, m, s) ==
  /\ Len(bytes) \in Nat /\ at \in Nat \ {0}
  /\ prefixes \in Seq(PrefixBytes) /\ op \in Opcodes
  /\ op \in WithModrm => m \in Bytes
  /\ LiesAt(bytes, at, prefixes, op, m, s)
  /\ ~Misread(prefixes, op, m)

LEMMA ReadRight ==
  ASSUME NEW bytes, NEW at, NEW prefixes, NEW op, NEW m, NEW s,
         Readable(bytes, at, prefixes, op, m, s)
  PROVE  ReadInstruction64(bytes, at) = Amd64Length(prefixes, op, m, s)
  BY LengthRight DEF Readable

-----------------------------------------------------------------------------
(* Decoder.                                                                *)

\* No instruction has an address size prefix: the decoder takes its operand for
\* one of 32-bit mode (the run len64_addr32).
NoAddressSize == \A i \in Instructions : \A j \in DOMAIN i.prefixes : i.prefixes[j] # X67

LEMMA CodeLies ==
  ASSUME NEW i \in Instructions
  PROVE  /\ i.prefixes \in Seq(PrefixBytes) /\ i.m \in Bytes /\ i.op \notin PrefixBytes
         /\ Len(i.prefixes) \in Nat /\ Len(Code(i)) = Len(i.prefixes) + 3
         /\ LiesAt(Code(i), 1, i.prefixes, i.op, i.m, i.s)
<1>1. i \in [prefixes : Seq(PrefixBytes), op : Bytes \ PrefixBytes, m : Bytes, s : Bytes]
  BY InstructionsAssumption, Zenon
<1>2. PICK p \in Seq(PrefixBytes), op \in Bytes \ PrefixBytes, m \in Bytes, s \in Bytes :
        i.prefixes = p /\ i.op = op /\ i.m = m /\ i.s = s
  BY <1>1
<1>3. PICK n \in Nat : Len(p) = n
  OBVIOUS
<1>4. Len(p \o <<op, m, s>>) = n + 3
  BY <1>2, <1>3
<1>5. /\ \A j \in 1 .. n : (p \o <<op, m, s>>)[1 + j - 1] = p[j]
      /\ (p \o <<op, m, s>>)[1 + n] = op
      /\ (p \o <<op, m, s>>)[1 + n + 1] = m
      /\ (p \o <<op, m, s>>)[1 + n + 2] = s
  BY <1>2, <1>3
<1>6. Code(i) = p \o <<op, m, s>>
  BY <1>2 DEF Code
<1>7. LiesAt(Code(i), 1, p, op, m, s)
  <2>1. PICK c : c = p \o <<op, m, s>>
    OBVIOUS
  <2>2. /\ Len(c) = n + 3 /\ \A j \in 1 .. n : c[1 + j - 1] = p[j]
        /\ c[1 + n] = op /\ c[1 + n + 1] = m /\ c[1 + n + 2] = s
    BY <1>4, <1>5, <2>1, Zenon
  <2>3. 1 + n <= Len(c)
    BY <2>2
  <2>4. LiesAt(c, 1, p, op, m, s)
    BY <1>3, <2>2, <2>3, Zenon DEF LiesAt
  <2>. QED
    BY <1>6, <2>1, <2>4
<1>. QED
  BY <1>2, <1>3, <1>4, <1>6, <1>7

\* Every instruction is measured right, or refused, whatever its bytes.
THEOREM DecodedRight == ASSUME NoAddressSize PROVE DecoderSpec => []LengthIsRight
<1>. DEFINE LenInv == instr \in Instructions /\ LengthIsRight
<1>1. DecoderInit => LenInv
  BY DEF DecoderInit, LengthIsRight
<1>2. LenInv /\ [Decode]_decoderVars => LenInv'
  <2>1. ASSUME LenInv, UNCHANGED decoderVars PROVE LenInv'
    BY <2>1 DEF decoderVars, LengthIsRight
  <2>2. ASSUME LenInv, Decode PROVE LenInv'
    <3>. DEFINE i == instr
    <3>1. i \in Instructions /\ instr' = i /\ length' = ReadInstruction64(Code(i), 1)
      BY <2>2 DEF Decode
    <3>. HIDE DEF i
    <3>2. ASSUME Covered(i), i.op \in Opcodes
          PROVE  length' = Amd64Length(i.prefixes, i.op, i.m, i.s)
      <4>1. ~Misread(i.prefixes, i.op, i.m)
        BY <3>1, <3>2, CodeLies DEF Misread, NoAddressSize, Covered, Last, Contains
      <4>2. Readable(Code(i), 1, i.prefixes, i.op, i.m, i.s)
        BY <3>1, <3>2, <4>1, CodeLies DEF Readable
      <4>. QED
        BY <3>1, <4>2, ReadRight
    <3>3. ASSUME i.op \notin Opcodes PROVE length' = -1
      <4>1. PICK c, n : c = Code(i) /\ n = Len(i.prefixes) /\ n \in Nat
        BY <3>1, CodeLies
      <4>2. Len(c) = n + 3 /\ c[1 + n] = i.op
        BY <3>1, <4>1, CodeLies DEF LiesAt
      <4>3. \A j \in 0 .. n - 1 : c[1 + j] \in PrefixBytes
        <5>1. ASSUME NEW j \in 0 .. n - 1 PROVE c[1 + j] \in PrefixBytes
          <6>1. j + 1 \in 1 .. n /\ 1 + (j + 1) - 1 = 1 + j
            BY <4>1
          <6>2. c[1 + (j + 1) - 1] = i.prefixes[j + 1]
            BY <3>1, <4>1, <6>1, CodeLies DEF LiesAt
          <6>3. i.prefixes[j + 1] \in PrefixBytes
            BY <3>1, <4>1, <6>1, CodeLies
          <6>. QED
            BY <6>1, <6>2, <6>3
        <5>. QED
          BY <5>1
      <4>4. PrefixCount(c, 1) = n
        <5>1. c[1 + n] \notin PrefixBytes
          BY <3>1, <4>2, CodeLies
        <5>2. Len(c) \in Nat /\ 1 + n <= Len(c) /\ 1 \in Nat
          BY <4>1, <4>2
        <5>. QED
          BY <4>1, <4>3, <5>1, <5>2, PrefixCountIs
      <4>. QED
        BY <3>1, <3>3, <4>1, <4>2, <4>4 DEF ReadInstruction64
    <3>4. LengthIsRight'
      BY <3>1, <3>2, <3>3 DEF LengthIsRight
    <3>. QED
      BY <3>1, <3>4
  <2>. QED
    BY <2>1, <2>2
<1>3. LenInv => LengthIsRight
  OBVIOUS
<1>. QED
  BY <1>1, <1>2, <1>3, PTL DEF DecoderSpec

-----------------------------------------------------------------------------
\* One turn of the loop of get_hook_space, and Decoded as its recursion.
Advance(bytes, d) ==
  LET tmp == IF d < 0 THEN -1 ELSE ReadInstruction64(bytes, d + 1)
  IN IF tmp < 0 THEN -1 ELSE d + tmp

IsDecoded(g, bytes, n) ==
  g = [k \in 0 .. n |-> IF k = 0 THEN 0 ELSE Advance(bytes, g[k - 1])]

LEMMA DecodedExists ==
  ASSUME NEW bytes, NEW n \in Nat
  PROVE  \E g : IsDecoded(g, bytes, n)
<1>. DEFINE S == {k \in Nat : \E g : IsDecoded(g, bytes, k)}
<1>1. 0 \in S
  <2>1. IsDecoded([k \in 0 .. 0 |-> 0], bytes, 0)
    BY DEF IsDecoded
  <2>. QED
    BY <2>1
<1>2. ASSUME NEW k \in Nat, k \in S PROVE k + 1 \in S
  <2>1. PICK g : IsDecoded(g, bytes, k)
    BY <1>2
  <2>. DEFINE h == [i \in 0 .. k + 1 |-> IF i = k + 1 THEN Advance(bytes, g[k]) ELSE g[i]]
  <2>2. \A i \in 0 .. k : g[i] = IF i = 0 THEN 0 ELSE Advance(bytes, g[i - 1])
    BY <2>1 DEF IsDecoded
  <2>3. \A i \in 0 .. k + 1 : h[i] = IF i = 0 THEN 0 ELSE Advance(bytes, h[i - 1])
    BY <2>2
  <2>4. IsDecoded(h, bytes, k + 1)
    BY <2>3 DEF IsDecoded
  <2>. HIDE DEF h
  <2>. QED
    BY <2>4
<1>3. Nat \subseteq S
  <2>. HIDE DEF S
  <2>. QED
    BY <1>1, <1>2, SetInduction
<1>. QED
  BY <1>3

LEMMA DecodedIs ==
  ASSUME NEW bytes
  PROVE  /\ Decoded(bytes)[0] = 0
         /\ \A k \in 1 .. PatchLen :
              Decoded(bytes)[k] = Advance(bytes, Decoded(bytes)[k - 1])
<1>1. PatchLen \in Nat
  BY DEF PatchLen
<1>2. PICK f : IsDecoded(f, bytes, PatchLen)
  BY <1>1, DecodedExists
<1>. DEFINE g == CHOOSE h : IsDecoded(h, bytes, PatchLen)
<1>3. IsDecoded(g, bytes, PatchLen)
  BY <1>2, Zenon
<1>4. Decoded(bytes) = g
  BY DEF Decoded, IsDecoded, Advance
<1>. HIDE DEF g
<1>5. \A k \in 0 .. PatchLen : g[k] = IF k = 0 THEN 0 ELSE Advance(bytes, g[k - 1])
  BY <1>3 DEF IsDecoded
<1>. QED
  BY <1>1, <1>4, <1>5

\* Where the loop ends.
Enough(bytes, k) == Decoded(bytes)[k] < 0 \/ Decoded(bytes)[k] >= Safe

\* get_hook_space stops at the first place that is enough.
LEMMA HookSpaceIs ==
  ASSUME NEW bytes, NEW k \in 0 .. PatchLen, Enough(bytes, k)
  PROVE  \E j \in 0 .. k : /\ Enough(bytes, j) /\ \A i \in 0 .. j - 1 : ~Enough(bytes, i)
                           /\ HookSpace(bytes) = Decoded(bytes)[j]
<1>. DEFINE T == {j \in 0 .. PatchLen : Enough(bytes, j)}
            First(j) == Enough(bytes, j) /\ \A i \in 0 .. j - 1 : ~Enough(bytes, i)
<1>1. T \subseteq Nat /\ k \in T
  BY DEF PatchLen
<1>2. PICK j \in T : \A i \in T : j <= i
  <2>. HIDE DEF T
  <2>. QED
    BY <1>1, LeastNat
<1>3. j \in 0 .. k /\ j \in 0 .. PatchLen /\ First(j)
  BY <1>1, <1>2 DEF PatchLen
<1>4. ASSUME NEW i \in 0 .. PatchLen, First(i) PROVE i = j
  <2>1. ~(i < j) /\ ~(j < i)
    BY <1>3, <1>4 DEF PatchLen
  <2>. QED
    BY <2>1 DEF PatchLen
<1>. HIDE DEF First, T
<1>5. (CHOOSE i \in 0 .. PatchLen : First(i)) = j
  BY <1>3, <1>4
<1>6. HookSpace(bytes) = Decoded(bytes)[CHOOSE i \in 0 .. PatchLen : First(i)]
  BY Zenon DEF HookSpace, First, Enough
<1>. QED
  BY <1>3, <1>5, <1>6, Zenon DEF First

\* How IsInstruction reads i: n prefixes and an opcode.
HasForm(i, n) ==
  /\ n \in 0 .. Len(i) - 1
  /\ \A j \in 1 .. n : i[j] \in PrefixBytes
  /\ i[n + 1] \notin PrefixBytes
  /\ i[n + 1] \in Opcodes =>
       Len(i) = Amd64Length(SubSeq(i, 1, n), i[n + 1], i[n + 2], i[n + 3])
  /\ Len(i) <= 15

LEMMA FormIs ==
  ASSUME NEW i \in Seq(Bytes), NEW n, HasForm(i, n)
  PROVE  /\ n \in Nat /\ Len(i) \in 1 .. 15 /\ n + 1 <= Len(i)
         /\ PrefixCount(i, 1) = n
         /\ SubSeq(i, 1, n) \in Seq(PrefixBytes) /\ Len(SubSeq(i, 1, n)) = n
         /\ \A j \in 1 .. n : SubSeq(i, 1, n)[j] = i[j]
<1>1. Len(i) \in Nat /\ n \in 0 .. Len(i) - 1 /\ Len(i) <= 15
  BY DEF HasForm
<1>2. n \in Nat /\ Len(i) \in 1 .. 15 /\ n + 1 <= Len(i)
  <2>1. PICK l \in Nat : l = Len(i)
    BY <1>1
  <2>2. n \in 0 .. l - 1 /\ l <= 15
    BY <1>1, <2>1, Zenon
  <2>3. n \in Nat
    BY <2>2
  <2>4. n + 1 <= l
    BY <2>2
  <2>5. l \in 1 .. 15
    BY <2>2, <2>3, <2>4
  <2>. QED
    BY <2>1, <2>3, <2>4, <2>5
<1>3. PrefixCount(i, 1) = n
  <2>1. ASSUME NEW j \in 0 .. n - 1 PROVE i[1 + j] \in PrefixBytes
    <3>1. 1 + j \in 1 .. n
      BY <1>2
    <3>. QED
      BY <3>1 DEF HasForm
  <2>2. i[1 + n] \notin PrefixBytes /\ 1 + n <= Len(i) /\ 1 \in Nat
    <3>1. 1 + n = n + 1
      BY <1>2
    <3>. QED
      BY <1>2, <3>1 DEF HasForm
  <2>. QED
    BY <1>1, <1>2, <2>1, <2>2, PrefixCountIs
<1>4. \A j \in 1 .. n : i[j] \in PrefixBytes
  BY DEF HasForm
<1>. QED
  BY <1>2, <1>3, <1>4

\* An instruction has the bytes that its length depends on.
LEMMA FormHolds ==
  ASSUME NEW i \in Seq(Bytes), NEW n, HasForm(i, n), i[n + 1] \in WithModrm
  PROVE  /\ n + 2 <= Len(i)
         /\ HasSib(i[n + 2], FALSE) => n + 3 <= Len(i)
<1>. DEFINE m == i[n + 2]
            o == OperandBytes(i[n + 1], m, SubSeq(i, 1, n))
            a == AddressBytes(m, i[n + 3])
<1>1. n \in Nat /\ Len(i) \in Nat /\ n + 1 <= Len(i) /\ Len(SubSeq(i, 1, n)) = n
  BY FormIs
<1>2. Len(i) = n + 1 + o + (1 + a)
  BY <1>1 DEF HasForm, Amd64Length, Opcodes
<1>3. o \in Nat
  BY DEF OperandBytes
<1>4. a \in Nat /\ (HasSib(m, FALSE) => a >= 1)
  BY DEF AddressBytes, HasSib
<1>. HIDE DEF o, a
<1>5. n + 2 <= Len(i)
  BY <1>1, <1>2, <1>3, <1>4
<1>6. ASSUME HasSib(m, FALSE) PROVE n + 3 <= Len(i)
  <2>1. a >= 1
    BY <1>4, <1>6, Zenon
  <2>. QED
    BY <1>1, <1>2, <1>3, <1>4, <2>1
<1>. QED
  BY <1>5, <1>6

\* The decoder reads a whole instruction where one lies, or refuses it.
LEMMA ReadWhole ==
  ASSUME NEW bytes \in Seq(Bytes), NEW off \in Nat, NEW i \in Seq(Bytes), NEW n,
         HasForm(i, n), off + Len(i) <= Len(bytes),
         \A x \in 1 .. Len(i) : bytes[off + x] = i[x],
         ~Misread(SubSeq(i, 1, n), i[n + 1], i[n + 2])
  PROVE  ReadInstruction64(bytes, off + 1) \in {-1, Len(i)}
<1>1. /\ n \in Nat /\ Len(i) \in 1 .. 15 /\ n + 1 <= Len(i) /\ Len(bytes) \in Nat
      /\ SubSeq(i, 1, n) \in Seq(PrefixBytes) /\ Len(SubSeq(i, 1, n)) = n
      /\ \A j \in 1 .. n : SubSeq(i, 1, n)[j] = i[j]
  BY FormIs
<1>2. ASSUME NEW j \in Nat, j + 1 <= Len(i)
      PROVE  bytes[off + 1 + j] = i[j + 1] /\ i[j + 1] \in Bytes
  <2>1. j + 1 \in 1 .. Len(i) /\ off + (j + 1) = off + 1 + j
    BY <1>1, <1>2
  <2>. QED
    BY <2>1
<1>3. CASE i[n + 1] \in Opcodes
  <2>1. ASSUME i[n + 1] \in WithModrm
        PROVE  /\ i[n + 2] \in Bytes /\ bytes[off + 1 + n + 1] = i[n + 2]
               /\ HasSib(i[n + 2], FALSE) => bytes[off + 1 + n + 2] = i[n + 3]
    <3>1. n + 2 <= Len(i) /\ (HasSib(i[n + 2], FALSE) => n + 3 <= Len(i))
      BY <2>1, FormHolds
    <3>2. /\ n + 1 \in Nat /\ (n + 1) + 1 = n + 2 /\ off + 1 + (n + 1) = off + 1 + n + 1
          /\ n + 2 \in Nat /\ (n + 2) + 1 = n + 3 /\ off + 1 + (n + 2) = off + 1 + n + 2
      BY <1>1
    <3>3. i[n + 2] \in Bytes /\ bytes[off + 1 + n + 1] = i[n + 2]
      BY <1>2, <3>1, <3>2
    <3>4. n + 3 <= Len(i) => bytes[off + 1 + n + 2] = i[n + 3]
      BY <1>2, <3>2
    <3>. QED
      BY <3>1, <3>3, <3>4
  <2>2. off + 1 + n <= Len(bytes) /\ bytes[off + 1 + n] = i[n + 1]
    BY <1>1, <1>2, SMTT(30)
  <2>3. ASSUME NEW j \in 1 .. n PROVE bytes[off + 1 + j - 1] = SubSeq(i, 1, n)[j]
    <3>1. off + 1 + j - 1 = off + j /\ j \in 1 .. Len(i)
      BY <1>1
    <3>. QED
      BY <1>1, <3>1
  <2>4. LiesAt(bytes, off + 1, SubSeq(i, 1, n), i[n + 1], i[n + 2], i[n + 3])
    BY <1>1, <2>1, <2>2, <2>3, Zenon DEF LiesAt
  <2>5. off + 1 \in Nat \ {0} /\ Len(bytes) \in Nat
    OBVIOUS
  <2>6. i[n + 1] \in WithModrm => i[n + 2] \in Bytes
    BY <2>1
  <2>7. SubSeq(i, 1, n) \in Seq(PrefixBytes)
    BY <1>1
  <2>8. ReadInstruction64(bytes, off + 1) =
          Amd64Length(SubSeq(i, 1, n), i[n + 1], i[n + 2], i[n + 3])
    <3>1. Readable(bytes, off + 1, SubSeq(i, 1, n), i[n + 1], i[n + 2], i[n + 3])
      BY <1>3, <2>4, <2>5, <2>6, <2>7, Zenon DEF Readable
    <3>2. PICK at : at = off + 1
      OBVIOUS
    <3>3. PICK prefixes : prefixes = SubSeq(i, 1, n)
      OBVIOUS
    <3>4. PICK op : op = i[n + 1]
      OBVIOUS
    <3>5. PICK m : m = i[n + 2]
      OBVIOUS
    <3>6. PICK s : s = i[n + 3]
      OBVIOUS
    <3>7. Readable(bytes, at, prefixes, op, m, s)
      BY <3>1, <3>2, <3>3, <3>4, <3>5, <3>6, Zenon
    <3>8. ReadInstruction64(bytes, at) = Amd64Length(prefixes, op, m, s)
      BY <3>7, ReadRight
    <3>. QED
      BY <3>2, <3>3, <3>4, <3>5, <3>6, <3>8, Zenon
  <2>. QED
    BY <1>3, <2>8 DEF HasForm
<1>4. CASE i[n + 1] \notin Opcodes
  <2>1. PrefixCount(bytes, off + 1) = n
    <3>1. ASSUME NEW j \in 0 .. n - 1 PROVE bytes[(off + 1) + j] \in PrefixBytes
      <4>1. j \in Nat /\ j + 1 <= Len(i) /\ j + 1 \in 1 .. n
        BY <1>1
      <4>2. i[j + 1] \in PrefixBytes
        BY <4>1 DEF HasForm
      <4>. QED
        BY <1>2, <4>1, <4>2
    <3>2. bytes[(off + 1) + n] \notin PrefixBytes
      BY <1>1, <1>2 DEF HasForm
    <3>3. (off + 1) + n <= Len(bytes) /\ off + 1 \in Nat
      BY <1>1
    <3>. QED
      BY <1>1, <3>1, <3>2, <3>3, PrefixCountIs
  <2>2. bytes[(off + 1) + n] = i[n + 1]
    BY <1>1, <1>2
  <2>3. ReadInstruction64(bytes, off + 1) = -1
    BY <1>4, <2>1, <2>2 DEF ReadInstruction64
  <2>. QED
    BY <2>3
<1>. QED
  BY <1>3, <1>4

\* So it does in a function that begins with the instructions p.
LEMMA InstructionRead ==
  ASSUME NothingMisread, NEW p \in Bodies, NEW k \in 1 .. Len(p)
  PROVE  /\ Len(p[k]) \in 1 .. 15
         /\ Flat(p, k) \in Seq(Bytes) /\ Flat(p, k - 1) \in Seq(Bytes)
         /\ Len(Flat(p, k)) = Len(Flat(p, k - 1)) + Len(p[k])
         /\ ReadInstruction64(FlattenSeq(p), Len(Flat(p, k - 1)) + 1) \in {-1, Len(p[k])}
<1>1. p \in Seq(Seq(Bytes)) /\ k \in DOMAIN p /\ IsInstruction(p[k])
  <2>1. p \in Seq(Seq(Bytes))
    BY BodiesAssumption
  <2>2. k \in DOMAIN p
    BY <2>1
  <2>. QED
    BY <2>1, <2>2, BodiesAssumption, Zenon
<1>2. /\ Flat(p, k) = Flat(p, k - 1) \o p[k] /\ p[k] \in Seq(Bytes)
      /\ Flat(p, k) \in Seq(Bytes) /\ Flat(p, k - 1) \in Seq(Bytes)
  BY <1>1, FlatStep, Zenon
<1>3. /\ Flat(p, Len(p)) = FlattenSeq(p) /\ FlattenSeq(p) \in Seq(Bytes)
  BY <1>1, FlatAll, Zenon
<1>4. /\ Len(Flat(p, k)) <= Len(FlattenSeq(p))
      /\ \A x \in 1 .. Len(Flat(p, k)) : FlattenSeq(p)[x] = Flat(p, k)[x]
  <2>1. k \in 0 .. Len(p) /\ Len(p) \in k .. Len(p)
    BY <1>1
  <2>. QED
    BY <1>1, <1>3, <2>1, FlatPrefix, Zenon
<1>5. PICK n : HasForm(p[k], n)
  BY <1>1, Zenon DEF IsInstruction, HasForm
<1>6. Len(p[k]) \in 1 .. 15 /\ PrefixCount(p[k], 1) = n
  BY <1>2, <1>5, FormIs
<1>7. ~Misread(SubSeq(p[k], 1, n), p[k][n + 1], p[k][n + 2])
  BY <1>1, <1>6, Zenon DEF NothingMisread
<1>8. Len(Flat(p, k)) = Len(Flat(p, k - 1)) + Len(p[k]) /\ Len(Flat(p, k - 1)) \in Nat
  BY <1>2
<1>9. ASSUME NEW x \in 1 .. Len(p[k])
      PROVE  FlattenSeq(p)[Len(Flat(p, k - 1)) + x] = p[k][x]
  <2>1. /\ Len(Flat(p, k - 1)) + x \in 1 .. Len(Flat(p, k))
        /\ Flat(p, k)[Len(Flat(p, k - 1)) + x] = p[k][x]
    BY <1>2
  <2>. QED
    BY <1>4, <2>1, Zenon
<1>10. Len(Flat(p, k - 1)) + Len(p[k]) <= Len(FlattenSeq(p))
  BY <1>4, <1>8, Zenon
<1>11. ReadInstruction64(FlattenSeq(p), Len(Flat(p, k - 1)) + 1) \in {-1, Len(p[k])}
  BY <1>2, <1>3, <1>5, <1>7, <1>8, <1>9, <1>10, ReadWhole, Zenon
<1>. QED
  BY <1>2, <1>6, <1>8, <1>11, Zenon

-----------------------------------------------------------------------------
\* As long as get_hook_space goes on, it is where an instruction begins; and
\* an instruction takes it at least one byte further.
WholeAt(p, k) ==
  /\ k <= Len(p)
  /\ Decoded(FlattenSeq(p))[k] = Len(Flat(p, k))
  /\ Len(Flat(p, k)) \in k .. 27

LEMMA WholeSoFar ==
  ASSUME NothingMisread, NEW p \in Bodies
  PROVE  \A k \in 0 .. PatchLen :
           (\A j \in 0 .. k - 1 : ~Enough(FlattenSeq(p), j))
             => Decoded(FlattenSeq(p))[k] = -1 \/ WholeAt(p, k)
<1>. DEFINE bytes == FlattenSeq(p)
            Good(k) == (\A j \in 0 .. k - 1 : ~Enough(bytes, j))
                         => Decoded(bytes)[k] = -1 \/ WholeAt(p, k)
            S == {k \in Nat : k \in 0 .. PatchLen => Good(k)}
<1>1. p \in Seq(Seq(Bytes)) /\ Len(bytes) >= 13
  BY BodiesAssumption, LongAssumption DEF PatchLen
<1>2. 0 \in S
  <2>1. Flat(p, 0) = <<>> /\ Decoded(bytes)[0] = 0
    BY FlatNone, DecodedIs
  <2>2. WholeAt(p, 0)
    BY <1>1, <2>1 DEF WholeAt
  <2>. QED
    BY <2>2
<1>3. ASSUME NEW k \in Nat, k \in S PROVE k + 1 \in S
  <2>. SUFFICES ASSUME k + 1 \in 0 .. PatchLen, \A j \in 0 .. (k + 1) - 1 : ~Enough(bytes, j)
                PROVE  Decoded(bytes)[k + 1] = -1 \/ WholeAt(p, k + 1)
    OBVIOUS
  <2>1. ~Enough(bytes, k) /\ k \in 0 .. PatchLen /\ \A j \in 0 .. k - 1 : ~Enough(bytes, j)
    BY DEF PatchLen
  <2>2. Decoded(bytes)[k] = -1 \/ WholeAt(p, k)
    BY <1>3, <2>1
  <2>. HIDE DEF bytes, S, Good
  <2>3. ~(Decoded(bytes)[k] < 0) /\ ~(Decoded(bytes)[k] >= 13)
    BY <2>1, Zenon DEF Enough, Safe, PatchLen
  <2>4. /\ k <= Len(p) /\ Decoded(bytes)[k] = Len(Flat(p, k)) /\ Len(Flat(p, k)) \in k .. 12
    <3>1. Decoded(bytes)[k] # -1
      BY <2>3
    <3>2. WholeAt(p, k)
      BY <2>2, <3>1
    <3>. QED
      BY <2>3, <3>2 DEF WholeAt, bytes
  <2>5. k + 1 \in 1 .. Len(p) /\ (k + 1) - 1 = k
    <3>1. k # Len(p)
      <4>1. SUFFICES ASSUME k = Len(p) PROVE FALSE
        OBVIOUS
      <4>2. Flat(p, Len(p)) = bytes
        BY <1>1, FlatAll, Zenon DEF bytes
      <4>. QED
        BY <1>1, <2>4, <4>1, <4>2
    <3>. QED
      BY <1>1, <2>4, <3>1
  <2>6. /\ Len(p[k + 1]) \in 1 .. 15
        /\ Len(Flat(p, k + 1)) = Len(Flat(p, k)) + Len(p[k + 1])
        /\ ReadInstruction64(bytes, Len(Flat(p, k)) + 1) \in {-1, Len(p[k + 1])}
    BY <2>5, InstructionRead, Zenon DEF bytes
  <2>7. Decoded(bytes)[k + 1] = Advance(bytes, Len(Flat(p, k)))
    <3>1. k + 1 \in 1 .. PatchLen
      BY <2>1 DEF PatchLen
    <3>. QED
      BY <2>4, <2>5, <3>1, DecodedIs
  <2>8. CASE ReadInstruction64(bytes, Len(Flat(p, k)) + 1) = -1
    <3>1. Advance(bytes, Len(Flat(p, k))) = -1
      BY <2>8 DEF Advance
    <3>. QED
      BY <2>7, <3>1
  <2>9. CASE ReadInstruction64(bytes, Len(Flat(p, k)) + 1) = Len(p[k + 1])
    <3>1. Advance(bytes, Len(Flat(p, k))) = Len(Flat(p, k)) + Len(p[k + 1])
      BY <2>4, <2>6, <2>9 DEF Advance
    <3>2. WholeAt(p, k + 1)
      <4>1. Decoded(FlattenSeq(p))[k + 1] = Len(Flat(p, k + 1))
        BY <2>6, <2>7, <3>1, Zenon DEF bytes
      <4>2. k + 1 <= Len(p) /\ Len(Flat(p, k + 1)) \in k + 1 .. 27
        <5>1. PICK a, b, c : a = Len(Flat(p, k)) /\ b = Len(p[k + 1])
                   /\ c = Len(Flat(p, k + 1))
          OBVIOUS
        <5>2. a \in k .. 12 /\ b \in 1 .. 15 /\ c = a + b
          BY <2>4, <2>6, <5>1, Zenon
        <5>3. c \in k + 1 .. 27
          BY <5>2
        <5>. QED
          BY <2>5, <5>1, <5>3
      <4>. QED
        BY <4>1, <4>2, Zenon DEF WholeAt
    <3>. QED
      BY <3>2
  <2>. QED
    BY <2>6, <2>8, <2>9
<1>4. Nat \subseteq S
  <2>. HIDE DEF S
  <2>. QED
    BY <1>2, <1>3, SetInduction
<1>5. \A k \in 0 .. PatchLen : k \in S
  BY <1>4 DEF PatchLen
<1>. QED
  BY <1>5

\* What is copied of a function are whole instructions, enough for the jump.
LEMMA SpaceIsWhole ==
  ASSUME NothingMisread, NEW p \in Bodies, HookSpace(FlattenSeq(p)) > 0
  PROVE  /\ HookSpace(FlattenSeq(p)) \in 13 .. 27
         /\ \E k \in 0 .. Len(p) : HookSpace(FlattenSeq(p)) = Len(Flat(p, k))
<1>. DEFINE bytes == FlattenSeq(p)
<1>1. PICK k \in 0 .. PatchLen : Enough(bytes, k)
  <2>1. SUFFICES ASSUME \A k \in 0 .. PatchLen : ~Enough(bytes, k) PROVE FALSE
    OBVIOUS
  <2>2. PatchLen \in 0 .. PatchLen /\ \A j \in 0 .. PatchLen - 1 : j \in 0 .. PatchLen
    BY DEF PatchLen
  <2>3. Decoded(bytes)[PatchLen] = -1 \/ WholeAt(p, PatchLen)
    BY <2>1, <2>2, WholeSoFar
  <2>. HIDE DEF bytes
  <2>4. Decoded(bytes)[PatchLen] < 0 \/ Decoded(bytes)[PatchLen] >= Safe
    <3>1. PICK d : d = Decoded(bytes)[PatchLen]
      OBVIOUS
    <3>2. d = -1 \/ d \in PatchLen .. 27
      BY <2>3, <3>1, Zenon DEF WholeAt, bytes
    <3>3. d < 0 \/ d >= 13
      BY <3>2 DEF PatchLen
    <3>. QED
      BY <3>1, <3>3, Zenon DEF PatchLen, Safe
  <2>5. Enough(bytes, PatchLen)
    BY <2>4, Zenon DEF Enough
  <2>. QED
    BY <2>1, <2>2, <2>5
<1>2. PICK j \in 0 .. k : /\ Enough(bytes, j) /\ \A i \in 0 .. j - 1 : ~Enough(bytes, i)
                          /\ HookSpace(bytes) = Decoded(bytes)[j]
  BY <1>1, HookSpaceIs
<1>3. Decoded(bytes)[j] = -1 \/ WholeAt(p, j)
  <2>1. j \in 0 .. PatchLen
    BY <1>1, <1>2 DEF PatchLen
  <2>. QED
    BY <1>2, <2>1, WholeSoFar
<1>4. WholeAt(p, j)
  BY <1>2, <1>3
<1>5. j \in 0 .. Len(p) /\ HookSpace(bytes) = Len(Flat(p, j)) /\ Len(Flat(p, j)) \in j .. 27
  <2>1. p \in Seq(Seq(Bytes))
    BY BodiesAssumption
  <2>. QED
    BY <1>2, <1>4, <2>1 DEF WholeAt
<1>6. HookSpace(bytes) >= 13
  <2>. HIDE DEF bytes
  <2>1. HookSpace(bytes) < 0 \/ HookSpace(bytes) >= 13
    BY <1>2, Zenon DEF Enough, Safe, PatchLen
  <2>. QED
    BY <1>5, <2>1 DEF bytes
<1>7. HookSpace(bytes) \in 13 .. 27
  <2>1. PICK d : d = HookSpace(bytes)
    OBVIOUS
  <2>2. d \in j .. 27 /\ d >= 13
    BY <1>5, <1>6, <2>1, Zenon
  <2>. QED
    BY <2>1, <2>2
<1>. QED
  BY <1>5, <1>7

\* get_hook_space refuses a function that begins with the jump: the second
\* byte is a prefix, the third no opcode of the table.
LEMMA SpaceOfPatched ==
  ASSUME NEW b, Len(b) \in Nat, Len(b) >= 13
  PROVE  HookSpace(Patched(b)) = -1
<1>. DEFINE c == Patched(b)
<1>1. Len(c) \in Nat /\ Len(c) >= 13 /\ c[1] = \h50 /\ c[2] = \h48 /\ c[3] = \hB8
  BY DEF Patched, JumpToHook, PatchLen
<1>. HIDE DEF c
<1>2. ReadInstruction64(c, 1) = 1
  <2>1. c[1] \notin PrefixBytes /\ c[1] \in Opcodes /\ c[1] \in NoModrm
    BY <1>1 DEF PrefixBytes, RexBytes, X66, X67, Opcodes, NoModrm
  <2>2. PrefixCount(c, 1) = 0
    BY <1>1, <2>1, PrefixCountIs
  <2>3. \A x66 : Immediate(c[1], 0, x66) = 0
    BY <1>1 DEF Immediate
  <2>4. ReadInstruction64(c, 1) =
          0 + 1 + Immediate(c[1 + 0], 0, \E j \in 0 .. 0 - 1 : c[1 + j] = X66)
    <3>1. c[1 + 0] = c[1]
      OBVIOUS
    <3>. QED
      BY <2>1, <2>2, <3>1, Zenon DEF ReadInstruction64
  <2>5. Immediate(c[1 + 0], 0, \E j \in 0 .. 0 - 1 : c[1 + j] = X66) = 0
    <3>1. c[1 + 0] = c[1]
      OBVIOUS
    <3>. QED
      BY <2>3, <3>1, Zenon
  <2>6. ReadInstruction64(c, 1) = 0 + 1 + 0
    BY <2>4, <2>5, Zenon
  <2>. QED
    BY <2>6
<1>3. ReadInstruction64(c, 2) = -1
  <2>1. c[3] \notin PrefixBytes /\ c[3] \notin Opcodes /\ c[2] \in PrefixBytes
    BY <1>1 DEF PrefixBytes, RexBytes, X66, X67, Opcodes, NoModrm, WithModrm
  <2>2. 2 + 1 = 3 /\ 2 + 0 = 2 /\ 2 + 1 <= Len(c) /\ 2 \in Nat /\ 1 \in Nat /\ 0 .. 1 - 1 = {0}
    BY <1>1
  <2>3. PrefixCount(c, 2) = 1
    <3>1. c[2 + 1] \notin PrefixBytes /\ \A j \in 0 .. 1 - 1 : c[2 + j] \in PrefixBytes
      BY <2>1, <2>2
    <3>. QED
      BY <1>1, <2>2, <3>1, PrefixCountIs
  <2>. QED
    BY <2>1, <2>2, <2>3, Zenon DEF ReadInstruction64
<1>4. Decoded(c)[0] = 0 /\ Decoded(c)[1] = 1 /\ Decoded(c)[2] = -1
  <2>1. /\ Decoded(c)[0] = 0 /\ Decoded(c)[1] = Advance(c, Decoded(c)[1 - 1])
        /\ Decoded(c)[2] = Advance(c, Decoded(c)[2 - 1])
    BY DecodedIs DEF PatchLen
  <2>2. Advance(c, 0) = 1 /\ Advance(c, 1) = -1
    BY <1>2, <1>3 DEF Advance
  <2>. QED
    BY <2>1, <2>2
<1>5. ~Enough(c, 0) /\ ~Enough(c, 1) /\ Enough(c, 2) /\ 2 \in 0 .. PatchLen
  BY <1>4 DEF Enough, Safe, PatchLen
<1>6. PICK j \in 0 .. 2 : Enough(c, j) /\ HookSpace(c) = Decoded(c)[j]
  BY <1>5, HookSpaceIs
<1>7. j = 2
  BY <1>5, <1>6
<1>. QED
  BY <1>4, <1>6, <1>7 DEF c

-----------------------------------------------------------------------------
\* A number belongs to one page.
LEMMA PageIs ==
  ASSUME NEW a \in Nat
  PROVE  \E x \in Int : /\ PageStart(a) = x * PageSize
                        /\ PageStart(a) <= a /\ a < PageStart(a) + PageSize
<1>. DEFINE x == a \div PageSize
<1>0. PageSize \in Nat /\ PageSize > 0
  BY PageAssumption
<1>1. x \in Int /\ a % PageSize \in 0 .. PageSize - 1
  BY <1>0
<1>2. a = (x * PageSize) + (a % PageSize)
  BY <1>0
<1>3. x * PageSize \in Int
  BY <1>0, <1>1
<1>4. PageStart(a) = x * PageSize
  BY <1>1, <1>2, <1>3 DEF PageStart
<1>5. PageStart(a) <= a /\ a < PageStart(a) + PageSize
  BY <1>0, <1>1 DEF PageStart
<1>. QED
  BY <1>1, <1>4, <1>5

LEMMA Between ==
  ASSUME NEW x \in Int, NEW y \in Int, NEW n \in Nat, x < y
  PROVE  x * n + n <= y * n
<1>1. PICK d \in Nat : y = x + 1 + d
  <2>1. y - x - 1 \in Nat /\ y = x + 1 + (y - x - 1)
    OBVIOUS
  <2>. QED
    BY <2>1
<1>2. (x + 1 + d) * n = x * n + n + d * n
  OBVIOUS
<1>3. d * n \in Nat /\ x * n \in Int
  OBVIOUS
<1>. QED
  BY <1>1, <1>2, <1>3

LEMMA OnPage ==
  ASSUME NEW a \in Nat, NEW b \in Nat, NEW c \in Nat,
         a <= c, c <= b, b < a + PageSize
  PROVE  PageStart(c) \in {PageStart(a), PageStart(b)}
<1>0. PageSize \in Nat /\ PageSize > 0
  BY PageAssumption
<1>1. PICK x \in Int : PageStart(a) = x * PageSize /\ PageStart(a) <= a
           /\ a < PageStart(a) + PageSize
  BY PageIs
<1>2. PICK y \in Int : PageStart(b) = y * PageSize /\ PageStart(b) <= b
           /\ b < PageStart(b) + PageSize
  BY PageIs
<1>3. PICK z \in Int : PageStart(c) = z * PageSize /\ PageStart(c) <= c
           /\ c < PageStart(c) + PageSize
  BY PageIs
<1>4. PICK A \in Int, B \in Int, C \in Int : A = PageStart(a) /\ B = PageStart(b)
           /\ C = PageStart(c)
  BY <1>0, <1>1, <1>2, <1>3
<1>5. ~(z < x) /\ ~(y < z) /\ ~(x < z /\ z < y)
  <2>1. z < x => C + PageSize <= A
    BY <1>0, <1>1, <1>3, <1>4, Between, Zenon
  <2>2. y < z => B + PageSize <= C
    BY <1>0, <1>2, <1>3, <1>4, Between, Zenon
  <2>3. x < z => A + PageSize <= C
    BY <1>0, <1>1, <1>3, <1>4, Between, Zenon
  <2>4. z < y => C + PageSize <= B
    BY <1>0, <1>2, <1>3, <1>4, Between, Zenon
  <2>5. /\ A <= a /\ a < A + PageSize /\ B <= b /\ b < B + PageSize
        /\ C <= c /\ c < C + PageSize
    BY <1>1, <1>2, <1>3, <1>4, Zenon
  <2>. QED
    BY <1>0, <2>1, <2>2, <2>3, <2>4, <2>5
<1>6. z = x \/ z = y
  BY <1>5
<1>. QED
  BY <1>1, <1>2, <1>3, <1>6

-----------------------------------------------------------------------------
\* The pages of the bytes that the jump to the hook takes.
PatchWritable(f) == \A i \in 0 .. PatchLen - 1 : PageStart(addr[f] + i) \in writable

\* A function begins as it did or with the jump to the hook, and then the pages
\* of the jump are writable; so is trampoline1 once it is written to.
WriteInv ==
  /\ body \in [Funs -> Bodies] /\ addr \in [Funs -> Nat]
  /\ DOMAIN code = Funs
  /\ \A f \in Funs : \/ code[f] = Original(f)
                     \/ code[f] = Patched(Original(f)) /\ PatchWritable(f)
  /\ (\E i \in 1 .. TrampLen : tramp[i] # 0) => TrampAt \in writable

LEMMA OriginalLong ==
  ASSUME NEW p \in Bodies
  PROVE  FlattenSeq(p) \in Seq(Bytes) /\ Len(FlattenSeq(p)) >= 13
<1>1. p \in Seq(Seq(Bytes))
  BY BodiesAssumption
<1>. QED
  BY <1>1, FlatAll, LongAssumption DEF PatchLen

LEMMA NotHookedYet ==
  ASSUME WriteInv, NEW f \in Funs
  PROVE  /\ body[f] \in Bodies /\ Original(f) \in Seq(Bytes) /\ Len(Original(f)) >= 13
         /\ Hooked(f) => code[f] # Original(f)
<1>1. body[f] \in Bodies
  BY DEF WriteInv
<1>. QED
  BY <1>1, OriginalLong, FreshAssumption, Zenon DEF Original, Hooked

LEMMA PatchedTwice == ASSUME NEW b PROVE Patched(Patched(b)) = Patched(b)
  BY DEF Patched

\* The pages that change_range_prot makes writable hold the jump.
LEMMA PatchCovered ==
  ASSUME NEW a \in Nat, NEW copy \in 13 .. 27
  PROVE  \A i \in 0 .. PatchLen - 1 : PageStart(a + i) \in PagesOf(a, copy)
<1>. SUFFICES ASSUME NEW i \in 0 .. 12 PROVE PageStart(a + i) \in PagesOf(a, copy)
  BY DEF PatchLen
<1>1. PageSize \in Nat /\ PageSize >= 128
  BY PageAssumption
<1>2. a + i \in Nat /\ a + copy \in Nat /\ a <= a + i /\ a + i <= a + copy
      /\ a + copy < a + PageSize
  BY <1>1
<1>. QED
  BY <1>2, OnPage DEF PagesOf

\* What hook finds at the function the loop is at.
LEMMA SpaceOf ==
  ASSUME NothingMisread, WriteInv, NEW f \in Funs, HookSpace(code[f]) > 0
  PROVE  /\ code[f] = Original(f)
         /\ HookSpace(code[f]) \in 13 .. 27
         /\ \E k \in 0 .. Len(body[f]) : HookSpace(code[f]) = Len(Flat(body[f], k))
<1>1. body[f] \in Bodies /\ Len(Original(f)) \in Nat /\ Len(Original(f)) >= 13
  BY NotHookedYet
<1>2. code[f] # Patched(Original(f))
  <2>1. SUFFICES ASSUME code[f] = Patched(Original(f)) PROVE FALSE
    OBVIOUS
  <2>2. HookSpace(code[f]) = -1
    BY <1>1, <2>1, SpaceOfPatched, Zenon
  <2>. QED
    BY <2>2
<1>3. code[f] = Original(f)
  BY <1>2 DEF WriteInv
<1>. QED
  BY <1>1, <1>3, SpaceIsWhole, Zenon DEF Original

LEMMA WriteInit == Init => WriteInv
<1>. SUFFICES ASSUME Init PROVE WriteInv
  OBVIOUS
<1>1. body \in [Funs -> Bodies] /\ addr \in [Funs -> Nat]
  BY AddressesAssumption DEF Init
<1>2. DOMAIN code = Funs /\ \A f \in Funs : code[f] = Original(f)
  BY DEF Init
<1>3. \A i \in 1 .. TrampLen : tramp[i] = 0
  BY DEF Init
<1>. QED
  BY <1>1, <1>2, <1>3 DEF WriteInv

LEMMA SeqAt == ASSUME NEW S, NEW s \in Seq(S), NEW j \in DOMAIN s PROVE s[j] \in S
  OBVIOUS

LEMMA FoundFun == ASSUME NEW j \in DOMAIN Found PROVE Found[j].fun \in Funs
<1>1. Found[j] \in [fun : Funs, hook : 0 .. 2]
  BY FoundAssumption, SeqAt, Zenon
<1>. QED
  BY <1>1

LEMMA WriteNext == ASSUME NothingMisread, WriteInv, [HookEntry]_vars PROVE WriteInv'
<1>1. CASE HookEntry
  <2>0. PICK f : f = Found[next].fun
    OBVIOUS
  <2>. DEFINE copy == HookSpace(code[f])
  <2>1. f \in Funs
    BY <1>1, <2>0, FoundFun DEF HookEntry
  <2>2. body' = body /\ addr' = addr
    BY <1>1 DEF HookEntry
  <2>3. body' \in [Funs -> Bodies] /\ addr' \in [Funs -> Nat]
    BY <2>2 DEF WriteInv
  <2>4. CASE NotHooked
    <3>1. code' = code /\ tramp' = tramp /\ writable' = writable
      BY <2>4 DEF NotHooked
    <3>. QED
      BY <2>2, <3>1 DEF WriteInv, Original, PatchWritable
  <2>5. CASE HalfHooked(f, copy)
    <3>1. code' = code /\ writable \subseteq writable' /\ TrampAt \in writable'
      BY <2>5 DEF HalfHooked
    <3>2. \A g \in Funs : PatchWritable(g) => PatchWritable(g)'
      BY <2>2, <3>1 DEF PatchWritable
    <3>3. \A g \in Funs : Original(g)' = Original(g)
      BY <2>2 DEF Original
    <3>. QED
      BY <2>3, <3>1, <3>2, <3>3 DEF WriteInv
  <2>6. CASE FullyHooked(f, copy)
    <3>1. /\ copy > 0 /\ writable' = writable \cup {TrampAt} \cup PagesOf(addr[f], copy)
          /\ code' = [code EXCEPT ![f] = Patched(code[f])]
      BY <2>6 DEF FullyHooked
    <3>2. \A g \in Funs : PatchWritable(g) => PatchWritable(g)'
      BY <2>2, <3>1 DEF PatchWritable
    <3>3. \A g \in Funs : Original(g)' = Original(g)
      BY <2>2 DEF Original
    <3>4. code[f] = Original(f) /\ copy \in 13 .. 27
      BY <2>1, <3>1, SpaceOf
    <3>5. PatchWritable(f)'
      <4>1. addr[f] \in Nat
        BY <2>1 DEF WriteInv
      <4>. HIDE DEF copy
      <4>2. \A i \in 0 .. PatchLen - 1 : PageStart(addr[f] + i) \in writable'
        BY <3>1, <3>4, <4>1, PatchCovered
      <4>. QED
        BY <2>2, <4>2 DEF PatchWritable
    <3>6. DOMAIN code' = Funs /\ code'[f] = Patched(Original(f))
          /\ \A g \in Funs \ {f} : code'[g] = code[g]
      BY <2>1, <3>1, <3>4 DEF WriteInv
    <3>7. TrampAt \in writable'
      BY <3>1
    <3>8. ASSUME NEW g \in Funs
          PROVE  (\/ code[g] = Original(g)
                  \/ code[g] = Patched(Original(g)) /\ PatchWritable(g))'
      <4>1. CASE g = f
        BY <3>3, <3>5, <3>6, <4>1
      <4>2. CASE g # f
        BY <3>2, <3>3, <3>6, <4>2 DEF WriteInv
      <4>. QED
        BY <4>1, <4>2
    <3>. QED
      BY <2>3, <3>6, <3>7, <3>8 DEF WriteInv
  <2>. QED
    BY <1>1, <2>0, <2>4, <2>5, <2>6 DEF HookEntry
<1>2. CASE UNCHANGED vars
  BY <1>2 DEF vars, WriteInv, Original, PatchWritable
<1>. QED
  BY <1>1, <1>2

\* Whatever the functions begin with, as long as the decoder misreads none of
\* it, wherever they lie and whichever mprotect fails: hook_proc and the copy
\* write only to pages that were made writable first.
THEOREM AlwaysAllowed == ASSUME NothingMisread PROVE Spec => []WritesAllowed
<1>1. WriteInv => WritesAllowed
  <2>. SUFFICES ASSUME WriteInv PROVE WritesAllowed
    OBVIOUS
  <2>1. ASSUME NEW f \in Funs, Hooked(f) PROVE PatchWritable(f)
    BY <2>1, NotHookedYet DEF WriteInv
  <2>. QED
    BY <2>1 DEF WritesAllowed, WriteInv, PatchWritable
<1>2. WriteInv /\ [HookEntry]_vars => WriteInv'
  BY WriteNext
<1>. QED
  BY <1>1, <1>2, WriteInit, PTL DEF Spec

-----------------------------------------------------------------------------
\* CallsContinue of f: the trampoline holds f's first n bytes and a jump to what
\* is behind them, which is what it was.
ContinuesAfter(f, n) ==
  /\ n \in Boundaries(f) /\ n >= PatchLen /\ n + BackLen <= TrampLen
  /\ SubSeq(tramp, 1, n) = SubSeq(Original(f), 1, n)
  /\ SubSeq(tramp, n + 1, n + BackLen) = JumpBack(addr[f] + n)
  /\ \A i \in n + 1 .. Len(Original(f)) : code[f][i] = Original(f)[i]
Continues(f) == \E n : ContinuesAfter(f, n)

\* There is one trampoline: it is enough for one function.
CallInv ==
  /\ WriteInv
  /\ \A f \in Funs : code[f] # Original(f) =>
       (\E j \in DOMAIN Found : Found[j].fun = f) /\ Continues(f)

\* The jump back is BackLen bytes.
LEMMA JumpBackIs ==
  ASSUME NEW a
  PROVE  JumpBack(a) = [i \in 1 .. BackLen |-> JumpBack(a)[i]]
<1>. DEFINE d == Dword(a)
            e == Dword(0)
<1>1. d \in Seq({d[i] : i \in 1 .. 4}) /\ Len(d) = 4
      /\ e \in Seq({e[i] : i \in 1 .. 4}) /\ Len(e) = 4
  BY DEF Dword
<1>. DEFINE V == {d[i] : i \in 1 .. 4} \cup {e[i] : i \in 1 .. 4}
                   \cup {\h68, \hC7, \h44, \h24, \h04, \hC3}
<1>2. JumpBack(a) = <<\h68>> \o d \o <<\hC7, \h44, \h24, \h04>> \o e \o <<\hC3>>
  BY Zenon DEF JumpBack
<1>3. d \in Seq(V) /\ e \in Seq(V)
  BY <1>1
<1>4. <<\h68>> \in Seq(V) /\ <<\hC7, \h44, \h24, \h04>> \in Seq(V) /\ <<\hC3>> \in Seq(V)
  OBVIOUS
<1>. HIDE DEF d, e, V
<1>5. JumpBack(a) \in Seq(V) /\ Len(JumpBack(a)) = 14
  <2>1. PICK p : p = <<\h68>>
    OBVIOUS
  <2>2. PICK q : q = <<\hC7, \h44, \h24, \h04>>
    OBVIOUS
  <2>3. PICK r : r = <<\hC3>>
    OBVIOUS
  <2>4. p \in Seq(V) /\ q \in Seq(V) /\ r \in Seq(V)
    BY <1>4, <2>1, <2>2, <2>3, Zenon
  <2>5. d \in Seq(V) /\ e \in Seq(V)
    BY <1>3, Zenon
  <2>6. JumpBack(a) = p \o d \o q \o e \o r
    BY <1>2, <2>1, <2>2, <2>3, Zenon
  <2>7. p \o d \in Seq(V) /\ Len(p \o d) = Len(p) + Len(d)
    BY <2>4, <2>5
  <2>8. p \o d \o q \in Seq(V) /\ Len(p \o d \o q) = Len(p \o d) + Len(q)
    BY <2>4, <2>7
  <2>9. p \o d \o q \o e \in Seq(V) /\ Len(p \o d \o q \o e) = Len(p \o d \o q) + Len(e)
    BY <2>5, <2>8
  <2>10. /\ p \o d \o q \o e \o r \in Seq(V)
         /\ Len(p \o d \o q \o e \o r) = Len(p \o d \o q \o e) + Len(r)
    BY <2>4, <2>9
  <2>11. Len(p) = 1 /\ Len(q) = 4 /\ Len(r) = 1
    BY <2>1, <2>2, <2>3
  <2>12. Len(p \o d \o q \o e \o r) = 1 + 4 + 4 + 4 + 1
    BY <1>1, <2>7, <2>8, <2>9, <2>10, <2>11, Zenon
  <2>. QED
    BY <2>6, <2>10, <2>12
<1>. QED
  BY <1>5 DEF BackLen

\* What FullyHooked makes of the trampoline and of the function.
MadeOf(b, n, t0, a, t, c) ==
  /\ b \in Seq(Bytes) /\ n \in 13 .. 27 /\ n <= Len(b)
  /\ t = WithJumpBack(Copied(b, n, t0), n, a)
  /\ c = Patched(b)

GoesOn(b, n, a, t, c) ==
  /\ SubSeq(t, 1, n) = SubSeq(b, 1, n)
  /\ SubSeq(t, n + 1, n + BackLen) = JumpBack(a)
  /\ \A i \in n + 1 .. Len(b) : c[i] = b[i]

LEMMA Continued ==
  ASSUME NEW b, NEW n, NEW t0, NEW a, NEW t, NEW c, MadeOf(b, n, t0, a, t, c)
  PROVE  GoesOn(b, n, a, t, c)
<1>. b \in Seq(Bytes) /\ n \in 13 .. 27 /\ n <= Len(b)
  BY DEF MadeOf
<1>0. \A i \in 1 .. 64 :
        t[i] = IF i \in n + 1 .. n + 14 THEN JumpBack(a)[i - n]
               ELSE Copied(b, n, t0)[i]
  BY DEF MadeOf, WithJumpBack, TrampLen, BackLen
<1>1. ASSUME NEW i \in 1 .. n PROVE t[i] = b[i]
  <2>1. i \in 1 .. 64 /\ i \notin n + 1 .. n + 14
    OBVIOUS
  <2>2. Copied(b, n, t0)[i] = b[i]
    BY <2>1 DEF Copied, TrampLen
  <2>. QED
    BY <1>0, <2>1, <2>2, Zenon
<1>2. ASSUME NEW i \in 1 .. BackLen PROVE t[i + n] = JumpBack(a)[i]
  <2>1. i + n \in 1 .. 64 /\ i + n \in n + 1 .. n + 14 /\ (i + n) - n = i
    BY DEF BackLen
  <2>. QED
    BY <1>0, <2>1, Zenon
<1>3. SubSeq(t, 1, n) = [i \in 1 .. n |-> t[i]] /\ SubSeq(b, 1, n) = [i \in 1 .. n |-> b[i]]
  OBVIOUS
<1>4. SubSeq(t, n + 1, n + BackLen) = [i \in 1 .. BackLen |-> JumpBack(a)[i]]
  <2>1. SubSeq(t, n + 1, n + BackLen) = [i \in 1 .. BackLen |-> t[i + n]]
    BY DEF BackLen
  <2>. QED
    BY <1>2, <2>1
<1>5. \A i \in n + 1 .. Len(b) : c[i] = b[i]
  BY DEF MadeOf, Patched, PatchLen
<1>. QED
  BY <1>1, <1>3, <1>4, <1>5, JumpBackIs DEF GoesOn

LEMMA CallNext ==
  ASSUME NothingMisread, OneFun, CallInv, HookEntry
  PROVE  CallInv'
<1>0. PICK f : f = Found[next].fun
  OBVIOUS
<1>1. PICK copy : copy = HookSpace(code[f])
  OBVIOUS
<1>2. next \in DOMAIN Found /\ body' = body /\ addr' = addr
  BY DEF HookEntry
<1>3. f \in Funs
  BY <1>0, <1>2, FoundFun
<1>4. WriteInv /\ WriteInv'
  BY WriteNext DEF CallInv
<1>5. \A g \in Funs : /\ Original(g)' = Original(g) /\ Boundaries(g)' = Boundaries(g)
                      /\ addr'[g] = addr[g]
  BY <1>2 DEF Original, Boundaries
<1>6. CASE NotHooked
  <2>1. code' = code /\ tramp' = tramp
    BY <1>6 DEF NotHooked
  <2>2. \A g \in Funs : Continues(g) => Continues(g)'
    BY <1>5, <2>1 DEF Continues, ContinuesAfter
  <2>. QED
    BY <1>4, <1>5, <2>1, <2>2 DEF CallInv
\* Until a function of theirs is patched, all are as they were.
<1>7. ASSUME copy > 0 PROVE /\ \A g \in Funs : code[g] = Original(g)
                            /\ copy \in 13 .. 27
                            /\ \E k \in 0 .. Len(body[f]) : copy = Len(Flat(body[f], k))
  <2>1. /\ code[f] = Original(f) /\ copy \in 13 .. 27
        /\ \E k \in 0 .. Len(body[f]) : copy = Len(Flat(body[f], k))
    BY <1>1, <1>3, <1>4, <1>7, SpaceOf
  <2>2. ASSUME NEW g \in Funs, code[g] # Original(g) PROVE FALSE
    <3>1. PICK j \in DOMAIN Found : Found[j].fun = g
      BY <2>2 DEF CallInv
    <3>2. g = f
      BY <1>0, <1>2, <3>1 DEF OneFun
    <3>. QED
      BY <2>1, <2>2, <3>2
  <2>. QED
    BY <2>1, <2>2
<1>8. CASE HalfHooked(f, copy)
  <2>1. copy > 0 /\ code' = code
    BY <1>8 DEF HalfHooked
  <2>. QED
    BY <1>4, <1>5, <1>7, <2>1 DEF CallInv
<1>9. CASE FullyHooked(f, copy)
  <2>1. /\ copy > 0 /\ code' = [code EXCEPT ![f] = Patched(code[f])]
        /\ tramp' = WithJumpBack(Copied(code[f], copy, tramp), copy, addr[f] + copy)
    BY <1>9 DEF FullyHooked
  <2>2. PICK k \in 0 .. Len(body[f]) : copy = Len(Flat(body[f], k))
    BY <1>7, <2>1
  <2>3. body[f] \in Bodies /\ Original(f) \in Seq(Bytes)
    BY <1>3, <1>4, NotHookedYet
  <2>4. copy \in Boundaries(f)
    BY <2>2 DEF Boundaries, Flat
  <2>5. copy <= Len(Original(f))
    <3>1. body[f] \in Seq(Seq(Bytes))
      BY <2>3, BodiesAssumption
    <3>2. Len(body[f]) \in k .. Len(body[f]) /\ Flat(body[f], Len(body[f])) = Original(f)
      BY <2>2, <3>1, FlatAll DEF Original
    <3>3. Len(Flat(body[f], k)) <= Len(Flat(body[f], Len(body[f])))
      BY <2>2, <3>1, <3>2, FlatPrefix, Zenon
    <3>. QED
      BY <2>2, <3>2, <3>3, Zenon
  <2>6. code[f] = Original(f) /\ copy \in 13 .. 27
    BY <1>3, <1>7, <2>1
  <2>7. code'[f] = Patched(Original(f)) /\ \A g \in Funs \ {f} : code'[g] = code[g]
    BY <1>3, <1>4, <2>1, <2>6 DEF WriteInv
  <2>8. /\ SubSeq(tramp', 1, copy) = SubSeq(Original(f), 1, copy)
        /\ SubSeq(tramp', copy + 1, copy + BackLen) = JumpBack(addr[f] + copy)
        /\ \A i \in copy + 1 .. Len(Original(f)) : code'[f][i] = Original(f)[i]
    <3>1. PICK t, c : t = tramp' /\ c = code'[f]
      OBVIOUS
    <3>2. PICK b \in Seq(Bytes) : b = Original(f)
      BY <2>3, Zenon
    <3>3. t = WithJumpBack(Copied(b, copy, tramp), copy, addr[f] + copy) /\ c = Patched(b)
      BY <2>1, <2>6, <2>7, <3>1, <3>2, Zenon
    <3>4. copy \in 13 .. 27 /\ copy <= Len(b)
      BY <2>5, <2>6, <3>2, Zenon
    <3>5. PICK a : a = addr[f] + copy
      OBVIOUS
    <3>6. MadeOf(b, copy, tramp, a, t, c)
      BY <3>2, <3>3, <3>4, <3>5, Zenon DEF MadeOf
    <3>7. GoesOn(b, copy, a, t, c)
      BY <3>6, Continued
    <3>. QED
      BY <3>1, <3>2, <3>5, <3>7, Zenon DEF GoesOn
  <2>9. copy >= PatchLen /\ copy + BackLen <= TrampLen
    BY <2>6 DEF PatchLen, BackLen, TrampLen
  <2>10. ContinuesAfter(f, copy)'
    BY <1>3, <1>5, <2>4, <2>8, <2>9 DEF ContinuesAfter
  <2>11. ASSUME NEW g \in Funs, code'[g] # Original(g)'
         PROVE  (\E j \in DOMAIN Found : Found[j].fun = g) /\ Continues(g)'
    <3>1. g = f
      BY <1>5, <1>7, <2>1, <2>7, <2>11
    <3>. QED
      BY <1>0, <1>2, <2>10, <3>1 DEF Continues
  <2>. QED
    BY <1>4, <2>11 DEF CallInv
<1>. QED
  BY <1>0, <1>1, <1>6, <1>8, <1>9 DEF HookEntry

\* If the entries of ptrs that were found are of one function, a hooked
\* function does what it did, whatever it begins with that the decoder does not
\* misread, wherever it lies and whichever mprotect fails.
THEOREM HookedGoesOn == ASSUME NothingMisread, OneFun PROVE Spec => []CallsContinue
<1>1. Init => CallInv
  BY WriteInit DEF Init, CallInv
<1>2. CallInv /\ [HookEntry]_vars => CallInv'
  <2>1. ASSUME CallInv, UNCHANGED vars PROVE CallInv'
    <3>1. code' = code /\ tramp' = tramp /\ addr' = addr /\ body' = body
      BY <2>1 DEF vars
    <3>2. WriteInv'
      BY <2>1, WriteNext DEF CallInv
    <3>3. \A f \in Funs : Original(f)' = Original(f) /\ (Continues(f) => Continues(f)')
      BY <3>1 DEF Original, Continues, ContinuesAfter, Boundaries
    <3>. QED
      BY <2>1, <3>1, <3>2, <3>3 DEF CallInv
  <2>. QED
    BY <2>1, CallNext
<1>3. CallInv => CallsContinue
  <2>. SUFFICES ASSUME CallInv, NEW f \in Funs, Hooked(f)
                PROVE  \E n \in Boundaries(f) : ContinuesAfter(f, n)
    BY Zenon DEF CallsContinue, ContinuesAfter
  <2>1. code[f] # Original(f)
    BY NotHookedYet DEF CallInv
  <2>. QED
    BY <2>1, Zenon DEF CallInv, Continues, ContinuesAfter
<1>. QED
  BY <1>1, <1>2, <1>3, PTL DEF Spec

-----------------------------------------------------------------------------
(* ElfTables.                                                              *)

SymtabAt(k) == k \in DOMAIN file /\ file[k].type = "symtab"

\* What parse_elf has after n section headers: nothing before the symbol table,
\* and then no strings but those it links to.
HasRead(n) ==
  \/ /\ link = 0 /\ table = NULL /\ strings = NULL
     /\ \A k \in 1 .. n : ~SymtabAt(k)
  \/ \E k \in 1 .. n : /\ SymtabAt(k) /\ link = file[k].link
                       /\ table \in {NULL, k - 1} /\ strings \in {NULL, link}

TablesRead == table \in Nat /\ SymtabAt(table + 1) /\ TablesMatch

\* The symbols of the first n that define entry j of ptrs.
Defines(k, j) == IsFunction(Symbols[k]) /\ Symbols[k].name = Ptrs[j]
FirstIs(n, j, value) ==
  \/ value = 0 /\ \A k \in 1 .. n : ~Defines(k, j)
  \/ \E k \in 1 .. n : /\ Defines(k, j) /\ value = Symbols[k].value /\ value # 0
                       /\ \A m \in 1 .. n : Defines(m, j) => k <= m

FoundSoFar(n) == \A j \in DOMAIN Ptrs : FirstIs(n, j, address[j])

\* The inductive invariant: what is read so far, and found so far.
ElfInv ==
  /\ file \in Files /\ index \in Nat
  /\ DOMAIN address = DOMAIN Ptrs
  /\ elfPc \in {"open", "sections"} => \A j \in DOMAIN Ptrs : address[j] = 0
  /\ elfPc = "open" => HasRead(0)
  /\ elfPc = "sections" => index <= Len(file) /\ HasRead(index)
  /\ elfPc = "symbols" => TablesRead /\ index <= Len(Symbols) /\ FoundSoFar(index)
  /\ elfPc = "done" => TablesRead /\ FoundSoFar(Len(Symbols))

\* What a file of Files is, section by section.
LEMMA FileIs ==
  ASSUME NEW f \in Files
  PROVE  /\ Len(f) \in Nat /\ DOMAIN f = 1 .. Len(f)
         /\ \A k \in DOMAIN f :
              /\ k = 1 => f[k].type = "other"
              /\ f[k].type = "symtab" => \A j \in DOMAIN f : f[j].type = "symtab" => j = k
              /\ f[k].data \in Seq(Symbol)
              /\ \A j \in DOMAIN f[k].data : f[k].data[j].func => f[k].data[j].value # 0
<1>. DEFINE R == [type : {"symtab", "strtab", "other"}, link : Nat, data : Seq(Symbol)]
<1>1. f \in Seq(R)
  BY FilesAssumption
<1>2. ASSUME NEW k \in DOMAIN f PROVE f[k].data \in Seq(Symbol)
  <2>1. \A r \in R : r.data \in Seq(Symbol)
    OBVIOUS
  <2>. HIDE DEF R
  <2>2. f[k] \in R
    BY <1>1
  <2>. QED
    BY <2>1, <2>2, Zenon
<1>. HIDE DEF R
<1>3. Len(f) \in Nat /\ DOMAIN f = 1 .. Len(f)
  BY <1>1
<1>. QED
  BY <1>2, <1>3, FilesAssumption, ZenonT(40)

\* The symbols of the table that was read.
LEMMA SymbolsAre ==
  ASSUME file \in Files, TablesRead
  PROVE  /\ Len(Symbols) \in Nat /\ DOMAIN Symbols = 1 .. Len(Symbols)
         /\ \A k \in 1 .. Len(Symbols) : IsFunction(Symbols[k]) => Symbols[k].value # 0
<1>. DEFINE t == file[table + 1].data
<1>1. t \in Seq(Symbol) /\ \A j \in DOMAIN t : t[j].func => t[j].value # 0
  BY FileIs, Zenon DEF TablesRead, SymtabAt
<1>. HIDE DEF t
<1>2. Len(t) \in Nat /\ DOMAIN t = 1 .. Len(t)
  BY <1>1
<1>3. Symbols = t
  BY Zenon DEF Symbols, t
<1>. QED
  BY <1>1, <1>2, <1>3, Zenon DEF IsFunction

\* One more section header.
LEMMA HeaderRead ==
  ASSUME file \in Files, NEW n \in Nat, index = n, n < Len(file), HasRead(n), ReadHeader
  PROVE  HasRead(n + 1)'
<1>. DEFINE sh == file[n + 1]
<1>1. file' = file /\ index' = n + 1 /\ n + 1 \in DOMAIN file /\ n + 1 # 0
  BY FileIs DEF ReadHeader
<1>2. ASSUME NEW k \in 1 .. n PROVE k \in 1 .. n + 1 /\ k # n + 1
  OBVIOUS
<1>3. CASE sh.type = "symtab" /\ table' \in ReadSection(n) /\ link' = sh.link
           /\ strings' = strings
  <2>1. \A k \in 1 .. n : ~SymtabAt(k)
    BY <1>1, <1>2, <1>3, FileIs, Zenon DEF SymtabAt
  <2>2. strings = NULL
    BY <2>1, Zenon DEF HasRead
  <2>3. SymtabAt(n + 1) /\ n + 1 \in 1 .. n + 1 /\ (n + 1) - 1 = n
    BY <1>1, <1>3 DEF SymtabAt
  <2>. QED
    BY <1>1, <1>3, <2>2, <2>3 DEF HasRead, SymtabAt, ReadSection
<1>4. ASSUME UNCHANGED <<table, link>>, sh.type # "symtab",
             strings' = strings \/ (link = n /\ sh.type = "strtab" /\ strings' \in {n, NULL})
      PROVE  HasRead(n + 1)'
  <2>1. ~SymtabAt(n + 1)
    BY <1>4 DEF SymtabAt
  <2>2. CASE link = 0 /\ table = NULL /\ strings = NULL /\ \A k \in 1 .. n : ~SymtabAt(k)
    <3>1. strings' = strings
      <4>1. SUFFICES ASSUME link = n, sh.type = "strtab" PROVE FALSE
        BY <1>4
      <4>2. n + 1 = 1
        BY <2>2, <4>1
      <4>3. sh.type = "other"
        BY <1>1, <4>2, FileIs, Zenon
      <4>. QED
        BY <4>1, <4>3
    <3>2. \A k \in 1 .. n + 1 : ~SymtabAt(k)
      BY <2>1, <2>2
    <3>. QED
      BY <1>1, <1>4, <2>2, <3>1, <3>2, Zenon DEF HasRead, SymtabAt
  <2>3. CASE \E k \in 1 .. n : /\ SymtabAt(k) /\ link = file[k].link
                                   /\ table \in {NULL, k - 1} /\ strings \in {NULL, link}
    <3>1. PICK k \in 1 .. n : /\ SymtabAt(k) /\ link = file[k].link
                                  /\ table \in {NULL, k - 1} /\ strings \in {NULL, link}
      BY <2>3
    <3>2. k \in 1 .. n + 1 /\ strings' \in {NULL, link}
      BY <1>4, <3>1
    <3>. QED
      BY <1>1, <1>4, <3>1, <3>2, Zenon DEF HasRead, SymtabAt
  <2>. QED
    BY <2>2, <2>3, Zenon DEF HasRead
<1>5. CASE sh.type = "strtab" /\ IsStrings(n) /\ strings' \in ReadSection(n)
             /\ UNCHANGED <<table, link>>
  BY <1>4, <1>5 DEF IsStrings, ReadSection
<1>6. CASE sh.type # "symtab" /\ UNCHANGED <<table, link, strings>>
  BY <1>4, <1>6
<1>. QED
  BY <1>3, <1>5, <1>6 DEF ReadHeader

\* Both tables were read: they belong together.
LEMMA BothRead ==
  ASSUME file \in Files, HasRead(Len(file)), table # NULL, strings # NULL
  PROVE  TablesRead
<1>1. PICK k \in 1 .. Len(file) : /\ SymtabAt(k) /\ link = file[k].link
                                  /\ table = k - 1 /\ strings = link
  BY DEF HasRead
<1>2. Len(file) \in Nat
  BY FileIs
<1>3. table \in Nat /\ table + 1 = k
  BY <1>1, <1>2
<1>. QED
  BY <1>1, <1>3, Zenon DEF TablesRead, TablesMatch, SymtabAt

\* Every entry of ptrs has a name of its own.
LEMMA PtrsDiffer ==
  /\ \A j, k \in DOMAIN Ptrs : Ptrs[j] = Ptrs[k] => j = k
  /\ \A j \in DOMAIN Ptrs : Ptrs[j] # NULL
<1>1. \A j \in DOMAIN Ptrs : Ptrs[j] \in Names
  BY PtrsAssumption, SeqAt
<1>. QED
  BY <1>1, PtrsAssumption, NullAssumption, Zenon

\* A symbol that defines entry j gives it an address unless it has one; any
\* other leaves it alone.
LEMMA SymbolTried ==
  ASSUME file \in Files, TablesRead, index \in Nat, index < Len(Symbols), LookUp,
         DOMAIN address = DOMAIN Ptrs, FoundSoFar(index), NEW j \in DOMAIN Ptrs
  PROVE  address'[j] = IF Defines(index + 1, j) /\ address[j] = 0
                       THEN Symbols[index + 1].value ELSE address[j]
<1>. DEFINE sym == Symbols[index + 1]
            Least(C) == CHOOSE m \in C : \A n \in C : m <= n
<1>1. IF IsFunction(sym) /\ Candidates(sym.name) # {}
      THEN address' = [address EXCEPT ![Least(Candidates(sym.name))] = sym.value]
      ELSE address' = address
  BY DEF LookUp
<1>2. CASE Defines(index + 1, j) /\ address[j] = 0
  <2>1. IsFunction(sym) /\ Ptrs[j] = sym.name
    BY <1>2 DEF Defines
  <2>2. Candidates(sym.name) = {j}
    BY <1>2, <2>1, PtrsDiffer, Zenon DEF Candidates
  <2>3. Least(Candidates(sym.name)) = j
    <3>1. j \in Nat
      BY PtrsAssumption
    <3>. QED
      BY <2>2, <3>1
  <2>4. address' = [address EXCEPT ![j] = sym.value]
    BY <1>1, <2>1, <2>2, <2>3, Zenon
  <2>. QED
    BY <1>2, <2>4
<1>3. CASE ~(Defines(index + 1, j) /\ address[j] = 0)
  <2>1. CASE ~IsFunction(sym) \/ Candidates(sym.name) = {}
    BY <1>1, <1>3, <2>1
  <2>2. CASE IsFunction(sym) /\ Candidates(sym.name) # {}
    <3>1. PICK l : l \in Candidates(sym.name)
      BY <2>2, Zenon
    <3>2. l \in DOMAIN Ptrs /\ Ptrs[l] = sym.name /\ Candidates(sym.name) = {l}
      BY <3>1, PtrsDiffer, Zenon DEF Candidates
    <3>3. Least(Candidates(sym.name)) = l
      <4>1. l \in Nat
        BY <3>2, PtrsAssumption
      <4>. QED
        BY <3>2, <4>1
    <3>4. address' = [address EXCEPT ![l] = sym.value]
      BY <1>1, <2>2, <3>2, <3>3, Zenon
    <3>5. l # j
      BY <1>3, <2>2, <3>1, Zenon DEF Defines, Candidates
    <3>. QED
      BY <1>3, <3>4, <3>5
  <2>. QED
    BY <2>1, <2>2
<1>. QED
  BY <1>2, <1>3

\* One more symbol.
LEMMA SymbolRead ==
  ASSUME file \in Files, TablesRead, NEW n \in Nat, index = n, n < Len(Symbols), LookUp,
         DOMAIN address = DOMAIN Ptrs, FoundSoFar(n)
  PROVE  FoundSoFar(n + 1)'
<1>1. file' = file /\ table' = table
  BY DEF LookUp
<1>2. \A k, j : Defines(k, j)' <=> Defines(k, j)
  BY <1>1 DEF Defines, IsFunction, Symbols
<1>3. Symbols' = Symbols
  BY <1>1 DEF Symbols
<1>4. ASSUME NEW j \in DOMAIN Ptrs PROVE FirstIs(n + 1, j, address'[j])
  <2>1. address'[j] = IF Defines(n + 1, j) /\ address[j] = 0
                      THEN Symbols[n + 1].value ELSE address[j]
    BY SymbolTried, Zenon
  <2>2. FirstIs(n, j, address[j])
    BY DEF FoundSoFar
  <2>3. \A k \in 1 .. n + 1 : k \in 1 .. n \/ k = n + 1
    OBVIOUS
  <2>4. \A k \in 1 .. n : k \in 1 .. n + 1 /\ k <= n + 1
    OBVIOUS
  <2>5. n + 1 \in 1 .. n + 1 /\ n + 1 <= n + 1
    OBVIOUS
  <2>6. CASE address[j] = 0
    <3>1. \A k \in 1 .. n : ~Defines(k, j)
      BY <2>2, <2>6, Zenon DEF FirstIs
    <3>2. CASE Defines(n + 1, j)
      <4>1. address'[j] = Symbols[n + 1].value
        BY <2>1, <2>6, <3>2, Zenon
      <4>2. Symbols[n + 1].value # 0
        BY <2>5, <3>2, SymbolsAre DEF Defines
      <4>. QED
        BY <2>3, <2>5, <3>1, <3>2, <4>1, <4>2, Zenon DEF FirstIs
    <3>3. CASE ~Defines(n + 1, j)
      BY <2>1, <2>3, <2>6, <3>1, <3>3, Zenon DEF FirstIs
    <3>. QED
      BY <3>2, <3>3, Zenon
  <2>7. CASE address[j] # 0
    <3>1. PICK k \in 1 .. n : /\ Defines(k, j) /\ address[j] = Symbols[k].value
                              /\ \A m \in 1 .. n : Defines(m, j) => k <= m
      BY <2>2, <2>7, Zenon DEF FirstIs
    <3>2. \A m \in 1 .. n + 1 : Defines(m, j) => k <= m
      BY <2>3, <2>4, <3>1, Zenon
    <3>. QED
      BY <2>1, <2>4, <2>7, <3>1, <3>2, Zenon DEF FirstIs
  <2>. QED
    BY <2>6, <2>7, Zenon
<1>5. \A j : FirstIs(n + 1, j, address'[j]) => FirstIs(n + 1, j, address[j])'
  BY <1>2, <1>3, Zenon DEF FirstIs
<1>. QED
  BY <1>4, <1>5, Zenon DEF FoundSoFar

LEMMA ElfStart == ElfInit => ElfInv
  BY DEF ElfInit, NotRead, ElfInv, HasRead

\* Every step of locate_tables and find_functions keeps it.
LEMMA ElfStep == ASSUME ElfInv, [ElfNext]_elfVars PROVE ElfInv'
<1>. USE DEF ElfInv
<1>0. file \in Files /\ Len(file) \in Nat
  BY FileIs
<1>1. CASE Open
  <2>1. HasRead(0)'
    BY <1>1 DEF Open, Goto, HasRead, SymtabAt
  <2>. QED
    BY <1>0, <1>1, <2>1 DEF Open, Goto
<1>2. CASE ReadHeader
  <2>1. PICK n \in Nat : index = n
    OBVIOUS
  <2>2. elfPc = "sections" /\ n < Len(file) /\ HasRead(n) /\ index' = n + 1
        /\ UNCHANGED <<file, elfPc, address>>
    BY <1>2, <2>1 DEF ReadHeader
  <2>3. HasRead(n + 1)'
    BY <1>0, <1>2, <2>1, <2>2, HeaderRead
  <2>4. HasRead(index)'
    BY <2>2, <2>3
  <2>. QED
    BY <1>0, <2>2, <2>4
<1>3. CASE HeaderFails
  BY <1>3 DEF HeaderFails, Goto
<1>4. CASE Located
  <2>1. elfPc = "sections" /\ index = Len(file) /\ HasRead(Len(file)) /\ index' = 0
        /\ UNCHANGED <<file, link, table, strings, address>>
        /\ elfPc' \in {"symbols", "failed"}
        /\ (elfPc' = "symbols" => table # NULL /\ strings # NULL)
    BY <1>4 DEF Located, Goto
  <2>2. CASE elfPc' = "symbols"
    <3>1. TablesRead
      BY <1>0, <2>1, <2>2, BothRead
    <3>2. TablesRead' /\ Symbols' = Symbols /\ 0 <= Len(Symbols)
      BY <1>0, <2>1, <3>1, SymbolsAre DEF TablesRead, TablesMatch, SymtabAt, Symbols
    <3>3. FoundSoFar(0)'
      BY <2>1 DEF FoundSoFar, FirstIs
    <3>. QED
      BY <1>0, <2>1, <2>2, <3>2, <3>3
  <2>3. CASE elfPc' = "failed"
    BY <2>1, <2>3
  <2>. QED
    BY <2>1, <2>2, <2>3
<1>5. CASE LookUp
  <2>1. PICK n \in Nat : index = n
    OBVIOUS
  <2>2. elfPc = "symbols" /\ n < Len(Symbols) /\ TablesRead /\ FoundSoFar(n) /\ index' = n + 1
        /\ UNCHANGED <<file, elfPc, link, table, strings>>
    BY <1>5, <2>1 DEF LookUp
  <2>3. FoundSoFar(n + 1)'
    BY <1>0, <1>5, <2>1, <2>2, SymbolRead
  <2>4. FoundSoFar(index)'
    BY <2>2, <2>3
  <2>5. TablesRead' /\ Symbols' = Symbols
    BY <2>2 DEF TablesRead, TablesMatch, SymtabAt, Symbols
  <2>6. index' \in Nat /\ index' <= Len(Symbols)
    BY <1>0, <2>2, SymbolsAre
  <2>7. DOMAIN address' = DOMAIN Ptrs
    BY <1>5 DEF LookUp
  <2>. QED
    BY <1>0, <2>2, <2>4, <2>5, <2>6, <2>7
<1>6. CASE Ready
  <2>1. elfPc = "symbols" /\ index = Len(Symbols) /\ TablesRead /\ FoundSoFar(Len(Symbols))
        /\ UNCHANGED <<file, index, link, table, strings, address>>
        /\ elfPc' \in {"done", "failed"}
    BY <1>6 DEF Ready, Goto
  <2>2. TablesRead' /\ FoundSoFar(Len(Symbols))'
    BY <2>1 DEF TablesRead, TablesMatch, SymtabAt, Symbols, FoundSoFar, FirstIs, Defines,
                IsFunction
  <2>. QED
    BY <1>0, <2>1, <2>2
<1>7. CASE UNCHANGED elfVars
  BY <1>7, SMTT(30) DEF elfVars, HasRead, TablesRead, TablesMatch, SymtabAt, Symbols, FoundSoFar,
              FirstIs, Defines, IsFunction
<1>. QED
  BY <1>1, <1>2, <1>3, <1>4, <1>5, <1>6, <1>7, Zenon DEF ElfNext

\* In every executable whose tables are well-formed and whichever read fails:
\* when find_functions succeeds, each entry of ptrs has the address of the
\* first symbol that defines it, or none, and the names were those of its table.
THEOREM AddressesAreRight == ElfSpec => []AddressesRight
<1>1. ElfInv => AddressesRight
  <2>. SUFFICES ASSUME ElfInv, elfPc = "done"
                PROVE  /\ TablesMatch
                       /\ \A j \in DOMAIN Ptrs :
                            IF Definitions(Ptrs[j]) = {} THEN address[j] = 0
                            ELSE \E k \in Definitions(Ptrs[j]) :
                                   /\ address[j] = Symbols[k].value
                                   /\ \A m \in Definitions(Ptrs[j]) : k <= m
    BY Zenon DEF AddressesRight
  <2>1. TablesRead /\ FoundSoFar(Len(Symbols)) /\ file \in Files
    BY DEF ElfInv
  <2>2. DOMAIN Symbols = 1 .. Len(Symbols)
    BY <2>1, SymbolsAre
  <2>3. ASSUME NEW j \in DOMAIN Ptrs
        PROVE  \A k : k \in Definitions(Ptrs[j]) <=> k \in 1 .. Len(Symbols) /\ Defines(k, j)
    BY <2>2, PtrsDiffer, Zenon DEF Definitions, Defines, IsFunction
  <2>4. ASSUME NEW j \in DOMAIN Ptrs
        PROVE  IF Definitions(Ptrs[j]) = {} THEN address[j] = 0
               ELSE \E k \in Definitions(Ptrs[j]) :
                      /\ address[j] = Symbols[k].value
                      /\ \A m \in Definitions(Ptrs[j]) : k <= m
    <3>1. FirstIs(Len(Symbols), j, address[j])
      BY <2>1, Zenon DEF FoundSoFar
    <3>. QED
      BY <2>3, <3>1, Zenon DEF FirstIs
  <2>. QED
    BY <2>1, <2>4, Zenon DEF TablesRead
<1>2. ElfInv /\ [ElfNext]_elfVars => ElfInv'
  BY ElfStep
<1>. QED
  BY <1>1, <1>2, ElfStart, PTL DEF ElfSpec

-----------------------------------------------------------------------------
(* Stub.                                                                   *)

Host == [r \in Regs |-> r]

\* The stack in the stub while the first k of Saved are on it.
Frame(k) ==
  [j \in 1 .. k + 2 |-> IF j <= k THEN Saved[(k + 1) - j]
                        ELSE IF j = k + 1 THEN "rax" ELSE "host"]

LEMMA SavedIs ==
  /\ Len(Saved) = 8 /\ DOMAIN Saved = 1 .. 8
  /\ \A k \in 1 .. 8 : Saved[k] \in Regs \ {"rax"}
  /\ \A r \in Regs \ {"rax"} : \E k \in 1 .. 8 : r = Saved[k]
<1>1. Len(Saved) = 8 /\ DOMAIN Saved = 1 .. 8
  BY DEF Saved
<1>2. \A k \in 1 .. 8 : Saved[k] \in Regs \ {"rax"}
  BY DEF Saved, Regs
<1>3. /\ Saved[1] = "rcx" /\ Saved[2] = "rdx" /\ Saved[3] = "r8" /\ Saved[4] = "r9"
      /\ Saved[5] = "r10" /\ Saved[6] = "r11" /\ Saved[7] = "rdi" /\ Saved[8] = "rsi"
  BY DEF Saved
<1>4. /\ 1 \in 1 .. 8 /\ 2 \in 1 .. 8 /\ 3 \in 1 .. 8 /\ 4 \in 1 .. 8
      /\ 5 \in 1 .. 8 /\ 6 \in 1 .. 8 /\ 7 \in 1 .. 8 /\ 8 \in 1 .. 8
  OBVIOUS
<1>5. ASSUME NEW r \in Regs \ {"rax"} PROVE \E k \in 1 .. 8 : r = Saved[k]
  <2>1. r \in {"rcx", "rdx", "r8", "r9", "r10", "r11", "rdi", "rsi"}
    BY Zenon DEF Regs
  <2>. QED
    BY <1>3, <1>4, <2>1, Zenon
<1>. QED
  BY <1>1, <1>2, <1>5

\* What the stub puts on the stack.
Slots == Regs \cup {"host"}

LEMMA FramePushed ==
  ASSUME NEW k \in 0 .. 7 PROVE <<Saved[k + 1]>> \o Frame(k) = Frame(k + 1)
<1>1. PICK f : f = Frame(k)
  OBVIOUS
<1>2. f = [j \in 1 .. k + 2 |-> IF j <= k THEN Saved[(k + 1) - j]
                                ELSE IF j = k + 1 THEN "rax" ELSE "host"]
  BY <1>1 DEF Frame
<1>3. PICK g : g = <<Saved[k + 1]>> \o f
  OBVIOUS
<1>4. /\ g = [j \in 1 .. k + 3 |-> g[j]]
      /\ g[1] = Saved[k + 1]
      /\ \A j \in 2 .. k + 3 : g[j] = f[j - 1]
  BY <1>2, <1>3
<1>5. Frame(k + 1) = [j \in 1 .. k + 3 |-> IF j <= k + 1 THEN Saved[(k + 2) - j]
                                           ELSE IF j = k + 2 THEN "rax" ELSE "host"]
  BY DEF Frame
<1>6. ASSUME NEW j \in 1 .. k + 3
      PROVE  g[j] = IF j <= k + 1 THEN Saved[(k + 2) - j]
                    ELSE IF j = k + 2 THEN "rax" ELSE "host"
  <2>1. CASE j = 1
    BY <1>4, <2>1
  <2>2. CASE j # 1
    <3>1. /\ j - 1 \in 1 .. k + 2 /\ (k + 1) - (j - 1) = (k + 2) - j
          /\ (j - 1 <= k <=> j <= k + 1) /\ (j - 1 = k + 1 <=> j = k + 2)
      BY <2>2
    <3>2. f[j - 1] = IF j - 1 <= k THEN Saved[(k + 1) - (j - 1)]
                     ELSE IF j - 1 = k + 1 THEN "rax" ELSE "host"
      BY <1>2, <3>1, Zenon
    <3>3. g[j] = f[j - 1]
      <4>1. j \in 2 .. k + 3
        BY <2>2
      <4>. QED
        BY <1>4, <4>1, Zenon
    <3>. QED
      BY <3>1, <3>2, <3>3
  <2>. QED
    BY <2>1, <2>2
<1>7. g = Frame(k + 1)
  BY <1>4, <1>5, <1>6
<1>. QED
  BY <1>1, <1>3, <1>7, Zenon

LEMMA FrameIs ==
  ASSUME NEW k \in 0 .. 8
  PROVE  Frame(k) \in Seq(Slots) /\ Len(Frame(k)) = k + 2
<1>1. \A j \in 1 .. 8 : Saved[j] \in Slots
  BY SavedIs DEF Slots
<1>2. ASSUME NEW j \in 1 .. k + 2
      PROVE  (IF j <= k THEN Saved[(k + 1) - j] ELSE IF j = k + 1 THEN "rax" ELSE "host")
               \in Slots
  <2>1. j <= k => (k + 1) - j \in 1 .. 8
    OBVIOUS
  <2>2. j <= k => Saved[(k + 1) - j] \in Slots
    BY <1>1, <2>1, Zenon
  <2>3. "rax" \in Slots /\ "host" \in Slots
    BY DEF Slots, Regs
  <2>. QED
    BY <2>2, <2>3
<1>3. PICK f : f = Frame(k)
  OBVIOUS
<1>4. f = [j \in 1 .. k + 2 |-> IF j <= k THEN Saved[(k + 1) - j]
                                ELSE IF j = k + 1 THEN "rax" ELSE "host"]
  BY <1>3, Zenon DEF Frame
<1>5. f \in [1 .. k + 2 -> Slots]
  BY <1>2, <1>4, Zenon
<1>6. k + 2 \in Nat
  OBVIOUS
<1>7. f \in Seq(Slots) /\ Len(f) = k + 2
  BY <1>5, <1>6
<1>. QED
  BY <1>3, <1>7, Zenon

LEMMA FramePopped ==
  ASSUME NEW k \in 1 .. 8 PROVE Head(Frame(k)) = Saved[k] /\ Tail(Frame(k)) = Frame(k - 1)
<1>1. k - 1 \in 0 .. 7 /\ (k - 1) + 1 = k
  OBVIOUS
<1>2. <<Saved[k]>> \o Frame(k - 1) = Frame(k)
  BY <1>1, FramePushed
<1>3. Frame(k - 1) \in Seq(Slots) /\ Saved[k] \in Slots
  <2>1. k \in 1 .. 8 /\ k - 1 \in 0 .. 8
    OBVIOUS
  <2>2. Saved[k] \in Slots
    BY SavedIs DEF Slots
  <2>. QED
    BY <2>1, <2>2, FrameIs
<1>. QED
  BY <1>2, <1>3

\* The instructions of the stub.
LEMMA StubIs ==
  /\ DOMAIN HookStub = 1 .. 20
  /\ \A k \in 1 .. 8 : HookStub[k] = Op("push", Saved[k])
  /\ HookStub[9] = Op("load", "kuk") /\ HookStub[10] = Op("call", "")
  /\ \A k \in 1 .. 8 : HookStub[19 - k] = Op("pop", Saved[k])
  /\ HookStub[19] = Op("pop", "rax") /\ HookStub[20] = Op("jmp", "trampoline1")
<1>1. PICK pushes : pushes = Pushes(Saved)
  OBVIOUS
<1>2. pushes = [k \in 1 .. 8 |-> Op("push", Saved[k])]
  BY <1>1, SavedIs DEF Pushes
<1>3. PICK rev : rev = Reverse(Saved)
  OBVIOUS
<1>4. rev = [k \in 1 .. 8 |-> Saved[(8 - k) + 1]]
  BY <1>3, SavedIs DEF Reverse
<1>5. PICK pops : pops = Pops(rev)
  OBVIOUS
<1>6. pops = [k \in 1 .. 8 |-> Op("pop", Saved[(8 - k) + 1])]
  BY <1>4, <1>5 DEF Pops
<1>7. PICK call : /\ call = <<Op("load", "kuk"), Op("call", "")>>
                  /\ call = [k \in 1 .. 2 |-> call[k]]
                  /\ call[1] = Op("load", "kuk") /\ call[2] = Op("call", "")
  <2>1. PICK o1, o2 : o1 = Op("load", "kuk") /\ o2 = Op("call", "")
    OBVIOUS
  <2>2. PICK s : s = <<o1, o2>>
    OBVIOUS
  <2>3. s = [k \in 1 .. 2 |-> s[k]] /\ s[1] = o1 /\ s[2] = o2
    BY <2>2
  <2>. QED
    BY <2>1, <2>2, <2>3, Zenon
<1>8. PICK last : /\ last = <<Op("pop", "rax"), Op("jmp", "trampoline1")>>
                  /\ last = [k \in 1 .. 2 |-> last[k]]
                  /\ last[1] = Op("pop", "rax") /\ last[2] = Op("jmp", "trampoline1")
  <2>1. PICK o1, o2 : o1 = Op("pop", "rax") /\ o2 = Op("jmp", "trampoline1")
    OBVIOUS
  <2>2. PICK s : s = <<o1, o2>>
    OBVIOUS
  <2>3. s = [k \in 1 .. 2 |-> s[k]] /\ s[1] = o1 /\ s[2] = o2
    BY <2>2
  <2>. QED
    BY <2>1, <2>2, <2>3, Zenon
<1>9. PICK stub : stub = pushes \o call \o pops \o last
  OBVIOUS
<1>10. HookStub = stub
  BY <1>1, <1>3, <1>5, <1>7, <1>8, <1>9, Zenon DEF HookStub
<1>11. PICK one : one = pushes \o call
  OBVIOUS
<1>12. /\ one = [k \in 1 .. 10 |-> one[k]] /\ \A k \in 1 .. 8 : one[k] = pushes[k]
       /\ one[9] = call[1] /\ one[10] = call[2]
  <2>1. call = [k \in 1 .. 2 |-> call[k]]
    BY <1>7, Zenon
  <2>. QED
    BY <1>2, <1>11, <2>1
<1>13. PICK two : two = one \o pops
  OBVIOUS
<1>14. /\ two = [k \in 1 .. 18 |-> two[k]] /\ \A k \in 1 .. 10 : two[k] = one[k]
       /\ \A k \in 1 .. 8 : two[10 + k] = pops[k]
  BY <1>6, <1>12, <1>13
<1>15. /\ DOMAIN stub = 1 .. 20 /\ \A k \in 1 .. 18 : stub[k] = two[k]
       /\ stub[19] = last[1] /\ stub[20] = last[2]
  <2>1. last = [k \in 1 .. 2 |-> last[k]]
    BY <1>8, Zenon
  <2>2. stub = two \o last
    BY <1>9, <1>11, <1>13, Zenon
  <2>3. two = [k \in 1 .. 18 |-> two[k]]
    BY <1>14, Zenon
  <2>. QED
    BY <2>1, <2>2, <2>3
<1>16. ASSUME NEW k \in 1 .. 8 PROVE stub[k] = Op("push", Saved[k])
  <2>1. k \in 1 .. 10 /\ k \in 1 .. 18
    OBVIOUS
  <2>. QED
    BY <1>2, <1>12, <1>14, <1>15, <2>1, Zenon
<1>17. ASSUME NEW k \in 1 .. 8 PROVE stub[19 - k] = Op("pop", Saved[k])
  <2>1. /\ 9 - k \in 1 .. 8 /\ 19 - k \in 1 .. 18 /\ 10 + (9 - k) = 19 - k
        /\ (8 - (9 - k)) + 1 = k
    OBVIOUS
  <2>2. stub[19 - k] = pops[9 - k]
    BY <1>14, <1>15, <2>1
  <2>. QED
    BY <1>6, <2>1, <2>2
<1>18. stub[9] = Op("load", "kuk") /\ stub[10] = Op("call", "")
  <2>1. 9 \in 1 .. 10 /\ 10 \in 1 .. 10 /\ 9 \in 1 .. 18 /\ 10 \in 1 .. 18
    OBVIOUS
  <2>. QED
    BY <1>7, <1>12, <1>14, <1>15, <2>1, Zenon
<1>19. stub[19] = Op("pop", "rax") /\ stub[20] = Op("jmp", "trampoline1")
  BY <1>8, <1>15, Zenon
<1>. QED
  BY <1>10, <1>15, <1>16, <1>17, <1>18, <1>19, Zenon

Onto(v, s)    == <<v>> \o s
With(f, r, v) == [f EXCEPT ![r] = v]

\* The instruction at a place, and what running it does.
Has(label, n, o, x) == n \in DOMAIN Program[label] /\ Program[label][n] = Op(o, x)
At(label, n, o, x)  == rip = <<label, n>> /\ Has(label, n, o, x)

LEMMA Ran ==
  ASSUME NEW label, NEW n, NEW o, NEW x, At(label, n, o, x), StubNext
  PROVE  /\ o \in {"push", "pushlabel", "pop", "load", "call", "copied"}
              => rip' = <<label, n + 1>>
         /\ o = "push" => stack' = Onto(regs[x], stack) /\ regs' = regs
         /\ o = "pushlabel" => stack' = Onto(x, stack) /\ regs' = regs
         /\ o = "pop" => stack' = Tail(stack) /\ regs' = With(regs, x, Head(stack))
         /\ o = "load" => stack' = stack /\ regs' = With(regs, "rax", x)
         /\ o = "ret" => rip' = <<Head(stack), 1>> /\ stack' = Tail(stack) /\ regs' = regs
         /\ o = "jmp" => rip' = <<x, 1>> /\ stack' = stack /\ regs' = regs
         /\ o = "call" => /\ stack' = stack
                          /\ \E changed \in SUBSET Regs : regs' =
                               [r \in Regs |-> IF r \in changed THEN "junk" ELSE regs[r]]
         /\ o = "copied" => stack' = stack /\ regs' = regs
<1>1. rip[1] = label /\ rip[2] = n
  BY DEF At
<1>2. Current = Op(o, x) /\ Current.op = o /\ Current.arg = x
  BY <1>1 DEF At, Has, Current, Op
<1>3. \A p : AtOp(p) <=> p = o
  BY <1>1, <1>2 DEF At, Has, AtOp
<1>4. Continue => rip' = <<label, n + 1>>
  BY <1>1 DEF Continue
<1>. QED
  BY <1>2, <1>3, <1>4
     DEF StubNext, Push, PushLabel, Pop, Load, Ret, Jump, CallKuk, RunCopied, Onto, With

\* The other instructions.
LEMMA JumpIs ==
  /\ DOMAIN JumpIn = 1 .. 4 /\ JumpIn[1] = Op("push", "rax") /\ JumpIn[2] = Op("load", "hook1")
  /\ JumpIn[3] = Op("push", "rax") /\ JumpIn[4] = Op("ret", "")
<1>1. PICK o1, o2, o4 : o1 = Op("push", "rax") /\ o2 = Op("load", "hook1") /\ o4 = Op("ret", "")
  OBVIOUS
<1>2. PICK s : s = <<o1, o2, o1, o4>>
  OBVIOUS
<1>3. DOMAIN s = 1 .. 4 /\ s[1] = o1 /\ s[2] = o2 /\ s[3] = o1 /\ s[4] = o4
  BY <1>2
<1>4. JumpIn = s
  BY <1>1, <1>2, Zenon DEF JumpIn
<1>. QED
  BY <1>1, <1>3, <1>4, Zenon

LEMMA TrampolineIs ==
  /\ DOMAIN Trampoline = 1 .. 3 /\ Trampoline[1] = Op("copied", "")
  /\ Trampoline[2] = Op("pushlabel", "rest") /\ Trampoline[3] = Op("ret", "")
<1>1. PICK o1, o2, o3 :
        o1 = Op("copied", "") /\ o2 = Op("pushlabel", "rest") /\ o3 = Op("ret", "")
  OBVIOUS
<1>2. PICK s : s = <<o1, o2, o3>>
  OBVIOUS
<1>3. DOMAIN s = 1 .. 3 /\ s[1] = o1 /\ s[2] = o2 /\ s[3] = o3
  BY <1>2
<1>4. Trampoline = s
  BY <1>1, <1>2, Zenon DEF Trampoline
<1>. QED
  BY <1>1, <1>3, <1>4, Zenon

LEMMA ProgramIs ==
  /\ Program["fun"] = JumpIn /\ Program["hook1"] = HookStub
  /\ Program["trampoline1"] = Trampoline /\ DOMAIN Program["rest"] = {}
<1>1. PICK p, q, t : p = JumpIn /\ q = HookStub /\ t = Trampoline
  OBVIOUS
<1>2. PICK r : r = [fun |-> p, hook1 |-> q, trampoline1 |-> t, rest |-> <<>>]
  OBVIOUS
<1>3. r["fun"] = p /\ r["hook1"] = q /\ r["trampoline1"] = t /\ r["rest"] = <<>>
  BY <1>2
<1>4. Program = r
  BY <1>1, <1>2, Zenon DEF Program
<1>. QED
  BY <1>1, <1>3, <1>4

LEMMA ProgramHas ==
  /\ Has("fun", 1, "push", "rax") /\ Has("fun", 2, "load", "hook1")
  /\ Has("fun", 3, "push", "rax") /\ Has("fun", 4, "ret", "")
  /\ \A k \in 1 .. 8 : Has("hook1", k, "push", Saved[k])
  /\ Has("hook1", 9, "load", "kuk") /\ Has("hook1", 10, "call", "")
  /\ \A k \in 1 .. 8 : Has("hook1", 19 - k, "pop", Saved[k])
  /\ Has("hook1", 19, "pop", "rax") /\ Has("hook1", 20, "jmp", "trampoline1")
  /\ Has("trampoline1", 1, "copied", "") /\ Has("trampoline1", 2, "pushlabel", "rest")
  /\ Has("trampoline1", 3, "ret", "")
<1>1. /\ 1 \in 1 .. 4 /\ 2 \in 1 .. 4 /\ 3 \in 1 .. 4 /\ 4 \in 1 .. 4
      /\ 1 \in 1 .. 3 /\ 2 \in 1 .. 3 /\ 3 \in 1 .. 3
      /\ 9 \in 1 .. 20 /\ 10 \in 1 .. 20 /\ 19 \in 1 .. 20 /\ 20 \in 1 .. 20
      /\ \A k \in 1 .. 8 : k \in 1 .. 20 /\ 19 - k \in 1 .. 20
  OBVIOUS
<1>. QED
  BY <1>1, JumpIs, StubIs, TrampolineIs, ProgramIs, Zenon DEF Has

\* All registers but rax have the host's values; the last of Saved, from the
\* k-th on, have them again.
IsRegs(f)      == f = [r \in Regs |-> f[r]]
Kept(f)        == IsRegs(f) /\ \A r \in Regs \ {"rax"} : f[r] = r
Restored(f, k) == IsRegs(f) /\ \A j \in k + 1 .. 8 : f[Saved[j]] = Saved[j]

\* The places where the registers and the stack are the host's, those of the
\* jump, and those of the stub before and behind the call.
AsCalled ==
  /\ rip \in {<<"fun", 1>>, <<"hook1", 20>>, <<"trampoline1", 1>>, <<"trampoline1", 2>>,
              <<"rest", 1>>}
  /\ regs = Host /\ stack = <<"host">>
Jumping ==
  \/ rip = <<"fun", 2>> /\ regs = Host /\ stack = <<"rax", "host">>
  \/ rip = <<"fun", 3>> /\ Kept(regs) /\ regs["rax"] = "hook1" /\ stack = <<"rax", "host">>
  \/ rip = <<"fun", 4>> /\ Kept(regs) /\ stack = <<"hook1", "rax", "host">>
Saving ==
  \/ \E k \in 0 .. 8 : rip = <<"hook1", k + 1>> /\ Kept(regs) /\ stack = Frame(k)
  \/ rip = <<"hook1", 10>> /\ Kept(regs) /\ regs["rax"] = "kuk" /\ stack = Frame(8)
Restoring ==
  \E k \in 0 .. 8 : rip = <<"hook1", 19 - k>> /\ Restored(regs, k) /\ stack = Frame(k)
Returning ==
  rip = <<"trampoline1", 3>> /\ regs = Host /\ stack = <<"rest", "host">>

StubInv == AsCalled \/ Jumping \/ Saving \/ Restoring \/ Returning

LEMMA HostIs == Kept(Host) /\ IsRegs(Host) /\ Host["rax"] = "rax"
  BY DEF Host, Kept, IsRegs, Regs

LEMMA OntoIs ==
  /\ Onto("rax", <<"host">>) = <<"rax", "host">> /\ Onto("rest", <<"host">>) = <<"rest", "host">>
  /\ Onto("hook1", <<"rax", "host">>) = <<"hook1", "rax", "host">>
<1>1. ASSUME NEW x, NEW y PROVE <<x>> \o <<y>> = <<x, y>>
  <2>1. PICK s, t, u : s = <<x>> /\ t = <<y>> /\ u = s \o t
    OBVIOUS
  <2>2. /\ s = [k \in 1 .. 1 |-> s[k]] /\ s[1] = x
        /\ t = [k \in 1 .. 1 |-> t[k]] /\ t[1] = y
    BY <2>1
  <2>3. u = [k \in 1 .. 2 |-> IF k = 1 THEN x ELSE y]
    <3>1. u = [k \in 1 .. 2 |-> u[k]] /\ u[1] = s[1] /\ u[2] = t[1]
      BY <2>1, <2>2
    <3>. QED
      BY <2>2, <3>1
  <2>4. <<x, y>> = [k \in 1 .. 2 |-> IF k = 1 THEN x ELSE y]
    OBVIOUS
  <2>. QED
    BY <2>1, <2>3, <2>4, Zenon
<1>2. ASSUME NEW x, NEW y, NEW z PROVE <<x>> \o <<y, z>> = <<x, y, z>>
  <2>1. PICK s, t, u : s = <<x>> /\ t = <<y, z>> /\ u = s \o t
    OBVIOUS
  <2>2. s = [k \in 1 .. 1 |-> x] /\ t = [k \in 1 .. 2 |-> IF k = 1 THEN y ELSE z]
    BY <2>1
  <2>3. u = [k \in 1 .. 3 |-> IF k = 1 THEN x ELSE IF k = 2 THEN y ELSE z]
    BY <2>1, <2>2
  <2>4. <<x, y, z>> = [k \in 1 .. 3 |-> IF k = 1 THEN x ELSE IF k = 2 THEN y ELSE z]
    OBVIOUS
  <2>. QED
    BY <2>1, <2>3, <2>4, Zenon
<1>. QED
  BY <1>1, <1>2, Zenon DEF Onto

LEMMA FrameNone == Frame(0) = <<"rax", "host">>
<1>1. Frame(0) = [j \in 1 .. 0 + 2 |-> IF j <= 0 THEN Saved[(0 + 1) - j]
                                       ELSE IF j = 0 + 1 THEN "rax" ELSE "host"]
  BY DEF Frame
<1>. QED
  BY <1>1

LEMMA CalledStep == ASSUME AsCalled, StubNext PROVE StubInv'
<1>0. regs = Host /\ stack = <<"host">>
  BY DEF AsCalled
<1>1. CASE rip = <<"fun", 1>>
  <2>1. At("fun", 1, "push", "rax")
    BY <1>1, ProgramHas, Zenon DEF At
  <2>2. rip' = <<"fun", 1 + 1>> /\ stack' = Onto(regs["rax"], stack) /\ regs' = regs
    BY <2>1, Ran, Zenon
  <2>3. PICK v : v = regs["rax"]
    OBVIOUS
  <2>4. v = "rax"
    BY <1>0, <2>3, HostIs
  <2>5. stack' = Onto("rax", <<"host">>)
    BY <1>0, <2>2, <2>3, <2>4, Zenon
  <2>6. stack' = <<"rax", "host">>
    BY <2>5, OntoIs, Zenon
  <2>7. rip' = <<"fun", 2>>
    BY <2>2
  <2>. QED
    BY <1>0, <2>2, <2>6, <2>7, Zenon DEF StubInv, Jumping, Host
<1>2. CASE rip = <<"hook1", 20>>
  <2>1. At("hook1", 20, "jmp", "trampoline1")
    BY <1>2, ProgramHas, Zenon DEF At
  <2>2. rip' = <<"trampoline1", 1>> /\ stack' = stack /\ regs' = regs
    BY <2>1, Ran, Zenon
  <2>. QED
    BY <1>0, <2>2 DEF StubInv, AsCalled, Host
<1>3. CASE rip = <<"trampoline1", 1>>
  <2>1. At("trampoline1", 1, "copied", "")
    BY <1>3, ProgramHas, Zenon DEF At
  <2>2. rip' = <<"trampoline1", 1 + 1>> /\ stack' = stack /\ regs' = regs
    BY <2>1, Ran, Zenon
  <2>. QED
    BY <1>0, <2>2 DEF StubInv, AsCalled, Host
<1>4. CASE rip = <<"trampoline1", 2>>
  <2>1. At("trampoline1", 2, "pushlabel", "rest")
    BY <1>4, ProgramHas, Zenon DEF At
  <2>2. rip' = <<"trampoline1", 2 + 1>> /\ stack' = Onto("rest", stack) /\ regs' = regs
    BY <2>1, Ran, Zenon
  <2>3. stack' = Onto("rest", <<"host">>)
    BY <1>0, <2>2, Zenon
  <2>4. stack' = <<"rest", "host">>
    BY <2>3, OntoIs, Zenon
  <2>5. rip' = <<"trampoline1", 3>>
    BY <2>2
  <2>. QED
    BY <1>0, <2>2, <2>4, <2>5, Zenon DEF StubInv, Returning, Host
<1>5. CASE rip = <<"rest", 1>>
  <2>1. \A o : ~AtOp(o)
    BY <1>5, ProgramIs DEF AtOp
  <2>. QED
    BY <2>1 DEF StubNext, Push, PushLabel, Pop, Load, Ret, Jump, CallKuk, RunCopied
<1>. QED
  BY <1>1, <1>2, <1>3, <1>4, <1>5 DEF AsCalled

LEMMA JumpStep == ASSUME Jumping, StubNext PROVE StubInv'
<1>1. CASE rip = <<"fun", 2>> /\ regs = Host /\ stack = <<"rax", "host">>
  <2>1. At("fun", 2, "load", "hook1")
    BY <1>1, ProgramHas, Zenon DEF At
  <2>2. rip' = <<"fun", 2 + 1>> /\ stack' = stack /\ regs' = With(regs, "rax", "hook1")
    BY <2>1, Ran, Zenon
  <2>3. Kept(regs') /\ regs'["rax"] = "hook1"
    BY <1>1, <2>2 DEF Host, Kept, IsRegs, Regs, With
  <2>. QED
    BY <1>1, <2>2, <2>3 DEF StubInv, Jumping
<1>2. CASE rip = <<"fun", 3>> /\ Kept(regs) /\ regs["rax"] = "hook1" /\ stack = <<"rax", "host">>
  <2>1. At("fun", 3, "push", "rax")
    BY <1>2, ProgramHas, Zenon DEF At
  <2>2. rip' = <<"fun", 3 + 1>> /\ stack' = Onto(regs["rax"], stack) /\ regs' = regs
    BY <2>1, Ran, Zenon
  <2>3. stack' = Onto("hook1", <<"rax", "host">>)
    BY <1>2, <2>2, Zenon
  <2>4. stack' = <<"hook1", "rax", "host">>
    BY <2>3, OntoIs, Zenon
  <2>5. rip' = <<"fun", 4>>
    BY <2>2
  <2>6. Kept(regs')
    BY <1>2, <2>2, Zenon
  <2>. QED
    BY <2>4, <2>5, <2>6, Zenon DEF StubInv, Jumping
<1>3. CASE rip = <<"fun", 4>> /\ Kept(regs) /\ stack = <<"hook1", "rax", "host">>
  <2>1. At("fun", 4, "ret", "")
    BY <1>3, ProgramHas, Zenon DEF At
  <2>2. rip' = <<Head(stack), 1>> /\ stack' = Tail(stack) /\ regs' = regs
    BY <2>1, Ran, Zenon
  <2>3. rip' = <<"hook1", 0 + 1>> /\ stack' = Frame(0)
    BY <1>3, <2>2, FrameNone
  <2>4. 0 \in 0 .. 8 /\ Kept(regs')
    BY <1>3, <2>2
  <2>. QED
    BY <2>3, <2>4 DEF StubInv, Saving
<1>. QED
  BY <1>1, <1>2, <1>3 DEF Jumping

LEMMA SaveStep == ASSUME Saving, StubNext PROVE StubInv'
<1>1. ASSUME NEW k \in 0 .. 7, rip = <<"hook1", k + 1>>, Kept(regs), stack = Frame(k)
      PROVE  StubInv'
  <2>1. At("hook1", k + 1, "push", Saved[k + 1])
    <3>1. k + 1 \in 1 .. 8 /\ k + 1 \in 1 .. 20
      OBVIOUS
    <3>. QED
      BY <1>1, <3>1, ProgramHas, Zenon DEF At
  <2>2. rip' = <<"hook1", (k + 1) + 1>> /\ stack' = Onto(regs[Saved[k + 1]], stack)
        /\ regs' = regs
    BY <2>1, Ran, Zenon
  <2>3. regs[Saved[k + 1]] = Saved[k + 1]
    <3>1. k + 1 \in 1 .. 8
      OBVIOUS
    <3>. QED
      BY <1>1, <3>1, SavedIs DEF Kept
  <2>4. stack' = Frame(k + 1)
    BY <1>1, <2>2, <2>3, FramePushed DEF Onto
  <2>5. k + 1 \in 0 .. 8 /\ Kept(regs')
    BY <1>1, <2>2
  <2>. QED
    BY <2>2, <2>4, <2>5 DEF StubInv, Saving
<1>2. CASE rip = <<"hook1", 8 + 1>> /\ Kept(regs) /\ stack = Frame(8)
  <2>0. rip = <<"hook1", 9>>
    BY <1>2
  <2>1. At("hook1", 9, "load", "kuk")
    BY <2>0, ProgramHas, Zenon DEF At
  <2>2. rip' = <<"hook1", 9 + 1>> /\ stack' = stack /\ regs' = With(regs, "rax", "kuk")
    BY <2>1, Ran, Zenon
  <2>3. Kept(regs') /\ regs'["rax"] = "kuk"
    BY <1>2, <2>2 DEF Kept, IsRegs, Regs, With
  <2>. QED
    BY <1>2, <2>2, <2>3 DEF StubInv, Saving
<1>3. CASE rip = <<"hook1", 10>> /\ Kept(regs) /\ stack = Frame(8)
  <2>1. At("hook1", 10, "call", "")
    BY <1>3, ProgramHas, Zenon DEF At
  <2>2. rip' = <<"hook1", 10 + 1>> /\ stack' = stack
        /\ \E changed \in SUBSET Regs :
             regs' = [r \in Regs |-> IF r \in changed THEN "junk" ELSE regs[r]]
    BY <2>1, Ran, Zenon
  <2>3. Restored(regs', 8)
    BY <2>2 DEF Restored, IsRegs
  <2>4. rip' = <<"hook1", 19 - 8>> /\ 8 \in 0 .. 8
    BY <2>2
  <2>. QED
    BY <1>3, <2>2, <2>3, <2>4 DEF StubInv, Restoring
<1>. QED
  <2>1. ASSUME NEW k \in 0 .. 8, rip = <<"hook1", k + 1>>, Kept(regs), stack = Frame(k)
        PROVE  StubInv'
    <3>1. k \in 0 .. 7 \/ k = 8
      OBVIOUS
    <3>. QED
      BY <1>1, <1>2, <2>1, <3>1
  <2>. QED
    BY <1>3, <2>1 DEF Saving

LEMMA RestoreStep == ASSUME Restoring, StubNext PROVE StubInv'
<1>1. PICK k \in 0 .. 8 : rip = <<"hook1", 19 - k>> /\ Restored(regs, k) /\ stack = Frame(k)
  BY DEF Restoring
<1>2. CASE k # 0
  <2>0. k \in 1 .. 8 /\ 19 - k \in 1 .. 20 /\ (19 - k) + 1 = 19 - (k - 1) /\ k - 1 \in 0 .. 8
    BY <1>2
  <2>1. At("hook1", 19 - k, "pop", Saved[k])
    BY <1>1, <2>0, ProgramHas, Zenon DEF At
  <2>2. rip' = <<"hook1", (19 - k) + 1>> /\ stack' = Tail(stack)
        /\ regs' = With(regs, Saved[k], Head(stack))
    BY <2>1, Ran, Zenon
  <2>3. Head(stack) = Saved[k] /\ stack' = Frame(k - 1)
    BY <1>1, <2>0, <2>2, FramePopped
  <2>4. Restored(regs', k - 1)
    <3>1. Saved[k] \in Regs /\ IsRegs(regs)
      BY <1>1, <2>0, SavedIs DEF Restored
    <3>2. IsRegs(regs')
      BY <2>2, <3>1 DEF IsRegs, With
    <3>3. ASSUME NEW j \in (k - 1) + 1 .. 8 PROVE regs'[Saved[j]] = Saved[j]
      <4>1. CASE j = k
        BY <2>2, <2>3, <3>1, <4>1 DEF IsRegs, With
      <4>2. CASE j # k
        <5>1. j \in k + 1 .. 8 /\ j \in 1 .. 8
          BY <2>0, <4>2
        <5>2. Saved[j] \in Regs /\ regs[Saved[j]] = Saved[j]
          BY <1>1, <5>1, SavedIs DEF Restored
        <5>. QED
          BY <2>2, <2>3, <3>1, <5>2 DEF IsRegs, With
      <4>. QED
        BY <4>1, <4>2
    <3>. QED
      BY <3>2, <3>3 DEF Restored
  <2>. QED
    BY <2>0, <2>2, <2>3, <2>4 DEF StubInv, Restoring
<1>3. CASE k = 0
  <2>0. rip = <<"hook1", 19>>
    BY <1>1, <1>3
  <2>1. At("hook1", 19, "pop", "rax")
    BY <2>0, ProgramHas, Zenon DEF At
  <2>2. rip' = <<"hook1", 19 + 1>> /\ stack' = Tail(stack)
        /\ regs' = With(regs, "rax", Head(stack))
    BY <2>1, Ran, Zenon
  <2>3. stack = <<"rax", "host">>
    BY <1>1, <1>3, FrameNone
  <2>4. Head(stack) = "rax" /\ stack' = <<"host">>
    BY <2>2, <2>3
  <2>5. IsRegs(regs) /\ \A r \in Regs \ {"rax"} : regs[r] = r
    <3>1. IsRegs(regs) /\ \A j \in 1 .. 8 : regs[Saved[j]] = Saved[j]
      BY <1>1, <1>3 DEF Restored
    <3>. QED
      BY <3>1, SavedIs
  <2>6. regs' = Host
    <3>1. regs' = With(regs, "rax", "rax")
      BY <2>2, <2>4
    <3>. QED
      BY <2>5, <3>1 DEF Host, IsRegs, With
  <2>7. rip' = <<"hook1", 20>>
    BY <2>2
  <2>. QED
    BY <2>4, <2>6, <2>7, Zenon DEF StubInv, AsCalled, Host
<1>. QED
  BY <1>2, <1>3

LEMMA ReturnStep == ASSUME Returning, StubNext PROVE StubInv'
<1>1. At("trampoline1", 3, "ret", "")
  BY ProgramHas, Zenon DEF At, Returning
<1>2. rip' = <<Head(stack), 1>> /\ stack' = Tail(stack) /\ regs' = regs
  BY <1>1, Ran, Zenon
<1>3. rip' = <<"rest", 1>> /\ stack' = <<"host">>
  BY <1>2 DEF Returning
<1>. QED
  BY <1>2, <1>3 DEF StubInv, AsCalled, Returning, Host

LEMMA StubInvariant == StubSpec => []StubInv
<1>1. StubInit => StubInv
  BY DEF StubInit, StubInv, AsCalled, Host
<1>2. ASSUME StubInv, [StubNext]_stubVars PROVE StubInv'
  <2>1. CASE UNCHANGED stubVars
    BY <1>2, <2>1 DEF stubVars, StubInv, AsCalled, Jumping, Saving, Restoring, Returning
  <2>. QED
    BY <1>2, <2>1, CalledStep, JumpStep, SaveStep, RestoreStep, ReturnStep DEF StubInv
<1>. QED
  BY <1>1, <1>2, PTL DEF StubSpec

\* The call, and what stands at the other places of the invariant.
Calling == At("hook1", 10, "call", "") /\ Kept(regs) /\ regs["rax"] = "kuk" /\ stack = Frame(8)
Elsewhere(others) == \E label, n, o, x : At(label, n, o, x) /\ label # "rest" /\ o \notin others

LEMMA Placed ==
  ASSUME Jumping \/ Saving \/ Restoring \/ Returning
  PROVE  Calling \/ Elsewhere({"copied", "call"})
<1>1. ASSUME NEW label, NEW n, NEW o, NEW x, At(label, n, o, x), label # "rest",
             o # "copied", o # "call"
      PROVE  Elsewhere({"copied", "call"})
  BY <1>1, Zenon DEF Elsewhere
<1>2. CASE Jumping
  <2>1. \/ At("fun", 2, "load", "hook1") \/ At("fun", 3, "push", "rax")
        \/ At("fun", 4, "ret", "")
    BY <1>2, ProgramHas, Zenon DEF Jumping, At
  <2>. QED
    BY <1>1, <2>1, Zenon
<1>3. CASE Saving
  <2>1. CASE rip = <<"hook1", 10>> /\ Kept(regs) /\ regs["rax"] = "kuk" /\ stack = Frame(8)
    BY <2>1, ProgramHas, Zenon DEF Calling, At
  <2>2. ASSUME NEW k \in 0 .. 8, rip = <<"hook1", k + 1>>
        PROVE  (\E x : At("hook1", k + 1, "push", x)) \/ At("hook1", 9, "load", "kuk")
    <3>1. k + 1 \in 1 .. 8 \/ k + 1 = 9
      OBVIOUS
    <3>. QED
      BY <2>2, <3>1, ProgramHas, Zenon DEF At
  <2>. QED
    BY <1>1, <1>3, <2>1, <2>2, Zenon DEF Saving
<1>4. CASE Restoring
  <2>1. PICK k \in 0 .. 8 : rip = <<"hook1", 19 - k>>
    BY <1>4 DEF Restoring
  <2>2. CASE k # 0
    <3>1. k \in 1 .. 8
      BY <2>2
    <3>. QED
      BY <1>1, <2>1, <3>1, ProgramHas, Zenon DEF At
  <2>3. CASE k = 0
    <3>1. rip = <<"hook1", 19>>
      BY <2>1, <2>3
    <3>2. At("hook1", 19, "pop", "rax")
      BY <3>1, ProgramHas, Zenon DEF At
    <3>. QED
      BY <1>1, <3>2, Zenon
  <2>. QED
    BY <2>2, <2>3
<1>5. CASE Returning
  <2>1. At("trampoline1", 3, "ret", "")
    BY <1>5, ProgramHas, Zenon DEF Returning, At
  <2>. QED
    BY <1>1, <2>1, Zenon
<1>. QED
  BY <1>2, <1>3, <1>4, <1>5

LEMMA PlacedAsCalled ==
  ASSUME AsCalled, rip[1] # "rest" PROVE \E label, n, o, x : At(label, n, o, x) /\ o # "call"
<1>1. rip # <<"rest", 1>>
  OBVIOUS
<1>2. \/ At("fun", 1, "push", "rax") \/ At("hook1", 20, "jmp", "trampoline1")
      \/ At("trampoline1", 1, "copied", "") \/ At("trampoline1", 2, "pushlabel", "rest")
  BY <1>1, ProgramHas, Zenon DEF AsCalled, At
<1>3. ASSUME NEW label, NEW n, NEW o, NEW x, At(label, n, o, x), o # "call"
      PROVE  \E l, m, p, y : At(l, m, p, y) /\ p # "call"
  BY <1>3, Zenon
<1>. QED
  BY <1>2, <1>3, Zenon

LEMMA AtIs ==
  ASSUME NEW label, NEW n, NEW o, NEW x, At(label, n, o, x)
  PROVE  rip[1] = label /\ \A p : AtOp(p) => p = o
  BY DEF At, Has, AtOp, Current, Op

\* What kuk does to the registers that a call may change is not seen by the
\* function that was called.
THEOREM HookTransparent == StubSpec => []HookIsTransparent
<1>1. ASSUME StubInv, rip[1] = "rest" \/ AtOp("copied") PROVE regs = Host /\ stack = <<"host">>
  <2>1. CASE AsCalled
    BY <2>1 DEF AsCalled
  <2>2. CASE Calling \/ Elsewhere({"copied", "call"})
    <3>1. PICK label, n, o, x : At(label, n, o, x) /\ label # "rest" /\ o # "copied"
      BY <2>2, Zenon DEF Calling, Elsewhere
    <3>. QED
      BY <1>1, <3>1, AtIs
  <2>. QED
    BY <1>1, <2>1, <2>2, Placed DEF StubInv
<1>2. StubInv => HookIsTransparent
  BY <1>1 DEF HookIsTransparent, Host
<1>. QED
  BY <1>2, StubInvariant, PTL

\* kuk finds the host's arguments in their registers, itself in rax, and the
\* stack where the ABI has it.
THEOREM KukCalledLegally == StubSpec => []KukCallIsLegal
<1>1. ASSUME StubInv, AtOp("call")
      PROVE  Kept(regs) /\ regs["rax"] = "kuk" /\ stack = Frame(8)
  <2>1. CASE Calling
    BY <2>1 DEF Calling
  <2>2. CASE Elsewhere({"copied", "call"})
    <3>1. PICK label, n, o, x : At(label, n, o, x) /\ o # "call"
      BY <2>2, Zenon DEF Elsewhere
    <3>. QED
      BY <1>1, <3>1, AtIs
  <2>3. CASE AsCalled
    <3>1. rip[1] # "rest"
      BY <1>1, ProgramIs DEF AtOp
    <3>2. PICK label, n, o, x : At(label, n, o, x) /\ o # "call"
      BY <2>3, <3>1, PlacedAsCalled, Zenon
    <3>. QED
      BY <1>1, <3>2, AtIs
  <2>. QED
    BY <1>1, <2>1, <2>2, <2>3, Placed DEF StubInv
<1>2. StubInv => KukCallIsLegal
  <2>. SUFFICES ASSUME StubInv, AtOp("call")
                PROVE  /\ \A r \in Args : regs[r] = r
                       /\ Len(stack) % 2 = 0 /\ regs["rax"] = "kuk"
    BY DEF KukCallIsLegal
  <2>1. Len(stack) = 10
    BY <1>1, FrameIs
  <2>2. \A r \in Args : regs[r] = r
    BY <1>1 DEF Kept, Args, Regs
  <2>. QED
    BY <1>1, <2>1, <2>2
<1>. QED
  BY <1>2, StubInvariant, PTL

-----------------------------------------------------------------------------
(* KukText.                                                                *)

LEMMA MinIsLeast ==
  ASSUME NEW T, T \subseteq Nat, NEW m \in T
  PROVE  Min(T) <= m
  BY LeastNat DEF Min

\* The text and its NUL are in memory from p on.
TextAt(p) ==
  /\ p + Len(text) \in Memory /\ mem[p + Len(text)] = NUL
  /\ \A i \in 1 .. Len(text) : mem[p + i - 1] = text[i]

\* Where the library keeps the characters.
Starts     == {Str + 1} \cup Blocks
Characters ==
  IF Library = "cow" THEN mem[Str]
  ELSE IF Odd(mem[Str]) THEN mem[Str + 16] ELSE Str + 1

\* What the host calls with lies where the library says, and speech_say gets its
\* address.
KukInv ==
  /\ entry \in {0, 1, 2} /\ kukPc \in {"host", "kuk", "push"}
  /\ mem \in [Memory -> Nat]
  /\ kukPc = "kuk" => text \in Texts /\ Characters \in Starts /\ TextAt(Characters)
  /\ kukPc = "push" => text \in Texts /\ ptr \in Starts /\ TextAt(ptr)

LEMMA TextIs ==
  ASSUME NEW t \in Texts
  PROVE  /\ t \in Seq(0 .. 255) /\ Len(t) \in Nat /\ Len(t) < Room
         /\ \A i \in 1 .. Len(t) : t[i] \in Nat
<1>1. t \in Seq(0 .. 255) /\ Len(t) < Room
  BY TextsAssumption, RoomAssumption, Zenon
<1>2. Len(t) \in Nat /\ DOMAIN t = 1 .. Len(t)
  BY <1>1
<1>3. ASSUME NEW i \in DOMAIN t PROVE t[i] \in Nat
  <2>1. t[i] \in 0 .. 255
    BY <1>1, SeqAt, Zenon
  <2>. QED
    BY <2>1
<1>. QED
  BY <1>1, <1>2, <1>3, Zenon

LEMMA MemoryIs ==
  /\ Room \in Nat /\ Memory = 0 .. 24 + 2 * Room /\ Blocks = {24, 24 + Room}
  /\ Str = 0 /\ NUL = 0 /\ Starts = {1, 24, 24 + Room}
  /\ \A n \in 0 .. 24 : n \in Memory
  BY RoomAssumption DEF Memory, Blocks, Str, NUL, Starts

\* What Put leaves in memory.
LEMMA PutIs ==
  ASSUME NEW t \in Texts, NEW p \in Starts, p = 1 => Len(t) < 23, mem \in [Memory -> Nat],
         NEW new, new = Put(t, p)
  PROVE  /\ new \in [Memory -> Nat]
         /\ p + Len(t) \in Memory /\ new[p + Len(t)] = NUL
         /\ \A i \in 1 .. Len(t) : p + i - 1 \in Memory /\ new[p + i - 1] = t[i]
         /\ \A i \in 0 .. Len(t) : p + i > 0 /\ (p # 1 => p + i > 23)
<1>. DEFINE n == Len(t)
<1>1. n \in Nat /\ n < Room /\ \A i \in 1 .. n : t[i] \in Nat
  BY TextIs
<1>2. ASSUME NEW q \in Memory
      PROVE  new[q] = IF q \in p .. (p + n) - 1 THEN t[(q - p) + 1]
                      ELSE IF q = p + n THEN NUL ELSE mem[q]
  <2>1. p .. p + n - 1 = p .. (p + n) - 1
    BY <1>1, MemoryIs
  <2>2. new[q] = IF q \in p .. p + n - 1 THEN t[q - p + 1]
                 ELSE IF q = p + n THEN NUL ELSE mem[q]
    BY DEF Put
  <2>. QED
    BY <2>1, <2>2
<1>. HIDE DEF n
<1>3. p \in Nat /\ p + n \in Memory /\ \A i \in 1 .. n : (p + i) - 1 \in Memory
  BY <1>1, MemoryIs DEF n
<1>4. new[p + n] = NUL
  <2>1. p + n \notin p .. (p + n) - 1
    BY <1>1, <1>3
  <2>. QED
    BY <1>2, <1>3, <2>1, Zenon
<1>5. ASSUME NEW i \in 1 .. n PROVE new[(p + i) - 1] = t[i]
  <2>1. (p + i) - 1 \in p .. (p + n) - 1 /\ (((p + i) - 1) - p) + 1 = i
    BY <1>1, <1>3
  <2>2. (p + i) - 1 \in Memory
    BY <1>3
  <2>. QED
    BY <1>2, <2>1, <2>2, Zenon
<1>6. ASSUME NEW q \in Memory PROVE new[q] \in Nat
  <2>1. CASE q \in p .. (p + n) - 1
    <3>1. (q - p) + 1 \in 1 .. n
      BY <1>1, <1>3, <2>1
    <3>2. new[q] = t[(q - p) + 1]
      BY <1>2, <2>1, Zenon
    <3>. QED
      BY <1>1, <3>1, <3>2, Zenon
  <2>2. CASE q \notin p .. (p + n) - 1 /\ q = p + n
    BY <1>4, <2>2, MemoryIs
  <2>3. CASE q \notin p .. (p + n) - 1 /\ q # p + n
    <3>1. new[q] = mem[q]
      BY <1>2, <2>3, Zenon
    <3>. QED
      BY <3>1
  <2>. QED
    BY <2>1, <2>2, <2>3
<1>7. new \in [Memory -> Nat]
  BY <1>6 DEF Put
<1>8. \A i \in 0 .. n : p + i > 0 /\ (p # 1 => p + i > 23)
  BY <1>1, MemoryIs
<1>. QED
  BY <1>3, <1>4, <1>5, <1>7, <1>8 DEF n

\* The host's three ways to store a text.  What it writes of the object itself
\* are cells below the characters.
LEMMA Stored ==
  ASSUME KukInv, NEW t \in Texts, NEW p \in Starts, p = 1 => Len(t) < 23,
         NEW new, new = Put(t, p), mem' \in [Memory -> Nat], text' = t,
         \A q \in Memory : q > 23 \/ (p = 1 /\ q > 0) => mem'[q] = new[q]
  PROVE  TextAt(p)'
<1>1. /\ mem \in [Memory -> Nat]
      /\ Len(t) \in Nat
  BY TextIs DEF KukInv
<1>2. /\ p + Len(t) \in Memory /\ new[p + Len(t)] = NUL
      /\ \A i \in 1 .. Len(t) : p + i - 1 \in Memory /\ new[p + i - 1] = t[i]
      /\ \A i \in 0 .. Len(t) : p + i > 0 /\ (p # 1 => p + i > 23)
  BY <1>1, PutIs, Zenon
<1>3. mem'[p + Len(t)] = NUL
  <2>1. Len(t) \in 0 .. Len(t)
    BY <1>1
  <2>. QED
    BY <1>2, <2>1, Zenon
<1>4. ASSUME NEW i \in 1 .. Len(t) PROVE mem'[p + i - 1] = t[i]
  <2>1. i - 1 \in 0 .. Len(t) /\ p + (i - 1) = p + i - 1
    BY <1>1, MemoryIs
  <2>. QED
    BY <1>2, <2>1, Zenon
<1>. QED
  BY <1>2, <1>3, <1>4 DEF TextAt

LEMMA CowStored ==
  ASSUME KukInv, NEW t \in Texts, AssignCow(t) PROVE KukInv'
<1>1. PICK b \in Blocks : mem' = [Put(t, b) EXCEPT ![Str] = b]
  BY DEF AssignCow
<1>2. PICK new : new = Put(t, b)
  OBVIOUS
<1>3. b \in Starts /\ b \in Nat /\ b # 1 /\ Str \in Memory /\ Str = 0
  BY MemoryIs
<1>4. mem \in [Memory -> Nat] /\ new \in [Memory -> Nat]
  BY <1>2, <1>3, PutIs DEF KukInv
<1>5. mem' \in [Memory -> Nat] /\ mem'[Str] = b
      /\ \A q \in Memory : q > 23 => mem'[q] = new[q]
  BY <1>1, <1>2, <1>3, <1>4
<1>6. /\ Library = "cow" /\ kukPc' = "kuk" /\ text' = t /\ entry' = entry
  BY DEF AssignCow, CallsWith
<1>7. TextAt(b)'
  BY <1>2, <1>3, <1>5, <1>6, Stored
<1>8. Characters' = b
  <2>1. Library' = "cow"
    BY <1>6 DEF Library
  <2>2. Characters' = mem'[Str]
    BY <2>1, Zenon DEF Characters, Str
  <2>. QED
    BY <1>5, <2>2
<1>9. TextAt(Characters)'
  BY <1>7, <1>8, Zenon DEF TextAt
<1>. QED
  BY <1>3, <1>5, <1>6, <1>8, <1>9 DEF KukInv

LEMMA ShortStored ==
  ASSUME KukInv, NEW t \in Texts, AssignShort(t) PROVE KukInv'
<1>1. mem' = [Put(t, Str + 1) EXCEPT ![Str] = 2 * Len(t)]
  BY DEF AssignShort
<1>2. PICK new : new = Put(t, 1)
  OBVIOUS
<1>3. 1 \in Starts /\ Str \in Memory /\ Str = 0
  BY MemoryIs
<1>4. Len(t) \in Nat /\ Len(t) < 23 /\ Len(t) <= ShortCap
  BY TextIs, ShortCapAssumption DEF AssignShort
<1>5. mem \in [Memory -> Nat] /\ new \in [Memory -> Nat]
  BY <1>2, <1>3, <1>4, PutIs DEF KukInv
<1>6. mem' = [new EXCEPT ![Str] = 2 * Len(t)]
  BY <1>1, <1>2, <1>3
<1>7. mem' \in [Memory -> Nat] /\ mem'[Str] = 2 * Len(t)
      /\ \A q \in Memory : q > 0 => mem'[q] = new[q]
  BY <1>3, <1>4, <1>5, <1>6
<1>8. /\ Library = "libc++" /\ kukPc' = "kuk" /\ text' = t /\ entry' = entry
  BY DEF AssignShort, CallsWith
<1>9. \A q \in Memory : q > 23 \/ (1 = 1 /\ q > 0) => mem'[q] = new[q]
  BY <1>7, MemoryIs
<1>10. TextAt(1)'
  BY <1>2, <1>3, <1>4, <1>7, <1>8, <1>9, Stored
<1>11. ~Odd(mem'[Str])
  BY <1>4, <1>7 DEF Odd
<1>12. Characters' = 1
  BY <1>3, <1>8, <1>11 DEF Characters, Library
<1>13. TextAt(Characters)'
  BY <1>10, <1>12, Zenon DEF TextAt
<1>. QED
  BY <1>3, <1>7, <1>8, <1>12, <1>13 DEF KukInv

LEMMA LongStored ==
  ASSUME KukInv, NEW t \in Texts, AssignLong(t) PROVE KukInv'
<1>1. PICK b \in Blocks :
        mem' = [Put(t, b) EXCEPT ![Str] = 33, ![Str + 8] = Len(t), ![Str + 16] = b]
  BY DEF AssignLong
<1>2. PICK new : new = Put(t, b)
  OBVIOUS
<1>3. /\ b \in Starts /\ b \in Nat /\ b # 1 /\ Str = 0
      /\ 0 \in Memory /\ 8 \in Memory /\ 16 \in Memory
  BY MemoryIs
<1>4. mem \in [Memory -> Nat] /\ new \in [Memory -> Nat] /\ Len(t) \in Nat
  BY <1>2, <1>3, PutIs, TextIs DEF KukInv
<1>5. mem' = [new EXCEPT ![0] = 33, ![8] = Len(t), ![16] = b]
  BY <1>1, <1>2, <1>3
<1>6. mem' \in [Memory -> Nat] /\ mem'[Str] = 33 /\ mem'[Str + 16] = b
      /\ \A q \in Memory : q > 23 => mem'[q] = new[q]
  <2>1. mem' \in [Memory -> Nat]
    BY <1>3, <1>4, <1>5
  <2>2. mem'[0] = 33 /\ mem'[16] = b
    BY <1>3, <1>4, <1>5
  <2>3. ASSUME NEW q \in Memory, q > 23 PROVE mem'[q] = new[q]
    BY <1>4, <1>5, <2>3, SMTT(30)
  <2>. QED
    BY <1>3, <2>1, <2>2, <2>3
<1>7. /\ Library = "libc++" /\ kukPc' = "kuk" /\ text' = t /\ entry' = entry
  BY DEF AssignLong, CallsWith
<1>8. TextAt(b)'
  BY <1>2, <1>3, <1>6, <1>7, Stored
<1>9. Odd(mem'[Str])
  BY <1>6 DEF Odd
<1>10. Characters' = b
  BY <1>6, <1>7, <1>9 DEF Characters, Library
<1>11. TextAt(Characters)'
  BY <1>8, <1>10, Zenon DEF TextAt
<1>. QED
  BY <1>3, <1>6, <1>7, <1>10, <1>11 DEF KukInv

LEMMA KukReads == ASSUME KukInv, Kuk0 \/ Kuk1 \/ Kuk2 PROVE KukInv'
<1>1. /\ kukPc = "kuk" /\ kukPc' = "push" /\ ptr' = Characters
      /\ UNCHANGED <<entry, text, mem>>
  <2>1. /\ kukPc = "kuk" /\ kukPc' = "push" /\ UNCHANGED <<entry, text, mem>>
    BY DEF Kuk0, Kuk1, Kuk2, Kuk
  <2>2. CASE Kuk0 \/ Kuk1
    <3>1. Library = "cow" /\ ptr' = mem[Str]
      BY <2>2 DEF Kuk0, Kuk1, Kuk, Library
    <3>. QED
      BY <2>1, <3>1, Zenon DEF Characters
  <2>3. CASE Kuk2
    <3>1. Library = "libc++" /\ ptr' = IF Odd(mem[Str]) THEN mem[Str + 16] ELSE Str + 1
      BY <2>3 DEF Kuk2, Kuk, Library
    <3>2. Library # "cow"
      BY <3>1
    <3>3. ptr' = Characters
      BY <3>1, <3>2, Zenon DEF Characters
    <3>. QED
      BY <2>1, <3>3
  <2>. QED
    BY <2>2, <2>3
<1>2. text \in Texts /\ Characters \in Starts /\ TextAt(Characters)
  BY <1>1 DEF KukInv
<1>3. ptr' \in Starts /\ TextAt(ptr)'
  BY <1>1, <1>2, Zenon DEF TextAt, Starts
<1>. QED
  BY <1>1, <1>2, <1>3 DEF KukInv, Starts

LEMMA KukStep == ASSUME KukInv, [KukNext]_kukVars PROVE KukInv'
<1>1. ASSUME NEW t \in Texts, AssignCow(t) \/ AssignShort(t) \/ AssignLong(t) PROVE KukInv'
  BY <1>1, CowStored, ShortStored, LongStored
<1>2. CASE Kuk0 \/ Kuk1 \/ Kuk2
  BY <1>2, KukReads
<1>3. CASE QueuePush
  BY <1>3 DEF QueuePush, KukInv
<1>4. CASE UNCHANGED kukVars
  BY <1>4 DEF kukVars, KukInv, Characters, Library, TextAt, Starts
<1>. QED
  BY <1>1, <1>2, <1>3, <1>4 DEF KukNext

LEMMA KukStart == KukInit => KukInv
  BY MemoryIs DEF KukInit, KukInv

\* strnlen looks at the memory, C at the text, and they find the same length.
Nuls(t)    == {i - 1 : i \in {j \in DOMAIN t : t[j] = NUL}}
Lengths(t) == {MaxText, Len(t)} \cup Nuls(t)
Ends(p)    == {MaxText} \cup {n \in 0 .. MaxText - 1 : p + n \in Memory /\ mem[p + n] = NUL}

LEMMA LengthFound ==
  ASSUME text \in Texts, NEW p \in Starts, TextAt(p), NEW n, n = Min(Lengths(text))
  PROVE  Strnlen(p, MaxText) = n /\ n \in Nat /\ n <= Len(text)
<1>1. /\ MaxText \in Nat /\ p \in Nat /\ text \in Seq(0 .. 255) /\ Len(text) \in Nat
      /\ NUL = 0
  BY MaxTextAssumption, MemoryIs, TextIs
<1>2. /\ p + Len(text) \in Memory /\ mem[p + Len(text)] = NUL
      /\ \A i \in 1 .. Len(text) : mem[p + i - 1] = text[i]
  BY DEF TextAt
<1>3. Ends(p) \subseteq Nat /\ MaxText \in Ends(p)
  BY <1>1 DEF Ends
<1>4. Lengths(text) \subseteq Nat /\ MaxText \in Lengths(text) /\ Len(text) \in Lengths(text)
  BY <1>1 DEF Lengths, Nuls
<1>5. PICK k : k = Min(Ends(p))
  OBVIOUS
<1>6. k \in Ends(p) /\ k \in Nat /\ \A m \in Ends(p) : k <= m
  BY <1>3, <1>5, MinIsIn, MinIsLeast
<1>7. n \in Lengths(text) /\ n \in Nat /\ \A m \in Lengths(text) : n <= m
  BY <1>4, MinIsIn, MinIsLeast
<1>8. \A m \in Nat : m < Len(text) => p + m \in Memory /\ mem[p + m] = text[m + 1]
  <2>. SUFFICES ASSUME NEW m \in Nat, m < Len(text)
                PROVE  p + m \in Memory /\ mem[p + m] = text[m + 1]
    OBVIOUS
  <2>1. m + 1 \in 1 .. Len(text) /\ (p + (m + 1)) - 1 = p + m
    BY <1>1
  <2>2. p + m \in Memory
    BY <1>1, <1>2, MemoryIs
  <2>. QED
    BY <1>2, <2>1, <2>2
<1>9. k <= n
  <2>1. CASE n = MaxText
    BY <1>3, <1>6, <2>1
  <2>2. CASE n # MaxText
    <3>1. n < MaxText /\ n <= Len(text)
      BY <1>1, <1>4, <1>7, <2>2
    <3>2. p + n \in Memory /\ mem[p + n] = NUL
      <4>1. CASE n = Len(text)
        BY <1>2, <4>1
      <4>2. CASE n # Len(text)
        <5>1. PICK i \in DOMAIN text : n = i - 1 /\ text[i] = NUL
          BY <1>7, <2>2, <4>2 DEF Lengths, Nuls
        <5>2. n + 1 = i /\ n < Len(text)
          BY <1>1, <3>1, <4>2, <5>1, <1>7
        <5>. QED
          BY <1>7, <1>8, <5>1, <5>2
      <4>. QED
        BY <4>1, <4>2
    <3>3. n \in Ends(p)
      BY <1>1, <1>7, <3>1, <3>2 DEF Ends
    <3>. QED
      BY <1>6, <3>3
  <2>. QED
    BY <2>1, <2>2
<1>10. n <= k
  <2>1. CASE k = MaxText \/ k >= Len(text)
    BY <1>1, <1>4, <1>6, <1>7, <2>1
  <2>2. CASE k # MaxText /\ k < Len(text)
    <3>1. mem[p + k] = NUL
      BY <1>6, <2>2 DEF Ends
    <3>2. k + 1 \in DOMAIN text /\ text[k + 1] = NUL /\ (k + 1) - 1 = k
      BY <1>1, <1>6, <1>8, <2>2, <3>1
    <3>3. k \in Lengths(text)
      BY <3>2, Zenon DEF Lengths, Nuls
    <3>. QED
      BY <1>7, <3>3
  <2>. QED
    BY <1>1, <1>6, <2>1, <2>2
<1>11. k = n
  BY <1>6, <1>7, <1>9, <1>10
<1>12. Strnlen(p, MaxText) = k
  BY <1>5 DEF Strnlen, Ends
<1>. QED
  BY <1>4, <1>7, <1>11, <1>12

\* What queue_push copies.
LEMMA TextCopied ==
  ASSUME KukInv, QueuePush, queued' # <<>>
  PROVE  CString(text) # <<>> /\ queued' = Append(CString(text), NUL)
<1>1. text \in Texts /\ ptr \in Starts /\ TextAt(ptr)
  BY DEF KukInv, QueuePush
<1>2. mem[ptr] # NUL /\ queued' = Copy(Strnlen(ptr, MaxText))
  BY DEF QueuePush
<1>3. PICK n : n = Min(Lengths(text))
  OBVIOUS
<1>4. n \in Nat /\ n <= Len(text) /\ queued' = Copy(n)
  BY <1>1, <1>2, <1>3, LengthFound
<1>5. /\ text \in Seq(0 .. 255) /\ Len(text) \in Nat /\ ptr \in Nat
      /\ \A i \in 1 .. Len(text) : mem[ptr + i - 1] = text[i]
      /\ mem[ptr + Len(text)] = NUL
  BY <1>1, TextIs, MemoryIs DEF TextAt
<1>6. CString(text) = SubSeq(text, 1, n)
  BY <1>3 DEF CString, Lengths, Nuls
<1>7. PICK s : s = SubSeq(text, 1, n)
  OBVIOUS
<1>8. s = [i \in 1 .. n |-> text[i]]
  BY <1>4, <1>5, <1>7
<1>9. n # 0
  <2>. SUFFICES ASSUME n = 0 PROVE FALSE
    OBVIOUS
  <2>1. n \in Lengths(text)
    <3>1. Lengths(text) \subseteq Nat /\ Lengths(text) # {}
      BY <1>5, MaxTextAssumption DEF Lengths, Nuls
    <3>. QED
      BY <1>3, <3>1, MinIsIn
  <2>2. CASE Len(text) = 0
    BY <1>2, <1>5, <2>2
  <2>3. CASE Len(text) # 0
    <3>1. PICK i \in DOMAIN text : 0 = i - 1 /\ text[i] = NUL
      BY <2>1, <2>3, MaxTextAssumption DEF Lengths, Nuls
    <3>2. 1 \in 1 .. Len(text) /\ (ptr + 1) - 1 = ptr /\ i = 1
      BY <1>5, <2>3, <3>1
    <3>. QED
      BY <1>2, <1>5, <3>1, <3>2
  <2>. QED
    BY <2>2, <2>3
<1>10. queued' = [i \in 1 .. n + 1 |-> IF i = n + 1 THEN NUL ELSE mem[ptr + i - 1]]
  BY <1>4 DEF Copy
<1>11. Append(s, NUL) = [i \in 1 .. n + 1 |-> IF i = n + 1 THEN NUL ELSE s[i]]
  <2>1. Append(s, NUL) = [i \in 1 .. n + 1 |-> IF i <= n THEN s[i] ELSE NUL]
    BY <1>4, <1>8
  <2>. QED
    BY <1>4, <2>1
<1>12. \A i \in 1 .. n + 1 : i # n + 1 => mem[ptr + i - 1] = s[i]
  BY <1>4, <1>5, <1>8
<1>13. queued' = Append(s, NUL)
  BY <1>10, <1>11, <1>12
<1>14. s # <<>>
  <2>1. DOMAIN s = 1 .. n /\ 1 \in 1 .. n
    BY <1>4, <1>8, <1>9
  <2>2. 1 \notin DOMAIN <<>>
    OBVIOUS
  <2>. QED
    BY <2>1, <2>2
<1>. QED
  BY <1>6, <1>7, <1>13, <1>14

\* Whatever the host has spoken before, in whichever library's string, and
\* wherever its memory was: the text of a call is what is queued.
THEOREM TextIsFound == KukSpec => TextFound
<1>1. ASSUME KukInv, [KukNext]_kukVars
      PROVE  [kukPc = "push" /\ queued' # <<>> =>
                CString(text) # <<>> /\ queued' = Append(CString(text), NUL)]_kukVars
  <2>. SUFFICES ASSUME KukNext, kukPc = "push", queued' # <<>>
                PROVE  CString(text) # <<>> /\ queued' = Append(CString(text), NUL)
    BY <1>1
  <2>1. QueuePush
    BY DEF KukNext, AssignCow, AssignShort, AssignLong, CallsWith, Kuk0, Kuk1, Kuk2, Kuk
  <2>. QED
    BY <1>1, <2>1, TextCopied
<1>. QED
  BY <1>1, KukStart, KukStep, PTL DEF KukSpec, TextFound
=============================================================================
