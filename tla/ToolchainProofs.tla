---------------------------- MODULE ToolchainProofs ----------------------------
(***************************************************************************)
(* The translation engine and the driver, for every guest program and      *)
(* every layout of the memories: the core that executes a translation      *)
(* computes what the guest program does, and the driver's own programs     *)
(* leave the same results, at the same cost, however they are run.         *)
(***************************************************************************)
EXTENDS GuestCode, Driver, MachineProofs

--------------------------------------------------------------------------------
\* Joined sequences

\* Concatenation and length, named so that a proof can do without their definitions.
Cat(a, b) == a \o b
Size(s) == Len(s)

\* t[k] is the first k sequences of ss, one after the other.
Joins(t, ss, n, S) ==
    /\ t \in [0 .. n -> Seq(S)] /\ t[0] = << >>
    /\ \A k \in 1 .. n : ss[k] \in Seq(S) /\ t[k] = Cat(t[k - 1], ss[k])

\* The first k of them.
Leading(ss, k) == [j \in 1 .. k |-> ss[j]]

\* There is such a t.
LEMMA JoinsExist ==
    ASSUME NEW S, NEW n \in Nat, NEW ss, \A k \in 1 .. n : ss[k] \in Seq(S)
    PROVE  \E t : Joins(t, ss, n, S)
<1> DEFINE B == {k \in Nat : k <= n /\ ~ \E t : Joins(t, ss, k, S)}
<1>1. 0 \notin B
  <2>1. Joins([j \in 0 .. 0 |-> << >>], ss, 0, S)
    BY EmptySeq DEF Joins
  <2> QED
    BY <2>1
<1>2. ASSUME NEW m \in Nat, m \notin B PROVE m + 1 \notin B
  <2> SUFFICES ASSUME m + 1 <= n PROVE \E t : Joins(t, ss, m + 1, S)
    OBVIOUS
  <2>1. PICK s : Joins(s, ss, m, S)
    BY <1>2
  <2> DEFINE t == [j \in 0 .. m + 1 |-> IF j = m + 1 THEN Cat(s[m], ss[m + 1]) ELSE s[j]]
  <2>2. s \in [0 .. m -> Seq(S)] /\ s[m] \in Seq(S) /\ ss[m + 1] \in Seq(S)
    BY <2>1 DEF Joins
  <2>3. Cat(s[m], ss[m + 1]) \in Seq(S)
    BY <2>2, ConcatProperties DEF Cat
  <2>4. t \in [0 .. m + 1 -> Seq(S)] /\ t[0] = << >>
    BY <2>1, <2>2, <2>3 DEF Joins
  <2>5. ASSUME NEW k \in 1 .. m + 1 PROVE t[k] = Cat(t[k - 1], ss[k])
    <3>1. t[k - 1] = s[k - 1] /\ (k # m + 1 => t[k] = s[k] /\ k \in 1 .. m)
      OBVIOUS
    <3>2. \A j \in 1 .. m : s[j] = Cat(s[j - 1], ss[j])
      BY <2>1 DEF Joins
    <3> HIDE DEF t
    <3>3. t[m + 1] = Cat(s[m], ss[m + 1]) /\ (m + 1) - 1 = m
      BY DEF t
    <3> QED
      BY <3>1, <3>2, <3>3
  <2>6. \A k \in 1 .. m + 1 : ss[k] \in Seq(S)
    OBVIOUS
  <2> HIDE DEF t
  <2> QED
    BY <2>4, <2>5, <2>6 DEF Joins
<1>3. B = {}
  <2>1. B \subseteq Nat /\ \A m \in Nat : m \notin B => m + 1 \notin B
    BY <1>2
  <2> HIDE DEF B
  <2> QED
    BY <1>1, <2>1, NoException
<1>4. n \notin B
  BY <1>3
<1> QED
  BY <1>4

\* FlattenSeq of the first k sequences is the k-th join.
LEMMA FlattenJoins ==
    ASSUME NEW S, NEW n \in Nat, NEW ss, NEW t, Joins(t, ss, n, S),
           NEW k \in 0 .. n
    PROVE  FlattenSeq(Leading(ss, k)) = t[k]
<1> DEFINE u == [j \in 1 .. k |-> ss[j]]
<1> SUFFICES FlattenSeq(u) = t[k]
  BY DEF Leading
<1>1. u \in Seq(Seq(S)) /\ Len(u) = k
  <2>1. \A j \in 1 .. k : ss[j] \in Seq(S)
    BY DEF Joins
  <2> QED
    BY <2>1
<1>2. CASE k = 0
  <2>1. u = << >>
    BY <1>1, <1>2
  <2> QED
    BY <1>1, <1>2, <2>1 DEF FlattenSeq, Joins
<1>3. CASE k # 0
  <2> DEFINE R(f) == f = [i \in 1 .. k |-> IF i = 1 THEN u[i] ELSE Cat(f[i - 1], u[i])]
             f0 == [i \in 1 .. k |-> t[i]]
             g == CHOOSE f : R(f)
  <2>1. t[1] = ss[1]
    <3>1. t[1] = Cat(<< >>, ss[1]) /\ ss[1] \in Seq(S)
      BY <1>3 DEF Joins
    <3> QED
      BY <3>1, ConcatEmptySeq DEF Cat
  <2>2. R(f0)
    <3>1. ASSUME NEW i \in 1 .. k
          PROVE  f0[i] = IF i = 1 THEN u[i] ELSE Cat(f0[i - 1], u[i])
      <4>1. u[i] = ss[i] /\ i \in 1 .. n /\ f0[i] = t[i]
        OBVIOUS
      <4>2. i # 1 => f0[i - 1] = t[i - 1]
        OBVIOUS
      <4>3. t[i] = Cat(t[i - 1], ss[i])
        BY <4>1 DEF Joins
      <4> HIDE DEF f0
      <4> QED
        BY <2>1, <4>1, <4>2, <4>3
    <3> QED
      BY <3>1
  <2>3. R(g)
    <3> HIDE DEF R, f0
    <3> QED BY <2>2
  <2>4. FlattenSeq(u) = g[k]
    BY <1>1, <1>3 DEF FlattenSeq, Cat
  <2> HIDE DEF g
  <2> DEFINE B == {j \in Nat : j + 1 \in 1 .. k /\ g[j + 1] # t[j + 1]}
  <2>5. 0 \notin B
    BY <1>3, <2>1, <2>3
  <2>6. ASSUME NEW m \in Nat, m \notin B PROVE m + 1 \notin B
    <3> SUFFICES ASSUME m + 2 \in 1 .. k PROVE g[m + 2] = t[m + 2]
      OBVIOUS
    <3>1. g[m + 1] = t[m + 1]
      BY <2>6
    <3>2. g[m + 2] = Cat(g[m + 1], ss[m + 2])
      BY <2>3
    <3>3. t[m + 2] = Cat(t[m + 1], ss[m + 2])
      BY DEF Joins
    <3> QED
      BY <3>1, <3>2, <3>3
  <2>7. B = {}
    <3>1. B \subseteq Nat /\ \A m \in Nat : m \notin B => m + 1 \notin B
      BY <2>6
    <3> HIDE DEF B
    <3> QED
      BY <2>5, <3>1, NoException
  <2>8. k - 1 \in Nat /\ (k - 1) + 1 = k
    BY <1>3
  <2>9. g[k] = t[k]
    <3>1. k - 1 \notin B
      BY <2>7
    <3> QED
      BY <1>3, <2>8, <3>1
  <2> QED
    BY <2>4, <2>9
<1> QED
  BY <1>2, <1>3

\* The joins grow.
LEMMA JoinsGrow ==
    ASSUME NEW S, NEW n \in Nat, NEW ss, NEW t, Joins(t, ss, n, S)
    PROVE  /\ \A k \in 0 .. n : Size(t[k]) \in Nat /\ Size(t[k]) <= Size(t[n])
           /\ \A k \in 1 .. n : Size(t[k]) = Size(t[k - 1]) + Size(ss[k])
<1>1. \A k \in 0 .. n : Size(t[k]) \in Nat
  BY LenProperties DEF Joins, Size
<1>2. ASSUME NEW k \in 1 .. n PROVE Size(t[k]) = Size(t[k - 1]) + Size(ss[k]) /\ Size(ss[k]) \in Nat
  <2>1. t[k - 1] \in Seq(S) /\ ss[k] \in Seq(S) /\ t[k] = Cat(t[k - 1], ss[k])
    <3>1. k - 1 \in 0 .. n
      OBVIOUS
    <3> QED
      BY <3>1 DEF Joins
  <2> QED
    BY <2>1, ConcatProperties, LenProperties DEF Cat, Size
<1> DEFINE B == {d \in Nat : d <= n /\ ~(Size(t[n - d]) <= Size(t[n]))}
<1>3. 0 \notin B
  BY <1>1
<1>4. ASSUME NEW m \in Nat, m \notin B PROVE m + 1 \notin B
  <2> SUFFICES ASSUME m + 1 <= n PROVE Size(t[n - (m + 1)]) <= Size(t[n])
    OBVIOUS
  <2>1. Size(t[n - m]) <= Size(t[n])
    BY <1>4
  <2> DEFINE k == n - m
  <2>2. k \in 1 .. n /\ n - (m + 1) = k - 1 /\ k - 1 \in 0 .. n /\ n \in 0 .. n
    OBVIOUS
  <2>3. Size(t[k]) <= Size(t[n])
    BY <2>1
  <2> HIDE DEF k
  <2>4. /\ Size(t[k]) = Size(t[k - 1]) + Size(ss[k]) /\ Size(ss[k]) \in Nat
        /\ Size(t[k - 1]) \in Nat /\ Size(t[n]) \in Nat
    BY <1>1, <1>2, <2>2
  <2>5. Size(t[k - 1]) <= Size(t[n])
    BY <2>3, <2>4
  <2> QED
    BY <2>2, <2>5
<1>5. B = {}
  <2>1. B \subseteq Nat /\ \A m \in Nat : m \notin B => m + 1 \notin B
    BY <1>4
  <2> HIDE DEF B
  <2> QED
    BY <1>3, <2>1, NoException
<1>6. ASSUME NEW k \in 0 .. n PROVE Size(t[k]) <= Size(t[n])
  <2>1. n - k \in Nat /\ n - k <= n /\ n - (n - k) = k
    OBVIOUS
  <2> QED
    BY <1>5, <2>1
<1> QED
  BY <1>1, <1>2, <1>6

--------------------------------------------------------------------------------
\* What the engine emits

\* The words of a program: the fields are not bounded yet.
Emitted == [op : Opcode, rd : Nat, ra : Nat, rb : Nat, imm : Int]

\* The encoders, with registers and an immediate the 16-bit field holds.
LEMMA FieldTypes ==
    /\ \A r \in GuestReg : Folded(r) \in Gpr /\ r % NumVr \in Vr
    /\ Gpr \subseteq Nat /\ Vr \subseteq Nat
    /\ \A n \in Int : /\ imm16(n) \in Word /\ simm16(n) \in Word
                      /\ n % TargetCount \in Word /\ branch_offset(n) \in Int
<1>1. \A r \in GuestReg : Folded(r) \in Gpr /\ r % NumVr \in Vr
  BY IsaAssumption DEF GuestReg, Folded, Gpr, Vr
<1>2. Gpr \subseteq Nat /\ Vr \subseteq Nat
  BY DEF Gpr, Vr
<1>3. \A n \in Int : imm16(n) \in 0 .. ImmCount - 1 /\ n % TargetCount \in Word
  BY IsaAssumption, DecoderAssumption DEF imm16, Word
<1>4. 0 .. ImmCount - 1 \subseteq Word
  BY IsaAssumption, DecoderAssumption DEF Word
<1>5. \A x \in 0 .. ImmCount - 1 : Minus(x, ImmCount) \in Word
  BY IsaAssumption, DecoderAssumption DEF Minus, Word
<1>6. \A n \in Int : simm16(n) \in Word
  BY <1>3, <1>4, <1>5 DEF simm16
<1>7. \A n \in Int : branch_offset(n) \in Int
  BY DEF branch_offset, Quarter
<1> QED
  BY <1>1, <1>2, <1>3, <1>4, <1>6, <1>7

\* One word becomes one or two.
LEMMA LoweringType ==
    ASSUME NEW i, NEW g \in GuestInstruction
    PROVE  translate_one(i, g) \in Seq(Emitted) /\ Len(translate_one(i, g)) \in {1, 2}
<1>0. /\ g.rd \in GuestReg /\ g.rs1 \in GuestReg /\ g.rs2 \in GuestReg /\ g.imm \in Int
  BY DEF GuestInstruction
<1> DEFINE rd == Folded(g.rd)
           rs1 == Folded(g.rs1)
           rs2 == Folded(g.rs2)
<1>1. /\ rd \in Nat /\ rs1 \in Nat /\ rs2 \in Nat /\ Temp \in Nat
      /\ g.rd % NumVr \in Nat /\ g.rs1 % NumVr \in Nat /\ g.rs2 % NumVr \in Nat
  <2>1. /\ rd \in Gpr /\ rs1 \in Gpr /\ rs2 \in Gpr
        /\ g.rd % NumVr \in Vr /\ g.rs1 % NumVr \in Vr /\ g.rs2 % NumVr \in Vr
    BY <1>0, FieldTypes
  <2>2. Gpr \subseteq Nat /\ Vr \subseteq Nat
    BY FieldTypes
  <2>3. Temp \in Nat
    BY IsaAssumption DEF Temp
  <2> HIDE DEF rd, rs1, rs2
  <2> QED
    BY <2>1, <2>2, <2>3, Zenon
<1>2. \A n \in Int : imm16(n) \in Int /\ simm16(n) \in Int /\ n % TargetCount \in Int
                     /\ branch_offset(n) \in Int
  BY FieldTypes, IsaAssumption DEF Word
<1>3. g.imm \in Int /\ 4 * g.imm \in Int /\ 8 * g.imm \in Int
  BY <1>0
<1> HIDE DEF rd, rs1, rs2
<1>4. \A op \in Opcode, a, b, c \in Nat, n \in Int : rtype(op, a, b, c, n) \in Emitted
  BY DEF rtype, Emitted
<1>11. {"NOP", "ADD", "SUB", "MUL", "MOVI", "LOAD", "STORE", "JMP", "BEQ", "BNE", "VEC_ADD"}
          \subseteq Opcode /\ 0 \in Nat /\ 0 \in Int
  BY DEF Opcode, Dispatched, ScalarOps, VectorOps, BranchOps
<1>5. \A x \in Emitted : << x >> \in Seq(Emitted) /\ Len(<< x >>) = 1 /\ << x >> # << >>
  OBVIOUS
<1>6. \A x, y \in Emitted :
        << x, y >> \in Seq(Emitted) /\ Len(<< x, y >>) = 2 /\ << x, y >> # << >>
  OBVIOUS
<1> DEFINE Good(s) == s = << >> \/ (\E x \in Emitted : s = << x >>)
                       \/ (\E x, y \in Emitted : s = << x, y >>)
<1>7. Good(translate_one_riscv(g))
  <2>1. /\ add(rd, rs1, rs2) \in Emitted /\ sub(rd, rs1, rs2) \in Emitted
        /\ mul(rd, rs1, rs2) \in Emitted /\ movi(Temp, g.imm) \in Emitted
        /\ add(rd, rs1, Temp) \in Emitted /\ load(rd, rs1, g.imm) \in Emitted
        /\ store(rs2, rs1, g.imm) \in Emitted /\ jmp(g.imm) \in Emitted
        /\ beq(rs1, rs2, branch_offset(g.imm)) \in Emitted
        /\ bne(rs1, rs2, branch_offset(g.imm)) \in Emitted
    BY <1>1, <1>2, <1>3, <1>4, <1>11 DEF add, sub, mul, movi, load, store, jmp, beq, bne
  <2> QED
    BY <2>1 DEF translate_one_riscv, rd, rs1, rs2
<1>8. Good(translate_one_arm64(g))
  <2>1. /\ add(rd, rs1, rs2) \in Emitted /\ sub(rd, rs1, rs2) \in Emitted
        /\ movi(rd, g.imm) \in Emitted /\ jmp(4 * g.imm) \in Emitted
        /\ load(rd, rs1, 8 * g.imm) \in Emitted
        /\ vec_add(g.rd % NumVr, g.rs1 % NumVr, g.rs2 % NumVr) \in Emitted
    BY <1>1, <1>2, <1>3, <1>4, <1>11 DEF add, sub, movi, load, jmp, vec_add
  <2> QED
    BY <2>1 DEF translate_one_arm64, rd, rs1, rs2
<1>9. nop \in Emitted
  BY <1>11 DEF nop, Emitted
<1>10. \E s : Good(s) /\ translate_one(i, g) = IF s = << >> THEN << nop >> ELSE s
  BY <1>7, <1>8 DEF translate_one
<1> QED
  BY <1>5, <1>6, <1>9, <1>10

\* Where the translation of an instruction begins: the first at 0, the next one behind
\* it, all below the end.
LEMMA Starts ==
    ASSUME isa \in {"RISCV64", "ARM64"}, code \in Seq(GuestInstruction)
    PROVE  /\ Start(1) = 0 /\ Len(translate_bytes(isa, code)) \in Nat
           /\ \A k \in 1 .. Len(code) :
                 /\ Start(k) \in Nat
                 /\ Start(k + 1) = Start(k) + 4 * Len(translate_one(isa, code[k]))
                 /\ Start(k + 1) <= 4 * Len(translate_bytes(isa, code))
<1> DEFINE n == Len(code)
           ss == [k \in 1 .. n |-> translate_one(isa, code[k])]
<1>1. n \in Nat /\ DOMAIN code = 1 .. n /\ \A k \in 1 .. n : code[k] \in GuestInstruction
  BY LenProperties, ElementOfSeq
<1>2. \A k \in 1 .. n : ss[k] \in Seq(Emitted)
  BY <1>1, LoweringType
<1>0. n \in Nat
  BY <1>1
<1> HIDE DEF n
<1>3. PICK t : Joins(t, ss, n, Emitted)
  BY <1>1, <1>2, JoinsExist
<1>4. ASSUME NEW k \in 0 .. n PROVE translate_bytes(isa, SubSeq(code, 1, k)) = t[k]
  <2> DEFINE s == SubSeq(code, 1, k)
             u == [j \in 1 .. k |-> ss[j]]
             v == [j \in DOMAIN s |-> translate_one(isa, s[j])]
  <2>1. \A j \in 1 .. k : code[j] \in GuestInstruction
    BY <1>1
  <2>2. s \in Seq(GuestInstruction) /\ Len(s) = k /\ \A j \in 1 .. k : s[j] = code[j]
    <3>1. /\ s \in Seq(GuestInstruction) /\ Len(s) = (IF 1 <= k THEN k - 1 + 1 ELSE 0)
          /\ \A j \in 1 .. k - 1 + 1 : s[j] = code[1 + j - 1]
      BY <2>1, SubSeqProperties
    <3> HIDE DEF s
    <3> QED
      BY <1>1, <3>1
  <2> HIDE DEF s
  <2>3. DOMAIN s = 1 .. k
    BY <2>2, LenProperties
  <2>4. v = u
    BY <1>1, <2>2, <2>3
  <2>5. translate_bytes(isa, s) = FlattenSeq(v)
    BY DEF translate_bytes
  <2> HIDE DEF ss, v
  <2>6. FlattenSeq(Leading(ss, k)) = t[k]
    BY <1>0, <1>3, FlattenJoins
  <2> QED
    BY <2>4, <2>5, <2>6 DEF s, Leading
<1>5. translate_bytes(isa, code) = t[n]
  <2>1. SubSeq(code, 1, n) = code
    BY SubSeqFull DEF n
  <2>2. n \in 0 .. n
    BY <1>0
  <2>3. translate_bytes(isa, SubSeq(code, 1, n)) = t[n]
    BY <1>4, <2>2
  <2> QED
    BY <2>1, <2>3
<1>6. \A k \in 1 .. n + 1 : Start(k) = 4 * Size(t[k - 1])
  BY <1>1, <1>4 DEF Start, Size
<1> HIDE DEF ss
<1>7. /\ \A k \in 0 .. n : Size(t[k]) \in Nat /\ Size(t[k]) <= Size(t[n])
      /\ \A k \in 1 .. n : Size(t[k]) = Size(t[k - 1]) + Size(ss[k])
  BY <1>0, <1>3, JoinsGrow
<1>8. Start(1) = 0
  <2>1. t[0] = << >>
    BY <1>3 DEF Joins
  <2> QED
    BY <1>1, <1>6, <2>1 DEF Size
<1>9. ASSUME NEW k \in 1 .. n
      PROVE  /\ Start(k) \in Nat
             /\ Start(k + 1) = Start(k) + 4 * Len(translate_one(isa, code[k]))
             /\ Start(k + 1) <= 4 * Len(translate_bytes(isa, code))
  <2>1. Start(k) = 4 * Size(t[k - 1]) /\ Start(k + 1) = 4 * Size(t[k])
    <3>1. k \in 1 .. n + 1 /\ k + 1 \in 1 .. n + 1 /\ (k + 1) - 1 = k
      BY <1>1
    <3> QED
      BY <1>6, <3>1
  <2>2. /\ Size(t[k - 1]) \in Nat /\ Size(t[k]) \in Nat /\ Size(t[n]) \in Nat
        /\ Size(t[k]) <= Size(t[n]) /\ Size(t[k]) = Size(t[k - 1]) + Size(ss[k])
    <3>1. k - 1 \in 0 .. n /\ k \in 0 .. n /\ n \in 0 .. n
      BY <1>0
    <3> QED
      BY <1>7, <3>1
  <2>3. ss[k] = translate_one(isa, code[k])
    BY DEF ss
  <2>4. Size(ss[k]) \in {1, 2}
    BY <1>1, <2>3, LoweringType DEF Size
  <2>5. /\ Start(k + 1) = Start(k) + 4 * Size(ss[k]) /\ Start(k) \in Nat
        /\ Start(k + 1) <= 4 * Size(t[n])
    BY <2>1, <2>2, <2>4
  <2> QED
    BY <1>5, <2>3, <2>5 DEF Size
<1>10. Len(translate_bytes(isa, code)) \in Nat
  <2>1. n \in 0 .. n
    BY <1>0
  <2> QED
    BY <1>5, <1>7, <2>1 DEF Size
<1> QED
  BY <1>8, <1>9, <1>10 DEF n

--------------------------------------------------------------------------------
\* The core executing a translation

\* Ran is what it says for the one or two instructions of a translation.
LEMMA RanOne ==
    ASSUME NEW c, NEW a
    PROVE  Ran(c, << a >>) = Executed(c, a)
<1> DEFINE s == << a >>
           R(f) == f = [k \in 0 .. Len(s) |-> IF k = 0 THEN c ELSE Executed(f[k - 1], s[k])]
           f0 == [k \in 0 .. 1 |-> IF k = 0 THEN c ELSE Executed(c, a)]
           g == CHOOSE f : R(f)
<1>0. Len(s) = 1 /\ s[1] = a
  OBVIOUS
<1>1. Ran(c, s) = g[Len(s)]
  BY DEF Ran
<1> HIDE DEF s
<1>2. R(f0)
  BY <1>0
<1>3. R(g)
  <2> HIDE DEF R, f0
  <2> QED BY <1>2
<1> HIDE DEF g
<1>4. g[0] = c /\ g[1] = Executed(g[0], a)
  BY <1>0, <1>3
<1> QED
  BY <1>0, <1>1, <1>4 DEF s

LEMMA RanTwo ==
    ASSUME NEW c, NEW a, NEW b
    PROVE  Ran(c, << a, b >>) = Executed(Executed(c, a), b)
<1> DEFINE s == << a, b >>
           R(f) == f = [k \in 0 .. Len(s) |-> IF k = 0 THEN c ELSE Executed(f[k - 1], s[k])]
           f0 == [k \in 0 .. 2 |-> IF k = 0 THEN c ELSE
                                   IF k = 1 THEN Executed(c, a) ELSE Executed(Executed(c, a), b)]
           g == CHOOSE f : R(f)
<1>0. Len(s) = 2 /\ s[1] = a /\ s[2] = b
  OBVIOUS
<1>1. Ran(c, s) = g[Len(s)]
  BY DEF Ran
<1> HIDE DEF s
<1>2. R(f0)
  <2>1. \A k \in 0 .. 2 : f0[k] = IF k = 0 THEN c ELSE Executed(f0[k - 1], s[k])
    BY <1>0
  <2> QED
    BY <1>0, <2>1
<1>3. R(g)
  <2> HIDE DEF R, f0
  <2> QED BY <1>2
<1> HIDE DEF g
<1>4. g[0] = c /\ g[1] = Executed(g[0], a) /\ g[2] = Executed(g[1], b)
  BY <1>0, <1>3
<1> QED
  BY <1>0, <1>1, <1>4 DEF s

\* The core behind one instruction of straight-line code: a core without translation
\* at the next word.
Passed(e, c) == e \in CoreState /\ ~e.mmu /\ e.pc = Plus(c.pc, 4)

\* The fetch alone.
LEMMA FetchedCore ==
    ASSUME NEW c \in CoreState, ~c.mmu
    PROVE  LET d == [c EXCEPT !.pc = Plus(c.pc, 4)]
           IN  /\ Passed(d, c) /\ d.gpr = c.gpr /\ d.mem = c.mem
               /\ \A r : read_gpr(d, r) = read_gpr(c, r)
<1>1. Plus(c.pc, 4) \in Word
  BY IsaAssumption DEF CoreState, Plus, Word
<1> QED
  BY <1>1 DEF Passed, CoreState, read_gpr

\* The register operations.
LEMMA ExecutedRegister ==
    ASSUME NEW c \in CoreState, ~c.mmu, NEW i, WellFormed(i), i.op \in {"ADD", "SUB", "MUL", "MOVI"}
    PROVE  LET e == Executed(c, i)
           IN  /\ Passed(e, c) /\ e.mem = c.mem
               /\ e.gpr = write_gpr(c.gpr, i.rd, Computed(c, i))
<1> DEFINE d == [c EXCEPT !.pc = Plus(c.pc, 4)]
           e == Handled(d, i).m
<1>1. /\ Passed(d, c) /\ d.gpr = c.gpr /\ d.mem = c.mem
      /\ \A r : read_gpr(d, r) = read_gpr(c, r)
  BY FetchedCore
<1>2. Executed(c, i) = e
  BY DEF Executed
<1> HIDE DEF d
<1>3. Kept(e, d) /\ e.mem = d.mem /\ e.gpr = write_gpr(d.gpr, i.rd, Computed(d, i))
  BY <1>1, RegisterEffect DEF Passed
<1>4. e \in CoreState
  BY <1>1, HandledGood DEF Passed, GoodResult, Same, Dispatched, ScalarOps
<1> HIDE DEF e
<1>5. Computed(d, i) = Computed(c, i)
  BY <1>1 DEF Computed
<1> QED
  BY <1>1, <1>2, <1>3, <1>4, <1>5 DEF Passed, Kept

\* NOP, and branches that are not taken.
LEMMA ExecutedIdle ==
    ASSUME NEW c \in CoreState, ~c.mmu, NEW i,
           i.op = "NOP" \/ (i.op \in {"BEQ", "BNE"} /\ ~BranchTaken(c, i))
    PROVE  LET e == Executed(c, i)
           IN  Passed(e, c) /\ e.mem = c.mem /\ e.gpr = c.gpr
<1> DEFINE d == [c EXCEPT !.pc = Plus(c.pc, 4)]
<1>1. /\ Passed(d, c) /\ d.gpr = c.gpr /\ d.mem = c.mem
      /\ \A r : read_gpr(d, r) = read_gpr(c, r)
  BY FetchedCore
<1>2. Executed(c, i) = Handled(d, i).m
  BY DEF Executed
<1> HIDE DEF d
<1>3. Handled(d, i).m = d
  <2>0. d \in CoreState
    BY <1>1 DEF Passed
  <2>1. CASE i.op = "NOP"
    BY <2>0, <2>1 DEF Handled, op_nop, Ok
  <2>2. CASE i.op \in {"BEQ", "BNE"} /\ ~BranchTaken(c, i)
    <3>1. ~BranchTaken(d, i)
      BY <1>1, <2>2 DEF BranchTaken
    <3> QED
      BY <2>0, <2>2, <3>1 DEF Handled, op_beq, op_bne, Branch, BranchTaken, Ok
  <2> QED
    BY <2>1, <2>2
<1> QED
  BY <1>1, <1>2, <1>3

\* LOAD and STORE of plain memory.
LEMMA ExecutedMemory ==
    ASSUME NEW c \in CoreState, ~c.mmu, NEW i, WellFormed(i), i.op \in {"LOAD", "STORE"},
           EffectiveAddress(c, i) \in Addr \ DOMAIN Mmio
    PROVE  LET e == Executed(c, i)
               a == EffectiveAddress(c, i)
           IN  /\ Passed(e, c)
               /\ i.op = "LOAD" => e.gpr = write_gpr(c.gpr, i.rd, c.mem[a]) /\ e.mem = c.mem
               /\ i.op = "STORE" =>
                     e.mem = [c.mem EXCEPT ![a] = read_gpr(c, i.rd)] /\ e.gpr = c.gpr
<1> DEFINE d == [c EXCEPT !.pc = Plus(c.pc, 4)]
           e == Handled(d, i).m
           a == EffectiveAddress(c, i)
<1>1. /\ Passed(d, c) /\ d.gpr = c.gpr /\ d.mem = c.mem
      /\ \A r : read_gpr(d, r) = read_gpr(c, r)
  BY FetchedCore
<1>2. Executed(c, i) = e
  BY DEF Executed
<1> HIDE DEF d
<1>3. EffectiveAddress(d, i) = a
  BY <1>1 DEF EffectiveAddress
<1>4. /\ Kept(e, d)
      /\ i.op = "LOAD" => e.gpr = write_gpr(d.gpr, i.rd, d.mem[a]) /\ e.mem = d.mem
      /\ i.op = "STORE" => e.mem = [d.mem EXCEPT ![a] = read_gpr(d, i.rd)] /\ e.gpr = d.gpr
  <2>1. d \in CoreState /\ ~d.mmu /\ EffectiveAddress(d, i) \in Addr \ DOMAIN Mmio
    BY <1>1, <1>3 DEF Passed
  <2> QED
    BY <1>3, <2>1, MemoryEffect
<1>5. e \in CoreState
  BY <1>1, HandledGood DEF Passed, GoodResult, Same, Dispatched, ScalarOps
<1> HIDE DEF e, a
<1> QED
  BY <1>1, <1>2, <1>4, <1>5 DEF Passed, Kept, a

--------------------------------------------------------------------------------
\* The programs the translation is right for

\* The operations the reference knows.
Functs == {"ADD", "SUB", "MUL", "ADDI", "MOVZ", "LW", "BEQ", "BNE"}

\* A load or a store whose displacement the 16-bit field holds, of plain memory.
Reaches(h, g) ==
    /\ -ImmCount <= 2 * g.imm /\ 2 * g.imm < ImmCount
    /\ Address(h, g) \in Addr \ DOMAIN Mmio

\* A branch that is not taken, and that the low halves do not take either.
FallsThrough(h, g) ==
    \/ g.funct = "BEQ" /\ Low(Value(h.x, g.rs1)) # Low(Value(h.x, g.rs2))
    \/ g.funct = "BNE" /\ Value(h.x, g.rs1) = Value(h.x, g.rs2)

\* Arithmetic, ADDI of a number the field holds unsigned, loads and stores of plain
\* memory, branches that are not taken, and words of neither.
RiscvCovered(h, g) ==
    \/ g.opcode = "OP" /\ g.funct \in {"ADD", "SUB", "MUL"}
    \/ g.opcode = "OP_IMM" /\ g.funct = "ADDI" /\ g.imm \in 0 .. ImmCount - 1
    \/ g.opcode = "LOAD" /\ g.funct = "LW" /\ Reaches(h, g)
    \/ g.opcode = "STORE" /\ g.funct = "SW" /\ Reaches(h, g)
    \/ g.opcode = "BRANCH" /\ FallsThrough(h, g)
    \/ g.opcode \notin {"OP", "OP_IMM", "LOAD", "STORE", "BRANCH", "JAL"} /\ g.funct \notin Functs

\* ADD, SUB and MOVZ without register 0, which Novium keeps at zero, and words that
\* the engine does not know.
ArmCovered(g) ==
    /\ g.opcode = "ARM"
    /\ \/ g.funct \in {"ADD", "SUB"} /\ 0 \notin {g.rd, g.rs1, g.rs2}
       \/ g.funct = "MOVZ" /\ g.rd # 0 /\ g.imm \in 0 .. ImmCount - 1
       \/ g.funct \notin Functs \cup {"AND", "EOR", "B", "LDR", "FADD"}

InstructionCovered(i, h, g) ==
    /\ {g.rd, g.rs1, g.rs2} \subseteq 0 .. Temp - 1
    /\ IF i = "ARM64" THEN ArmCovered(g) ELSE RiscvCovered(h, g)

\* The translation fits the address space, and the next instruction is covered.
Covered ==
    /\ 4 * Len(translate_bytes(isa, code)) < WordCount
    /\ hart.at \in DOMAIN code => InstructionCovered(isa, hart, code[hart.at])

\* The core and the hart agree: the low halves of the registers but the temporary, and
\* memory.
Mirrors(c, h) ==
    /\ c \in CoreState /\ ~c.mmu /\ h.x \in [GuestReg -> GuestWord] /\ c.mem = h.mem
    /\ \A r \in 1 .. Temp - 1 : c.gpr[r] = Low(h.x[r])

\* Words are the guest values without an upper half.
LEMMA GuestTypes ==
    /\ GuestCount \in Nat \ {0} /\ WordCount \in Nat \ {0} /\ WordCount <= GuestCount
    /\ \A v \in Int : Low(v) \in Word /\ v % GuestCount \in GuestWord
    /\ \A v \in Word : Low(v) = v /\ v \in GuestWord
    /\ 0 \in GuestWord
<1>1. WordCount \in Nat \ {0}
  BY IsaAssumption
<1>2. GuestCount \in Nat \ {0} /\ WordCount <= GuestCount
  <2>1. WordCount - 1 \in Nat
    BY <1>1
  <2>2. WordCount * WordCount = WordCount + WordCount * (WordCount - 1)
    BY <1>1
  <2>3. WordCount * (WordCount - 1) \in Nat
    BY <1>1, <2>1
  <2> QED
    BY <1>1, <2>2, <2>3 DEF GuestCount
<1>3. \A v \in Int : Low(v) \in Word
  BY <1>1 DEF Low, Word
<1>4. \A v \in Int : v % GuestCount \in GuestWord
  BY <1>2 DEF GuestWord
<1>5. \A v \in Word : Low(v) = v
  BY <1>1 DEF Low, Word
<1>6. \A v \in Word : v \in GuestWord
  BY <1>1, <1>2 DEF Word, GuestWord
<1>7. 0 \in GuestWord
  BY <1>2 DEF GuestWord
<1> QED
  BY <1>1, <1>2, <1>3, <1>4, <1>5, <1>6, <1>7, Zenon

\* The low half of guest arithmetic is Novium's on the low halves (op_add, op_sub,
\* op_mul).
LEMMA GuestArithmetic ==
    ASSUME NEW a \in Int, NEW b \in Int
    PROVE  /\ Low((a + b) % GuestCount) = Plus(Low(a), Low(b))
           /\ Low((a - b) % GuestCount) = Minus(Low(a), Low(b))
           /\ Low((a * b) % GuestCount) = Times(Low(a), Low(b))
<1>1. WordCount \in Nat \ {0}
  BY IsaAssumption
<1>2. \A v \in Int : Low(v % GuestCount) = v % WordCount
  BY <1>1, LowHalf DEF Low, GuestCount
<1>3. a + b \in Int /\ a - b \in Int /\ a * b \in Int
  OBVIOUS
<1> DEFINE c == Low(a)
           d == Low(b)
<1>4. /\ (a + b) % WordCount = (c + d) % WordCount
      /\ (a - b) % WordCount = (c - d) % WordCount
      /\ (a * b) % WordCount = (c * d) % WordCount
  BY <1>1, ModuloArithmetic DEF Low
<1>5. Low((a + b) % GuestCount) = Plus(c, d)
  BY <1>2, <1>3, <1>4, Zenon DEF Plus
<1>6. Low((a - b) % GuestCount) = Minus(c, d)
  BY <1>2, <1>3, <1>4, Zenon DEF Minus
<1>7. Low((a * b) % GuestCount) = Times(c, d)
  BY <1>2, <1>3, <1>4, Zenon DEF Times
<1> QED
  BY <1>5, <1>6, <1>7

\* LW extends a word to a guest value with that low half.
LEMMA ExtensionKeeps ==
    ASSUME NEW w \in Word
    PROVE  SignExtended(w) \in GuestWord /\ Low(SignExtended(w)) = w
<1>1. /\ GuestCount \in Nat \ {0} /\ WordCount \in Nat \ {0} /\ WordCount <= GuestCount
      /\ w \in GuestWord /\ Low(w) = w
  BY GuestTypes
<1>2. w \in 0 .. WordCount - 1
  BY DEF Word
<1>3. GuestCount - WordCount + w \in GuestWord
  BY <1>1, <1>2 DEF GuestWord
<1>4. Low(GuestCount - WordCount + w) = w
  <2>1. GuestCount - WordCount + w = w + WordCount * (WordCount - 1)
    BY <1>1, <1>2 DEF GuestCount
  <2>2. (w + WordCount * (WordCount - 1)) % WordCount = w % WordCount
    <3> DEFINE k == WordCount - 1
    <3>1. k \in Int /\ w \in Int
      BY <1>1, <1>2
    <3> HIDE DEF k
    <3>2. (w + WordCount * k) % WordCount = w % WordCount
      BY <1>1, <3>1, ModuloShift
    <3> QED
      BY <3>2 DEF k
  <2> QED
    BY <1>1, <2>1, <2>2 DEF Low
<1> QED
  BY <1>1, <1>3, <1>4 DEF SignExtended

\* The registers a covered instruction names are not folded, and the core's hold the low
\* halves.
LEMMA SameRegisters ==
    ASSUME NEW c, NEW h, Mirrors(c, h), NEW r \in 0 .. Temp - 1
    PROVE  /\ Folded(r) = r /\ r \in Gpr /\ r \in GuestReg
           /\ read_gpr(c, r) = Low(Value(h.x, r)) /\ Value(h.x, r) \in GuestWord
           /\ Value(h.x, r) \in Int
<1>1. Folded(r) = r /\ r \in Gpr /\ r \in GuestReg
  BY IsaAssumption DEF Temp, Folded, Gpr, GuestReg
<1>2. read_gpr(c, r) = Low(Value(h.x, r))
  <2>1. Low(0) = 0
    BY GuestTypes, SmallWords
  <2> QED
    BY <2>1 DEF Mirrors, read_gpr, Value
<1>3. Value(h.x, r) \in GuestWord
  BY <1>1, GuestTypes DEF Value, Mirrors
<1>4. Value(h.x, r) \in Int
  BY <1>3, GuestTypes DEF GuestWord
<1> QED
  BY <1>1, <1>2, <1>3, <1>4

\* The same value written to the same register of both.
LEMMA SameWrite ==
    ASSUME NEW c, NEW h, Mirrors(c, h), NEW rd \in 0 .. Temp - 1, NEW v \in GuestWord,
           NEW e \in CoreState, ~e.mmu, e.mem = c.mem, e.gpr = write_gpr(c.gpr, rd, Low(v)),
           NEW k, k.x = [h.x EXCEPT ![rd] = v], k.mem = h.mem
    PROVE  Mirrors(e, k)
<1>1. rd \in GuestReg /\ 1 .. Temp - 1 \subseteq Gpr \cap GuestReg
  BY IsaAssumption DEF Temp, Gpr, GuestReg
<1>2. k.x \in [GuestReg -> GuestWord]
  BY DEF Mirrors
<1>3. \A r \in 1 .. Temp - 1 : e.gpr[r] = Low(k.x[r])
  BY <1>1 DEF Mirrors, write_gpr
<1> QED
  BY <1>2, <1>3 DEF Mirrors

\* The sign extension of the 16-bit field restores what it held.
LEMMA SignExtension ==
    ASSUME NEW n \in Int, -ImmCount <= 2 * n, 2 * n < ImmCount
    PROVE  simm16(n) = n % WordCount
<1>0. ImmCount \in Nat \ {0} /\ WordCount \in Nat \ {0} /\ ImmCount <= WordCount
  BY IsaAssumption, DecoderAssumption
<1>1. CASE n >= 0
  <2>1. n % ImmCount = n
    BY <1>0, <1>1
  <2>2. n % WordCount = n
    BY <1>0, <1>1
  <2> QED
    BY <1>0, <1>1, <2>1, <2>2 DEF simm16, imm16
<1>2. CASE n < 0
  <2>1. n % ImmCount = n + ImmCount
    <3>1. n + ImmCount \in 0 .. ImmCount - 1 /\ n = ImmCount * (-1) + (n + ImmCount)
      BY <1>0, <1>2
    <3> QED
      BY <1>0, <3>1
  <2>2. 2 * (n + ImmCount) >= ImmCount /\ (n + ImmCount) - ImmCount = n
    BY <1>0
  <2> QED
    BY <1>0, <2>1, <2>2 DEF simm16, imm16, Minus
<1> QED
  BY <1>1, <1>2

--------------------------------------------------------------------------------
\* One guest instruction and its translation

\* The core and the hart agree after it as before, and both are at the next one.
Followed(i, c, h, g) ==
    LET s == translate_one(i, g)
        e == Ran(c, s)
        k == Retire(h, g)
    IN  /\ Mirrors(e, k) /\ k.at = h.at + 1
        /\ e.pc = IF Len(s) = 1 THEN Plus(c.pc, 4) ELSE Plus(Plus(c.pc, 4), 4)

\* The registers and the memory of the hart after it.
LEMMA RetireFields ==
    ASSUME NEW h, NEW g
    PROVE  LET k == Retire(h, g)
           IN  /\ ~Taken(h, g) => k.at = h.at + 1
               /\ k.x = [h.x EXCEPT ![g.rd] = Result(h, g)]
               /\ g.opcode # "STORE" => k.mem = h.mem
               /\ g.opcode = "STORE" =>
                     k.mem = [h.mem EXCEPT ![Address(h, g)] = Low(Value(h.x, g.rs2))]
BY DEF Retire

\* A translation of one word.
LEMMA OneWord ==
    ASSUME NEW i, NEW c, NEW h, NEW g, NEW a, translate_one(i, g) = << a >>,
           Passed(Executed(c, a), c), Mirrors(Executed(c, a), Retire(h, g)), ~Taken(h, g)
    PROVE  Followed(i, c, h, g)
<1>1. Ran(c, << a >>) = Executed(c, a)
  BY RanOne
<1>2. Len(<< a >>) = 1
  OBVIOUS
<1> QED
  BY <1>1, <1>2, RetireFields DEF Followed, Passed

\* A register operation of three registers.
LEMMA FollowsArithmetic ==
    ASSUME NEW i, NEW c, NEW h, Mirrors(c, h), NEW g \in GuestInstruction,
           {g.rd, g.rs1, g.rs2} \subseteq 0 .. Temp - 1, g.funct \in {"ADD", "SUB", "MUL"},
           g.opcode \in {"OP", "ARM"},
           translate_one(i, g) = << rtype(g.funct, g.rd, g.rs1, g.rs2, 0) >>
    PROVE  Followed(i, c, h, g)
<1> DEFINE a == rtype(g.funct, g.rd, g.rs1, g.rs2, 0)
           e == Executed(c, a)
           k == Retire(h, g)
           v == Result(h, g)
<1>1. /\ a.op = g.funct /\ a.rd = g.rd /\ a.ra = g.rs1 /\ a.rb = g.rs2 /\ a.imm = 0
  BY DEF rtype
<1>2. /\ g.rd \in Gpr /\ g.rs1 \in Gpr /\ g.rs2 \in Gpr
      /\ read_gpr(c, g.rs1) = Low(Value(h.x, g.rs1))
      /\ read_gpr(c, g.rs2) = Low(Value(h.x, g.rs2))
      /\ Value(h.x, g.rs1) \in Int /\ Value(h.x, g.rs2) \in Int
  BY SameRegisters
<1>3. WellFormed(a)
  <2>1. a \in Instruction
    BY <1>2, SmallWords, FieldTypes
       DEF rtype, Instruction, Opcode, Dispatched, ScalarOps
  <2> QED
    BY <1>1, <1>2, <2>1 DEF WellFormed, VectorOps
<1>4. Computed(c, a) = Low(v) /\ v \in GuestWord
  <2> DEFINE x == Value(h.x, g.rs1)
             y == Value(h.x, g.rs2)
  <2>1. /\ x \in Int /\ y \in Int /\ x + y \in Int /\ x - y \in Int /\ x * y \in Int
    BY <1>2
  <2>2. v = CASE g.funct = "ADD" -> (x + y) % GuestCount
              [] g.funct = "SUB" -> (x - y) % GuestCount
              [] OTHER           -> (x * y) % GuestCount
    BY DEF Result
  <2>3. Computed(c, a) = CASE g.funct = "ADD" -> Plus(Low(x), Low(y))
                           [] g.funct = "SUB" -> Minus(Low(x), Low(y))
                           [] OTHER           -> Times(Low(x), Low(y))
    BY <1>1, <1>2 DEF Computed
  <2> HIDE DEF x, y, v, a
  <2> QED
    BY <2>1, <2>2, <2>3, GuestArithmetic, GuestTypes
<1> HIDE DEF a, v
<1>5. c \in CoreState /\ ~c.mmu
  BY DEF Mirrors
<1>6. Passed(e, c) /\ e.mem = c.mem /\ e.gpr = write_gpr(c.gpr, g.rd, Low(v))
  BY <1>1, <1>3, <1>4, <1>5, ExecutedRegister
<1> HIDE DEF e
<1>7. k.x = [h.x EXCEPT ![g.rd] = v] /\ k.mem = h.mem
  BY RetireFields DEF v
<1>8. ~Taken(h, g)
  BY DEF Taken
<1> HIDE DEF k
<1>9. Mirrors(e, k)
  BY <1>4, <1>6, <1>7, SameWrite DEF Passed
<1> QED
  BY <1>6, <1>8, <1>9, OneWord DEF a, e, k

\* MOVZ.
LEMMA FollowsMove ==
    ASSUME NEW i, NEW c, NEW h, Mirrors(c, h), NEW g \in GuestInstruction,
           g.rd \in 0 .. Temp - 1, g.funct = "MOVZ", g.opcode = "ARM",
           g.imm \in 0 .. ImmCount - 1, translate_one(i, g) = << movi(g.rd, g.imm) >>
    PROVE  Followed(i, c, h, g)
<1> DEFINE a == movi(g.rd, g.imm)
           e == Executed(c, a)
           k == Retire(h, g)
           v == g.imm
<1>1. imm16(v) = v /\ v \in Word /\ v \in GuestWord /\ Low(v) = v
  <2>1. imm16(v) = v /\ v \in Word
    BY DecoderAssumption, IsaAssumption DEF imm16, Word
  <2> QED
    BY <2>1, GuestTypes
<1>2. a.op = "MOVI" /\ a.rd = g.rd /\ a.imm = v /\ g.rd \in Gpr
  BY <1>1, SameRegisters DEF movi, rtype
<1>3. WellFormed(a) /\ Computed(c, a) = v
  <2>1. 0 \in Gpr
    BY IsaAssumption DEF Gpr
  <2>2. a \in Instruction
    BY <1>1, <1>2, FieldTypes DEF movi, rtype, Instruction, Opcode, Dispatched, ScalarOps
  <2> QED
    BY <1>2, <2>1, <2>2 DEF WellFormed, VectorOps, Computed, movi, rtype
<1> HIDE DEF a
<1>4. c \in CoreState /\ ~c.mmu
  BY DEF Mirrors
<1>5. Passed(e, c) /\ e.mem = c.mem /\ e.gpr = write_gpr(c.gpr, g.rd, Low(v))
  BY <1>1, <1>2, <1>3, <1>4, ExecutedRegister
<1>6. Result(h, g) = v
  BY DEF Result
<1> HIDE DEF e, v
<1>7. k.x = [h.x EXCEPT ![g.rd] = v] /\ k.mem = h.mem /\ ~Taken(h, g)
  BY <1>6, RetireFields DEF Taken
<1> HIDE DEF k
<1>8. Mirrors(e, k)
  BY <1>1, <1>5, <1>7, SameWrite DEF Passed
<1> QED
  BY <1>5, <1>7, <1>8, OneWord DEF a, e, k

\* The two instructions ADDI is lowered to add the 16-bit field without its sign, through
\* the temporary (op_movi, op_add).
LEMMA AddsField ==
    ASSUME NEW c, NEW h, Mirrors(c, h), NEW rd \in 0 .. Temp - 1, NEW rs \in 0 .. Temp - 1,
           NEW m \in Int
    PROVE  LET e == Ran(c, << movi(Temp, m), add(rd, rs, Temp) >>)
               v == (Value(h.x, rs) + imm16(m)) % GuestCount
           IN  /\ e \in CoreState /\ ~e.mmu /\ e.pc = Plus(Plus(c.pc, 4), 4) /\ v \in GuestWord
               /\ \A k : k.x = [h.x EXCEPT ![rd] = v] /\ k.mem = h.mem => Mirrors(e, k)
<1> DEFINE a == movi(Temp, m)
           b == add(rd, rs, Temp)
           d == Executed(c, a)
           e == Executed(d, b)
           n == imm16(m)
           v == (Value(h.x, rs) + n) % GuestCount
<1>0. Temp \in Gpr /\ Temp \notin 0 .. Temp - 1 /\ Temp # 0
  BY IsaAssumption DEF Temp, Gpr
<1>1. n \in Word /\ Low(n) = n
  BY FieldTypes, GuestTypes
<1>2. /\ a.op = "MOVI" /\ a.rd = Temp /\ a.imm = n
      /\ b.op = "ADD" /\ b.rd = rd /\ b.ra = rs /\ b.rb = Temp
      /\ rd \in Gpr /\ rs \in Gpr
      /\ Value(h.x, rs) \in Int
  BY SameRegisters DEF movi, add, rtype
<1>3. WellFormed(a) /\ Computed(c, a) = n /\ WellFormed(b)
  <2>1. 0 \in Gpr /\ 0 \in Word
    BY IsaAssumption, SmallWords DEF Gpr
  <2>2. a \in Instruction /\ b \in Instruction
    BY <1>0, <1>1, <1>2, <2>1, FieldTypes
       DEF movi, add, rtype, Instruction, Opcode, Dispatched, ScalarOps
  <2>3. WellFormed(a) /\ Computed(c, a) = n
    BY <1>0, <1>2, <2>1, <2>2 DEF WellFormed, VectorOps, Computed, movi, rtype
  <2>4. WellFormed(b)
    BY <1>0, <1>2, <2>2 DEF WellFormed, VectorOps
  <2> QED
    BY <2>3, <2>4
<1> HIDE DEF a, b
<1>4. c \in CoreState /\ ~c.mmu
  BY DEF Mirrors
<1>5. Passed(d, c) /\ d.mem = c.mem /\ d.gpr = write_gpr(c.gpr, Temp, n)
  BY <1>2, <1>3, <1>4, ExecutedRegister
<1> HIDE DEF d
<1>6. Passed(e, d) /\ e.mem = d.mem /\ e.gpr = write_gpr(d.gpr, rd, Computed(d, b))
  BY <1>2, <1>3, <1>5, ExecutedRegister DEF Passed
<1> HIDE DEF e, n
<1>7. Mirrors(d, h)
  <2>1. \A r \in 1 .. Temp - 1 : d.gpr[r] = c.gpr[r]
    BY <1>0, <1>5, IsaAssumption DEF write_gpr, Temp, Gpr
  <2> QED
    BY <1>5, <2>1 DEF Mirrors, Passed
<1>8. Computed(d, b) = Low(v) /\ v \in GuestWord
  <2>1. read_gpr(d, Temp) = n
    BY <1>0, <1>5 DEF read_gpr, write_gpr
  <2>2. read_gpr(d, rs) = Low(Value(h.x, rs))
    BY <1>7, SameRegisters
  <2>3. Computed(d, b) = Plus(Low(Value(h.x, rs)), n)
    BY <1>2, <2>1, <2>2 DEF Computed
  <2> DEFINE x == Value(h.x, rs)
  <2>4. x \in Int /\ n \in Int /\ x + n \in Int
    BY <1>1, <1>2 DEF Word
  <2> HIDE DEF x
  <2>5. Low((x + n) % GuestCount) = Plus(Low(x), Low(n))
    BY <2>4, GuestArithmetic
  <2>6. (x + n) % GuestCount \in GuestWord
    BY <2>4, GuestTypes
  <2> QED
    BY <1>1, <2>3, <2>5, <2>6 DEF x
<1> HIDE DEF v
<1>9. ASSUME NEW k, k.x = [h.x EXCEPT ![rd] = v], k.mem = h.mem
      PROVE  Mirrors(e, k)
  BY <1>6, <1>7, <1>8, <1>9, SameWrite DEF Passed
<1>10. Ran(c, << a, b >>) = e
  <2>1. Ran(c, << a, b >>) = Executed(Executed(c, a), b)
    BY RanTwo
  <2> QED
    BY <2>1 DEF e, d
<1>11. e \in CoreState /\ ~e.mmu /\ e.pc = Plus(Plus(c.pc, 4), 4)
  BY <1>5, <1>6 DEF Passed
<1> QED
  BY <1>8, <1>9, <1>10, <1>11 DEF a, b, v, n

\* ADDI, with an immediate the field holds unsigned.
LEMMA FollowsAddImmediate ==
    ASSUME NEW i, NEW c, NEW h, Mirrors(c, h), NEW g \in GuestInstruction,
           {g.rd, g.rs1} \subseteq 0 .. Temp - 1, g.funct = "ADDI", g.opcode = "OP_IMM",
           g.imm \in 0 .. ImmCount - 1,
           translate_one(i, g) = << movi(Temp, g.imm), add(g.rd, g.rs1, Temp) >>
    PROVE  Followed(i, c, h, g)
<1> DEFINE s == << movi(Temp, g.imm), add(g.rd, g.rs1, Temp) >>
           k == Retire(h, g)
           v == (Value(h.x, g.rs1) + g.imm) % GuestCount
<1>1. imm16(g.imm) = g.imm /\ g.imm \in Int
  BY DecoderAssumption DEF imm16
<1>2. Result(h, g) = v
  BY DEF Result
<1> HIDE DEF v
<1>3. k.x = [h.x EXCEPT ![g.rd] = v] /\ k.mem = h.mem /\ k.at = h.at + 1
  BY <1>2, RetireFields DEF Taken
<1> HIDE DEF k
<1>4. Mirrors(Ran(c, s), k) /\ Ran(c, s).pc = Plus(Plus(c.pc, 4), 4)
  BY <1>1, <1>3, AddsField DEF v
<1>5. Len(s) = 2
  OBVIOUS
<1> QED
  BY <1>3, <1>4, <1>5 DEF Followed, k

\* A field width added to a number changes its low half.
LEMMA FieldShows ==
    ASSUME NEW x \in Int, ImmCount < WordCount
    PROVE  Low(x + ImmCount) # Low(x)
<1> DEFINE q == x \div WordCount
           p == (x + ImmCount) \div WordCount
           r == x % WordCount
           t == (x + ImmCount) % WordCount
<1>1. /\ WordCount \in Nat \ {0} /\ ImmCount \in Nat \ {0} /\ x + ImmCount \in Int
  BY IsaAssumption, DecoderAssumption
<1>2. q \in Int /\ r \in Int /\ x = WordCount * q + r
  BY <1>1
<1>3. p \in Int /\ t \in Int /\ x + ImmCount = WordCount * p + t
  <2> DEFINE y == x + ImmCount
  <2>1. y \in Int
    BY <1>1
  <2> HIDE DEF y
  <2>2. (y \div WordCount) \in Int /\ (y % WordCount) \in Int
        /\ y = WordCount * (y \div WordCount) + (y % WordCount)
    BY <1>1, <2>1
  <2> QED
    BY <2>2 DEF y
<1> HIDE DEF p, q, r, t
<1>4. r = t => ImmCount = WordCount * (p - q)
  BY <1>1, <1>2, <1>3
<1>5. \A k \in Int : WordCount * k \notin 1 .. WordCount - 1
  <2>1. \A k \in Int : k >= 1 => WordCount * k >= WordCount
    BY <1>1
  <2>2. \A k \in Int : k <= 0 => WordCount * k <= 0
    BY <1>1
  <2> QED
    BY <1>1, <2>1, <2>2
<1>6. ImmCount \in 1 .. WordCount - 1 /\ p - q \in Int
  BY <1>1, <1>2, <1>3
<1>7. r # t
  BY <1>4, <1>5, <1>6
<1> QED
  BY <1>7 DEF Low, r, t

\* What becomes of the immediates that Covered leaves out: the translation of ADDI adds
\* its 16-bit field without the sign, so for every machine whose field is narrower than
\* its registers, and whatever the registers hold, a negative immediate leaves a value
\* that is not the guest's (translate_one_riscv, op_movi).
THEOREM NegativeImmediatesLost ==
    ASSUME NEW c, NEW h, Mirrors(c, h), NEW g \in GuestInstruction,
           g.rd \in 1 .. Temp - 1, g.rs1 \in 0 .. Temp - 1,
           g.funct = "ADDI", g.opcode = "OP_IMM",
           g.imm \in -ImmCount .. -1, ImmCount < WordCount
    PROVE  LET e == Ran(c, translate_one("RISCV64", g))
           IN  /\ e.gpr[g.rd] = Low(Value(h.x, g.rs1) + g.imm + ImmCount)
               /\ e.gpr[g.rd] # Low(Retire(h, g).x[g.rd])
<1> DEFINE s == << movi(Temp, g.imm), add(g.rd, g.rs1, Temp) >>
           e == Ran(c, s)
           x == Value(h.x, g.rs1)
           n == g.imm
<1>1. g.rd \in 0 .. Temp - 1 /\ Folded(g.rd) = g.rd /\ Folded(g.rs1) = g.rs1
      /\ x \in Int /\ g.rd \in GuestReg /\ g.rd # 0
  <2>1. g.rd \in 0 .. Temp - 1 /\ g.rd # 0
    BY IsaAssumption DEF Temp
  <2> QED
    BY <2>1, SameRegisters
<1>2. translate_one("RISCV64", g) = s
  <2>1. translate_one_riscv(g) = s
    BY <1>1 DEF translate_one_riscv
  <2>2. s # << >>
    OBVIOUS
  <2> HIDE DEF s
  <2> QED
    BY <2>1, <2>2 DEF translate_one
<1>3. n \in Int /\ imm16(n) = n + ImmCount
  BY DecoderAssumption DEF imm16
<1>4. e.gpr[g.rd] = Low((x + imm16(n)) % GuestCount)
  <2> DEFINE v == (x + imm16(n)) % GuestCount
             k == [x |-> [h.x EXCEPT ![g.rd] = v], mem |-> h.mem]
  <2>1. g.imm \in Int
    BY <1>3
  <2>2. k.x = [h.x EXCEPT ![g.rd] = v] /\ k.mem = h.mem
    OBVIOUS
  <2> HIDE DEF k
  <2>3. Mirrors(e, k)
    BY <1>1, <2>1, <2>2, AddsField
  <2>4. h.x \in [GuestReg -> GuestWord]
    BY DEF Mirrors
  <2> HIDE DEF v, e
  <2>5. k.x[g.rd] = v
    BY <1>1, <2>2, <2>4
  <2> QED
    BY <2>3, <2>5 DEF Mirrors, v
<1>5. \A v \in Int : Low(v % GuestCount) = Low(v)
  <2>1. WordCount \in Nat \ {0}
    BY IsaAssumption
  <2> QED
    BY <2>1, LowHalf DEF Low, GuestCount
<1>6. ImmCount \in Int
  BY DecoderAssumption
<1>7. Retire(h, g).x[g.rd] = (x + n) % GuestCount
  <2> DEFINE v == (x + n) % GuestCount
  <2>1. Result(h, g) = v
    BY DEF Result
  <2> HIDE DEF v
  <2>2. Retire(h, g).x = [h.x EXCEPT ![g.rd] = v]
    BY <2>1, RetireFields
  <2>3. h.x \in [GuestReg -> GuestWord]
    BY DEF Mirrors
  <2> QED
    BY <1>1, <2>2, <2>3 DEF v
<1> HIDE DEF e, x, n
<1>8. x + n \in Int /\ x + (n + ImmCount) \in Int /\ x + (n + ImmCount) = x + n + ImmCount
  BY <1>1, <1>3, <1>6
<1>9. e.gpr[g.rd] = Low(x + n + ImmCount)
  BY <1>3, <1>4, <1>5, <1>8
<1>10. Low(Retire(h, g).x[g.rd]) = Low(x + n)
  BY <1>5, <1>7, <1>8
<1>11. Low(x + n + ImmCount) # Low(x + n)
  BY <1>8, FieldShows
<1> QED
  BY <1>2, <1>9, <1>10, <1>11 DEF e, x, n

\* LW and SW.
LEMMA FollowsMemory ==
    ASSUME NEW i, NEW c, NEW h, Mirrors(c, h), NEW g \in GuestInstruction,
           {g.rd, g.rs1, g.rs2} \subseteq 0 .. Temp - 1, Reaches(h, g),
           \/ /\ g.opcode = "LOAD" /\ g.funct = "LW"
              /\ translate_one(i, g) = << load(g.rd, g.rs1, g.imm) >>
           \/ /\ g.opcode = "STORE" /\ g.funct = "SW"
              /\ translate_one(i, g) = << store(g.rs2, g.rs1, g.imm) >>
    PROVE  Followed(i, c, h, g)
<1> DEFINE k == Retire(h, g)
           n == g.imm % WordCount
           p == Address(h, g)
<1>0. /\ c \in CoreState /\ ~c.mmu /\ c.mem = h.mem /\ h.x \in [GuestReg -> GuestWord]
      /\ c.mem \in [Addr -> Word]
  BY DEF Mirrors, CoreState
<1>1. simm16(g.imm) = n /\ n \in Word
  BY SignExtension, FieldTypes DEF Reaches, GuestInstruction
<1>2. /\ g.rd \in Gpr /\ g.rs1 \in Gpr /\ g.rs2 \in Gpr
      /\ read_gpr(c, g.rs1) = Low(Value(h.x, g.rs1))
      /\ read_gpr(c, g.rs2) = Low(Value(h.x, g.rs2))
      /\ Value(h.x, g.rs1) \in Int /\ g.rd \in GuestReg /\ 0 \in Gpr
  BY SameRegisters, IsaAssumption DEF Gpr
<1>3. p \in Addr \ DOMAIN Mmio /\ p = Plus(Low(Value(h.x, g.rs1)), n)
  <2>1. p \in Addr \ DOMAIN Mmio
    BY DEF Reaches
  <2>2. p \in Word
    BY <2>1, GuestAssumption, MachineAssumption, IsaAssumption DEF Addr, Word
  <2>3. Low(p) = Plus(Low(Value(h.x, g.rs1)), n)
    BY <1>2, GuestArithmetic DEF Address, Low, GuestInstruction
  <2> QED
    BY <2>1, <2>2, <2>3, GuestTypes
<1>4. CASE /\ g.opcode = "LOAD" /\ g.funct = "LW"
           /\ translate_one(i, g) = << load(g.rd, g.rs1, g.imm) >>
  <2> DEFINE a == load(g.rd, g.rs1, g.imm)
             e == Executed(c, a)
             v == SignExtended(h.mem[p])
  <2>1. a.op = "LOAD" /\ a.rd = g.rd /\ a.ra = g.rs1 /\ a.rb = 0 /\ a.imm = n
    BY <1>1 DEF load, rtype
  <2>2. WellFormed(a)
    <3>1. a \in Instruction
      BY <1>1, <1>2, FieldTypes DEF load, rtype, Instruction, Opcode, Dispatched, ScalarOps
    <3> QED
      BY <1>2, <2>1, <3>1 DEF WellFormed, VectorOps
  <2> HIDE DEF a, n
  <2>3. EffectiveAddress(c, a) = p
    BY <1>2, <1>3, <2>1 DEF EffectiveAddress
  <2>4. Passed(e, c) /\ e.gpr = write_gpr(c.gpr, a.rd, c.mem[p]) /\ e.mem = c.mem
    BY <1>0, <1>3, <2>1, <2>2, <2>3, ExecutedMemory
  <2>5. Result(h, g) = v /\ v \in GuestWord /\ Low(v) = c.mem[p]
    <3>1. Result(h, g) = v
      BY <1>4 DEF Result
    <3>2. h.mem[p] \in Word
      BY <1>0, <1>3
    <3> QED
      BY <1>0, <3>1, <3>2, ExtensionKeeps
  <2> HIDE DEF e, v, p
  <2>6. k.x = [h.x EXCEPT ![g.rd] = v] /\ k.mem = h.mem /\ ~Taken(h, g)
    BY <1>4, <2>5, RetireFields DEF Taken
  <2>7. e.gpr = write_gpr(c.gpr, g.rd, Low(v))
    BY <2>1, <2>4, <2>5
  <2> HIDE DEF k
  <2>8. Mirrors(e, k)
    BY <2>4, <2>5, <2>6, <2>7, SameWrite DEF Passed
  <2> QED
    BY <1>4, <2>4, <2>6, <2>8, OneWord DEF a, e, k
<1>5. CASE /\ g.opcode = "STORE" /\ g.funct = "SW"
           /\ translate_one(i, g) = << store(g.rs2, g.rs1, g.imm) >>
  <2> DEFINE a == store(g.rs2, g.rs1, g.imm)
             e == Executed(c, a)
             v == Low(Value(h.x, g.rs2))
  <2>1. a.op = "STORE" /\ a.rd = g.rs2 /\ a.ra = g.rs1 /\ a.rb = 0 /\ a.imm = n
    BY <1>1 DEF store, rtype
  <2>2. WellFormed(a)
    <3>1. a \in Instruction
      BY <1>1, <1>2, FieldTypes DEF store, rtype, Instruction, Opcode, Dispatched, ScalarOps
    <3> QED
      BY <1>2, <2>1, <3>1 DEF WellFormed, VectorOps
  <2> HIDE DEF a, n
  <2>3. EffectiveAddress(c, a) = p
    BY <1>2, <1>3, <2>1 DEF EffectiveAddress
  <2>4. /\ Passed(e, c) /\ e.gpr = c.gpr
        /\ e.mem = [c.mem EXCEPT ![p] = read_gpr(c, a.rd)]
    BY <1>0, <1>3, <2>1, <2>2, <2>3, ExecutedMemory
  <2>5. e.mem = [h.mem EXCEPT ![p] = v]
    BY <1>0, <1>2, <2>1, <2>4
  <2>6. k.mem = [h.mem EXCEPT ![p] = v] /\ ~Taken(h, g)
    BY <1>5, RetireFields DEF Taken
  <2>7. k.x = [h.x EXCEPT ![g.rd] = Value(h.x, g.rd)]
    BY <1>5, RetireFields DEF Result
  <2>8. k.x \in [GuestReg -> GuestWord] /\ \A r \in 1 .. Temp - 1 : k.x[r] = h.x[r]
    <3>1. Value(h.x, g.rd) \in GuestWord /\ \A r \in 1 .. Temp - 1 : r \in GuestReg
      BY SameRegisters
    <3>2. \A r \in 1 .. Temp - 1 : r = g.rd => Value(h.x, g.rd) = h.x[r]
      BY DEF Value
    <3> HIDE DEF k
    <3> QED
      BY <1>0, <1>2, <2>7, <3>1, <3>2
  <2> HIDE DEF e, v, p, k
  <2>9. Mirrors(e, k)
    BY <2>4, <2>5, <2>6, <2>8 DEF Mirrors, Passed
  <2> QED
    BY <1>5, <2>4, <2>6, <2>9, OneWord DEF a, e, k
<1> QED
  BY <1>4, <1>5

\* A branch that is not taken, and a word that was not translated.
LEMMA FollowsIdle ==
    ASSUME NEW i, NEW c, NEW h, Mirrors(c, h), NEW g \in GuestInstruction,
           {g.rd, g.rs1, g.rs2} \subseteq 0 .. Temp - 1, ~Taken(h, g),
           g.opcode # "STORE", g.funct \notin Functs \ {"BEQ", "BNE"}, NEW a,
           translate_one(i, g) = << a >>,
           \/ a = nop
           \/ /\ a.op = g.funct /\ FallsThrough(h, g) /\ a.rd = g.rs1 /\ a.ra = g.rs2
    PROVE  Followed(i, c, h, g)
<1> DEFINE e == Executed(c, a)
           k == Retire(h, g)
<1>0. c \in CoreState /\ ~c.mmu /\ c.mem = h.mem /\ h.x \in [GuestReg -> GuestWord]
  BY DEF Mirrors
<1>1. a.op = "NOP" \/ (a.op \in {"BEQ", "BNE"} /\ ~BranchTaken(c, a))
  <2>1. /\ read_gpr(c, g.rs1) = Low(Value(h.x, g.rs1))
        /\ read_gpr(c, g.rs2) = Low(Value(h.x, g.rs2))
    BY SameRegisters
  <2> QED
    BY <2>1 DEF nop, BranchTaken, FallsThrough
<1>2. Passed(e, c) /\ e.mem = c.mem /\ e.gpr = c.gpr
  BY <1>0, <1>1, ExecutedIdle
<1>3. k.x = [h.x EXCEPT ![g.rd] = Value(h.x, g.rd)] /\ k.mem = h.mem
  BY RetireFields DEF Result, Functs
<1>4. k.x \in [GuestReg -> GuestWord] /\ \A r \in 1 .. Temp - 1 : k.x[r] = h.x[r]
  <2>1. Value(h.x, g.rd) \in GuestWord /\ g.rd \in GuestReg /\ \A r \in 1 .. Temp - 1 : r \in GuestReg
    BY SameRegisters
  <2>2. \A r \in 1 .. Temp - 1 : r = g.rd => Value(h.x, g.rd) = h.x[r]
    BY DEF Value
  <2> HIDE DEF k
  <2> QED
    BY <1>0, <1>3, <2>1, <2>2
<1> HIDE DEF e, k
<1>5. Mirrors(e, k)
  BY <1>0, <1>2, <1>3, <1>4 DEF Mirrors, Passed
<1> QED
  BY <1>2, <1>5, OneWord DEF e, k

\* Every covered instruction.
LEMMA FollowsCovered ==
    ASSUME NEW i, NEW c, NEW h, Mirrors(c, h), NEW g \in GuestInstruction,
           InstructionCovered(i, h, g)
    PROVE  Followed(i, c, h, g)
<1>0. {g.rd, g.rs1, g.rs2} \subseteq 0 .. Temp - 1
  BY DEF InstructionCovered
<1>1. Folded(g.rd) = g.rd /\ Folded(g.rs1) = g.rs1 /\ Folded(g.rs2) = g.rs2
  BY <1>0, SameRegisters
<1>2. \A x, y : << x >> # << >> /\ << x, y >> # << >>
  OBVIOUS
<1>3. CASE i = "ARM64"
  <2>0. /\ ArmCovered(g) /\ g.opcode = "ARM"
        /\ \A s : translate_one_arm64(g) = s /\ s # << >> => translate_one(i, g) = s
        /\ translate_one_arm64(g) = << >> => translate_one(i, g) = << nop >>
    BY <1>3 DEF InstructionCovered, translate_one, ArmCovered
  <2>1. CASE g.funct \in {"ADD", "SUB"}
    <3>1. translate_one_arm64(g) = << rtype(g.funct, g.rd, g.rs1, g.rs2, 0) >>
      BY <1>1, <2>1 DEF translate_one_arm64, add, sub
    <3> QED
      BY <1>0, <1>2, <2>0, <2>1, <3>1, FollowsArithmetic
  <2>2. CASE g.funct = "MOVZ"
    <3>1. translate_one_arm64(g) = << movi(g.rd, g.imm) >>
      BY <1>1, <2>2 DEF translate_one_arm64
    <3>2. g.imm \in 0 .. ImmCount - 1
      BY <2>0, <2>2 DEF ArmCovered, Functs
    <3> QED
      BY <1>0, <1>2, <2>0, <2>2, <3>1, <3>2, FollowsMove
  <2>3. CASE g.funct \notin Functs \cup {"AND", "EOR", "B", "LDR", "FADD"}
    <3>1. translate_one_arm64(g) = << >>
      BY <2>3 DEF translate_one_arm64, Functs
    <3>2. ~Taken(h, g) /\ g.funct \notin Functs
      BY <2>0, <2>3 DEF Taken, Functs
    <3> QED
      BY <1>0, <2>0, <3>1, <3>2, FollowsIdle
  <2> QED
    BY <2>0, <2>1, <2>2, <2>3 DEF ArmCovered
<1>4. CASE i # "ARM64"
  <2>0. /\ RiscvCovered(h, g)
        /\ \A s : translate_one_riscv(g) = s /\ s # << >> => translate_one(i, g) = s
        /\ translate_one_riscv(g) = << >> => translate_one(i, g) = << nop >>
    BY <1>4 DEF InstructionCovered, translate_one
  <2>1. CASE g.opcode = "OP" /\ g.funct \in {"ADD", "SUB", "MUL"}
    <3>1. translate_one_riscv(g) = << rtype(g.funct, g.rd, g.rs1, g.rs2, 0) >>
      BY <1>1, <2>1 DEF translate_one_riscv, add, sub, mul
    <3> QED
      BY <1>0, <1>2, <2>0, <2>1, <3>1, FollowsArithmetic
  <2>2. CASE g.opcode = "OP_IMM" /\ g.funct = "ADDI" /\ g.imm \in 0 .. ImmCount - 1
    <3>1. translate_one_riscv(g) = << movi(Temp, g.imm), add(g.rd, g.rs1, Temp) >>
      BY <1>1, <2>2 DEF translate_one_riscv
    <3> QED
      BY <1>0, <1>2, <2>0, <2>2, <3>1, FollowsAddImmediate
  <2>3. CASE g.opcode = "LOAD" /\ g.funct = "LW" /\ Reaches(h, g)
    <3>1. translate_one_riscv(g) = << load(g.rd, g.rs1, g.imm) >>
      BY <1>1, <2>3 DEF translate_one_riscv
    <3> QED
      BY <1>0, <1>2, <2>0, <2>3, <3>1, FollowsMemory
  <2>4. CASE g.opcode = "STORE" /\ g.funct = "SW" /\ Reaches(h, g)
    <3>1. translate_one_riscv(g) = << store(g.rs2, g.rs1, g.imm) >>
      BY <1>1, <2>4 DEF translate_one_riscv
    <3> QED
      BY <1>0, <1>2, <2>0, <2>4, <3>1, FollowsMemory
  <2>5. CASE g.opcode = "BRANCH" /\ FallsThrough(h, g)
    <3>0. g.funct \in {"BEQ", "BNE"} /\ ~Taken(h, g)
      BY <2>5 DEF FallsThrough, Taken
    <3> DEFINE a == rtype(g.funct, g.rs1, g.rs2, 0, simm16(branch_offset(g.imm)))
    <3>1. translate_one_riscv(g) = << a >>
      BY <1>1, <2>5, <3>0 DEF translate_one_riscv, beq, bne
    <3>2. a.op = g.funct /\ a.rd = g.rs1 /\ a.ra = g.rs2
      BY DEF rtype
    <3>3. translate_one(i, g) = << a >> /\ g.funct \notin Functs \ {"BEQ", "BNE"}
      BY <1>2, <2>0, <3>0, <3>1
    <3> HIDE DEF a
    <3> QED
      BY <1>0, <2>5, <3>0, <3>2, <3>3, FollowsIdle
  <2>6. CASE /\ g.opcode \notin {"OP", "OP_IMM", "LOAD", "STORE", "BRANCH", "JAL"}
             /\ g.funct \notin Functs
    <3>1. translate_one_riscv(g) = << >>
      BY <2>6 DEF translate_one_riscv
    <3>2. ~Taken(h, g) /\ g.opcode # "STORE"
      BY <2>6 DEF Taken, Functs
    <3> QED
      BY <1>0, <2>0, <2>6, <3>1, <3>2, FollowsIdle
  <2> QED
    BY <2>0, <2>1, <2>2, <2>3, <2>4, <2>5, <2>6 DEF RiscvCovered
<1> QED
  BY <1>3, <1>4

--------------------------------------------------------------------------------
\* The simulation

\* The inductive invariant: a program of the engine's instruction sets, and a core and
\* a hart that agree and are at the same instruction.
Agree ==
    /\ isa \in {"RISCV64", "ARM64"} /\ code \in Seq(GuestInstruction)
    /\ hart.at \in 1 .. Len(code) + 1
    /\ Mirrors(novium, hart) /\ InStep

\* It holds of a program that was just loaded.
LEMMA GuestInitAgrees == GuestInit => Agree
<1> SUFFICES ASSUME NEW p \in GuestPrograms, GuestStart(p) PROVE Agree
  BY DEF GuestInit
<1>1. isa \in {"RISCV64", "ARM64"} /\ code \in Seq(GuestInstruction)
  BY GuestAssumption DEF GuestStart
<1>2. /\ hart.at = 1 /\ hart.x = [r \in GuestReg |-> 0]
      /\ hart.mem = [a \in Addr |-> a + 1] /\ novium = [NewCore EXCEPT !.mem = hart.mem]
  BY DEF GuestStart
<1>3. hart.x \in [GuestReg -> GuestWord] /\ hart.mem \in [Addr -> Word]
  BY <1>2, GuestTypes, GuestAssumption, MachineAssumption, IsaAssumption DEF Addr, Word
<1>4. /\ novium \in CoreState /\ ~novium.mmu /\ novium.mem = hart.mem /\ novium.pc = 0
      /\ novium.gpr = [r \in Gpr |-> 0]
  <2>1. ~NewCore.mmu /\ NewCore.pc = 0 /\ NewCore.gpr = [r \in Gpr |-> 0]
    BY DEF NewCore
  <2>2. NewCore \in CoreState
    BY NewCoreType
  <2> QED
    BY <1>2, <1>3, <2>1, <2>2 DEF CoreState
<1>5. \A r \in 1 .. Temp - 1 : novium.gpr[r] = Low(hart.x[r])
  <2>1. Low(0) = 0
    BY GuestTypes, SmallWords
  <2> QED
    BY <1>2, <1>4, <2>1, IsaAssumption DEF Temp, Gpr, GuestReg
<1>6. InStep
  BY <1>1, <1>2, <1>4, Starts DEF InStep
<1>7. hart.at \in 1 .. Len(code) + 1
  BY <1>1, <1>2, LenProperties
<1> QED
  BY <1>1, <1>3, <1>4, <1>5, <1>6, <1>7 DEF Agree, Mirrors

\* A covered instruction keeps it.
LEMMA GuestStepAgrees ==
    ASSUME Agree, Covered, [GuestStep]_guest_vars
    PROVE  Agree'
<1>1. CASE UNCHANGED guest_vars
  BY <1>1 DEF guest_vars, Agree, InStep, Start
<1>2. CASE GuestStep
  <2> DEFINE k == hart.at
             g == code[k]
             s == translate_one(isa, g)
  <2>0. /\ isa \in {"RISCV64", "ARM64"} /\ code \in Seq(GuestInstruction)
        /\ Mirrors(novium, hart) /\ novium.pc = Start(k)
    BY DEF Agree, InStep
  <2>1. k \in 1 .. Len(code) /\ Len(code) \in Nat /\ g \in GuestInstruction
    BY <1>2, <2>0, LenProperties, ElementOfSeq DEF GuestStep
  <2>2. InstructionCovered(isa, hart, g) /\ 4 * Len(translate_bytes(isa, code)) < WordCount
    BY <1>2 DEF Covered, GuestStep
  <2>3. /\ isa' = isa /\ code' = code /\ hart' = Retire(hart, g) /\ novium' = Ran(novium, s)
    BY <1>2 DEF GuestStep
  <2>4. Followed(isa, novium, hart, g)
    BY <2>0, <2>1, <2>2, FollowsCovered
  <2>5. /\ Start(k) \in Nat /\ Start(k + 1) = Start(k) + 4 * Len(s) /\ Start(k + 1) < WordCount
        /\ Len(s) \in {1, 2}
    <3>1. /\ Start(k) \in Nat /\ Start(k + 1) = Start(k) + 4 * Len(s)
          /\ Start(k + 1) <= 4 * Len(translate_bytes(isa, code))
      BY <2>0, <2>1, Starts
    <3>2. Len(s) \in {1, 2}
      BY <2>1, LoweringType
    <3>3. Len(translate_bytes(isa, code)) \in Nat
      BY <2>0, Starts
    <3> QED
      BY <2>2, <3>1, <3>2, <3>3, IsaAssumption
  <2> HIDE DEF k, g, s
  <2>6. Mirrors(novium', hart') /\ hart'.at = k + 1
    BY <2>3, <2>4 DEF Followed, s, k
  <2>7. novium'.pc = Start(k + 1)
    <3>0. WordCount \in Nat \ {0}
      BY IsaAssumption
    <3>1. CASE Len(s) = 1
      <4>1. novium'.pc = Plus(Start(k), 4)
        BY <2>0, <2>3, <2>4, <3>1 DEF Followed, s
      <4> QED
        BY <2>5, <3>0, <3>1, <4>1 DEF Plus
    <3>2. CASE Len(s) = 2
      <4>1. novium'.pc = Plus(Plus(Start(k), 4), 4)
        BY <2>0, <2>3, <2>4, <3>2 DEF Followed, s
      <4>2. Plus(Start(k), 4) = Start(k) + 4
        BY <2>5, <3>0, <3>2 DEF Plus
      <4> QED
        BY <2>5, <3>0, <3>2, <4>1, <4>2 DEF Plus
    <3> QED
      BY <2>5, <3>1, <3>2
  <2>8. InStep'
    BY <2>3, <2>6, <2>7 DEF InStep, Start
  <2> QED
    BY <2>0, <2>1, <2>3, <2>6, <2>8 DEF Agree
<1> QED
  BY <1>1, <1>2

\* The translation computes the low halves of what a guest of double width computes,
\* instruction by instruction, as long as the program stays within what the engine can
\* lower: no taken branch and no ADDI of a negative number (both go wrong: BranchesLand
\* and NegativeImmediatesLost), registers below the temporary, data in plain memory, and no
\* branch that only the upper halves decide (translate_one_riscv, translate_one_arm64
\* and the handlers of the emitted words).
THEOREM TranslationSimulates == GuestSpec /\ []Covered => []GuestSimulated
<1>1. Agree => GuestSimulated
  <2> SUFFICES ASSUME Agree PROVE GuestSimulated
    OBVIOUS
  <2>1. \A r \in 1 .. Temp - 1 : novium.gpr[r] = Low(Value(hart.x, r))
    BY DEF Agree, Mirrors, Value
  <2> QED
    BY <2>1 DEF Agree, Mirrors, GuestSimulated
<1>2. GuestInit => Agree
  BY GuestInitAgrees
<1>3. Agree /\ Covered /\ [GuestStep]_guest_vars => Agree'
  BY GuestStepAgrees
<1> QED
  BY <1>1, <1>2, <1>3, PTL DEF GuestSpec

--------------------------------------------------------------------------------
\* The driver's programs

\* What the programs of the driver need of the machine.  In the code there are 16 general
\* and 8 vector registers, a tile of 4, 16-bit immediates and an 8-deep fabric, and the
\* three lines the programs write lie inside their memories.
Layout ==
    /\ NumGpr >= 13 /\ NumVr >= 4 /\ TileSize >= 4 /\ ImmCount >= 6 /\ WordCount > 22
    /\ RamSize >= 2 /\ MainResult \in RamAddr
    /\ ScratchA \in Addr /\ ScratchB \in Addr /\ ScratchA # ScratchB
    /\ Axi.max_outstanding >= 3

\* The elements of a concatenation.
Concatenates(s, a, b, S) ==
    /\ s \in Seq(S) /\ Size(s) = Size(a) + Size(b)
    /\ \A k \in 1 .. Size(a) : s[k] = a[k]
    /\ \A k \in 1 .. Size(b) : s[k + Size(a)] = b[k]

LEMMA CatElements ==
    ASSUME NEW S, NEW a \in Seq(S), NEW b \in Seq(S)
    PROVE  Concatenates(Cat(a, b), a, b, S)
<1>1. Size(a) \in Nat /\ Size(b) \in Nat
  BY LenProperties DEF Size
<1>2. /\ Cat(a, b) \in Seq(S) /\ Size(Cat(a, b)) = Size(a) + Size(b)
      /\ \A i \in 1 .. Size(a) + Size(b) :
            Cat(a, b)[i] = IF i <= Size(a) THEN a[i] ELSE b[i - Size(a)]
  BY ConcatProperties DEF Cat, Size
<1>3. ASSUME NEW k \in 1 .. Size(b) PROVE Cat(a, b)[k + Size(a)] = b[k]
  <2>1. /\ k + Size(a) \in 1 .. Size(a) + Size(b) /\ ~(k + Size(a) <= Size(a))
        /\ (k + Size(a)) - Size(a) = k
    BY <1>1
  <2> QED
    BY <1>2, <2>1
<1>4. ASSUME NEW k \in 1 .. Size(a) PROVE Cat(a, b)[k] = a[k]
  <2>1. k \in 1 .. Size(a) + Size(b) /\ k <= Size(a)
    BY <1>1
  <2> QED
    BY <1>2, <2>1
<1> QED
  BY <1>2, <1>3, <1>4 DEF Concatenates

\* A sequence of seven, one of eleven and a rest, joined.
Phases(s, a, b, c, n, S) ==
    /\ s \in Seq(S) /\ Size(s) = 18 + n
    /\ \A k \in 1 .. 7 : s[k] = a[k]
    /\ \A k \in 1 .. 11 : s[k + 7] = b[k]
    /\ \A k \in 1 .. n : s[k + 18] = c[k]

LEMMA ThreeParts ==
    ASSUME NEW S, NEW a \in Seq(S), NEW b \in Seq(S), NEW c \in Seq(S), NEW n \in Nat,
           Size(a) = 7, Size(b) = 11, Size(c) = n
    PROVE  Phases(Cat(Cat(a, b), c), a, b, c, n, S)
<1> DEFINE ab == Cat(a, b)
           s == Cat(ab, c)
<1>1. /\ ab \in Seq(S) /\ Size(ab) = 18
      /\ \A k \in 1 .. 7 : ab[k] = a[k]
      /\ \A k \in 1 .. 11 : ab[k + 7] = b[k]
  <2>1. Concatenates(ab, a, b, S)
    BY CatElements
  <2> HIDE DEF ab
  <2> QED
    BY <2>1 DEF Concatenates
<1> HIDE DEF ab
<1>2. /\ s \in Seq(S) /\ Size(s) = 18 + n
      /\ \A k \in 1 .. 18 : s[k] = ab[k]
      /\ \A k \in 1 .. n : s[k + 18] = c[k]
  <2>0. ab \in Seq(S)
    BY <1>1
  <2>1. Concatenates(s, ab, c, S)
    BY <2>0, CatElements
  <2> HIDE DEF s
  <2> QED
    BY <1>1, <2>1 DEF Concatenates
<1> HIDE DEF s
<1>3. ASSUME NEW k \in 1 .. 7 PROVE s[k] = a[k]
  <2>1. k \in 1 .. 18
    OBVIOUS
  <2> QED
    BY <1>1, <1>2, <2>1
<1>4. ASSUME NEW k \in 1 .. 11 PROVE s[k + 7] = b[k]
  <2>1. k + 7 \in 1 .. 18
    OBVIOUS
  <2> QED
    BY <1>1, <1>2, <2>1
<1> QED
  <2>1. Phases(s, a, b, c, n, S)
    BY <1>2, <1>3, <1>4 DEF Phases
  <2> QED
    BY <2>1 DEF s, ab

\* The two phases the programs share.
SharedPhases(s) ==
    /\ s[1] = movi(1, 0) /\ s[2] = movi(2, 5) /\ s[3] = movi(4, 1) /\ s[4] = movi(3, 0)
    /\ s[5] = add(1, 1, 4) /\ s[6] = add(3, 3, 1) /\ s[7] = bne(1, 2, -3)
    /\ s[8] = movi(5, ScratchA) /\ s[9] = movi(6, ScratchB)
    /\ s[10] = movi(7, MainA) /\ s[11] = movi(8, MainB)
    /\ s[12] = dma_load(5, 7, 1) /\ s[13] = dma_load(6, 8, 1)
    /\ s[14] = load_vr(0, 5, 0) /\ s[15] = load_vr(1, 6, 0) /\ s[16] = vec_add(2, 0, 1)
    /\ s[17] = matmul_tile(3, 0, 1, 4) /\ s[18] = store_vr(3, 5, 0)

\* What the immediates of the programs are after encoding and decoding.
LEMMA Immediates ==
    ASSUME Layout
    PROVE  /\ imm16(0) = 0 /\ imm16(1) = 1 /\ imm16(5) = 5 /\ simm16(0) = 0
           /\ imm16(ScratchA) = ScratchA /\ imm16(ScratchB) = ScratchB
           /\ imm16(MainResult) = MainResult /\ imm16(CrcSeed) = CrcSeed
           /\ simm16(-3) = (-3) % WordCount
           /\ {0, 1, 4, 5, ScratchA, ScratchB, MainResult, CrcSeed, simm16(-3)} \subseteq Word
<1>0. /\ ImmCount \in Nat /\ WordCount \in Nat /\ ImmCount <= WordCount /\ ImmCount >= 6
      /\ WordCount > 22
      /\ {ScratchA, ScratchB, MainResult, CrcSeed} \subseteq 0 .. ImmCount - 1
  BY IsaAssumption, DecoderAssumption, FrontendAssumption DEF Layout
<1>1. \A n \in 0 .. ImmCount - 1 : imm16(n) = n
  BY <1>0 DEF imm16
<1>2. simm16(0) = 0
  BY <1>0, <1>1 DEF simm16
<1>3. simm16(-3) = (-3) % WordCount
  BY <1>0, SignExtension
<1>4. simm16(-3) \in Word
  BY FieldTypes
<1> QED
  BY <1>0, <1>1, <1>2, <1>3, <1>4 DEF Word

\* The words of the two phases and of the driver's programs.
LEMMA ProgramTexts ==
    ASSUME Layout
    PROVE  /\ Len(DemoProgram) = 21 /\ SharedPhases(DemoProgram)
           /\ DemoProgram[19] = movi(9, MainResult) /\ DemoProgram[20] = dma_store(9, 5, 1)
           /\ DemoProgram[21] = make("HALT")
           /\ Len(build_iteration) = 22 /\ SharedPhases(build_iteration)
           /\ build_iteration[19] = movi(10, CrcSeed) /\ build_iteration[20] = add(11, 10, 3)
           /\ build_iteration[21] = mul(12, 11, 3) /\ build_iteration[22] = make("HALT")
           /\ DemoProgram \in Seq(Emitted) /\ build_iteration \in Seq(Emitted)
<1>1. \A op \in Opcode, a, b, c \in Nat, n \in Int : rtype(op, a, b, c, n) \in Emitted
  BY DEF rtype, Emitted
<1>2. {"ADD", "MUL", "MOVI", "BNE", "VEC_ADD", "MATMUL_TILE", "DMA_LOAD", "DMA_STORE",
       "LOAD_VR", "STORE_VR", "HALT"} \subseteq Opcode
  BY DEF Opcode, Dispatched, ScalarOps, VectorOps, BranchOps, DmaOps
<1>3. \A n \in Int : imm16(n) \in Int /\ simm16(n) \in Int
  BY FieldTypes, IsaAssumption DEF Word
<1>4. ScratchA \in Int /\ ScratchB \in Int /\ MainResult \in Int /\ CrcSeed \in Int
  BY FrontendAssumption, DecoderAssumption
<1>5. /\ \A r \in Nat, n \in Int : movi(r, n) \in Emitted
      /\ \A a, b \in Nat : /\ bne(a, b, -3) \in Emitted /\ load_vr(a, b, 0) \in Emitted
                           /\ store_vr(a, b, 0) \in Emitted
      /\ \A a, b, c \in Nat : /\ add(a, b, c) \in Emitted /\ mul(a, b, c) \in Emitted
                              /\ vec_add(a, b, c) \in Emitted
                              /\ matmul_tile(a, b, c, 4) \in Emitted
                              /\ dma_load(a, b, c) \in Emitted /\ dma_store(a, b, c) \in Emitted
      /\ make("HALT") \in Emitted
  BY <1>1, <1>2, <1>3
     DEF movi, bne, load_vr, store_vr, add, mul, vec_add, matmul_tile, dma_load, dma_store, make
<1>6. ScalarLoop \in Seq(Emitted) /\ Len(ScalarLoop) = 7
  BY <1>5 DEF ScalarLoop
<1>7. MatrixPhase \in Seq(Emitted) /\ Len(MatrixPhase) = 11
  BY <1>4, <1>5 DEF MatrixPhase, MainA, MainB
<1> DEFINE d == << movi(9, MainResult), dma_store(9, 5, 1), make("HALT") >>
           b == << movi(10, CrcSeed), add(11, 10, 3), mul(12, 11, 3), make("HALT") >>
<1>8. d \in Seq(Emitted) /\ Len(d) = 3 /\ b \in Seq(Emitted) /\ Len(b) = 4
  BY <1>4, <1>5
<1> DEFINE Shared(s) == /\ \A k \in 1 .. 7 : s[k] = ScalarLoop[k]
                        /\ \A k \in 1 .. 11 : s[k + 7] = MatrixPhase[k]
<1>9. ASSUME NEW s, Shared(s) PROVE SharedPhases(s)
  <2>1. /\ s[1] = ScalarLoop[1] /\ s[2] = ScalarLoop[2] /\ s[3] = ScalarLoop[3]
        /\ s[4] = ScalarLoop[4] /\ s[5] = ScalarLoop[5] /\ s[6] = ScalarLoop[6]
        /\ s[7] = ScalarLoop[7]
    BY <1>9
  <2>2. /\ s[8] = MatrixPhase[1] /\ s[9] = MatrixPhase[2] /\ s[10] = MatrixPhase[3]
        /\ s[11] = MatrixPhase[4] /\ s[12] = MatrixPhase[5] /\ s[13] = MatrixPhase[6]
        /\ s[14] = MatrixPhase[7] /\ s[15] = MatrixPhase[8] /\ s[16] = MatrixPhase[9]
        /\ s[17] = MatrixPhase[10] /\ s[18] = MatrixPhase[11]
    <3>1. \A k \in 1 .. 11 : s[k + 7] = MatrixPhase[k]
      BY <1>9
    <3> QED
      BY <3>1
  <2> QED
    BY <2>1, <2>2 DEF SharedPhases, ScalarLoop, MatrixPhase
<1>10. /\ DemoProgram \in Seq(Emitted) /\ Len(DemoProgram) = 21 /\ Shared(DemoProgram)
       /\ \A k \in 1 .. 3 : DemoProgram[k + 18] = d[k]
  <2> HIDE DEF d
  <2>1. DemoProgram = Cat(Cat(ScalarLoop, MatrixPhase), d)
    BY DEF DemoProgram, d, Cat
  <2>2. Size(ScalarLoop) = 7 /\ Size(MatrixPhase) = 11 /\ Size(d) = 3
    BY <1>6, <1>7, <1>8 DEF Size
  <2>3. /\ DemoProgram \in Seq(Emitted) /\ Size(DemoProgram) = 18 + 3 /\ Shared(DemoProgram)
        /\ \A k \in 1 .. 3 : DemoProgram[k + 18] = d[k]
    <3>1. \A n \in Nat : Size(d) = n =>
            Phases(Cat(Cat(ScalarLoop, MatrixPhase), d), ScalarLoop, MatrixPhase, d, n, Emitted)
      <4>1. /\ ScalarLoop \in Seq(Emitted) /\ MatrixPhase \in Seq(Emitted) /\ d \in Seq(Emitted)
            /\ Size(ScalarLoop) = 7 /\ Size(MatrixPhase) = 11
        BY <1>6, <1>7, <1>8, <2>2
      <4> QED
        BY <4>1, ThreeParts
    <3>2. Phases(DemoProgram, ScalarLoop, MatrixPhase, d, 3, Emitted)
      BY <2>1, <2>2, <3>1
    <3> QED
      BY <3>2 DEF Phases
  <2> QED
    BY <2>3 DEF Size
<1>11. /\ build_iteration \in Seq(Emitted) /\ Len(build_iteration) = 22 /\ Shared(build_iteration)
       /\ \A k \in 1 .. 4 : build_iteration[k + 18] = b[k]
  <2> HIDE DEF b
  <2>1. build_iteration = Cat(Cat(ScalarLoop, MatrixPhase), b)
    BY DEF build_iteration, b, Cat
  <2>2. Size(ScalarLoop) = 7 /\ Size(MatrixPhase) = 11 /\ Size(b) = 4
    BY <1>6, <1>7, <1>8 DEF Size
  <2>3. /\ build_iteration \in Seq(Emitted) /\ Size(build_iteration) = 18 + 4
        /\ Shared(build_iteration) /\ \A k \in 1 .. 4 : build_iteration[k + 18] = b[k]
    <3>1. \A n \in Nat : Size(b) = n =>
            Phases(Cat(Cat(ScalarLoop, MatrixPhase), b), ScalarLoop, MatrixPhase, b, n, Emitted)
      <4>1. /\ ScalarLoop \in Seq(Emitted) /\ MatrixPhase \in Seq(Emitted) /\ b \in Seq(Emitted)
            /\ Size(ScalarLoop) = 7 /\ Size(MatrixPhase) = 11
        BY <1>6, <1>7, <1>8, <2>2
      <4> QED
        BY <4>1, ThreeParts
    <3>2. Phases(build_iteration, ScalarLoop, MatrixPhase, b, 4, Emitted)
      BY <2>1, <2>2, <3>1
    <3> QED
      BY <3>2 DEF Phases
  <2> QED
    BY <2>3 DEF Size
<1>12. /\ DemoProgram[19] = d[1] /\ DemoProgram[20] = d[2] /\ DemoProgram[21] = d[3]
  BY <1>10
<1>13. /\ build_iteration[19] = b[1] /\ build_iteration[20] = b[2]
       /\ build_iteration[21] = b[3] /\ build_iteration[22] = b[4]
  BY <1>11
<1>14. SharedPhases(DemoProgram) /\ SharedPhases(build_iteration)
  BY <1>9, <1>10, <1>11
<1> QED
  BY <1>10, <1>11, <1>12, <1>13, <1>14

--------------------------------------------------------------------------------
\* One instruction of the driver's loops

\* The core past the fetch, and behind the instruction and the ticks that follow it.
Past(c) == [c EXCEPT !.pc = Plus(c.pc, 1)]
Retires(c, i) ==
    LET r == Handled(Past(c), i)
    IN  tick_peripherals(Retired(r.m, i, r.cycles))

\* Transactions in flight.
Queued(c) == Len(c.axi.pending)

\* The core at the next instruction, n cycles later.
Went(e, c, n) ==
    /\ e \in CoreState /\ ~e.mmu /\ e.target = c.target
    /\ e.prof.cycles = c.prof.cycles + n /\ Queued(e) <= Queued(c)

\* Registers, vector registers and both memories, named for the lemmas below.
SameData(e, c) == e.vr = c.vr /\ e.mem = c.mem /\ e.ram = c.ram

\* A core the lemmas are about: no translation, and the next address is a word.
Ready(c) == c \in CoreState /\ ~c.mmu /\ c.pc + 1 < WordCount

\* What the fetch leaves alone.
Fetched(d, c) ==
    /\ d \in CoreState /\ ~d.mmu /\ d.pc = c.pc + 1 /\ d.halt = c.halt
    /\ d.target = c.target /\ d.gpr = c.gpr /\ SameData(d, c)
    /\ d.prof = c.prof /\ d.axi = c.axi
    /\ \A r : read_gpr(d, r) = read_gpr(c, r)

LEMMA PastCore ==
    ASSUME NEW c, Ready(c)
    PROVE  Fetched(Past(c), c)
<1>1. c.pc \in Nat /\ WordCount \in Nat /\ c.pc + 1 < WordCount
  BY IsaAssumption DEF Ready, CoreState, Word
<1>2. Plus(c.pc, 1) = c.pc + 1 /\ c.pc + 1 \in Word
  BY <1>1 DEF Plus, Word
<1> QED
  BY <1>2 DEF Ready, Past, CoreState, SameData, read_gpr, Fetched

\* What the accounting and the ticks leave of a handler's result.
Behind(e, r, c) ==
    /\ e \in CoreState /\ e.pc = r.m.pc /\ e.halt = r.m.halt /\ e.mmu = r.m.mmu
    /\ e.target = c.target /\ e.gpr = r.m.gpr /\ SameData(e, r.m)
    /\ e.prof.cycles = r.m.prof.cycles + r.cycles
    /\ Queued(e) <= Queued(r.m)

LEMMA BehindHandler ==
    ASSUME NEW c, Ready(c), NEW i, WellFormed(i), i.op \in Dispatched
    PROVE  Behind(Retires(c, i), Handled(Past(c), i), c) /\ Queued(Retires(c, i)) \in Nat
<1> DEFINE d == Past(c)
           r == Handled(d, i)
           e == Retires(c, i)
<1>1. d \in CoreState /\ d.target = c.target
  BY PastCore DEF Fetched
<1> HIDE DEF d
<1>2. r.m \in CoreState /\ r.cycles \in Nat /\ r.m.target = c.target
  BY <1>1, HandledGood DEF GoodResult, Same
<1>3. i.imm \in Nat
  BY IsaAssumption DEF WellFormed, Instruction, Word
<1>4. e = tick_peripherals(Retired(r.m, i, r.cycles))
  BY DEF Retires, d
<1> HIDE DEF r, e
<1>5. Behind(e, r, c)
  BY <1>2, <1>3, <1>4, RetiredTicked DEF SameData, Queued, Behind
<1>6. Queued(e) \in Nat
  <2>1. e.axi.pending \in Seq(Nat)
    BY <1>5 DEF Behind, CoreState, Fabric
  <2> QED
    BY <2>1, LenProperties DEF Queued
<1> QED
  BY <1>5, <1>6 DEF r, e, d

\* A handler that keeps pc, profile and fabric, and takes n cycles.
LEMMA WentOn ==
    ASSUME NEW c, NEW d, Fetched(d, c), NEW r, NEW e, Behind(e, r, c),
           Kept(r.m, d), r.m.prof = d.prof, r.m.axi = d.axi
    PROVE  Went(e, c, r.cycles) /\ e.pc = c.pc + 1 /\ e.halt = c.halt
<1>1. Queued(r.m) = Queued(c)
  BY DEF Queued, Fetched
<1> QED
  BY <1>1 DEF Went, Kept, Fetched, Behind

\* A register operation.
LEMMA PerformsRegister ==
    ASSUME NEW c, Ready(c), NEW i, WellFormed(i), i.op \in {"ADD", "MUL", "MOVI"}
    PROVE  LET e == Retires(c, i)
           IN  /\ Handled(Past(c), i).end = "ok"
               /\ Went(e, c, cycle_weight(i.op, 0)) /\ e.pc = c.pc + 1 /\ e.halt = c.halt
               /\ e.gpr = write_gpr(c.gpr, i.rd, Computed(c, i)) /\ SameData(e, c)
<1> DEFINE d == Past(c)
           r == Handled(d, i)
           e == Retires(c, i)
<1>1. Fetched(d, c)
  BY PastCore
<1>2. Behind(e, r, c)
  BY BehindHandler DEF Dispatched, ScalarOps
<1> HIDE DEF d, e
<1>3. /\ r.end = "ok" /\ r.cycles = cycle_weight(i.op, 0)
      /\ r.m.gpr = write_gpr(d.gpr, i.rd, Computed(d, i))
      /\ Kept(r.m, d) /\ r.m.prof = d.prof /\ r.m.axi = d.axi /\ SameData(r.m, d)
  BY <1>1, RegisterEffect DEF SameData, Fetched
<1> HIDE DEF r
<1>4. Computed(d, i) = Computed(c, i)
  BY <1>1 DEF Computed, Fetched
<1>5. Went(e, c, r.cycles) /\ e.pc = c.pc + 1 /\ e.halt = c.halt
  BY <1>1, <1>2, <1>3, WentOn
<1>6. e.gpr = write_gpr(c.gpr, i.rd, Computed(c, i)) /\ SameData(e, c)
  BY <1>1, <1>2, <1>3, <1>4 DEF SameData, Fetched, Behind
<1> QED
  BY <1>3, <1>5, <1>6 DEF r, e, d

\* A branch; the program counter is past it when it is not taken.
LEMMA PerformsBranch ==
    ASSUME NEW c, Ready(c), NEW i, WellFormed(i), i.op = "BNE"
    PROVE  LET e == Retires(c, i)
               taken == read_gpr(c, i.rd) # read_gpr(c, i.ra)
           IN  /\ Handled(Past(c), i).end = "ok"
               /\ Went(e, c, IF taken THEN 3 ELSE 2)
               /\ e.pc = IF taken THEN Plus(c.pc + 1, i.imm) ELSE c.pc + 1
               /\ e.halt = c.halt /\ e.gpr = c.gpr /\ SameData(e, c)
<1> DEFINE d == Past(c)
           r == Handled(d, i)
           e == Retires(c, i)
           taken == read_gpr(c, i.rd) # read_gpr(c, i.ra)
<1>1. Fetched(d, c)
  BY PastCore
<1>2. Behind(e, r, c)
  BY BehindHandler DEF Dispatched, BranchOps
<1> HIDE DEF d, e
<1>3. BranchTaken(d, i) <=> taken
  BY <1>1 DEF BranchTaken, Fetched
<1>4. /\ r.end = "ok"
      /\ taken => r.m = [d EXCEPT !.pc = Plus(d.pc, i.imm)] /\ r.cycles = 3
      /\ ~taken => r.m = d /\ r.cycles = 2
  BY <1>1, <1>3, BranchEffect DEF Fetched
<1> HIDE DEF r, taken
<1>5. /\ r.m.pc = IF taken THEN Plus(c.pc + 1, i.imm) ELSE c.pc + 1
      /\ r.m.halt = c.halt /\ ~r.m.mmu /\ r.m.gpr = c.gpr /\ SameData(r.m, c)
      /\ r.m.prof = c.prof /\ r.m.axi = c.axi /\ r.cycles = IF taken THEN 3 ELSE 2
  <2>1. CASE taken
    <3> DEFINE p == Plus(d.pc, i.imm)
    <3>1. p = Plus(c.pc + 1, i.imm)
      BY <1>1 DEF Fetched
    <3> HIDE DEF p
    <3>2. r.m = [d EXCEPT !.pc = p]
      BY <1>4, <2>1 DEF p
    <3>3. /\ r.m.pc = p /\ r.m.halt = d.halt /\ r.m.mmu = d.mmu /\ r.m.gpr = d.gpr
          /\ SameData(r.m, d) /\ r.m.prof = d.prof /\ r.m.axi = d.axi
      BY <1>1, <3>2 DEF CoreState, SameData, Fetched
    <3> QED
      BY <1>1, <1>4, <2>1, <3>1, <3>3 DEF Fetched, SameData
  <2>2. CASE ~taken
    BY <1>1, <1>4, <2>2 DEF Fetched, SameData
  <2> QED
    BY <2>1, <2>2
<1>6. Queued(r.m) = Queued(c)
  BY <1>5 DEF Queued
<1>7. Went(e, c, IF taken THEN 3 ELSE 2)
  BY <1>2, <1>5, <1>6 DEF Went, Behind
<1>8. /\ e.pc = IF taken THEN Plus(c.pc + 1, i.imm) ELSE c.pc + 1
      /\ e.halt = c.halt /\ e.gpr = c.gpr /\ SameData(e, c)
  BY <1>2, <1>5 DEF Behind, SameData
<1> QED
  BY <1>4, <1>7, <1>8 DEF r, e, d, taken

\* HALT.
LEMMA PerformsHalt ==
    ASSUME NEW c, Ready(c), NEW i, WellFormed(i), i.op = "HALT"
    PROVE  LET e == Retires(c, i)
           IN  /\ Handled(Past(c), i).end = "ok"
               /\ Went(e, c, 0) /\ e.pc = c.pc + 1 /\ e.halt
               /\ e.gpr = c.gpr /\ SameData(e, c)
<1> DEFINE d == Past(c)
           r == Handled(d, i)
           e == Retires(c, i)
<1>1. Fetched(d, c)
  BY PastCore
<1>2. Behind(e, r, c)
  BY BehindHandler DEF Dispatched
<1> HIDE DEF d, e
<1>3. r.end = "ok" /\ r.cycles = 0 /\ r.m = [d EXCEPT !.halt = TRUE]
  BY <1>1 DEF Handled, op_halt, Ok, Fetched
<1> HIDE DEF r
<1>4. /\ r.m.pc = d.pc /\ r.m.halt /\ r.m.mmu = d.mmu /\ r.m.gpr = d.gpr
      /\ SameData(r.m, d) /\ r.m.prof = d.prof /\ r.m.axi = d.axi
  BY <1>1, <1>3 DEF CoreState, SameData, Fetched
<1>5. Queued(r.m) = Queued(c)
  BY <1>1, <1>4 DEF Queued, Fetched
<1>6. Went(e, c, 0)
  BY <1>1, <1>2, <1>3, <1>4, <1>5 DEF Went, Behind, Fetched
<1>7. e.pc = c.pc + 1 /\ e.halt /\ e.gpr = c.gpr /\ SameData(e, c)
  BY <1>1, <1>2, <1>4 DEF Behind, SameData, Fetched
<1> QED
  BY <1>3, <1>6, <1>7 DEF r, e, d

\* A vector register loaded from or stored to the scratchpad.
LEMMA PerformsVectorMemory ==
    ASSUME NEW c, Ready(c), NEW i, WellFormed(i), i.op \in {"LOAD_VR", "STORE_VR"},
           NEW a \in Addr, EffectiveAddress(c, i) = a
    PROVE  LET e == Retires(c, i)
           IN  /\ Handled(Past(c), i).end = "ok"
               /\ Went(e, c, 5) /\ e.pc = c.pc + 1 /\ e.halt = c.halt
               /\ e.gpr = c.gpr /\ e.ram = c.ram
               /\ i.op = "LOAD_VR" => e.vr = [c.vr EXCEPT ![i.rd] = c.mem[a]] /\ e.mem = c.mem
               /\ i.op = "STORE_VR" => e.mem = [c.mem EXCEPT ![a] = c.vr[i.rd]] /\ e.vr = c.vr
<1> DEFINE d == Past(c)
           r == Handled(d, i)
           e == Retires(c, i)
<1>1. Fetched(d, c)
  BY PastCore
<1>2. Behind(e, r, c)
  BY BehindHandler DEF Dispatched, VectorOps
<1> HIDE DEF d, e
<1>3. EffectiveAddress(d, i) = a
  BY <1>1 DEF EffectiveAddress, Fetched
<1>4. /\ r.end = "ok" /\ r.cycles = 5 /\ Kept(r.m, d)
      /\ r.m.prof = d.prof /\ r.m.axi = d.axi /\ r.m.gpr = d.gpr /\ r.m.ram = d.ram
      /\ i.op = "LOAD_VR" => r.m.vr = [d.vr EXCEPT ![i.rd] = d.mem[a]] /\ r.m.mem = d.mem
      /\ i.op = "STORE_VR" => r.m.mem = [d.mem EXCEPT ![a] = d.vr[i.rd]] /\ r.m.vr = d.vr
  BY <1>1, <1>3, VectorMemoryEffect DEF Fetched
<1> HIDE DEF r
<1>5. Went(e, c, r.cycles) /\ e.pc = c.pc + 1 /\ e.halt = c.halt
  BY <1>1, <1>2, <1>4, WentOn
<1>6. /\ e.gpr = c.gpr /\ e.ram = c.ram
      /\ i.op = "LOAD_VR" => e.vr = [c.vr EXCEPT ![i.rd] = c.mem[a]] /\ e.mem = c.mem
      /\ i.op = "STORE_VR" => e.mem = [c.mem EXCEPT ![a] = c.vr[i.rd]] /\ e.vr = c.vr
  BY <1>1, <1>2, <1>4 DEF SameData, Fetched, Behind
<1> QED
  BY <1>4, <1>5, <1>6 DEF r, e, d

\* A kernel.
LEMMA PerformsKernel ==
    ASSUME NEW c, Ready(c), NEW i, WellFormed(i), i.op \in {"VEC_ADD", "MATMUL_TILE"},
           i.op = "MATMUL_TILE" => i.imm % 16 = 4, TileSize >= 4
    PROVE  LET e == Retires(c, i)
           IN  /\ Handled(Past(c), i).end = "ok"
               /\ e.pc = c.pc + 1 /\ e.halt = c.halt
               /\ e.gpr = c.gpr /\ e.mem = c.mem /\ e.ram = c.ram
               /\ i.op = "VEC_ADD" =>
                     /\ Went(e, c, profile_cycle_weight(c.target, "VEC_ADD", 0))
                     /\ e.vr = [c.vr EXCEPT ![i.rd] = Plus(c.vr[i.ra], c.vr[i.rb])]
               /\ i.op = "MATMUL_TILE" =>
                     /\ Went(e, c, profile_cycle_weight(c.target, "MATMUL_TILE", 4))
                     /\ e.vr = [c.vr EXCEPT ![i.rd] = Times(c.vr[i.ra], c.vr[i.rb])]
<1> DEFINE d == Past(c)
           r == Handled(d, i)
           e == Retires(c, i)
           pv == profile_cycle_weight(c.target, "VEC_ADD", 0)
           pm == profile_cycle_weight(c.target, "MATMUL_TILE", 4)
<1>1. Fetched(d, c)
  BY PastCore
<1>2. Behind(e, r, c)
  BY BehindHandler DEF Dispatched, VectorOps
<1> HIDE DEF d, e
<1>3. i.op = "MATMUL_TILE" => i.imm % 16 # 0 /\ ~(i.imm % 16 > TileSize)
  BY IsaAssumption
<1>4. /\ r.end = "ok" /\ Kept(r.m, d)
      /\ r.m.prof = d.prof /\ r.m.axi = d.axi /\ r.m.gpr = d.gpr
      /\ r.m.ram = d.ram /\ r.m.mem = d.mem
      /\ i.op = "VEC_ADD" =>
            /\ r.cycles = pv
            /\ r.m.vr = [d.vr EXCEPT ![i.rd] = Plus(d.vr[i.ra], d.vr[i.rb])]
      /\ i.op = "MATMUL_TILE" =>
            /\ r.cycles = pm
            /\ r.m.vr = [d.vr EXCEPT ![i.rd] = Times(d.vr[i.ra], d.vr[i.rb])]
  BY <1>1, <1>3, KernelEffect DEF Fetched
<1> HIDE DEF r, pv, pm
<1>5. Went(e, c, r.cycles) /\ e.pc = c.pc + 1 /\ e.halt = c.halt
  BY <1>1, <1>2, <1>4, WentOn
<1>6. /\ e.gpr = c.gpr /\ e.mem = c.mem /\ e.ram = c.ram
      /\ i.op = "VEC_ADD" => e.vr = [c.vr EXCEPT ![i.rd] = Plus(c.vr[i.ra], c.vr[i.rb])]
      /\ i.op = "MATMUL_TILE" => e.vr = [c.vr EXCEPT ![i.rd] = Times(c.vr[i.ra], c.vr[i.rb])]
  BY <1>1, <1>2, <1>4 DEF SameData, Fetched, Behind
<1> QED
  BY <1>4, <1>5, <1>6 DEF r, e, d, pv, pm

\* A transfer of one line; a DMA_LOAD that the fabric takes costs its weight alone.
Inside(i, t, s) ==
    IF i.op = "DMA_LOAD" THEN t \in Addr /\ s \in RamAddr ELSE t \in RamAddr /\ s \in Addr

Transferred(e, c, i, t, s) ==
    /\ e \in CoreState /\ ~e.mmu /\ e.target = c.target
    /\ e.prof.cycles = c.prof.cycles + profile_cycle_weight(c.target, i.op, 1)
    /\ Queued(e) <= Queued(c) + 1
    /\ e.pc = c.pc + 1 /\ e.halt = c.halt /\ e.gpr = c.gpr /\ e.vr = c.vr
    /\ i.op = "DMA_LOAD" => e.mem = [c.mem EXCEPT ![t] = c.ram[s]] /\ e.ram = c.ram
    /\ i.op = "DMA_STORE" => e.ram = [c.ram EXCEPT ![t] = c.mem[s]] /\ e.mem = c.mem

LEMMA PerformsDma ==
    ASSUME NEW c, Ready(c), NEW i, WellFormed(i), i.op \in DmaOps, i.imm = 1,
           NEW t \in Nat, NEW s \in Nat, read_gpr(c, i.rd) = t, read_gpr(c, i.ra) = s,
           Inside(i, t, s), Queued(c) < Axi.max_outstanding
    PROVE  Handled(Past(c), i).end = "ok" /\ Transferred(Retires(c, i), c, i, t, s)
<1> DEFINE d == Past(c)
           r == Handled(d, i)
           e == Retires(c, i)
           k == profile_cycle_weight(c.target, i.op, 1)
<1>1. Fetched(d, c)
  BY PastCore
<1>2. Behind(e, r, c)
  BY BehindHandler DEF Dispatched
<1>0. MemSize \in Nat /\ RamSize \in Nat
  BY MachineAssumption
<1> HIDE DEF d, e
<1>3. IF i.op = "DMA_LOAD" THEN t + 1 <= MemSize /\ s + 1 <= RamSize
      ELSE t + 1 <= RamSize /\ s + 1 <= MemSize
  BY <1>0 DEF Addr, RamAddr, Inside
<1>4. IssueAccepted(d.axi, Axi)
  BY <1>1 DEF IssueAccepted, Queued, Fetched
<1>5. /\ r.end = "ok" /\ Kept(r.m, d)
      /\ r.cycles = k
      /\ r.m.axi = fabric_issue(d.axi, Axi, 1, d.prof.cycles)
      /\ r.m.gpr = d.gpr /\ r.m.vr = d.vr /\ r.m.prof = d.prof
      /\ i.op = "DMA_LOAD" => r.m.mem = Copied(d.mem, t, d.ram, s, 1) /\ r.m.ram = d.ram
      /\ i.op = "DMA_STORE" => r.m.ram = Copied(d.ram, t, d.mem, s, 1) /\ r.m.mem = d.mem
  <2>1. d \in CoreState /\ ~d.mmu /\ read_gpr(d, i.rd) = t /\ read_gpr(d, i.ra) = s
        /\ d.target = c.target
    BY <1>1 DEF Fetched
  <2> QED
    BY <1>3, <1>4, <2>1, DmaEffect
<1> HIDE DEF r, k
<1>6. \A f, g : t \in DOMAIN f /\ f \in [DOMAIN f -> Word] =>
                  Copied(f, t, g, s, 1) = [f EXCEPT ![t] = g[s]]
  <2> SUFFICES ASSUME NEW f, NEW g, t \in DOMAIN f, f \in [DOMAIN f -> Word]
               PROVE  Copied(f, t, g, s, 1) = [f EXCEPT ![t] = g[s]]
    OBVIOUS
  <2>1. \A x : x \in t .. t + 1 - 1 <=> x = t
    OBVIOUS
  <2>2. s + t - t = s
    OBVIOUS
  <2> QED
    BY <2>1, <2>2 DEF Copied
<1>7. /\ d.mem \in [Addr -> Word] /\ d.ram \in [RamAddr -> Word]
      /\ d.mem = c.mem /\ d.ram = c.ram /\ d.vr = c.vr /\ d.gpr = c.gpr
  BY <1>1 DEF Fetched, CoreState, SameData
<1>8. /\ i.op = "DMA_LOAD" => r.m.mem = [c.mem EXCEPT ![t] = c.ram[s]] /\ r.m.ram = c.ram
      /\ i.op = "DMA_STORE" => r.m.ram = [c.ram EXCEPT ![t] = c.mem[s]] /\ r.m.mem = c.mem
  BY <1>5, <1>6, <1>7 DEF Inside
<1>9. Queued(r.m) = Queued(c) + 1 /\ Queued(c) \in Nat
  <2>1. c.axi \in Fabric /\ d.axi = c.axi /\ c.prof.cycles \in Nat /\ d.prof = c.prof
    BY <1>1 DEF Fetched, Ready, CoreState, Profile
  <2>2. c.axi.pending \in Seq(Nat)
    BY <2>1 DEF Fabric
  <2> DEFINE x == c.prof.cycles + latency_for(Axi, 1)
  <2>3. x \in Nat
    BY <2>1, LatencyType, MachineAssumption
  <2> HIDE DEF x
  <2>4. /\ Append(c.axi.pending, x) \in Seq(Nat) /\ Len(Append(c.axi.pending, x)) = Len(c.axi.pending) + 1
        /\ Len(c.axi.pending) \in Nat
    BY <2>2, <2>3, AppendProperties, LenProperties
  <2>5. r.m.axi.pending = Append(c.axi.pending, x)
    <3>1. r.m.axi = [c.axi EXCEPT !.pending = Append(c.axi.pending, x), !.cur = c.prof.cycles]
      BY <1>4, <1>5, <2>1 DEF fabric_issue, x
    <3> HIDE DEF x
    <3> DEFINE y == Append(c.axi.pending, x)
    <3> HIDE DEF y
    <3>2. r.m.axi = [c.axi EXCEPT !.pending = y, !.cur = c.prof.cycles]
      BY <3>1 DEF y
    <3>3. r.m.axi.pending = y
      BY <2>1, <3>2 DEF Fabric
    <3> QED
      BY <3>3 DEF y
  <2> QED
    BY <2>4, <2>5 DEF Queued
<1>10. /\ e \in CoreState /\ ~e.mmu /\ e.target = c.target
       /\ e.prof.cycles = c.prof.cycles + k /\ Queued(e) <= Queued(c) + 1
       /\ e.pc = c.pc + 1 /\ e.halt = c.halt /\ e.gpr = c.gpr /\ e.vr = c.vr
  BY <1>1, <1>2, <1>5, <1>9 DEF Fetched, Behind, Kept, SameData
<1>11. /\ i.op = "DMA_LOAD" => e.mem = [c.mem EXCEPT ![t] = c.ram[s]] /\ e.ram = c.ram
       /\ i.op = "DMA_STORE" => e.ram = [c.ram EXCEPT ![t] = c.mem[s]] /\ e.mem = c.mem
  BY <1>2, <1>8 DEF Behind, SameData
<1>12. Transferred(e, c, i, t, s)
  BY <1>10, <1>11 DEF Transferred, k
<1> QED
  BY <1>5, <1>12 DEF r, e, d

--------------------------------------------------------------------------------
\* The course of the two phases

\* The sum of 1 .. k.
Summed(k, s) ==
    \/ k = 0 /\ s = 0
    \/ k = 1 /\ s = 1
    \/ k = 2 /\ s = 3
    \/ k = 3 /\ s = 6
    \/ k = 4 /\ s = 10
    \/ k = 5 /\ s = 15

\* The registers before instruction p.
Scalars(p, g) ==
    /\ p \in 1 .. 3 => g[1] = 0
    /\ p >= 2 => g[2] = 5
    /\ p >= 3 => g[4] = 1
    /\ p = 4 => g[1] \in 0 .. 4 /\ Summed(g[1], g[3])
    /\ p = 5 => g[1] \in 1 .. 5 /\ Summed(g[1] - 1, g[3])
    /\ p = 6 => g[1] \in 1 .. 5 /\ Summed(g[1], g[3])
    /\ p >= 7 => g[3] = 15
    /\ p >= 8 => g[5] = ScratchA
    /\ p >= 9 => g[6] = ScratchB
    /\ p >= 10 => g[7] = 0
    /\ p >= 11 => g[8] = 1

\* The matrices, in main memory, in the scratchpad and in the vector registers.
Tiles(p, v, m, w) ==
    /\ p <= 18 => w[0] = MatrixA /\ w[1] = MatrixB
    /\ p \in 12 .. 17 => m[ScratchA] = MatrixA
    /\ p >= 13 => m[ScratchB] = MatrixB
    /\ p >= 14 => v[0] = MatrixA
    /\ p >= 15 => v[1] = MatrixB
    /\ p >= 17 => v[3] = Times(MatrixA, MatrixB)
    /\ p >= 18 => m[ScratchA] = Times(MatrixA, MatrixB)

\* The cycles, k rounds of the loop begun; only three instructions depend on the target.
LoadCost(t) == profile_cycle_weight(t, "DMA_LOAD", 1)
AddCost(t) == profile_cycle_weight(t, "VEC_ADD", 0)
TileCost(t) == profile_cycle_weight(t, "MATMUL_TILE", 4)

Spent(p, t, k, n) ==
    /\ p <= 3 => n = p
    /\ p = 4 => n = 4 + 5 * k
    /\ p = 5 => n = 5 * k
    /\ p = 6 => n = 5 * k + 1
    /\ p \in 7 .. 11 => n = 21 + p
    /\ p = 12 => n = 32 + LoadCost(t)
    /\ p = 13 => n = 32 + 2 * LoadCost(t)
    /\ p = 14 => n = 37 + 2 * LoadCost(t)
    /\ p = 15 => n = 42 + 2 * LoadCost(t)
    /\ p = 16 => n = 42 + 2 * LoadCost(t) + AddCost(t)
    /\ p = 17 => n = 42 + 2 * LoadCost(t) + AddCost(t) + TileCost(t)
    /\ p = 18 => n = 47 + 2 * LoadCost(t) + AddCost(t) + TileCost(t)

\* The two transfers, the second of which must not find the fabric full.
InFlight(p, q) ==
    /\ p <= 11 => q = 0
    /\ p = 12 => q <= 1
    /\ p \in 13 .. 19 => q <= 2

OnCourse(c) ==
    /\ c \in CoreState /\ ~c.mmu /\ c.pc \in 0 .. 22
    /\ Scalars(c.pc, c.gpr) /\ Tiles(c.pc, c.vr, c.mem, c.ram)
    /\ Spent(c.pc, c.target, c.gpr[1], c.prof.cycles) /\ InFlight(c.pc, Queued(c))

\* A core on course can execute its next instruction.
LEMMA CourseReady ==
    ASSUME Layout, NEW c, OnCourse(c), c.pc <= 21
    PROVE  /\ Ready(c) /\ c.pc \in Nat /\ c.prof.cycles \in Nat /\ Queued(c) \in Nat
           /\ c.gpr \in [Gpr -> Word] /\ c.vr \in [Vr -> Word]
           /\ c.mem \in [Addr -> Word] /\ c.ram \in [RamAddr -> Word] /\ c.target \in Target
<1>1. c \in CoreState /\ ~c.mmu /\ c.pc \in 0 .. 21
  BY DEF OnCourse
<1>2. c.pc + 1 < WordCount
  BY <1>1, IsaAssumption DEF Layout
<1>3. c.axi.pending \in Seq(Nat)
  BY <1>1 DEF CoreState, Fabric
<1>4. Queued(c) \in Nat
  BY <1>3, LenProperties DEF Queued
<1>5. Ready(c) /\ c.pc \in Nat
  BY <1>1, <1>2 DEF Ready
<1>6. c.prof \in Profile
  BY <1>1 DEF CoreState
<1>7. c.prof.cycles \in Nat
  BY <1>6 DEF Profile
<1>8. /\ c.gpr \in [Gpr -> Word] /\ c.vr \in [Vr -> Word] /\ c.mem \in [Addr -> Word]
      /\ c.ram \in [RamAddr -> Word] /\ c.target \in Target
  BY <1>1 DEF CoreState
<1> QED
  BY <1>4, <1>5, <1>7, <1>8

\* The costs are numbers of cycles.
LEMMA CostTypes ==
    ASSUME NEW t \in Target
    PROVE  LoadCost(t) \in Nat /\ AddCost(t) \in Nat /\ TileCost(t) \in Nat
<1>1. DmaLine \in Nat \ {0}
  BY IsaAssumption
<1>2. (1 + DmaLine - 1) \div DmaLine \in Nat
  <2>1. 1 + DmaLine - 1 = DmaLine /\ DmaLine = DmaLine * 1 + 0
    BY <1>1
  <2> QED
    BY <1>1
<1>3. /\ cycle_weight("DMA_LOAD", 1) \in Nat /\ cycle_weight("VEC_ADD", 0) \in Nat
      /\ cycle_weight("MATMUL_TILE", 4) \in Nat
  BY <1>2 DEF cycle_weight, DmaOps
<1>4. \A op : cycle_override(t, op) \in Nat
  BY DEF cycle_override
<1> QED
  BY <1>3, <1>4 DEF LoadCost, AddCost, TileCost, profile_cycle_weight

\* The encoded words name registers that exist.
LEMMA EncodedWell ==
    ASSUME Layout
    PROVE  /\ \A r \in 1 .. 12, n \in Int : imm16(n) \in Word => WellFormed(movi(r, n))
           /\ \A a, b, c \in 1 .. 12 : WellFormed(add(a, b, c)) /\ WellFormed(mul(a, b, c))
           /\ WellFormed(bne(1, 2, -3)) /\ WellFormed(make("HALT"))
           /\ \A a, b \in 1 .. 12 : WellFormed(dma_load(a, b, 1)) /\ WellFormed(dma_store(a, b, 1))
           /\ \A v \in 0 .. 3, a \in 1 .. 12 :
                 WellFormed(load_vr(v, a, 0)) /\ WellFormed(store_vr(v, a, 0))
           /\ WellFormed(vec_add(2, 0, 1)) /\ WellFormed(matmul_tile(3, 0, 1, 4))
<1>1. /\ 0 .. 12 \subseteq Gpr /\ 0 .. 3 \subseteq Vr /\ 0 .. 12 \subseteq Nat
      /\ {0, 1, 4, simm16(0), simm16(-3)} \subseteq Word
  BY Immediates, IsaAssumption DEF Layout, Gpr, Vr
<1>2. /\ {"ADD", "MUL", "MOVI", "BNE", "VEC_ADD", "MATMUL_TILE", "DMA_LOAD", "DMA_STORE",
          "LOAD_VR", "STORE_VR", "HALT"} \subseteq Opcode
      /\ \A op \in {"ADD", "MUL", "MOVI", "BNE", "DMA_LOAD", "DMA_STORE", "HALT"} : op \notin VectorOps
  BY DEF Opcode, Dispatched, ScalarOps, VectorOps, BranchOps, DmaOps
<1>3. \A op \in {"ADD", "MUL", "MOVI", "BNE", "DMA_LOAD", "DMA_STORE", "HALT"},
         a, b, c \in 0 .. 12, n \in Word : WellFormed(rtype(op, a, b, c, n))
  BY <1>1, <1>2 DEF WellFormed, Instruction, rtype
<1>4. \A op \in {"LOAD_VR", "STORE_VR"}, a \in 0 .. 3, b \in 0 .. 12, n \in Word :
         WellFormed(rtype(op, a, b, 0, n))
  BY <1>1, <1>2 DEF WellFormed, Instruction, rtype, VectorOps
<1>5. \A op \in {"VEC_ADD", "MATMUL_TILE"}, a, b, c \in 0 .. 3, n \in Word :
         WellFormed(rtype(op, a, b, c, n))
  BY <1>1, <1>2 DEF WellFormed, Instruction, rtype, VectorOps
<1>6. /\ \A r \in 1 .. 12, n \in Int : imm16(n) \in Word => WellFormed(movi(r, n))
      /\ \A a, b, c \in 1 .. 12 : WellFormed(add(a, b, c)) /\ WellFormed(mul(a, b, c))
      /\ WellFormed(bne(1, 2, -3)) /\ WellFormed(make("HALT"))
      /\ \A a, b \in 1 .. 12 : WellFormed(dma_load(a, b, 1)) /\ WellFormed(dma_store(a, b, 1))
  BY <1>1, <1>3 DEF movi, add, mul, bne, make, dma_load, dma_store
<1>7. /\ \A v \in 0 .. 3, a \in 1 .. 12 :
            WellFormed(load_vr(v, a, 0)) /\ WellFormed(store_vr(v, a, 0))
      /\ WellFormed(vec_add(2, 0, 1)) /\ WellFormed(matmul_tile(3, 0, 1, 4))
  BY <1>1, <1>4, <1>5 DEF load_vr, store_vr, vec_add, matmul_tile
<1> QED
  BY <1>6, <1>7

\* One register written.
Wrote(h, g, r, v) ==
    /\ h[r] = v
    /\ \A x \in 1 .. 12 : x # r => h[x] = g[x]

LEMMA GprWritten ==
    ASSUME Layout, NEW g, NEW r \in 1 .. 12, NEW v
    PROVE  Wrote(write_gpr(g, r, v), g, r, v)
<1>1. 1 .. 12 \subseteq Gpr
  BY IsaAssumption DEF Layout, Gpr
<1> QED
  BY <1>1 DEF write_gpr, Wrote

\* The register that instruction p writes, outside of the loop, and what.
WritesAt(p, r, v) ==
    \/ p = 0 /\ r = 1 /\ v = 0
    \/ p = 1 /\ r = 2 /\ v = 5
    \/ p = 2 /\ r = 4 /\ v = 1
    \/ p = 3 /\ r = 3 /\ v = 0
    \/ p = 7 /\ r = 5 /\ v = ScratchA
    \/ p = 8 /\ r = 6 /\ v = ScratchB
    \/ p = 9 /\ r = 7 /\ v = 0
    \/ p = 10 /\ r = 8 /\ v = 1
    \/ p \in 18 .. 21 /\ r \in 9 .. 12

\* The registers behind it.
LEMMA ScalarsMove ==
    ASSUME NEW g, NEW h, NEW p \in Nat, NEW r, NEW v, Scalars(p, g), Wrote(h, g, r, v),
           WritesAt(p, r, v)
    PROVE  Scalars(p + 1, h) /\ (p \notin {0, 3} => h[1] = g[1]) /\ (p \in {0, 3} => h[1] = 0)
<1>0. \A x \in 1 .. 12 : x # r => h[x] = g[x]
  BY DEF Wrote
<1>1. CASE p = 0 /\ r = 1 /\ v = 0
  BY <1>1 DEF Scalars, Wrote
<1>2. CASE p = 1 /\ r = 2 /\ v = 5
  BY <1>2 DEF Scalars, Wrote
<1>3. CASE p = 2 /\ r = 4 /\ v = 1
  BY <1>3 DEF Scalars, Wrote
<1>4. CASE p = 3 /\ r = 3 /\ v = 0
  BY <1>4 DEF Scalars, Wrote, Summed
<1>5. CASE p = 7 /\ r = 5 /\ v = ScratchA
  BY <1>5 DEF Scalars, Wrote
<1>6. CASE p = 8 /\ r = 6 /\ v = ScratchB
  BY <1>6 DEF Scalars, Wrote
<1>7. CASE p = 9 /\ r = 7 /\ v = 0
  BY <1>7 DEF Scalars, Wrote
<1>8. CASE p = 10 /\ r = 8 /\ v = 1
  BY <1>8 DEF Scalars, Wrote
<1>9. CASE p \in 18 .. 21 /\ r \in 9 .. 12
  <2>1. /\ h[1] = g[1] /\ h[2] = g[2] /\ h[3] = g[3] /\ h[4] = g[4]
        /\ h[5] = g[5] /\ h[6] = g[6] /\ h[7] = g[7] /\ h[8] = g[8]
    BY <1>0, <1>9
  <2> QED
    BY <1>9, <2>1 DEF Scalars
<1> QED
  BY <1>1, <1>2, <1>3, <1>4, <1>5, <1>6, <1>7, <1>8, <1>9 DEF WritesAt

\* An instruction that keeps the core on course.
Stays(c, i) ==
    LET e == Retires(c, i)
    IN  /\ Handled(Past(c), i).end = "ok" /\ OnCourse(e)
        /\ e.target = c.target /\ e.halt = c.halt
        /\ e.pc <= c.pc + 1 /\ (~EndsBlock(i.op) => e.pc = c.pc + 1)

\* The register operations.
LEMMA CourseRegister ==
    ASSUME Layout, NEW c, OnCourse(c), NEW p, p = c.pc, p \in (0 .. 10) \cup (18 .. 21), p # 6,
           NEW i, WellFormed(i), i.op \in {"ADD", "MUL", "MOVI"}, i.rd \in 1 .. 12,
           \A h : Wrote(h, c.gpr, i.rd, Computed(c, i)) =>
                    /\ Scalars(p + 1, h)
                    /\ Spent(p + 1, c.target, h[1], c.prof.cycles + cycle_weight(i.op, 0))
    PROVE  LET e == Retires(c, i)
           IN  /\ Stays(c, i) /\ e.pc = p + 1 /\ SameData(e, c)
               /\ Wrote(e.gpr, c.gpr, i.rd, Computed(c, i))
               /\ e.prof.cycles = c.prof.cycles + cycle_weight(i.op, 0)
<1> DEFINE e == Retires(c, i)
           n == cycle_weight(i.op, 0)
<1>1. Ready(c) /\ Queued(c) \in Nat
  BY CourseReady
<1>2. /\ Handled(Past(c), i).end = "ok"
      /\ Went(e, c, n) /\ e.pc = c.pc + 1 /\ e.halt = c.halt
      /\ e.gpr = write_gpr(c.gpr, i.rd, Computed(c, i)) /\ SameData(e, c)
  BY <1>1, PerformsRegister
<1>8. Queued(e) \in Nat
  BY <1>1, BehindHandler DEF Dispatched, ScalarOps
<1> HIDE DEF e, n
<1>3. Wrote(e.gpr, c.gpr, i.rd, Computed(c, i))
  BY <1>2, GprWritten
<1>4. Scalars(p + 1, e.gpr) /\ Spent(p + 1, c.target, e.gpr[1], c.prof.cycles + n)
  BY <1>3 DEF n
<1>5. Tiles(p + 1, e.vr, e.mem, e.ram)
  <2>1. Tiles(p, e.vr, e.mem, e.ram)
    BY <1>2 DEF OnCourse, SameData
  <2> QED
    BY <2>1 DEF Tiles
<1>6. InFlight(p + 1, Queued(e))
  <2>1. InFlight(p, Queued(c)) /\ Queued(e) <= Queued(c)
    BY <1>2 DEF OnCourse, Went
  <2> QED
    BY <1>1, <1>8, <2>1 DEF InFlight
<1>7. OnCourse(e)
  <2>1. e \in CoreState /\ ~e.mmu /\ e.target = c.target /\ e.prof.cycles = c.prof.cycles + n
    BY <1>2 DEF Went
  <2>2. e.pc = p + 1 /\ p + 1 \in 0 .. 22
    BY <1>2
  <2> QED
    BY <1>4, <1>5, <1>6, <2>1, <2>2 DEF OnCourse
<1> QED
  BY <1>2, <1>3, <1>7 DEF Stays, Went, e, n

\* The immediates.
LEMMA CourseMove ==
    ASSUME Layout, NEW c, OnCourse(c), NEW p, p = c.pc, NEW r, NEW v \in Word, NEW n \in Int,
           imm16(n) = v, WritesAt(p, r, v)
    PROVE  LET i == movi(r, n)
               e == Retires(c, i)
           IN  /\ Stays(c, i) /\ e.pc = p + 1 /\ SameData(e, c) /\ Wrote(e.gpr, c.gpr, r, v)
               /\ e.prof.cycles = c.prof.cycles + 1
<1> DEFINE i == movi(r, n)
<1>1. i.op = "MOVI" /\ i.rd = r /\ Computed(c, i) = v /\ r \in 1 .. 12
  BY DEF movi, rtype, Computed, WritesAt
<1>2. WellFormed(i)
  BY <1>1, EncodedWell
<1> HIDE DEF i
<1>3. cycle_weight(i.op, 0) = 1
  BY <1>1 DEF cycle_weight, DmaOps
<1>4. p \in (0 .. 10) \cup (18 .. 21) /\ p # 6 /\ p \in Nat
  BY DEF WritesAt
<1>5. Scalars(p, c.gpr) /\ Spent(p, c.target, c.gpr[1], c.prof.cycles)
  BY DEF OnCourse
<1>6. ASSUME NEW h, Wrote(h, c.gpr, r, v)
      PROVE  Scalars(p + 1, h) /\ Spent(p + 1, c.target, h[1], c.prof.cycles + 1)
  <2>1. Scalars(p + 1, h) /\ (p \notin {0, 3} => h[1] = c.gpr[1]) /\ (p \in {0, 3} => h[1] = 0)
    BY <1>4, <1>5, <1>6, ScalarsMove
  <2> QED
    BY <1>4, <1>5, <2>1 DEF Spent, WritesAt
<1>7. LET e == Retires(c, i)
      IN  /\ Stays(c, i) /\ e.pc = p + 1 /\ SameData(e, c)
          /\ Wrote(e.gpr, c.gpr, i.rd, Computed(c, i))
          /\ e.prof.cycles = c.prof.cycles + cycle_weight(i.op, 0)
  BY <1>1, <1>2, <1>3, <1>4, <1>6, CourseRegister
<1> QED
  BY <1>1, <1>3, <1>7 DEF i

\* The first addition of the loop.
LEMMA CourseCount ==
    ASSUME Layout, NEW c, OnCourse(c), c.pc = 4
    PROVE  Stays(c, add(1, 1, 4))
<1> DEFINE i == add(1, 1, 4)
           g == c.gpr
<1>1. Scalars(4, g) /\ Spent(4, c.target, g[1], c.prof.cycles)
  BY DEF OnCourse
<1>2. g[1] \in 0 .. 4 /\ Summed(g[1], g[3]) /\ g[2] = 5 /\ g[4] = 1 /\ c.prof.cycles = 4 + 5 * g[1]
  BY <1>1 DEF Scalars, Spent
<1>3. i.op = "ADD" /\ i.rd = 1 /\ i.ra = 1 /\ i.rb = 4 /\ WellFormed(i)
  <2>1. \A x, y, z \in 1 .. 12 : WellFormed(add(x, y, z))
    BY EncodedWell
  <2>2. 1 \in 1 .. 12 /\ 3 \in 1 .. 12 /\ 4 \in 1 .. 12
    OBVIOUS
  <2>3. WellFormed(i)
    BY <2>1, <2>2, Zenon
  <2> QED
    BY <2>3 DEF add, rtype
<1> HIDE DEF i
<1>4. Computed(c, i) = g[1] + 1
  <2>1. Plus(g[1], 1) = g[1] + 1
    BY <1>2, IsaAssumption DEF Plus, Layout
  <2> QED
    BY <1>2, <1>3, <2>1 DEF Computed, read_gpr
<1>5. cycle_weight(i.op, 0) = 1
  BY <1>3 DEF cycle_weight, DmaOps
<1> HIDE DEF g
<1>6. ASSUME NEW h, Wrote(h, g, 1, g[1] + 1)
      PROVE  Scalars(5, h) /\ Spent(5, c.target, h[1], c.prof.cycles + 1)
  <2>1. h[1] = g[1] + 1 /\ h[2] = 5 /\ h[3] = g[3] /\ h[4] = 1
    BY <1>2, <1>6 DEF Wrote
  <2>2. h[1] - 1 = g[1] /\ h[1] \in 1 .. 5
    BY <1>2, <2>1
  <2> QED
    BY <1>2, <2>1, <2>2 DEF Scalars, Spent
<1>7. \A h : Wrote(h, c.gpr, i.rd, Computed(c, i)) =>
         Scalars(4 + 1, h) /\ Spent(4 + 1, c.target, h[1], c.prof.cycles + cycle_weight(i.op, 0))
  BY <1>3, <1>4, <1>5, <1>6 DEF g
<1>8. 4 \in (0 .. 10) \cup (18 .. 21) /\ 4 # 6 /\ i.rd \in 1 .. 12
  BY <1>3
<1> QED
  BY <1>3, <1>7, <1>8, CourseRegister DEF i

\* The second.
LEMMA CourseSum ==
    ASSUME Layout, NEW c, OnCourse(c), c.pc = 5
    PROVE  Stays(c, add(3, 3, 1))
<1> DEFINE i == add(3, 3, 1)
           g == c.gpr
<1>1. Scalars(5, g) /\ Spent(5, c.target, g[1], c.prof.cycles)
  BY DEF OnCourse
<1>2. g[1] \in 1 .. 5 /\ Summed(g[1] - 1, g[3]) /\ g[2] = 5 /\ g[4] = 1 /\ c.prof.cycles = 5 * g[1]
  BY <1>1 DEF Scalars, Spent
<1>3. i.op = "ADD" /\ i.rd = 3 /\ i.ra = 3 /\ i.rb = 1 /\ WellFormed(i)
  <2>1. \A x, y, z \in 1 .. 12 : WellFormed(add(x, y, z))
    BY EncodedWell
  <2>2. 1 \in 1 .. 12 /\ 3 \in 1 .. 12 /\ 4 \in 1 .. 12
    OBVIOUS
  <2>3. WellFormed(i)
    BY <2>1, <2>2, Zenon
  <2> QED
    BY <2>3 DEF add, rtype
<1> HIDE DEF i
<1>4. Computed(c, i) = g[3] + g[1] /\ Summed(g[1], g[3] + g[1])
  <2>1. g[3] \in 0 .. 10 /\ Summed(g[1], g[3] + g[1])
    BY <1>2 DEF Summed
  <2>2. Plus(g[3], g[1]) = g[3] + g[1]
    BY <1>2, <2>1, IsaAssumption DEF Plus, Layout
  <2> QED
    BY <1>3, <2>1, <2>2 DEF Computed, read_gpr
<1>5. cycle_weight(i.op, 0) = 1
  BY <1>3 DEF cycle_weight, DmaOps
<1> HIDE DEF g
<1>6. ASSUME NEW h, Wrote(h, g, 3, g[3] + g[1])
      PROVE  Scalars(6, h) /\ Spent(6, c.target, h[1], c.prof.cycles + 1)
  <2>1. h[1] = g[1] /\ h[2] = 5 /\ h[3] = g[3] + g[1] /\ h[4] = 1
    BY <1>2, <1>6 DEF Wrote
  <2> QED
    BY <1>2, <1>4, <2>1 DEF Scalars, Spent
<1>7. \A h : Wrote(h, c.gpr, i.rd, Computed(c, i)) =>
         Scalars(5 + 1, h) /\ Spent(5 + 1, c.target, h[1], c.prof.cycles + cycle_weight(i.op, 0))
  BY <1>3, <1>4, <1>5, <1>6 DEF g
<1>8. 5 \in (0 .. 10) \cup (18 .. 21) /\ 5 # 6 /\ i.rd \in 1 .. 12
  BY <1>3
<1> QED
  BY <1>3, <1>7, <1>8, CourseRegister DEF i

\* The branch back: taken four times, three words back.
LEMMA CourseBranch ==
    ASSUME Layout, NEW c, OnCourse(c), c.pc = 6
    PROVE  Stays(c, bne(1, 2, -3))
<1> DEFINE i == bne(1, 2, -3)
           g == c.gpr
           e == Retires(c, i)
           taken == read_gpr(c, i.rd) # read_gpr(c, i.ra)
<1>1. Scalars(6, g) /\ Spent(6, c.target, g[1], c.prof.cycles)
  BY DEF OnCourse
<1>2. g[1] \in 1 .. 5 /\ Summed(g[1], g[3]) /\ g[2] = 5 /\ g[4] = 1 /\ c.prof.cycles = 5 * g[1] + 1
  BY <1>1 DEF Scalars, Spent
<1>3. /\ i.op = "BNE" /\ i.rd = 1 /\ i.ra = 2 /\ WellFormed(i) /\ i.imm = simm16(-3)
  BY EncodedWell DEF bne, rtype
<1>4. Plus(7, i.imm) = 4
  <2>0. WordCount \in Nat /\ WordCount > 22
    BY IsaAssumption DEF Layout
  <2>1. (-3) % WordCount = WordCount - 3
    <3>1. WordCount - 3 \in 0 .. WordCount - 1 /\ -3 = WordCount * (-1) + (WordCount - 3)
      BY <2>0
    <3> QED
      BY <2>0, <3>1
  <2>2. (7 + (WordCount - 3)) % WordCount = 4
    <3>1. 7 + (WordCount - 3) = WordCount * 1 + 4 /\ 4 \in 0 .. WordCount - 1
      BY <2>0
    <3> QED
      BY <2>0, <3>1
  <2> QED
    BY <1>3, <2>1, <2>2, Immediates DEF Plus
<1>5. Ready(c) /\ Queued(c) \in Nat
  BY CourseReady
<1>6. /\ Handled(Past(c), i).end = "ok" /\ Went(e, c, IF taken THEN 3 ELSE 2)
      /\ e.pc = IF taken THEN Plus(c.pc + 1, i.imm) ELSE c.pc + 1
      /\ e.halt = c.halt /\ e.gpr = c.gpr /\ SameData(e, c)
  BY <1>3, <1>5, PerformsBranch
<1>7. Queued(e) \in Nat
  BY <1>3, <1>5, BehindHandler DEF Dispatched, BranchOps
<1>8. taken <=> g[1] # 5
  BY <1>2, <1>3 DEF read_gpr
<1> HIDE DEF i, e, taken, g
<1>9. Scalars(e.pc, g) /\ Spent(e.pc, c.target, g[1], e.prof.cycles) /\ e.pc \in {4, 7}
  <2>1. CASE taken
    <3>1. e.pc = 4 /\ e.prof.cycles = c.prof.cycles + 3
      BY <1>4, <1>6, <2>1 DEF Went
    <3>2. g[1] \in 0 .. 4 /\ e.prof.cycles = 4 + 5 * g[1]
      BY <1>2, <1>8, <2>1, <3>1
    <3> QED
      BY <1>2, <3>1, <3>2 DEF Scalars, Spent
  <2>2. CASE ~taken
    <3>1. e.pc = 7 /\ e.prof.cycles = c.prof.cycles + 2
      BY <1>6, <2>2 DEF Went
    <3>2. g[3] = 15 /\ e.prof.cycles = 28
      BY <1>2, <1>8, <2>2, <3>1 DEF Summed
    <3> QED
      BY <1>2, <3>1, <3>2 DEF Scalars, Spent
  <2> QED
    BY <2>1, <2>2
<1>10. Tiles(e.pc, e.vr, e.mem, e.ram)
  <2>1. Tiles(6, e.vr, e.mem, e.ram)
    BY <1>6 DEF OnCourse, SameData
  <2> QED
    BY <1>9, <2>1 DEF Tiles
<1>11. InFlight(e.pc, Queued(e))
  <2>1. Queued(c) = 0 /\ Queued(e) <= Queued(c)
    BY <1>6 DEF OnCourse, Went, InFlight
  <2> QED
    BY <1>7, <1>9, <2>1 DEF InFlight
<1>12. e.gpr = g /\ e.target = c.target /\ e \in CoreState /\ ~e.mmu /\ e.pc \in 0 .. 22
  BY <1>6, <1>9 DEF Went, g
<1>13. OnCourse(e)
  BY <1>9, <1>10, <1>11, <1>12 DEF OnCourse
<1> QED
  BY <1>3, <1>6, <1>9, <1>12, <1>13 DEF Stays, EndsBlock, BranchOps, e, i

\* A transfer from main memory into the scratchpad.
LEMMA CourseLoad ==
    ASSUME Layout, NEW c, OnCourse(c), NEW p, p = c.pc, NEW a, NEW b,
           (p = 11 /\ a = 5 /\ b = 7) \/ (p = 12 /\ a = 6 /\ b = 8)
    PROVE  Stays(c, dma_load(a, b, 1))
<1> DEFINE i == dma_load(a, b, 1)
           e == Retires(c, i)
           t == IF p = 11 THEN ScratchA ELSE ScratchB
           s == p - 11
           k == LoadCost(c.target)
<1>1. /\ Ready(c) /\ c.prof.cycles \in Nat /\ Queued(c) \in Nat /\ c.target \in Target
      /\ c.mem \in [Addr -> Word] /\ c.ram \in [RamAddr -> Word]
  BY CourseReady
<1>2. i.op = "DMA_LOAD" /\ i.rd = a /\ i.ra = b /\ i.imm = 1 /\ WellFormed(i)
  <2>1. \A x, y \in 1 .. 12 : WellFormed(dma_load(x, y, 1))
    BY EncodedWell
  <2>2. WellFormed(i)
    BY <2>1
  <2> QED
    BY <2>2 DEF dma_load, rtype
<1>3. Scalars(p, c.gpr) /\ Tiles(p, c.vr, c.mem, c.ram) /\ InFlight(p, Queued(c))
      /\ Spent(p, c.target, c.gpr[1], c.prof.cycles)
  BY DEF OnCourse
<1>4. /\ t \in Addr /\ t \in Nat /\ s \in RamAddr /\ s \in Nat
      /\ ScratchA \in Addr /\ ScratchB \in Addr /\ ScratchA # ScratchB
  BY MachineAssumption DEF Layout, Addr, RamAddr
<1>5. read_gpr(c, i.rd) = t /\ read_gpr(c, i.ra) = s
  BY <1>2, <1>3 DEF read_gpr, Scalars
<1>6. Queued(c) <= p - 11 /\ Queued(c) < Axi.max_outstanding
  <2>1. Axi.max_outstanding \in Nat
    BY MachineAssumption DEF FabricConfig
  <2> QED
    BY <1>1, <1>3, <2>1 DEF InFlight, Layout
<1>7. k \in Nat
  BY <1>1, CostTypes
<1> HIDE DEF i, e, t, s, k
<1>8. /\ Handled(Past(c), i).end = "ok"
      /\ e \in CoreState /\ ~e.mmu /\ e.target = c.target
      /\ e.prof.cycles = c.prof.cycles + profile_cycle_weight(c.target, i.op, 1)
      /\ Queued(e) <= Queued(c) + 1
      /\ e.pc = c.pc + 1 /\ e.halt = c.halt /\ e.gpr = c.gpr /\ e.vr = c.vr
      /\ e.mem = [c.mem EXCEPT ![t] = c.ram[s]] /\ e.ram = c.ram
  <2>1. i.op \in DmaOps /\ Inside(i, t, s)
    BY <1>2, <1>4 DEF DmaOps, Inside
  <2>2. Ready(c) /\ WellFormed(i) /\ i.imm = 1 /\ t \in Nat /\ s \in Nat
        /\ Queued(c) < Axi.max_outstanding
    BY <1>1, <1>2, <1>4, <1>6
  <2> QED
    <3>1. Handled(Past(c), i).end = "ok" /\ Transferred(e, c, i, t, s)
      BY <1>5, <2>1, <2>2, PerformsDma DEF e
    <3> QED
      BY <1>2, <3>1 DEF Transferred
<1>9. e.prof.cycles = c.prof.cycles + k /\ e.pc = p + 1 /\ e.pc \in 0 .. 22
  BY <1>2, <1>8 DEF k, LoadCost
<1>10. Queued(e) \in Nat
  BY <1>1, <1>2, BehindHandler DEF Dispatched, DmaOps, e
<1>11. Scalars(p + 1, e.gpr)
  BY <1>3, <1>8 DEF Scalars
<1>12. Spent(p + 1, e.target, e.gpr[1], e.prof.cycles)
  BY <1>1, <1>3, <1>7, <1>8, <1>9 DEF Spent, k
<1>13. InFlight(p + 1, Queued(e))
  BY <1>1, <1>3, <1>6, <1>8, <1>10 DEF InFlight
<1>14. Tiles(p + 1, e.vr, e.mem, e.ram)
  <2>1. c.ram[0] = MatrixA /\ c.ram[1] = MatrixB /\ (p = 12 => c.mem[ScratchA] = MatrixA)
    BY <1>3 DEF Tiles
  <2>2. CASE p = 11
    <3>1. e.mem[ScratchA] = MatrixA
      BY <1>1, <1>4, <1>8, <2>1, <2>2 DEF t, s
    <3> QED
      BY <1>8, <2>1, <2>2, <3>1 DEF Tiles
  <2>3. CASE p = 12
    <3>1. e.mem[ScratchB] = MatrixB /\ e.mem[ScratchA] = MatrixA
      BY <1>1, <1>4, <1>8, <2>1, <2>3 DEF t, s
    <3> QED
      BY <1>8, <2>1, <2>3, <3>1 DEF Tiles
  <2> QED
    BY <2>2, <2>3
<1>15. OnCourse(e)
  BY <1>8, <1>9, <1>11, <1>12, <1>13, <1>14 DEF OnCourse
<1> QED
  BY <1>8, <1>9, <1>15 DEF Stays, e, i

\* The instructions that move no scalar and no line of main memory.
LEMMA CourseVector ==
    ASSUME Layout, NEW c, OnCourse(c), NEW p, p = c.pc, p \in 13 .. 17,
           NEW i, WellFormed(i), i.op \in VectorOps, Handled(Past(c), i).end = "ok",
           NEW n \in Nat, NEW e, e = Retires(c, i), Went(e, c, n), e.pc = c.pc + 1,
           e.halt = c.halt, e.gpr = c.gpr, e.ram = c.ram, Tiles(p + 1, e.vr, e.mem, e.ram),
           n = IF p = 15 THEN AddCost(c.target) ELSE IF p = 16 THEN TileCost(c.target) ELSE 5
    PROVE  Stays(c, i)
<1>1. Ready(c) /\ c.prof.cycles \in Nat /\ Queued(c) \in Nat /\ c.target \in Target
  BY CourseReady
<1>2. Scalars(p, c.gpr) /\ InFlight(p, Queued(c)) /\ Spent(p, c.target, c.gpr[1], c.prof.cycles)
  BY DEF OnCourse
<1>3. LoadCost(c.target) \in Nat /\ AddCost(c.target) \in Nat /\ TileCost(c.target) \in Nat
  BY <1>1, CostTypes
<1>4. Queued(e) \in Nat
  BY <1>1, BehindHandler DEF Dispatched
<1>5. /\ e \in CoreState /\ ~e.mmu /\ e.target = c.target
      /\ e.prof.cycles = c.prof.cycles + n /\ Queued(e) <= Queued(c)
  BY DEF Went
<1>6. Scalars(p + 1, e.gpr)
  BY <1>2 DEF Scalars
<1>7. InFlight(p + 1, Queued(e))
  BY <1>1, <1>2, <1>4, <1>5 DEF InFlight
<1>8. Spent(p + 1, e.target, e.gpr[1], e.prof.cycles)
  <2>1. e.prof.cycles = c.prof.cycles + n /\ e.target = c.target
    BY <1>5
  <2> QED
    BY <1>2, <1>3, <2>1 DEF Spent
<1>9. OnCourse(e)
  BY <1>5, <1>6, <1>7, <1>8 DEF OnCourse
<1> QED
  BY <1>5, <1>9 DEF Stays

\* The two vector loads and the store of the product.
LEMMA CourseVectorMemory ==
    ASSUME Layout, NEW c, OnCourse(c), NEW p, p = c.pc, NEW i, NEW v, NEW r,
           \/ p = 13 /\ v = 0 /\ r = 5 /\ i = load_vr(v, r, 0)
           \/ p = 14 /\ v = 1 /\ r = 6 /\ i = load_vr(v, r, 0)
           \/ p = 17 /\ v = 3 /\ r = 5 /\ i = store_vr(v, r, 0)
    PROVE  Stays(c, i)
<1> DEFINE e == Retires(c, i)
           a == IF p = 14 THEN ScratchB ELSE ScratchA
<1>1. /\ Ready(c) /\ c.vr \in [Vr -> Word] /\ c.mem \in [Addr -> Word]
  BY CourseReady
<1>2. /\ i.op = IF p = 17 THEN "STORE_VR" ELSE "LOAD_VR"
      /\ i.rd = v /\ i.ra = r /\ i.imm = 0
  BY Immediates DEF load_vr, store_vr, rtype
<1>3. WellFormed(i)
  <2>1. \A x \in 0 .. 3, y \in 1 .. 12 : WellFormed(load_vr(x, y, 0)) /\ WellFormed(store_vr(x, y, 0))
    BY EncodedWell
  <2>2. v \in 0 .. 3 /\ r \in 1 .. 12 /\ (i = load_vr(v, r, 0) \/ i = store_vr(v, r, 0))
    OBVIOUS
  <2> QED
    BY <2>1, <2>2
<1>4. Scalars(p, c.gpr) /\ Tiles(p, c.vr, c.mem, c.ram)
  BY DEF OnCourse
<1>5. a \in Addr /\ a \in Word /\ v \in Vr /\ ScratchA \in Addr /\ ScratchB \in Addr
      /\ {0, 1, 3} \subseteq Vr
  <2>1. ScratchA \in Word /\ ScratchB \in Word
    BY Immediates
  <2> QED
    BY <2>1, IsaAssumption DEF Layout, Vr
<1>6. EffectiveAddress(c, i) = a
  <2>1. read_gpr(c, i.ra) = a
    BY <1>2, <1>4 DEF read_gpr, Scalars
  <2>2. Plus(a, 0) = a
    BY <1>5, IsaAssumption DEF Plus, Word
  <2> QED
    BY <1>2, <2>1, <2>2 DEF EffectiveAddress
<1>7. /\ Handled(Past(c), i).end = "ok"
      /\ Went(e, c, 5) /\ e.pc = c.pc + 1 /\ e.halt = c.halt
      /\ e.gpr = c.gpr /\ e.ram = c.ram
      /\ i.op = "LOAD_VR" => e.vr = [c.vr EXCEPT ![i.rd] = c.mem[a]] /\ e.mem = c.mem
      /\ i.op = "STORE_VR" => e.mem = [c.mem EXCEPT ![a] = c.vr[i.rd]] /\ e.vr = c.vr
  <2>1. i.op \in {"LOAD_VR", "STORE_VR"}
    BY <1>2
  <2> HIDE DEF a
  <2> QED
    BY <1>1, <1>3, <1>5, <1>6, <2>1, PerformsVectorMemory
<1> HIDE DEF e
<1>8. Tiles(p + 1, e.vr, e.mem, e.ram)
  <2>1. CASE p = 13
    <3>1. e.vr = [c.vr EXCEPT ![0] = c.mem[ScratchA]] /\ e.mem = c.mem
      BY <1>2, <1>7, <2>1
    <3>2. e.vr[0] = MatrixA
      BY <1>1, <1>4, <1>5, <2>1, <3>1 DEF Tiles
    <3> QED
      BY <1>4, <1>7, <2>1, <3>1, <3>2 DEF Tiles
  <2>2. CASE p = 14
    <3>1. e.vr = [c.vr EXCEPT ![1] = c.mem[ScratchB]] /\ e.mem = c.mem
      BY <1>2, <1>7, <2>2
    <3>2. e.vr[1] = MatrixB /\ e.vr[0] = MatrixA
      BY <1>1, <1>4, <1>5, <2>2, <3>1 DEF Tiles
    <3> QED
      BY <1>4, <1>7, <2>2, <3>1, <3>2 DEF Tiles
  <2>3. CASE p = 17
    <3>1. e.mem = [c.mem EXCEPT ![ScratchA] = c.vr[3]] /\ e.vr = c.vr
      BY <1>2, <1>7, <2>3
    <3>2. e.mem[ScratchA] = Times(MatrixA, MatrixB) /\ e.mem[ScratchB] = MatrixB
      BY <1>1, <1>4, <1>5, <2>3, <3>1 DEF Tiles, Layout
    <3> QED
      BY <1>4, <1>7, <2>3, <3>1, <3>2 DEF Tiles
  <2> QED
    BY <2>1, <2>2, <2>3
<1>9. i.op \in VectorOps /\ p \in 13 .. 17 /\ p # 15 /\ p # 16
  BY <1>2 DEF VectorOps
<1>10. 5 = IF p = 15 THEN AddCost(c.target) ELSE IF p = 16 THEN TileCost(c.target) ELSE 5
  BY <1>9
<1>11. 5 \in Nat /\ e = Retires(c, i)
  BY DEF e
<1> QED
  BY <1>3, <1>7, <1>8, <1>9, <1>10, <1>11, CourseVector

\* The two kernels.
LEMMA CourseKernel ==
    ASSUME Layout, NEW c, OnCourse(c), NEW p, p = c.pc, NEW i,
           \/ p = 15 /\ i = vec_add(2, 0, 1)
           \/ p = 16 /\ i = matmul_tile(3, 0, 1, 4)
    PROVE  Stays(c, i)
<1> DEFINE e == Retires(c, i)
           n == IF p = 15 THEN AddCost(c.target) ELSE TileCost(c.target)
<1>1. /\ Ready(c) /\ c.vr \in [Vr -> Word] /\ c.target \in Target
  BY CourseReady
<1>2. /\ i.op = IF p = 15 THEN "VEC_ADD" ELSE "MATMUL_TILE"
      /\ i.rd = IF p = 15 THEN 2 ELSE 3
      /\ i.ra = 0 /\ i.rb = 1 /\ (i.op = "MATMUL_TILE" => i.imm = 4)
  BY DEF vec_add, matmul_tile, rtype
<1>3. WellFormed(i)
  <2>1. WellFormed(vec_add(2, 0, 1)) /\ WellFormed(matmul_tile(3, 0, 1, 4))
    BY EncodedWell
  <2> QED
    BY <2>1
<1>4. Scalars(p, c.gpr) /\ Tiles(p, c.vr, c.mem, c.ram)
  BY DEF OnCourse
<1>5. {0, 1, 2, 3} \subseteq Vr
  BY IsaAssumption DEF Layout, Vr
<1>6. /\ Handled(Past(c), i).end = "ok"
      /\ e.pc = c.pc + 1 /\ e.halt = c.halt
      /\ e.gpr = c.gpr /\ e.mem = c.mem /\ e.ram = c.ram
      /\ i.op = "VEC_ADD" =>
            /\ Went(e, c, AddCost(c.target))
            /\ e.vr = [c.vr EXCEPT ![i.rd] = Plus(c.vr[i.ra], c.vr[i.rb])]
      /\ i.op = "MATMUL_TILE" =>
            /\ Went(e, c, TileCost(c.target))
            /\ e.vr = [c.vr EXCEPT ![i.rd] = Times(c.vr[i.ra], c.vr[i.rb])]
  <2>1. i.op \in {"VEC_ADD", "MATMUL_TILE"} /\ (i.op = "MATMUL_TILE" => i.imm % 16 = 4)
    BY <1>2
  <2>2. TileSize >= 4
    BY DEF Layout
  <2> QED
    BY <1>1, <1>3, <2>1, <2>2, PerformsKernel DEF AddCost, TileCost
<1> HIDE DEF e
<1>7. Went(e, c, n)
  BY <1>2, <1>6
<1>8. Tiles(p + 1, e.vr, e.mem, e.ram)
  <2>1. CASE p = 15
    <3>1. e.vr = [c.vr EXCEPT ![2] = Plus(c.vr[0], c.vr[1])]
      BY <1>2, <1>6, <2>1
    <3>2. e.vr[0] = c.vr[0] /\ e.vr[1] = c.vr[1]
      BY <1>1, <1>5, <3>1
    <3> QED
      BY <1>4, <1>6, <2>1, <3>2 DEF Tiles
  <2>2. CASE p = 16
    <3>1. e.vr = [c.vr EXCEPT ![3] = Times(c.vr[0], c.vr[1])]
      BY <1>2, <1>6, <2>2
    <3>2. e.vr[0] = c.vr[0] /\ e.vr[1] = c.vr[1] /\ e.vr[3] = Times(c.vr[0], c.vr[1])
      BY <1>1, <1>5, <3>1
    <3> QED
      BY <1>4, <1>6, <2>2, <3>2 DEF Tiles
  <2> QED
    BY <2>1, <2>2
<1>9. /\ i.op \in VectorOps /\ p \in 13 .. 17 /\ n \in Nat
      /\ n = IF p = 15 THEN AddCost(c.target) ELSE IF p = 16 THEN TileCost(c.target) ELSE 5
  BY <1>1, <1>2, CostTypes DEF VectorOps
<1>10. e = Retires(c, i)
  BY DEF e
<1> HIDE DEF n
<1> QED
  BY <1>3, <1>6, <1>7, <1>8, <1>9, <1>10, CourseVector

\* Every instruction of the two phases.
LEMMA CourseStep ==
    ASSUME Layout, NEW s, SharedPhases(s), NEW c, OnCourse(c), c.pc <= 17
    PROVE  Stays(c, s[c.pc + 1])
<1> DEFINE p == c.pc
<1>0. p \in 0 .. 17
  BY DEF OnCourse
<1>1. /\ imm16(0) = 0 /\ imm16(1) = 1 /\ imm16(5) = 5
      /\ imm16(ScratchA) = ScratchA /\ imm16(ScratchB) = ScratchB
      /\ {0, 1, 5, ScratchA, ScratchB} \subseteq Word
      /\ {0, 1, 5, ScratchA, ScratchB} \subseteq Int
  BY Immediates, IsaAssumption DEF Word
<1>2. ASSUME NEW r, NEW v \in {0, 1, 5, ScratchA, ScratchB}, WritesAt(p, r, v)
      PROVE  Stays(c, movi(r, v))
  <2>1. v \in Word /\ v \in Int /\ imm16(v) = v
    BY <1>1
  <2> QED
    BY <1>2, <2>1, CourseMove
<1>3. CASE p = 0
  <2>1. WritesAt(p, 1, 0) /\ s[p + 1] = movi(1, 0)
    BY <1>3 DEF WritesAt, SharedPhases
  <2> QED
    BY <1>2, <2>1
<1>4. CASE p = 1
  <2>1. WritesAt(p, 2, 5) /\ s[p + 1] = movi(2, 5)
    BY <1>4 DEF WritesAt, SharedPhases
  <2> QED
    BY <1>2, <2>1
<1>5. CASE p = 2
  <2>1. WritesAt(p, 4, 1) /\ s[p + 1] = movi(4, 1)
    BY <1>5 DEF WritesAt, SharedPhases
  <2> QED
    BY <1>2, <2>1
<1>6. CASE p = 3
  <2>1. WritesAt(p, 3, 0) /\ s[p + 1] = movi(3, 0)
    BY <1>6 DEF WritesAt, SharedPhases
  <2> QED
    BY <1>2, <2>1
<1>7. CASE p = 4
  <2>1. s[p + 1] = add(1, 1, 4)
    BY <1>7 DEF SharedPhases
  <2> QED
    BY <1>7, <2>1, CourseCount
<1>8. CASE p = 5
  <2>1. s[p + 1] = add(3, 3, 1)
    BY <1>8 DEF SharedPhases
  <2> QED
    BY <1>8, <2>1, CourseSum
<1>9. CASE p = 6
  <2>1. s[p + 1] = bne(1, 2, -3)
    BY <1>9 DEF SharedPhases
  <2> QED
    BY <1>9, <2>1, CourseBranch
<1>10. CASE p = 7
  <2>1. WritesAt(p, 5, ScratchA) /\ s[p + 1] = movi(5, ScratchA)
    BY <1>10 DEF WritesAt, SharedPhases
  <2> QED
    BY <1>2, <2>1
<1>11. CASE p = 8
  <2>1. WritesAt(p, 6, ScratchB) /\ s[p + 1] = movi(6, ScratchB)
    BY <1>11 DEF WritesAt, SharedPhases
  <2> QED
    BY <1>2, <2>1
<1>12. CASE p = 9
  <2>1. WritesAt(p, 7, 0) /\ s[p + 1] = movi(7, 0)
    BY <1>12 DEF WritesAt, SharedPhases, MainA
  <2> QED
    BY <1>2, <2>1
<1>13. CASE p = 10
  <2>1. WritesAt(p, 8, 1) /\ s[p + 1] = movi(8, 1)
    BY <1>13 DEF WritesAt, SharedPhases, MainB
  <2> QED
    BY <1>2, <2>1
<1>14. CASE p = 11
  <2>1. s[p + 1] = dma_load(5, 7, 1)
    BY <1>14 DEF SharedPhases
  <2> QED
    BY <1>14, <2>1, CourseLoad
<1>15. CASE p = 12
  <2>1. s[p + 1] = dma_load(6, 8, 1)
    BY <1>15 DEF SharedPhases
  <2> QED
    BY <1>15, <2>1, CourseLoad
<1>16. CASE p = 13
  <2>1. s[p + 1] = load_vr(0, 5, 0)
    BY <1>16 DEF SharedPhases
  <2> QED
    BY <1>16, <2>1, CourseVectorMemory
<1>17. CASE p = 14
  <2>1. s[p + 1] = load_vr(1, 6, 0)
    BY <1>17 DEF SharedPhases
  <2> QED
    BY <1>17, <2>1, CourseVectorMemory
<1>18. CASE p = 15
  <2>1. s[p + 1] = vec_add(2, 0, 1)
    BY <1>18 DEF SharedPhases
  <2> QED
    BY <1>18, <2>1, CourseKernel
<1>19. CASE p = 16
  <2>1. s[p + 1] = matmul_tile(3, 0, 1, 4)
    BY <1>19 DEF SharedPhases
  <2> QED
    BY <1>19, <2>1, CourseKernel
<1>20. CASE p = 17
  <2>1. s[p + 1] = store_vr(3, 5, 0)
    BY <1>20 DEF SharedPhases
  <2> QED
    BY <1>20, <2>1, CourseVectorMemory
<1> QED
  BY <1>0, <1>3, <1>4, <1>5, <1>6, <1>7, <1>8, <1>9, <1>10, <1>11, <1>12, <1>13, <1>14,
     <1>15, <1>16, <1>17, <1>18, <1>19, <1>20

--------------------------------------------------------------------------------
\* The ends of the two programs

\* The demonstration: the product is copied to main memory.
DemoCourse(c) ==
    /\ OnCourse(c) /\ c.pc <= 21 /\ (c.halt <=> c.pc = 21)
    /\ c.pc >= 19 => c.gpr[9] = MainResult
    /\ c.pc >= 20 => c.ram[MainResult] = Times(MatrixA, MatrixB)

\* An iteration of the suite, and what it costs.
Total(t) == 52 + 2 * LoadCost(t) + AddCost(t) + TileCost(t)

MarkCourse(c) ==
    /\ OnCourse(c) /\ (c.halt <=> c.pc = 22)
    /\ c.pc = 19 => c.prof.cycles + 4 = Total(c.target)
    /\ c.pc = 20 => c.prof.cycles + 3 = Total(c.target)
    /\ c.pc \in 21 .. 22 => c.prof.cycles = Total(c.target)

JobText(j) == IF j = "demo" THEN DemoProgram ELSE build_iteration
JobCourse(j, c) == IF j = "demo" THEN DemoCourse(c) ELSE MarkCourse(c)

\* An instruction of a program that stays on its course.
Proceeds(j, c, i) ==
    LET e == Retires(c, i)
    IN  /\ Handled(Past(c), i).end = "ok" /\ JobCourse(j, e) /\ e.target = c.target
        /\ ~EndsBlock(i.op) => e.pc = c.pc + 1

\* HALT at the end.
LEMMA CourseHalt ==
    ASSUME Layout, NEW c, OnCourse(c), NEW p, p = c.pc, p \in 20 .. 21
    PROVE  LET i == make("HALT")
               e == Retires(c, i)
           IN  /\ Handled(Past(c), i).end = "ok" /\ OnCourse(e) /\ e.target = c.target
               /\ e.halt /\ e.pc = p + 1 /\ SameData(e, c) /\ e.gpr = c.gpr
               /\ e.prof.cycles = c.prof.cycles /\ EndsBlock(i.op)
<1> DEFINE i == make("HALT")
           e == Retires(c, i)
<1>1. Ready(c) /\ c.prof.cycles \in Nat
  BY CourseReady
<1>2. i.op = "HALT" /\ WellFormed(i)
  <2>1. WellFormed(i)
    BY EncodedWell
  <2> QED
    BY <2>1 DEF make, rtype
<1>3. /\ Handled(Past(c), i).end = "ok"
      /\ Went(e, c, 0) /\ e.pc = c.pc + 1 /\ e.halt /\ e.gpr = c.gpr /\ SameData(e, c)
  BY <1>1, <1>2, PerformsHalt
<1> HIDE DEF i, e
<1>4. e.prof.cycles = c.prof.cycles /\ e.target = c.target /\ e \in CoreState /\ ~e.mmu
  BY <1>1, <1>3 DEF Went
<1>5. Scalars(p + 1, e.gpr) /\ Tiles(p + 1, e.vr, e.mem, e.ram)
  BY <1>3 DEF OnCourse, Scalars, Tiles, SameData
<1>6. Spent(p + 1, e.target, e.gpr[1], e.prof.cycles) /\ InFlight(p + 1, Queued(e))
  BY DEF Spent, InFlight
<1>7. OnCourse(e)
  BY <1>3, <1>4, <1>5, <1>6 DEF OnCourse
<1> QED
  BY <1>2, <1>3, <1>4, <1>7 DEF EndsBlock, i, e

\* Every instruction of the demonstration.
LEMMA DemoStep ==
    ASSUME Layout, NEW c, DemoCourse(c), ~c.halt
    PROVE  Proceeds("demo", c, DemoProgram[c.pc + 1])
<1> DEFINE p == c.pc
           i == DemoProgram[c.pc + 1]
           e == Retires(c, i)
<1>0. OnCourse(c) /\ p \in 0 .. 20 /\ p \in Nat
  BY DEF DemoCourse, OnCourse
<1>1. CASE p <= 17
  <2>1. Stays(c, i)
    BY <1>0, <1>1, CourseStep, ProgramTexts
  <2> HIDE DEF i
  <2>2. /\ Handled(Past(c), i).end = "ok" /\ OnCourse(e) /\ e.target = c.target
        /\ e.halt = c.halt /\ e.pc <= 18 /\ (~EndsBlock(i.op) => e.pc = c.pc + 1)
        /\ e.pc \in Nat
    BY <1>0, <1>1, <2>1 DEF Stays, OnCourse
  <2> HIDE DEF e
  <2>3. DemoCourse(e)
    BY <2>2 DEF DemoCourse
  <2> QED
    BY <2>2, <2>3 DEF Proceeds, JobCourse, i, e
<1>2. CASE p = 18
  <2>1. i = movi(9, MainResult) /\ imm16(MainResult) = MainResult /\ MainResult \in Word
    BY <1>2, ProgramTexts, Immediates
  <2>2. WritesAt(p, 9, MainResult) /\ MainResult \in Int
    BY <1>2, <2>1, IsaAssumption DEF WritesAt, Word
  <2>3. Stays(c, i) /\ e.pc = p + 1 /\ Wrote(e.gpr, c.gpr, 9, MainResult)
    BY <1>0, <2>1, <2>2, CourseMove
  <2> HIDE DEF i
  <2>4. /\ Handled(Past(c), i).end = "ok" /\ OnCourse(e) /\ e.target = c.target
        /\ e.halt = c.halt /\ e.pc = 19 /\ (~EndsBlock(i.op) => e.pc = c.pc + 1)
        /\ e.gpr[9] = MainResult
    BY <1>2, <2>3 DEF Stays, Wrote
  <2> HIDE DEF e
  <2>5. DemoCourse(e)
    BY <2>4 DEF DemoCourse
  <2> QED
    BY <2>4, <2>5 DEF Proceeds, JobCourse, i, e
<1>3. CASE p = 19
  <2>1. i = dma_store(9, 5, 1)
    BY <1>3, ProgramTexts
  <2>2. i.op = "DMA_STORE" /\ i.rd = 9 /\ i.ra = 5 /\ i.imm = 1
    BY <2>1 DEF dma_store, rtype
  <2>3. WellFormed(i)
    <3>1. \A x, y \in 1 .. 12 : WellFormed(dma_store(x, y, 1))
      BY EncodedWell
    <3>2. 9 \in 1 .. 12 /\ 5 \in 1 .. 12
      OBVIOUS
    <3> QED
      BY <2>1, <3>1, <3>2, Zenon
  <2> HIDE DEF i
  <2>4. /\ Ready(c) /\ Queued(c) \in Nat /\ c.mem \in [Addr -> Word] /\ c.ram \in [RamAddr -> Word]
    BY <1>0, CourseReady
  <2>5. /\ Scalars(19, c.gpr) /\ Tiles(19, c.vr, c.mem, c.ram) /\ InFlight(19, Queued(c))
        /\ c.gpr[9] = MainResult
    BY <1>0, <1>3 DEF OnCourse, DemoCourse
  <2>6. read_gpr(c, i.rd) = MainResult /\ read_gpr(c, i.ra) = ScratchA
    BY <2>2, <2>5 DEF read_gpr, Scalars
  <2>7. /\ MainResult \in RamAddr /\ ScratchA \in Addr /\ MainResult \in Nat /\ ScratchA \in Nat
        /\ Inside(i, MainResult, ScratchA) /\ i.op \in DmaOps
    BY <2>2, MachineAssumption DEF Layout, Addr, RamAddr, Inside, DmaOps
  <2>8. Queued(c) < Axi.max_outstanding
    <3>1. Axi.max_outstanding \in Nat
      BY MachineAssumption DEF FabricConfig
    <3> QED
      BY <2>4, <2>5, <3>1 DEF InFlight, Layout
  <2>9. Handled(Past(c), i).end = "ok" /\ Transferred(e, c, i, MainResult, ScratchA)
    BY <2>2, <2>3, <2>4, <2>6, <2>7, <2>8, PerformsDma
  <2> HIDE DEF e
  <2>10. /\ e \in CoreState /\ ~e.mmu /\ e.target = c.target /\ e.pc = 20 /\ e.halt = c.halt
         /\ e.gpr = c.gpr /\ e.vr = c.vr /\ e.mem = c.mem
         /\ e.ram = [c.ram EXCEPT ![MainResult] = c.mem[ScratchA]]
    BY <1>3, <2>2, <2>9 DEF Transferred
  <2>11. e.ram[MainResult] = Times(MatrixA, MatrixB)
    BY <2>4, <2>5, <2>7, <2>10 DEF Tiles
  <2>12. OnCourse(e)
    <3>1. Scalars(20, e.gpr) /\ Tiles(20, e.vr, e.mem, e.ram)
      BY <2>5, <2>10 DEF Scalars, Tiles
    <3>2. Spent(20, e.target, e.gpr[1], e.prof.cycles) /\ InFlight(20, Queued(e))
      BY DEF Spent, InFlight
    <3> QED
      BY <2>10, <3>1, <3>2 DEF OnCourse
  <2>13. DemoCourse(e)
    BY <2>5, <2>10, <2>11, <2>12 DEF DemoCourse
  <2> QED
    BY <1>3, <2>9, <2>10, <2>13 DEF Proceeds, JobCourse, i, e
<1>4. CASE p = 20
  <2>1. i = make("HALT")
    BY <1>4, ProgramTexts
  <2>2. /\ Handled(Past(c), i).end = "ok" /\ OnCourse(e) /\ e.target = c.target
        /\ e.halt /\ e.pc = p + 1 /\ SameData(e, c) /\ e.gpr = c.gpr /\ EndsBlock(i.op)
    BY <1>0, <1>4, <2>1, CourseHalt
  <2> HIDE DEF i, e
  <2>3. DemoCourse(e)
    BY <1>4, <2>2 DEF DemoCourse, SameData
  <2> QED
    BY <2>2, <2>3 DEF Proceeds, JobCourse, i, e
<1> QED
  BY <1>0, <1>1, <1>2, <1>3, <1>4

\* Every instruction of an iteration of the suite.
LEMMA MarkStep ==
    ASSUME Layout, NEW c, MarkCourse(c), ~c.halt
    PROVE  Proceeds("coremark", c, build_iteration[c.pc + 1])
<1> DEFINE p == c.pc
           i == build_iteration[c.pc + 1]
           e == Retires(c, i)
           t == c.target
<1>0. OnCourse(c) /\ p \in 0 .. 21 /\ p \in Nat /\ c.prof.cycles \in Nat /\ t \in Target
  BY CourseReady DEF MarkCourse, OnCourse
<1>1. Spent(p, t, c.gpr[1], c.prof.cycles) /\ Scalars(p, c.gpr)
  BY <1>0 DEF OnCourse
<1>2. LoadCost(t) \in Nat /\ AddCost(t) \in Nat /\ TileCost(t) \in Nat /\ Total(t) \in Nat
  <2>1. LoadCost(t) \in Nat /\ AddCost(t) \in Nat /\ TileCost(t) \in Nat
    BY <1>0, CostTypes
  <2> QED
    BY <2>1 DEF Total
<1>3. CASE p <= 17
  <2>1. Stays(c, i)
    BY <1>0, <1>3, CourseStep, ProgramTexts
  <2> HIDE DEF i
  <2>2. /\ Handled(Past(c), i).end = "ok" /\ OnCourse(e) /\ e.target = c.target
        /\ e.halt = c.halt /\ e.pc <= 18 /\ (~EndsBlock(i.op) => e.pc = c.pc + 1)
        /\ e.pc \in Nat
    BY <1>0, <1>3, <2>1 DEF Stays, OnCourse
  <2> HIDE DEF e
  <2>3. MarkCourse(e)
    BY <2>2 DEF MarkCourse
  <2> QED
    BY <2>2, <2>3 DEF Proceeds, JobCourse, i, e
<1>4. CASE p = 18
  <2>1. i = movi(10, CrcSeed) /\ imm16(CrcSeed) = CrcSeed /\ CrcSeed \in Word
    BY <1>4, ProgramTexts, Immediates
  <2>2. WritesAt(p, 10, CrcSeed) /\ CrcSeed \in Int
    BY <1>4, <2>1, IsaAssumption DEF WritesAt, Word
  <2>3. Stays(c, i) /\ e.pc = p + 1 /\ e.prof.cycles = c.prof.cycles + 1
    BY <1>0, <2>1, <2>2, CourseMove
  <2> HIDE DEF i
  <2>4. /\ Handled(Past(c), i).end = "ok" /\ OnCourse(e) /\ e.target = c.target
        /\ e.halt = c.halt /\ e.pc = 19 /\ (~EndsBlock(i.op) => e.pc = c.pc + 1)
    BY <1>4, <2>3 DEF Stays
  <2> HIDE DEF e
  <2>5. e.prof.cycles + 4 = Total(t)
    BY <1>1, <1>2, <1>4, <2>3 DEF Spent, Total
  <2>6. MarkCourse(e)
    BY <2>4, <2>5 DEF MarkCourse
  <2> QED
    BY <2>4, <2>6 DEF Proceeds, JobCourse, i, e
<1>5. CASE p \in 19 .. 20
  <2> DEFINE n == IF p = 19 THEN 1 ELSE 3
  <2>1. i = IF p = 19 THEN add(11, 10, 3) ELSE mul(12, 11, 3)
    BY <1>5, ProgramTexts
  <2>2. i.op = (IF p = 19 THEN "ADD" ELSE "MUL") /\ i.rd = IF p = 19 THEN 11 ELSE 12
    BY <1>5, <2>1 DEF add, mul, rtype
  <2>3. WellFormed(i)
    <3>1. \A x, y, z \in 1 .. 12 : WellFormed(add(x, y, z)) /\ WellFormed(mul(x, y, z))
      BY EncodedWell
    <3>2. 12 \in 1 .. 12 /\ 11 \in 1 .. 12 /\ 10 \in 1 .. 12 /\ 3 \in 1 .. 12
      OBVIOUS
    <3>3. WellFormed(add(11, 10, 3)) /\ WellFormed(mul(12, 11, 3))
      BY <3>1, <3>2, Zenon
    <3> QED
      BY <2>1, <3>3
  <2> HIDE DEF i
  <2>4. cycle_weight(i.op, 0) = n
    BY <2>2 DEF cycle_weight, DmaOps
  <2> DEFINE v == Computed(c, i)
  <2>5. ASSUME NEW h, Wrote(h, c.gpr, i.rd, v)
        PROVE  Scalars(p + 1, h) /\ Spent(p + 1, t, h[1], c.prof.cycles + cycle_weight(i.op, 0))
    <3>1. WritesAt(p, i.rd, v)
      BY <1>5, <2>2 DEF WritesAt
    <3> HIDE DEF v
    <3>2. Scalars(p + 1, h)
      BY <1>0, <1>1, <2>5, <3>1, ScalarsMove
    <3> QED
      BY <1>5, <3>2 DEF Spent
  <2>6. p \in (0 .. 10) \cup (18 .. 21) /\ p # 6 /\ i.op \in {"ADD", "MUL", "MOVI"} /\ i.rd \in 1 .. 12
    BY <1>5, <2>2
  <2>7. Stays(c, i) /\ e.pc = p + 1 /\ e.prof.cycles = c.prof.cycles + cycle_weight(i.op, 0)
    BY <1>0, <2>3, <2>5, <2>6, CourseRegister
  <2>8. /\ Handled(Past(c), i).end = "ok" /\ OnCourse(e) /\ e.target = c.target
        /\ e.halt = c.halt /\ e.pc = p + 1 /\ (~EndsBlock(i.op) => e.pc = c.pc + 1)
        /\ e.prof.cycles = c.prof.cycles + n
    BY <2>4, <2>7 DEF Stays
  <2> HIDE DEF e
  <2>9. /\ p = 19 => e.prof.cycles + 3 = Total(t)
        /\ p = 20 => e.prof.cycles = Total(t)
    BY <1>0, <1>2, <1>5, <2>8 DEF MarkCourse
  <2>10. MarkCourse(e)
    BY <1>5, <2>8, <2>9 DEF MarkCourse
  <2> QED
    BY <2>8, <2>10 DEF Proceeds, JobCourse, i, e
<1>6. CASE p = 21
  <2>1. i = make("HALT")
    BY <1>6, ProgramTexts
  <2>2. /\ Handled(Past(c), i).end = "ok" /\ OnCourse(e) /\ e.target = c.target
        /\ e.halt /\ e.pc = p + 1 /\ e.prof.cycles = c.prof.cycles /\ EndsBlock(i.op)
    BY <1>0, <1>6, <2>1, CourseHalt
  <2> HIDE DEF i, e
  <2>3. MarkCourse(e)
    BY <1>6, <2>2 DEF MarkCourse
  <2> QED
    BY <2>2, <2>3 DEF Proceeds, JobCourse, i, e
<1> QED
  BY <1>0, <1>3, <1>4, <1>5, <1>6

\* Every instruction of the driver's own programs.
LEMMA JobStep ==
    ASSUME Layout, NEW j \in {"demo", "coremark"}, NEW c, JobCourse(j, c), ~c.halt
    PROVE  /\ Proceeds(j, c, JobText(j)[c.pc + 1])
           /\ c.pc \in 0 .. Len(JobText(j)) - 1 /\ Len(JobText(j)) \in 21 .. 22
<1>1. CASE j = "demo"
  <2>1. DemoCourse(c) /\ JobText(j) = DemoProgram /\ Len(DemoProgram) = 21
    BY <1>1, ProgramTexts DEF JobCourse, JobText
  <2>2. c.pc \in 0 .. 20
    BY <2>1 DEF DemoCourse, OnCourse
  <2> QED
    <3>1. Proceeds(j, c, JobText(j)[c.pc + 1])
      BY <1>1, <2>1, DemoStep, Zenon
    <3>2. Len(JobText(j)) = 21
      BY <2>1, Zenon
    <3> QED
      BY <2>2, <3>1, <3>2
<1>2. CASE j = "coremark"
  <2>1. MarkCourse(c) /\ JobText(j) = build_iteration /\ Len(build_iteration) = 22
    BY <1>2, ProgramTexts DEF JobCourse, JobText
  <2>2. c.pc \in 0 .. 21
    BY <2>1 DEF MarkCourse, OnCourse
  <2> QED
    <3>1. Proceeds(j, c, JobText(j)[c.pc + 1])
      BY <1>2, <2>1, MarkStep, Zenon
    <3>2. Len(JobText(j)) = 22
      BY <2>1, Zenon
    <3> QED
      BY <2>2, <3>1, <3>2
<1> QED
  BY <1>1, <1>2

--------------------------------------------------------------------------------
\* The driver

\* A core at the start of a program.
Fresh(c) ==
    c \in CoreState /\ ~c.mmu /\ ~c.halt /\ c.pc = 0 /\ c.prof.cycles = 0 /\ Queued(c) = 0

\* A constructed core, and one that was reset.
LEMMA FreshCores ==
    /\ \A t \in Target :
          LET c == [NewCore EXCEPT !.target = t] IN Fresh(c) /\ c.target = t
    /\ \A d \in CoreState : Fresh(Afresh(d)) /\ Afresh(d).target = d.target
<1>1. /\ NewCore \in CoreState /\ ~NewCore.mmu /\ ~NewCore.halt /\ NewCore.pc = 0
      /\ NewCore.prof.cycles = 0 /\ Len(NewCore.axi.pending) = 0
  BY NewCoreType DEF NewCore, EmptyFabric
<1> DEFINE n == NewCore
<1> HIDE DEF n
<1>2. n \in CoreState /\ ~n.mmu /\ ~n.halt /\ n.pc = 0 /\ n.prof.cycles = 0 /\ Len(n.axi.pending) = 0
  BY <1>1 DEF n
<1>3. ASSUME NEW t \in Target
      PROVE  LET c == [n EXCEPT !.target = t] IN Fresh(c) /\ c.target = t
  BY <1>2 DEF Fresh, Queued, CoreState
<1>4. ASSUME NEW d \in CoreState
      PROVE  LET c == [n EXCEPT !.timer = d.timer, !.tx = d.tx, !.target = d.target]
             IN  Fresh(c) /\ c.target = d.target
  <2>1. d.timer \in Timer /\ d.tx \in Seq(Word) /\ d.target \in Target
    BY DEF CoreState
  <2> QED
    BY <1>2, <2>1 DEF Fresh, Queued, CoreState
<1> QED
  BY <1>3, <1>4 DEF n, Afresh

\* The program and the matrices in place.
LEMMA LoadedFresh ==
    ASSUME Layout, NEW c, Fresh(c), NEW p
    PROVE  /\ Fresh(Loaded(c, p)) /\ Loaded(c, p).target = c.target
           /\ Loaded(c, p).ram[0] = MatrixA /\ Loaded(c, p).ram[1] = MatrixB
<1> DEFINE m == [a \in Addr |-> IF a \in CodeLines(p) THEN CodeValue ELSE c.mem[a]]
           w == [c.ram EXCEPT ![MainA] = MatrixA, ![MainB] = MatrixB]
           d == [c EXCEPT !.mem = m, !.ram = w]
<1>1. Loaded(c, p) = d
  BY DEF Loaded
<1>2. CodeValue \in Word /\ MatrixA \in Word /\ MatrixB \in Word /\ 0 \in RamAddr /\ 1 \in RamAddr
  BY DriverAssumption, MachineAssumption DEF Layout, RamAddr
<1>3. c \in CoreState /\ c.mem \in [Addr -> Word] /\ c.ram \in [RamAddr -> Word]
  BY DEF Fresh, CoreState
<1>4. m \in [Addr -> Word]
  BY <1>2, <1>3
<1>5. w \in [RamAddr -> Word] /\ w[0] = MatrixA /\ w[1] = MatrixB
  BY <1>2, <1>3 DEF MainA, MainB
<1> HIDE DEF m, w
<1>6. /\ d \in CoreState /\ d.mmu = c.mmu /\ d.halt = c.halt /\ d.pc = c.pc /\ d.prof = c.prof
      /\ d.axi = c.axi /\ d.target = c.target /\ d.ram = w
  BY <1>3, <1>4, <1>5 DEF CoreState
<1> HIDE DEF d
<1> QED
  BY <1>1, <1>5, <1>6 DEF Fresh, Queued

\* The head of an iteration.
LEMMA IterationFresh ==
    ASSUME Layout, NEW c, Fresh(c)
    PROVE  LET d == Iteration(c)
           IN  Fresh(d) /\ d.target = c.target /\ d.ram[0] = MatrixA /\ d.ram[1] = MatrixB
<1> DEFINE l == Loaded(c, build_iteration)
           m == [l.mem EXCEPT ![ScratchA] = MatrixA, ![ScratchB] = MatrixB]
           d == [l EXCEPT !.mem = m]
<1>1. Iteration(c) = d
  BY DEF Iteration
<1>2. Fresh(l) /\ l.target = c.target /\ l.ram[0] = MatrixA /\ l.ram[1] = MatrixB
  BY LoadedFresh
<1> HIDE DEF l
<1>3. l \in CoreState /\ l.mem \in [Addr -> Word] /\ MatrixA \in Word /\ MatrixB \in Word
  BY <1>2, DriverAssumption DEF Fresh, CoreState
<1>4. m \in [Addr -> Word]
  BY <1>3
<1> HIDE DEF m
<1>5. /\ d \in CoreState /\ d.mmu = l.mmu /\ d.halt = l.halt /\ d.pc = l.pc /\ d.prof = l.prof
      /\ d.axi = l.axi /\ d.target = l.target /\ d.ram = l.ram
  BY <1>3, <1>4 DEF CoreState
<1> HIDE DEF d
<1> QED
  BY <1>1, <1>2, <1>5 DEF Fresh, Queued

\* A program begins on its course.
LEMMA FreshCourse ==
    ASSUME NEW c, Fresh(c), c.ram[0] = MatrixA, c.ram[1] = MatrixB, NEW j \in {"demo", "coremark"}
    PROVE  JobCourse(j, c)
<1>1. c \in CoreState /\ ~c.mmu /\ ~c.halt /\ c.pc = 0 /\ c.prof.cycles = 0 /\ Queued(c) = 0
  BY DEF Fresh
<1>2. OnCourse(c)
  <2>1. Scalars(0, c.gpr) /\ Tiles(0, c.vr, c.mem, c.ram)
    BY DEF Scalars, Tiles
  <2>2. Spent(0, c.target, c.gpr[1], 0) /\ InFlight(0, 0)
    BY DEF Spent, InFlight
  <2> QED
    BY <1>1, <2>1, <2>2 DEF OnCourse
<1> QED
  BY <1>1, <1>2 DEF JobCourse, DemoCourse, MarkCourse

\* The programs the theorems are about: all but those of a file.
Own == job \in {"demo", "coremark"}

\* What is left of a block is what follows in the program.
Remains(t, s, p) ==
    /\ t \in Seq(Emitted) /\ Size(t) \in Nat \ {0}
    /\ \A k \in 1 .. Size(t) : t[k] = s[p + k]

\* Every iteration so far cost what the target makes of one, and passed its checks.
Tallied ==
    /\ score.done \in Nat /\ (job # "coremark" => score.done = 0)
    /\ score.cycles = score.done * score.last /\ score.list_ok /\ score.crc_ok
    /\ score.last \in Nat /\ (score.done > 0 => score.last = Total(emu.target))

Driven ==
    /\ Own => text = JobText(job)
    /\ Own /\ place \in {"loop", "block"} => JobCourse(job, emu)
    /\ Own /\ place = "block" => ~emu.halt /\ Remains(todo, text, emu.pc)
    /\ place = "idle" => job = "none"
    /\ Tallied /\ BitIdentical

\* A step of a loop that neither starts nor ends a program.
LEMMA DrivenInside ==
    ASSUME Driven, place \in {"loop", "block"}, UNCHANGED <<job, text, score>>,
           place' \in {"loop", "block", "thrown", "lost"},
           Own => emu'.target = emu.target,
           Own /\ place' \in {"loop", "block"} => JobCourse(job, emu'),
           Own /\ place' = "block" => ~emu'.halt /\ Remains(todo', text, emu'.pc)
    PROVE  Driven'
<1>1. Own' = Own /\ job' = job /\ text' = text /\ score' = score
  BY DEF Own
<1>2. /\ (Own => text = JobText(job))'
      /\ (Own /\ place \in {"loop", "block"} => JobCourse(job, emu))'
      /\ (Own /\ place = "block" => ~emu.halt /\ Remains(todo, text, emu.pc))'
      /\ (place = "idle" => job = "none")'
  BY <1>1 DEF Driven
<1>3. Tallied'
  <2>1. CASE job = "coremark"
    <3>1. emu'.target = emu.target
      BY <2>1 DEF Own
    <3> QED
      BY <1>1, <3>1 DEF Driven, Tallied
  <2>2. CASE job # "coremark"
    BY <1>1, <2>2 DEF Driven, Tallied
  <2> QED
    BY <2>1, <2>2
<1>4. BitIdentical'
  BY DEF BitIdentical
<1> QED
  BY <1>2, <1>3, <1>4 DEF Driven

\* Perform on one of the driver's own programs.
LEMMA PerformOwn ==
    ASSUME Layout, Driven, Own, place \in {"loop", "block"}, ~emu.halt,
           NEW i, i = text[emu.pc + 1], NEW next, Perform(i, next)
    PROVE  /\ place' = next /\ JobCourse(job, emu') /\ emu'.target = emu.target
           /\ ~EndsBlock(i.op) => emu'.pc = emu.pc + 1
<1>1. JobCourse(job, emu) /\ text = JobText(job) /\ job \in {"demo", "coremark"}
  BY DEF Driven, Own
<1>2. Proceeds(job, emu, i)
  BY <1>1, JobStep
<1>3. Past(emu) = [emu EXCEPT !.pc = Plus(@, 1)]
  BY DEF Past
<1>4. place' = next /\ emu' = Retires(emu, i)
  <2>1. Handled(Past(emu), i).end = "ok"
    BY <1>2 DEF Proceeds
  <2> QED
    BY <1>3, <2>1 DEF Perform, Retires
<1> QED
  BY <1>2, <1>4 DEF Proceeds

\* A block is a piece of the program.
LEMMA BlockRemains ==
    ASSUME text \in Seq(Emitted), NEW p \in Nat, p < Len(text)
    PROVE  Remains(BlockAt(p), text, p)
<1> DEFINE n == Len(text)
           Ends(k) == EndsBlock(text[k].op) \/ k % LineWords = 0 \/ k = n
           Is(k) == Ends(k) /\ \A j \in p + 1 .. k - 1 : ~EndsBlock(text[j].op) /\ j % LineWords # 0
           T == {k \in p + 1 .. n : Ends(k)}
           end == CHOOSE k \in p + 1 .. n : Is(k)
<1>0. n \in Nat /\ p + 1 \in Nat
  BY LenProperties
<1>1. \E k \in p + 1 .. n : Is(k)
  <2>1. n \in T /\ T \subseteq Nat
    BY <1>0
  <2>2. PICK k \in T : \A y \in T : k <= y
    <3> HIDE DEF T
    <3> QED
      BY <2>1, LeastElement
  <2>3. k \in p + 1 .. n /\ Ends(k)
    BY <2>2
  <2>4. ASSUME NEW j \in p + 1 .. k - 1 PROVE ~Ends(j)
    <3>1. j \in p + 1 .. n /\ ~(k <= j)
      BY <1>0, <2>3
    <3> QED
      BY <2>2, <3>1
  <2> QED
    BY <2>3, <2>4
<1>2. end \in p + 1 .. n
  <2> HIDE DEF Is
  <2> QED
    BY <1>1
<1>3. BlockAt(p) = SubSeq(text, p + 1, end)
  BY DEF BlockAt
<1> HIDE DEF end
<1>4. /\ BlockAt(p) \in Seq(Emitted) /\ Size(BlockAt(p)) = end - p
      /\ \A k \in 1 .. end - p : BlockAt(p)[k] = text[p + k]
  <2>1. \A k \in p + 1 .. end : text[k] \in Emitted
    BY <1>0, <1>2, ElementOfSeq
  <2>2. /\ SubSeq(text, p + 1, end) \in Seq(Emitted)
        /\ Len(SubSeq(text, p + 1, end)) = IF p + 1 <= end THEN end - (p + 1) + 1 ELSE 0
        /\ \A k \in 1 .. end - (p + 1) + 1 : SubSeq(text, p + 1, end)[k] = text[(p + 1) + k - 1]
    BY <1>0, <1>2, <2>1, SubSeqProperties
  <2>3. end - (p + 1) + 1 = end - p /\ p + 1 <= end
    BY <1>0, <1>2
  <2>4. \A k \in 1 .. end - p : (p + 1) + k - 1 = p + k
    BY <1>0, <1>2
  <2> QED
    BY <1>3, <2>2, <2>3, <2>4 DEF Size
<1>5. end - p \in Nat \ {0}
  BY <1>0, <1>2
<1> QED
  BY <1>4, <1>5 DEF Remains

\* And so is its tail.
LEMMA TailRemains ==
    ASSUME NEW t, NEW s, NEW p \in Nat, Remains(t, s, p)
    PROVE  Head(t) = s[p + 1] /\ (Tail(t) # << >> => Remains(Tail(t), s, p + 1))
<1> DEFINE u == Tail(t)
           n == Size(t)
<1>1. t \in Seq(Emitted) /\ n \in Nat \ {0} /\ \A k \in 1 .. n : t[k] = s[p + k]
  BY DEF Remains
<1>2. t # << >>
  BY <1>1, EmptySeq DEF Size
<1>3. u \in Seq(Emitted) /\ Size(u) = n - 1 /\ \A k \in 1 .. Size(u) : u[k] = t[k + 1]
  BY <1>1, <1>2, HeadTailProperties DEF Size
<1>4. Head(t) = t[1]
  BY <1>1, <1>2
<1>6. u # << >> => Size(u) # 0
  BY <1>3, EmptySeq DEF Size
<1> HIDE DEF u, n
<1>5. Head(t) = s[p + 1]
  BY <1>1, <1>4
<1>7. ASSUME u # << >> PROVE Remains(u, s, p + 1)
  <2>1. n - 1 \in Nat \ {0}
    BY <1>1, <1>3, <1>6, <1>7
  <2>2. ASSUME NEW k \in 1 .. n - 1 PROVE u[k] = s[(p + 1) + k]
    <3>1. k + 1 \in 1 .. n /\ p + (k + 1) = (p + 1) + k
      BY <1>1
    <3> QED
      BY <1>1, <1>3, <3>1
  <2> QED
    BY <1>3, <2>1, <2>2 DEF Remains
<1> QED
  BY <1>5, <1>7 DEF u

\* run() executes a word.
LEMMA DrivenPlain == Layout /\ Driven /\ PlainStep => Driven'
<1> SUFFICES ASSUME Layout, Driven, PlainStep PROVE Driven'
  OBVIOUS
<1>0. place = "loop" /\ ~emu.halt /\ UNCHANGED <<job, text, score>>
  BY DEF PlainStep
<1>1. CASE Perform(text[emu.pc + 1], "loop")
  <2>1. place' \in {"loop", "thrown"}
    BY <1>1 DEF Perform
  <2>2. Own => JobCourse(job, emu') /\ emu'.target = emu.target
    BY <1>0, <1>1, PerformOwn
  <2> QED
    BY <1>0, <2>1, <2>2, DrivenInside
<1>2. CASE place' = "lost" /\ UNCHANGED <<emu, intact>>
  BY <1>0, <1>2, DrivenInside
<1> QED
  BY <1>1, <1>2 DEF PlainStep

\* run_fast() enters a block.
LEMMA DrivenEnter == Layout /\ Driven /\ EnterBlock => Driven'
<1> SUFFICES ASSUME Layout, Driven, EnterBlock PROVE Driven'
  OBVIOUS
<1>0. place = "loop" /\ ~emu.halt /\ UNCHANGED <<job, text, score, emu>>
  BY DEF EnterBlock
<1>1. CASE place' = "block" /\ todo' = BlockAt(emu.pc)
  <2>1. ASSUME Own PROVE JobCourse(job, emu) /\ Remains(BlockAt(emu.pc), text, emu.pc)
    <3>1. JobCourse(job, emu) /\ text = JobText(job) /\ job \in {"demo", "coremark"}
      BY <1>0, <2>1 DEF Driven, Own
    <3>2. emu.pc \in 0 .. Len(text) - 1 /\ Len(text) \in 21 .. 22
      BY <1>0, <3>1, JobStep
    <3>3. text \in Seq(Emitted)
      BY <3>1, ProgramTexts DEF JobText
    <3>4. emu.pc \in Nat /\ emu.pc < Len(text)
      BY <3>2
    <3> QED
      BY <3>1, <3>3, <3>4, BlockRemains
  <2>2. Own => emu'.target = emu.target /\ JobCourse(job, emu')
    BY <1>0, <2>1
  <2>3. Own => ~emu'.halt /\ Remains(todo', text, emu'.pc)
    BY <1>0, <1>1, <2>1
  <2> QED
    BY <1>0, <1>1, <2>2, <2>3, DrivenInside
<1>2. CASE place' = "lost"
  BY <1>0, <1>2, DrivenInside
<1> QED
  BY <1>1, <1>2 DEF EnterBlock

\* run_fast() executes an operation of a block.
LEMMA DrivenBlock == Layout /\ Driven /\ BlockStep => Driven'
<1> SUFFICES ASSUME Layout, Driven, BlockStep PROVE Driven'
  OBVIOUS
<1> DEFINE i == Head(todo)
           leaves == Tail(todo) = << >> \/ EndsBlock(i.op)
           next == IF leaves THEN "loop" ELSE "block"
<1>0. /\ place = "block" /\ UNCHANGED <<job, text, score>>
      /\ Perform(i, next) /\ todo' = IF leaves THEN << >> ELSE Tail(todo)
  BY DEF BlockStep
<1>1. place' \in {"loop", "block", "thrown"}
  BY <1>0 DEF Perform
<1>2. ASSUME Own
      PROVE  /\ JobCourse(job, emu') /\ emu'.target = emu.target
             /\ place' = "block" => ~emu'.halt /\ Remains(todo', text, emu'.pc)
  <2>1. /\ JobCourse(job, emu) /\ text = JobText(job) /\ job \in {"demo", "coremark"}
        /\ ~emu.halt /\ Remains(todo, text, emu.pc)
    BY <1>0, <1>2 DEF Driven, Own
  <2>2. emu.pc \in Nat
    BY <2>1, JobStep
  <2>3. i = text[emu.pc + 1] /\ (Tail(todo) # << >> => Remains(Tail(todo), text, emu.pc + 1))
    BY <2>1, <2>2, TailRemains
  <2> HIDE DEF i
  <2>4. /\ place' = next /\ JobCourse(job, emu') /\ emu'.target = emu.target
        /\ ~EndsBlock(i.op) => emu'.pc = emu.pc + 1
    BY <1>0, <1>2, <2>1, <2>3, PerformOwn
  <2>5. ASSUME place' = "block" PROVE ~emu'.halt /\ Remains(todo', text, emu'.pc)
    <3>1. ~leaves
      BY <2>4, <2>5
    <3>2. todo' = Tail(todo) /\ Tail(todo) # << >> /\ emu'.pc = emu.pc + 1
      BY <1>0, <2>4, <3>1
    <3>3. Remains(todo', text, emu'.pc)
      BY <2>3, <3>2
    <3>4. emu'.pc # Len(text) => ~emu'.halt
      BY <2>1, <2>4, ProgramTexts DEF JobCourse, JobText, DemoCourse, MarkCourse
    <3>5. emu'.pc # Len(text)
      <4>1. i.op = "HALT" => EndsBlock(i.op)
        BY DEF EndsBlock
      <4>2. text[Len(text)] = make("HALT")
        BY <2>1, ProgramTexts DEF JobText
      <4>3. emu.pc + 1 = Len(text) => i.op = "HALT"
        BY <2>3, <4>2 DEF make, rtype
      <4> QED
        BY <3>1, <3>2, <4>1, <4>3
    <3> QED
      BY <3>3, <3>4, <3>5
  <2> QED
    BY <2>4, <2>5
<1> QED
  BY <1>0, <1>1, <1>2, DrivenInside

\* The loop returns to main().
LEMMA DrivenReturn == Layout /\ Driven /\ Return => Driven'
<1> SUFFICES ASSUME Layout, Driven, Return PROVE Driven'
  OBVIOUS
<1>0. /\ place = "loop" /\ emu.halt /\ job # "coremark" /\ place' = "done"
      /\ emu' = [emu EXCEPT !.tx = << >>] /\ UNCHANGED <<job, text, score>>
  BY DEF Return
<1>1. Own' = Own
  BY <1>0 DEF Own
<1>2. Tallied'
  BY <1>0 DEF Driven, Tallied
<1>3. BitIdentical'
  <2> SUFFICES ASSUME job = "demo" PROVE BitIdentical'
    BY <1>0 DEF BitIdentical
  <2>1. DemoCourse(emu)
    BY <1>0 DEF Driven, Own, JobCourse
  <2>2. /\ emu \in CoreState /\ emu.pc = 21 /\ Scalars(21, emu.gpr)
        /\ Tiles(21, emu.vr, emu.mem, emu.ram) /\ emu.ram[MainResult] = Times(MatrixA, MatrixB)
    BY <1>0, <2>1 DEF DemoCourse, OnCourse
  <2>3. emu.gpr[3] = 15 /\ emu.mem[ScratchA] = Times(MatrixA, MatrixB)
    BY <2>2 DEF Scalars, Tiles
  <2>4. emu'.gpr = emu.gpr /\ emu'.mem = emu.mem /\ emu'.ram = emu.ram
    BY <1>0, <2>2 DEF CoreState
  <2> QED
    BY <2>2, <2>3, <2>4 DEF BitIdentical, read_gpr
<1> QED
  BY <1>0, <1>1, <1>2, <1>3 DEF Driven

\* The end of an iteration: what the score becomes.
LEMMA MarkScored ==
    ASSUME Layout, Driven, job = "coremark", place = "loop", emu.halt
    PROVE  LET s == Scored(score, emu)
           IN  /\ s.done \in Nat \ {0} /\ s.last = Total(emu.target) /\ s.last \in Nat
               /\ s.cycles = s.done * s.last /\ s.list_ok /\ s.crc_ok
               /\ emu.mem[ScratchA] = Times(MatrixA, MatrixB) /\ emu \in CoreState
<1> DEFINE t == Total(emu.target)
           s == Scored(score, emu)
<1>1. MarkCourse(emu)
  BY DEF Driven, Own, JobCourse
<1>2. /\ emu \in CoreState /\ emu.pc = 22 /\ Scalars(22, emu.gpr)
      /\ Tiles(22, emu.vr, emu.mem, emu.ram) /\ emu.prof.cycles = t
  BY <1>1 DEF MarkCourse, OnCourse
<1>3. emu.gpr[3] = 15 /\ emu.mem[ScratchA] = Times(MatrixA, MatrixB)
  BY <1>2 DEF Scalars, Tiles
<1>4. t \in Nat
  <2>1. emu.prof \in Profile
    BY <1>2 DEF CoreState
  <2> QED
    BY <1>2, <2>1 DEF Profile
<1> HIDE DEF t
<1>5. /\ s.done = score.done + 1 /\ s.cycles = score.cycles + t /\ s.last = t
      /\ s.list_ok = (score.list_ok /\ read_gpr(emu, 3) = 15)
      /\ s.crc_ok = (score.crc_ok /\ emu.halt)
  BY <1>2 DEF Scored
<1>6. /\ score.done \in Nat /\ score.cycles = score.done * score.last
      /\ score.list_ok /\ score.crc_ok /\ score.last \in Nat
      /\ score.done > 0 => score.last = t
  BY DEF Driven, Tallied, t
<1> HIDE DEF s
<1>7. s.list_ok /\ s.crc_ok
  BY <1>3, <1>5, <1>6 DEF read_gpr
<1>8. s.cycles = s.done * s.last
  <2>1. CASE score.done = 0
    <3>1. score.cycles = 0
      BY <1>6, <2>1
    <3> QED
      BY <1>4, <1>5, <2>1, <3>1
  <2>2. CASE score.done > 0
    <3>1. score.cycles = score.done * t
      BY <1>6, <2>2
    <3>2. \A n \in Nat : n * t + t = (n + 1) * t
      BY <1>4
    <3> QED
      BY <1>5, <1>6, <3>1, <3>2
  <2> QED
    BY <1>6, <2>1, <2>2
<1> QED
  BY <1>2, <1>3, <1>4, <1>5, <1>6, <1>7, <1>8 DEF s, t

\* The loop returns to coremark::run.
LEMMA DrivenIteration == Layout /\ Driven /\ IterationEnds => Driven'
<1> SUFFICES ASSUME Layout, Driven, IterationEnds PROVE Driven'
  OBVIOUS
<1>0. /\ place = "loop" /\ emu.halt /\ job = "coremark" /\ score' = Scored(score, emu)
  BY DEF IterationEnds
<1>1. /\ score'.done \in Nat \ {0} /\ score'.last = Total(emu.target) /\ score'.last \in Nat
      /\ score'.cycles = score'.done * score'.last /\ score'.list_ok /\ score'.crc_ok
      /\ emu \in CoreState
  BY <1>0, MarkScored
<1>2. Fresh(Afresh(emu)) /\ Afresh(emu).target = emu.target
  BY <1>1, FreshCores
<1>3. ASSUME emu'.target = emu.target, job' = "coremark" PROVE Tallied'
  BY <1>1, <1>3 DEF Tallied
<1>4. CASE Call("coremark", mode, Iteration(Afresh(emu)), build_iteration)
  <2>1. /\ job' = "coremark" /\ text' = build_iteration /\ place' = "loop"
        /\ emu' = Iteration(Afresh(emu))
    BY <1>4 DEF Call
  <2>2. Fresh(emu') /\ emu'.target = emu.target /\ emu'.ram[0] = MatrixA /\ emu'.ram[1] = MatrixB
    BY <1>2, <2>1, IterationFresh
  <2>3. JobCourse(job', emu')
    BY <2>1, <2>2, FreshCourse
  <2>4. Tallied'
    BY <1>3, <2>1, <2>2
  <2>5. text' = JobText(job')
    BY <2>1 DEF JobText
  <2> QED
    BY <2>1, <2>3, <2>4, <2>5 DEF Driven, BitIdentical
<1>5. CASE place' = "done" /\ emu' = Afresh(emu) /\ UNCHANGED <<job, text>>
  <2>1. Tallied'
    BY <1>0, <1>2, <1>3, <1>5
  <2>2. text' = JobText(job')
    BY <1>0, <1>5 DEF Driven, Own
  <2> QED
    BY <1>0, <1>5, <2>1, <2>2 DEF Driven, BitIdentical
<1> QED
  BY <1>4, <1>5 DEF IterationEnds

\* The start of a program.
LEMMA DrivenLaunch == Layout /\ Driven /\ place = "idle" /\ Launch => Driven'
<1> SUFFICES ASSUME Layout, Driven, place = "idle", Launch PROVE Driven'
  OBVIOUS
<1>0. /\ score.done = 0 /\ score.cycles = score.done * score.last
      /\ score.list_ok /\ score.crc_ok /\ score.last \in Nat
  BY DEF Driven, Tallied
<1>1. score' = score => Tallied'
  BY <1>0 DEF Tallied
<1>2. ASSUME job' = "file", score' = score, place' # "idle" PROVE Driven'
  BY <1>1, <1>2 DEF Driven, Own, BitIdentical
<1>3. CASE \E src \in Sources : RunFile(src)
  BY <1>2, <1>3 DEF RunFile, Call
<1>5. ASSUME NEW j \in {"demo", "coremark"}, job' = j, text' = JobText(j), place' = "loop",
             JobCourse(j, emu'), score' = score
      PROVE  Driven'
  BY <1>1, <1>5 DEF Driven, BitIdentical
<1>6. ASSUME NEW how, NEW t \in Target, RunDemo(how, t) PROVE Driven'
  <2> DEFINE c == [NewCore EXCEPT !.target = t]
  <2>1. Fresh(c)
    BY FreshCores
  <2>2. /\ job' = "demo" /\ text' = DemoProgram /\ place' = "loop" /\ score' = score
        /\ emu' = Loaded(c, DemoProgram)
    BY <1>6 DEF RunDemo, Call
  <2> HIDE DEF c
  <2>3. Fresh(emu') /\ emu'.ram[0] = MatrixA /\ emu'.ram[1] = MatrixB
    BY <2>1, <2>2, LoadedFresh
  <2>4. JobCourse("demo", emu')
    BY <2>3, FreshCourse
  <2> QED
    BY <1>5, <2>2, <2>4 DEF JobText
<1>7. ASSUME NEW how, NEW t \in Target, RunCoreMark(how, t) PROVE Driven'
  <2> DEFINE c == [NewCore EXCEPT !.target = t]
  <2>1. Fresh(c)
    BY FreshCores
  <2>2. /\ job' = "coremark" /\ text' = build_iteration /\ place' = "loop" /\ score' = score
        /\ emu' = Iteration(c)
    BY <1>7 DEF RunCoreMark, Call
  <2> HIDE DEF c
  <2>3. Fresh(emu') /\ emu'.ram[0] = MatrixA /\ emu'.ram[1] = MatrixB
    BY <2>1, <2>2, IterationFresh
  <2>4. JobCourse("coremark", emu')
    BY <2>3, FreshCourse
  <2> QED
    BY <1>5, <2>2, <2>4 DEF JobText
<1> QED
  BY <1>3, <1>6, <1>7 DEF Launch

\* Nothing has been run yet.
LEMMA DrivenInit == DriverInit => Driven
<1> SUFFICES ASSUME DriverInit PROVE Driven
  OBVIOUS
<1>1. job = "none" /\ place = "idle" /\ score.done = 0 /\ score.cycles = 0 /\ score.last = 0
      /\ score.list_ok /\ score.crc_ok
  BY DEF DriverInit
<1>2. Tallied
  BY <1>1 DEF Tallied
<1> QED
  BY <1>1, <1>2 DEF Driven, Own, BitIdentical

\* Every step of the driver.
LEMMA DrivenNext == Layout /\ Driven /\ [DriverNext]_driver_vars => Driven'
<1> SUFFICES ASSUME Layout, Driven, [DriverNext]_driver_vars PROVE Driven'
  OBVIOUS
<1>1. CASE place = "idle" /\ Launch
  BY <1>1, DrivenLaunch
<1>2. CASE Executing
  BY <1>2, DrivenPlain, DrivenEnter, DrivenBlock, DrivenReturn, DrivenIteration DEF Executing
<1>3. CASE UNCHANGED driver_vars
  BY <1>3 DEF driver_vars, Driven, Own, Tallied, BitIdentical
<1> QED
  BY <1>1, <1>2, <1>3 DEF DriverNext

\* On every layout that holds the program and its lines, on every target and in both
\* loops, the demonstration ends with the sum 15 and the product of the two matrices in
\* both memories ("results must be bit-identical", src/main.cpp:269).
THEOREM DemoBitIdentical == ASSUME Layout PROVE DriverSpec => []BitIdentical
<1>1. DriverInit => Driven
  BY DrivenInit
<1>2. Driven /\ [DriverNext]_driver_vars => Driven'
  BY DrivenNext
<1>3. Driven => BitIdentical
  BY DEF Driven
<1> QED
  BY <1>1, <1>2, <1>3, PTL DEF DriverSpec

\* On every such layout every iteration of the suite costs the same, passes its checks
\* and computes the product, however many there are, although the reset between them
\* keeps the timer, the output and the target (coremark::run).
THEOREM MarkIterationsAlike == ASSUME Layout PROVE DriverSpec => []IterationsAlike
<1>1. DriverInit => Driven
  BY DrivenInit
<1>2. Driven /\ [DriverNext]_driver_vars => Driven'
  BY DrivenNext
<1>3. Driven => IterationsAlike
  <2> SUFFICES ASSUME Driven PROVE IterationsAlike
    OBVIOUS
  <2>1. job = "coremark" /\ place = "loop" /\ emu.halt =>
           emu.mem[ScratchA] = Times(MatrixA, MatrixB)
    BY MarkScored
  <2> QED
    BY <2>1 DEF Driven, Tallied, IterationsAlike
<1> QED
  BY <1>1, <1>2, <1>3, PTL DEF DriverSpec
================================================================================
