----------------------------- MODULE MachineProofs -----------------------------
(***************************************************************************)
(* Lemmas about the operators of Machine, for every word size, memory size *)
(* and decoding: they keep the core well typed, no handler returns more    *)
(* cycles than CostBound allows, and a step leaves alone what it does not  *)
(* own, traps precisely, counts its cycles once and lets no transaction of *)
(* the fabric outlive the next tick.                                       *)
(***************************************************************************)
EXTENDS Machine, SequenceTheorems, NumberLemmas, TLAPS

--------------------------------------------------------------------------------
\* Words and registers

\* Word arithmetic (uint32_t in the handlers) stays within the word.
LEMMA ArithmeticType ==
    ASSUME NEW a \in Word, NEW b \in Word
    PROVE  Plus(a, b) \in Word /\ Minus(a, b) \in Word
BY IsaAssumption DEF Plus, Minus, Word

\* 0 and 1 are words.
LEMMA SmallWords == 0 \in Word /\ 1 \in Word
BY IsaAssumption DEF Word

\* The product of two words is a word (op_mul).
LEMMA TimesType ==
    ASSUME NEW a \in Word, NEW b \in Word
    PROVE  Times(a, b) \in Word
<1>1. a * b \in Nat
  BY IsaAssumption DEF Word
<1>2. \A p \in Nat : p % WordCount \in Word
  BY IsaAssumption DEF Word
<1> QED
  BY <1>1, <1>2 DEF Times

\* read_gpr yields a word.
LEMMA ReadGprType ==
    ASSUME NEW c \in CoreState, NEW r \in Gpr
    PROVE  read_gpr(c, r) \in Word
BY SmallWords DEF CoreState, read_gpr

\* write_gpr keeps the register file typed.
LEMMA WriteGprType ==
    ASSUME NEW g \in [Gpr -> Word], NEW r, NEW v \in Word
    PROVE  write_gpr(g, r, v) \in [Gpr -> Word]
BY SmallWords DEF write_gpr

\* A core with a new register file is a core.
LEMMA SetGprType ==
    ASSUME NEW c \in CoreState, NEW r, NEW v \in Word
    PROVE  [c EXCEPT !.gpr = write_gpr(c.gpr, r, v)] \in CoreState
<1>1. \A g \in [Gpr -> Word] : [c EXCEPT !.gpr = g] \in CoreState
  BY DEF CoreState
<1>2. c.gpr \in [Gpr -> Word]
  BY DEF CoreState
<1> QED
  BY <1>1, <1>2, WriteGprType

\* The flags keep the core typed, and leave the accumulator alone.
LEMMA FlagsType ==
    ASSUME NEW c \in CoreState, NEW v \in Word
    PROVE  update_flags_u32(c, v) \in CoreState /\ update_flags_u32(c, v).accum = c.accum
<1>1. \A z, n \in BOOLEAN :
        LET d == [c EXCEPT !.zero = z, !.negative = n, !.overflow = FALSE]
        IN  d \in CoreState /\ d.accum = c.accum
  BY DEF CoreState
<1>2. (v = 0) \in BOOLEAN /\ Negative(v) \in BOOLEAN
  BY DEF Negative
<1> QED
  BY <1>1, <1>2, Zenon DEF update_flags_u32

--------------------------------------------------------------------------------
\* The fabric

\* The pop loop of Interconnect::tick stops: there is a longest due prefix.
LEMMA DueCountProperties ==
    ASSUME NEW p \in Seq(Nat), NEW now \in Nat
    PROVE  LET k == DueCount(p, now)
           IN  /\ k \in 0 .. Len(p)
               /\ \A j \in 1 .. k : p[j] <= now
               /\ k < Len(p) => p[k + 1] > now
<1> DEFINE T == {k \in 0 .. Len(p) : k < Len(p) => p[k + 1] > now}
<1>1. Len(p) \in T /\ T \subseteq Nat
  BY LenProperties
<1>2. PICK k \in T : \A y \in T : k <= y
  <2> HIDE DEF T
  <2> QED BY <1>1, LeastElement
<1>3. \A j \in 1 .. k : p[j] <= now
  <2> TAKE j \in 1 .. k
  <2>1. p[j] \in Nat
    BY <1>2, LenProperties, ElementOfSeq
  <2>2. j - 1 \notin T
    <3> k \in Nat
      BY <1>1, <1>2
    <3> j \in Nat /\ j - 1 < k
      OBVIOUS
    <3> HIDE DEF T
    <3> QED BY <1>1, <1>2
  <2> QED
    BY <2>1, <2>2, <1>2, LenProperties
<1> QED
  BY <1>2, <1>3 DEF DueCount

\* The latency of a transaction is a number of cycles (latency_for).
LEMMA LatencyType ==
    ASSUME NEW cfg \in FabricConfig, NEW bytes \in Nat
    PROVE  latency_for(cfg, bytes) \in Nat
BY DEF FabricConfig, latency_for

\* issue() keeps the fabric typed.
LEMMA IssueType ==
    ASSUME NEW f \in Fabric, NEW cfg \in FabricConfig, NEW bytes \in Nat, NEW cycle \in Nat
    PROVE  fabric_issue(f, cfg, bytes, cycle) \in Fabric
<1> DEFINE e == cycle + latency_for(cfg, bytes)
<1>1. e \in Nat
  BY LatencyType
<1>2. f.pending \in Seq(Nat)
  BY DEF Fabric
<1>3. Append(f.pending, e) \in Seq(Nat)
  BY <1>1, <1>2, AppendProperties
<1>4. \A q \in Seq(Nat) : [f EXCEPT !.pending = q, !.cur = cycle] \in Fabric
  BY DEF Fabric
<1>5. \A n \in Nat : [f EXCEPT !.stalled = n] \in Fabric
  BY DEF Fabric
<1>6. f.stalled + 1 \in Nat
  BY DEF Fabric
<1>7. /\ [f EXCEPT !.pending = Append(f.pending, e), !.cur = cycle] \in Fabric
      /\ [f EXCEPT !.stalled = f.stalled + 1] \in Fabric
  BY <1>3, <1>4, <1>5, <1>6
<1> QED
  BY <1>7, Zenon DEF fabric_issue

\* tick() keeps the fabric typed.
LEMMA FabricTickType ==
    ASSUME NEW f \in Fabric, NEW cycles \in Nat
    PROVE  fabric_tick(f, cycles) \in Fabric
<1> DEFINE now == f.cur + cycles
           k == DueCount(f.pending, now)
           q == SubSeq(f.pending, k + 1, Len(f.pending))
<1>1. f.pending \in Seq(Nat) /\ now \in Nat /\ f.completed \in Nat
  BY DEF Fabric
<1>2. k \in 0 .. Len(f.pending) /\ Len(f.pending) \in Nat
  BY <1>1, DueCountProperties, LenProperties
<1>3. \A j \in k + 1 .. Len(f.pending) : f.pending[j] \in Nat
  BY <1>1, <1>2, ElementOfSeq
<1>4. q \in Seq(Nat)
  BY <1>2, <1>3, SubSeqProperties
<1>5. \A s \in Seq(Nat), n, d \in Nat :
        [f EXCEPT !.pending = s, !.cur = n, !.completed = d] \in Fabric
  BY DEF Fabric
<1>6. f.completed + k \in Nat
  BY <1>1, <1>2
<1> HIDE DEF q, k, now
<1>7. [f EXCEPT !.pending = q, !.cur = now, !.completed = f.completed + k] \in Fabric
  BY <1>1, <1>4, <1>5, <1>6
<1> QED
  BY <1>7 DEF fabric_tick, q, k, now

--------------------------------------------------------------------------------
\* Devices and bus

\* The timer's methods keep it typed (the counters of the code have 64 bits).
LEMMA TimerType ==
    ASSUME NEW t \in Timer, NEW reg, NEW v \in Word
    PROVE  /\ timer_tick(t, CyclesPerTick) \in Timer
           /\ timer_value(t, reg) \in Word
           /\ timer_read(t, reg) \in Timer
           /\ timer_write(t, reg, v) \in Timer
<1> v \in Nat /\ WordCount \in Nat \ {0} /\ CyclesPerTick \in Nat
  BY IsaAssumption DEF Word
<1>1. timer_tick(t, CyclesPerTick) \in Timer
  <2>1. t.count \in Nat /\ t.limit \in Nat
    BY DEF Timer
  <2>2. \A x \in Nat : /\ [t EXCEPT !.count = x] \in Timer
                      /\ [t EXCEPT !.count = x, !.irq_pending = TRUE] \in Timer
    BY DEF Timer
  <2>3. t.count + CyclesPerTick \in Nat
    BY <2>1
  <2>4. t.count + CyclesPerTick >= t.limit => t.count + CyclesPerTick - t.limit \in Nat
    BY <2>1
  <2> QED
    BY <2>2, <2>3, <2>4 DEF timer_tick
<1>2. timer_value(t, reg) \in Word
  BY SmallWords DEF Timer, timer_value, Word
<1>3. timer_read(t, reg) \in Timer
  BY DEF Timer, timer_read
<1>4. timer_write(t, reg, v) \in Timer
  <2>1. \A x \in Nat, b \in BOOLEAN :
          /\ [t EXCEPT !.count = x] \in Timer
          /\ [t EXCEPT !.limit = x] \in Timer
          /\ [t EXCEPT !.ctrl = b] \in Timer
          /\ [t EXCEPT !.irq_pending = FALSE] \in Timer
    BY DEF Timer
  <2>2. (v # 0) \in BOOLEAN
    OBVIOUS
  <2> QED
    BY <2>1, <2>2, Zenon DEF timer_write
<1> QED
  BY <1>1, <1>2, <1>3, <1>4

\* The UART's buffer stays a sequence of words.
LEMMA UartType ==
    ASSUME NEW tx \in Seq(Word), NEW reg, NEW v \in Word
    PROVE  uart_write(tx, reg, v) \in Seq(Word) /\ uart_value(reg) \in Word
BY SmallWords, AppendProperties, EmptySeq DEF uart_write, uart_value

\* A typed core with the tick accumulator and the target of another.
Same(d, c) == d \in CoreState /\ d.accum = c.accum /\ d.target = c.target

\* Replacing one component of a core by another of its type gives a core, and
\* leaves the tick accumulator and the target alone.
LEMMA Updates ==
    ASSUME NEW c \in CoreState
    PROVE  /\ \A v \in Word : Same([c EXCEPT !.pc = v], c)
           /\ \A t \in Timer : Same([c EXCEPT !.timer = t], c)
           /\ \A q \in Seq(Word) : Same([c EXCEPT !.tx = q], c)
           /\ \A f \in [Addr -> Word] : Same([c EXCEPT !.mem = f], c)
           /\ \A f \in [Vr -> Word] : Same([c EXCEPT !.vr = f], c)
           /\ \A f \in Fabric : Same([c EXCEPT !.axi = f], c)
           /\ \A f \in [Gpr -> Word] : Same([c EXCEPT !.gpr = f], c)
           /\ \A s \in Csr, v \in Word : Same([c EXCEPT !.csr = s, !.pc = v], c)
<1>1. \A v \in Word : Same([c EXCEPT !.pc = v], c)
  BY DEF CoreState, Same
<1>2. \A t \in Timer : Same([c EXCEPT !.timer = t], c)
  BY DEF CoreState, Same
<1>3. \A q \in Seq(Word) : Same([c EXCEPT !.tx = q], c)
  BY DEF CoreState, Same
<1>4. \A f \in [Addr -> Word] : Same([c EXCEPT !.mem = f], c)
  BY DEF CoreState, Same
<1>5. \A f \in [Vr -> Word] : Same([c EXCEPT !.vr = f], c)
  BY DEF CoreState, Same
<1>6. \A f \in Fabric : Same([c EXCEPT !.axi = f], c)
  BY DEF CoreState, Same
<1>7. \A f \in [Gpr -> Word] : Same([c EXCEPT !.gpr = f], c)
  BY DEF CoreState, Same
<1>8. \A s \in Csr, v \in Word : Same([c EXCEPT !.csr = s, !.pc = v], c)
  BY DEF CoreState, Same
<1> QED
  BY <1>1, <1>2, <1>3, <1>4, <1>5, <1>6, <1>7, <1>8

\* A mapped address reads as a word (Bus::read32).
LEMMA BusValueType ==
    ASSUME NEW c \in CoreState, NEW a, BusMapped(a)
    PROVE  bus_value(c, a) \in Word
<1>1. CASE a \in DOMAIN Mmio
  BY <1>1, TimerType, UartType, SmallWords, EmptySeq DEF CoreState, bus_value
<1>2. CASE a \notin DOMAIN Mmio
  BY <1>2 DEF CoreState, bus_value, BusMapped
<1> QED
  BY <1>1, <1>2

\* A read changes at most the timer.
LEMMA BusReadType ==
    ASSUME NEW c \in CoreState, NEW a
    PROVE  Same(bus_read(c, a), c)
<1>1. c.timer \in Timer
  BY DEF CoreState
<1>2. \A reg : Same([c EXCEPT !.timer = timer_read(c.timer, reg)], c)
  BY <1>1, TimerType, SmallWords, Updates
<1>3. Same(c, c)
  BY DEF Same
<1> QED
  BY <1>2, <1>3 DEF bus_read

\* A write to a mapped address changes a device or the scratchpad.
LEMMA BusWriteType ==
    ASSUME NEW c \in CoreState, NEW a, BusMapped(a), NEW v \in Word
    PROVE  Same(bus_write(c, a, v), c)
<1>1. c.timer \in Timer /\ c.tx \in Seq(Word) /\ c.mem \in [Addr -> Word]
  BY DEF CoreState
<1>2. \A reg : Same([c EXCEPT !.timer = timer_write(c.timer, reg, v)], c)
  BY <1>1, TimerType, Updates
<1>3. \A reg : Same([c EXCEPT !.tx = uart_write(c.tx, reg, v)], c)
  BY <1>1, UartType, Updates
<1>4. Same([c EXCEPT !.mem = [c.mem EXCEPT ![a] = v]], c)
  <2>1. [c.mem EXCEPT ![a] = v] \in [Addr -> Word]
    BY <1>1
  <2> QED
    BY <2>1, Updates
<1> QED
  BY <1>2, <1>3, <1>4 DEF bus_write

--------------------------------------------------------------------------------
\* Traps

\* take_trap keeps the CSR file typed.
LEMMA TakeTrapType ==
    ASSUME NEW s \in Csr, NEW t \in Trap
    PROVE  take_trap(s, t) \in Csr
<1>1. t.pc \in Word /\ t.tval \in Word /\ t.cause \in Cause
  BY DEF Trap, Cause
<1>2. s.mie \in BOOLEAN /\ s.priv \in Priv
  BY DEF Csr
<1>3. \A e, v \in Word, x \in Cause, b \in BOOLEAN, pr \in Priv :
        [s EXCEPT !.mepc = e, !.mcause = x, !.mtval = v,
                  !.mpie = b, !.mie = FALSE, !.mpp = pr, !.priv = "M"] \in Csr
  BY DEF Csr, Priv
<1> QED
  BY <1>1, <1>2, <1>3 DEF take_trap

\* Entering a trap keeps the core typed.
LEMMA RedirectType ==
    ASSUME NEW c \in CoreState, NEW t \in Trap
    PROVE  Same(Redirect(c, t), c)
<1>1. c.csr \in Csr /\ c.csr.mtvec \in Word
  BY DEF CoreState, Csr
<1> QED
  BY <1>1, TakeTrapType, Updates DEF Redirect

\* The trap records the executor builds are traps.
LEMMA TrapTypes ==
    ASSUME NEW pc \in Word, NEW v \in Word
    PROVE  /\ \A b \in BOOLEAN : page_fault_trap(pc, v, b) \in Trap
           /\ illegal_inst_trap(pc, v) \in Trap
           /\ [cause |-> "InstPageFault", tval |-> v, pc |-> pc] \in Trap
BY DEF page_fault_trap, illegal_inst_trap, Trap, Exception

\* The interrupt check at the head of step() keeps the core typed.
LEMMA EnterInterruptType ==
    ASSUME NEW c \in CoreState
    PROVE  Same(enter_interrupt(c), c)
<1> DEFINE t == pending_interrupt(c.csr, c.mip)
<1>1. c.csr \in Csr /\ c.csr.mtvec \in Word
  BY DEF CoreState, Csr
<1>2. t \in Trap /\ t.cause \in Line
  BY SmallWords DEF pending_interrupt, Picked, Trap, Line
<1>3. VectorIndex(t.cause) \in Nat
  BY DEF VectorIndex
<1>4. Plus(c.csr.mtvec, VectorIndex(t.cause)) \in Word
  <2>1. \A a, b \in Nat : Plus(a, b) \in Word
    BY IsaAssumption DEF Plus, Word
  <2>2. c.csr.mtvec \in Nat
    BY <1>1, IsaAssumption DEF Word
  <2> QED
    BY <2>1, <2>2, <1>3
<1>5. take_trap(c.csr, t) \in Csr
  BY <1>1, <1>2, TakeTrapType
<1>6. Same(c, c)
  BY DEF Same
<1> HIDE DEF t
<1>7. \A v \in Word : Same([c EXCEPT !.csr = take_trap(c.csr, t), !.pc = v], c)
  BY <1>5, Updates
<1> QED
  BY <1>1, <1>4, <1>6, <1>7 DEF enter_interrupt, t

--------------------------------------------------------------------------------
\* What every handler returns

\* A typed core with the accumulator untouched, an outcome, and no more cycles
\* than CostBound.
GoodResult(r, c, i) ==
    /\ Same(r.m, c)
    /\ r.end \in Outcome
    /\ r.cycles \in Nat
    /\ r.cycles <= CostBound(c.target, i)

\* The cost bound is a number of cycles, and no less than the weight of the
\* opcode, of a page fault and of a taken branch.
LEMMA CostBoundProperties ==
    ASSUME NEW t \in Target, NEW i, WellFormed(i)
    PROVE  /\ CostBound(t, i) \in Nat
           /\ cycle_weight(i.op, 0) \in Nat
           /\ i.op \notin VectorOps \cup DmaOps => cycle_weight(i.op, 0) <= CostBound(t, i)
           /\ i.op \in BranchOps \ {"JMP"} => cycle_weight(i.op, 0) + 1 <= CostBound(t, i)
           /\ i.op \in DmaOps \cup {"LOAD", "STORE"} => 2 <= CostBound(t, i)
           /\ \A f \in Nat : profile_cycle_weight(t, i.op, f) \in Nat
           /\ i.op \in DmaOps => profile_cycle_weight(t, i.op, i.imm) <= CostBound(t, i)
           /\ i.op \in {"VEC_ADD", "MATMUL_TILE"} =>
                \A f \in Nat : profile_cycle_weight(t, i.op, f) <= CostBound(t, i)
           /\ i.op \in {"LOAD_VR", "STORE_VR"} => cycle_weight(i.op, 0) <= CostBound(t, i)
<1>0. i.imm \in Nat /\ i.op \in Opcode
  BY IsaAssumption DEF WellFormed, Instruction, Word
<1>1. \A f \in Nat : cycle_weight(i.op, f) \in Nat
  <2>1. \A f \in Nat : (f + DmaLine - 1) \div DmaLine + 2 \in Nat
    BY IsaAssumption
  <2> QED
    BY <2>1 DEF cycle_weight
<1>2. cycle_override(t, i.op) \in Nat
  BY DEF cycle_override
<1>3. \A f \in Nat : profile_cycle_weight(t, i.op, f) \in Nat
  BY <1>1, <1>2 DEF profile_cycle_weight
<1>4. CostBound(t, i) \in Nat
  BY <1>0, <1>3 DEF CostBound
<1>5. i.op \notin VectorOps \cup DmaOps => \A f \in Nat : cycle_weight(i.op, f) = cycle_weight(i.op, 0)
  BY DEF cycle_weight, DmaOps
<1>6. i.op \notin VectorOps \cup DmaOps => cycle_override(t, i.op) = 0
  BY DEF cycle_override, DmaOps, VectorOps
<1>7. i.op \notin VectorOps \cup DmaOps => cycle_weight(i.op, 0) <= CostBound(t, i)
  <2> SUFFICES ASSUME i.op \notin VectorOps \cup DmaOps
               PROVE  cycle_weight(i.op, 0) <= CostBound(t, i)
    OBVIOUS
  <2>1. profile_cycle_weight(t, i.op, i.imm) = cycle_weight(i.op, 0)
    BY <1>0, <1>5, <1>6 DEF profile_cycle_weight
  <2>2. i.op \in {"BEQ", "BNE", "LOAD", "STORE"} => cycle_weight(i.op, 0) <= 3
    BY DEF cycle_weight
  <2> QED
    BY <1>1, <2>1, <2>2 DEF CostBound
<1>8. i.op \in BranchOps \ {"JMP"} => cycle_weight(i.op, 0) + 1 <= CostBound(t, i)
  BY DEF BranchOps, DmaOps, cycle_weight, CostBound
<1>9. i.op \in DmaOps \cup {"LOAD", "STORE"} => 2 <= CostBound(t, i)
  BY <1>0, <1>3 DEF CostBound, DmaOps
<1>10. i.op \in DmaOps => profile_cycle_weight(t, i.op, i.imm) <= CostBound(t, i)
  BY <1>0, <1>3 DEF CostBound, DmaOps
<1>11. i.op \in {"VEC_ADD", "MATMUL_TILE"} =>
         \A f \in Nat : profile_cycle_weight(t, i.op, f) <= CostBound(t, i)
  <2> SUFFICES ASSUME i.op \in {"VEC_ADD", "MATMUL_TILE"}
               PROVE  \A f \in Nat : profile_cycle_weight(t, i.op, f) <= CostBound(t, i)
    OBVIOUS
  <2>1. \A f \in Nat : cycle_weight(i.op, f) = cycle_weight(i.op, i.imm)
    BY <1>0 DEF cycle_weight, DmaOps
  <2>2. \A f \in Nat : profile_cycle_weight(t, i.op, f) = profile_cycle_weight(t, i.op, i.imm)
    BY <2>1 DEF profile_cycle_weight
  <2>3. CostBound(t, i) = profile_cycle_weight(t, i.op, i.imm)
    BY DEF CostBound, DmaOps
  <2> QED
    BY <1>0, <1>3, <2>2, <2>3
<1>12. i.op \in {"LOAD_VR", "STORE_VR"} => cycle_weight(i.op, 0) <= CostBound(t, i)
  BY <1>0, <1>1 DEF CostBound, DmaOps, profile_cycle_weight, cycle_override, cycle_weight
<1> QED
  BY <1>1, <1>3, <1>4, <1>7, <1>8, <1>9, <1>10, <1>11, <1>12

\* A handler that ends normally.
LEMMA OkGood ==
    ASSUME NEW c \in CoreState, NEW i, NEW d, Same(d, c), NEW n \in Nat,
           n <= CostBound(c.target, i)
    PROVE  GoodResult(Ok(d, n), c, i)
BY DEF GoodResult, Ok, Outcome

\* A handler that throws or crashes.
LEMMA AbortGood ==
    ASSUME NEW c \in CoreState, NEW i, WellFormed(i), NEW d, Same(d, c)
    PROVE  GoodResult(Throw(d), c, i) /\ GoodResult(Crash(d), c, i)
<1>1. c.target \in Target
  BY DEF CoreState
<1>2. CostBound(c.target, i) \in Nat
  BY <1>1, CostBoundProperties
<1> QED
  BY <1>2 DEF GoodResult, Throw, Crash, Outcome

\* The page-fault path of LOAD, STORE and the DMA handlers.
LEMMA PageFaultGood ==
    ASSUME NEW c \in CoreState, NEW i, WellFormed(i),
           i.op \in DmaOps \cup {"LOAD", "STORE"},
           NEW va \in Word, NEW b \in BOOLEAN
    PROVE  GoodResult(PageFault(c, va, b), c, i)
<1>1. c.pc \in Word /\ c.target \in Target
  BY DEF CoreState
<1>2. Minus(c.pc, 1) \in Word
  BY <1>1, ArithmeticType, SmallWords
<1>3. page_fault_trap(Minus(c.pc, 1), va, b) \in Trap
  BY <1>2, TrapTypes
<1>4. Same(Redirect(c, page_fault_trap(Minus(c.pc, 1), va, b)), c)
  BY <1>3, RedirectType
<1>5. 2 <= CostBound(c.target, i)
  BY <1>1, CostBoundProperties
<1> QED
  BY <1>4, <1>5, OkGood DEF PageFault

\* NOP, HALT, JMP and the branches.
LEMMA ControlGood ==
    ASSUME NEW c \in CoreState, NEW i, WellFormed(i)
    PROVE  /\ i.op = "NOP" => GoodResult(op_nop(c, i), c, i)
           /\ i.op = "HALT" => GoodResult(op_halt(c, i), c, i)
           /\ i.op = "JMP" => GoodResult(op_jmp(c, i), c, i)
           /\ i.op = "BEQ" => GoodResult(op_beq(c, i), c, i)
           /\ i.op = "BNE" => GoodResult(op_bne(c, i), c, i)
<1>1. i.imm \in Word /\ c.pc \in Word /\ c.target \in Target
  BY DEF WellFormed, Instruction, CoreState
<1>2. Same(c, c)
  BY DEF Same
<1>3. Same([c EXCEPT !.halt = TRUE], c)
  BY DEF Same, CoreState
<1>4. Same([c EXCEPT !.pc = i.imm], c)
  BY <1>1, Updates
<1>5. Same([c EXCEPT !.pc = Plus(c.pc, i.imm)], c)
  BY <1>1, ArithmeticType, Updates
<1>6. i.op = "NOP" => GoodResult(op_nop(c, i), c, i)
  BY <1>1, <1>2, OkGood, CostBoundProperties DEF op_nop, VectorOps, DmaOps
<1>7. i.op = "HALT" => GoodResult(op_halt(c, i), c, i)
  BY <1>1, <1>3, OkGood, CostBoundProperties DEF op_halt
<1>8. i.op = "JMP" => GoodResult(op_jmp(c, i), c, i)
  BY <1>1, <1>4, OkGood, CostBoundProperties DEF op_jmp, VectorOps, DmaOps
<1>9. i.op \in {"BEQ", "BNE"} => \A taken \in BOOLEAN : GoodResult(Branch(c, i, taken), c, i)
  <2> SUFFICES ASSUME i.op \in {"BEQ", "BNE"}, NEW taken \in BOOLEAN
               PROVE  GoodResult(Branch(c, i, taken), c, i)
    OBVIOUS
  <2>1. /\ cycle_weight(i.op, 0) \in Nat
        /\ cycle_weight(i.op, 0) + 1 <= CostBound(c.target, i)
        /\ CostBound(c.target, i) \in Nat
    BY <1>1, CostBoundProperties DEF BranchOps
  <2>2. GoodResult(Ok([c EXCEPT !.pc = Plus(c.pc, i.imm)], cycle_weight(i.op, 0) + 1), c, i)
    BY <1>5, <2>1, OkGood
  <2>3. GoodResult(Ok(c, cycle_weight(i.op, 0)), c, i)
    BY <1>2, <2>1, OkGood
  <2> QED
    BY <2>2, <2>3 DEF Branch
<1>10. i.op \in {"BEQ", "BNE"} => GoodResult(op_beq(c, i), c, i) /\ GoodResult(op_bne(c, i), c, i)
  <2>1. /\ (read_gpr(c, i.rd) = read_gpr(c, i.ra)) \in BOOLEAN
        /\ (read_gpr(c, i.rd) # read_gpr(c, i.ra)) \in BOOLEAN
    OBVIOUS
  <2> QED
    BY <1>9, <2>1, Zenon DEF op_beq, op_bne
<1> QED
  BY <1>6, <1>7, <1>8, <1>10

\* ADD, SUB and MUL.
LEMMA ArithGood ==
    ASSUME NEW c \in CoreState, NEW i, WellFormed(i), i.op \in {"ADD", "SUB", "MUL"}
    PROVE  GoodResult(op_add(c, i), c, i) /\ GoodResult(op_sub(c, i), c, i)
           /\ GoodResult(op_mul(c, i), c, i)
<1> DEFINE a == read_gpr(c, i.ra)
           b == read_gpr(c, i.rb)
<1>1. a \in Word /\ b \in Word
  BY ReadGprType DEF WellFormed, VectorOps
<1>2. \A v \in Word, o \in BOOLEAN : GoodResult(Arith(c, i, v, o), c, i)
  <2> TAKE v \in Word, o \in BOOLEAN
  <2> DEFINE d == [c EXCEPT !.gpr = write_gpr(c.gpr, i.rd, v), !.overflow = o]
  <2>1. write_gpr(c.gpr, i.rd, v) \in [Gpr -> Word]
    BY WriteGprType DEF CoreState
  <2>2. \A g \in [Gpr -> Word] : Same([c EXCEPT !.gpr = g, !.overflow = o], c)
    BY DEF CoreState, Same
  <2>3. Same(d, c)
    BY <2>1, <2>2
  <2> HIDE DEF d
  <2>4. Same(update_flags_u32(d, v), c)
    <3>1. d \in CoreState
      BY <2>3 DEF Same
    <3>2. update_flags_u32(d, v).target = d.target
      BY <3>1 DEF update_flags_u32, CoreState
    <3> QED
      BY <2>3, <3>1, <3>2, FlagsType DEF Same
  <2>5. cycle_weight(i.op, 0) \in Nat /\ cycle_weight(i.op, 0) <= CostBound(c.target, i)
    BY CostBoundProperties DEF CoreState, VectorOps, DmaOps
  <2>6. GoodResult(Ok(update_flags_u32(d, v), cycle_weight(i.op, 0)), c, i)
    BY <2>4, <2>5, OkGood
  <2> QED
    BY <2>6 DEF Arith, d
<1>3. Plus(a, b) \in Word /\ Minus(a, b) \in Word /\ Times(a, b) \in Word
  BY <1>1, ArithmeticType, TimesType
<1>4. AddOverflows(a, b) \in BOOLEAN /\ SubOverflows(a, b) \in BOOLEAN
  BY DEF AddOverflows, SubOverflows
<1> QED
  BY <1>2, <1>3, <1>4, Zenon DEF op_add, op_sub, op_mul

\* MOV and MOVI.
LEMMA MoveGood ==
    ASSUME NEW c \in CoreState, NEW i, WellFormed(i)
    PROVE  /\ i.op = "MOV" => GoodResult(op_mov(c, i), c, i)
           /\ i.op = "MOVI" => GoodResult(op_movi(c, i), c, i)
<1>1. \A v \in Word : Same([c EXCEPT !.gpr = write_gpr(c.gpr, i.rd, v)], c)
  BY WriteGprType, Updates DEF CoreState
<1>2. i.imm \in Word /\ c.target \in Target
  BY DEF WellFormed, Instruction, CoreState
<1>3. i.op = "MOV" => read_gpr(c, i.ra) \in Word
  BY ReadGprType DEF WellFormed, VectorOps
<1>4. i.op \in {"MOV", "MOVI"} => /\ cycle_weight(i.op, 0) \in Nat
                                  /\ cycle_weight(i.op, 0) <= CostBound(c.target, i)
  BY <1>2, CostBoundProperties DEF VectorOps, DmaOps
<1>5. i.op = "MOV" => GoodResult(op_mov(c, i), c, i)
  BY <1>1, <1>3, <1>4, OkGood DEF op_mov
<1>6. i.op = "MOVI" => GoodResult(op_movi(c, i), c, i)
  BY <1>1, <1>2, <1>4, OkGood DEF op_movi
<1> QED
  BY <1>5, <1>6

\* The effective address is a word, and so is what the MMU makes of it.
LEMMA AddressType ==
    ASSUME NEW c \in CoreState
    PROVE  /\ \A i : WellFormed(i) /\ i.ra \in Gpr => EffectiveAddress(c, i) \in Word
           /\ \A va \in Word : Physical(c, va) \in Word
<1>1. \A i : WellFormed(i) /\ i.ra \in Gpr => EffectiveAddress(c, i) \in Word
  BY ReadGprType, ArithmeticType DEF EffectiveAddress, WellFormed, Instruction
<1>2. \A va \in Word : PageMap[va].pa \in Word
  BY MachineAssumption
<1>3. \A va \in Word : Physical(c, va) \in Word
  BY <1>2 DEF Physical
<1> QED
  BY <1>1, <1>3

\* The issue on the AXI fabric keeps the core typed.
LEMMA AxiType ==
    ASSUME NEW c \in CoreState, NEW n \in Nat
    PROVE  /\ fabric_issue(c.axi, Axi, n, c.prof.cycles) \in Fabric
           /\ Same([c EXCEPT !.axi = fabric_issue(c.axi, Axi, n, c.prof.cycles)], c)
<1>1. c.axi \in Fabric /\ c.prof.cycles \in Nat /\ Axi \in FabricConfig
  BY MachineAssumption DEF CoreState, Profile
<1> QED
  BY <1>1, IssueType, Updates

\* LOAD and STORE.
LEMMA LoadStoreGood ==
    ASSUME NEW c \in CoreState, NEW i, WellFormed(i)
    PROVE  /\ i.op = "LOAD" => GoodResult(op_load(c, i), c, i)
           /\ i.op = "STORE" => GoodResult(op_store(c, i), c, i)
<1> DEFINE va == EffectiveAddress(c, i)
           pa == Physical(c, va)
           q == AxiWord(c)
<1>0. SUFFICES ASSUME i.op \in {"LOAD", "STORE"}
               PROVE  /\ i.op = "LOAD" => GoodResult(op_load(c, i), c, i)
                      /\ i.op = "STORE" => GoodResult(op_store(c, i), c, i)
  OBVIOUS
<1>1. i.rd \in Gpr /\ i.ra \in Gpr /\ c.target \in Target
  BY <1>0 DEF WellFormed, VectorOps, CoreState
<1>2. va \in Word /\ read_gpr(c, i.rd) \in Word
  BY <1>1, AddressType, ReadGprType
<1>3. \A b \in BOOLEAN : GoodResult(PageFault(c, va, b), c, i)
  BY <1>0, <1>2, PageFaultGood
<1>4. Same(q, c)
  BY AxiType DEF AxiWord
<1>5. GoodResult(Throw(q), c, i)
  BY <1>4, AbortGood
<1>6. cycle_weight(i.op, 0) \in Nat /\ cycle_weight(i.op, 0) <= CostBound(c.target, i)
  BY <1>0, <1>1, CostBoundProperties DEF VectorOps, DmaOps
<1> HIDE DEF q, pa, va
<1>7. BusMapped(pa) =>
        GoodResult(Ok([bus_read(q, pa) EXCEPT !.gpr = write_gpr(@, i.rd, bus_value(q, pa))],
                      cycle_weight(i.op, 0)), c, i)
  <2> SUFFICES ASSUME BusMapped(pa)
               PROVE  GoodResult(Ok([bus_read(q, pa) EXCEPT !.gpr = write_gpr(@, i.rd, bus_value(q, pa))],
                      cycle_weight(i.op, 0)), c, i)
    OBVIOUS
  <2> DEFINE d == bus_read(q, pa)
  <2>1. q \in CoreState
    BY <1>4 DEF Same
  <2>2. bus_value(q, pa) \in Word
    BY <2>1, BusValueType
  <2>3. Same(d, q)
    BY <2>1, BusReadType
  <2>4. d \in CoreState
    BY <2>3 DEF Same
  <2> HIDE DEF d
  <2>5. write_gpr(d.gpr, i.rd, bus_value(q, pa)) \in [Gpr -> Word]
    BY <2>2, <2>4, WriteGprType DEF CoreState
  <2>6. Same([d EXCEPT !.gpr = write_gpr(d.gpr, i.rd, bus_value(q, pa))], d)
    BY <2>4, <2>5, Updates
  <2>7. Same([d EXCEPT !.gpr = write_gpr(d.gpr, i.rd, bus_value(q, pa))], c)
    BY <1>4, <2>3, <2>6 DEF Same
  <2> QED
    BY <1>6, <2>7, OkGood DEF d
<1>8. BusMapped(pa) =>
        GoodResult(Ok(bus_write(q, pa, read_gpr(c, i.rd)), cycle_weight(i.op, 0)), c, i)
  <2> SUFFICES ASSUME BusMapped(pa)
               PROVE  GoodResult(Ok(bus_write(q, pa, read_gpr(c, i.rd)), cycle_weight(i.op, 0)), c, i)
    OBVIOUS
  <2>1. q \in CoreState
    BY <1>4 DEF Same
  <2>2. Same(bus_write(q, pa, read_gpr(c, i.rd)), q)
    BY <1>2, <2>1, BusWriteType
  <2>3. Same(bus_write(q, pa, read_gpr(c, i.rd)), c)
    BY <1>4, <2>2 DEF Same
  <2> QED
    BY <1>6, <2>3, OkGood
<1>9. i.op = "LOAD" => GoodResult(op_load(c, i), c, i)
  BY <1>3, <1>5, <1>7 DEF op_load, va, pa, q
<1>10. i.op = "STORE" => GoodResult(op_store(c, i), c, i)
  BY <1>3, <1>5, <1>8 DEF op_store, va, pa, q
<1> QED
  BY <1>9, <1>10

\* LOAD_VR, STORE_VR, VEC_ADD and MATMUL_TILE.
LEMMA VectorGood ==
    ASSUME NEW c \in CoreState, NEW i, WellFormed(i)
    PROVE  /\ i.op = "LOAD_VR" => GoodResult(op_load_vr(c, i), c, i)
           /\ i.op = "STORE_VR" => GoodResult(op_store_vr(c, i), c, i)
           /\ i.op = "VEC_ADD" => GoodResult(op_vec_add(c, i), c, i)
           /\ i.op = "MATMUL_TILE" => GoodResult(op_matmul_tile(c, i), c, i)
<1>1. c.vr \in [Vr -> Word] /\ c.mem \in [Addr -> Word] /\ c.target \in Target
  BY DEF CoreState
<1>2. GoodResult(Throw(c), c, i)
  BY AbortGood DEF Same
<1>5. i.op = "LOAD_VR" => GoodResult(op_load_vr(c, i), c, i)
  <2> SUFFICES ASSUME i.op = "LOAD_VR"
               PROVE  GoodResult(op_load_vr(c, i), c, i)
    OBVIOUS
  <2> DEFINE a == EffectiveAddress(c, i)
  <2>1. cycle_weight("LOAD_VR", 0) \in Nat /\ cycle_weight("LOAD_VR", 0) <= CostBound(c.target, i)
    BY <1>1, CostBoundProperties
  <2> HIDE DEF a
  <2>2. a \in Addr => [c.vr EXCEPT ![i.rd] = c.mem[a]] \in [Vr -> Word]
    BY <1>1
  <2>3. a \in Addr => Same([c EXCEPT !.vr = [c.vr EXCEPT ![i.rd] = c.mem[a]]], c)
    BY <2>2, Updates
  <2>4. a \in Addr => GoodResult(Ok([c EXCEPT !.vr = [c.vr EXCEPT ![i.rd] = c.mem[a]]],
                                    cycle_weight("LOAD_VR", 0)), c, i)
    BY <2>1, <2>3, OkGood
  <2> QED
    BY <1>2, <2>4 DEF op_load_vr, a
<1>6. i.op = "STORE_VR" => GoodResult(op_store_vr(c, i), c, i)
  <2> SUFFICES ASSUME i.op = "STORE_VR"
               PROVE  GoodResult(op_store_vr(c, i), c, i)
    OBVIOUS
  <2> DEFINE a == EffectiveAddress(c, i)
  <2>1. cycle_weight("STORE_VR", 0) \in Nat /\ cycle_weight("STORE_VR", 0) <= CostBound(c.target, i)
    BY <1>1, CostBoundProperties
  <2> HIDE DEF a
  <2>2. [c.mem EXCEPT ![a] = c.vr[i.rd]] \in [Addr -> Word]
    BY <1>1 DEF WellFormed, VectorOps
  <2>3. Same([c EXCEPT !.mem = [c.mem EXCEPT ![a] = c.vr[i.rd]]], c)
    BY <2>2, Updates
  <2>4. GoodResult(Ok([c EXCEPT !.mem = [c.mem EXCEPT ![a] = c.vr[i.rd]]],
                      cycle_weight("STORE_VR", 0)), c, i)
    BY <2>1, <2>3, OkGood
  <2> QED
    BY <1>2, <2>4 DEF op_store_vr, a
<1>7. i.op \in {"VEC_ADD", "MATMUL_TILE"} =>
        \A v \in Word, f \in Nat :
          GoodResult(Ok([c EXCEPT !.vr = [c.vr EXCEPT ![i.rd] = v]],
                        profile_cycle_weight(c.target, i.op, f)), c, i)
  <2> SUFFICES ASSUME i.op \in {"VEC_ADD", "MATMUL_TILE"}, NEW v \in Word, NEW f \in Nat
               PROVE  GoodResult(Ok([c EXCEPT !.vr = [c.vr EXCEPT ![i.rd] = v]],
                                    profile_cycle_weight(c.target, i.op, f)), c, i)
    OBVIOUS
  <2>1. Same([c EXCEPT !.vr = [c.vr EXCEPT ![i.rd] = v]], c)
    BY <1>1, Updates
  <2>2. /\ profile_cycle_weight(c.target, i.op, f) \in Nat
        /\ profile_cycle_weight(c.target, i.op, f) <= CostBound(c.target, i)
    BY <1>1, CostBoundProperties
  <2> QED
    BY <2>1, <2>2, OkGood
<1>8. i.op \in {"VEC_ADD", "MATMUL_TILE"} =>
        /\ Plus(c.vr[i.ra], c.vr[i.rb]) \in Word
        /\ Times(c.vr[i.ra], c.vr[i.rb]) \in Word
  BY <1>1, ArithmeticType, TimesType DEF WellFormed
<1>9. i.op = "VEC_ADD" => GoodResult(op_vec_add(c, i), c, i)
  BY <1>7, <1>8 DEF op_vec_add, vec_add_host
<1>10. i.imm % 16 \in Nat
  BY IsaAssumption DEF WellFormed, Instruction, Word
<1>11. i.op = "MATMUL_TILE" => GoodResult(op_matmul_tile(c, i), c, i)
  BY <1>2, <1>7, <1>8, <1>10 DEF op_matmul_tile, matmul_tile_host
<1> QED
  BY <1>5, <1>6, <1>9, <1>11

\* A copy that passed the bounds checks stays inside both memories.
LEMMA CopiedType ==
    ASSUME NEW dsize \in Nat, NEW ssize \in Nat,
           NEW dst \in [0 .. dsize - 1 -> Word], NEW src \in [0 .. ssize - 1 -> Word],
           NEW d \in Nat, NEW s \in Nat, NEW n \in Nat, s + n <= ssize
    PROVE  Copied(dst, d, src, s, n) \in [0 .. dsize - 1 -> Word]
<1>1. \A a \in 0 .. dsize - 1 : a \in d .. d + n - 1 => src[s + a - d] \in Word
  BY Z3
<1> QED
  BY <1>1 DEF Copied

\* The backpressure record of DMA_LOAD keeps the profile typed.
LEMMA RecordType ==
    ASSUME NEW p \in Profile, NEW cycles \in Nat, NEW bytes \in Nat
    PROVE  record(p, cycles, bytes) \in Profile
BY DEF Profile, record

\* DMA_LOAD and DMA_STORE.
LEMMA DmaGood ==
    ASSUME NEW c \in CoreState, NEW i, WellFormed(i), i.op \in DmaOps
    PROVE  /\ i.op = "DMA_LOAD" => GoodResult(op_dma_load(c, i), c, i)
           /\ i.op = "DMA_STORE" => GoodResult(op_dma_store(c, i), c, i)
<1> DEFINE vdest == read_gpr(c, i.rd)
           vsrc == read_gpr(c, i.ra)
           dest == Physical(c, vdest)
           src == Physical(c, vsrc)
           n == i.imm
           cost == profile_cycle_weight(c.target, i.op, n)
           axi == fabric_issue(c.axi, Axi, n, c.prof.cycles)
<1>1. i.rd \in Gpr /\ i.ra \in Gpr /\ n \in Nat /\ c.target \in Target
  BY IsaAssumption DEF WellFormed, Instruction, DmaOps, VectorOps, CoreState, Word
<1>2. vdest \in Word /\ vsrc \in Word
  BY <1>1, ReadGprType
<1>3. dest \in Nat /\ src \in Nat
  BY <1>2, AddressType, IsaAssumption DEF Word
<1>4. \A va \in {vdest, vsrc}, b \in BOOLEAN : GoodResult(PageFault(c, va, b), c, i)
  BY <1>2, PageFaultGood
<1>5. GoodResult(Throw(c), c, i) /\ GoodResult(Crash(c), c, i)
  BY AbortGood DEF Same
<1>6. cost \in Nat /\ cost <= CostBound(c.target, i)
  BY <1>1, CostBoundProperties
<1>7. axi \in Fabric
  BY <1>1, AxiType
<1>8. /\ c.prof \in Profile /\ record(c.prof, 1, 0) \in Profile
      /\ c.mem \in [0 .. MemSize - 1 -> Word] /\ c.ram \in [0 .. RamSize - 1 -> Word]
  BY RecordType DEF CoreState, Addr, RamAddr
<1>9. MemSize \in Nat /\ RamSize \in Nat
  BY MachineAssumption, IsaAssumption
<1>10. \A x \in Fabric, p \in Profile, f \in [0 .. MemSize - 1 -> Word] :
         Same([c EXCEPT !.axi = x, !.prof = p, !.mem = f], c)
  BY DEF CoreState, Same, Addr
<1>11. \A x \in Fabric, f \in [0 .. RamSize - 1 -> Word] :
         Same([c EXCEPT !.axi = x, !.ram = f], c)
  BY DEF CoreState, Same, RamAddr
<1> HIDE DEF vdest, vsrc, dest, src, n, cost, axi
<1>12. src + n <= RamSize =>
         \A p \in {c.prof, record(c.prof, 1, 0)} :
           GoodResult(Ok([c EXCEPT !.axi = axi, !.prof = p,
                                   !.mem = Copied(c.mem, dest, c.ram, src, n)], cost), c, i)
  <2> SUFFICES ASSUME src + n <= RamSize, NEW p \in {c.prof, record(c.prof, 1, 0)}
               PROVE  GoodResult(Ok([c EXCEPT !.axi = axi, !.prof = p,
                                   !.mem = Copied(c.mem, dest, c.ram, src, n)], cost), c, i)
    OBVIOUS
  <2>1. Copied(c.mem, dest, c.ram, src, n) \in [0 .. MemSize - 1 -> Word]
    BY <1>1, <1>3, <1>8, <1>9, CopiedType
  <2>2. Same([c EXCEPT !.axi = axi, !.prof = p, !.mem = Copied(c.mem, dest, c.ram, src, n)], c)
    BY <1>7, <1>8, <1>10, <2>1
  <2> QED
    BY <1>6, <2>2, OkGood
<1>13. src + n <= MemSize =>
         GoodResult(Ok([c EXCEPT !.axi = axi, !.ram = Copied(c.ram, dest, c.mem, src, n)], cost), c, i)
  <2> SUFFICES ASSUME src + n <= MemSize
               PROVE  GoodResult(Ok([c EXCEPT !.axi = axi, !.ram = Copied(c.ram, dest, c.mem, src, n)],
                                    cost), c, i)
    OBVIOUS
  <2>1. Copied(c.ram, dest, c.mem, src, n) \in [0 .. RamSize - 1 -> Word]
    BY <1>1, <1>3, <1>8, <1>9, CopiedType
  <2>2. Same([c EXCEPT !.axi = axi, !.ram = Copied(c.ram, dest, c.mem, src, n)], c)
    BY <1>7, <1>11, <2>1
  <2> QED
    BY <1>6, <2>2, OkGood
<1>14. ~(src + n > RamSize) => src + n <= RamSize
  BY <1>1, <1>3, <1>9
<1>15. ~(src + n > MemSize) => src + n <= MemSize
  BY <1>1, <1>3, <1>9
<1>16. i.op = "DMA_LOAD" => GoodResult(op_dma_load(c, i), c, i)
  BY <1>4, <1>5, <1>12, <1>14 DEF op_dma_load, vdest, vsrc, dest, src, n, cost, axi
<1>17. i.op = "DMA_STORE" => GoodResult(op_dma_store(c, i), c, i)
  BY <1>4, <1>5, <1>13, <1>15 DEF op_dma_store, vdest, vsrc, dest, src, n, cost, axi
<1> QED
  BY <1>16, <1>17

\* Every entry of the dispatch table.
LEMMA HandledGood ==
    ASSUME NEW c \in CoreState, NEW i, WellFormed(i), i.op \in Dispatched
    PROVE  GoodResult(Handled(c, i), c, i)
<1>1. CASE i.op \in {"NOP", "HALT"} \cup BranchOps
  BY <1>1, ControlGood DEF Handled, BranchOps
<1>2. CASE i.op \in {"ADD", "SUB", "MUL"}
  BY <1>2, ArithGood DEF Handled
<1>3. CASE i.op \in {"LOAD", "STORE", "MOV", "MOVI"}
  BY <1>3, LoadStoreGood, MoveGood DEF Handled
<1>4. CASE i.op \in VectorOps
  BY <1>4, VectorGood DEF Handled, VectorOps
<1>5. CASE i.op \in DmaOps
  BY <1>5, DmaGood DEF Handled, DmaOps
<1> QED
  BY <1>1, <1>2, <1>3, <1>4, <1>5 DEF Dispatched, ScalarOps

--------------------------------------------------------------------------------
\* execute, tick_peripherals, fetch and step

\* A result after which less than a tick is accumulated.
Settled(r) == r.m \in CoreState /\ r.end \in Outcome /\ r.m.accum < CyclesPerTick

\* execute() adds less than a tick to the accumulator, and nothing when it throws.
LEMMA ExecuteGood ==
    ASSUME NEW c \in CoreState, NEW w \in Word
    PROVE  LET r == execute(c, w)
           IN  /\ r.m \in CoreState /\ r.end \in Outcome
               /\ r.m.accum < c.accum + CyclesPerTick
               /\ r.end # "ok" => r.m.accum = c.accum
<1> DEFINE i == Decode[w]
           h == Handled(c, i)
<1>0. c.accum \in Nat /\ c.target \in Target /\ c.pc \in Word /\ CyclesPerTick \in Nat \ {0}
  BY IsaAssumption DEF CoreState
<1>1. WellFormed(i) /\ CostBound(c.target, i) < CyclesPerTick
  BY <1>0, DecodeAssumption, CostAssumption
<1>2. CASE i.op \notin Dispatched
  <2>1. Minus(c.pc, 1) \in Word
    BY <1>0, ArithmeticType, SmallWords
  <2>2. Same(Redirect(c, illegal_inst_trap(Minus(c.pc, 1), w)), c)
    BY <2>1, TrapTypes, RedirectType
  <2>3. CASE MtvecSet(c.csr)
    <3>1. execute(c, w) = Ok(Redirect(c, illegal_inst_trap(Minus(c.pc, 1), w)), 2)
      BY <1>2, <2>3 DEF execute
    <3> QED
      BY <1>0, <2>2, <3>1 DEF Ok, Outcome, Same
  <2>4. CASE ~MtvecSet(c.csr)
    <3>1. execute(c, w) = Throw(c)
      BY <1>2, <2>4 DEF execute
    <3> QED
      BY <1>0, <3>1 DEF Throw, Outcome
  <2> QED
    BY <2>3, <2>4
<1>3. CASE i.op \in Dispatched
  <2>1. GoodResult(h, c, i)
    BY <1>1, <1>3, HandledGood
  <2> HIDE DEF h
  <2>2. /\ h.m \in CoreState /\ h.m.accum = c.accum /\ h.end \in Outcome
        /\ h.cycles \in Nat /\ h.cycles < CyclesPerTick
    <3>1. CostBound(c.target, i) \in Nat
      BY <1>0, <1>1, CostBoundProperties
    <3>2. h.cycles \in Nat /\ h.cycles <= CostBound(c.target, i)
      BY <2>1 DEF GoodResult
    <3>3. h.cycles < CyclesPerTick
      BY <1>0, <1>1, <3>1, <3>2
    <3> QED
      BY <2>1, <3>2, <3>3 DEF GoodResult, Same
  <2>3. CASE h.end = "ok"
    <3> DEFINE b == IF i.op \in DmaOps THEN i.imm ELSE 0
               e == Retired(h.m, i, h.cycles)
    <3>1. b \in Nat
      BY <1>1, IsaAssumption DEF WellFormed, Instruction, Word
    <3>2. h.m.prof \in Profile
      BY <2>2 DEF CoreState
    <3>3. record(h.m.prof, h.cycles, b) \in Profile
      BY <2>2, <3>1, <3>2, RecordType
    <3>4. \A p \in Profile, a \in Nat :
            LET d == [h.m EXCEPT !.prof = p, !.accum = a]
            IN  d \in CoreState /\ d.accum = a
      BY <2>2 DEF CoreState
    <3>5. h.m.accum + h.cycles \in Nat
      BY <1>0, <2>2
    <3> HIDE DEF b
    <3>6. e \in CoreState /\ e.accum = h.m.accum + h.cycles
      BY <3>3, <3>4, <3>5 DEF Retired, b
    <3> HIDE DEF e
    <3>7. execute(c, w) = Ok(e, h.cycles)
      BY <1>3, <2>3 DEF execute, h, e
    <3>8. e.accum < c.accum + CyclesPerTick
      BY <1>0, <2>2, <3>6
    <3> QED
      BY <3>6, <3>7, <3>8 DEF Ok, Outcome
  <2>4. CASE h.end # "ok"
    <3>1. execute(c, w) = h
      BY <1>3, <2>4 DEF execute, h
    <3> QED
      BY <1>0, <2>2, <2>4, <3>1
  <2> QED
    BY <2>3, <2>4
<1> QED
  BY <1>2, <1>3

\* A tick keeps the core typed, and takes its cycles off the accumulator.
LEMMA TickOnceType ==
    ASSUME NEW d \in CoreState, d.accum >= CyclesPerTick
    PROVE  TickOnce(d) \in CoreState /\ TickOnce(d).accum = d.accum - CyclesPerTick
<1> DEFINE t == timer_tick(d.timer, CyclesPerTick)
           f == fabric_tick(d.axi, CyclesPerTick)
           l == IF t.irq_pending THEN d.mip \cup {"MachineTimer"} ELSE d.mip \ {"MachineTimer"}
           a == d.accum - CyclesPerTick
           g == [d EXCEPT !.timer = t, !.mip = l, !.axi = f, !.accum = a]
<1>0. /\ d.accum \in Nat /\ CyclesPerTick \in Nat \ {0}
      /\ d.timer \in Timer /\ d.axi \in Fabric /\ d.mip \in SUBSET Line
  BY IsaAssumption DEF CoreState
<1>1. t \in Timer /\ f \in Fabric
  BY <1>0, TimerType, SmallWords, FabricTickType
<1>2. l \in SUBSET Line
  BY <1>0 DEF Line
<1>3. TickOnce(d) = g
  BY DEF TickOnce
<1>4. a \in Nat
  BY <1>0
<1> HIDE DEF t, f, l, a
<1>5. g \in CoreState /\ g.accum = a
  BY <1>1, <1>2, <1>4 DEF CoreState
<1> QED
  BY <1>3, <1>5 DEF a

\* One pass of tick_peripherals is enough: from less than two ticks it leaves
\* less than one.
LEMMA TickGood ==
    ASSUME NEW d \in CoreState, d.accum < CyclesPerTick + CyclesPerTick
    PROVE  /\ tick_peripherals(d) \in CoreState
           /\ tick_peripherals(d).accum < CyclesPerTick
<1>0. d.accum \in Nat /\ CyclesPerTick \in Nat \ {0}
  BY IsaAssumption DEF CoreState
<1>1. CASE d.accum >= CyclesPerTick
  <2>4. TickOnce(d) \in CoreState /\ TickOnce(d).accum = d.accum - CyclesPerTick
    BY <1>1, TickOnceType
  <2>5. tick_peripherals(d) = TickOnce(d)
    BY <1>1 DEF tick_peripherals
  <2>6. d.accum - CyclesPerTick < CyclesPerTick
    BY <1>0
  <2> QED
    BY <2>4, <2>5, <2>6
<1>2. CASE ~(d.accum >= CyclesPerTick)
  BY <1>0, <1>2 DEF tick_peripherals
<1> QED
  BY <1>1, <1>2

\* execute() followed by tick_peripherals(), from a core with less than a tick.
LEMMA TickedExecuteGood ==
    ASSUME NEW c \in CoreState, c.accum < CyclesPerTick, NEW w \in Word
    PROVE  Settled(Ticked(execute(c, w)))
<1> DEFINE r == execute(c, w)
<1>1. /\ r.m \in CoreState /\ r.end \in Outcome
      /\ r.m.accum < c.accum + CyclesPerTick /\ (r.end # "ok" => r.m.accum = c.accum)
  BY ExecuteGood
<1> HIDE DEF r
<1>2. c.accum \in Nat /\ r.m.accum \in Nat /\ CyclesPerTick \in Nat
  BY <1>1, IsaAssumption DEF CoreState
<1>3. CASE r.end = "ok"
  <2>1. r.m.accum < CyclesPerTick + CyclesPerTick
    BY <1>1, <1>2
  <2>2. tick_peripherals(r.m) \in CoreState /\ tick_peripherals(r.m).accum < CyclesPerTick
    BY <1>1, <2>1, TickGood
  <2> QED
    BY <1>1, <1>3, <2>2 DEF Ticked, Settled, r
<1>4. CASE r.end # "ok"
  BY <1>1, <1>4 DEF Ticked, Settled, r
<1> QED
  BY <1>3, <1>4

\* fetch() hands over a word, and leaves the accumulator alone.
LEMMA FetchGood ==
    ASSUME NEW c \in CoreState
    PROVE  LET f == fetch(c)
           IN  Same(f.m, c) /\ f.word \in Word /\ f.end \in {"ok", "throw"}
<1>0. /\ c.pc \in Word /\ c.mem \in [Addr -> Word]
      /\ Plus(c.pc, 1) \in Word
  BY ArithmeticType, SmallWords DEF CoreState
<1>1. CASE Faults(c, c.pc, "X")
  <2> DEFINE t == [cause |-> "InstPageFault", tval |-> c.pc, pc |-> c.pc]
  <2>1. t \in Trap
    BY <1>0, TrapTypes
  <2>2. Same(Redirect(c, t), c)
    BY <2>1, RedirectType
  <2> QED
    BY <1>1, <2>2, SmallWords DEF fetch
<1>2. CASE ~Faults(c, c.pc, "X") /\ c.mmu
  <2>1. PageMap[c.pc].pa \in Addr
    BY <1>0, <1>2, MachineAssumption DEF Faults
  <2>2. c.mem[PageMap[c.pc].pa] \in Word
    BY <1>0, <2>1
  <2>3. Same([c EXCEPT !.pc = Plus(c.pc, 1)], c)
    BY <1>0, Updates
  <2> QED
    BY <1>2, <2>2, <2>3 DEF fetch
<1>3. CASE ~Faults(c, c.pc, "X") /\ ~c.mmu /\ BusMapped(c.pc)
  <2> DEFINE d == bus_read(c, c.pc)
  <2>1. Same(d, c) /\ bus_value(c, c.pc) \in Word
    BY <1>3, BusReadType, BusValueType
  <2>2. d.pc = c.pc
    BY DEF bus_read, CoreState
  <2> HIDE DEF d
  <2>3. d \in CoreState /\ Plus(d.pc, 1) \in Word
    BY <1>0, <2>1, <2>2 DEF Same
  <2>4. Same([d EXCEPT !.pc = Plus(d.pc, 1)], d)
    BY <2>3, Updates
  <2>5. Same([d EXCEPT !.pc = Plus(d.pc, 1)], c)
    BY <2>1, <2>4 DEF Same
  <2> QED
    BY <1>3, <2>1, <2>5 DEF fetch, d
<1>4. CASE ~Faults(c, c.pc, "X") /\ ~c.mmu /\ ~BusMapped(c.pc)
  BY <1>4, SmallWords DEF fetch, Same
<1> QED
  BY <1>1, <1>2, <1>3, <1>4

\* step() leaves a typed core and less than a tick, however it ends.
LEMMA StepSettled ==
    ASSUME NEW c \in CoreState, c.accum < CyclesPerTick
    PROVE  Settled(step(c))
<1> DEFINE e == enter_interrupt(c)
           f == fetch(e)
<1>1. Same(e, c)
  BY EnterInterruptType
<1>2. e \in CoreState
  BY <1>1 DEF Same
<1> HIDE DEF e
<1>3. Same(f.m, e) /\ f.word \in Word /\ f.end \in {"ok", "throw"}
  BY <1>2, FetchGood
<1> HIDE DEF f
<1>4. f.m \in CoreState /\ f.m.accum < CyclesPerTick
  BY <1>1, <1>3 DEF Same
<1>5. Settled(Ticked(execute(f.m, f.word)))
  BY <1>3, <1>4, TickedExecuteGood
<1>6. Settled(Throw(f.m)) /\ Settled(Ok(c, 0))
  BY <1>4 DEF Settled, Throw, Ok, Outcome
<1> QED
  BY <1>5, <1>6 DEF step, f, e

\* So does an operation of run_fast().
LEMMA FastOpSettled ==
    ASSUME NEW c \in CoreState, c.accum < CyclesPerTick, NEW w \in Word
    PROVE  Settled(fast_op(c, w))
<1>1. Plus(c.pc, 1) \in Word
  BY ArithmeticType, SmallWords DEF CoreState
<1>2. Same([c EXCEPT !.pc = Plus(c.pc, 1)], c)
  BY <1>1, Updates
<1>3. /\ [c EXCEPT !.pc = Plus(c.pc, 1)] \in CoreState
      /\ [c EXCEPT !.pc = Plus(c.pc, 1)].accum < CyclesPerTick
  BY <1>2 DEF Same
<1> QED
  BY <1>3, TickedExecuteGood DEF fast_op
\* The constructed core is well typed, with nothing accumulated.
LEMMA NewCoreType == NewCore \in CoreState /\ NewCore.accum = 0 /\ NewCore.prof.cycles = 0
<1>1. ResetCsr \in Csr
  BY SmallWords DEF ResetCsr, Csr, Priv, Cause
<1>2. EmptyFabric \in Fabric
  BY EmptySeq DEF EmptyFabric, Fabric
<1>3. NewTimer \in Timer
  BY IsaAssumption DEF NewTimer, Timer
<1>4. ZeroProfile \in Profile /\ ZeroProfile.cycles = 0
  BY DEF ZeroProfile, Profile
<1>5. << >> \in Seq(Word) /\ 0 \in Word
  BY EmptySeq, SmallWords
<1> QED
  BY <1>1, <1>2, <1>3, <1>4, <1>5 DEF NewCore, CoreState, Target

--------------------------------------------------------------------------------
\* The size of the transaction an instruction issues to the fabric, if it does.
Transfer(i) == IF i.op \in DmaOps THEN i.imm ELSE 1

\* What an instruction leaves alone.  The interrupt lines and the switch of the MMU
\* are the host's and the ticks'; a CSR changes by a trap only; the clock moves in
\* Retired, but for the stall DMA_LOAD records; and at most one transaction is issued.
Framed(r, c, i) ==
    /\ r.m.mip = c.mip /\ r.m.mmu = c.mmu /\ (c.halt => r.m.halt)
    /\ \/ r.m.csr = c.csr
       \/ \E va \in Word, b \in BOOLEAN : r = PageFault(c, va, b)
    /\ \/ r.m.prof = c.prof
       \/ /\ r.end = "ok" /\ i.op = "DMA_LOAD" /\ ~IssueAccepted(c.axi, Axi)
          /\ r.m.prof = record(c.prof, 1, 0)
    /\ \/ r.m.axi = c.axi
       \/ r.m.axi = fabric_issue(c.axi, Axi, Transfer(i), c.prof.cycles)

\* A core with new registers, flags, memories, devices or program counter, or halted.
Untouched(d, c) ==
    /\ d.mip = c.mip /\ d.mmu = c.mmu /\ (c.halt => d.halt)
    /\ d.csr = c.csr /\ d.prof = c.prof /\ d.axi = c.axi

\* A handler that touches only those satisfies the frame, however it ends.
LEMMA UntouchedFramed ==
    ASSUME NEW c, NEW i, NEW d, Untouched(d, c), NEW n
    PROVE  Framed(Ok(d, n), c, i) /\ Framed(Throw(d), c, i) /\ Framed(Crash(d), c, i)
BY DEF Untouched, Framed, Ok, Throw, Crash

\* The frame of a trap: the CSRs and the program counter.
LEMMA RedirectFrame ==
    ASSUME NEW c \in CoreState, NEW t
    PROVE  LET d == Redirect(c, t)
           IN  /\ d.mip = c.mip /\ d.mmu = c.mmu /\ d.halt = c.halt
               /\ d.prof = c.prof /\ d.axi = c.axi /\ d.gpr = c.gpr /\ d.vr = c.vr
               /\ d.zero = c.zero /\ d.mem = c.mem /\ d.ram = c.ram
               /\ d.timer = c.timer /\ d.accum = c.accum
               /\ d.csr = take_trap(c.csr, t) /\ d.pc = c.csr.mtvec
BY DEF Redirect, CoreState

\* The frame of a page fault of a handler.
LEMMA PageFaultFramed ==
    ASSUME NEW c \in CoreState, NEW i, NEW va \in Word, NEW b \in BOOLEAN
    PROVE  Framed(PageFault(c, va, b), c, i)
<1> DEFINE t == page_fault_trap(Minus(c.pc, 1), va, b)
           d == Redirect(c, t)
<1>1. PageFault(c, va, b) = Ok(d, 2)
  BY DEF PageFault
<1>2. d.mip = c.mip /\ d.mmu = c.mmu /\ d.halt = c.halt /\ d.prof = c.prof /\ d.axi = c.axi
  BY RedirectFrame
<1>3. \E x \in Word, y \in BOOLEAN : PageFault(c, va, b) = PageFault(c, x, y)
  OBVIOUS
<1> HIDE DEF d
<1>4. PageFault(c, va, b).m = d
  BY <1>1 DEF Ok
<1> QED
  BY <1>2, <1>3, <1>4 DEF Framed

\* The handlers of control flow, arithmetic, moves and vectors.
LEMMA RegisterFramed ==
    ASSUME NEW c \in CoreState, NEW i, WellFormed(i),
           i.op \in {"NOP", "HALT"} \cup BranchOps \cup VectorOps
                    \cup {"ADD", "SUB", "MUL", "MOV", "MOVI"}
    PROVE  Framed(Handled(c, i), c, i)
<1>1. /\ \A v : Untouched([c EXCEPT !.pc = v], c)
      /\ \A v : Untouched([c EXCEPT !.gpr = v], c)
      /\ \A v : Untouched([c EXCEPT !.vr = v], c)
      /\ \A v : Untouched([c EXCEPT !.mem = v], c)
      /\ Untouched([c EXCEPT !.halt = TRUE], c)
      /\ Untouched(c, c)
  BY DEF Untouched, CoreState
<1>2. \A g, o, z, n : Untouched([[c EXCEPT !.gpr = g, !.overflow = o]
                                   EXCEPT !.zero = z, !.negative = n, !.overflow = FALSE], c)
  BY DEF Untouched, CoreState
<1>3. CASE i.op \in {"NOP", "HALT"} \cup BranchOps
  BY <1>1, <1>3, UntouchedFramed
  DEF Handled, BranchOps, op_nop, op_halt, op_jmp, op_beq, op_bne, Branch
<1>4. CASE i.op \in {"ADD", "SUB", "MUL"}
  BY <1>2, <1>4, UntouchedFramed
  DEF Handled, op_add, op_sub, op_mul, Arith, update_flags_u32
<1>5. CASE i.op \in {"MOV", "MOVI"}
  BY <1>1, <1>5, UntouchedFramed DEF Handled, op_mov, op_movi
<1>6. CASE i.op \in VectorOps
  BY <1>1, <1>6, UntouchedFramed
  DEF Handled, VectorOps, op_load_vr, op_store_vr, op_vec_add, op_matmul_tile
<1> QED
  BY <1>3, <1>4, <1>5, <1>6

\* A transaction issued, and then registers, memories or devices changed.
Issued(d, c, i) ==
    /\ d.mip = c.mip /\ d.mmu = c.mmu /\ d.halt = c.halt /\ d.csr = c.csr /\ d.prof = c.prof
    /\ d.axi = fabric_issue(c.axi, Axi, Transfer(i), c.prof.cycles)

\* A handler that does that satisfies the frame too.
LEMMA IssuedFramed ==
    ASSUME NEW c, NEW i, NEW d, Issued(d, c, i), NEW n
    PROVE  Framed(Ok(d, n), c, i) /\ Framed(Throw(d), c, i)
BY DEF Issued, Framed, Ok, Throw

\* LOAD and STORE.
LEMMA LoadStoreFramed ==
    ASSUME NEW c \in CoreState, NEW i, WellFormed(i), i.op \in {"LOAD", "STORE"}
    PROVE  Framed(Handled(c, i), c, i)
<1> DEFINE va == EffectiveAddress(c, i)
           pa == Physical(c, va)
           q == AxiWord(c)
<1>1. i.ra \in Gpr /\ va \in Word
  BY AddressType DEF WellFormed, VectorOps
<1>2. \A b \in BOOLEAN : Framed(PageFault(c, va, b), c, i)
  BY <1>1, PageFaultFramed
<1>3. q \in CoreState /\ Issued(q, c, i)
  <2>1. q \in CoreState
    BY AxiType DEF AxiWord, Same
  <2> QED
    BY <2>1 DEF AxiWord, Issued, CoreState, Transfer, DmaOps
<1> HIDE DEF q, va, pa
<1>4. /\ \A t : Issued([q EXCEPT !.timer = t], c, i)
      /\ \A t : Issued([q EXCEPT !.tx = t], c, i)
      /\ \A f : Issued([q EXCEPT !.mem = f], c, i)
      /\ \A g : Issued([q EXCEPT !.gpr = g], c, i)
      /\ \A t, g : Issued([[q EXCEPT !.timer = t] EXCEPT !.gpr = g], c, i)
  BY <1>3 DEF CoreState, Issued
<1>5. \A g : Issued([bus_read(q, pa) EXCEPT !.gpr = g], c, i)
  BY <1>4 DEF bus_read
<1>6. \A v : Issued(bus_write(q, pa, v), c, i)
  BY <1>4 DEF bus_write
<1>7. CASE i.op = "LOAD"
  <2>1. \A g, n : Framed(Ok([bus_read(q, pa) EXCEPT !.gpr = g], n), c, i)
    BY <1>5, IssuedFramed
  <2>2. Framed(Throw(q), c, i)
    BY <1>3, IssuedFramed
  <2>3. Handled(c, i) = op_load(c, i)
    BY <1>7 DEF Handled
  <2> QED
    BY <1>2, <2>1, <2>2, <2>3 DEF op_load, va, pa, q
<1>8. CASE i.op = "STORE"
  <2>1. \A v, n : Framed(Ok(bus_write(q, pa, v), n), c, i)
    BY <1>6, IssuedFramed
  <2>2. Framed(Throw(q), c, i)
    BY <1>3, IssuedFramed
  <2>3. Handled(c, i) = op_store(c, i)
    BY <1>8 DEF Handled
  <2> QED
    BY <1>2, <2>1, <2>2, <2>3 DEF op_store, va, pa, q
<1> QED
  BY <1>7, <1>8

\* DMA_LOAD, which records a stall of its own, and DMA_STORE.
LEMMA DmaFramed ==
    ASSUME NEW c \in CoreState, NEW i, WellFormed(i), i.op \in DmaOps
    PROVE  Framed(Handled(c, i), c, i)
<1> DEFINE vdest == read_gpr(c, i.rd)
           vsrc == read_gpr(c, i.ra)
           p == IF IssueAccepted(c.axi, Axi) THEN c.prof ELSE record(c.prof, 1, 0)
           axi == fabric_issue(c.axi, Axi, i.imm, c.prof.cycles)
<1>1. vdest \in Word /\ vsrc \in Word
  BY ReadGprType DEF WellFormed, DmaOps, VectorOps
<1>2. \A va \in {vdest, vsrc}, b \in BOOLEAN : Framed(PageFault(c, va, b), c, i)
  BY <1>1, PageFaultFramed
<1>3. Untouched(c, c)
  BY DEF Untouched
<1>4. Framed(Throw(c), c, i) /\ Framed(Crash(c), c, i)
  BY <1>3, UntouchedFramed
<1>5. CASE i.op = "DMA_LOAD"
  <2>1. \A f, n : Framed(Ok([c EXCEPT !.axi = axi, !.prof = p, !.mem = f], n), c, i)
    BY <1>5 DEF Framed, Ok, CoreState, Transfer, DmaOps
  <2>2. Handled(c, i) = op_dma_load(c, i)
    BY <1>5 DEF Handled
  <2> QED
    BY <1>2, <1>4, <2>1, <2>2 DEF op_dma_load
<1>6. CASE i.op = "DMA_STORE"
  <2>1. \A f, n : Framed(Ok([c EXCEPT !.axi = axi, !.ram = f], n), c, i)
    BY <1>6 DEF Framed, Ok, CoreState, Transfer, DmaOps
  <2>2. Handled(c, i) = op_dma_store(c, i)
    BY <1>6 DEF Handled
  <2> QED
    BY <1>2, <1>4, <2>1, <2>2 DEF op_dma_store
<1> QED
  BY <1>5, <1>6 DEF DmaOps

\* Every entry of the dispatch table.
LEMMA HandledFramed ==
    ASSUME NEW c \in CoreState, NEW i, WellFormed(i), i.op \in Dispatched
    PROVE  Framed(Handled(c, i), c, i)
BY RegisterFramed, LoadStoreFramed, DmaFramed DEF Dispatched, ScalarOps
--------------------------------------------------------------------------------
\* The frame of execute(), the ticks, fetch() and step()

\* The state an instruction that traps must not change, and where the trap leads.
Preserved(d, c) ==
    /\ d.gpr = c.gpr /\ d.vr = c.vr /\ d.zero = c.zero
    /\ d.mem = c.mem /\ d.ram = c.ram

\* d is c after the trap of the instruction at pc and nothing else.
Trapped(d, c, pc) ==
    /\ \E t \in Trap : t.cause \in Exception /\ t.pc = pc /\ d.csr = take_trap(c.csr, t)
    /\ d.pc = c.csr.mtvec /\ d.axi = c.axi
    /\ Preserved(d, c)

\* The clock of the profiler and the accumulator of the ticks move together, but for
\* a DMA_LOAD the fabric refuses.
Advanced(d, c, i) ==
    \E k \in Nat :
        /\ d.accum = c.accum + k
        /\ \/ d.prof.cycles = c.prof.cycles + k
           \/ /\ i.op = "DMA_LOAD" /\ ~IssueAccepted(c.axi, Axi)
              /\ d.prof.cycles = c.prof.cycles + k + 1

\* What execute() leaves alone, and how the rest may change.
ExecutedAs(r, c, i) ==
    /\ r.m.mip = c.mip /\ r.m.mmu = c.mmu /\ (c.halt => r.m.halt)
    /\ r.m.csr = c.csr \/ Trapped(r.m, c, Minus(c.pc, 1))
    /\ Advanced(r.m, c, i)
    /\ \/ r.m.axi = c.axi
       \/ r.m.axi = fabric_issue(c.axi, Axi, Transfer(i), c.prof.cycles)

\* A redirection by an exception at pc is a trap of the instruction there.
LEMMA RedirectTrapped ==
    ASSUME NEW c \in CoreState, NEW t \in Trap, t.cause \in Exception
    PROVE  Trapped(Redirect(c, t), c, t.pc)
BY RedirectFrame DEF Trapped, Preserved

\* Retired moves the clock and the accumulator and nothing else.
LEMMA RetiredFrame ==
    ASSUME NEW d \in CoreState, NEW i, NEW n
    PROVE  LET e == Retired(d, i, n)
           IN  /\ e.mip = d.mip /\ e.mmu = d.mmu /\ e.halt = d.halt /\ e.csr = d.csr
               /\ e.pc = d.pc /\ e.axi = d.axi /\ Preserved(e, d)
               /\ e.accum = d.accum + n /\ e.prof.cycles = d.prof.cycles + n
BY DEF Retired, record, Preserved, CoreState

\* The frame of execute().
LEMMA ExecuteFrame ==
    ASSUME NEW c \in CoreState, NEW w \in Word
    PROVE  ExecutedAs(execute(c, w), c, Decode[w])
<1> DEFINE i == Decode[w]
           h == Handled(c, i)
           r == execute(c, w)
<1> SUFFICES ExecutedAs(r, c, i)
  OBVIOUS
<1>0. /\ c.accum \in Nat /\ c.prof.cycles \in Nat /\ c.pc \in Word
      /\ Minus(c.pc, 1) \in Word
  BY ArithmeticType, SmallWords DEF CoreState, Profile
<1>1. WellFormed(i)
  BY DecodeAssumption
<1>2. Advanced(c, c, i)
  <2>1. 0 \in Nat /\ c.accum = c.accum + 0 /\ c.prof.cycles = c.prof.cycles + 0
    BY <1>0
  <2> QED
    BY <2>1 DEF Advanced
<1>3. CASE i.op \notin Dispatched
  <2> DEFINE t == illegal_inst_trap(Minus(c.pc, 1), w)
             d == Redirect(c, t)
  <2>1. t \in Trap /\ t.cause \in Exception /\ t.pc = Minus(c.pc, 1)
    BY <1>0, TrapTypes DEF illegal_inst_trap, Exception
  <2> HIDE DEF t
  <2>2. Trapped(d, c, Minus(c.pc, 1))
    BY <2>1, RedirectTrapped
  <2>3. /\ d.mip = c.mip /\ d.mmu = c.mmu /\ d.halt = c.halt
        /\ d.prof = c.prof /\ d.axi = c.axi /\ d.accum = c.accum
    BY RedirectFrame
  <2> HIDE DEF d
  <2>4. Advanced(d, c, i)
    BY <1>2, <2>3 DEF Advanced
  <2>5. r = Ok(d, 2) \/ r = Throw(c)
    BY <1>3 DEF execute, t, d
  <2>6. r.m = d \/ r.m = c
    BY <2>5 DEF Ok, Throw
  <2>7. CASE r.m = d
    <3> HIDE DEF r, i
    <3> QED BY <2>2, <2>3, <2>4, <2>7 DEF ExecutedAs
  <2>8. CASE r.m = c
    <3> HIDE DEF r, i
    <3> QED BY <1>2, <2>8 DEF ExecutedAs
  <2> QED
    BY <2>6, <2>7, <2>8
<1>4. CASE i.op \in Dispatched
  <2>1. Framed(h, c, i) /\ GoodResult(h, c, i)
    BY <1>1, <1>4, HandledFramed, HandledGood
  <2>2. r = IF h.end = "ok" THEN Ok(Retired(h.m, i, h.cycles), h.cycles) ELSE h
    BY <1>4 DEF execute
  <2> HIDE DEF h, i
  <2>3. h.m \in CoreState /\ h.m.accum = c.accum /\ h.cycles \in Nat
    BY <2>1 DEF GoodResult, Same
  <2>4. h.m.csr = c.csr \/ (Trapped(h.m, c, Minus(c.pc, 1)) /\ h.end = "ok" /\ h.m.prof = c.prof)
    <3>1. CASE h.m.csr = c.csr
      BY <3>1
    <3>2. ASSUME NEW va \in Word, NEW b \in BOOLEAN, h = PageFault(c, va, b)
          PROVE  Trapped(h.m, c, Minus(c.pc, 1)) /\ h.end = "ok" /\ h.m.prof = c.prof
      <4> DEFINE t == page_fault_trap(Minus(c.pc, 1), va, b)
      <4>1. t \in Trap /\ t.cause \in Exception /\ t.pc = Minus(c.pc, 1)
        BY <1>0, TrapTypes DEF page_fault_trap, Exception
      <4> HIDE DEF t
      <4>2. Trapped(Redirect(c, t), c, Minus(c.pc, 1)) /\ Redirect(c, t).prof = c.prof
        BY <4>1, RedirectTrapped, RedirectFrame
      <4>3. h.m = Redirect(c, t) /\ h.end = "ok"
        BY <3>2 DEF PageFault, Ok, t
      <4> QED
        BY <4>2, <4>3
    <3> QED
      BY <2>1, <3>1, <3>2 DEF Framed
  <2>5. CASE h.end = "ok"
    <3> DEFINE e == Retired(h.m, i, h.cycles)
    <3>1. /\ e.mip = h.m.mip /\ e.mmu = h.m.mmu /\ e.halt = h.m.halt /\ e.csr = h.m.csr
          /\ e.pc = h.m.pc /\ e.axi = h.m.axi /\ Preserved(e, h.m)
          /\ e.accum = h.m.accum + h.cycles /\ e.prof.cycles = h.m.prof.cycles + h.cycles
      BY <2>3, RetiredFrame
    <3> HIDE DEF e
    <3>2. r.m = e
      BY <2>2, <2>5 DEF Ok, e
    <3>3. e.csr = c.csr \/ Trapped(e, c, Minus(c.pc, 1))
      BY <2>4, <3>1 DEF Trapped, Preserved
    <3>4. Advanced(e, c, i)
      <4>1. CASE h.m.prof = c.prof
        BY <2>3, <3>1, <4>1 DEF Advanced
      <4>2. CASE /\ i.op = "DMA_LOAD" /\ ~IssueAccepted(c.axi, Axi)
                 /\ h.m.prof = record(c.prof, 1, 0)
        <5>1. h.m.prof.cycles = c.prof.cycles + 1
          BY <4>2 DEF record
        <5>2. e.prof.cycles = c.prof.cycles + h.cycles + 1
          BY <1>0, <2>3, <3>1, <5>1
        <5> QED
          BY <2>3, <3>1, <4>2, <5>2 DEF Advanced
      <4> QED
        BY <2>1, <4>1, <4>2 DEF Framed
    <3> HIDE DEF r
    <3> QED
      BY <2>1, <3>1, <3>2, <3>3, <3>4 DEF Framed, ExecutedAs
  <2>6. CASE h.end # "ok"
    <3>1. r = h /\ h.m.csr = c.csr
      BY <2>2, <2>4, <2>6
    <3>2. h.m.prof = c.prof
      BY <2>1, <2>6 DEF Framed
    <3>3. Advanced(h.m, c, i)
      BY <1>2, <2>3, <3>2 DEF Advanced
    <3> HIDE DEF r
    <3> QED
      BY <2>1, <3>1, <3>3 DEF Framed, ExecutedAs
  <2> QED
    BY <2>5, <2>6
<1> QED
  BY <1>3, <1>4

\* The frame of tick_peripherals(): the timer's line, the fabric and the accumulator.
LEMMA TickFrame ==
    ASSUME NEW d \in CoreState
    PROVE  LET e == tick_peripherals(d)
           IN  /\ e.mmu = d.mmu /\ e.halt = d.halt /\ e.csr = d.csr /\ e.pc = d.pc
               /\ e.prof = d.prof /\ Preserved(e, d)
               /\ \A l : l # "MachineTimer" => (l \in e.mip <=> l \in d.mip)
               /\ \/ ~(d.accum >= CyclesPerTick) /\ e.axi = d.axi /\ e.accum = d.accum
                  \/ /\ d.accum >= CyclesPerTick
                     /\ e.axi = fabric_tick(d.axi, CyclesPerTick)
                     /\ e.accum = d.accum - CyclesPerTick
<1>1. CASE d.accum >= CyclesPerTick
  <2> DEFINE t == timer_tick(d.timer, CyclesPerTick)
             l == IF t.irq_pending THEN d.mip \cup {"MachineTimer"} ELSE d.mip \ {"MachineTimer"}
             f == fabric_tick(d.axi, CyclesPerTick)
             a == d.accum - CyclesPerTick
             g == [d EXCEPT !.timer = t, !.mip = l, !.axi = f, !.accum = a]
  <2>1. tick_peripherals(d) = g
    BY <1>1 DEF tick_peripherals, TickOnce
  <2>2. \A x : x # "MachineTimer" => (x \in l <=> x \in d.mip)
    OBVIOUS
  <2> HIDE DEF t, l, f, a
  <2>3. /\ g.mmu = d.mmu /\ g.halt = d.halt /\ g.csr = d.csr /\ g.pc = d.pc
        /\ g.prof = d.prof /\ Preserved(g, d)
        /\ g.mip = l /\ g.axi = f /\ g.accum = a
    BY DEF CoreState, Preserved
  <2> HIDE DEF g
  <2> QED
    BY <1>1, <2>1, <2>2, <2>3 DEF f, a
<1>2. CASE ~(d.accum >= CyclesPerTick)
  BY <1>2 DEF tick_peripherals, Preserved
<1> QED
  BY <1>1, <1>2

\* The state that neither the interrupt check nor fetch() changes.
Carried(d, c) ==
    /\ d.mip = c.mip /\ d.mmu = c.mmu /\ d.halt = c.halt
    /\ d.prof = c.prof /\ d.axi = c.axi /\ d.accum = c.accum
    /\ Preserved(d, c)

\* An interrupt changes the CSRs and the program counter; its cause is a line.
LEMMA EnterFrame ==
    ASSUME NEW c \in CoreState
    PROVE  LET e == enter_interrupt(c)
           IN  /\ Carried(e, c)
               /\ \/ ~HasInterrupt(c.csr, c.mip) /\ e = c
                  \/ /\ HasInterrupt(c.csr, c.mip)
                     /\ \E t \in Trap : t.cause \in Line /\ e.csr = take_trap(c.csr, t)
<1> DEFINE t == pending_interrupt(c.csr, c.mip)
           v == IF c.csr.vectored THEN Plus(c.csr.mtvec, VectorIndex(t.cause)) ELSE c.csr.mtvec
           g == [c EXCEPT !.csr = take_trap(c.csr, t), !.pc = v]
<1>1. CASE HasInterrupt(c.csr, c.mip)
  <2>1. t \in Trap /\ t.cause \in Line
    BY SmallWords DEF pending_interrupt, Picked, Trap, Line
  <2>2. enter_interrupt(c) = g
    BY <1>1 DEF enter_interrupt
  <2> HIDE DEF t, v
  <2>3. Carried(g, c) /\ g.csr = take_trap(c.csr, t)
    BY DEF CoreState, Carried, Preserved
  <2> QED
    BY <1>1, <2>1, <2>2, <2>3
<1>2. CASE ~HasInterrupt(c.csr, c.mip)
  BY <1>2 DEF enter_interrupt, Carried, Preserved
<1> QED
  BY <1>1, <1>2

\* fetch() moves past the instruction, traps on it, or throws and changes nothing.
LEMMA FetchFrame ==
    ASSUME NEW c \in CoreState
    PROVE  LET f == fetch(c)
           IN  /\ Carried(f.m, c)
               /\ \/ f.end = "ok" /\ f.m.csr = c.csr /\ f.m.pc = Plus(c.pc, 1)
                  \/ f.end = "ok" /\ Trapped(f.m, c, c.pc) /\ f.word = 0
                  \/ f.end = "throw" /\ f.m = c
<1>0. c.pc \in Word
  BY DEF CoreState
<1>1. CASE Faults(c, c.pc, "X")
  <2> DEFINE t == [cause |-> "InstPageFault", tval |-> c.pc, pc |-> c.pc]
             d == Redirect(c, t)
  <2>1. t \in Trap /\ t.cause \in Exception /\ t.pc = c.pc
    BY <1>0, TrapTypes DEF Exception
  <2>2. fetch(c) = [m |-> d, word |-> 0, end |-> "ok"]
    BY <1>1 DEF fetch
  <2> HIDE DEF t
  <2>3. Trapped(d, c, c.pc) /\ Carried(d, c)
    BY <2>1, RedirectTrapped, RedirectFrame DEF Carried, Preserved
  <2> QED
    BY <2>2, <2>3
<1>2. CASE ~Faults(c, c.pc, "X") /\ c.mmu
  <2> DEFINE d == [c EXCEPT !.pc = Plus(c.pc, 1)]
  <2>1. fetch(c).m = d /\ fetch(c).end = "ok"
    BY <1>2 DEF fetch
  <2>2. Carried(d, c) /\ d.csr = c.csr /\ d.pc = Plus(c.pc, 1)
    BY DEF CoreState, Carried, Preserved
  <2> QED
    BY <2>1, <2>2
<1>3. CASE ~Faults(c, c.pc, "X") /\ ~c.mmu /\ BusMapped(c.pc)
  <2> DEFINE b == bus_read(c, c.pc)
             d == [b EXCEPT !.pc = Plus(b.pc, 1)]
  <2>1. fetch(c).m = d /\ fetch(c).end = "ok"
    BY <1>3 DEF fetch
  <2>2. b \in CoreState
    BY BusReadType DEF Same
  <2>3. Carried(b, c) /\ b.csr = c.csr /\ b.pc = c.pc
    BY DEF bus_read, CoreState, Carried, Preserved
  <2> HIDE DEF b
  <2>4. Carried(d, b) /\ d.csr = b.csr /\ d.pc = Plus(b.pc, 1)
    BY <2>2 DEF CoreState, Carried, Preserved
  <2> QED
    BY <2>1, <2>3, <2>4 DEF Carried, Preserved
<1>4. CASE ~Faults(c, c.pc, "X") /\ ~c.mmu /\ ~BusMapped(c.pc)
  BY <1>4 DEF fetch, Carried, Preserved
<1> QED
  BY <1>1, <1>2, <1>3, <1>4

\* A fabric that is ticked holds no more transactions than before.
LEMMA FabricTickShortens ==
    ASSUME NEW f \in Fabric, NEW cycles \in Nat
    PROVE  Len(fabric_tick(f, cycles).pending) <= Len(f.pending)
<1> DEFINE now == f.cur + cycles
           k == DueCount(f.pending, now)
           q == SubSeq(f.pending, k + 1, Len(f.pending))
<1>1. f.pending \in Seq(Nat) /\ now \in Nat /\ Len(f.pending) \in Nat
  BY LenProperties DEF Fabric
<1>2. k \in 0 .. Len(f.pending)
  BY <1>1, DueCountProperties
<1>3. fabric_tick(f, cycles).pending = q
  BY DEF fabric_tick, Fabric
<1> HIDE DEF k
<1>4. \A j \in k + 1 .. Len(f.pending) : f.pending[j] \in Nat
  BY <1>1, <1>2, ElementOfSeq
<1>5. Len(q) = IF k + 1 <= Len(f.pending) THEN Len(f.pending) - k ELSE 0
  BY <1>1, <1>2, <1>4, SubSeqProperties
<1> QED
  BY <1>1, <1>2, <1>3, <1>5

\* The fabric is full and the word is the one kind of transfer that stalls for it.
Refuses(c, w) == ~IssueAccepted(c.axi, Axi) /\ Decode[w].op = "DMA_LOAD"

\* The clock and the accumulator move by the same cycles, modulo a tick.
Clocked(d, c, w) ==
    \E k \in Nat :
        /\ d.accum = c.accum + k \/ d.accum = c.accum + k - CyclesPerTick
        /\ \/ d.prof.cycles = c.prof.cycles + k
           \/ Refuses(c, w) /\ d.prof.cycles = c.prof.cycles + k + 1

\* The instruction at pc took its trap, and nothing else happened but a tick.
TrapTaken(d, c, pc) ==
    /\ \E t \in Trap : t.cause \in Exception /\ t.pc = pc /\ d.csr = take_trap(c.csr, t)
    /\ d.pc = c.csr.mtvec /\ Len(d.axi.pending) <= Len(c.axi.pending)
    /\ Preserved(d, c)

\* The interrupt lines but the timer's, which a tick sets.
SameLines(d, c) == \A l : l # "MachineTimer" => (l \in d.mip <=> l \in c.mip)

\* execute() and then tick_peripherals().
LEMMA TickedFrame ==
    ASSUME NEW c \in CoreState, NEW w \in Word
    PROVE  LET d == Ticked(execute(c, w)).m
           IN  /\ d.mmu = c.mmu /\ (c.halt => d.halt) /\ SameLines(d, c)
               /\ d.csr = c.csr \/ TrapTaken(d, c, Minus(c.pc, 1))
               /\ Clocked(d, c, w)
<1> DEFINE r == execute(c, w)
           x == r.m
           d == Ticked(r).m
<1>1. ExecutedAs(r, c, Decode[w]) /\ x \in CoreState
  BY ExecuteFrame, ExecuteGood
<1> HIDE DEF r
<1>2. d = tick_peripherals(x) \/ d = x
  BY DEF Ticked
<1>3. /\ d.mmu = x.mmu /\ d.halt = x.halt /\ d.csr = x.csr /\ d.pc = x.pc
      /\ d.prof = x.prof /\ Preserved(d, x) /\ SameLines(d, x)
      /\ \/ d.axi = x.axi /\ d.accum = x.accum
         \/ d.axi = fabric_tick(x.axi, CyclesPerTick) /\ d.accum = x.accum - CyclesPerTick
  <2>1. CASE d = x
    BY <2>1 DEF Preserved, SameLines
  <2>2. CASE d = tick_peripherals(x)
    <3> HIDE DEF d
    <3> QED BY <1>1, <2>2, TickFrame DEF SameLines
  <2> QED
    BY <1>2, <2>1, <2>2
<1> HIDE DEF d
<1>4. x.csr = c.csr \/ Trapped(x, c, Minus(c.pc, 1))
  BY <1>1 DEF ExecutedAs
<1>5. Len(d.axi.pending) <= Len(x.axi.pending)
  <2>1. x.axi \in Fabric /\ CyclesPerTick \in Nat
    BY <1>1, IsaAssumption DEF CoreState
  <2>2. x.axi.pending \in Seq(Nat)
    BY <2>1 DEF Fabric
  <2>3. Len(x.axi.pending) \in Nat
    BY <2>2, LenProperties
  <2> QED
    BY <1>3, <2>1, <2>3, FabricTickShortens
<1>6. d.csr = c.csr \/ TrapTaken(d, c, Minus(c.pc, 1))
  BY <1>3, <1>4, <1>5 DEF Trapped, TrapTaken, Preserved
<1>7. Clocked(d, c, w)
  <2>0. Advanced(x, c, Decode[w])
    BY <1>1 DEF ExecutedAs
  <2>1. PICK k \in Nat :
          /\ x.accum = c.accum + k
          /\ \/ x.prof.cycles = c.prof.cycles + k
             \/ /\ Decode[w].op = "DMA_LOAD" /\ ~IssueAccepted(c.axi, Axi)
                /\ x.prof.cycles = c.prof.cycles + k + 1
    BY <2>0 DEF Advanced
  <2>2. d.accum = c.accum + k \/ d.accum = c.accum + k - CyclesPerTick
    <3>1. d.accum = x.accum \/ d.accum = x.accum - CyclesPerTick
      BY <1>3
    <3>2. c.accum \in Nat /\ x.accum \in Nat /\ CyclesPerTick \in Nat
      BY <1>1, IsaAssumption DEF CoreState
    <3> QED
      BY <2>1, <3>1, <3>2
  <2>3. \/ d.prof.cycles = c.prof.cycles + k
        \/ Refuses(c, w) /\ d.prof.cycles = c.prof.cycles + k + 1
    BY <1>3, <2>1 DEF Refuses
  <2> QED
    BY <2>2, <2>3 DEF Clocked
<1>8. d.mmu = c.mmu /\ (c.halt => d.halt) /\ SameLines(d, c)
  BY <1>1, <1>3 DEF ExecutedAs, SameLines
<1> QED
  BY <1>6, <1>7, <1>8 DEF d, r

\* The address before the one after.
LEMMA MinusPlus == \A a \in Word : Minus(Plus(a, 1), 1) = a
<1> SUFFICES ASSUME NEW a \in Word PROVE Minus(Plus(a, 1), 1) = a
  OBVIOUS
<1>0. WordCount \in Nat /\ WordCount > 1 /\ a \in Nat /\ a < WordCount
  BY IsaAssumption DEF Word
<1>1. CASE a + 1 < WordCount
  <2>1. (a + 1) % WordCount = a + 1 /\ a % WordCount = a
    BY <1>0, <1>1
  <2>2. (a + 1) - 1 = a
    BY <1>0
  <2> QED
    BY <2>1, <2>2 DEF Plus, Minus
<1>2. CASE ~(a + 1 < WordCount)
  <2>1. a + 1 = WordCount
    BY <1>0, <1>2
  <2>2. (a + 1) % WordCount = 0
    BY <1>0, <2>1
  <2>3. (0 - 1) % WordCount = WordCount - 1
    BY <1>0
  <2> QED
    BY <1>0, <2>1, <2>2, <2>3 DEF Plus, Minus
<1> QED
  BY <1>1, <1>2

\* The NOP a faulting fetch() hands to the executor changes nothing but the clocks.
LEMMA NopFrame ==
    ASSUME NEW c \in CoreState
    PROVE  LET d == Ticked(execute(c, 0)).m
           IN  /\ d.csr = c.csr /\ d.pc = c.pc /\ d.mmu = c.mmu /\ Preserved(d, c)
               /\ Len(d.axi.pending) <= Len(c.axi.pending)
<1> DEFINE n == cycle_weight("NOP", 0)
           x == Retired(c, nop, n)
<1>1. execute(c, 0) = Ok(x, n)
  BY DecodeAssumption DEF execute, Handled, op_nop, Ok, nop, Dispatched
<1>2. x.csr = c.csr /\ x.pc = c.pc /\ x.mmu = c.mmu /\ x.axi = c.axi /\ Preserved(x, c)
  BY RetiredFrame
<1>3. x \in CoreState
  BY <1>1, SmallWords, ExecuteGood DEF Ok
<1> HIDE DEF x
<1>4. Ticked(execute(c, 0)).m = tick_peripherals(x)
  BY <1>1 DEF Ticked, Ok
<1> DEFINE d == tick_peripherals(x)
<1>5. /\ d.csr = x.csr /\ d.pc = x.pc /\ d.mmu = x.mmu /\ Preserved(d, x)
      /\ d.axi = x.axi \/ d.axi = fabric_tick(x.axi, CyclesPerTick)
  BY <1>3, TickFrame
<1> HIDE DEF d
<1>6. x.axi \in Fabric /\ CyclesPerTick \in Nat
  BY <1>3, IsaAssumption DEF CoreState
<1>7. x.axi.pending \in Seq(Nat)
  BY <1>6 DEF Fabric
<1>8. Len(x.axi.pending) \in Nat
  BY <1>7, LenProperties
<1>9. Len(d.axi.pending) <= Len(x.axi.pending)
  BY <1>5, <1>6, <1>8, FabricTickShortens
<1> QED
  BY <1>2, <1>4, <1>5, <1>9 DEF Preserved, d

\* What step() does to the CSRs of a core whose instruction is at pc: nothing, an
\* interrupt, or the trap of that instruction, with or without an interrupt before.
CsrStep(d, c, pc) ==
    \/ d.csr = c.csr /\ ~HasInterrupt(c.csr, c.mip)
    \/ \E t \in Trap : t.cause \in Line /\ d.csr = take_trap(c.csr, t)
    \/ /\ d.csr.mepc = pc /\ d.csr.mcause \in Exception
       /\ d.csr.ie = c.csr.ie /\ ~d.csr.mie
       /\ d.pc = c.csr.mtvec /\ Len(d.axi.pending) <= Len(c.axi.pending)
       /\ Preserved(d, c)

\* The fields of the CSRs after a trap.
LEMMA TakeTrapFields ==
    ASSUME NEW s \in Csr, NEW t \in Trap
    PROVE  LET u == take_trap(s, t)
           IN  /\ u.mepc = t.pc /\ u.mcause = t.cause /\ ~u.mie
               /\ u.ie = s.ie /\ u.mtvec = s.mtvec
BY DEF take_trap, Csr

\* The word step() executes, after a possible interrupt.
FetchedWord(c) == fetch(enter_interrupt(c)).word

\* step() of a core that is not halted.
LEMMA StepFrame ==
    ASSUME NEW c \in CoreState, ~c.halt
    PROVE  LET d == step(c).m
           IN  /\ d.mmu = c.mmu /\ SameLines(d, c) /\ Clocked(d, c, FetchedWord(c))
               /\ CsrStep(d, c, enter_interrupt(c).pc)
<1> DEFINE e == enter_interrupt(c)
           f == fetch(e)
           g == f.m
           w == f.word
           d == step(c).m
<1>1. e \in CoreState /\ Carried(e, c)
  BY EnterInterruptType, EnterFrame DEF Same
<1>2. \/ ~HasInterrupt(c.csr, c.mip) /\ e = c
      \/ HasInterrupt(c.csr, c.mip) /\ \E t \in Trap : t.cause \in Line /\ e.csr = take_trap(c.csr, t)
  BY EnterFrame
<1>3. step(c) = IF f.end = "ok" THEN Ticked(execute(g, w)) ELSE Throw(g)
  BY DEF step
<1> HIDE DEF e
<1>4. g \in CoreState /\ w \in Word /\ f.end \in {"ok", "throw"}
  BY <1>1, FetchGood DEF Same
<1>5. /\ Carried(g, e)
      /\ \/ f.end = "ok" /\ g.csr = e.csr /\ g.pc = Plus(e.pc, 1)
         \/ f.end = "ok" /\ Trapped(g, e, e.pc) /\ w = 0
         \/ f.end = "throw" /\ g = e
  BY <1>1, FetchFrame
<1> HIDE DEF f
<1>6. Carried(g, c)
  BY <1>1, <1>5 DEF Carried, Preserved
<1>7. c.csr \in Csr /\ e.csr \in Csr /\ e.pc \in Word /\ c.accum \in Nat /\ c.prof.cycles \in Nat
  BY <1>1 DEF CoreState, Profile
<1>8. e.csr.ie = c.csr.ie /\ e.csr.mtvec = c.csr.mtvec
  BY <1>2, <1>7, TakeTrapFields
<1>9. \/ e.csr = c.csr /\ ~HasInterrupt(c.csr, c.mip)
      \/ \E t \in Trap : t.cause \in Line /\ e.csr = take_trap(c.csr, t)
  BY <1>2
<1>10. CASE f.end = "throw"
  <2>1. d = g
    BY <1>3, <1>10 DEF Throw
  <2>2. Clocked(g, c, w)
    <3>1. g.accum = c.accum /\ g.prof = c.prof
      BY <1>6 DEF Carried
    <3>2. 0 \in Nat /\ g.accum = c.accum + 0 /\ g.prof.cycles = c.prof.cycles + 0
      BY <1>7, <3>1
    <3> QED
      BY <3>2 DEF Clocked
  <2>3. CsrStep(g, c, e.pc)
    BY <1>5, <1>9, <1>10 DEF CsrStep
  <2> QED
    BY <1>6, <2>1, <2>2, <2>3 DEF Carried, SameLines, e, f, FetchedWord
<1>11. CASE f.end = "ok"
  <2>1. d = Ticked(execute(g, w)).m
    BY <1>3, <1>11
  <2>2. /\ d.mmu = g.mmu /\ SameLines(d, g)
        /\ d.csr = g.csr \/ TrapTaken(d, g, Minus(g.pc, 1))
        /\ Clocked(d, g, w)
    BY <1>4, <2>1, TickedFrame
  <2> HIDE DEF d
  <2>3. d.mmu = c.mmu /\ SameLines(d, c)
    BY <1>6, <2>2 DEF Carried, SameLines
  <2>4. Clocked(d, c, w)
    BY <1>6, <2>2 DEF Carried, Clocked, Refuses
  <2>5. ASSUME g.csr = e.csr, g.pc = Plus(e.pc, 1) PROVE CsrStep(d, c, e.pc)
    <3>1. Minus(g.pc, 1) = e.pc
      BY <1>7, <2>5, MinusPlus
    <3>2. CASE d.csr = g.csr
      BY <1>9, <2>5, <3>2 DEF CsrStep
    <3>3. CASE TrapTaken(d, g, e.pc)
      <4>1. PICK t \in Trap : t.cause \in Exception /\ t.pc = e.pc /\ d.csr = take_trap(g.csr, t)
        BY <3>3 DEF TrapTaken
      <4>2. /\ d.csr.mepc = e.pc /\ d.csr.mcause \in Exception
            /\ d.csr.ie = c.csr.ie /\ ~d.csr.mie
        BY <1>7, <1>8, <2>5, <4>1, TakeTrapFields
      <4>3. /\ d.pc = c.csr.mtvec /\ Len(d.axi.pending) <= Len(c.axi.pending)
            /\ Preserved(d, c)
        BY <1>6, <1>8, <2>5, <3>3 DEF TrapTaken, Carried, Preserved
      <4> QED
        BY <4>2, <4>3 DEF CsrStep
    <3> QED
      BY <2>2, <3>1, <3>2, <3>3
  <2>6. ASSUME Trapped(g, e, e.pc), w = 0 PROVE CsrStep(d, c, e.pc)
    <3>1. /\ d.csr = g.csr /\ d.pc = g.pc /\ Preserved(d, g)
          /\ Len(d.axi.pending) <= Len(g.axi.pending)
      BY <1>4, <2>1, <2>6, NopFrame
    <3>2. PICK t \in Trap : t.cause \in Exception /\ t.pc = e.pc /\ g.csr = take_trap(e.csr, t)
      BY <2>6 DEF Trapped
    <3>3. /\ d.csr.mepc = e.pc /\ d.csr.mcause \in Exception
          /\ d.csr.ie = c.csr.ie /\ ~d.csr.mie
      BY <1>7, <1>8, <3>1, <3>2, TakeTrapFields
    <3>4. /\ d.pc = c.csr.mtvec /\ Len(d.axi.pending) <= Len(c.axi.pending)
          /\ Preserved(d, c)
      BY <1>6, <1>8, <2>6, <3>1 DEF Trapped, Carried, Preserved
    <3> QED
      BY <3>3, <3>4 DEF CsrStep
  <2> QED
    BY <1>5, <1>11, <2>3, <2>4, <2>5, <2>6 DEF e, d, f, FetchedWord
<1> QED
  BY <1>4, <1>10, <1>11

--------------------------------------------------------------------------------
\* step() against the loop of run_fast()

\* Without translation only the branches move the program counter.
LEMMA HandledPc ==
    ASSUME NEW c \in CoreState, ~c.mmu, NEW i, i.op \in Dispatched, ~EndsBlock(i.op)
    PROVE  Handled(c, i).m.pc = c.pc
<1>0. \A va, b : ~Faults(c, va, b)
  BY DEF Faults
<1>1. i.op \in {"NOP"} \cup ScalarOps \cup VectorOps \cup DmaOps
  BY DEF Dispatched, EndsBlock
<1>2. CASE i.op \in {"NOP", "ADD", "SUB", "MUL", "MOV", "MOVI"}
  BY <1>2 DEF Handled, op_nop, op_add, op_sub, op_mul, op_mov, op_movi, Arith, update_flags_u32, Ok,
              CoreState
<1>3. CASE i.op \in {"LOAD", "STORE"}
  <2> DEFINE q == AxiWord(c)
  <2>1. q.pc = c.pc /\ q \in CoreState
    BY AxiType DEF AxiWord, CoreState, Same
  <2> HIDE DEF q
  <2>2. \A a, v : bus_read(q, a).pc = q.pc /\ bus_write(q, a, v).pc = q.pc
    BY <2>1 DEF bus_read, bus_write, CoreState
  <2>3. \A a : bus_read(q, a) \in CoreState
    BY <2>1, BusReadType DEF Same
  <2>4. \A a, v : [bus_read(q, a) EXCEPT !.gpr = v].pc = bus_read(q, a).pc
    BY <2>3 DEF CoreState
  <2>5. CASE i.op = "LOAD"
    BY <1>0, <2>1, <2>2, <2>4, <2>5 DEF Handled, op_load, Ok, Throw, q
  <2>6. CASE i.op = "STORE"
    BY <1>0, <2>1, <2>2, <2>6 DEF Handled, op_store, Ok, Throw, q
  <2> QED
    BY <1>3, <2>5, <2>6
<1>4. CASE i.op \in VectorOps
  BY <1>4 DEF VectorOps, Handled, op_load_vr, op_store_vr, op_vec_add, op_matmul_tile, Ok, Throw,
              CoreState
<1>5. CASE i.op \in DmaOps
  BY <1>0, <1>5 DEF DmaOps, Handled, op_dma_load, op_dma_store, Ok, Throw, Crash, CoreState
<1> QED
  BY <1>1, <1>2, <1>3, <1>4, <1>5 DEF ScalarOps

\* Nor does the instruction that retires: an operation of a block that does not end it
\* leaves the next operation of the block at the program counter.
LEMMA StraightLine ==
    ASSUME NEW c \in CoreState, ~c.mmu, NEW w \in Word, ~EndsBlock(Decode[w].op),
           Decode[w].op \in Dispatched \/ ~MtvecSet(c.csr), execute(c, w).end = "ok"
    PROVE  Ticked(execute(c, w)).m.pc = c.pc
<1> DEFINE r == Handled(c, Decode[w])
           x == execute(c, w).m
<1>1. Decode[w].op \in Dispatched /\ r.end = "ok"
  BY DEF execute, Throw
<1>2. r.m.pc = c.pc /\ r.m \in CoreState
  <2>1. WellFormed(Decode[w])
    BY DecodeAssumption
  <2> QED
    BY <1>1, <2>1, HandledPc, HandledGood DEF GoodResult, Same
<1>3. x = Retired(r.m, Decode[w], r.cycles)
  BY <1>1 DEF execute, Ok
<1> HIDE DEF r
<1>4. x.pc = c.pc
  BY <1>2, <1>3, RetiredFrame
<1>5. x \in CoreState
  BY ExecuteGood
<1>6. Ticked(execute(c, w)).m = tick_peripherals(x)
  BY DEF Ticked
<1> HIDE DEF x
<1> QED
  BY <1>4, <1>5, <1>6, TickFrame

\* Out of plain memory, with neither translation nor an interrupt, step() is the body of
\* the loop of run_fast() on the word at the program counter.
LEMMA StepIsFastOp ==
    ASSUME NEW c \in CoreState, ~c.halt, ~c.mmu, ~HasInterrupt(c.csr, c.mip),
           c.pc \in Addr, c.pc \notin DOMAIN Mmio
    PROVE  step(c) = fast_op(c, c.mem[c.pc])
<1>1. enter_interrupt(c) = c
  BY DEF enter_interrupt
<1>2. ~Faults(c, c.pc, "X") /\ BusMapped(c.pc) /\ bus_read(c, c.pc) = c
      /\ bus_value(c, c.pc) = c.mem[c.pc]
  BY DEF Faults, BusMapped, bus_read, bus_value
<1>3. fetch(c) = [m |-> [c EXCEPT !.pc = Plus(c.pc, 1)], word |-> c.mem[c.pc], end |-> "ok"]
  BY <1>2 DEF fetch
<1> QED
  BY <1>1, <1>3 DEF step, fast_op

--------------------------------------------------------------------------------
\* Transactions and ticks

\* Every transaction of a fabric completes within a tick of the last one issued, which
\* was issued by now.
Timely(f, now) ==
    \A k \in 1 .. Len(f.pending) : f.cur <= now /\ f.pending[k] <= f.cur + CyclesPerTick

\* The instruction does not move so much that the transaction outlasts a tick.
ShortTransfer(w) == latency_for(Axi, Transfer(Decode[w])) <= CyclesPerTick

\* issue() of a short transfer, at a time not before the others.
LEMMA IssueTimely ==
    ASSUME NEW f \in Fabric, NEW n \in Nat, latency_for(Axi, n) <= CyclesPerTick,
           NEW now \in Nat, Timely(f, now)
    PROVE  Timely(fabric_issue(f, Axi, n, now), now)
<1> DEFINE e == now + latency_for(Axi, n)
           g == fabric_issue(f, Axi, n, now)
<1>0. /\ latency_for(Axi, n) \in Nat /\ CyclesPerTick \in Nat
      /\ f.pending \in Seq(Nat) /\ f.cur \in Nat /\ e \in Nat
  <2>1. latency_for(Axi, n) \in Nat
    BY LatencyType, MachineAssumption
  <2>2. CyclesPerTick \in Nat /\ f.pending \in Seq(Nat) /\ f.cur \in Nat
    BY IsaAssumption DEF Fabric
  <2> QED
    BY <2>1, <2>2
<1>1. CASE ~IssueAccepted(f, Axi)
  <2>1. g.pending = f.pending /\ g.cur = f.cur
    BY <1>1 DEF fabric_issue, Fabric
  <2> QED
    BY <2>1 DEF Timely
<1>2. CASE IssueAccepted(f, Axi)
  <2>1. g.pending = Append(f.pending, e) /\ g.cur = now
    BY <1>2 DEF fabric_issue, Fabric
  <2>2. /\ Len(g.pending) = Len(f.pending) + 1 /\ g.pending[Len(f.pending) + 1] = e
        /\ Len(f.pending) \in Nat
        /\ \A k \in 1 .. Len(f.pending) : g.pending[k] = f.pending[k] /\ f.pending[k] \in Nat
    <3> DEFINE p == f.pending
    <3>1. p \in Seq(Nat) /\ e \in Nat
      BY <1>0
    <3> HIDE DEF p, e
    <3>2. /\ Len(Append(p, e)) = Len(p) + 1 /\ Append(p, e)[Len(p) + 1] = e
          /\ \A k \in 1 .. Len(p) : Append(p, e)[k] = p[k]
      BY <3>1, AppendProperties
    <3>3. Len(p) \in Nat /\ \A k \in 1 .. Len(p) : p[k] \in Nat
      BY <3>1, LenProperties, ElementOfSeq
    <3> QED
      BY <2>1, <3>2, <3>3 DEF p
  <2> SUFFICES ASSUME NEW k \in 1 .. Len(f.pending) + 1
               PROVE  g.pending[k] <= now + CyclesPerTick
    BY <2>1, <2>2, <1>0 DEF Timely
  <2> HIDE DEF g, e
  <2>3. CASE k = Len(f.pending) + 1
    BY <1>0, <2>2, <2>3 DEF e
  <2>4. CASE k # Len(f.pending) + 1
    <3>1. k \in 1 .. Len(f.pending)
      BY <2>2, <2>4
    <3>2. f.cur <= now /\ f.pending[k] <= f.cur + CyclesPerTick
      BY <3>1 DEF Timely
    <3>3. f.pending[k] \in Nat /\ g.pending[k] = f.pending[k]
      BY <2>2, <3>1
    <3>4. f.cur \in Nat /\ CyclesPerTick \in Nat
      BY <1>0
    <3> QED
      BY <3>2, <3>3, <3>4
  <2> QED
    BY <2>3, <2>4
<1> QED
  BY <1>1, <1>2

\* A tick completes every one of them.
LEMMA TickDrains ==
    ASSUME NEW f \in Fabric, NEW now \in Nat, Timely(f, now)
    PROVE  fabric_tick(f, CyclesPerTick).pending = << >>
<1> DEFINE t == f.cur + CyclesPerTick
           k == DueCount(f.pending, t)
<1>0. t \in Nat /\ f.pending \in Seq(Nat) /\ Len(f.pending) \in Nat
  BY IsaAssumption, LenProperties DEF Fabric
<1>1. k \in 0 .. Len(f.pending) /\ (k < Len(f.pending) => f.pending[k + 1] > t)
  BY <1>0, DueCountProperties
<1>2. fabric_tick(f, CyclesPerTick).pending = SubSeq(f.pending, k + 1, Len(f.pending))
  BY DEF fabric_tick, Fabric
<1> HIDE DEF k
<1>3. k = Len(f.pending)
  <2> SUFFICES ASSUME k < Len(f.pending) PROVE FALSE
    BY <1>0, <1>1
  <2>1. k + 1 \in 1 .. Len(f.pending) /\ f.pending[k + 1] > t
    BY <1>0, <1>1
  <2>2. f.pending[k + 1] <= t /\ f.pending[k + 1] \in Nat
    BY <1>0, <2>1, ElementOfSeq DEF Timely
  <2> QED
    BY <1>0, <2>1, <2>2
<1> QED
  BY <1>0, <1>2, <1>3, SubSeqProperties, EmptySeq

\* Time passing keeps the transactions timely.
LEMMA LaterTimely ==
    ASSUME NEW f \in Fabric, NEW now \in Nat, NEW later \in Nat, now <= later, Timely(f, now)
    PROVE  Timely(f, later)
<1>1. f.cur \in Nat
  BY DEF Fabric
<1> QED
  BY <1>1 DEF Timely

\* An instruction with the tick that follows it, if one does: it empties the fabric.
LEMMA TickedTimely ==
    ASSUME NEW c \in CoreState, NEW w \in Word, ShortTransfer(w), Timely(c.axi, c.prof.cycles)
    PROVE  LET d == Ticked(execute(c, w)).m
           IN  Timely(d.axi, d.prof.cycles) /\ (d.accum < c.accum => d.axi.pending = << >>)
<1> DEFINE r == execute(c, w)
           x == r.m
           d == Ticked(r).m
           i == Decode[w]
<1> SUFFICES Timely(d.axi, d.prof.cycles) /\ (d.accum < c.accum => d.axi.pending = << >>)
  OBVIOUS
<1>1. ExecutedAs(r, c, i) /\ x \in CoreState
  BY ExecuteFrame, ExecuteGood
<1> HIDE DEF r
<1>2. d = tick_peripherals(x) \/ d = x
  BY DEF Ticked
<1>3. /\ c.axi \in Fabric /\ x.axi \in Fabric /\ c.prof.cycles \in Nat /\ x.prof.cycles \in Nat
      /\ c.accum \in Nat /\ x.accum \in Nat /\ CyclesPerTick \in Nat
  BY <1>1, IsaAssumption DEF CoreState, Profile
<1>4. c.accum <= x.accum /\ c.prof.cycles <= x.prof.cycles
  <2>1. Advanced(x, c, i)
    BY <1>1 DEF ExecutedAs
  <2> QED
    BY <1>3, <2>1 DEF Advanced
<1>5. Timely(x.axi, c.prof.cycles)
  <2>1. x.axi = c.axi \/ x.axi = fabric_issue(c.axi, Axi, Transfer(i), c.prof.cycles)
    BY <1>1 DEF ExecutedAs
  <2>2. Transfer(i) \in Nat /\ latency_for(Axi, Transfer(i)) <= CyclesPerTick
    <3>1. i.imm \in Nat
      BY DecodeAssumption, IsaAssumption DEF WellFormed, Instruction, Word
    <3> QED
      BY <3>1 DEF Transfer, ShortTransfer
  <2>3. Timely(fabric_issue(c.axi, Axi, Transfer(i), c.prof.cycles), c.prof.cycles)
    BY <1>3, <2>2, IssueTimely
  <2> QED
    BY <2>1, <2>3
<1>6. Timely(x.axi, x.prof.cycles)
  BY <1>3, <1>4, <1>5, LaterTimely
<1> HIDE DEF x, d
<1>7. CASE d = x
  BY <1>3, <1>4, <1>6, <1>7
<1>8. CASE d = tick_peripherals(x)
  <2>1. /\ d.prof = x.prof
        /\ \/ d.axi = x.axi /\ d.accum = x.accum
           \/ d.axi = fabric_tick(x.axi, CyclesPerTick)
    BY <1>1, <1>8, TickFrame
  <2>2. CASE d.axi = x.axi /\ d.accum = x.accum
    BY <1>3, <1>4, <1>6, <2>1, <2>2
  <2>3. CASE d.axi = fabric_tick(x.axi, CyclesPerTick)
    <3>1. d.axi.pending = << >>
      BY <1>3, <1>6, <2>3, TickDrains
    <3>2. Len(d.axi.pending) = 0
      BY <3>1
    <3>3. Timely(d.axi, d.prof.cycles)
      BY <3>2 DEF Timely
    <3> QED
      BY <3>1, <3>3
  <2> QED
    BY <2>1, <2>2, <2>3
<1> QED
  BY <1>2, <1>7, <1>8

\* A whole call of step().
LEMMA StepTimely ==
    ASSUME NEW c \in CoreState, ~c.halt, ShortTransfer(FetchedWord(c)),
           Timely(c.axi, c.prof.cycles)
    PROVE  LET d == step(c).m
           IN  Timely(d.axi, d.prof.cycles) /\ (d.accum < c.accum => d.axi.pending = << >>)
<1> DEFINE e == enter_interrupt(c)
           f == fetch(e)
           g == f.m
<1>1. e \in CoreState /\ Carried(e, c)
  BY EnterInterruptType, EnterFrame DEF Same
<1>2. step(c) = IF f.end = "ok" THEN Ticked(execute(g, f.word)) ELSE Throw(g)
  BY DEF step
<1>3. ShortTransfer(f.word)
  BY DEF FetchedWord
<1> HIDE DEF e
<1>4. g \in CoreState /\ f.word \in Word /\ Carried(g, e)
  BY <1>1, FetchGood, FetchFrame DEF Same
<1> HIDE DEF f
<1>5. g.axi = c.axi /\ g.prof = c.prof /\ g.accum = c.accum
  BY <1>1, <1>4 DEF Carried
<1>6. CASE f.end = "ok"
  <2>1. LET d == Ticked(execute(g, f.word)).m
        IN  Timely(d.axi, d.prof.cycles) /\ (d.accum < g.accum => d.axi.pending = << >>)
    BY <1>4, <1>5, <1>3, TickedTimely
  <2> QED
    BY <1>2, <1>5, <1>6, <2>1
<1>7. CASE f.end # "ok"
  <2>1. step(c).m = g
    BY <1>2, <1>7 DEF Throw
  <2>2. c.accum \in Nat
    BY DEF CoreState
  <2> QED
    BY <1>5, <2>1, <2>2
<1> QED
  BY <1>6, <1>7

--------------------------------------------------------------------------------
\* What the handlers compute

\* No handler of straight-line code touches these.
Kept(d, c) ==
    /\ d.pc = c.pc /\ d.halt = c.halt /\ d.mmu = c.mmu /\ d.target = c.target
    /\ d.csr = c.csr /\ d.mip = c.mip

\* What the destination of a register operation becomes.
Computed(c, i) ==
    CASE i.op = "ADD"  -> Plus(read_gpr(c, i.ra), read_gpr(c, i.rb))
      [] i.op = "SUB"  -> Minus(read_gpr(c, i.ra), read_gpr(c, i.rb))
      [] i.op = "MUL"  -> Times(read_gpr(c, i.ra), read_gpr(c, i.rb))
      [] i.op = "MOVI" -> i.imm

\* ADD, SUB, MUL and MOVI write their destination, and flags no program here reads.
LEMMA RegisterEffect ==
    ASSUME NEW c \in CoreState, NEW i, i.op \in {"ADD", "SUB", "MUL", "MOVI"}
    PROVE  LET r == Handled(c, i)
           IN  /\ r.end = "ok" /\ r.cycles = cycle_weight(i.op, 0)
               /\ r.m.gpr = write_gpr(c.gpr, i.rd, Computed(c, i))
               /\ Kept(r.m, c) /\ r.m.prof = c.prof /\ r.m.axi = c.axi
               /\ r.m.vr = c.vr /\ r.m.mem = c.mem /\ r.m.ram = c.ram
<1>1. \A v, o : LET r == Arith(c, i, v, o)
                IN  /\ r.end = "ok" /\ r.cycles = cycle_weight(i.op, 0)
                    /\ r.m.gpr = write_gpr(c.gpr, i.rd, v)
                    /\ Kept(r.m, c) /\ r.m.prof = c.prof /\ r.m.axi = c.axi
                    /\ r.m.vr = c.vr /\ r.m.mem = c.mem /\ r.m.ram = c.ram
  <2> SUFFICES ASSUME NEW v, NEW o
               PROVE  LET r == Arith(c, i, v, o)
                      IN  /\ r.end = "ok" /\ r.cycles = cycle_weight(i.op, 0)
                          /\ r.m.gpr = write_gpr(c.gpr, i.rd, v)
                          /\ Kept(r.m, c) /\ r.m.prof = c.prof /\ r.m.axi = c.axi
                          /\ r.m.vr = c.vr /\ r.m.mem = c.mem /\ r.m.ram = c.ram
    OBVIOUS
  <2> DEFINE g == write_gpr(c.gpr, i.rd, v)
             d == [[c EXCEPT !.gpr = g, !.overflow = o]
                     EXCEPT !.zero = (v = 0), !.negative = Negative(v), !.overflow = FALSE]
  <2>2. Arith(c, i, v, o) = Ok(d, cycle_weight(i.op, 0))
    BY Zenon DEF Arith, update_flags_u32
  <2>4. PICK z, s : d = [[c EXCEPT !.gpr = g, !.overflow = o]
                            EXCEPT !.zero = z, !.negative = s, !.overflow = FALSE]
    BY Zenon
  <2> HIDE DEF d, g
  <2>3. /\ d.gpr = g /\ Kept(d, c) /\ d.prof = c.prof /\ d.axi = c.axi
        /\ d.vr = c.vr /\ d.mem = c.mem /\ d.ram = c.ram
    BY <2>4 DEF Kept, CoreState
  <2> QED
    BY <2>2, <2>3 DEF Ok, g
<1>2. CASE i.op = "ADD"
  BY <1>1, <1>2 DEF Handled, op_add, Computed
<1>3. CASE i.op = "SUB"
  BY <1>1, <1>3 DEF Handled, op_sub, Computed
<1>4. CASE i.op = "MUL"
  BY <1>1, <1>4 DEF Handled, op_mul, Computed
<1>5. CASE i.op = "MOVI"
  BY <1>5 DEF Handled, op_movi, Computed, Ok, Kept, CoreState
<1> QED
  BY <1>2, <1>3, <1>4, <1>5

\* NOP does nothing, and HALT only halts.
LEMMA IdleEffect ==
    ASSUME NEW c \in CoreState, NEW i, i.op \in {"NOP", "HALT"}
    PROVE  LET r == Handled(c, i)
           IN  /\ r.end = "ok" /\ r.cycles = cycle_weight(i.op, 0)
               /\ r.m = IF i.op = "NOP" THEN c ELSE [c EXCEPT !.halt = TRUE]
BY DEF Handled, op_nop, op_halt, Ok, cycle_weight, DmaOps

\* The branches move the program counter when they are taken.
BranchTaken(c, i) ==
    IF i.op = "BEQ" THEN read_gpr(c, i.rd) = read_gpr(c, i.ra)
    ELSE read_gpr(c, i.rd) # read_gpr(c, i.ra)

LEMMA BranchEffect ==
    ASSUME NEW c \in CoreState, NEW i, i.op \in {"BEQ", "BNE"}
    PROVE  LET r == Handled(c, i)
           IN  /\ r.end = "ok"
               /\ BranchTaken(c, i) =>
                     /\ r.m = [c EXCEPT !.pc = Plus(c.pc, i.imm)] /\ r.cycles = 3
               /\ ~BranchTaken(c, i) => r.m = c /\ r.cycles = 2
<1>1. cycle_weight(i.op, 0) = 2
  BY DEF cycle_weight, DmaOps
<1>2. CASE i.op = "BEQ"
  BY <1>1, <1>2 DEF Handled, op_beq, Branch, Ok, BranchTaken
<1>3. CASE i.op = "BNE"
  BY <1>1, <1>3 DEF Handled, op_bne, Branch, Ok, BranchTaken
<1> QED
  BY <1>2, <1>3

\* LOAD and STORE of plain memory without translation.
LEMMA MemoryEffect ==
    ASSUME NEW c \in CoreState, NEW i, i.op \in {"LOAD", "STORE"}, ~c.mmu,
           EffectiveAddress(c, i) \in Addr \ DOMAIN Mmio
    PROVE  LET r == Handled(c, i)
               a == EffectiveAddress(c, i)
           IN  /\ r.end = "ok" /\ Kept(r.m, c) /\ r.m.prof = c.prof
               /\ r.m.vr = c.vr /\ r.m.ram = c.ram
               /\ i.op = "LOAD" =>
                     r.m.gpr = write_gpr(c.gpr, i.rd, c.mem[a]) /\ r.m.mem = c.mem
               /\ i.op = "STORE" =>
                     r.m.mem = [c.mem EXCEPT ![a] = read_gpr(c, i.rd)] /\ r.m.gpr = c.gpr
<1> DEFINE a == EffectiveAddress(c, i)
           q == AxiWord(c)
           v == read_gpr(c, i.rd)
<1>1. ~Faults(c, a, "R") /\ ~Faults(c, a, "W") /\ Physical(c, a) = a /\ BusMapped(a)
  BY DEF Faults, Physical, BusMapped
<1>2. /\ Kept(q, c) /\ q.prof = c.prof /\ q.vr = c.vr /\ q.ram = c.ram
      /\ q.mem = c.mem /\ q.gpr = c.gpr /\ q \in CoreState
  BY AxiType DEF AxiWord, Kept, CoreState, Same
<1>3. bus_read(q, a) = q /\ bus_value(q, a) = c.mem[a]
      /\ bus_write(q, a, v) = [q EXCEPT !.mem = [q.mem EXCEPT ![a] = v]]
  BY <1>2 DEF bus_read, bus_value, bus_write
<1> HIDE DEF a, q, v
<1>4. CASE i.op = "LOAD"
  <2> DEFINE g == write_gpr(q.gpr, i.rd, c.mem[a])
             d == [q EXCEPT !.gpr = g]
  <2>1. Handled(c, i) = Ok(d, cycle_weight("LOAD", 0))
    BY <1>1, <1>3, <1>4 DEF Handled, op_load, a, q
  <2>2. g = write_gpr(c.gpr, i.rd, c.mem[a])
    BY <1>2
  <2> HIDE DEF g
  <2>3. /\ Kept(d, q) /\ d.prof = q.prof
        /\ d.vr = q.vr /\ d.ram = q.ram /\ d.mem = q.mem /\ d.gpr = g
    BY <1>2 DEF Kept, CoreState
  <2> HIDE DEF d
  <2>4. Handled(c, i).m = d /\ Handled(c, i).end = "ok"
    BY <2>1 DEF Ok
  <2>5. Kept(d, c)
    BY <1>2, <2>3 DEF Kept
  <2> QED
    BY <1>2, <1>4, <2>2, <2>3, <2>4, <2>5 DEF a
<1>5. CASE i.op = "STORE"
  <2> DEFINE f == [q.mem EXCEPT ![a] = v]
  <2>1. Handled(c, i) = Ok([q EXCEPT !.mem = f], cycle_weight("STORE", 0))
    BY <1>1, <1>3, <1>5 DEF Handled, op_store, a, q, v
  <2>2. f = [c.mem EXCEPT ![a] = v]
    BY <1>2
  <2> HIDE DEF f
  <2> DEFINE d == [q EXCEPT !.mem = f]
  <2>3. /\ Kept(d, q) /\ d.prof = q.prof
        /\ d.vr = q.vr /\ d.ram = q.ram /\ d.mem = f /\ d.gpr = q.gpr
    BY <1>2 DEF Kept, CoreState
  <2> HIDE DEF d
  <2>4. Handled(c, i).m = d /\ Handled(c, i).end = "ok"
    BY <2>1 DEF Ok, d
  <2>5. Kept(d, c)
    BY <1>2, <2>3 DEF Kept
  <2> QED
    BY <1>2, <1>5, <2>2, <2>3, <2>4, <2>5 DEF a, v
<1> QED
  BY <1>4, <1>5 DEF a

\* Vector loads and stores of addresses in the scratchpad.
LEMMA VectorMemoryEffect ==
    ASSUME NEW c \in CoreState, NEW i, i.op \in {"LOAD_VR", "STORE_VR"},
           EffectiveAddress(c, i) \in Addr
    PROVE  LET r == Handled(c, i)
               a == EffectiveAddress(c, i)
           IN  /\ r.end = "ok" /\ r.cycles = 5 /\ Kept(r.m, c)
               /\ r.m.prof = c.prof /\ r.m.axi = c.axi /\ r.m.gpr = c.gpr /\ r.m.ram = c.ram
               /\ i.op = "LOAD_VR" =>
                     r.m.vr = [c.vr EXCEPT ![i.rd] = c.mem[a]] /\ r.m.mem = c.mem
               /\ i.op = "STORE_VR" =>
                     r.m.mem = [c.mem EXCEPT ![a] = c.vr[i.rd]] /\ r.m.vr = c.vr
<1>1. cycle_weight(i.op, 0) = 5
  BY DEF cycle_weight, DmaOps
<1>2. CASE i.op = "LOAD_VR"
  BY <1>1, <1>2 DEF Handled, op_load_vr, Ok, Kept, CoreState
<1>3. CASE i.op = "STORE_VR"
  BY <1>1, <1>3 DEF Handled, op_store_vr, Ok, Kept, CoreState
<1> QED
  BY <1>2, <1>3

\* The kernels, the tile in range.
LEMMA KernelEffect ==
    ASSUME NEW c \in CoreState, NEW i, i.op \in {"VEC_ADD", "MATMUL_TILE"},
           i.op = "MATMUL_TILE" => i.imm % 16 # 0 /\ ~(i.imm % 16 > TileSize)
    PROVE  LET r == Handled(c, i)
           IN  /\ r.end = "ok" /\ Kept(r.m, c)
               /\ r.m.prof = c.prof /\ r.m.axi = c.axi /\ r.m.gpr = c.gpr
               /\ r.m.ram = c.ram /\ r.m.mem = c.mem
               /\ i.op = "VEC_ADD" =>
                     /\ r.cycles = profile_cycle_weight(c.target, "VEC_ADD", 0)
                     /\ r.m.vr = [c.vr EXCEPT ![i.rd] = Plus(c.vr[i.ra], c.vr[i.rb])]
               /\ i.op = "MATMUL_TILE" =>
                     /\ r.cycles = profile_cycle_weight(c.target, "MATMUL_TILE", i.imm % 16)
                     /\ r.m.vr = [c.vr EXCEPT ![i.rd] = Times(c.vr[i.ra], c.vr[i.rb])]
<1>1. CASE i.op = "VEC_ADD"
  BY <1>1 DEF Handled, op_vec_add, vec_add_host, Ok, Kept, CoreState
<1>2. CASE i.op = "MATMUL_TILE"
  <2> DEFINE n == i.imm % 16
             f == [c.vr EXCEPT ![i.rd] = Times(c.vr[i.ra], c.vr[i.rb])]
             k == profile_cycle_weight(c.target, "MATMUL_TILE", n)
  <2>1. n # 0 /\ ~(n > TileSize)
    BY <1>2
  <2>2. Handled(c, i) = Ok([c EXCEPT !.vr = f], k)
    <3>1. Handled(c, i) = op_matmul_tile(c, i)
      BY <1>2 DEF Handled
    <3> HIDE DEF n
    <3> QED
      BY <2>1, <3>1 DEF op_matmul_tile, matmul_tile_host, n
  <2> HIDE DEF f, k
  <2>3. LET r == Ok([c EXCEPT !.vr = f], k)
        IN  /\ r.end = "ok" /\ r.cycles = k /\ Kept(r.m, c) /\ r.m.prof = c.prof /\ r.m.axi = c.axi
            /\ r.m.gpr = c.gpr /\ r.m.ram = c.ram /\ r.m.mem = c.mem /\ r.m.vr = f
    BY DEF Ok, Kept, CoreState
  <2> QED
    BY <1>2, <2>2, <2>3 DEF f, k
<1> QED
  BY <1>1, <1>2

\* The DMA handlers without translation, both blocks inside their memories.
LEMMA DmaEffect ==
    ASSUME NEW c \in CoreState, NEW i, i.op \in DmaOps, i.imm \in Nat, ~c.mmu,
           NEW d \in Nat, NEW s \in Nat, d = read_gpr(c, i.rd), s = read_gpr(c, i.ra),
           IF i.op = "DMA_LOAD" THEN d + i.imm <= MemSize /\ s + i.imm <= RamSize
           ELSE d + i.imm <= RamSize /\ s + i.imm <= MemSize
    PROVE  LET r == Handled(c, i)
           IN  /\ r.end = "ok" /\ Kept(r.m, c)
               /\ r.cycles = profile_cycle_weight(c.target, i.op, i.imm)
               /\ r.m.axi = fabric_issue(c.axi, Axi, i.imm, c.prof.cycles)
               /\ r.m.gpr = c.gpr /\ r.m.vr = c.vr
               /\ i.op = "DMA_STORE" \/ IssueAccepted(c.axi, Axi) => r.m.prof = c.prof
               /\ i.op = "DMA_LOAD" =>
                     r.m.mem = Copied(c.mem, d, c.ram, s, i.imm) /\ r.m.ram = c.ram
               /\ i.op = "DMA_STORE" =>
                     r.m.ram = Copied(c.ram, d, c.mem, s, i.imm) /\ r.m.mem = c.mem
<1> DEFINE n == i.imm
           k == profile_cycle_weight(c.target, i.op, n)
           f == fabric_issue(c.axi, Axi, n, c.prof.cycles)
           p == IF IssueAccepted(c.axi, Axi) THEN c.prof ELSE record(c.prof, 1, 0)
<1>1. \A a, x : ~Faults(c, a, x) /\ Physical(c, a) = a
  BY DEF Faults, Physical
<1>2. \A a \in Nat, size \in 1 .. WordCount : a + n <= size => ~OutOfBounds(a, n, size)
  <2> SUFFICES ASSUME NEW a \in Nat, NEW size \in 1 .. WordCount, a + n <= size
               PROVE  ~OutOfBounds(a, n, size)
    OBVIOUS
  <2>1. a + n \in 0 .. WordCount /\ WordCount \in Nat \ {0}
    BY IsaAssumption
  <2>2. \A t \in 0 .. WordCount : t % WordCount <= t
    BY <2>1
  <2> QED
    BY <2>1, <2>2 DEF OutOfBounds, Plus
<1>3. MemSize \in 1 .. WordCount /\ RamSize \in 1 .. WordCount
  BY MachineAssumption
<1>6. /\ Physical(c, read_gpr(c, i.rd)) = d /\ Physical(c, read_gpr(c, i.ra)) = s
      /\ \A x : ~Faults(c, read_gpr(c, i.rd), x) /\ ~Faults(c, read_gpr(c, i.ra), x)
  BY <1>1
<1> HIDE DEF n
<1>4. CASE i.op = "DMA_LOAD"
  <2> DEFINE m == Copied(c.mem, d, c.ram, s, n)
  <2>1. /\ ~OutOfBounds(d, n, MemSize) /\ ~OutOfBounds(s, n, RamSize)
        /\ ~(d + n > MemSize) /\ ~(s + n > RamSize)
    BY <1>2, <1>3, <1>4 DEF n
  <2>2. Handled(c, i) = Ok([c EXCEPT !.axi = f, !.prof = p, !.mem = m], k)
    <3>1. Handled(c, i) = op_dma_load(c, i)
      BY <1>4 DEF Handled
    <3> QED
      BY <1>4, <1>6, <2>1, <3>1 DEF op_dma_load, n
  <2> HIDE DEF m, f, p, k
  <2>3. LET r == Ok([c EXCEPT !.axi = f, !.prof = p, !.mem = m], k)
        IN  /\ r.end = "ok" /\ r.cycles = k /\ Kept(r.m, c) /\ r.m.prof = p /\ r.m.axi = f
            /\ r.m.gpr = c.gpr /\ r.m.vr = c.vr /\ r.m.ram = c.ram /\ r.m.mem = m
    BY DEF Ok, Kept, CoreState
  <2> QED
    BY <1>4, <2>2, <2>3 DEF f, k, p, m, n
<1>5. CASE i.op = "DMA_STORE"
  <2> DEFINE m == Copied(c.ram, d, c.mem, s, n)
  <2>1. /\ ~OutOfBounds(d, n, RamSize) /\ ~OutOfBounds(s, n, MemSize)
        /\ ~(d + n > RamSize) /\ ~(s + n > MemSize)
    BY <1>2, <1>3, <1>5 DEF n
  <2>2. Handled(c, i) = Ok([c EXCEPT !.axi = f, !.ram = m], k)
    <3>1. Handled(c, i) = op_dma_store(c, i)
      BY <1>5 DEF Handled
    <3> QED
      BY <1>5, <1>6, <2>1, <3>1 DEF op_dma_store, n
  <2> HIDE DEF m, f, k
  <2>3. LET r == Ok([c EXCEPT !.axi = f, !.ram = m], k)
        IN  /\ r.end = "ok" /\ r.cycles = k /\ Kept(r.m, c) /\ r.m.prof = c.prof /\ r.m.axi = f
            /\ r.m.gpr = c.gpr /\ r.m.vr = c.vr /\ r.m.mem = c.mem /\ r.m.ram = m
    BY DEF Ok, Kept, CoreState
  <2> QED
    BY <1>5, <2>2, <2>3 DEF f, k, m, n
<1> QED
  BY <1>4, <1>5 DEF DmaOps

\* The accounting and the ticks behind a handler touch neither registers nor memories,
\* and the fabric only loses transactions.
LEMMA RetiredTicked ==
    ASSUME NEW d \in CoreState, NEW i, i.imm \in Nat, NEW n \in Nat
    PROVE  LET e == tick_peripherals(Retired(d, i, n))
           IN  /\ e \in CoreState
               /\ e.pc = d.pc /\ e.halt = d.halt /\ e.mmu = d.mmu /\ e.target = d.target
               /\ e.gpr = d.gpr /\ e.vr = d.vr /\ e.mem = d.mem /\ e.ram = d.ram
               /\ e.prof.cycles = d.prof.cycles + n
               /\ Len(e.axi.pending) <= Len(d.axi.pending)
<1> DEFINE b == IF i.op \in DmaOps THEN i.imm ELSE 0
           p == record(d.prof, n, b)
           x == Retired(d, i, n)
           e == tick_peripherals(x)
<1>1. p \in Profile /\ d.accum + n \in Nat
  <2>1. b \in Nat /\ d.prof \in Profile /\ d.accum \in Nat
    BY DEF CoreState
  <2> HIDE DEF b
  <2> QED
    BY <2>1, RecordType
<1>2. x = [d EXCEPT !.prof = p, !.accum = d.accum + n]
  BY DEF Retired
<1> HIDE DEF b, p
<1>3. /\ x \in CoreState /\ x.target = d.target
      /\ x.pc = d.pc /\ x.mmu = d.mmu /\ x.halt = d.halt /\ x.axi = d.axi
      /\ x.gpr = d.gpr /\ x.vr = d.vr /\ x.mem = d.mem /\ x.ram = d.ram
  BY <1>1, <1>2 DEF CoreState
<1>4. x.prof.cycles = d.prof.cycles + n
  BY RetiredFrame
<1> HIDE DEF x
<1>5. e \in CoreState /\ e.target = x.target
  <2>1. CASE x.accum >= CyclesPerTick
    <3>1. TickOnce(x) \in CoreState
      BY <1>3, <2>1, TickOnceType
    <3>2. TickOnce(x).target = x.target
      BY <1>3 DEF TickOnce, CoreState
    <3> QED
      BY <2>1, <3>1, <3>2 DEF tick_peripherals
  <2>2. CASE ~(x.accum >= CyclesPerTick)
    BY <1>3, <2>2 DEF tick_peripherals
  <2> QED
    BY <2>1, <2>2
<1>6. /\ e.pc = x.pc /\ e.mmu = x.mmu /\ e.halt = x.halt /\ e.prof = x.prof
      /\ e.gpr = x.gpr /\ e.vr = x.vr /\ e.mem = x.mem /\ e.ram = x.ram
      /\ e.axi = x.axi \/ e.axi = fabric_tick(x.axi, CyclesPerTick)
  BY <1>3, TickFrame DEF Preserved
<1> HIDE DEF e
<1>7. Len(e.axi.pending) <= Len(x.axi.pending)
  <2>1. x.axi \in Fabric /\ CyclesPerTick \in Nat
    BY <1>3, IsaAssumption DEF CoreState
  <2>2. Len(x.axi.pending) \in Nat
    BY <2>1, LenProperties DEF Fabric
  <2> QED
    BY <1>6, <2>1, <2>2, FabricTickShortens
<1> QED
  BY <1>3, <1>4, <1>5, <1>6, <1>7 DEF e, x
================================================================================
