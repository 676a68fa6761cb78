--------------------------------- MODULE Machine ---------------------------------
(***************************************************************************)
(* One Novium core: the state an Emulator object keeps for the guest and   *)
(* the functions that change it, from the bus up to step()                 *)
(* (src/emulator.cpp, include/aiasm/bus.h, memory.h, registers.h,          *)
(* profiler.h).  A handler maps a machine to a result: the machine after   *)
(* it, the cycles it returns, and how it ended.  A handler that throws     *)
(* keeps the changes it made before the throw.                             *)
(*                                                                         *)
(* A vector register and its 64 bytes in memory are one word, float        *)
(* arithmetic is word arithmetic, and the host kernels are the scalar      *)
(* loops they replace.  Address translation is the function PageMap; the   *)
(* TLB in front of it is not part of this module.                          *)
(***************************************************************************)
EXTENDS Interrupts, Devices, Interconnect

CONSTANTS
    MemSize,     \* words of scratchpad
    RamSize,     \* words of main RAM
    Mmio,        \* device registers: address -> <<device, register>>
    Axi,         \* configuration of axi_
    PageMap      \* what the MMU answers when it is enabled

Addr == 0 .. MemSize - 1
RamAddr == 0 .. RamSize - 1
Access == {"R", "W", "X"}

ASSUME MachineAssumption ==
    /\ MemSize \in 1 .. WordCount /\ RamSize \in 1 .. WordCount
    /\ DOMAIN Mmio \subseteq Word
    /\ \A a \in DOMAIN Mmio : Mmio[a] \in ({"timer"} \X TimerReg) \cup ({"uart"} \X UartReg)
    /\ Axi \in FabricConfig
    /\ PageMap \in [Word -> [pa : Word, perm : SUBSET Access]]
    /\ \A va \in Word : "X" \in PageMap[va].perm => PageMap[va].pa \in Addr

Profile == [instrs : Nat, cycles : Nat, dma_bytes : Nat, dma_cycles : Nat]

CoreState ==
    [pc : Word, halt : BOOLEAN, gpr : [Gpr -> Word], vr : [Vr -> Word],
     zero : BOOLEAN, negative : BOOLEAN, overflow : BOOLEAN,
     mem : [Addr -> Word], ram : [RamAddr -> Word],
     csr : Csr, mip : SUBSET Line, mmu : BOOLEAN,
     timer : Timer, tx : Seq(Word), axi : Fabric,
     prof : Profile, accum : Nat, target : Target]

--------------------------------------------------------------------------------
\* Register file and profiler

read_gpr(m, r) == IF r = 0 THEN 0 ELSE m.gpr[r]

write_gpr(g, r, v) == [x \in Gpr |-> IF x = 0 THEN 0 ELSE IF x = r THEN v ELSE g[x]]

\* update_flags_u32, which also clears the overflow flag.
update_flags_u32(m, result) ==
    [m EXCEPT !.zero = (result = 0), !.negative = Negative(result), !.overflow = FALSE]

record(p, cycles, bytes) ==
    [instrs |-> p.instrs + 1,
     cycles |-> p.cycles + cycles,
     dma_bytes |-> p.dma_bytes + bytes,
     dma_cycles |-> IF bytes > 0 THEN p.dma_cycles + cycles ELSE p.dma_cycles]

ZeroProfile == [instrs |-> 0, cycles |-> 0, dma_bytes |-> 0, dma_cycles |-> 0]

--------------------------------------------------------------------------------
\* Results

Outcome == {"ok", "throw", "crash"}

Ok(m, cycles) == [m |-> m, cycles |-> cycles, end |-> "ok"]
Throw(m) == [m |-> m, cycles |-> 0, end |-> "throw"]

\* An access outside the backing store: the process faults.
Crash(m) == [m |-> m, cycles |-> 0, end |-> "crash"]

--------------------------------------------------------------------------------
\* Bus: devices first, then the scratchpad, whose bounds check throws

BusMapped(a) == a \in DOMAIN Mmio \/ a \in Addr

bus_value(m, a) ==
    IF a \in DOMAIN Mmio
    THEN IF Mmio[a][1] = "timer" THEN timer_value(m.timer, Mmio[a][2])
         ELSE uart_value(Mmio[a][2])
    ELSE m.mem[a]

\* The machine after read32(a).
bus_read(m, a) ==
    IF a \in DOMAIN Mmio /\ Mmio[a][1] = "timer"
    THEN [m EXCEPT !.timer = timer_read(@, Mmio[a][2])]
    ELSE m

bus_write(m, a, v) ==
    IF a \in DOMAIN Mmio
    THEN IF Mmio[a][1] = "timer" THEN [m EXCEPT !.timer = timer_write(@, Mmio[a][2], v)]
         ELSE [m EXCEPT !.tx = uart_write(@, Mmio[a][2], v)]
    ELSE [m EXCEPT !.mem = [@ EXCEPT ![a] = v]]

--------------------------------------------------------------------------------
\* Traps and translation

Faults(m, va, access) == m.mmu /\ access \notin PageMap[va].perm

Physical(m, va) == IF m.mmu THEN PageMap[va].pa ELSE va

\* take_trap followed by the jump to the trap vector.
Redirect(m, t) == [m EXCEPT !.csr = take_trap(@, t), !.pc = m.csr.mtvec]

\* Mutant of PageFault: MEPC is the address after the faulting instruction.
PageFault_NextPc(m, va, is_store) ==
    Ok(Redirect(m, page_fault_trap(m.pc, va, is_store)), 2)

\* The two cycles a faulting handler returns after redirecting.
PageFault(m, va, is_store) ==
    Ok(Redirect(m, page_fault_trap(Minus(m.pc, 1), va, is_store)), 2)

\* The interrupt check at the head of step().
enter_interrupt(m) ==
    IF HasInterrupt(m.csr, m.mip)
    THEN LET t == pending_interrupt(m.csr, m.mip)
         IN  [m EXCEPT !.csr = take_trap(@, t),
                       !.pc = IF m.csr.vectored THEN Plus(m.csr.mtvec, VectorIndex(t.cause))
                              ELSE m.csr.mtvec]
    ELSE m

--------------------------------------------------------------------------------
\* Instruction handlers; the program counter is already past the instruction

op_nop(m, i) == Ok(m, cycle_weight("NOP", 0))

op_halt(m, i) == Ok([m EXCEPT !.halt = TRUE], 0)

op_jmp(m, i) == Ok([m EXCEPT !.pc = i.imm], cycle_weight("JMP", 0))

Branch(m, i, taken) ==
    IF taken THEN Ok([m EXCEPT !.pc = Plus(@, i.imm)], cycle_weight(i.op, 0) + 1)
    ELSE Ok(m, cycle_weight(i.op, 0))

op_beq(m, i) == Branch(m, i, read_gpr(m, i.rd) = read_gpr(m, i.ra))

op_bne(m, i) == Branch(m, i, read_gpr(m, i.rd) # read_gpr(m, i.ra))

\* The destination, the overflow flag and then the flags of the result.
Arith(m, i, result, overflow) ==
    Ok(update_flags_u32([m EXCEPT !.gpr = write_gpr(@, i.rd, result), !.overflow = overflow],
                        result),
       cycle_weight(i.op, 0))

AddOverflows(a, b) ==
    Negative(a) = Negative(b) /\ Negative(a) # Negative(Plus(a, b))

SubOverflows(a, b) ==
    Negative(a) # Negative(b) /\ Negative(a) # Negative(Minus(a, b))

op_add(m, i) ==
    LET a == read_gpr(m, i.ra)
        b == read_gpr(m, i.rb)
    IN  Arith(m, i, Plus(a, b), AddOverflows(a, b))

op_sub(m, i) ==
    LET a == read_gpr(m, i.ra)
        b == read_gpr(m, i.rb)
    IN  Arith(m, i, Minus(a, b), SubOverflows(a, b))

op_mul(m, i) ==
    Arith(m, i, Times(read_gpr(m, i.ra), read_gpr(m, i.rb)), FALSE)

EffectiveAddress(m, i) == Plus(read_gpr(m, i.ra), i.imm)

\* One word over the AXI fabric; a full fabric is not waited for.
AxiWord(m) == [m EXCEPT !.axi = fabric_issue(@, Axi, 1, m.prof.cycles)]

op_load(m, i) ==
    LET va == EffectiveAddress(m, i)
        pa == Physical(m, va)
        q == AxiWord(m)
    IN  IF Faults(m, va, "R") THEN PageFault(m, va, FALSE)
        ELSE IF ~BusMapped(pa) THEN Throw(q)
        ELSE Ok([bus_read(q, pa) EXCEPT !.gpr = write_gpr(@, i.rd, bus_value(q, pa))],
                cycle_weight("LOAD", 0))

op_store(m, i) ==
    LET va == EffectiveAddress(m, i)
        pa == Physical(m, va)
        q == AxiWord(m)
    IN  IF Faults(m, va, "W") THEN PageFault(m, va, TRUE)
        ELSE IF ~BusMapped(pa) THEN Throw(q)
        ELSE Ok(bus_write(q, pa, read_gpr(m, i.rd)), cycle_weight("STORE", 0))

op_mov(m, i) ==
    Ok([m EXCEPT !.gpr = write_gpr(@, i.rd, read_gpr(m, i.ra))], cycle_weight("MOV", 0))

op_movi(m, i) ==
    Ok([m EXCEPT !.gpr = write_gpr(@, i.rd, i.imm)], cycle_weight("MOVI", 0))

\* Vector loads and stores bypass the MMU and the bus.
op_load_vr(m, i) ==
    LET a == EffectiveAddress(m, i)
    IN  IF a \in Addr
        THEN Ok([m EXCEPT !.vr = [@ EXCEPT ![i.rd] = m.mem[a]]], cycle_weight("LOAD_VR", 0))
        ELSE Throw(m)

op_store_vr(m, i) ==
    LET a == EffectiveAddress(m, i)
    IN  IF a \in Addr
        THEN Ok([m EXCEPT !.mem = [@ EXCEPT ![a] = m.vr[i.rd]]], cycle_weight("STORE_VR", 0))
        ELSE Throw(m)

\* The kernels, accelerated or not, on registers of one word; the tile has one
\* element, so that a destination that is also a source is overwritten last.
vec_add_host(a, b) == Plus(a, b)
matmul_tile_host(a, b) == Times(a, b)

op_vec_add(m, i) ==
    Ok([m EXCEPT !.vr = [@ EXCEPT ![i.rd] = vec_add_host(m.vr[i.ra], m.vr[i.rb])]],
       profile_cycle_weight(m.target, "VEC_ADD", 0))

op_matmul_tile(m, i) ==
    LET n == i.imm % 16
    IN  IF n = 0 \/ n > TileSize THEN Throw(m)
        ELSE Ok([m EXCEPT !.vr = [@ EXCEPT ![i.rd] = matmul_tile_host(m.vr[i.ra], m.vr[i.rb])]],
                profile_cycle_weight(m.target, "MATMUL_TILE", n))

\* The bounds check of the DMA handlers adds in 32 bits.
OutOfBounds(a, n, size) == Plus(a, n) > size

\* A copy of n words of src from s on to address d of dst.
Copied(dst, d, src, s, n) ==
    [a \in DOMAIN dst |-> IF a \in d .. d + n - 1 THEN src[s + a - d] ELSE dst[a]]

op_dma_load(m, i) ==
    LET vdest == read_gpr(m, i.rd)
        vsrc == read_gpr(m, i.ra)
        dest == Physical(m, vdest)
        src == Physical(m, vsrc)
        n == i.imm
        p == IF IssueAccepted(m.axi, Axi) THEN m.prof ELSE record(m.prof, 1, 0)
    IN  IF Faults(m, vdest, "W") THEN PageFault(m, vdest, TRUE)
        ELSE IF Faults(m, vsrc, "R") THEN PageFault(m, vsrc, FALSE)
        ELSE IF OutOfBounds(dest, n, MemSize) \/ OutOfBounds(src, n, RamSize) THEN Throw(m)
        ELSE IF dest + n > MemSize \/ src + n > RamSize THEN Crash(m)
        ELSE Ok([m EXCEPT !.axi = fabric_issue(@, Axi, n, m.prof.cycles),
                          !.prof = p,
                          !.mem = Copied(@, dest, m.ram, src, n)],
                profile_cycle_weight(m.target, "DMA_LOAD", n))

op_dma_store(m, i) ==
    LET vdest == read_gpr(m, i.rd)
        vsrc == read_gpr(m, i.ra)
        dest == Physical(m, vdest)
        src == Physical(m, vsrc)
        n == i.imm
    IN  IF Faults(m, vdest, "W") THEN PageFault(m, vdest, TRUE)
        ELSE IF Faults(m, vsrc, "R") THEN PageFault(m, vsrc, TRUE)
        ELSE IF OutOfBounds(dest, n, RamSize) \/ OutOfBounds(src, n, MemSize) THEN Throw(m)
        ELSE IF dest + n > RamSize \/ src + n > MemSize THEN Crash(m)
        ELSE Ok([m EXCEPT !.axi = fabric_issue(@, Axi, n, m.prof.cycles),
                          !.ram = Copied(@, dest, m.mem, src, n)],
                profile_cycle_weight(m.target, "DMA_STORE", n))

\* The dispatch table.
Handled(m, i) ==
    CASE i.op = "NOP"         -> op_nop(m, i)
      [] i.op = "HALT"        -> op_halt(m, i)
      [] i.op = "JMP"         -> op_jmp(m, i)
      [] i.op = "BEQ"         -> op_beq(m, i)
      [] i.op = "BNE"         -> op_bne(m, i)
      [] i.op = "ADD"         -> op_add(m, i)
      [] i.op = "SUB"         -> op_sub(m, i)
      [] i.op = "MUL"         -> op_mul(m, i)
      [] i.op = "LOAD"        -> op_load(m, i)
      [] i.op = "STORE"       -> op_store(m, i)
      [] i.op = "MOV"         -> op_mov(m, i)
      [] i.op = "MOVI"        -> op_movi(m, i)
      [] i.op = "LOAD_VR"     -> op_load_vr(m, i)
      [] i.op = "STORE_VR"    -> op_store_vr(m, i)
      [] i.op = "VEC_ADD"     -> op_vec_add(m, i)
      [] i.op = "MATMUL_TILE" -> op_matmul_tile(m, i)
      [] i.op = "DMA_LOAD"    -> op_dma_load(m, i)
      [] i.op = "DMA_STORE"   -> op_dma_store(m, i)

--------------------------------------------------------------------------------
\* The pipeline: fetch, execute, tick

\* Mutant of Retired: the accumulator is charged the default weight.
Retired_DefaultWeight(m, i, cycles) ==
    [m EXCEPT !.prof = record(@, cycles, IF i.op \in DmaOps THEN i.imm ELSE 0),
              !.accum = @ + cycle_weight(i.op, i.imm)]

\* The accounting that follows a handler: the profiler and the tick accumulator.
Retired(m, i, cycles) ==
    [m EXCEPT !.prof = record(@, cycles, IF i.op \in DmaOps THEN i.imm ELSE 0),
              !.accum = @ + cycles]

\* execute(): a word without a handler traps, or throws while MTVEC is 0; its
\* two trap-entry cycles reach neither the profiler nor the accumulator.
execute(m, w) ==
    LET i == Decode[w]
        r == Handled(m, i)
    IN  IF i.op \notin Dispatched
        THEN IF MtvecSet(m.csr)
             THEN Ok(Redirect(m, illegal_inst_trap(Minus(m.pc, 1), w)), 2)
             ELSE Throw(m)
        ELSE IF r.end = "ok" THEN Ok(Retired(r.m, i, r.cycles), r.cycles) ELSE r

\* Mutant of TickOnce: the timer's interrupt is not forwarded.
TickOnce_NoTimerLine(m) ==
    [m EXCEPT !.timer = timer_tick(@, CyclesPerTick),
              !.axi = fabric_tick(@, CyclesPerTick),
              !.accum = @ - CyclesPerTick]

\* One pass of the loop of tick_peripherals.
TickOnce(m) ==
    LET t == timer_tick(m.timer, CyclesPerTick)
    IN  [m EXCEPT !.timer = t,
                  !.mip = IF t.irq_pending THEN @ \cup {"MachineTimer"}
                          ELSE @ \ {"MachineTimer"},
                  !.axi = fabric_tick(@, CyclesPerTick),
                  !.accum = @ - CyclesPerTick]

\* Mutant of tick_peripherals: > for >=.
tick_peripherals_Late(m) == IF m.accum > CyclesPerTick THEN TickOnce(m) ELSE m

\* The loop runs at most once: the accumulator is below a tick between
\* instructions (AccumBelowTick) and no instruction costs a tick (CostAssumption).
tick_peripherals(m) == IF m.accum >= CyclesPerTick THEN TickOnce(m) ELSE m

\* fetch(): the machine after it, the word, and how it ended.  A page fault
\* redirects and hands a NOP (the zero word) to the executor.
fetch(m) ==
    IF Faults(m, m.pc, "X")
    THEN [m |-> Redirect(m, [cause |-> "InstPageFault", tval |-> m.pc, pc |-> m.pc]),
          word |-> 0, end |-> "ok"]
    ELSE IF m.mmu
    THEN [m |-> [m EXCEPT !.pc = Plus(@, 1)], word |-> m.mem[PageMap[m.pc].pa], end |-> "ok"]
    ELSE IF BusMapped(m.pc)
    THEN [m |-> [bus_read(m, m.pc) EXCEPT !.pc = Plus(@, 1)],
          word |-> bus_value(m, m.pc), end |-> "ok"]
    ELSE [m |-> m, word |-> 0, end |-> "throw"]

Ticked(r) == IF r.end = "ok" THEN [r EXCEPT !.m = tick_peripherals(@)] ELSE r

\* Mutant of step: no test of the halt flag.
step_WhileHalted(m) ==
    LET f == fetch(enter_interrupt(m))
    IN  IF f.end = "ok" THEN Ticked(execute(f.m, f.word)) ELSE Throw(f.m)

step(m) ==
    LET f == fetch(enter_interrupt(m))
    IN  IF m.halt THEN Ok(m, 0)
        ELSE IF f.end = "ok" THEN Ticked(execute(f.m, f.word))
        ELSE Throw(f.m)

\* Mutant of fast_op: the peripherals are not ticked.
fast_op_NoTick(m, w) == execute([m EXCEPT !.pc = Plus(@, 1)], w)

\* The body of the loop of run_fast for one decoded operation.
fast_op(m, w) == Ticked(execute([m EXCEPT !.pc = Plus(@, 1)], w))

--------------------------------------------------------------------------------
NewTimer == [count |-> 0, limit |-> 10 * CyclesPerTick, ctrl |-> FALSE, irq_pending |-> FALSE]

\* The constructed emulator: registers, CSRs and memories zero, ASIC target.
NewCore ==
    [pc |-> 0, halt |-> FALSE, gpr |-> [r \in Gpr |-> 0], vr |-> [r \in Vr |-> 0],
     zero |-> FALSE, negative |-> FALSE, overflow |-> FALSE,
     mem |-> [a \in Addr |-> 0], ram |-> [a \in RamAddr |-> 0],
     csr |-> ResetCsr, mip |-> {}, mmu |-> FALSE,
     timer |-> NewTimer, tx |-> << >>, axi |-> EmptyFabric,
     prof |-> ZeroProfile, accum |-> 0, target |-> "ASIC"]
================================================================================
