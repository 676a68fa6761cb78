-------------------------------- MODULE Emulator --------------------------------
(***************************************************************************)
(* The Emulator object as its host drives it (src/emulator.cpp,            *)
(* include/aiasm/emulator.h, translate.h, debugger.h): the core of module  *)
(* Machine, the decoded-block cache, the breakpoints, the loops run() and  *)
(* run_fast(), and the calls a host makes between them through the C++     *)
(* and C interfaces.  The program is single-threaded: a host call happens  *)
(* only while ctl = "host".  The C interface turns every exception into a  *)
(* return to the host, which is where a throw leads here.                  *)
(***************************************************************************)
EXTENDS Machine

CONSTANTS
    TextSize,       \* TEXT_SIZE
    MaxBlock,       \* max_len of BlockCache::translate (32)
    CacheLine,      \* words of the line a block may not cross (64 bytes)
    \* What the host does, the workload:
    Programs,       \* programs it may load
    Reloads,        \* whether it loads over a core that has already run
    RamImages,      \* contents it may load into main RAM
    Pokes,          \* <<address, word>> it may write over the bus
    Peeks,          \* addresses it may read over the bus
    GprWrites,      \* <<register, word>> it may set
    Entries,        \* which of "step", "run", "run_fast" it calls
    BreakSites,     \* addresses it may break on
    Targets,        \* target profiles it may select
    Vectors,        \* <<base, vectored>> it may write to MTVEC
    IeMasks,        \* values it may write to the CSR MIE
    HostLines,      \* interrupt lines it may raise and clear
    Mrets,          \* whether it calls mret() of the interrupt controller
    MmuSettings,    \* values it may pass to set_enabled
    VerboseSettings,
    Snapshots,      \* whether it calls save_state and restore_state
    Restarts,       \* whether it calls reset
    \* Bounds of the model:
    MaxCycles,      \* profiled cycles after which the loops are cut
    MaxFabric,      \* fabric time, completions and stalls likewise
    MaxTimer        \* timer count likewise

ASSUME EmulatorAssumption ==
    /\ TextSize \in 0 .. MemSize /\ MaxBlock \in Nat \ {0} /\ CacheLine \in Nat \ {0}
    /\ Programs \subseteq Seq(Word) /\ \A p \in Programs : Len(p) <= TextSize
    /\ Entries \subseteq {"step", "run", "run_fast"}
    /\ RamImages \subseteq [RamAddr -> Word]
    /\ Pokes \subseteq Word \X Word /\ Peeks \subseteq Word
    /\ GprWrites \subseteq Gpr \X Word
    /\ Targets \subseteq Target
    /\ Vectors \subseteq Word \X BOOLEAN
    /\ IeMasks \subseteq SUBSET Line
    /\ HostLines \subseteq {"MachineExternal", "MachineSoft"}
    /\ BreakSites \subseteq Word
    /\ MmuSettings \subseteq BOOLEAN
    /\ VerboseSettings \subseteq BOOLEAN
    /\ MaxCycles \in Nat /\ MaxFabric \in Nat /\ MaxTimer \in Nat

VARIABLES
    m,            \* the core
    blocks,       \* block_cache_: start address -> decoded words
    breakpoints,  \* breakpoints_ of the debugger
    verbose,      \* verbose_
    ctl,          \* where the thread is
    todo,         \* operations of the current block still to run
    saved         \* << >> or << the snapshot the host holds >>

vars == <<m, blocks, breakpoints, verbose, ctl, todo, saved>>

\* "block" is the inner loop of run_fast.
Ctl == {"host", "run", "run_fast", "block", "crashed"}

--------------------------------------------------------------------------------
\* BlockCache::translate

\* Decoding stops after the k-th word from pc.
StopsAt(mem, pc, k) ==
    \/ k = MaxBlock
    \/ pc + k - 1 \notin Addr
    \/ EndsBlock(Decode[mem[pc + k - 1]].op)
    \/ (pc + k) % CacheLine = 0

BlockLength(mem, pc) ==
    CHOOSE k \in 1 .. MaxBlock : StopsAt(mem, pc, k) /\ \A j \in 1 .. k - 1 : ~StopsAt(mem, pc, j)

\* read32 throws when the block runs off the scratchpad.
Translatable(mem, pc) == pc + BlockLength(mem, pc) - 1 \in Addr

DecodedBlock(mem, pc) == [k \in 1 .. BlockLength(mem, pc) |-> mem[pc + k - 1]]

--------------------------------------------------------------------------------
\* Snapshots: Emulator::State.  The memories, the CSRs, the devices and the halt
\* flag are not part of it.

save_state(c) ==
    [gpr |-> c.gpr, vr |-> c.vr, pc |-> c.pc, accum |-> c.accum, prof |-> c.prof,
     zero |-> c.zero, negative |-> c.negative, overflow |-> c.overflow]

\* Mutant of restore_state: the accumulator is kept.
restore_state_KeepAccum(c, s) ==
    [c EXCEPT !.gpr = [s.gpr EXCEPT ![0] = 0], !.vr = s.vr, !.pc = s.pc, !.prof = s.prof,
              !.zero = s.zero, !.negative = s.negative, !.overflow = s.overflow]

restore_state(c, s) ==
    [c EXCEPT !.gpr = [s.gpr EXCEPT ![0] = 0], !.vr = s.vr, !.pc = s.pc,
              !.accum = s.accum, !.prof = s.prof,
              !.zero = s.zero, !.negative = s.negative, !.overflow = s.overflow]

--------------------------------------------------------------------------------
Init ==
    /\ m = NewCore
    /\ blocks = << >>
    /\ breakpoints = {}
    /\ verbose = FALSE
    /\ ctl = "host"
    /\ todo = << >>
    /\ saved = << >>

--------------------------------------------------------------------------------
\* Host calls

\* reset() keeps the target, the timer and the UART buffer.
Reset ==
    /\ ctl = "host" /\ Restarts
    /\ m' = [NewCore EXCEPT !.timer = m.timer, !.tx = m.tx, !.target = m.target]
    /\ blocks' = << >>
    /\ breakpoints' = {}
    /\ verbose' = FALSE
    /\ UNCHANGED <<ctl, todo, saved>>

\* Mutant of LoadProgram: the block cache survives.
LoadProgram_KeepBlocks(p) ==
    /\ ctl = "host" /\ (Reloads \/ (m.pc = 0 /\ m.prof.instrs = 0))
    /\ m' = [m EXCEPT !.mem = [a \in Addr |-> IF a < Len(p) THEN p[a + 1] ELSE @[a]]]
    /\ UNCHANGED <<blocks, breakpoints, verbose, ctl, todo, saved>>

LoadProgram(p) ==
    /\ ctl = "host" /\ (Reloads \/ (m.pc = 0 /\ m.prof.instrs = 0))
    /\ m' = [m EXCEPT !.mem = [a \in Addr |-> IF a < Len(p) THEN p[a + 1] ELSE @[a]]]
    /\ blocks' = << >>
    /\ UNCHANGED <<breakpoints, verbose, ctl, todo, saved>>

LoadMainRam(image) ==
    /\ ctl = "host"
    /\ m' = [m EXCEPT !.ram = image]
    /\ UNCHANGED <<blocks, breakpoints, verbose, ctl, todo, saved>>

\* aism_write32: over the bus, so it reaches the devices; an unmapped address
\* is refused.  load_data and aism_write_scratchpad do the same to memory.
Poke(a, v) ==
    /\ ctl = "host" /\ BusMapped(a)
    /\ m' = bus_write(m, a, v)
    /\ UNCHANGED <<blocks, breakpoints, verbose, ctl, todo, saved>>

\* aism_read32: reading a device register may change the device.
Peek(a) ==
    /\ ctl = "host" /\ BusMapped(a)
    /\ m' = bus_read(m, a)
    /\ UNCHANGED <<blocks, breakpoints, verbose, ctl, todo, saved>>

WriteGpr(r, v) ==
    /\ ctl = "host"
    /\ m' = [m EXCEPT !.gpr = write_gpr(@, r, v)]
    /\ UNCHANGED <<blocks, breakpoints, verbose, ctl, todo, saved>>

SetTarget(t) ==
    /\ ctl = "host"
    /\ m' = [m EXCEPT !.target = t]
    /\ blocks' = << >>
    /\ UNCHANGED <<breakpoints, verbose, ctl, todo, saved>>

\* csr().write by the host: there is no CSR instruction in the dispatch table.
WriteMtvec(v) ==
    /\ ctl = "host"
    /\ m' = [m EXCEPT !.csr.mtvec = v[1], !.csr.vectored = v[2]]
    /\ UNCHANGED <<blocks, breakpoints, verbose, ctl, todo, saved>>

\* Enabling interrupts: MSTATUS.MIE and the mask in the CSR MIE.
WriteMie(mask) ==
    /\ ctl = "host"
    /\ m' = [m EXCEPT !.csr.mie = TRUE, !.csr.ie = mask]
    /\ UNCHANGED <<blocks, breakpoints, verbose, ctl, todo, saved>>

RaiseLine(l) ==
    /\ ctl = "host"
    /\ m' = [m EXCEPT !.mip = @ \cup {l}]
    /\ UNCHANGED <<blocks, breakpoints, verbose, ctl, todo, saved>>

ClearLine(l) ==
    /\ ctl = "host"
    /\ m' = [m EXCEPT !.mip = @ \ {l}]
    /\ UNCHANGED <<blocks, breakpoints, verbose, ctl, todo, saved>>

\* mret(): the host gets the return address; the pc is not touched.
HostMret ==
    /\ ctl = "host" /\ Mrets
    /\ m' = [m EXCEPT !.csr = mret(@)]
    /\ UNCHANGED <<blocks, breakpoints, verbose, ctl, todo, saved>>

SetMmu(b) ==
    /\ ctl = "host"
    /\ m' = [m EXCEPT !.mmu = b]
    /\ UNCHANGED <<blocks, breakpoints, verbose, ctl, todo, saved>>

AddBreakpoint(a) ==
    /\ ctl = "host"
    /\ breakpoints' = breakpoints \cup {a}
    /\ UNCHANGED <<m, blocks, verbose, ctl, todo, saved>>

RemoveBreakpoint(a) ==
    /\ ctl = "host"
    /\ breakpoints' = breakpoints \ {a}
    /\ UNCHANGED <<m, blocks, verbose, ctl, todo, saved>>

ClearBreakpoints ==
    /\ ctl = "host" /\ breakpoints # {}
    /\ breakpoints' = {}
    /\ UNCHANGED <<m, blocks, verbose, ctl, todo, saved>>

SetVerbose(v) ==
    /\ ctl = "host"
    /\ verbose' = v
    /\ UNCHANGED <<m, blocks, breakpoints, ctl, todo, saved>>

SaveState ==
    /\ ctl = "host" /\ Snapshots
    /\ saved' = <<save_state(m)>>
    /\ UNCHANGED <<m, blocks, breakpoints, verbose, ctl, todo>>

RestoreState ==
    /\ ctl = "host" /\ Snapshots /\ saved # << >>
    /\ m' = restore_state(m, saved[1])
    /\ UNCHANGED <<blocks, breakpoints, verbose, ctl, todo, saved>>

--------------------------------------------------------------------------------
\* Execution

\* The loops are cut at the bounds of the model.
WithinBounds ==
    /\ m.prof.cycles < MaxCycles
    /\ m.axi.cur < MaxFabric /\ m.axi.completed + m.axi.stalled < MaxFabric
    /\ m.timer.count < MaxTimer

Stopped == m.halt \/ m.pc \in breakpoints

\* Where the thread is after a call that ended this way.
After(end, next) ==
    CASE end = "ok"    -> next
      [] end = "throw" -> "host"
      [] OTHER         -> "crashed"

\* One call of step() from place `next`, to which it returns.
StepFrom(next) ==
    LET r == step(m)
    IN  /\ m' = r.m
        /\ ctl' = After(r.end, next)
        /\ UNCHANGED <<blocks, breakpoints, verbose, todo, saved>>

StepCall ==
    /\ ctl = "host" /\ "step" \in Entries /\ WithinBounds
    /\ StepFrom("host")

CallRun(entry) ==
    /\ ctl = "host" /\ entry # "step" /\ WithinBounds
    /\ ctl' = entry
    /\ UNCHANGED <<m, blocks, breakpoints, verbose, todo, saved>>

\* An iteration of run(), and of run_fast() while verbose.
RunStep ==
    /\ ctl = "run" \/ (ctl = "run_fast" /\ verbose)
    /\ ~Stopped /\ WithinBounds
    /\ StepFrom(ctl)

\* The loop ends; the UART buffer is flushed and the call returns.
RunReturn ==
    /\ ctl \in {"run", "run_fast"}
    /\ Stopped
    /\ m' = [m EXCEPT !.tx = << >>]
    /\ ctl' = "host"
    /\ UNCHANGED <<blocks, breakpoints, verbose, todo, saved>>

\* run_fast() finds the block at pc in the cache.
BlockHit ==
    /\ ctl = "run_fast" /\ ~verbose
    /\ ~Stopped /\ WithinBounds
    /\ m.pc \in DOMAIN blocks
    /\ todo' = blocks[m.pc]
    /\ ctl' = "block"
    /\ UNCHANGED <<m, blocks, breakpoints, verbose, saved>>

\* It decodes and caches the block, or the read throws.
BlockMiss ==
    /\ ctl = "run_fast" /\ ~verbose
    /\ ~Stopped /\ WithinBounds
    /\ m.pc \notin DOMAIN blocks
    /\ IF Translatable(m.mem, m.pc)
       THEN LET blk == DecodedBlock(m.mem, m.pc)
            IN  /\ blocks' = [a \in DOMAIN blocks \cup {m.pc} |->
                                IF a = m.pc THEN blk ELSE blocks[a]]
                /\ todo' = blk
                /\ ctl' = "block"
       ELSE /\ ctl' = "host"
            /\ UNCHANGED <<blocks, todo>>
    /\ UNCHANGED <<m, breakpoints, verbose, saved>>

\* One operation of the block.  A branch or HALT leaves the block.
BlockOp ==
    /\ ctl = "block" /\ todo # << >> /\ ~Stopped
    /\ LET r == fast_op(m, Head(todo))
           leave == r.end # "ok" \/ EndsBlock(Decode[Head(todo)].op)
       IN  /\ m' = r.m
           /\ ctl' = After(r.end, IF leave THEN "run_fast" ELSE "block")
           /\ todo' = IF leave THEN << >> ELSE Tail(todo)
    /\ UNCHANGED <<blocks, breakpoints, verbose, saved>>

\* The block is finished, or a breakpoint is reached inside it.
BlockDone ==
    /\ ctl = "block" /\ (todo = << >> \/ Stopped)
    /\ todo' = << >>
    /\ ctl' = "run_fast"
    /\ UNCHANGED <<m, blocks, breakpoints, verbose, saved>>

Running == RunStep \/ RunReturn \/ BlockHit \/ BlockMiss \/ BlockOp \/ BlockDone

HostCall ==
    \/ Reset
    \/ \E p \in Programs : LoadProgram(p)
    \/ \E image \in RamImages : LoadMainRam(image)
    \/ \E w \in Pokes : Poke(w[1], w[2])
    \/ \E a \in Peeks : Peek(a)
    \/ \E w \in GprWrites : WriteGpr(w[1], w[2])
    \/ \E t \in Targets : SetTarget(t)
    \/ \E v \in Vectors : WriteMtvec(v)
    \/ \E mask \in IeMasks : WriteMie(mask)
    \/ \E l \in HostLines : RaiseLine(l)
    \/ \E l \in HostLines : ClearLine(l)
    \/ HostMret
    \/ \E b \in MmuSettings : SetMmu(b)
    \/ \E a \in BreakSites : AddBreakpoint(a)
    \/ \E a \in BreakSites : RemoveBreakpoint(a)
    \/ ClearBreakpoints
    \/ \E v \in VerboseSettings : SetVerbose(v)
    \/ SaveState
    \/ RestoreState
    \/ StepCall
    \/ \E entry \in Entries : CallRun(entry)

\* A bound of the model cuts a loop that would go on.
AtBound ==
    /\ ctl \in {"run", "run_fast"} /\ ~WithinBounds
    /\ UNCHANGED vars

Next == HostCall \/ Running \/ AtBound

Spec == Init /\ [][Next]_vars

\* run() and run_fast() are loops of the one thread: they keep going.
FairSpec == Spec /\ WF_vars(Running)

--------------------------------------------------------------------------------
\* Properties

Snapshot ==
    [gpr : [Gpr -> Word], vr : [Vr -> Word], pc : Word, accum : Nat, prof : Profile,
     zero : BOOLEAN, negative : BOOLEAN, overflow : BOOLEAN]

\* Type invariant.
TypeOK ==
    /\ m \in CoreState
    /\ \A a \in DOMAIN blocks : a \in Word /\ blocks[a] \in Seq(Word)
    /\ breakpoints \subseteq Word
    /\ verbose \in BOOLEAN
    /\ ctl \in Ctl
    /\ todo \in Seq(Word)
    /\ saved = << >> \/ (Len(saved) = 1 /\ saved[1] \in Snapshot)

\* Between instructions less than one tick is accumulated, in every host and
\* loop state, after exceptions and after restored snapshots too: the loop of
\* tick_peripherals (src/emulator.cpp:647) never owes the peripherals a tick.
AccumBelowTick == m.accum < CyclesPerTick

\* The peripherals run on the profiler's clock: the cycles profiled and the
\* cycles accumulated towards the next tick agree modulo a tick, across traps,
\* exceptions, snapshots and both loops (execute, restore_state).  It needs a
\* fabric that never refuses a DMA_LOAD.
TimeBase == m.prof.cycles % CyclesPerTick = m.accum

\* A transaction does not outlive the tick window it was issued in: a step that
\* ticks the peripherals leaves the AXI fabric empty (op_load .. op_dma_store
\* against tick_peripherals), as long as the profiler's clock is never set back.
DrainedByTick ==
    [][(RunStep \/ BlockOp \/ StepCall) /\ m'.accum < m.accum => m'.axi.pending = << >>]_vars

\* "Same semantics" (src/emulator.cpp:294): whatever run_fast() executes next,
\* out of whichever cached block and behind whichever breakpoint, does to the
\* core exactly what step() would have done, and throws when step() throws.
SameSemantics ==
    [][BlockOp => LET r == step(m) IN m' = r.m /\ (ctl' = "host" <=> r.end = "throw")]_vars

\* A cached block is what decoding would produce now: no block of the cache is
\* stale (BlockCache against load_program, reset and the guest's stores).
FreshBlocks ==
    \A a \in DOMAIN blocks : Translatable(m.mem, a) /\ blocks[a] = DecodedBlock(m.mem, a)

\* A halted core executes nothing: while halt is set only reset() and
\* restore_state() change the pc, the profile, the cause or the halt.
HaltIsFinal ==
    [][m.halt /\ ~(Reset \/ RestoreState) =>
         m'.halt /\ m'.pc = m.pc /\ m'.prof = m.prof /\ m'.csr.mcause = m.csr.mcause]_vars

\* The core executes an instruction.
Executes == RunStep \/ StepCall \/ BlockOp

\* The address of the instruction it executes, after a possible interrupt.
ExecutedPc == IF ctl = "block" THEN m.pc ELSE enter_interrupt(m).pc

\* Exceptions are precise: an instruction that takes a page-fault or
\* illegal-instruction trap leaves the registers, the flags, both memories and
\* the fabric's queue as they were, and MEPC is its own address (fetch, execute
\* and the fault paths of op_load, op_store, op_dma_load and op_dma_store).
PreciseTraps ==
    [][Executes /\ ~m.halt /\ m'.csr # m.csr /\ m'.csr.mcause \in Exception =>
         /\ m'.csr.mepc = ExecutedPc
         /\ m'.pc = m.csr.mtvec
         /\ m'.gpr = m.gpr /\ m'.vr = m.vr /\ m'.zero = m.zero
         /\ m'.mem = m.mem /\ m'.ram = m.ram
         /\ Len(m'.axi.pending) <= Len(m.axi.pending)]_vars

\* A spinning guest gets its timer interrupt: once the timer runs and its
\* interrupt is enabled, run() comes to the handler, which halts, and returns
\* (the chain execute, tick_peripherals, raise_timer, pending_interrupt).
TimerArmed ==
    /\ m.timer.ctrl /\ m.csr.mie /\ "MachineTimer" \in m.csr.ie
    /\ ~m.mmu /\ ~m.csr.vectored
    /\ m.csr.mtvec \in Addr /\ Decode[m.mem[m.csr.mtvec]].op = "HALT"

RunReturns == (ctl = "run" /\ TimerArmed) ~> (ctl = "host")
================================================================================
