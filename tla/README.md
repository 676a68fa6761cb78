# Novium emulator: TLA+ models, checks and proofs

Novium is an instruction-set emulator for an AI accelerator: a scalar core with
vector, matrix and DMA instructions, a bus with devices, an on-chip fabric,
traps and interrupts, an MMU, a multi-core cluster, timing models (caches,
pipeline, warps, systolic array), and in front of it a translator of foreign
instruction sets, loaders for annotated sources and a driver. This directory holds TLA+ modules
translated from the C++ sources, TLC configurations that check them on small
instances, and TLAPS proofs of the results that hold for every instance.

## 1. The system

Everything runs on one host thread. The interesting orders are therefore not
those of threads but those of *calls*: which host call, loop iteration, trap,
tick or core's turn comes next, and which state is left over from the last one.

| Component | State | Operations | Talks to |
|---|---|---|---|
| Executor (`src/emulator.cpp`, `registers.h`, `profiler.h`) | pc, registers, flags, halt, profile, tick accumulator | 18 instruction handlers, `fetch`, `execute`, `step`, `tick_peripherals` | bus, fabric, MMU, interrupt controller, timer |
| Bus, memory, devices (`bus.h`, `memory.h`, `devices.h`) | scratchpad, main RAM, timer, UART buffer | `read32`, `write32`, timer `tick` | executor, host |
| Fabric (`src/interconnect.cpp`) | outstanding transactions, own clock | `issue`, `tick`, `reset` | executor's loads, stores and DMA |
| Interrupt controller and CSRs (`src/interrupt.cpp`, `csr.h`) | `mip_`, MSTATUS, MTVEC, MEPC, privilege | raise, `pending_interrupt`, `take_trap`, `mret`, `sret` | executor, cluster, host |
| Host interface, loops, block cache (`src/emulator.cpp`, `translate.h`, `debugger.h`) | decoded blocks, breakpoints, verbose | `run`, `run_fast`, `step`, loading, reset, snapshots | host |
| MMU (`src/mmu.cpp`) | TLB, simple map, last fault | `translate`, walk, flushes, `identity_map` | executor, page tables in memory |
| Cluster and deterministic engine (`src/cluster.cpp`, `deterministic.h`) | cores, shared RAM, clocks | `run`, `run_fast`, `step_all`, `send_ipi` | cores |
| Cache hierarchy (`src/cache.cpp`) | three levels of lines, open rows | `access`, `flush`, `configure`, `reset` | - |
| Checkpoints (`checkpoint.h`, `src/checkpoint.cpp`) | bounded history | push, pop, clear, blobs | host |
| Warps and systolic array (`src/parallel.cpp`) | stalls, round-robin index, fill depth | `schedule`, `tick`, `enqueue_tile` | - |
| Pipeline model (`src/pipeline.cpp`) | reservation stations, branch counters | `try_issue`, `commit`, predictor | - |
| Kernels and FPGA co-emulation (`host.h`, `fpga.h`, `src/fpga.cpp`) | vector registers; backend, connection, counters | `vec_add`, `matmul_tile` in the loop, with host vectors, offloaded | executor |
| Guest decoder (`src/decoder.cpp`) | none | `translate_bytes` for RISC-V, ARM64 and PTX | driver |
| Frontend (`src/frontend.cpp`) | none | `load_string` and the four loaders | driver |
| Driver and CoreMark (`src/main.cpp`, `src/coremark.cpp`) | emulator, scores | run a file, the demonstration, iterations | loaders, emulator |

What is hard in it, and what makes each part correct:

- **Executor.** A trap in the middle of an instruction must leave nothing behind
  (`PreciseTraps`). Two counts of the same cycles, the profiler's and the tick
  accumulator's, are charged, saved and restored at different places
  (`TimeBase`, `AccumBelowTick`). Fabric transactions live from an instruction to
  a later tick (`DrainedByTick`). A spinning guest depends on a chain of five
  parts to be interrupted (`RunReturns`).
- **Loops and block cache.** A cached block may be stale, and the fast loop is a
  second implementation of `step()` (`FreshBlocks`, and the whole of it as a
  refinement, `RefinesInterpreter`).
- **MMU.** A TLB entry may outlive its mapping, or answer for another address
  space (`TlbCoherent`, `TlbTransparent`).
- **Interrupt controller.** Nested traps overwrite the single set of return
  registers (`MaskedInHandler`, `RoundTrip`), and no method checks the privilege it
  is called at (`RaisedByRecord`).
- **Cluster.** Cores halt inside a quantum, limits cut a call, guests wait for
  each other (`LockStep`, `ClocksAgree`, `DataBeforeFlag`, `IpiPrompt`,
  `HandshakeInTime`).
- **Timing models and checkpoints.** Replacement by age with flushes that keep
  ages, a history at its limit, stations that are reused, counters at their ends.
- **Kernels.** One operation in four implementations, over registers that may be
  the same, for tiles smaller than a register (`KernelExact`).
- **Devices.** Output that waits in a buffer while calls return and throw
  (`UartLossless`); periods that ticks do not divide (`NoDrift`).
- **Translation.** Fields change their width, sign and unit between instruction
  sets, registers lose half of their bits, and one guest instruction becomes several
  (`GuestSimulated`, `BranchesLand`).
- **Loaders and driver.** Programs made from annotations overwrite memory they run
  from (`EveryProgramHalts`); results must not depend on target, loop or
  iteration (`BitIdentical`, `IterationsAlike`).

`PROJECT.json` lists every component, the ones that are not modelled too, and the
hazards with the line at which each bites.

## 2. The modules

```
Isa --+-- Interrupts --+
      +-- Devices -----+-- Machine --+-- Emulator ---- EmulatorRefinement ..> Interpreter
      +-- Interconnect-+             +-- Cluster
                                     +-- Decoder --+-- GuestCode --+
                                                   +-- Frontend    +-- MCToolchain
                                                         +-- Driver+
Interrupts ---- TrapController
Mmu
Devices ------- Peripherals --+
CacheHierarchy  Checkpoints   +-- MCUnits
Parallel  Pipeline  Kernels --+

NumberLemmas --+-- MachineProofs --+-- EmulatorProofs (on EmulatorRefinement)
               |                   +-- ClusterProofs (on MCCluster)
               |                   +-- ToolchainProofs (on GuestCode and Driver)
               +-- UnitProofs (on MCUnits)
TrapControllerProofs    MmuProofs
```

`MCx` instantiates module `x` for TLC. `MCUnits` holds the units that share nothing
with each other, and `MCToolchain` the translation and the driver: a variable
(`unit`, `side`) says which of them a behaviour exercises, so the run covers the
sum of their state spaces.

**Isa** has words with wrapping arithmetic, opcodes, cycle weights and the three
target profiles. Decoding is the constant `Decode`, a function from words to
instructions, so a word of memory is code and data at once. Addresses count
words, not bytes.

**Interrupts, Devices, Interconnect** hold the methods of these classes as
operators on records; `Machine` and `TrapController` use them.

**Machine** is one core as a record and the functions of `emulator.cpp` on it.
A handler returns the machine, its cycles and how it ended: normally, by an
exception (the changes made before it stay), or by an access outside a backing
store. A vector register and its 64 bytes of memory are one word, so the kernels
are one operation on it; translation is the function `PageMap`. The loop of
`tick_peripherals` is modelled as at most one pass; theorem `NoTickOwed` and
`CostAssumption` justify that.

**Emulator** is the object a host drives: one action per host call, one per
iteration of `run()` and per operation of a decoded block in `run_fast()`. The
variable `ctl` says where the thread is; host calls happen only in `"host"`. A
C++ exception leads back there, as `aism.h` does it. Which calls, programs and
values the host uses are constants, so that a configuration is a workload.

**Interpreter** is the abstract specification of the same object, over any `step()`: a core that moves
by whole calls of `step()` while a call is under way, stops at a halt or a
breakpoint, and host calls that execute nothing. **EmulatorRefinement** maps
`Emulator` to it: `core` is `m`, `running` is being in one of the loops, and blocks,
cursor, verbose switch and snapshot are hidden. Entering a block, decoding it and
going on in it are stutters; an operation of a block is one `Execute`.

**Cluster** has several cores of `Machine` and the three loops over them, one
step of a core at a time. The shared window is a set of addresses all cores see
one copy of. `happened` and `steps` are kept for the properties only.

**TrapController** is the controller alone under handlers that nest, return and
write CSRs. As in the code, returns and CSR writes ask for no privilege: every action
may be taken at every level. **Mmu** is the MMU with software that edits tables, switches SATP and
flushes; `dirty` and `space` record which flushes that software owes.
**CacheHierarchy**, **Checkpoints**, **Parallel** and **Pipeline** are the stand-alone
models; each carries a reference (`recent`, `undo`, `passed`, `inflight`) that the
properties compare the code's state with. A checkpoint is captured after the
instruction it belongs to has committed (`checkpoint.h:43`); instructions that throw,
or run untraced, are not captured, and a step back is `pop()` with the restore. In
**CacheHierarchy** every level has sets, as the constructor of the hierarchy makes them.

**Kernels** has the element loops, one element or one host vector a step, and the
co-emulator with a caller that falls back. Elements are residues: all
implementations add in the same order, so rounding cannot tell them apart.
**Peripherals** is the timer and the UART under any accesses, with `written`,
`clock` and `expired` as history.

**Decoder** translates the fields of an instruction, with the widths, masks and
units of the encoders; where the bits lie in a word is left out. **GuestCode**
executes a guest program on a reference hart and its translation on the handlers of
`Machine`, one guest instruction a step. The guests are RISCV64 and ARM64, so the
hart's registers are twice as wide as the core's (`GuestCount`), LW extends the sign,
and the core is compared with the low halves (`Low`). The pc counts bytes, as in the
code. What `translate_bytes` does for PTX, native words and ASIC microcode is in
`Decoder`, but no run executes it, since nothing in the repository does.
**Frontend** takes what the loaders find in a source (annotations in order, a kernel
pragma, assembly lines) to a program and a target. **Driver** runs such programs:
`text` is the program, `intact` the lines of it no store has replaced, and a fetch
from another line is `"lost"`. Reads of main memory and loops are those of
`Machine`; a line of 64 bytes is one address.

Left out everywhere: text output, formatting and counters nothing reads
(`trap_count_`, opcode histogram, hits and misses, `seq_`).

## 3. The runs

| Run | Module | Properties | What it shows |
|---|---|---|---|
| `fast_path` | MCEmulator | TypeOK, FreshBlocks, TimeBase, RefinesInterpreter, DrainedByTick | both loops and the block cache implement the interpreter, for programs that do not store into code, with interrupts and MMU off |
| `traps` | MCEmulator | PreciseTraps, HaltIsFinal | faults, illegal words and interrupts under a stepping host |
| `snapshots` | MCEmulator | TimeBase, AccumBelowTick | snapshots taken and restored anywhere |
| `timer_interrupt` | MCEmulator | RunReturns | liveness of the timer chain |
| `mmu` | MCMmu | TypeOK, TlbTransparent, TlbCoherent | TLB against table edits, SATP switches, partial flushes |
| `cluster` | MCCluster | TypeOK, DataBeforeFlag, LockStep, ClocksAgree, IpiPrompt, HandshakeInTime | message passing and spinning cores under every loop |
| `trap_protocol` | MCTrapController | TypeOK, MaskedInHandler, RoundTrip, RaisedByRecord | nested traps, returns and CSR writes at every privilege |
| `units` | MCUnits | UnitsTypeOK and the properties of each unit, below | the units beside the executor |
| `toolchain` | MCToolchain | GuestSimulated, BitIdentical, IterationsAlike, EveryProgramHalts | translation is a simulation up to the width; every program the driver launches ends; results do not depend on target, loop or iteration |
| `fast_interrupt` | MCEmulator | SameSemantics (violated) | with an interrupt pending the fast loop is not `step()` |
| `guest_branches` | MCToolchain | BranchesLand (violated) | a translated loop leaves through the middle of a word |
| `lowering` | MCToolchain | OneToOne (violated) | `movi` of an assembly file is dropped |

In `units`: the caches are ideal LRU caches in contents, cost and write-backs
(TrueLru, IdealCost, WritebackCounted); nothing is lost, early or mispredicted in
the pipeline model (NothingLost, CommitsLater, TwoBit); no warp starves
(NoStarvation); checkpoints keep the newest states and step back exactly
(NewestKept, ExactReverse); every kernel on every engine computes the sum or the
product (KernelExact); UartLossless and NoDrift for the devices.

**Bounds.** `MaxCycles`, `MaxFabric` and `MaxTimer` cut the loops of a core,
`MaxTick` the accesses of a cache, `MaxUndo`, `MaxDepth`, `MaxTiles`,
`MaxIssued`, `MaxRun`, `MaxCalls`, `MaxWritten` and `MaxClock` the other counters. Each is larger than the distance at
which the interesting case happens: the programs of `fast_path` halt or throw
within 60 cycles with a tick every 25; in `snapshots` a tick is 6 cycles and the
bound 14, so a snapshot from before a tick is restored after it; a core of
`cluster` has 36 cycles and the handshake needs at most that (this is
`HandshakeInTime`: with 30 it fails); two TLB entries and two pages let an entry
be evicted and be duplicated; a history of at most two with three pushes
overflows; three lines over two ways evict; three stations with four
instructions fill and are reused. A tile of 3 has the sizes 1 to 3, in which a
row of the tile is and is not a row of the register, and three registers give every
aliasing. Guest programs have up to four instructions, so a result is used by a
later address, operand and store; those of `WidePrograms` first put -3 into x14, whose
upper half the core lacks, and then multiply, add, store, load, compare and address
with it; annotation lists have up to four entries in any
order, and ten equal ones that fill more than a line of `LineWords` instructions
(16 in the code). Three iterations have one between two others. A configuration
gives only constants.

**Fairness.** `FairSpec` of `Emulator` asks weak fairness of `Running`, the steps
of `run()` and `run_fast()`. It is what a host thread guarantees: inside the loop
there is nothing it waits for. Host calls are not fair. `Driver` asks the same of
`Executing`, the steps between the launch of a program and its end.

**Deadlock** is checked in every run but those of `MCToolchain`, where a guest program
and the driver end.

**Mutants.** Every property of a passing run has a mutant of the code's model that
violates it; they are defined next to what they change, as `<definition>_<bug>`.

## 4. The proofs

A run checks a property on one instance; a theorem states it for every value of the
constants. `PROJECT.json` pairs each theorem with the property it states. SameSemantics is a
special case: the run `fast_interrupt` refutes it, and `FastPathExact` says when it holds.

### The core and its host (`MachineProofs`, `EmulatorProofs`)

For all word and memory sizes, programs, decodings and sequences of host calls:

| Theorem | States | Condition |
|---|---|---|
| `TypeCorrect`, `NoTickOwed` | TypeOK, AccumBelowTick | - |
| `HaltsForGood`, `TrapsArePrecise` | HaltIsFinal, PreciseTraps | - |
| `OneTimeBase` | TimeBase | `FabricHasRoom` |
| `CacheStaysFresh` | FreshBlocks | `CodeKept` |
| `FastPathExact` | SameSemantics | `Quiet`, `CodeKept` |
| `TicksDrainFabric` | DrainedByTick | `TransfersShort`, no snapshots |

The inductive invariant `Inv` is `TypeOK /\ AccumBelowTick /\ SavedBelowTick`. Neither
of the first two is inductive alone: the accumulator stays below a tick only if it
was below before and an instruction costs less than a tick, which needs the types;
and `restore_state()` sets it from the snapshot, so the bound must be known of the
snapshot as well. The other results each add one fact to it: TimeBase the same of the
snapshot (`SavedTimeBase`); the fast path that the rest of a block being replayed is
what memory holds from the program counter on (`Replaying`); DrainedByTick that
every transaction is due by the next tick (`FabricTimely`).

`MachineProofs` goes handler by handler. `HandledGood` says that every handler keeps a
well-typed core and its cost within a tick, `ExecuteGood` adds the accounting,
`TickGood` the single pass of `tick_peripherals`, and `StepSettled` and
`FastOpSettled` are what the steps of `Emulator` use. Beside them stand what a handler
leaves alone, what a trap writes, that cycles are counted once in both places, and
that a transaction is due within the cycles charged for it. The last section says what a
handler computes, operation by operation (`RegisterEffect`, `MemoryEffect`,
`BranchEffect`, `VectorMemoryEffect`, `KernelEffect`, `DmaEffect`); the theorems about
particular programs rest on it.

The conditions are about the word a step executes, so a guest that never executes
such a word meets them whatever its memory holds. Each excludes one case in which the
code does not do what the property says:

- `FabricHasRoom`: no DMA_LOAD is executed while the fabric is full. It would be
  recorded twice (`src/emulator.cpp:610`).
- `CodeKept`: no store of the guest or the host into memory that a cached block decodes.
- `Quiet`: in the fast loop no interrupt is deliverable, translation is off, the guest
  does not run in the device window, and an operation outside the table meets no trap
  vector. These are the ways in which
  `run_fast()` differs from `step()` (section 5).
- `TransfersShort`: no transfer takes longer than a tick. `restore_state()` takes the
  accumulator back and leaves the fabric, so snapshots are excluded too.

The run `fast_path` is an instance of these theorems: TLC finds `Quiet`, `CodeKept` and
`FabricHasRoom` in all of its states and steps.

### The refinement (`EmulatorProofs`)

`EmulatorImplements`: under `Quiet` and `CodeKept`, `Emulator` implements `Interpreter`
if the scratchpad is a whole number of cache lines (64 MB in `config.h:12`).
Otherwise a block could run past the end of memory and be refused where `step()` would
execute its first words. The proof has one lemma per group of actions, which names
the action of `Interpreter` it implements or shows that it stutters; that an operation
of a block is an `Execute` is `FastPathExact`.

### The MMU (`MmuProofs`)

For every TLB size, fan-out, number of pages and sequence of writes and flushes:
`TypeCorrect`; `TlbCoherence`, a valid entry whose page owes no flush holds the frame
and the permissions a walk would find; `TlbTransparency`, above user mode `translate()`
answers such a page as if there were no TLB. The invariant adds to coherence
`SpaceFollows`: the space that SATP names now is the one software last gave that
identifier. A fill is made from the current space, and without that fact nothing
connects it with the space coherence speaks of. Transparency then follows: a hit is
an entry of the current space.

### The trap controller (`TrapControllerProofs`)

For all lines, masks and addresses and handlers nested to any depth: `TypeCorrect`,
`HandlersMasked`, `ReturnRestores`, `PrivilegeAccounted`. `mret()` moves MPIE into MIE, so
what masks the outer handler after a nested one returned is that the nested trap saved
a clear MIE (`NestedMasked`); the return needs what the CSRs hold between the outermost
trap and its return (`ContextSaved`). `PrivilegeAccounted` states `RaisedByRecord`: a
rise of the privilege is a trap entry or a return to a level on record that no return
has used. It needs that nothing moves MTVEC (`VectorFixed`) and that MPP and SPP hold
exactly the unused records (`OnRecord`), which is so because `mret()` and `sret()` set
them to U. What is on record may be there by a write of software: the controller does
not ask who writes.

### The cluster (`ClusterProofs`)

For any number of cores, quantum, guests and sequence of calls: `TypeCorrect`,
`CoresInLockStep`, `InterruptsArePrompt` and, with no more cores than the engine has
clocks (`NumCores <= MaxCores`), `ClocksKept`. The invariant counts: in a round of
`run()` the cores before the current one have made a quantum of steps more than those
after it, and the current one `q` (`InStep`; `Ahead` is what remains of it after a crash
inside a turn); the cores before it have no interrupt waiting (`Answered`). Without `NumCores <= MaxCores` two cores share a clock
(`deterministic.h:30`).

`MessagesPassed` states `DataBeforeFlag`, which is about the litmus programs. Its
hypothesis `Litmus` fixes those programs, their words and the window, and that a trap
vector points to the HALT of a program; quantum, cycles of a tick, limits, which
methods are called in which order, the interrupts sent, the sizes of memories and
register files are arbitrary. The invariant `Passing` says that a running core is inside
its program and the words of the program are intact, that an interrupt can only lead to
its HALT, and how the two guests and the window agree (`Relay`): a raised flag means
that the data is there, and at each place of either guest what its register or the
window holds by then. The message passes because a core's store is in the window before
another core's turn, whatever the length of a turn.

### The toolchain (`ToolchainProofs`)

`TranslationSimulates` states `GuestSimulated` for every guest program, memory, word
size and register count, under `[]Covered`: the translation fits the address space, and
the guest's next instruction is one the engine can lower (registers below the
temporary, immediates in their fields, data in plain memory, no negative immediate of
ADDI, no branch taken by guest or core). The cases left out are in section 5; of the last
two, `guest_branches` refutes the one, and `NegativeImmediatesLost` the other: for every
machine whose field is narrower than its registers, a negative immediate leaves a value
that is not the guest's. All programs of the run `toolchain`
are covered in all of their states. The invariant is the property itself with the types.
That low halves are enough for ADD, SUB, MUL and addresses is arithmetic modulo a number
and its square (`ModuloArithmetic`, `LowHalf` of `NumberLemmas`, `GuestArithmetic`), and
what LW extends has the word it loaded as its low half (`ExtensionKeeps`). A comparison
is not preserved: `FallsThrough` asks that neither side takes the branch. The rest of
the work is the place: where the translation of instruction k + 1 begins is where that of
k begins plus the length of its lowering, since a translation is the concatenation of
lowerings (`Joins`).

`DemoBitIdentical` and `MarkIterationsAlike` state `BitIdentical` and `IterationsAlike`
for every machine with the `Layout` the driver's programs need: 13 registers, 4 vector
registers, a tile of 4, a fabric of depth 3, and the lines they write inside the
memories (the code has 16, 8, 4 and 8). Both programs are 22 instructions at most with
one loop. The invariant `Driven` gives the state at every instruction in closed form:
the scalar registers with the loop counter k and the sum of the first k numbers, the
lines and vector registers, the transactions in flight, and the cycles spent as a
function of the place, of k and of the target's costs. A block being replayed is the
rest of the program from the program counter on (`Remains`), which makes the two loops
one case, and an iteration costs `Total(target)` because the closed form at the HALT
does not mention what the reset left.

### The units (`UnitProofs`)

`UnitsAlone` shows that the specification of the run implies that of each unit, and
`UnitsTyped` that UnitsTypeOK holds. For each unit on its own, and every size of it:

- `CheckpointsKept`, `ReverseIsExact`. Invariant: the history is, entry for entry, the
  newest part of the pushes not taken back. A step back therefore leads to the guest
  behind the last instruction captured and not taken back, whatever ran since.
- `NothingUnprinted`, `TimerKeepsTime`. Invariant of the timer:
  `clock = limit * expired + count`, with the count below the limit.
- `NoWarpStarves`. The number of times a ready warp was passed over, plus its distance
  from the round-robin pointer, stays below the number of warps.
- `StationsExact`, `CommitTakesCycle`, `PredictorTwoBit`. Instructions in stations are
  told apart by number; a counter is bounded by the length of the current run of
  outcomes.
- `LruIsTrue`, `CostIsIdeal`, `WritebacksExact`. Some function gives, for the k-th most
  recent line of a set, the way that holds it; ages decrease along it, and ways that a
  flush emptied are older than all others, so they are replaced first though a flush
  keeps ages (`Ordered`).
- `KernelsExact`. Between elements, those done hold the result, the others their old
  value, and the running sum is that of the first products (`Progress`).

### Recursive definitions

`Total`, `Product`, `FlattenSeq` and `Ran` are defined by recursive functions, for which
the provers have no induction. Where a theorem needs one, `NumberLemmas` supplies the least element of a set
of numbers: a claim about all `k` that failed would fail at a least `k`
(`NoException`), and the defining equation at that `k` refutes it. That a function with
the equation exists is shown the same way (`SumsExist`).

### Assumptions

The named `ASSUME`s of the modules, which TLC evaluates on the instances. They give
constants their types, with these exceptions. `CostAssumption`: no instruction costs a
tick or more (in the code a tick is 1000 cycles, and the field widths bound the dearest
instruction far below that). `DecodeAssumption`: register fields are in range.
`MachineAssumption`: an executable page lies in the scratchpad, from which `fetch` reads
without the bus. `MmuAssumption`: a zero SATP has address space 0.

### Only model-checked

- `RunReturns` and `EveryProgramHalts` are liveness under fairness, beyond this prover.
- `HandshakeInTime` is a bound on the instance: how many cycles two guests that wait for
  each other need with a quantum of 2 and limits of 11. With other values it is another
  number.
- That the condition `Covered` of `TranslationSimulates` and the conditions of the
  theorems on `Emulator` hold of the programs of the runs is checked on those programs.

## 5. Where comments and code part

Three runs each refute a claim of the repository.

`fast_interrupt`: `run_fast()` is called "same semantics" (`src/emulator.cpp:294`,
`emulator.h:61`), and never looks for an interrupt. The same claim fails in two more ways that the model has and
`fast_path` excludes by its workload: after a trap the inner loop goes on with the
old block at the new pc (`src/emulator.cpp:300`), and a store into code leaves the
cached block as it was (`src/emulator.cpp:299`; `translate.h:23` says
"semantics-preserving"). `RefinesInterpreter` is the claim under the conditions in
which it holds.

`guest_branches`: a translated branch has its offset in words
(`src/decoder.cpp:115`), the core adds it to a pc in bytes. That ADDI becomes two
words moves targets as well.

`lowering`: `load_guest_asm` takes `#` as the start of a comment before it looks for
`movi rN, #imm`, so that instruction never reaches the program
(`src/frontend.cpp:217`; `frontend.h:27` says "lowering is 1:1").

Others met while modelling. Each is modelled as the code has it.

- `op_add`, `op_sub` set the overflow flag and then call `update_flags_u32`, which
  clears it (`src/emulator.cpp:448`; `registers.h:49` says the executor "should
  set overflow explicitly").
- A trap taken for an interrupt stores 0 in MEPC, because `pending_interrupt` does
  not fill `Trap::pc` (`src/interrupt.cpp:33`; the comment above says "PC → MEPC").
- `restore_state` does not restore the halt flag (`src/emulator.cpp:683`;
  `src/main.cpp:229` speaks of continuing "to completion").
- Reading the timer's IRQ register clears it ("auto-clears on read",
  `devices.h:18`), but the line follows at the next tick (`src/emulator.cpp:652`).
- A DMA_LOAD on a full fabric is recorded twice (`src/emulator.cpp:610`;
  `profiler.h:35` says "after each executed instruction"). The two cycles of an
  illegal-instruction trap are recorded nowhere (`src/emulator.cpp:380`).
- A TLB hit does not look at the U bit (`src/mmu.cpp:32`; `mmu.h:18`), which is why
  `TlbTransparent` is stated above user mode; a U-bit fault leaves `last_fault_`
  unset (`src/mmu.cpp:66`; `mmu.h:62`); replacement is first-in first-out
  (`mmu.h:17` says LRU).
- A quantum counts steps, not cycles (`src/cluster.cpp:32`; `cluster.h:49`), and
  `Cluster::run_fast` runs each core to its end (`src/cluster.cpp:45`;
  `cluster.h:19` says lockstep), which is why `LockStep` is stated for the other
  two methods.
- Shrinking the checkpoint limit does not shrink the history (`checkpoint.h:39`),
  and a blob holds the registers only (`src/checkpoint.cpp:7`; `checkpoint.h:18`).
- With a capture after each committed instruction (`checkpoint.h:43`) the newest entry
  is the running guest, so the first step back after a commit changes nothing; after an
  instruction that threw it undoes that one.
- A pending supervisor software interrupt has no delivery (`src/interrupt.cpp:24`).
- `mret()`, `sret()` and `CSRFile::write` check no privilege (`src/interrupt.cpp:65`,
  `csr.h:46`), and the model has no check either: which level calls them is up to the
  software, which is why `RaisedByRecord` counts records and not permissions.
- The first `rows` tiles pay the fill, not the first (`src/parallel.cpp:22`), and a
  pipeline of width 0 commits one instruction (`src/pipeline.cpp:18`).
- MATMUL_TILE over one of its operands is not the product (`src/emulator.cpp:572`;
  `isa.h:146` says "vd = va * vb"), so `KernelExact` excludes it for n above 1.
  `offload_matmul` cuts its size to eight bits (`src/fpga.cpp:22`).
- The UART prints its buffer as a C string: what follows a NUL is lost
  (`devices.h:97`). A timer whose limit is below a tick is reloaded once a tick, and
  its count grows without bound (`devices.h:29`); `NoDrift` is about the others.
- Guests of 64 bits run on registers of 32: only the low halves are computed. A BEQ or
  BNE on values that differ in the upper half alone goes the other way
  (`src/decoder.cpp:110`), and of an address the upper half is lost.
- Of RISC-V, ADDI becomes MOVI and ADD (`src/decoder.cpp:92`), and MOVI does not extend
  the sign of its field (`src/emulator.cpp:518`), so that a negative immediate is added
  as a large positive one (`NegativeImmediatesLost`); r15 is the translation's temporary;
  registers from x16 on alias the lower ones; OP-IMM, LOAD and STORE are taken as ADDI,
  LW and SW whatever funct3 says; a JAL, which is relative, becomes a JMP, which is
  absolute (`src/decoder.cpp:123`). Of ARM64, the masks take AND and EOR for ADD and
  SUB (`src/decoder.cpp:134`) and x0 becomes r0, which is zero. `GuestSimulated` is
  about programs without these.
- Operands of annotations and of PTX are not read. A hardware description without
  annotations gets the C++ fallback, and the default program of its own only when
  its one annotation is `halt` (`src/frontend.cpp:163`).
- An annotated program leaves the registers of its DMA zero, so a `dma_load` replaces
  the program's first line; it ends because `run_fast()` has decoded that line
  before. `EveryProgramHalts` fails if the driver uses `run()`.
- The check of CoreMark's matrix has an empty body (`src/coremark.cpp:47`).
- More than 16 cores share clocks in the deterministic engine, and a quantum of 0
  divides by zero (`deterministic.h:30`).

## 6. Not modelled

The TLM adapter (it forwards a payload to the bus in one step, keeps only its
binding, and nothing uses it); trace, VCD and the GDB stub (output that nothing
reads back, and a stub whose poll does nothing); performance counters and timing
mode (additions the executor never reads); the blocks of `main()` that print single
calls of other interfaces. Of modelled parts: the text recognition of the
frontends and the parameters they put into a target's costs, unaligned and byte
accesses, a cache without sets (`src/cache.cpp:12`; the hierarchy never has one), the
execution of PTX, native and ASIC translations, the PCIe and CXI fabrics (never issued
to), device save/restore (called by nothing), and `snoop_invalidate` and `tlb_shootdown` of the cluster, which act on
TLBs the cores of `Machine` do not have. Wall-clock figures are left out
everywhere.

## 7. Plan

1. Done: the core, its host, the MMU, the cluster, the timing models, kernels and
   devices; the interpreter as abstract specification and the refinement; the
   translator, the loaders and the driver. Proved: every invariant and action property of
   a passing run but `HandshakeInTime`, and the refinement (section 4).
2. A composition of `Mmu` and `Cluster` for shootdowns, and of `Machine` and `Mmu` as
   a refinement: a core with a TLB whose software flushes implements a core with
   `PageMap`.
