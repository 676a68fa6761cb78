----------------------------- MODULE EmulatorProofs -----------------------------
(***************************************************************************)
(* The safety properties of Emulator, for every workload and every value   *)
(* of the constants.                                                       *)
(*                                                                         *)
(* TypeOK and AccumBelowTick hold of every behaviour.  Neither is          *)
(* inductive alone: a step needs the accumulator below a tick to leave it  *)
(* there, the accumulator needs the types, and restore_state() needs both  *)
(* of the snapshot.  On that invariant rest the action properties          *)
(* HaltIsFinal and PreciseTraps, and the properties that hold under a      *)
(* named condition on the guest: the time base (FabricHasRoom), the block  *)
(* cache (CodeKept), the fast path (Quiet) and the fabric                  *)
(* (TransfersShort).  The fast path then implements the interpreter        *)
(* (RefinesInterpreter).                                                   *)
(***************************************************************************)
EXTENDS EmulatorRefinement, MachineProofs

\* A held snapshot was taken with less than a tick accumulated.
SavedBelowTick == saved # << >> => saved[1].accum < CyclesPerTick

Inv == TypeOK /\ AccumBelowTick /\ SavedBelowTick

--------------------------------------------------------------------------------
\* Initially the invariant holds.
LEMMA InitInv == Init => Inv
<1> SUFFICES ASSUME Init PROVE Inv
  OBVIOUS
<1>1. m \in CoreState /\ m.accum < CyclesPerTick
  BY NewCoreType, IsaAssumption DEF Init
<1>2. todo \in Seq(Word)
  BY EmptySeq DEF Init
<1>3. DOMAIN blocks = {}
  BY DEF Init
<1>4. breakpoints \subseteq Word /\ verbose \in BOOLEAN /\ ctl \in Ctl /\ saved = << >>
  BY DEF Init, Ctl
<1> QED
  BY <1>1, <1>2, <1>3, <1>4 DEF Inv, TypeOK, AccumBelowTick, SavedBelowTick

--------------------------------------------------------------------------------
\* Decoded blocks

\* The length of a block: the first place where decoding stops.
LEMMA LengthIsFirst ==
    ASSUME NEW mem, NEW pc
    PROVE  LET n == BlockLength(mem, pc)
           IN  /\ n \in 1 .. MaxBlock /\ StopsAt(mem, pc, n)
               /\ \A j \in 1 .. n - 1 : ~StopsAt(mem, pc, j)
<1> DEFINE T == {k \in 1 .. MaxBlock : StopsAt(mem, pc, k)}
<1>0. MaxBlock \in Nat \ {0}
  BY EmulatorAssumption
<1>1. T \subseteq Nat /\ MaxBlock \in T
  BY <1>0 DEF StopsAt
<1>2. PICK k \in T : \A y \in T : k <= y
  <2> HIDE DEF T
  <2> QED BY <1>1, LeastElement
<1>3. \A j \in 1 .. k - 1 : ~StopsAt(mem, pc, j)
  <2> TAKE j \in 1 .. k - 1
  <2>1. k \in 1 .. MaxBlock
    BY <1>2
  <2>2. j \in 1 .. MaxBlock /\ ~(k <= j)
    BY <1>0, <2>1
  <2>3. j \notin T
    <3> HIDE DEF T
    <3> QED BY <1>2, <2>2
  <2> QED
    BY <2>2, <2>3
<1> QED
  BY <1>2, <1>3 DEF BlockLength

\* translate() produces a sequence of words.
LEMMA BlockType ==
    ASSUME NEW mem \in [Addr -> Word], NEW pc \in Word, Translatable(mem, pc)
    PROVE  DecodedBlock(mem, pc) \in Seq(Word)
<1> DEFINE n == BlockLength(mem, pc)
<1>0. MaxBlock \in Nat \ {0} /\ pc \in Nat /\ MemSize \in Nat
  BY EmulatorAssumption, MachineAssumption, IsaAssumption DEF Word
<1>1. n \in 1 .. MaxBlock
  BY LengthIsFirst
<1>2. pc + n - 1 \in Addr
  BY DEF Translatable
<1> HIDE DEF n
<1>3. \A j \in 1 .. n : mem[pc + j - 1] \in Word
  <2> TAKE j \in 1 .. n
  <2>1. pc + j - 1 \in Addr
    BY <1>0, <1>1, <1>2 DEF Addr
  <2> QED
    BY <2>1
<1>4. DecodedBlock(mem, pc) \in [1 .. n -> Word]
  BY <1>3 DEF DecodedBlock, n
<1> QED
  BY <1>1, <1>4

--------------------------------------------------------------------------------
\* Host calls.  Most of them only touch the core.

\* What is left to show when a step keeps everything but the core and the cache.
CacheTyped == \A a \in DOMAIN blocks : a \in Word /\ blocks[a] \in Seq(Word)

\* A call that keeps all but the core and the cache has only the core to answer for.
LEMMA CoreOnly ==
    ASSUME Inv, m' \in CoreState, m'.accum < CyclesPerTick,
           blocks' = << >> \/ blocks' = blocks,
           UNCHANGED <<breakpoints, verbose, ctl, todo, saved>>
    PROVE  Inv'
<1>1. CacheTyped'
  <2>1. CASE blocks' = << >>
    <3>1. DOMAIN blocks' = {}
      BY <2>1
    <3> QED
      BY <3>1 DEF CacheTyped
  <2>2. CASE blocks' = blocks
    BY <2>2 DEF Inv, TypeOK, CacheTyped
  <2> QED
    BY <2>1, <2>2
<1> QED
  BY <1>1 DEF Inv, TypeOK, CacheTyped, AccumBelowTick, SavedBelowTick

\* reset() and the loading of programs and data.
LEMMA LoadingInv ==
    ASSUME Inv
    PROVE  /\ Reset => Inv'
           /\ \A p \in Programs : LoadProgram(p) => Inv'
           /\ \A image \in RamImages : LoadMainRam(image) => Inv'
           /\ \A w \in Pokes : Poke(w[1], w[2]) => Inv'
           /\ \A a \in Peeks : Peek(a) => Inv'
<1>0. m \in CoreState /\ m.accum < CyclesPerTick /\ CyclesPerTick \in Nat \ {0}
  BY IsaAssumption DEF Inv, TypeOK, AccumBelowTick
<1>1. Reset => Inv'
  <2> SUFFICES ASSUME Reset PROVE Inv'
    OBVIOUS
  <2> DEFINE d == [NewCore EXCEPT !.timer = m.timer, !.tx = m.tx, !.target = m.target]
  <2>1. m.timer \in Timer /\ m.tx \in Seq(Word) /\ m.target \in Target
    BY <1>0 DEF CoreState
  <2>2. d \in CoreState /\ d.accum = NewCore.accum
    BY <2>1, NewCoreType DEF CoreState
  <2>3. m' \in CoreState /\ m'.accum < CyclesPerTick
    BY <1>0, <2>2, NewCoreType DEF Reset
  <2>4. /\ blocks' = << >> /\ breakpoints' = {} /\ verbose' = FALSE
        /\ UNCHANGED <<ctl, todo, saved>>
    BY DEF Reset
  <2>5. CacheTyped'
    <3>1. DOMAIN blocks' = {}
      BY <2>4
    <3> QED
      BY <3>1 DEF CacheTyped
  <2>6. breakpoints' \subseteq Word /\ verbose' \in BOOLEAN
    BY <2>4
  <2> QED
    BY <2>3, <2>4, <2>5, <2>6 DEF Inv, TypeOK, CacheTyped, AccumBelowTick, SavedBelowTick
<1>2. ASSUME NEW p \in Programs, LoadProgram(p) PROVE Inv'
  <2> DEFINE f == [a \in Addr |-> IF a < Len(p) THEN p[a + 1] ELSE m.mem[a]]
  <2>1. p \in Seq(Word) /\ m.mem \in [Addr -> Word] /\ Len(p) \in Nat
    BY <1>0, EmulatorAssumption, LenProperties DEF CoreState
  <2>2. \A a \in Addr : a < Len(p) => p[a + 1] \in Word
    <3> TAKE a \in Addr
    <3>1. a \in Nat
      BY MachineAssumption, IsaAssumption DEF Addr
    <3>2. a < Len(p) => a + 1 \in 1 .. Len(p)
      BY <2>1, <3>1
    <3> QED
      BY <2>1, <3>2, ElementOfSeq
  <2>3. f \in [Addr -> Word]
    BY <2>1, <2>2
  <2> HIDE DEF f
  <2>4. Same([m EXCEPT !.mem = f], m)
    BY <1>0, <2>3, Updates
  <2>5. m' = [m EXCEPT !.mem = f]
    BY <1>2 DEF LoadProgram, f
  <2>6. m' \in CoreState /\ m'.accum < CyclesPerTick
    BY <1>0, <2>4, <2>5 DEF Same
  <2> QED
    BY <1>2, <2>6, CoreOnly DEF LoadProgram
<1>3. ASSUME NEW image \in RamImages, LoadMainRam(image) PROVE Inv'
  <2>1. image \in [RamAddr -> Word]
    BY EmulatorAssumption
  <2>2. m' = [m EXCEPT !.ram = image]
    BY <1>3 DEF LoadMainRam
  <2>3. m' \in CoreState /\ m'.accum < CyclesPerTick
    BY <1>0, <2>1, <2>2 DEF CoreState
  <2> QED
    BY <1>3, <2>3, CoreOnly DEF LoadMainRam
<1>4. ASSUME NEW w \in Pokes, Poke(w[1], w[2]) PROVE Inv'
  <2>1. w[2] \in Word /\ BusMapped(w[1])
    BY <1>4, EmulatorAssumption DEF Poke
  <2>2. Same(bus_write(m, w[1], w[2]), m)
    BY <1>0, <2>1, BusWriteType
  <2>3. m' \in CoreState /\ m'.accum < CyclesPerTick
    BY <1>0, <1>4, <2>2 DEF Poke, Same
  <2> QED
    BY <1>4, <2>3, CoreOnly DEF Poke
<1>5. ASSUME NEW a \in Peeks, Peek(a) PROVE Inv'
  <2>1. Same(bus_read(m, a), m)
    BY <1>0, BusReadType
  <2>2. m' \in CoreState /\ m'.accum < CyclesPerTick
    BY <1>0, <1>5, <2>1 DEF Peek, Same
  <2> QED
    BY <1>5, <2>2, CoreOnly DEF Peek
<1> QED
  BY <1>1, <1>2, <1>3, <1>4, <1>5

\* The host's writes to registers, CSRs, interrupt lines and the MMU.
LEMMA RegisterInv ==
    ASSUME Inv
    PROVE  /\ \A w \in GprWrites : WriteGpr(w[1], w[2]) => Inv'
           /\ \A t \in Targets : SetTarget(t) => Inv'
           /\ \A v \in Vectors : WriteMtvec(v) => Inv'
           /\ \A mask \in IeMasks : WriteMie(mask) => Inv'
           /\ \A l \in HostLines : (RaiseLine(l) \/ ClearLine(l)) => Inv'
           /\ HostMret => Inv'
           /\ \A b \in MmuSettings : SetMmu(b) => Inv'
<1>0. m \in CoreState /\ m.accum < CyclesPerTick
  BY DEF Inv, TypeOK, AccumBelowTick
<1>1. ASSUME NEW w \in GprWrites, WriteGpr(w[1], w[2]) PROVE Inv'
  <2>1. w[2] \in Word
    BY EmulatorAssumption
  <2>2. write_gpr(m.gpr, w[1], w[2]) \in [Gpr -> Word]
    BY <1>0, <2>1, WriteGprType DEF CoreState
  <2>3. Same([m EXCEPT !.gpr = write_gpr(m.gpr, w[1], w[2])], m)
    BY <1>0, <2>2, Updates
  <2>4. m' \in CoreState /\ m'.accum < CyclesPerTick
    BY <1>0, <1>1, <2>3 DEF WriteGpr, Same
  <2> QED
    BY <1>1, <2>4, CoreOnly DEF WriteGpr
<1>2. ASSUME NEW t \in Targets, SetTarget(t) PROVE Inv'
  <2>1. t \in Target /\ m' = [m EXCEPT !.target = t]
    BY <1>2, EmulatorAssumption DEF SetTarget
  <2>2. m' \in CoreState /\ m'.accum < CyclesPerTick
    BY <1>0, <2>1 DEF CoreState
  <2> QED
    BY <1>2, <2>2, CoreOnly DEF SetTarget
<1>3. ASSUME NEW s \in Csr
      PROVE  [m EXCEPT !.csr = s] \in CoreState /\ [m EXCEPT !.csr = s].accum = m.accum
  BY <1>0 DEF CoreState
<1>4. ASSUME NEW v \in Vectors, WriteMtvec(v) PROVE Inv'
  <2>1. v[1] \in Word /\ v[2] \in BOOLEAN /\ m.csr \in Csr
    BY <1>0, EmulatorAssumption DEF CoreState
  <2>2. [m.csr EXCEPT !.mtvec = v[1], !.vectored = v[2]] \in Csr
    BY <2>1 DEF Csr
  <2>3. m' = [m EXCEPT !.csr = [m.csr EXCEPT !.mtvec = v[1], !.vectored = v[2]]]
    BY <1>0, <1>4 DEF WriteMtvec, CoreState
  <2>4. m' \in CoreState /\ m'.accum < CyclesPerTick
    BY <1>0, <1>3, <2>2, <2>3
  <2> QED
    BY <1>4, <2>4, CoreOnly DEF WriteMtvec
<1>5. ASSUME NEW mask \in IeMasks, WriteMie(mask) PROVE Inv'
  <2>1. mask \in SUBSET Line /\ m.csr \in Csr
    BY <1>0, EmulatorAssumption DEF CoreState
  <2>2. [m.csr EXCEPT !.mie = TRUE, !.ie = mask] \in Csr
    BY <2>1 DEF Csr
  <2>3. m' = [m EXCEPT !.csr = [m.csr EXCEPT !.mie = TRUE, !.ie = mask]]
    BY <1>0, <1>5 DEF WriteMie, CoreState
  <2>4. m' \in CoreState /\ m'.accum < CyclesPerTick
    BY <1>0, <1>3, <2>2, <2>3
  <2> QED
    BY <1>5, <2>4, CoreOnly DEF WriteMie
<1>6. ASSUME NEW l \in HostLines, RaiseLine(l) \/ ClearLine(l) PROVE Inv'
  <2>1. m.mip \cup {l} \in SUBSET Line /\ m.mip \ {l} \in SUBSET Line
    BY <1>0, EmulatorAssumption DEF CoreState, Line
  <2>2. ASSUME NEW s \in SUBSET Line
        PROVE  [m EXCEPT !.mip = s] \in CoreState /\ [m EXCEPT !.mip = s].accum = m.accum
    BY <1>0 DEF CoreState
  <2>3. PICK s \in {m.mip \cup {l}, m.mip \ {l}} : m' = [m EXCEPT !.mip = s]
    BY <1>6 DEF RaiseLine, ClearLine
  <2>4. m' \in CoreState /\ m'.accum < CyclesPerTick
    BY <1>0, <2>1, <2>2, <2>3, Zenon
  <2> QED
    BY <1>6, <2>4, CoreOnly DEF RaiseLine, ClearLine
<1>7. ASSUME HostMret PROVE Inv'
  <2>1. m.csr \in Csr
    BY <1>0 DEF CoreState
  <2>2. mret(m.csr) \in Csr
    BY <2>1 DEF mret, Csr, Priv
  <2>3. m' = [m EXCEPT !.csr = mret(m.csr)]
    BY <1>7 DEF HostMret
  <2>4. m' \in CoreState /\ m'.accum < CyclesPerTick
    BY <1>0, <1>3, <2>2, <2>3
  <2> QED
    BY <1>7, <2>4, CoreOnly DEF HostMret
<1>8. ASSUME NEW b \in MmuSettings, SetMmu(b) PROVE Inv'
  <2>1. b \in BOOLEAN /\ m' = [m EXCEPT !.mmu = b]
    BY <1>8, EmulatorAssumption DEF SetMmu
  <2>2. m' \in CoreState /\ m'.accum < CyclesPerTick
    BY <1>0, <2>1 DEF CoreState
  <2> QED
    BY <1>8, <2>2, CoreOnly DEF SetMmu
<1> QED
  BY <1>1, <1>2, <1>4, <1>5, <1>6, <1>7, <1>8

\* Breakpoints, verbosity and snapshots.
LEMMA DebugInv ==
    ASSUME Inv
    PROVE  /\ \A a \in BreakSites : (AddBreakpoint(a) \/ RemoveBreakpoint(a)) => Inv'
           /\ ClearBreakpoints => Inv'
           /\ \A v \in VerboseSettings : SetVerbose(v) => Inv'
           /\ SaveState => Inv'
           /\ RestoreState => Inv'
<1>0. m \in CoreState /\ m.accum < CyclesPerTick
  BY DEF Inv, TypeOK, AccumBelowTick
<1>1. ASSUME NEW a \in BreakSites, AddBreakpoint(a) \/ RemoveBreakpoint(a) PROVE Inv'
  <2>1. breakpoints' \subseteq Word /\ UNCHANGED <<m, blocks, verbose, ctl, todo, saved>>
    BY <1>1, EmulatorAssumption DEF AddBreakpoint, RemoveBreakpoint, Inv, TypeOK
  <2> QED
    BY <2>1 DEF Inv, TypeOK, AccumBelowTick, SavedBelowTick
<1>2. ASSUME NEW v \in VerboseSettings, SetVerbose(v) PROVE Inv'
  <2>1. verbose' \in BOOLEAN /\ UNCHANGED <<m, blocks, breakpoints, ctl, todo, saved>>
    BY <1>2, EmulatorAssumption DEF SetVerbose
  <2> QED
    BY <2>1 DEF Inv, TypeOK, AccumBelowTick, SavedBelowTick
<1>3. ASSUME SaveState PROVE Inv'
  <2>1. save_state(m) \in Snapshot /\ save_state(m).accum = m.accum
    BY <1>0 DEF save_state, Snapshot, CoreState
  <2>2. saved' = <<save_state(m)>> /\ UNCHANGED <<m, blocks, breakpoints, verbose, ctl, todo>>
    BY <1>3 DEF SaveState
  <2>3. Len(saved') = 1 /\ saved'[1] = save_state(m)
    BY <2>2
  <2> QED
    BY <1>0, <2>1, <2>2, <2>3 DEF Inv, TypeOK, AccumBelowTick, SavedBelowTick
<1>4. ASSUME RestoreState PROVE Inv'
  <2> DEFINE s == saved[1]
  <2>1. s \in Snapshot /\ s.accum < CyclesPerTick
    BY <1>4 DEF RestoreState, Inv, TypeOK, SavedBelowTick
  <2> HIDE DEF s
  <2>2. [s.gpr EXCEPT ![0] = 0] \in [Gpr -> Word]
    BY <2>1, SmallWords DEF Snapshot
  <2>3. restore_state(m, s) \in CoreState /\ restore_state(m, s).accum = s.accum
    BY <1>0, <2>1, <2>2 DEF restore_state, Snapshot, CoreState
  <2>4. m' = restore_state(m, s)
    BY <1>4 DEF RestoreState, s
  <2>5. m' \in CoreState /\ m'.accum < CyclesPerTick
    BY <2>1, <2>3, <2>4
  <2> QED
    BY <1>4, <2>5, CoreOnly DEF RestoreState
<1>5. ASSUME ClearBreakpoints PROVE Inv'
  <2>1. breakpoints' \subseteq Word /\ UNCHANGED <<m, blocks, verbose, ctl, todo, saved>>
    BY <1>5 DEF ClearBreakpoints
  <2> QED
    BY <2>1 DEF Inv, TypeOK, AccumBelowTick, SavedBelowTick
<1> QED
  BY <1>1, <1>2, <1>3, <1>4, <1>5

--------------------------------------------------------------------------------
\* Execution

\* A call that ends hands the thread to its caller, the host or nobody.
LEMMA AfterType ==
    ASSUME NEW end \in Outcome, NEW next \in Ctl
    PROVE  After(end, next) \in Ctl
BY DEF Outcome, After, Ctl

\* One call of step().
LEMMA StepFromInv ==
    ASSUME Inv, NEW next \in Ctl, StepFrom(next)
    PROVE  Inv'
<1> DEFINE r == step(m)
<1>0. m \in CoreState /\ m.accum < CyclesPerTick
  BY DEF Inv, TypeOK, AccumBelowTick
<1>1. Settled(r)
  BY <1>0, StepSettled
<1>2. /\ m' = r.m /\ ctl' = After(r.end, next)
      /\ UNCHANGED <<blocks, breakpoints, verbose, todo, saved>>
  BY DEF StepFrom
<1> HIDE DEF r
<1>3. ctl' \in Ctl
  BY <1>1, <1>2, AfterType DEF Settled
<1> QED
  BY <1>1, <1>2, <1>3 DEF Settled, Inv, TypeOK, AccumBelowTick, SavedBelowTick

\* run() and the control part of run_fast().
LEMMA LoopInv ==
    ASSUME Inv
    PROVE  /\ StepCall => Inv'
           /\ \A entry \in Entries : CallRun(entry) => Inv'
           /\ RunStep => Inv'
           /\ RunReturn => Inv'
           /\ BlockHit => Inv'
           /\ BlockDone => Inv'
<1>0. m \in CoreState /\ m.accum < CyclesPerTick /\ ctl \in Ctl
  BY DEF Inv, TypeOK, AccumBelowTick
<1>1. StepCall => Inv'
  BY StepFromInv DEF StepCall, Ctl
<1>2. ASSUME NEW entry \in Entries, CallRun(entry) PROVE Inv'
  <2>1. ctl' \in Ctl /\ UNCHANGED <<m, blocks, breakpoints, verbose, todo, saved>>
    BY <1>2, EmulatorAssumption DEF CallRun, Ctl
  <2> QED
    BY <2>1 DEF Inv, TypeOK, AccumBelowTick, SavedBelowTick
<1>3. RunStep => Inv'
  BY <1>0, StepFromInv DEF RunStep
<1>4. ASSUME RunReturn PROVE Inv'
  <2>1. << >> \in Seq(Word)
    BY EmptySeq
  <2>2. Same([m EXCEPT !.tx = << >>], m)
    BY <1>0, <2>1, Updates
  <2>3. m' \in CoreState /\ m'.accum < CyclesPerTick
    BY <1>0, <1>4, <2>2 DEF RunReturn, Same
  <2>4. ctl' \in Ctl /\ UNCHANGED <<blocks, breakpoints, verbose, todo, saved>>
    BY <1>4 DEF RunReturn, Ctl
  <2> QED
    BY <2>3, <2>4 DEF Inv, TypeOK, AccumBelowTick, SavedBelowTick
<1>5. ASSUME BlockHit PROVE Inv'
  <2>1. ctl' \in Ctl /\ todo' \in Seq(Word)
    BY <1>5 DEF BlockHit, Ctl, Inv, TypeOK
  <2>2. UNCHANGED <<m, blocks, breakpoints, verbose, saved>>
    BY <1>5 DEF BlockHit
  <2> QED
    BY <2>1, <2>2 DEF Inv, TypeOK, AccumBelowTick, SavedBelowTick
<1>6. ASSUME BlockDone PROVE Inv'
  <2>1. ctl' \in Ctl /\ todo' \in Seq(Word)
    BY <1>6, EmptySeq DEF BlockDone, Ctl
  <2>2. UNCHANGED <<m, blocks, breakpoints, verbose, saved>>
    BY <1>6 DEF BlockDone
  <2> QED
    BY <2>1, <2>2 DEF Inv, TypeOK, AccumBelowTick, SavedBelowTick
<1> QED
  BY <1>1, <1>2, <1>3, <1>4, <1>5, <1>6

\* run_fast() decodes a block.
LEMMA BlockMissInv ==
    ASSUME Inv, BlockMiss
    PROVE  Inv'
<1> DEFINE blk == DecodedBlock(m.mem, m.pc)
<1>0. m.mem \in [Addr -> Word] /\ m.pc \in Word /\ CacheTyped
  BY DEF Inv, TypeOK, CoreState, CacheTyped
<1>1. UNCHANGED <<m, breakpoints, verbose, saved>>
  BY DEF BlockMiss
<1>2. CASE Translatable(m.mem, m.pc)
  <2>1. blk \in Seq(Word)
    BY <1>0, <1>2, BlockType
  <2>2. /\ blocks' = [a \in DOMAIN blocks \cup {m.pc} |-> IF a = m.pc THEN blk ELSE blocks[a]]
        /\ todo' = blk /\ ctl' = "block"
    BY <1>2 DEF BlockMiss
  <2> HIDE DEF blk
  <2>3. CacheTyped'
    BY <1>0, <2>1, <2>2 DEF CacheTyped
  <2>4. todo' \in Seq(Word) /\ ctl' \in Ctl
    BY <2>1, <2>2 DEF Ctl
  <2> QED
    BY <1>1, <2>3, <2>4 DEF Inv, TypeOK, CacheTyped, AccumBelowTick, SavedBelowTick
<1>3. CASE ~Translatable(m.mem, m.pc)
  <2>1. ctl' \in Ctl /\ UNCHANGED <<blocks, todo>>
    BY <1>3 DEF BlockMiss, Ctl
  <2> QED
    BY <1>1, <2>1 DEF Inv, TypeOK, AccumBelowTick, SavedBelowTick
<1> QED
  BY <1>2, <1>3

\* run_fast() executes an operation of the block.
LEMMA BlockOpInv ==
    ASSUME Inv, BlockOp
    PROVE  Inv'
<1> DEFINE r == fast_op(m, Head(todo))
<1>0. /\ m \in CoreState /\ m.accum < CyclesPerTick
      /\ todo \in Seq(Word) /\ todo # << >>
  BY DEF Inv, TypeOK, AccumBelowTick, BlockOp
<1>1. Head(todo) \in Word /\ Tail(todo) \in Seq(Word) /\ << >> \in Seq(Word)
  BY <1>0, HeadTailProperties, EmptySeq
<1>2. Settled(r)
  BY <1>0, <1>1, FastOpSettled
<1> HIDE DEF r
<1>3. /\ m' = r.m
      /\ ctl' = After(r.end, "run_fast") \/ ctl' = After(r.end, "block")
      /\ todo' = << >> \/ todo' = Tail(todo)
      /\ UNCHANGED <<blocks, breakpoints, verbose, saved>>
  BY DEF BlockOp, r
<1>4. ctl' \in Ctl
  <2>1. "run_fast" \in Ctl /\ "block" \in Ctl
    BY DEF Ctl
  <2> QED
    BY <1>2, <1>3, <2>1, AfterType DEF Settled
<1>5. todo' \in Seq(Word)
  BY <1>1, <1>3
<1> QED
  BY <1>2, <1>3, <1>4, <1>5 DEF Settled, Inv, TypeOK, AccumBelowTick, SavedBelowTick

--------------------------------------------------------------------------------
\* Every step preserves the invariant.
LEMMA NextInv == Inv /\ [Next]_vars => Inv'
<1> SUFFICES ASSUME Inv, [Next]_vars PROVE Inv'
  OBVIOUS
<1>1. CASE HostCall
  BY <1>1, LoadingInv, RegisterInv, DebugInv, LoopInv DEF HostCall
<1>2. CASE Running
  BY <1>2, LoopInv, BlockMissInv, BlockOpInv DEF Running
<1>3. CASE AtBound \/ UNCHANGED vars
  BY <1>3 DEF AtBound, vars, Inv, TypeOK, AccumBelowTick, SavedBelowTick
<1> QED
  BY <1>1, <1>2, <1>3 DEF Next

\* The inductive invariant holds in every reachable state.
THEOREM Invariance == Spec => []Inv
BY InitInv, NextInv, PTL DEF Spec

\* Every core state the emulator reaches is well typed: the program counter, the
\* registers and the memories hold words, r0 included, after every instruction,
\* trap, exception, host call and restored snapshot (src/emulator.cpp).
THEOREM TypeCorrect == Spec => []TypeOK
<1>1. Inv => TypeOK
  BY DEF Inv
<1> QED
  BY <1>1, Invariance, PTL

\* Less than one tick is accumulated between instructions, so the loop of
\* tick_peripherals (src/emulator.cpp:646) runs at most once per instruction and
\* never falls behind, for every program, workload and target.
THEOREM NoTickOwed == Spec => []AccumBelowTick
<1>1. Inv => AccumBelowTick
  BY DEF Inv
<1> QED
  BY <1>1, Invariance, PTL

--------------------------------------------------------------------------------
\* Halted cores and precise traps

\* A core the host has touched between instructions: the clock, the pc, the halt flag,
\* the fabric and the cause of the last trap are as they were.
AtRest(d, c) ==
    /\ d.halt = c.halt /\ d.pc = c.pc /\ d.prof = c.prof /\ d.accum = c.accum
    /\ d.axi = c.axi /\ d.csr.mcause = c.csr.mcause

\* Every call of the host but reset(), restore_state() and step() leaves it that way.
LEMMA HostAtRest ==
    ASSUME Inv, HostCall, ~Reset, ~RestoreState, ~StepCall
    PROVE  AtRest(m', m) /\ (saved' = saved \/ SaveState)
<1>0. m \in CoreState /\ m.csr \in Csr
  BY DEF Inv, TypeOK, CoreState
<1>1. ASSUME NEW p \in Programs, LoadProgram(p) PROVE AtRest(m', m) /\ saved' = saved
  BY <1>0, <1>1 DEF LoadProgram, AtRest, CoreState
<1>2. ASSUME NEW image \in RamImages, LoadMainRam(image) PROVE AtRest(m', m) /\ saved' = saved
  BY <1>0, <1>2 DEF LoadMainRam, AtRest, CoreState
<1>3. ASSUME NEW w \in Pokes, Poke(w[1], w[2]) PROVE AtRest(m', m) /\ saved' = saved
  BY <1>0, <1>3 DEF Poke, AtRest, CoreState, bus_write
<1>4. ASSUME NEW a \in Peeks, Peek(a) PROVE AtRest(m', m) /\ saved' = saved
  BY <1>0, <1>4 DEF Peek, AtRest, CoreState, bus_read
<1>5. ASSUME NEW w \in GprWrites, WriteGpr(w[1], w[2]) PROVE AtRest(m', m) /\ saved' = saved
  BY <1>0, <1>5 DEF WriteGpr, AtRest, CoreState
<1>6. ASSUME NEW t \in Targets, SetTarget(t) PROVE AtRest(m', m) /\ saved' = saved
  BY <1>0, <1>6 DEF SetTarget, AtRest, CoreState
<1>7. ASSUME NEW v \in Vectors, WriteMtvec(v) PROVE AtRest(m', m) /\ saved' = saved
  BY <1>0, <1>7 DEF WriteMtvec, AtRest, CoreState, Csr
<1>8. ASSUME NEW mask \in IeMasks, WriteMie(mask) PROVE AtRest(m', m) /\ saved' = saved
  BY <1>0, <1>8 DEF WriteMie, AtRest, CoreState, Csr
<1>9. ASSUME NEW l \in HostLines, RaiseLine(l) \/ ClearLine(l) PROVE AtRest(m', m) /\ saved' = saved
  BY <1>0, <1>9 DEF RaiseLine, ClearLine, AtRest, CoreState
<1>10. ASSUME HostMret PROVE AtRest(m', m) /\ saved' = saved
  <2>1. mret(m.csr).mcause = m.csr.mcause
    BY <1>0 DEF mret, Csr
  <2> QED
    BY <1>0, <1>10, <2>1 DEF HostMret, AtRest, CoreState
<1>11. ASSUME NEW b \in MmuSettings, SetMmu(b) PROVE AtRest(m', m) /\ saved' = saved
  BY <1>0, <1>11 DEF SetMmu, AtRest, CoreState
<1>12. ASSUME \/ \E a \in BreakSites : AddBreakpoint(a) \/ RemoveBreakpoint(a)
              \/ ClearBreakpoints \/ SaveState
              \/ \E v \in VerboseSettings : SetVerbose(v)
              \/ \E entry \in Entries : CallRun(entry)
       PROVE  AtRest(m', m) /\ (saved' = saved \/ SaveState)
  BY <1>12 DEF AddBreakpoint, RemoveBreakpoint, ClearBreakpoints, SaveState, SetVerbose, CallRun,
               AtRest
<1> QED
  BY <1>1, <1>2, <1>3, <1>4, <1>5, <1>6, <1>7, <1>8, <1>9, <1>10, <1>11, <1>12 DEF HostCall

\* So do the parts of the loops that execute nothing.
LEMMA LoopAtRest ==
    ASSUME Inv, RunReturn \/ BlockHit \/ BlockMiss \/ BlockDone \/ AtBound \/ UNCHANGED vars
    PROVE  AtRest(m', m) /\ saved' = saved
<1>0. m \in CoreState
  BY DEF Inv, TypeOK
<1>1. CASE RunReturn
  BY <1>0, <1>1 DEF RunReturn, AtRest, CoreState
<1>2. CASE BlockHit \/ BlockMiss \/ BlockDone \/ AtBound \/ UNCHANGED vars
  BY <1>2 DEF BlockHit, BlockMiss, BlockDone, AtBound, vars, AtRest
<1> QED
  BY <1>1, <1>2

\* A halted core executes nothing until reset() or restore_state(), whichever entry
\* the host calls and whatever it writes (step, run, run_fast and the halt flag).
THEOREM HaltsForGood == Spec => HaltIsFinal
<1>1. ASSUME Inv, [Next]_vars, m.halt, ~(Reset \/ RestoreState)
      PROVE  m'.halt /\ m'.pc = m.pc /\ m'.prof = m.prof /\ m'.csr.mcause = m.csr.mcause
  <2>1. CASE RunStep \/ BlockOp
    BY <1>1, <2>1 DEF RunStep, BlockOp, Stopped
  <2>2. CASE StepCall
    <3>1. step(m) = Ok(m, 0)
      BY <1>1 DEF step
    <3>2. m' = m
      BY <2>2, <3>1 DEF StepCall, StepFrom, Ok
    <3> QED
      BY <1>1, <3>2
  <2>3. CASE HostCall /\ ~StepCall
    BY <1>1, <2>3, HostAtRest DEF AtRest
  <2>4. CASE RunReturn \/ BlockHit \/ BlockMiss \/ BlockDone \/ AtBound \/ UNCHANGED vars
    BY <1>1, <2>4, LoopAtRest DEF AtRest
  <2> QED
    BY <1>1, <2>1, <2>2, <2>3, <2>4 DEF Next, Running
<1>2. Inv /\ [Next]_vars =>
        [m.halt /\ ~(Reset \/ RestoreState) =>
           m'.halt /\ m'.pc = m.pc /\ m'.prof = m.prof /\ m'.csr.mcause = m.csr.mcause]_vars
  BY <1>1
<1> QED
  BY <1>2, Invariance, PTL DEF Spec, HaltIsFinal

\* One execution of the core, from step() or from a block, leaves a trap's state precise.
LEMMA TrapIsPrecise ==
    ASSUME Inv, Executes, ~m.halt, m'.csr # m.csr, m'.csr.mcause \in Exception
    PROVE  /\ m'.csr.mepc = ExecutedPc /\ m'.pc = m.csr.mtvec /\ Preserved(m', m)
           /\ Len(m'.axi.pending) <= Len(m.axi.pending)
<1>0. m \in CoreState /\ m.csr \in Csr /\ m.pc \in Word /\ todo \in Seq(Word)
  BY DEF Inv, TypeOK, CoreState
<1>1. CASE RunStep \/ StepCall
  <2> DEFINE d == step(m).m
  <2>1. m' = d /\ ctl # "block"
    BY <1>1 DEF RunStep, StepCall, StepFrom
  <2>2. CsrStep(d, m, enter_interrupt(m).pc)
    BY <1>0, StepFrame
  <2> HIDE DEF d
  <2>3. ASSUME NEW t \in Trap, t.cause \in Line, d.csr = take_trap(m.csr, t) PROVE FALSE
    <3>1. d.csr.mcause = t.cause
      BY <1>0, <2>3, TakeTrapFields
    <3> QED
      BY <2>1, <2>3, <3>1 DEF Line, Exception
  <2> QED
    BY <2>1, <2>2, <2>3 DEF CsrStep, ExecutedPc
<1>2. CASE BlockOp
  <2> DEFINE c == [m EXCEPT !.pc = Plus(m.pc, 1)]
             w == Head(todo)
             d == Ticked(execute(c, w)).m
  <2>1. m' = d /\ ctl = "block" /\ w \in Word
    <3>1. todo # << >> /\ ctl = "block" /\ m' = fast_op(m, w).m
      BY <1>2 DEF BlockOp
    <3> QED
      BY <1>0, <3>1, HeadTailProperties DEF fast_op
  <2>2. /\ c \in CoreState /\ c.pc = Plus(m.pc, 1) /\ c.csr = m.csr /\ c.axi = m.axi
        /\ Preserved(m, c)
    <3>1. Plus(m.pc, 1) \in Word
      BY <1>0, ArithmeticType, SmallWords
    <3> QED
      BY <1>0, <3>1 DEF CoreState, Preserved
  <2> HIDE DEF c, w
  <2>3. d.csr = c.csr \/ TrapTaken(d, c, Minus(c.pc, 1))
    BY <2>1, <2>2, TickedFrame
  <2> HIDE DEF d
  <2>4. Minus(c.pc, 1) = m.pc
    BY <1>0, <2>2, MinusPlus
  <2>5. TrapTaken(d, c, m.pc)
    BY <2>1, <2>2, <2>3, <2>4
  <2>6. d.csr.mepc = m.pc
    BY <1>0, <2>2, <2>5, TakeTrapFields DEF TrapTaken
  <2> QED
    BY <2>1, <2>2, <2>5, <2>6 DEF TrapTaken, Preserved, ExecutedPc
<1> QED
  BY <1>1, <1>2 DEF Executes

\* Exceptions are precise for every program, page map, workload and trap vector: an
\* instruction that faults in step() or inside a block of run_fast(), at the head of an
\* interrupt handler too, has no effect but the trap (fetch, execute and the fault paths
\* of op_load, op_store, op_dma_load and op_dma_store).
THEOREM TrapsArePrecise == Spec => PreciseTraps
<1>1. Inv /\ [Next]_vars =>
        [Executes /\ ~m.halt /\ m'.csr # m.csr /\ m'.csr.mcause \in Exception =>
           /\ m'.csr.mepc = ExecutedPc
           /\ m'.pc = m.csr.mtvec
           /\ m'.gpr = m.gpr /\ m'.vr = m.vr /\ m'.zero = m.zero
           /\ m'.mem = m.mem /\ m'.ram = m.ram
           /\ Len(m'.axi.pending) <= Len(m.axi.pending)]_vars
  BY TrapIsPrecise DEF Preserved
<1> QED
  BY <1>1, Invariance, PTL DEF Spec, PreciseTraps

--------------------------------------------------------------------------------
\* The time base

\* Counting on by the same number keeps an accumulator below a tick congruent.
LEMMA ClockedModulo ==
    ASSUME NEW c \in CoreState, NEW d \in CoreState, NEW w, Clocked(d, c, w), ~Refuses(c, w),
           c.prof.cycles % CyclesPerTick = c.accum, d.accum < CyclesPerTick
    PROVE  d.prof.cycles % CyclesPerTick = d.accum
<1> DEFINE l == CyclesPerTick
           e == c.prof.cycles \div l
<1>1. PICK k \in Nat : /\ d.accum = c.accum + k \/ d.accum = c.accum + k - l
                       /\ d.prof.cycles = c.prof.cycles + k
  BY DEF Clocked
<1>2. l \in Nat \ {0} /\ c.prof.cycles \in Nat /\ c.accum \in Nat /\ d.accum \in Nat
  BY IsaAssumption DEF CoreState, Profile
<1>3. e \in Nat /\ c.prof.cycles = l * e + c.accum
  BY <1>2
<1> HIDE DEF e
<1>4. l * e \in Nat /\ l * (e + 1) = l * e + l
  BY <1>2, <1>3
<1>5. CASE d.accum = c.accum + k
  <2>1. d.prof.cycles = l * e + d.accum
    BY <1>1, <1>2, <1>3, <1>4, <1>5
  <2> QED
    BY <1>2, <1>3, <2>1, DivisionUnique
<1>6. CASE d.accum = c.accum + k - l
  <2>1. d.prof.cycles = l * (e + 1) + d.accum /\ e + 1 \in Nat
    BY <1>1, <1>2, <1>3, <1>4, <1>6
  <2> QED
    BY <1>2, <2>1, DivisionUnique
<1> QED
  BY <1>1, <1>5, <1>6

\* The word an execution dispatches, from a block or fetched by step().
ExecutedWord == IF ctl = "block" THEN Head(todo) ELSE FetchedWord(m)

\* step() of a halted core executes nothing.
Dispatches == Executes /\ ~m.halt

\* Every execution advances the profiler's clock and the accumulator together.
LEMMA ExecutesClocked ==
    ASSUME Inv, Dispatches
    PROVE  Clocked(m', m, ExecutedWord)
<1>0. m \in CoreState /\ m.pc \in Word /\ todo \in Seq(Word)
  BY DEF Inv, TypeOK, CoreState
<1>1. CASE RunStep \/ StepCall
  <2>1. m' = step(m).m /\ ExecutedWord = FetchedWord(m)
    BY <1>1 DEF RunStep, StepCall, StepFrom, ExecutedWord
  <2> QED
    BY <1>0, <2>1, StepFrame DEF Dispatches
<1>2. CASE BlockOp
  <2> DEFINE c == [m EXCEPT !.pc = Plus(m.pc, 1)]
             w == Head(todo)
  <2>1. m' = Ticked(execute(c, w)).m /\ w \in Word /\ ExecutedWord = w
    <3>1. todo # << >> /\ m' = fast_op(m, w).m /\ ExecutedWord = w
      BY <1>2 DEF BlockOp, ExecutedWord
    <3> QED
      BY <1>0, <3>1, HeadTailProperties DEF fast_op
  <2>2. /\ c \in CoreState /\ c.prof = m.prof /\ c.accum = m.accum /\ c.axi = m.axi
    <3>1. Plus(m.pc, 1) \in Word
      BY <1>0, ArithmeticType, SmallWords
    <3> QED
      BY <1>0, <3>1 DEF CoreState
  <2> HIDE DEF c, w
  <2>3. Clocked(m', c, w)
    BY <2>1, <2>2, TickedFrame
  <2> QED
    BY <2>1, <2>2, <2>3 DEF Clocked, Refuses
<1> QED
  BY <1>1, <1>2 DEF Dispatches, Executes

\* The time base of a held snapshot.
SavedTimeBase == saved # << >> => saved[1].prof.cycles % CyclesPerTick = saved[1].accum

\* The fabric has room whenever a DMA_LOAD is executed.
FabricHasRoom == [][Dispatches => ~Refuses(m, ExecutedWord)]_vars

\* The time base is inductive together with that of the snapshot.
LEMMA NextTimeBase ==
    ASSUME Inv, Inv', TimeBase, SavedTimeBase, [Next]_vars,
           Dispatches => ~Refuses(m, ExecutedWord)
    PROVE  TimeBase' /\ SavedTimeBase'
<1>0. /\ m \in CoreState /\ m' \in CoreState /\ m'.accum < CyclesPerTick
      /\ CyclesPerTick \in Nat \ {0}
  BY IsaAssumption DEF Inv, TypeOK, AccumBelowTick
<1>1. CASE Dispatches
  <2>1. Clocked(m', m, ExecutedWord)
    BY <1>1, ExecutesClocked
  <2>2. saved' = saved
    BY <1>1 DEF Dispatches, Executes, RunStep, StepCall, StepFrom, BlockOp
  <2> QED
    BY <1>0, <1>1, <2>1, <2>2, ClockedModulo DEF TimeBase, SavedTimeBase
<1>2. CASE Executes /\ m.halt
  <2>1. StepCall
    BY <1>2 DEF Executes, RunStep, BlockOp, Stopped
  <2>2. step(m) = Ok(m, 0)
    BY <1>2 DEF step
  <2>3. m' = m /\ saved' = saved
    BY <2>1, <2>2 DEF StepCall, StepFrom, Ok
  <2> QED
    BY <2>3 DEF TimeBase, SavedTimeBase
<1>3. CASE Reset
  <2>1. m'.prof.cycles = 0 /\ m'.accum = 0 /\ saved' = saved
    BY <1>3, NewCoreType DEF Reset, CoreState
  <2> QED
    BY <1>0, <2>1 DEF TimeBase, SavedTimeBase
<1>4. CASE RestoreState
  <2>1. m' = restore_state(m, saved[1]) /\ saved' = saved /\ saved # << >>
    BY <1>4 DEF RestoreState
  <2>2. m'.prof = saved[1].prof /\ m'.accum = saved[1].accum
    BY <1>0, <2>1 DEF restore_state, CoreState
  <2> QED
    BY <2>1, <2>2 DEF TimeBase, SavedTimeBase
<1>5. CASE \/ HostCall /\ ~Reset /\ ~RestoreState /\ ~StepCall
           \/ RunReturn \/ BlockHit \/ BlockMiss \/ BlockDone \/ AtBound \/ UNCHANGED vars
  <2>1. AtRest(m', m) /\ (saved' = saved \/ SaveState)
    BY <1>5, HostAtRest, LoopAtRest
  <2>2. TimeBase'
    BY <2>1 DEF AtRest, TimeBase
  <2>3. CASE SaveState
    <3>1. saved'[1] = save_state(m)
      BY <2>3 DEF SaveState
    <3>2. save_state(m).prof = m.prof /\ save_state(m).accum = m.accum
      BY DEF save_state
    <3> QED
      BY <2>2, <3>1, <3>2 DEF TimeBase, SavedTimeBase
  <2> QED
    BY <2>1, <2>2, <2>3 DEF SavedTimeBase
<1> QED
  BY <1>1, <1>2, <1>3, <1>4, <1>5 DEF Next, Running, Executes, Dispatches

\* The peripherals run on the profiler's clock for every guest, target and sequence of
\* host calls, restored snapshots included, that never meets a full fabric with a
\* DMA_LOAD: that handler books a stall cycle the accumulator does not see
\* (op_dma_load, execute, tick_peripherals, restore_state).
THEOREM OneTimeBase == Spec /\ FabricHasRoom => []TimeBase
<1>1. Init => TimeBase /\ SavedTimeBase
  <2> SUFFICES ASSUME Init PROVE TimeBase /\ SavedTimeBase
    OBVIOUS
  <2>1. m.prof.cycles = 0 /\ m.accum = 0 /\ saved = << >> /\ CyclesPerTick \in Nat \ {0}
    BY NewCoreType, IsaAssumption DEF Init
  <2> QED
    BY <2>1 DEF TimeBase, SavedTimeBase
<1>2. /\ Inv /\ Inv' /\ TimeBase /\ SavedTimeBase /\ [Next]_vars
      /\ [Dispatches => ~Refuses(m, ExecutedWord)]_vars
      => TimeBase' /\ SavedTimeBase'
  <2>1. UNCHANGED vars /\ TimeBase /\ SavedTimeBase => TimeBase' /\ SavedTimeBase'
    BY DEF vars, TimeBase, SavedTimeBase
  <2> QED
    BY <2>1, NextTimeBase
<1> QED
  BY <1>1, <1>2, Invariance, PTL DEF Spec, FabricHasRoom

--------------------------------------------------------------------------------
\* The block cache

\* A block ends with its cache line: none runs off a scratchpad of whole lines.
LEMMA Translates ==
    ASSUME MemSize % CacheLine = 0, NEW mem, NEW pc \in Addr
    PROVE  Translatable(mem, pc)
<1> DEFINE n == BlockLength(mem, pc)
           j == MemSize - pc
<1>1. n \in 1 .. MaxBlock /\ \A k \in 1 .. n - 1 : ~StopsAt(mem, pc, k)
  BY LengthIsFirst
<1>2. MemSize \in Nat /\ pc \in Nat /\ pc < MemSize /\ MaxBlock \in Nat
  BY EmulatorAssumption, MachineAssumption, IsaAssumption DEF Addr
<1>3. pc + j = MemSize
  BY <1>2
<1>4. StopsAt(mem, pc, j)
  BY <1>3 DEF StopsAt
<1> HIDE DEF n
<1>5. ~(j \in 1 .. n - 1)
  <2> HIDE DEF j
  <2> QED BY <1>1, <1>4
<1>6. pc + n - 1 \in 0 .. MemSize - 1
  BY <1>1, <1>2, <1>5
<1> QED
  BY <1>6 DEF Translatable, Addr, n

\* A block is decoded from its own words alone: as long as they stay, decoding would
\* produce it again.
LEMMA DecodesAgain ==
    ASSUME NEW f \in [Addr -> Word], NEW g \in [Addr -> Word], NEW pc \in Word,
           Translatable(f, pc),
           \A k \in 1 .. BlockLength(f, pc) : g[pc + k - 1] = f[pc + k - 1]
    PROVE  Translatable(g, pc) /\ DecodedBlock(g, pc) = DecodedBlock(f, pc)
<1> DEFINE n == BlockLength(f, pc)
           k == BlockLength(g, pc)
<1>0. MaxBlock \in Nat \ {0} /\ pc \in Nat
  BY EmulatorAssumption, IsaAssumption DEF Word
<1>1. n \in 1 .. MaxBlock /\ StopsAt(f, pc, n) /\ \A j \in 1 .. n - 1 : ~StopsAt(f, pc, j)
  BY LengthIsFirst
<1>2. k \in 1 .. MaxBlock /\ StopsAt(g, pc, k) /\ \A j \in 1 .. k - 1 : ~StopsAt(g, pc, j)
  BY LengthIsFirst
<1>3. \A j \in 1 .. n : g[pc + j - 1] = f[pc + j - 1]
  OBVIOUS
<1>4. pc + n - 1 \in Addr
  BY DEF Translatable
<1> HIDE DEF n, k
<1>5. \A j \in 1 .. n : StopsAt(g, pc, j) <=> StopsAt(f, pc, j)
  BY <1>3 DEF StopsAt
<1>6. k = n
  <2>1. CASE k < n
    <3>1. k \in 1 .. n /\ k \in 1 .. n - 1
      BY <1>0, <1>1, <1>2, <2>1
    <3> QED
      BY <1>1, <1>2, <1>5, <3>1
  <2>2. CASE n < k
    <3>1. n \in 1 .. n /\ n \in 1 .. k - 1
      BY <1>0, <1>1, <1>2, <2>2
    <3> QED
      BY <1>1, <1>2, <1>5, <3>1
  <2> QED
    BY <1>0, <1>1, <1>2, <2>1, <2>2
<1> QED
  BY <1>3, <1>4, <1>6 DEF Translatable, DecodedBlock, n, k

\* A step stores into a cached block that stays in the cache.
StoresIntoCode ==
    /\ blocks' = blocks
    /\ \E a \in DOMAIN blocks : \E k \in 1 .. Len(blocks[a]) : m'.mem[a + k - 1] # m.mem[a + k - 1]

\* Guests and hosts that never do: nothing in the emulator would notice.
CodeKept == [][~StoresIntoCode]_vars

\* The core's memory changes only in steps that keep the cache or empty it; the cache
\* grows only by decoding.
LEMMA CacheSteps ==
    ASSUME Inv, [Next]_vars
    PROVE  \/ blocks' = blocks
           \/ blocks' = << >>
           \/ /\ m' = m /\ Translatable(m.mem, m.pc)
              /\ blocks' = [a \in DOMAIN blocks \cup {m.pc} |->
                              IF a = m.pc THEN DecodedBlock(m.mem, m.pc) ELSE blocks[a]]
<1>1. CASE HostCall
  BY <1>1 DEF HostCall, Reset, LoadProgram, LoadMainRam, Poke, Peek, WriteGpr, SetTarget, WriteMtvec,
              WriteMie, RaiseLine, ClearLine, HostMret, SetMmu, AddBreakpoint, RemoveBreakpoint,
              ClearBreakpoints, SetVerbose, SaveState, RestoreState, StepCall, StepFrom, CallRun
<1>2. CASE RunStep \/ RunReturn \/ BlockHit \/ BlockOp \/ BlockDone \/ AtBound \/ UNCHANGED vars
  BY <1>2 DEF RunStep, StepFrom, RunReturn, BlockHit, BlockOp, BlockDone, AtBound, vars
<1>3. CASE BlockMiss
  BY <1>3 DEF BlockMiss
<1> QED
  BY <1>1, <1>2, <1>3 DEF Next, Running

\* Without a store into code, a step keeps the cache fresh.
LEMMA NextFresh ==
    ASSUME Inv, Inv', FreshBlocks, ~StoresIntoCode, [Next]_vars
    PROVE  FreshBlocks'
<1>0. /\ m.mem \in [Addr -> Word] /\ m'.mem \in [Addr -> Word]
      /\ \A a \in DOMAIN blocks : a \in Word
  BY DEF Inv, TypeOK, CoreState
<1>1. CASE blocks' = blocks
  <2> SUFFICES ASSUME NEW a \in DOMAIN blocks
               PROVE  Translatable(m'.mem, a) /\ blocks[a] = DecodedBlock(m'.mem, a)
    BY <1>1 DEF FreshBlocks
  <2>1. Translatable(m.mem, a) /\ blocks[a] = DecodedBlock(m.mem, a)
    BY DEF FreshBlocks
  <2>2. BlockLength(m.mem, a) \in 1 .. MaxBlock
    BY LengthIsFirst
  <2>3. Len(blocks[a]) = BlockLength(m.mem, a)
    BY <2>1, <2>2, EmulatorAssumption DEF DecodedBlock
  <2>4. \A k \in 1 .. BlockLength(m.mem, a) : m'.mem[a + k - 1] = m.mem[a + k - 1]
    BY <1>1, <2>3 DEF StoresIntoCode
  <2> QED
    BY <1>0, <2>1, <2>4, DecodesAgain
<1>2. CASE blocks' = << >>
  <2>1. DOMAIN blocks' = {}
    BY <1>2
  <2> QED
    BY <2>1 DEF FreshBlocks
<1>3. CASE /\ m' = m /\ Translatable(m.mem, m.pc)
           /\ blocks' = [a \in DOMAIN blocks \cup {m.pc} |->
                           IF a = m.pc THEN DecodedBlock(m.mem, m.pc) ELSE blocks[a]]
  BY <1>3 DEF FreshBlocks
<1> QED
  BY <1>1, <1>2, <1>3, CacheSteps

\* No block of the cache is stale unless somebody stores into a cached block: loading a
\* program, changing the target and reset() empty the cache, and every other call, loop
\* and trap keeps it true to memory (BlockCache against load_program, set_target, reset).
THEOREM CacheStaysFresh == Spec /\ CodeKept => []FreshBlocks
<1>1. Init => FreshBlocks
  <2> SUFFICES ASSUME Init PROVE FreshBlocks
    OBVIOUS
  <2>1. DOMAIN blocks = {}
    BY DEF Init
  <2> QED
    BY <2>1 DEF FreshBlocks
<1>2. Inv /\ Inv' /\ FreshBlocks /\ [~StoresIntoCode]_vars /\ [Next]_vars => FreshBlocks'
  <2>1. UNCHANGED vars /\ FreshBlocks => FreshBlocks'
    BY DEF vars, FreshBlocks
  <2> QED
    BY <2>1, NextFresh
<1> QED
  BY <1>1, <1>2, Invariance, PTL DEF Spec, CodeKept

--------------------------------------------------------------------------------
\* The fast path

\* What is left of the block being replayed is the end of a cached block, and the
\* program counter is where it begins.
Replaying ==
    ctl = "block" /\ todo # << >> =>
        \E a \in DOMAIN blocks : \E j \in Nat :
            /\ m.pc = a + j /\ j + Len(todo) = Len(blocks[a])
            /\ \A k \in 1 .. Len(todo) : todo[k] = blocks[a][j + k]

\* While run_fast() works with its cache no interrupt is pending and translation is off,
\* the guest does not run in the device window, and the next operation of the block has
\* a handler or MTVEC is not set: the loop looks at none of these.
Quiet ==
    /\ ctl = "block" \/ (ctl = "run_fast" /\ ~verbose) =>
          ~HasInterrupt(m.csr, m.mip) /\ ~m.mmu /\ m.pc \notin DOMAIN Mmio
    /\ ctl = "block" /\ todo # << >> =>
          Decode[Head(todo)].op \in Dispatched \/ ~MtvecSet(m.csr)

\* The next operation of the block is the word at the program counter.
LEMMA NextOperation ==
    ASSUME Inv, FreshBlocks, Replaying, ctl = "block", todo # << >>
    PROVE  m.pc \in Addr /\ Head(todo) = m.mem[m.pc]
<1>1. PICK a \in DOMAIN blocks : \E j \in Nat :
        /\ m.pc = a + j /\ j + Len(todo) = Len(blocks[a])
        /\ \A k \in 1 .. Len(todo) : todo[k] = blocks[a][j + k]
  BY DEF Replaying
<1>2. PICK j \in Nat :
        /\ m.pc = a + j /\ j + Len(todo) = Len(blocks[a])
        /\ \A k \in 1 .. Len(todo) : todo[k] = blocks[a][j + k]
  BY <1>1
<1> DEFINE n == BlockLength(m.mem, a)
<1>3. a \in Nat /\ todo \in Seq(Word) /\ MemSize \in Nat
  BY IsaAssumption, MachineAssumption DEF Inv, TypeOK, Word
<1>4. Len(todo) \in Nat /\ Len(todo) > 0 /\ Head(todo) = todo[1]
  BY <1>3, LenProperties, HeadTailProperties
<1>5. n \in 1 .. MaxBlock /\ a + n - 1 \in Addr /\ blocks[a] = DecodedBlock(m.mem, a)
  BY LengthIsFirst DEF FreshBlocks, Translatable
<1> HIDE DEF n
<1>6. n \in Nat /\ Len(blocks[a]) = n /\ \A k \in 1 .. n : blocks[a][k] = m.mem[a + k - 1]
  BY <1>5, EmulatorAssumption DEF DecodedBlock, n
<1>7. j + 1 \in 1 .. n /\ a + (j + 1) - 1 = m.pc
  BY <1>2, <1>3, <1>4, <1>6
<1>8. m.pc \in Addr
  BY <1>2, <1>3, <1>5, <1>6, <1>7 DEF Addr
<1>9. 1 \in 1 .. Len(todo)
  BY <1>4
<1> QED
  BY <1>2, <1>4, <1>6, <1>7, <1>8, <1>9

\* The core of a replayed operation is the one step() would have left.
LEMMA BlockOpIsStep ==
    ASSUME Inv, FreshBlocks, Replaying, Quiet, BlockOp
    PROVE  /\ step(m) = fast_op(m, Head(todo)) /\ m' = step(m).m
           /\ ctl' = After(step(m).end, "run_fast") \/ ctl' = After(step(m).end, "block")
<1>1. /\ ctl = "block" /\ todo # << >> /\ ~m.halt
      /\ m' = fast_op(m, Head(todo)).m
      /\ \/ ctl' = After(fast_op(m, Head(todo)).end, "run_fast")
         \/ ctl' = After(fast_op(m, Head(todo)).end, "block")
  BY DEF BlockOp, Stopped
<1>2. m.pc \in Addr /\ Head(todo) = m.mem[m.pc]
  BY <1>1, NextOperation
<1>3. m \in CoreState /\ ~m.mmu /\ ~HasInterrupt(m.csr, m.mip) /\ m.pc \notin DOMAIN Mmio
  BY <1>1 DEF Inv, TypeOK, Quiet
<1>4. step(m) = fast_op(m, Head(todo))
  BY <1>1, <1>2, <1>3, StepIsFastOp
<1> QED
  BY <1>1, <1>4

\* Every step keeps the replay in step with the program counter.
LEMMA NextReplaying ==
    ASSUME Inv, FreshBlocks, Replaying, Quiet, [Next]_vars
    PROVE  Replaying'
<1>0. /\ m \in CoreState /\ m.pc \in Word /\ todo \in Seq(Word) /\ ctl \in Ctl
      /\ \A a \in DOMAIN blocks : blocks[a] \in Seq(Word) /\ a \in Nat
  BY IsaAssumption DEF Inv, TypeOK, CoreState, Word
<1>1. CASE HostCall
  <2>1. ctl' # "block"
    <3>1. CASE StepCall
      BY <3>1 DEF StepCall, StepFrom, After
    <3>2. CASE ~StepCall
      BY <1>1, <3>2, EmulatorAssumption
      DEF HostCall, Reset, LoadProgram, LoadMainRam, Poke, Peek, WriteGpr, SetTarget, WriteMtvec,
          WriteMie, RaiseLine, ClearLine, HostMret, SetMmu, AddBreakpoint, RemoveBreakpoint,
          ClearBreakpoints, SetVerbose, SaveState, RestoreState, CallRun
    <3> QED
      BY <3>1, <3>2
  <2> QED
    BY <2>1 DEF Replaying
<1>2. CASE RunStep \/ RunReturn \/ BlockDone
  <2>1. ctl' # "block"
    BY <1>2 DEF RunStep, StepFrom, After, RunReturn, BlockDone
  <2> QED
    BY <2>1 DEF Replaying
<1>3. CASE AtBound \/ UNCHANGED vars
  BY <1>3 DEF AtBound, vars, Replaying
<1>4. CASE BlockHit \/ BlockMiss
  <2> SUFFICES ASSUME ctl' = "block" PROVE Replaying'
    BY DEF Replaying
  <2>1. m' = m /\ m.pc \in DOMAIN blocks' /\ todo' = blocks'[m.pc]
    BY <1>4 DEF BlockHit, BlockMiss
  <2>2. todo' \in Seq(Word)
    BY <1>4, LoopInv, BlockMissInv DEF Inv, TypeOK
  <2>3. /\ m'.pc = m.pc + 0 /\ 0 + Len(todo') = Len(blocks'[m.pc])
        /\ \A k \in 1 .. Len(todo') : todo'[k] = blocks'[m.pc][0 + k]
    <3>1. m.pc \in Nat /\ Len(todo') \in Nat
      BY <1>0, <2>2, LenProperties, IsaAssumption DEF Word
    <3> QED
      BY <2>1, <3>1
  <2> QED
    BY <2>1, <2>3 DEF Replaying
<1>5. CASE BlockOp
  <2> SUFFICES ASSUME ctl' = "block", todo' # << >> PROVE Replaying'
    BY DEF Replaying
  <2> DEFINE w == Head(todo)
             c == [m EXCEPT !.pc = Plus(m.pc, 1)]
             x == execute(c, w)
  <2>1. /\ todo # << >> /\ ctl = "block" /\ m' = Ticked(x).m
        /\ x.end = "ok" /\ ~EndsBlock(Decode[w].op) /\ todo' = Tail(todo) /\ blocks' = blocks
    BY <1>5 DEF BlockOp, fast_op, Ticked
  <2>2. w \in Word /\ Tail(todo) \in Seq(Word) /\ Len(Tail(todo)) = Len(todo) - 1
        /\ Len(todo) \in Nat /\ \A k \in 1 .. Len(todo) - 1 : Tail(todo)[k] = todo[k + 1]
    BY <1>0, <2>1, HeadTailProperties, LenProperties
  <2>3. c \in CoreState /\ c.pc = Plus(m.pc, 1) /\ ~c.mmu /\ c.csr = m.csr
    <3>1. Plus(m.pc, 1) \in Word
      BY <1>0, ArithmeticType, SmallWords
    <3>2. ~m.mmu
      BY <2>1 DEF Quiet
    <3> QED
      BY <1>0, <3>1, <3>2 DEF CoreState
  <2>4. Decode[w].op \in Dispatched \/ ~MtvecSet(m.csr)
    BY <2>1 DEF Quiet
  <2> HIDE DEF c, w
  <2>5. m'.pc = Plus(m.pc, 1)
    BY <2>1, <2>2, <2>3, <2>4, StraightLine
  <2>6. PICK a \in DOMAIN blocks : \E j \in Nat :
          /\ m.pc = a + j /\ j + Len(todo) = Len(blocks[a])
          /\ \A k \in 1 .. Len(todo) : todo[k] = blocks[a][j + k]
    BY <2>1 DEF Replaying
  <2>7. PICK j \in Nat :
          /\ m.pc = a + j /\ j + Len(todo) = Len(blocks[a])
          /\ \A k \in 1 .. Len(todo) : todo[k] = blocks[a][j + k]
    BY <2>6
  <2>8. Len(todo) - 1 > 0
    BY <2>1, <2>2, EmptySeq, LenProperties
  <2>9. Plus(m.pc, 1) = a + (j + 1)
    <3> DEFINE n == BlockLength(m.mem, a)
    <3>1. /\ n \in 1 .. MaxBlock /\ a + n - 1 \in Addr /\ blocks[a] = DecodedBlock(m.mem, a)
      BY LengthIsFirst DEF FreshBlocks, Translatable
    <3>2. Len(blocks[a]) = n /\ n \in Nat
      BY <3>1, EmulatorAssumption DEF DecodedBlock
    <3> HIDE DEF n
    <3>3. WordCount \in Nat /\ MemSize \in Nat /\ MemSize <= WordCount /\ a \in Nat
      BY <1>0, IsaAssumption, MachineAssumption
    <3>4. a + n - 1 < MemSize /\ j + 1 < n
      BY <2>2, <2>7, <2>8, <3>1, <3>2, <3>3 DEF Addr
    <3>5. m.pc + 1 = WordCount * 0 + (a + (j + 1)) /\ a + (j + 1) < WordCount
      BY <2>7, <3>2, <3>3, <3>4
    <3>6. (m.pc + 1) % WordCount = a + (j + 1)
      <4>1. a + (j + 1) \in Nat /\ 0 \in Nat
        BY <2>7, <3>3
      <4>2. (WordCount * 0 + (a + (j + 1))) % WordCount = a + (j + 1)
        BY <3>3, <3>5, <4>1, DivisionUnique
      <4> QED
        BY <3>5, <4>2
    <3> QED
      BY <3>6 DEF Plus
  <2>10. /\ m'.pc = a + (j + 1) /\ j + 1 \in Nat
         /\ (j + 1) + Len(todo') = Len(blocks'[a])
         /\ \A k \in 1 .. Len(todo') : todo'[k] = blocks'[a][(j + 1) + k]
    <3>1. ASSUME NEW k \in 1 .. Len(todo') PROVE todo'[k] = blocks[a][(j + 1) + k]
      <4>1. k \in 1 .. Len(todo) - 1 /\ k + 1 \in 1 .. Len(todo) /\ j + (k + 1) = (j + 1) + k
        BY <2>1, <2>2
      <4> QED
        BY <2>1, <2>2, <2>7, <4>1
    <3> QED
      BY <2>1, <2>2, <2>5, <2>7, <2>9, <3>1
  <2> QED
    BY <2>1, <2>10 DEF Replaying
<1> QED
  BY <1>1, <1>2, <1>3, <1>4, <1>5 DEF Next, Running

\* Under these conditions the cache is fresh and the replay in step in every state.
LEMMA ReplayInvariance ==
    Spec /\ []Quiet /\ CodeKept => []Inv /\ []FreshBlocks /\ []Replaying
<1>1. Init => Replaying
  BY DEF Init, Replaying
<1>2. Inv /\ FreshBlocks /\ Replaying /\ Quiet /\ [Next]_vars => Replaying'
  BY NextReplaying
<1> QED
  BY <1>1, <1>2, Invariance, CacheStaysFresh, PTL DEF Spec

\* "Same semantics" (src/emulator.cpp:294): what run_fast() executes, out of any cached
\* block, does to the core exactly what step() would have done, and throws when it
\* throws, as long as the guest gives run_fast() nothing it does not look at: no
\* interrupt, no translation, no illegal-instruction trap and no store into code.
THEOREM FastPathExact == Spec /\ []Quiet /\ CodeKept => SameSemantics
<1>1. ASSUME Inv, FreshBlocks, Replaying, Quiet, BlockOp
      PROVE  m' = step(m).m /\ (ctl' = "host" <=> step(m).end = "throw")
  <2>1. step(m).end \in Outcome
    BY <1>1, StepSettled DEF Inv, TypeOK, AccumBelowTick, Settled
  <2>2. /\ m' = step(m).m
        /\ ctl' = After(step(m).end, "run_fast") \/ ctl' = After(step(m).end, "block")
    BY <1>1, BlockOpIsStep
  <2> QED
    BY <2>1, <2>2 DEF After, Outcome
<1>2. Inv /\ FreshBlocks /\ Replaying /\ Quiet =>
        [BlockOp => LET r == step(m) IN m' = r.m /\ (ctl' = "host" <=> r.end = "throw")]_vars
  BY <1>1
<1> QED
  BY <1>2, ReplayInvariance, PTL DEF SameSemantics

--------------------------------------------------------------------------------
\* The fabric

\* The transactions on the fabric are timely at the profiler's clock.
FabricTimely == Timely(m.axi, m.prof.cycles)

\* No instruction moves so much that its transaction outlasts a tick.
TransfersShort == [][Dispatches => ShortTransfer(ExecutedWord)]_vars

\* An execution of the core, from step() or from a block.
LEMMA ExecutesTimely ==
    ASSUME Inv, FabricTimely, Executes, Dispatches => ShortTransfer(ExecutedWord)
    PROVE  FabricTimely' /\ (m'.accum < m.accum => m'.axi.pending = << >>)
<1>0. m \in CoreState /\ m.pc \in Word /\ todo \in Seq(Word) /\ m.accum \in Nat
  BY DEF Inv, TypeOK, CoreState
<1>1. CASE (RunStep \/ StepCall) /\ ~m.halt
  <2>1. m' = step(m).m /\ ExecutedWord = FetchedWord(m)
    BY <1>1 DEF RunStep, StepCall, StepFrom, ExecutedWord
  <2>2. ShortTransfer(FetchedWord(m))
    BY <1>1, <2>1 DEF Dispatches
  <2> QED
    BY <1>0, <1>1, <2>1, <2>2, StepTimely DEF FabricTimely
<1>2. CASE m.halt
  <2>1. StepCall
    BY <1>2 DEF Executes, RunStep, BlockOp, Stopped
  <2>2. step(m) = Ok(m, 0)
    BY <1>2 DEF step
  <2>3. m' = m
    BY <2>1, <2>2 DEF StepCall, StepFrom, Ok
  <2> QED
    BY <1>0, <2>3 DEF FabricTimely
<1>3. CASE BlockOp
  <2> DEFINE c == [m EXCEPT !.pc = Plus(m.pc, 1)]
             w == Head(todo)
  <2>1. m' = Ticked(execute(c, w)).m /\ w \in Word /\ ShortTransfer(w)
    <3>1. todo # << >> /\ m' = fast_op(m, w).m /\ ExecutedWord = w /\ ~m.halt
      BY <1>3 DEF BlockOp, ExecutedWord, Stopped
    <3> QED
      BY <1>0, <3>1, HeadTailProperties DEF fast_op, Dispatches
  <2>2. c \in CoreState /\ c.prof = m.prof /\ c.accum = m.accum /\ c.axi = m.axi
    <3>1. Plus(m.pc, 1) \in Word
      BY <1>0, ArithmeticType, SmallWords
    <3> QED
      BY <1>0, <3>1 DEF CoreState
  <2> HIDE DEF c, w
  <2> QED
    BY <2>1, <2>2, TickedTimely DEF FabricTimely
<1> QED
  BY <1>1, <1>2, <1>3 DEF Executes

\* A tick finds every transaction due, whatever the guest issues and whichever loop runs
\* it, unless snapshots set the profiler's clock back or a transfer is so long that its
\* latency exceeds a tick (op_load .. op_dma_store against tick_peripherals).
THEOREM TicksDrainFabric ==
    ASSUME ~Snapshots
    PROVE  Spec /\ TransfersShort => DrainedByTick
<1>1. Init => FabricTimely
  <2> SUFFICES ASSUME Init PROVE FabricTimely
    OBVIOUS
  <2>1. m.axi.pending = << >>
    BY DEF Init, NewCore, EmptyFabric
  <2>2. Len(m.axi.pending) = 0
    BY <2>1
  <2> QED
    BY <2>2 DEF FabricTimely, Timely
<1>2. ASSUME Inv, FabricTimely, [Next]_vars, Dispatches => ShortTransfer(ExecutedWord)
      PROVE  FabricTimely'
  <2>1. CASE Executes
    BY <1>2, <2>1, ExecutesTimely
  <2>2. CASE Reset
    <3>1. m'.axi.pending = << >>
      BY <2>2, NewCoreType DEF Reset, NewCore, EmptyFabric
    <3>2. Len(m'.axi.pending) = 0
      BY <3>1
    <3> QED
      BY <3>2 DEF FabricTimely, Timely
  <2>3. ~RestoreState
    BY DEF RestoreState
  <2>4. CASE \/ HostCall /\ ~Reset /\ ~RestoreState /\ ~StepCall
             \/ RunReturn \/ BlockHit \/ BlockMiss \/ BlockDone \/ AtBound \/ UNCHANGED vars
    <3>1. AtRest(m', m)
      BY <1>2, <2>4, HostAtRest, LoopAtRest
    <3> QED
      BY <1>2, <3>1 DEF AtRest, FabricTimely
  <2> QED
    BY <1>2, <2>1, <2>2, <2>3, <2>4 DEF Next, Running, Executes
<1>3. Inv /\ FabricTimely /\ [Dispatches => ShortTransfer(ExecutedWord)]_vars =>
        [(RunStep \/ BlockOp \/ StepCall) /\ m'.accum < m.accum => m'.axi.pending = << >>]_vars
  BY ExecutesTimely DEF Executes
<1>4. Inv /\ FabricTimely /\ [Next]_vars /\ [Dispatches => ShortTransfer(ExecutedWord)]_vars
      => FabricTimely'
  <2>1. UNCHANGED vars /\ FabricTimely => FabricTimely'
    BY DEF vars, FabricTimely
  <2> QED
    BY <1>2, <2>1
<1> QED
  BY <1>1, <1>3, <1>4, Invariance, PTL DEF Spec, DrainedByTick, TransfersShort
--------------------------------------------------------------------------------
\* The refinement: the emulator implements Interpreter, for every guest the fast path
\* of run_fast() is made for.  Each step of Emulator is a step of Interpreter or changes
\* nothing the host can see.

\* The host sees a call under way while the thread is in one of the loops.
InCall == ctl \in {"run", "run_fast", "block"}

seen == <<m, InCall, breakpoints>>

\* Initially the host sees an interpreter at rest.
LEMMA InitRefines == Init => Interpreted!Init
BY DEF Init, Interpreted!Init

\* A call of step() by the host.
LEMMA StepRefines ==
    ASSUME StepCall
    PROVE  Interpreted!SingleStep
<1>1. m' = step(m).m /\ ctl = "host" /\ ctl' = After(step(m).end, "host")
      /\ breakpoints' = breakpoints
  BY DEF StepCall, StepFrom
<1>2. ctl' \in {"host", "crashed"}
  BY <1>1 DEF After
<1> QED
  BY <1>1, <1>2 DEF Interpreted!SingleStep

\* An instruction inside run() or run_fast(), by step() or out of a block.
LEMMA ExecuteRefines ==
    ASSUME Inv, FreshBlocks, Replaying, Quiet, RunStep \/ BlockOp
    PROVE  Interpreted!Execute
<1>1. InCall /\ ~Stopped /\ breakpoints' = breakpoints
  BY DEF RunStep, StepFrom, BlockOp, InCall
<1>2. m' = step(m).m /\ \E next \in {"run", "run_fast", "block"} : ctl' = After(step(m).end, next)
  <2>1. CASE RunStep
    BY <2>1 DEF RunStep, StepFrom
  <2>2. CASE BlockOp
    BY <2>2, BlockOpIsStep
  <2> QED
    BY <2>1, <2>2
<1>3. step(m).end \in Outcome
  BY StepSettled DEF Inv, TypeOK, AccumBelowTick, Settled
<1>4. InCall' = (step(m).end = "ok")
  BY <1>2, <1>3 DEF After, Outcome, InCall
<1> QED
  BY <1>1, <1>2, <1>4 DEF Interpreted!Execute, Interpreted!Stops, Stopped, InCall

\* The calls that set up the core, and reset().
LEMMA SetupRefines ==
    ASSUME Inv, HostCall, ~StepCall
    PROVE  Interpreted!Next \/ UNCHANGED seen
<1>0. m \in CoreState /\ m' \in CoreState
  <2>1. Inv'
    BY NextInv DEF Next
  <2> QED
    BY <2>1 DEF Inv, TypeOK
<1> DEFINE Set(d) == [m EXCEPT !.gpr = d.gpr, !.mem = d.mem, !.ram = d.ram, !.csr = d.csr,
                               !.mip = d.mip, !.mmu = d.mmu, !.timer = d.timer, !.tx = d.tx,
                               !.target = d.target]
<1>1. ASSUME ctl = "host", ctl' = ctl, breakpoints' = breakpoints, m' = Set(m')
      PROVE  Interpreted!Next
  BY <1>1 DEF Interpreted!Next, Interpreted!Adjust
<1>2. CASE Reset
  <2>1. /\ ctl = "host" /\ ctl' = ctl /\ breakpoints' = {}
        /\ m' = [NewCore EXCEPT !.timer = m.timer, !.tx = m.tx, !.target = m.target]
    BY <1>2 DEF Reset
  <2> QED
    BY <2>1 DEF Interpreted!Next, Interpreted!Restart
<1>3. CASE RestoreState
  <2>1. /\ ctl = "host" /\ ctl' = ctl /\ breakpoints' = breakpoints
        /\ m' = restore_state(m, saved[1])
    BY <1>3 DEF RestoreState
  <2>2. m' = [m EXCEPT !.gpr = m'.gpr, !.vr = m'.vr, !.pc = m'.pc, !.accum = m'.accum,
                       !.prof = m'.prof, !.zero = m'.zero, !.negative = m'.negative,
                       !.overflow = m'.overflow]
    BY <1>0, <2>1 DEF restore_state, CoreState
  <2> QED
    BY <2>1, <2>2 DEF Interpreted!Next, Interpreted!Rewind
<1>4. CASE \/ \E p \in Programs : LoadProgram(p)
           \/ \E image \in RamImages : LoadMainRam(image)
           \/ \E w \in GprWrites : WriteGpr(w[1], w[2])
           \/ \E t \in Targets : SetTarget(t)
           \/ \E v \in Vectors : WriteMtvec(v)
           \/ \E mask \in IeMasks : WriteMie(mask)
           \/ \E l \in HostLines : RaiseLine(l)
           \/ \E l \in HostLines : ClearLine(l)
           \/ HostMret
           \/ \E b \in MmuSettings : SetMmu(b)
  <2>1. ctl = "host" /\ ctl' = ctl /\ breakpoints' = breakpoints
    BY <1>4 DEF LoadProgram, LoadMainRam, WriteGpr, SetTarget, WriteMtvec, WriteMie, RaiseLine,
                ClearLine, HostMret, SetMmu
  <2>2. m' = Set(m')
    BY <1>0, <1>4 DEF LoadProgram, LoadMainRam, WriteGpr, SetTarget, WriteMtvec, WriteMie, RaiseLine,
                ClearLine, HostMret, SetMmu, CoreState
  <2> QED
    BY <1>1, <2>1, <2>2
<1>5. CASE (\E w \in Pokes : Poke(w[1], w[2])) \/ (\E a \in Peeks : Peek(a))
  <2>1. ctl = "host" /\ ctl' = ctl /\ breakpoints' = breakpoints
    BY <1>5 DEF Poke, Peek
  <2>2. m' = Set(m')
    BY <1>0, <1>5 DEF Poke, Peek, bus_write, bus_read, CoreState
  <2> QED
    BY <1>1, <2>1, <2>2
<1>6. CASE \/ \E a \in BreakSites : AddBreakpoint(a) \/ RemoveBreakpoint(a)
           \/ ClearBreakpoints
  <2>1. ctl = "host" /\ ctl' = ctl /\ m' = m
    BY <1>6 DEF AddBreakpoint, RemoveBreakpoint, ClearBreakpoints
  <2> QED
    BY <2>1 DEF Interpreted!Next, Interpreted!SetBreaks
<1>7. CASE SaveState \/ \E v \in VerboseSettings : SetVerbose(v)
  BY <1>7 DEF SaveState, SetVerbose, seen, InCall
<1>8. CASE \E entry \in Entries : CallRun(entry)
  <2>1. ctl = "host" /\ ctl' \in {"run", "run_fast"} /\ m' = m /\ breakpoints' = breakpoints
    BY <1>8, EmulatorAssumption DEF CallRun
  <2> QED
    BY <2>1 DEF Interpreted!Next, Interpreted!Enter
<1> QED
  BY <1>2, <1>3, <1>4, <1>5, <1>6, <1>7, <1>8 DEF HostCall

\* A block that cannot be decoded: run_fast() throws where step() would have.
LEMMA MissRefines ==
    ASSUME MemSize % CacheLine = 0, Inv, Quiet, BlockMiss
    PROVE  Interpreted!Next \/ UNCHANGED seen
<1>1. ctl = "run_fast" /\ ~verbose /\ ~Stopped /\ m' = m /\ breakpoints' = breakpoints
  BY DEF BlockMiss
<1>2. CASE ctl' = "block"
  BY <1>1, <1>2 DEF seen, InCall
<1>3. CASE ctl' # "block"
  <2>1. ~Translatable(m.mem, m.pc) /\ ctl' = "host"
    BY <1>3 DEF BlockMiss
  <2>2. m.pc \notin Addr /\ m.pc \notin DOMAIN Mmio /\ ~m.mmu /\ ~HasInterrupt(m.csr, m.mip) /\ ~m.halt
    BY <1>1, <2>1, Translates DEF Quiet, Stopped
  <2>3. enter_interrupt(m) = m /\ ~Faults(m, m.pc, "X") /\ ~BusMapped(m.pc)
    BY <2>2 DEF enter_interrupt, Faults, BusMapped
  <2>4. fetch(m) = [m |-> m, word |-> 0, end |-> "throw"]
    BY <2>2, <2>3 DEF fetch
  <2>5. step(m) = Throw(m)
    BY <2>2, <2>3, <2>4 DEF step
  <2>6. step(m).m = m /\ step(m).end = "throw"
    BY <2>5 DEF Throw
  <2> QED
    BY <1>1, <2>1, <2>6 DEF Interpreted!Next, Interpreted!Execute, Interpreted!Stops, Stopped
<1> QED
  BY <1>2, <1>3

\* The end of a call, and the parts of the loops the host cannot see.
LEMMA LoopRefines ==
    ASSUME RunReturn \/ BlockHit \/ BlockDone \/ AtBound \/ UNCHANGED vars
    PROVE  Interpreted!Next \/ UNCHANGED seen
<1>1. CASE RunReturn
  BY <1>1 DEF RunReturn, Stopped, Interpreted!Next, Interpreted!Leave, Interpreted!Stops
<1>2. CASE BlockHit \/ BlockDone
  BY <1>2 DEF BlockHit, BlockDone, seen, InCall
<1>3. CASE AtBound \/ UNCHANGED vars
  BY <1>3 DEF AtBound, vars, seen, InCall
<1> QED
  BY <1>1, <1>2, <1>3

\* The emulator with its loops and its block cache implements the interpreter: run() and
\* run_fast() advance the core by whole steps, stop at the first halt or breakpoint,
\* throw where step() throws and flush the output when they return, for a scratchpad of
\* whole cache lines and guests that give run_fast() neither interrupts, translation,
\* illegal-instruction traps nor stores into code (src/emulator.cpp:286-312).
THEOREM EmulatorImplements ==
    ASSUME MemSize % CacheLine = 0
    PROVE  Spec /\ []Quiet /\ CodeKept => RefinesInterpreter
<1>1. Inv /\ FreshBlocks /\ Replaying /\ Quiet /\ [Next]_vars =>
        [Interpreted!Next]_<<m, ctl \in {"run", "run_fast", "block"}, breakpoints>>
  <2> SUFFICES ASSUME Inv, FreshBlocks, Replaying, Quiet, [Next]_vars
               PROVE  Interpreted!Next \/ UNCHANGED seen
    BY DEF seen, InCall
  <2>1. CASE StepCall
    BY <2>1, StepRefines DEF Interpreted!Next
  <2>2. CASE HostCall /\ ~StepCall
    BY <2>2, SetupRefines
  <2>3. CASE RunStep \/ BlockOp
    BY <2>3, ExecuteRefines DEF Interpreted!Next
  <2>4. CASE BlockMiss
    BY <2>4, MissRefines
  <2>5. CASE RunReturn \/ BlockHit \/ BlockDone \/ AtBound \/ UNCHANGED vars
    BY <2>5, LoopRefines
  <2> QED
    BY <2>1, <2>2, <2>3, <2>4, <2>5 DEF Next, Running
<1> QED
  BY <1>1, InitRefines, ReplayInvariance, PTL DEF Spec, RefinesInterpreter, Interpreted!Spec
================================================================================
