------------------------------ MODULE ClusterProofs ------------------------------
(***************************************************************************)
(* The type invariant of Cluster, LockStep, IpiPrompt and ClocksAgree for  *)
(* any number of cores, any quantum, any guests and any sequence of the    *)
(* host's calls.  A core that is being stepped needs the invariant of the  *)
(* ticks, LockStep the exact number of steps each core has made in the     *)
(* current round, and IpiPrompt the core whose quantum is under way.       *)
(* ClocksAgree is inductive over the others; its sum over the cores is     *)
(* compared by the least index at which two sums would differ.  The last   *)
(* part is about the litmus programs of MCCluster: DataBeforeFlag, for     *)
(* every quantum and every order of the host's calls.                      *)
(***************************************************************************)
EXTENDS MCCluster, MachineProofs

\* Between instructions every core owes its peripherals less than a tick.
CoresBelowTick == \A c \in Core : cores[c].accum < CyclesPerTick

\* A quantum belongs to run() and to a core; the loops belong to a method called.
Places ==
    /\ ctl = "quantum" => i \in Core /\ mode = "run" /\ before <= cores[i].prof.cycles
    /\ ctl \in {"round", "turn", "quantum"} => mode \in happened
    /\ ctl = "step_all" => "step_all" \in happened

\* The steps core c has made in the current round, if it has not halted.
Done(c) ==
    IF ctl = "turn" THEN IF c < i THEN Quantum ELSE 0
    ELSE IF ctl = "quantum" THEN IF c < i THEN Quantum ELSE IF c = i THEN q ELSE 0
    ELSE IF ctl = "step_all" THEN IF c < i THEN 1 ELSE 0
    ELSE 0

\* Without the steps of the current round, all running cores have made equally many.
InStep ==
    happened \subseteq {"run", "step_all"} /\ ctl # "crashed" => \A c, d \in Core :
        ~cores[c].halt /\ ~cores[d].halt => steps[c] - Done(c) = steps[d] - Done(d)

\* A software interrupt is pending for a core.
Ready(m) ==
    /\ ~m.halt /\ "MachineSoft" \in m.mip
    /\ m.csr.mie /\ "MachineSoft" \in m.csr.ie

\* None is pending for a core that has been stepped in this round.
Answered ==
    ctl = "step_all" \/ (ctl \in {"turn", "quantum"} /\ mode = "run") =>
        \A c \in Core : c < i \/ (c = i /\ ctl = "quantum" /\ q > 0) => ~Ready(cores[c])

\* A fault of the process happens inside a turn: no core is ahead by more than one.
Ahead ==
    happened \subseteq {"run", "step_all"} /\ ctl = "crashed" => \A c, d \in Core :
        c < d /\ ~cores[c].halt /\ ~cores[d].halt => steps[c] - steps[d] \in 0 .. Quantum

Inv == TypeOK /\ CoresBelowTick /\ Places /\ InStep /\ Ahead /\ Answered
--------------------------------------------------------------------------------
\* Lemmas on the cores

\* A core through the shared window: only its memory looks different.
LEMMA SeenType ==
    ASSUME Inv, NEW c \in Core
    PROVE  /\ Seen(c) \in CoreState /\ Seen(c).accum < CyclesPerTick
           /\ Seen(c).halt = cores[c].halt /\ Seen(c).prof = cores[c].prof
<1> DEFINE f == [a \in Addr |-> IF a \in Window THEN shared[a] ELSE cores[c].mem[a]]
           s == cores[c]
<1>1. s \in CoreState /\ s.accum < CyclesPerTick /\ shared \in [Window -> Word]
  BY DEF Inv, TypeOK, CoresBelowTick
<1>2. f \in [Addr -> Word]
  BY <1>1 DEF CoreState
<1>3. Seen(c) = [s EXCEPT !.mem = f]
  BY DEF Seen
<1> HIDE DEF f, s
<1>4. /\ [s EXCEPT !.mem = f] \in CoreState /\ [s EXCEPT !.mem = f].accum = s.accum
      /\ [s EXCEPT !.mem = f].halt = s.halt /\ [s EXCEPT !.mem = f].prof = s.prof
  BY <1>1, <1>2 DEF CoreState
<1> QED
  BY <1>1, <1>3, <1>4 DEF s

\* A step never takes cycles back.
LEMMA CyclesGrow ==
    ASSUME NEW c \in CoreState, NEW d \in CoreState, NEW w, Clocked(d, c, w)
    PROVE  c.prof.cycles <= d.prof.cycles
<1>1. c.prof.cycles \in Nat /\ d.prof.cycles \in Nat
  BY DEF CoreState, Profile
<1> QED
  BY <1>1 DEF Clocked

\* After a step no software interrupt is pending: if one was, step() has entered
\* its handler, with interrupts disabled.
LEMMA StepAnswers ==
    ASSUME NEW c \in CoreState, ~c.halt
    PROVE  ~Ready(step(c).m)
<1> DEFINE d == step(c).m
<1>1. SameLines(d, c) /\ CsrStep(d, c, enter_interrupt(c).pc)
  BY StepFrame
<1> HIDE DEF d
<1>2. c.csr \in Csr
  BY DEF CoreState
<1>3. CASE d.csr = c.csr /\ ~HasInterrupt(c.csr, c.mip)
  <2> SUFFICES ASSUME "MachineSoft" \in d.mip, d.csr.mie, "MachineSoft" \in d.csr.ie PROVE FALSE
    BY DEF Ready, d
  <2>1. "MachineSoft" \in c.mip /\ c.csr.mie /\ "MachineSoft" \in c.csr.ie
    BY <1>1, <1>3 DEF SameLines
  <2> QED
    BY <1>3, <2>1 DEF HasInterrupt, interrupt_pending
<1>4. ASSUME NEW t \in Trap, d.csr = take_trap(c.csr, t) PROVE ~d.csr.mie
  BY <1>2, <1>4, TakeTrapFields
<1>5. CASE ~d.csr.mie
  BY <1>5 DEF Ready, d
<1> QED
  BY <1>1, <1>3, <1>4, <1>5 DEF CsrStep

\* An operation of a core's run_fast() leaves a typed core too.
LEMMA FastResult ==
    ASSUME Inv, NEW c \in Core
    PROVE  LET r == IF cores[c].pc \in Addr \ Window
                    THEN fast_op(Seen(c), cores[c].mem[cores[c].pc])
                    ELSE Throw(Seen(c))
           IN  Settled(r) /\ Settled([r EXCEPT !.m.tx = << >>])
<1> DEFINE w == cores[c].mem[cores[c].pc]
           r == IF cores[c].pc \in Addr \ Window THEN fast_op(Seen(c), w) ELSE Throw(Seen(c))
<1>1. cores[c] \in CoreState /\ cores[c].accum < CyclesPerTick
  BY DEF Inv, TypeOK, CoresBelowTick
<1>2. Settled(r)
  <2>1. cores[c].pc \in Addr => w \in Word
    BY <1>1 DEF CoreState
  <2>2. cores[c].pc \in Addr => Settled(fast_op(Seen(c), w))
    BY <2>1, SeenType, FastOpSettled
  <2>3. Settled(Throw(Seen(c)))
    BY SeenType DEF Settled, Throw, Outcome
  <2> QED
    BY <2>2, <2>3
<1> HIDE DEF r
<1>3. Same([r.m EXCEPT !.tx = << >>], r.m)
  BY <1>2, EmptySeq, Updates DEF Settled
<1>4. /\ [r EXCEPT !.m.tx = << >>].m = [r.m EXCEPT !.tx = << >>]
      /\ [r EXCEPT !.m.tx = << >>].end = r.end
  OBVIOUS
<1>5. Settled([r EXCEPT !.m.tx = << >>])
  BY <1>2, <1>3, <1>4 DEF Settled, Same
<1> QED
  BY <1>2, <1>5 DEF r

--------------------------------------------------------------------------------
\* What CoreDoes changes

\* The parts of the type invariant about the cores, the window and the ghosts.
CoresTyped ==
    /\ \A c \in Core : cores[c] \in CoreState
    /\ DOMAIN cores = Core /\ shared \in [Window -> Word] /\ CoresBelowTick
    /\ steps \in [Core -> Nat] /\ happened \subseteq {"run", "run_fast", "step_all", "throw"}

\* One core changes, and counts a step; a throw is remembered.
LEMMA CoreDoesFrame ==
    ASSUME Inv, NEW c \in Core, NEW r, Settled(r), NEW next, CoreDoes(c, r, next)
    PROVE  /\ CoresTyped'
           /\ cores'[c] = r.m /\ \A d \in Core : d # c => cores'[d] = cores[d]
           /\ steps'[c] = steps[c] + 1 /\ \A d \in Core : d # c => steps'[d] = steps[d]
           /\ \/ r.end = "ok" /\ ctl' = next /\ happened' = happened
              \/ r.end = "throw" /\ ctl' = "host" /\ happened' = happened \cup {"throw"}
              \/ r.end = "crash" /\ ctl' = "crashed" /\ happened' = happened
<1>1. /\ cores' = [cores EXCEPT ![c] = r.m]
      /\ shared' = [a \in Window |-> r.m.mem[a]]
      /\ ctl' = CASE r.end = "ok" -> next [] r.end = "throw" -> "host" [] OTHER -> "crashed"
      /\ steps' = [steps EXCEPT ![c] = steps[c] + 1]
      /\ happened' = IF r.end = "throw" THEN happened \cup {"throw"} ELSE happened
  BY DEF CoreDoes
<1>2. /\ r.m \in CoreState /\ r.end \in Outcome /\ r.m.accum < CyclesPerTick
      /\ r.m.mem \in [Addr -> Word]
  BY DEF Settled, CoreState
<1>3. /\ DOMAIN cores = Core /\ steps \in [Core -> Nat]
      /\ \A d \in Core : cores[d] \in CoreState /\ cores[d].accum < CyclesPerTick
      /\ happened \subseteq {"run", "run_fast", "step_all", "throw"}
  BY DEF Inv, TypeOK, CoresBelowTick
<1>4. cores'[c] = r.m /\ DOMAIN cores' = Core /\ \A d \in Core : d # c => cores'[d] = cores[d]
  BY <1>1, <1>3
<1>5. /\ steps'[c] = steps[c] + 1 /\ steps' \in [Core -> Nat]
      /\ \A d \in Core : d # c => steps'[d] = steps[d]
  BY <1>1, <1>3
<1>6. shared' \in [Window -> Word]
  BY <1>1, <1>2, ClusterAssumption
<1>7. \A d \in Core : cores'[d] \in CoreState /\ cores'[d].accum < CyclesPerTick
  BY <1>2, <1>3, <1>4
<1>8. \/ r.end = "ok" /\ ctl' = next /\ happened' = happened
      \/ r.end = "throw" /\ ctl' = "host" /\ happened' = happened \cup {"throw"}
      \/ r.end = "crash" /\ ctl' = "crashed" /\ happened' = happened
  BY <1>1, <1>2 DEF Outcome
<1>9. happened' \subseteq {"run", "run_fast", "step_all", "throw"}
  BY <1>3, <1>8
<1> QED
  BY <1>4, <1>5, <1>6, <1>7, <1>8, <1>9 DEF CoresTyped, CoresBelowTick

--------------------------------------------------------------------------------
\* Types

\* The initial state satisfies the invariant.
LEMMA InitInv == Init => Inv
<1> SUFFICES ASSUME Init PROVE Inv
  OBVIOUS
<1>0. NumCores \in Nat \ {0} /\ Quantum \in Nat \ {0} /\ MaxCores \in Nat \ {0} /\ 0 \in Word
  BY ClusterAssumption, SmallWords
<1>1. \A c \in Core : cores[c] = NewCore /\ steps[c] = 0
  BY DEF Init
<1>2. TypeOK /\ CoresBelowTick
  <2>1. \A c \in Core : cores[c] \in CoreState /\ cores[c].accum < CyclesPerTick
    BY <1>1, NewCoreType, IsaAssumption
  <2>2. /\ DOMAIN cores = Core /\ shared \in [Window -> Word]
        /\ clock \in Nat /\ clocks \in [0 .. MaxCores - 1 -> Nat]
        /\ ctl \in Ctl /\ mode \in {"run", "run_fast"}
        /\ steps \in [Core -> Nat] /\ happened \subseteq {"run", "run_fast", "step_all", "throw"}
    BY <1>0 DEF Init, Ctl
  <2>3. /\ i \in 0 .. NumCores /\ q \in 0 .. Quantum
        /\ before \in Nat /\ start \in Nat /\ limit \in Nat
    BY <1>0 DEF Init
  <2> QED
    BY <2>1, <2>2, <2>3 DEF TypeOK, CoresBelowTick
<1>3. Places /\ Answered
  BY DEF Init, Places, Answered
<1>4. InStep /\ Ahead
  <2>1. ctl = "host"
    BY DEF Init
  <2> QED
    BY <1>0, <1>1, <2>1 DEF InStep, Ahead, Done
<1> QED
  BY <1>2, <1>3, <1>4 DEF Inv

\* The type invariant and what it needs to be inductive.
Typed == TypeOK /\ CoresBelowTick /\ Places

\* Loading the programs keeps every core typed, and its halt flag.
LEMMA LoadedType ==
    ASSUME NEW s \in CoreState, NEW p \in Seq(Word)
    PROVE  /\ Loaded(s, p) \in CoreState /\ Loaded(s, p).accum = s.accum
           /\ Loaded(s, p).halt = s.halt /\ Loaded(s, p).prof = s.prof
<1> DEFINE f == [a \in Addr |-> IF a < Len(p) THEN p[a + 1] ELSE s.mem[a]]
<1>1. s.mem \in [Addr -> Word] /\ Len(p) \in Nat
  BY LenProperties DEF CoreState
<1>2. \A a \in Addr : a < Len(p) => p[a + 1] \in Word
  <2> TAKE a \in Addr
  <2>1. a \in Nat
    BY MachineAssumption, IsaAssumption DEF Addr
  <2>2. a < Len(p) => a + 1 \in 1 .. Len(p)
    BY <1>1, <2>1
  <2> QED
    BY <2>2, ElementOfSeq
<1>3. f \in [Addr -> Word]
  BY <1>1, <1>2
<1>4. Loaded(s, p) = [s EXCEPT !.mem = f]
  BY DEF Loaded
<1> HIDE DEF f
<1> QED
  BY <1>3, <1>4 DEF CoreState

\* The host has changed the memory, the CSRs or the lines of the cores.
SetUp ==
    /\ \A c \in Core : /\ cores'[c] \in CoreState /\ cores'[c].accum = cores[c].accum
                       /\ cores'[c].halt = cores[c].halt /\ cores'[c].prof = cores[c].prof
    /\ DOMAIN cores' = Core /\ ctl = "host"
    /\ UNCHANGED <<shared, engine, ctl, loop, ghost>>

\* That is what the calls before a run do.
LEMMA SetupFrame ==
    ASSUME Inv,
           \/ \E ps \in Workloads : load_program_all(ps)
           \/ \E x \in Vectors : EnableSoft(x[1], x[2])
           \/ \E t \in IpiTargets : send_ipi(t)
    PROVE  SetUp
<1>0. DOMAIN cores = Core /\ \A c \in Core : cores[c] \in CoreState
  BY DEF Inv, TypeOK
<1>1. ASSUME NEW ps \in Workloads, load_program_all(ps)
      PROVE  SetUp
  <2>1. \A c \in Core : ps[c] \in Seq(Word)
    BY ClusterAssumption
  <2>2. cores' = [c \in Core |-> Loaded(cores[c], ps[c])]
    BY <1>1 DEF load_program_all
  <2>3. \A c \in Core : /\ cores'[c] \in CoreState /\ cores'[c].accum = cores[c].accum
                        /\ cores'[c].halt = cores[c].halt /\ cores'[c].prof = cores[c].prof
    BY <1>0, <2>1, <2>2, LoadedType
  <2> QED
    BY <1>1, <2>2, <2>3 DEF load_program_all, SetUp
<1>2. ASSUME NEW x \in Vectors, EnableSoft(x[1], x[2])
      PROVE  SetUp
  <2> DEFINE s == cores[x[1]]
             u == [s.csr EXCEPT !.mtvec = x[2], !.mie = TRUE, !.ie = {"MachineSoft"}]
  <2>1. x[1] \in Core /\ x[2] \in Word
    BY ClusterAssumption
  <2>2. s \in CoreState /\ s.csr \in Csr
    BY <1>0, <2>1 DEF CoreState
  <2>3. u \in Csr
    BY <2>1, <2>2 DEF Csr, Line
  <2>4. cores' = [cores EXCEPT ![x[1]] = [s EXCEPT !.csr = u]]
    BY <1>0, <1>2, <2>1, <2>2 DEF EnableSoft, CoreState
  <2> HIDE DEF u, s
  <2>5. /\ [s EXCEPT !.csr = u] \in CoreState /\ [s EXCEPT !.csr = u].accum = s.accum
        /\ [s EXCEPT !.csr = u].halt = s.halt /\ [s EXCEPT !.csr = u].prof = s.prof
    BY <2>2, <2>3 DEF CoreState
  <2>6. cores'[x[1]] = [s EXCEPT !.csr = u] /\ \A c \in Core : c # x[1] => cores'[c] = cores[c]
    BY <1>0, <2>1, <2>4
  <2> QED
    BY <1>0, <1>2, <2>4, <2>5, <2>6 DEF EnableSoft, SetUp, s
<1>3. ASSUME NEW t \in IpiTargets, send_ipi(t)
      PROVE  SetUp
  <2> DEFINE s == cores[t]
             u == s.mip \cup {"MachineSoft"}
  <2>1. t \in Core
    BY <1>3 DEF send_ipi
  <2>2. s \in CoreState /\ s.mip \in SUBSET Line
    BY <1>0, <2>1 DEF CoreState
  <2>3. u \in SUBSET Line
    BY <2>2 DEF Line
  <2>4. cores' = [cores EXCEPT ![t] = [s EXCEPT !.mip = u]]
    BY <1>0, <1>3, <2>1, <2>2 DEF send_ipi, CoreState
  <2> HIDE DEF u, s
  <2>5. /\ [s EXCEPT !.mip = u] \in CoreState /\ [s EXCEPT !.mip = u].accum = s.accum
        /\ [s EXCEPT !.mip = u].halt = s.halt /\ [s EXCEPT !.mip = u].prof = s.prof
    BY <2>2, <2>3 DEF CoreState
  <2>6. cores'[t] = [s EXCEPT !.mip = u] /\ \A c \in Core : c # t => cores'[c] = cores[c]
    BY <1>0, <2>1, <2>4
  <2> QED
    BY <1>0, <1>3, <2>4, <2>5, <2>6 DEF send_ipi, SetUp, s
<1> QED
  BY <1>1, <1>2, <1>3

\* Everything but a core's instruction keeps the types.
LEMMA ControlTyped ==
    ASSUME Inv,
           \/ \E entry \in Calls \ {"step_all"}, max \in Limits : CallRun(entry, max)
           \/ "step_all" \in Calls /\ CallStepAll
           \/ RoundBegin \/ RunReturn \/ TurnSkip \/ TurnBegin \/ QuantumEnd \/ RoundEnd
           \/ StepAllSkip \/ StepAllReturn
    PROVE  Typed' /\ UNCHANGED <<cpu, steps>>
<1> USE DEF Inv, TypeOK
<1>0. /\ NumCores \in Nat \ {0} /\ Quantum \in Nat \ {0} /\ MaxCores \in Nat \ {0}
      /\ Core = 0 .. NumCores - 1
  BY ClusterAssumption DEF Core
<1>1. UNCHANGED <<cpu, steps>>
  BY DEF CallRun, CallStepAll, RoundBegin, RunReturn, TurnSkip, TurnBegin, QuantumEnd,
         RoundEnd, StepAllSkip, StepAllReturn, ghost
<1>2. CoresBelowTick' /\ \A c \in Core : cores'[c] = cores[c] /\ cores[c].prof.cycles \in Nat
  BY <1>1 DEF CoresBelowTick, cpu, CoreState, Profile
<1>3. DOMAIN cores' = Core /\ (\A c \in Core : cores'[c] \in CoreState)
      /\ shared' \in [Window -> Word] /\ steps' \in [Core -> Nat]
  BY <1>1 DEF cpu
<1>4. happened' \subseteq {"run", "run_fast", "step_all", "throw"} /\ happened \subseteq happened'
  BY ClusterAssumption DEF CallRun, CallStepAll, RoundBegin, RunReturn, TurnSkip, TurnBegin,
         QuantumEnd, RoundEnd, StepAllSkip, StepAllReturn, ghost
<1>5. clock' \in Nat /\ clocks' \in [0 .. MaxCores - 1 -> Nat]
  <2>1. ASSUME NEW c \in 0 .. NumCores - 1, NEW n \in Nat, tick(c, n)
        PROVE  clock' \in Nat /\ clocks' \in [0 .. MaxCores - 1 -> Nat]
    <3>1. c % MaxCores \in 0 .. MaxCores - 1
      BY <1>0
    <3> QED
      BY <2>1, <3>1 DEF tick
  <2>2. CASE QuantumEnd
    <3>1. i \in Core /\ before <= cores[i].prof.cycles
      BY <2>2 DEF QuantumEnd, Places
    <3>2. cores[i].prof.cycles - before \in Nat
      BY <1>2, <3>1
    <3> QED
      BY <1>0, <2>1, <2>2, <3>1, <3>2 DEF QuantumEnd
  <2>3. CASE RoundEnd
    <3>1. 0 \in 0 .. NumCores - 1
      BY <1>0
    <3> QED
      BY <1>0, <2>1, <2>3, <3>1 DEF RoundEnd, engine
  <2>4. CASE UNCHANGED engine
    BY <2>4 DEF engine
  <2>5. QuantumEnd \/ RoundEnd \/ UNCHANGED engine
    BY DEF CallRun, CallStepAll, RoundBegin, RunReturn, TurnSkip, TurnBegin,
           StepAllSkip, StepAllReturn
  <2> QED
    BY <2>2, <2>3, <2>4, <2>5
<1>6. i' \in 0 .. NumCores /\ q' \in 0 .. Quantum
  <2>1. i' \in {i, 0} \/ (i \in 0 .. NumCores - 1 /\ i' = i + 1)
    BY <1>0 DEF CallRun, CallStepAll, RoundBegin, RunReturn, TurnSkip, TurnBegin,
           QuantumEnd, RoundEnd, StepAllSkip, StepAllReturn, loop, Places
  <2>2. q' \in {q, 0}
    BY DEF CallRun, CallStepAll, RoundBegin, RunReturn, TurnSkip, TurnBegin,
           QuantumEnd, RoundEnd, StepAllSkip, StepAllReturn, loop
  <2> QED
    BY <1>0, <2>1, <2>2
<1>7. /\ ctl' \in Ctl /\ mode' \in {"run", "run_fast"}
      /\ before' \in Nat /\ start' \in Nat /\ limit' \in Nat
  BY <1>2, ClusterAssumption
  DEF CallRun, CallStepAll, RoundBegin, RunReturn, TurnSkip, TurnBegin,
      QuantumEnd, RoundEnd, StepAllSkip, StepAllReturn, loop, Ctl
<1>8. Places'
  <2>1. ctl' = "quantum" => i' \in Core /\ mode' = "run" /\ before' <= cores'[i'].prof.cycles
    BY <1>2 DEF CallRun, CallStepAll, RoundBegin, RunReturn, TurnSkip, TurnBegin,
           QuantumEnd, RoundEnd, StepAllSkip, StepAllReturn, loop, Places
  <2>2. ctl' \in {"round", "turn", "quantum"} => mode' \in happened'
    BY <1>4 DEF CallRun, CallStepAll, RoundBegin, RunReturn, TurnSkip, TurnBegin,
           QuantumEnd, RoundEnd, StepAllSkip, StepAllReturn, loop, Places
  <2>3. ctl' = "step_all" => "step_all" \in happened'
    BY <1>4 DEF CallRun, CallStepAll, RoundBegin, RunReturn, TurnSkip, TurnBegin,
           QuantumEnd, RoundEnd, StepAllSkip, StepAllReturn, loop, Places
  <2> QED
    BY <2>1, <2>2, <2>3 DEF Places
<1>9. TypeOK'
  BY <1>3, <1>4, <1>5, <1>6, <1>7
<1> QED
  BY <1>1, <1>2, <1>8, <1>9 DEF Typed

\* So does the host's setup.
LEMMA SetUpTyped ==
    ASSUME Inv, SetUp
    PROVE  Typed'
<1>1. ctl' = "host" /\ UNCHANGED <<shared, engine, ctl, loop, ghost>>
  BY DEF SetUp
<1>2. CoresBelowTick' /\ (\A c \in Core : cores'[c] \in CoreState) /\ DOMAIN cores' = Core
  BY DEF SetUp, Inv, CoresBelowTick
<1>3. Places'
  BY <1>1 DEF Places
<1>4. TypeOK'
  BY <1>1, <1>2 DEF Inv, TypeOK, engine, loop, ghost
<1> QED
  BY <1>2, <1>3, <1>4 DEF Typed

\* The instruction of a core in run(), run_fast() or step_all().
LEMMA StepTyped ==
    ASSUME Inv, QuantumStep \/ FastStep \/ StepAllStep
    PROVE  Typed'
<1>0. NumCores \in Nat \ {0} /\ Quantum \in Nat \ {0} /\ Core = 0 .. NumCores - 1
  BY ClusterAssumption DEF Core
<1>1. i \in Core /\ i \in 0 .. NumCores /\ q \in 0 .. Quantum /\ ~cores[i].halt
  BY DEF QuantumStep, FastStep, StepAllStep, InQuantum, Inv, TypeOK, Places
<1>2. Seen(i) \in CoreState /\ Seen(i).accum < CyclesPerTick /\ ~Seen(i).halt
      /\ Seen(i).prof = cores[i].prof
  BY <1>1, SeenType
<1>3. /\ clock \in Nat /\ clocks \in [0 .. MaxCores - 1 -> Nat] /\ ctl \in Ctl
      /\ mode \in {"run", "run_fast"} /\ before \in Nat /\ start \in Nat /\ limit \in Nat
      /\ cores[i] \in CoreState
  BY <1>1 DEF Inv, TypeOK
<1>4. CASE QuantumStep
  <2> DEFINE r == step(Seen(i))
  <2>1. Settled(r) /\ Clocked(r.m, Seen(i), FetchedWord(Seen(i)))
    BY <1>2, StepSettled, StepFrame
  <2>2. CoreDoes(i, r, "quantum") /\ q' = q + 1 /\ InQuantum(i, q) /\ ctl = "quantum"
    BY <1>4 DEF QuantumStep
  <2>3. UNCHANGED <<engine, mode, i, before, start, limit>>
    BY <1>4 DEF QuantumStep
  <2> HIDE DEF r
  <2>4. /\ CoresTyped' /\ cores'[i] = r.m
        /\ \/ ctl' = "quantum" /\ happened' = happened
           \/ ctl' = "host"
           \/ ctl' = "crashed"
    BY <1>1, <2>1, <2>2, CoreDoesFrame
  <2>5. q' \in 0 .. Quantum
    BY <1>0, <1>1, <2>2 DEF InQuantum
  <2>6. before <= r.m.prof.cycles
    <3>1. before <= Seen(i).prof.cycles
      BY <1>2, <2>2 DEF Inv, Places
    <3>2. r.m \in CoreState
      BY <2>1 DEF Settled
    <3>3. Seen(i).prof.cycles <= r.m.prof.cycles
      BY <1>2, <2>1, <3>2, CyclesGrow
    <3>4. Seen(i).prof.cycles \in Nat /\ r.m.prof.cycles \in Nat
      BY <1>2, <3>2 DEF CoreState, Profile
    <3> QED
      BY <1>3, <3>1, <3>3, <3>4
  <2>7. Places'
    <3>1. i' = i /\ mode' = mode /\ before' = before
      BY <2>3
    <3> QED
      BY <1>1, <2>2, <2>4, <2>6, <3>1 DEF Inv, Places
  <2>8. ctl' \in Ctl
    BY <2>4 DEF Ctl
  <2> QED
    BY <1>1, <1>3, <2>3, <2>4, <2>5, <2>7, <2>8 DEF Typed, TypeOK, CoresTyped, engine
<1>5. CASE FastStep
  <2>1. PICK r : Settled(r) /\ CoreDoes(i, r, "turn")
    <3> DEFINE s == IF cores[i].pc \in Addr \ Window
                    THEN fast_op(Seen(i), cores[i].mem[cores[i].pc])
                    ELSE Throw(Seen(i))
    <3>1. CoreDoes(i, IF s.m.halt THEN [s EXCEPT !.m.tx = << >>] ELSE s, "turn")
      BY <1>5 DEF FastStep
    <3>2. Settled(s) /\ Settled([s EXCEPT !.m.tx = << >>])
      BY <1>1, FastResult
    <3> HIDE DEF s
    <3> QED
      BY <3>1, <3>2
  <2>2. UNCHANGED <<engine, loop>> /\ ctl = "turn"
    BY <1>5 DEF FastStep
  <2>3. /\ CoresTyped'
        /\ \/ ctl' = "turn" /\ happened' = happened
           \/ ctl' = "host"
           \/ ctl' = "crashed"
    BY <1>1, <2>1, CoreDoesFrame
  <2>4. ctl' \in Ctl /\ Places'
    BY <2>2, <2>3 DEF Ctl, Inv, Places, loop
  <2> QED
    BY <1>1, <1>3, <2>2, <2>3, <2>4 DEF Typed, TypeOK, CoresTyped, engine, loop
<1>6. CASE StepAllStep
  <2> DEFINE r == step(Seen(i))
  <2>1. Settled(r)
    BY <1>2, StepSettled
  <2>2. CoreDoes(i, r, "step_all") /\ i' = i + 1
    BY <1>6 DEF StepAllStep
  <2>3. UNCHANGED <<engine, mode, q, before, start, limit>>
    BY <1>6 DEF StepAllStep
  <2> HIDE DEF r
  <2>4. /\ CoresTyped' /\ ctl' \in {"step_all", "host", "crashed"}
        /\ ctl' = "step_all" => happened' = happened
    BY <1>1, <2>1, <2>2, CoreDoesFrame
  <2>5. i' \in 0 .. NumCores
    BY <1>0, <1>1, <2>2
  <2>6. ctl' \in Ctl /\ Places'
    <3>1. "step_all" \in happened
      BY <1>6 DEF StepAllStep, Inv, Places
    <3> QED
      BY <2>4, <3>1 DEF Ctl, Places
  <2> QED
    BY <1>1, <1>3, <2>3, <2>4, <2>5, <2>6 DEF Typed, TypeOK, CoresTyped, engine
<1> QED
  BY <1>4, <1>5, <1>6

--------------------------------------------------------------------------------
\* Lockstep

\* The exact account of the round bounds how far a core can be ahead.
LEMMA InStepBounds ==
    ASSUME Inv
    PROVE  LockStep
<1> SUFFICES ASSUME happened \subseteq {"run", "step_all"}, NEW c \in Core, NEW d \in Core,
                    c < d, ~cores[c].halt, ~cores[d].halt
             PROVE  /\ steps[c] - steps[d] \in 0 .. Quantum
                    /\ ctl = "host" => steps[c] = steps[d]
  BY DEF LockStep
<1>0. /\ Quantum \in Nat \ {0} /\ c \in Nat /\ d \in Nat
      /\ i \in Nat /\ q \in 0 .. Quantum /\ steps[c] \in Nat /\ steps[d] \in Nat
  BY ClusterAssumption DEF Inv, TypeOK, Core
<1>1. CASE ctl = "crashed"
  BY <1>1 DEF Inv, Ahead
<1>2. CASE ctl # "crashed"
  <2>1. steps[c] - Done(c) = steps[d] - Done(d)
    BY <1>2 DEF Inv, InStep
  <2>2. Done(c) \in 0 .. Quantum /\ Done(d) \in 0 .. Quantum /\ Done(d) <= Done(c)
    BY <1>0 DEF Done
  <2>3. ctl = "host" => Done(c) = 0 /\ Done(d) = 0
    BY DEF Done
  <2>4. steps[c] - steps[d] = Done(c) - Done(d)
    BY <1>0, <2>1, <2>2
  <2>5. steps[c] - steps[d] \in 0 .. Quantum
    BY <1>0, <2>2, <2>4
  <2>6. ASSUME ctl = "host" PROVE steps[c] = steps[d]
    <3>1. steps[c] - steps[d] = 0
      BY <2>3, <2>4, <2>6
    <3> QED
      BY <1>0, <3>1
  <2> QED
    BY <2>5, <2>6
<1> QED
  BY <1>1, <1>2

\* A step that executes nothing shifts the account of all running cores alike.
LEMMA ShiftInStep ==
    ASSUME Inv, ctl # "crashed", happened \subseteq happened', steps' = steps,
           NEW k \in Int,
           \A c \in Core : /\ cores'[c].halt = cores[c].halt
                           /\ ~cores[c].halt => Done(c)' = Done(c) - k
    PROVE  InStep'
<1> SUFFICES ASSUME happened' \subseteq {"run", "step_all"}, NEW c \in Core, NEW d \in Core,
                    ~cores'[c].halt, ~cores'[d].halt
             PROVE  steps'[c] - Done(c)' = steps'[d] - Done(d)'
  BY DEF InStep
<1>1. steps[c] - Done(c) = steps[d] - Done(d)
  BY DEF Inv, InStep
<1>2. Done(c)' = Done(c) - k /\ Done(d)' = Done(d) - k
  OBVIOUS
<1>3. Quantum \in Nat /\ q \in Nat /\ steps[c] \in Nat /\ steps[d] \in Nat
  BY ClusterAssumption DEF Inv, TypeOK
<1>4. Done(c) \in Int /\ Done(d) \in Int
  BY <1>3 DEF Done
<1> QED
  BY <1>1, <1>2, <1>3, <1>4

\* Every step but a core's instruction keeps the account.
LEMMA ControlInStep ==
    ASSUME Inv,
           \/ SetUp
           \/ \E entry \in Calls \ {"step_all"}, max \in Limits : CallRun(entry, max)
           \/ "step_all" \in Calls /\ CallStepAll
           \/ RoundBegin \/ RunReturn \/ TurnSkip \/ TurnBegin \/ QuantumEnd \/ RoundEnd
           \/ StepAllSkip \/ StepAllReturn
    PROVE  InStep' /\ ctl' # "crashed"
<1>0. /\ NumCores \in Nat \ {0} /\ Quantum \in Nat \ {0} /\ Core = 0 .. NumCores - 1
      /\ i \in 0 .. NumCores /\ q \in 0 .. Quantum
      /\ \A c \in Core : Done(c) \in Int
  <2>1. /\ NumCores \in Nat \ {0} /\ Quantum \in Nat \ {0} /\ Core = 0 .. NumCores - 1
        /\ i \in 0 .. NumCores /\ q \in 0 .. Quantum
    BY ClusterAssumption DEF Core, Inv, TypeOK
  <2> QED
    BY <2>1 DEF Done
<1>1. /\ \A c \in Core : cores'[c].halt = cores[c].halt
      /\ steps' = steps /\ happened \subseteq happened' /\ ctl # "crashed" /\ ctl' # "crashed"
  BY DEF SetUp, CallRun, CallStepAll, RoundBegin, RunReturn, TurnSkip, TurnBegin, QuantumEnd,
         RoundEnd, StepAllSkip, StepAllReturn, ghost, cpu
<1>2. ASSUME \A c \in Core : ~cores[c].halt => Done(c)' = Done(c) PROVE InStep'
  <2>1. \A c \in Core : ~cores[c].halt => Done(c)' = Done(c) - 0
    BY <1>0, <1>2
  <2> QED
    BY <1>1, <2>1, ShiftInStep
<1>3. CASE SetUp \/ RunReturn \/ RoundBegin
           \/ (\E entry \in Calls \ {"step_all"}, max \in Limits : CallRun(entry, max))
           \/ ("step_all" \in Calls /\ CallStepAll)
  <2>1. \A c \in Core : Done(c) = 0
    BY <1>3 DEF SetUp, RunReturn, RoundBegin, CallRun, CallStepAll, Done
  <2>2. ctl' \in {"host", "round"} \/ (ctl' \in {"turn", "step_all"} /\ i' = 0)
    BY <1>3 DEF SetUp, RunReturn, RoundBegin, CallRun, CallStepAll
  <2>3. \A c \in Core : ~(c < 0)
    BY <1>0
  <2>4. \A c \in Core : Done(c)' = 0
    BY <2>2, <2>3 DEF Done
  <2> QED
    BY <1>1, <1>2, <2>1, <2>4
<1>4. CASE TurnSkip
  <2>1. ctl' = "turn" /\ ctl = "turn" /\ i' = i + 1 /\ cores[i].halt
    BY <1>4 DEF TurnSkip
  <2>2. \A c \in Core : ~cores[c].halt => (c < i + 1 <=> c < i)
    BY <1>0, <2>1
  <2> QED
    BY <1>1, <1>2, <2>1, <2>2 DEF Done
<1>5. CASE TurnBegin
  <2>1. ctl' = "quantum" /\ ctl = "turn" /\ i' = i /\ q' = 0
    BY <1>5 DEF TurnBegin
  <2> QED
    BY <1>1, <1>0, <1>2, <2>1 DEF Done
<1>6. CASE QuantumEnd
  <2>1. ctl' = "turn" /\ ctl = "quantum" /\ i' = i + 1 /\ ~InQuantum(i, q)
    BY <1>6 DEF QuantumEnd
  <2>2. cores[i].halt \/ q = Quantum
    BY <1>0, <2>1 DEF InQuantum
  <2>3. \A c \in Core : ~cores[c].halt =>
          (IF c < i + 1 THEN Quantum ELSE 0) = IF c < i THEN Quantum ELSE IF c = i THEN q ELSE 0
    BY <1>0, <2>2
  <2> QED
    BY <1>1, <1>2, <2>1, <2>3 DEF Done
<1>7. CASE RoundEnd
  <2>1. ctl' = "round" /\ ctl = "turn" /\ i = NumCores
    BY <1>7 DEF RoundEnd
  <2>2. \A c \in Core : Done(c) = Quantum /\ Done(c)' = 0
    BY <1>0, <2>1 DEF Done
  <2>3. \A c \in Core : Done(c)' = Done(c) - Quantum
    BY <1>0, <2>2
  <2>4. Quantum \in Int
    BY <1>0
  <2> QED
    BY <1>1, <2>3, <2>4, ShiftInStep
<1>8. CASE StepAllSkip
  <2>1. ctl' = "step_all" /\ ctl = "step_all" /\ i' = i + 1 /\ cores[i].halt
    BY <1>8 DEF StepAllSkip
  <2>2. \A c \in Core : ~cores[c].halt => (c < i + 1 <=> c < i)
    BY <1>0, <2>1
  <2> QED
    BY <1>1, <1>2, <2>1, <2>2 DEF Done
<1>9. CASE StepAllReturn
  <2>1. ctl' = "host" /\ ctl = "step_all" /\ i = NumCores
    BY <1>9 DEF StepAllReturn
  <2>2. \A c \in Core : Done(c) = 1 /\ Done(c)' = 0
    BY <1>0, <2>1 DEF Done
  <2>3. \A c \in Core : Done(c)' = Done(c) - 1
    BY <2>2
  <2> DEFINE one == 1
  <2>4. one \in Int /\ \A c \in Core : Done(c)' = Done(c) - one
    BY <2>3
  <2> HIDE DEF one
  <2> QED
    BY <1>1, <2>4, ShiftInStep
<1> QED
  BY <1>1, <1>3, <1>4, <1>5, <1>6, <1>7, <1>8, <1>9

\* A core's instruction counts in its steps and in the account of its round.
LEMMA StepInStep ==
    ASSUME Inv, QuantumStep \/ FastStep \/ StepAllStep
    PROVE  InStep' /\ Ahead'
<1>0. /\ NumCores \in Nat \ {0} /\ Quantum \in Nat \ {0} /\ Core = 0 .. NumCores - 1
      /\ i \in 0 .. NumCores /\ q \in 0 .. Quantum /\ steps \in [Core -> Nat]
  BY ClusterAssumption DEF Core, Inv, TypeOK
<1>2. i \in Core /\ ~cores[i].halt
  BY DEF QuantumStep, FastStep, StepAllStep, InQuantum, Inv, Places
<1>3. CASE FastStep
  <2>1. "run_fast" \in happened
    BY <1>3 DEF FastStep, Inv, Places
  <2>2. happened \subseteq happened'
    BY <1>3 DEF FastStep, CoreDoes
  <2> QED
    BY <2>1, <2>2 DEF InStep, Ahead
<1>4. CASE QuantumStep \/ StepAllStep
  <2> DEFINE r == step(Seen(i))
  <2>1. Settled(r)
    BY <1>2, SeenType, StepSettled
  <2>2. CoreDoes(i, r, ctl) /\ ctl \in {"quantum", "step_all"}
    BY <1>4 DEF QuantumStep, StepAllStep
  <2> HIDE DEF r
  <2>3. /\ \A d \in Core : d # i => cores'[d] = cores[d] /\ steps'[d] = steps[d]
        /\ steps'[i] = steps[i] + 1
        /\ \/ r.end = "ok" /\ ctl' = ctl /\ happened' = happened
           \/ r.end = "throw" /\ ctl' = "host" /\ happened' = happened \cup {"throw"}
           \/ r.end = "crash" /\ ctl' = "crashed" /\ happened' = happened
    BY <1>2, <2>1, <2>2, CoreDoesFrame
  <2>4. ASSUME NEW c \in Core, ~cores'[c].halt PROVE ~cores[c].halt
    BY <1>2, <2>3, <2>4
  <2>5. CASE r.end = "throw"
    BY <2>3, <2>5 DEF InStep, Ahead
  <2>6. CASE r.end # "throw"
    <3>1. happened' = happened
      BY <2>3, <2>6
    <3>2. ctl = "quantum" => q < Quantum /\ q' = q + 1 /\ i' = i
      BY <1>4 DEF QuantumStep, StepAllStep, InQuantum
    <3>3. ctl = "step_all" => i' = i + 1
      BY <1>4 DEF QuantumStep, StepAllStep
    <3>4. InStep'
      <4> SUFFICES ASSUME happened \subseteq {"run", "step_all"}, ctl' # "crashed",
                          NEW c \in Core, NEW d \in Core, ~cores'[c].halt, ~cores'[d].halt
                   PROVE  steps'[c] - Done(c)' = steps'[d] - Done(d)'
        BY <3>1 DEF InStep
      <4>1. steps[c] - Done(c) = steps[d] - Done(d)
        BY <2>2, <2>4 DEF Inv, InStep
      <4>2. ctl' = ctl
        BY <2>3, <2>6
      <4>3. ASSUME NEW e \in Core
            PROVE  steps'[e] - Done(e)' = steps[e] - Done(e)
        <5>1. e \in Nat /\ i \in Nat /\ steps[e] \in Nat
          BY <1>0
        <5>2. CASE e = i
          <6>1. Done(e)' = Done(e) + 1 /\ Done(e) \in Nat
            <7>1. CASE ctl = "quantum"
              <8>1. Done(e) = q /\ Done(e)' = q'
                BY <3>2, <4>2, <5>1, <5>2, <7>1 DEF Done
              <8> QED
                BY <1>0, <3>2, <7>1, <8>1
            <7>2. CASE ctl = "step_all"
              <8>1. ~(e < i) /\ e < i'
                BY <3>3, <5>1, <5>2, <7>2
              <8>2. Done(e) = 0 /\ Done(e)' = 1
                BY <4>2, <7>2, <8>1 DEF Done
              <8> QED
                BY <8>2
            <7> QED
              BY <2>2, <7>1, <7>2
          <6>2. steps'[e] = steps[e] + 1
            BY <2>3, <5>2
          <6> QED
            BY <5>1, <6>1, <6>2
        <5>3. CASE e # i
          <6>1. Done(e)' = Done(e)
            <7>1. CASE ctl = "quantum"
              BY <3>2, <4>2, <5>3, <7>1 DEF Done
            <7>2. CASE ctl = "step_all"
              <8>1. e < i <=> e < i'
                BY <3>3, <5>1, <5>3, <7>2
              <8> QED
                BY <4>2, <7>2, <8>1 DEF Done
            <7> QED
              BY <2>2, <7>1, <7>2
          <6> QED
            BY <2>3, <5>3, <6>1
        <5> QED
          BY <5>2, <5>3
      <4> QED
        BY <4>1, <4>3
    <3>5. CASE ctl' # "crashed"
      BY <3>4, <3>5 DEF Ahead
    <3>6. CASE ctl' = "crashed"
      <4> SUFFICES ASSUME happened \subseteq {"run", "step_all"}, NEW c \in Core, NEW d \in Core,
                          c < d, ~cores'[c].halt, ~cores'[d].halt
                   PROVE  steps'[c] - steps'[d] \in 0 .. Quantum
        BY <3>1, <3>4, <3>6 DEF Ahead
      <4>1. steps[c] - Done(c) = steps[d] - Done(d)
        BY <2>2, <2>4 DEF Inv, InStep
      <4>2. c \in Nat /\ d \in Nat /\ i \in Nat /\ steps[c] \in Nat /\ steps[d] \in Nat
        BY <1>0
      <4>3. /\ steps'[c] = steps[c] + (IF c = i THEN 1 ELSE 0)
            /\ steps'[d] = steps[d] + (IF d = i THEN 1 ELSE 0)
        BY <2>3, <4>2
      <4>4. Done(c) \in 0 .. Quantum /\ Done(d) \in 0 .. Quantum
        BY <1>0, <2>2, <4>2 DEF Done
      <4>5. (Done(c) + (IF c = i THEN 1 ELSE 0)) - (Done(d) + (IF d = i THEN 1 ELSE 0)) \in 0 .. Quantum
        BY <1>0, <2>2, <3>2, <4>2 DEF Done
      <4> QED
        BY <4>1, <4>2, <4>3, <4>4, <4>5
    <3> QED
      BY <3>4, <3>5, <3>6
  <2> QED
    BY <2>5, <2>6
<1> QED
  BY <1>3, <1>4

--------------------------------------------------------------------------------
\* Inter-core interrupts

\* Every step keeps the cores that have had their turn without a pending interrupt.
LEMMA NextAnswered ==
    ASSUME Inv,
           \/ SetUp
           \/ \E entry \in Calls \ {"step_all"}, max \in Limits : CallRun(entry, max)
           \/ "step_all" \in Calls /\ CallStepAll
           \/ Running
    PROVE  Answered'
<1>0. /\ NumCores \in Nat \ {0} /\ Quantum \in Nat \ {0} /\ Core = 0 .. NumCores - 1
      /\ i \in 0 .. NumCores /\ q \in 0 .. Quantum
      /\ \A c \in Core : c \in Nat /\ ~(c < 0)
  BY ClusterAssumption DEF Core, Inv, TypeOK
<1>1. CASE SetUp \/ RunReturn \/ RoundBegin \/ StepAllReturn \/ RoundEnd
           \/ (\E entry \in Calls \ {"step_all"}, max \in Limits : CallRun(entry, max))
           \/ ("step_all" \in Calls /\ CallStepAll)
  <2>1. ctl' \in {"host", "round"} \/ (ctl' \in {"turn", "step_all"} /\ i' = 0)
    BY <1>1 DEF SetUp, RunReturn, RoundBegin, StepAllReturn, RoundEnd, CallRun, CallStepAll
  <2> QED
    BY <1>0, <2>1 DEF Answered
<1>2. CASE TurnSkip \/ StepAllSkip
  <2>1. /\ cores[i].halt /\ i' = i + 1 /\ i \in Core /\ mode' = mode
        /\ cores' = cores /\ ctl' = ctl /\ ctl \in {"turn", "step_all"}
    BY <1>2 DEF TurnSkip, StepAllSkip, cpu
  <2>2. \A c \in Core : c < i + 1 => c < i \/ c = i
    BY <1>0
  <2> QED
    BY <2>1, <2>2 DEF Inv, Answered, Ready
<1>3. CASE TurnBegin
  <2>1. q' = 0 /\ i' = i /\ mode' = mode /\ cores' = cores /\ ctl = "turn" /\ ctl' = "quantum"
    BY <1>3 DEF TurnBegin, cpu
  <2> QED
    BY <2>1 DEF Inv, Answered
<1>4. CASE QuantumEnd
  <2>1. /\ i' = i + 1 /\ mode' = mode /\ cores' = cores /\ ctl = "quantum" /\ ctl' = "turn"
        /\ mode = "run" /\ ~InQuantum(i, q)
    BY <1>4 DEF QuantumEnd, cpu, Inv, Places
  <2>2. cores[i].halt \/ q > 0
    BY <1>0, <2>1 DEF InQuantum
  <2>3. \A c \in Core : c < i + 1 => c < i \/ c = i
    BY <1>0
  <2> QED
    BY <2>1, <2>2, <2>3 DEF Inv, Answered, Ready
<1>5. CASE QuantumStep \/ StepAllStep
  <2> DEFINE r == step(Seen(i))
  <2>1. i \in Core /\ ~cores[i].halt
    BY <1>5 DEF QuantumStep, StepAllStep, InQuantum, Inv, Places
  <2>2. Settled(r) /\ ~Ready(r.m)
    BY <2>1, SeenType, StepSettled, StepAnswers
  <2>3. CoreDoes(i, r, ctl) /\ ctl \in {"quantum", "step_all"} /\ mode' = mode
    BY <1>5 DEF QuantumStep, StepAllStep
  <2> HIDE DEF r
  <2>4. /\ \A d \in Core : d # i => cores'[d] = cores[d]
        /\ cores'[i] = r.m
        /\ ctl' \in {ctl, "host", "crashed"}
    BY <2>1, <2>2, <2>3, CoreDoesFrame
  <2>5. i' = i \/ i' = i + 1
    BY <1>5 DEF QuantumStep, StepAllStep
  <2>6. \A c \in Core : c < i' \/ (c = i' /\ ctl' = "quantum") => c < i \/ c = i
    <3>1. i' = i + 1 => ctl' # "quantum"
      BY <1>0, <1>5, <2>4 DEF QuantumStep, StepAllStep
    <3> QED
      BY <1>0, <2>5, <3>1
  <2>7. ASSUME NEW c \in Core, ctl' = ctl, ctl = "step_all" \/ mode = "run",
               c < i' \/ (c = i' /\ ctl' = "quantum")
        PROVE  ~Ready(cores'[c])
    BY <1>0, <2>2, <2>3, <2>4, <2>6, <2>7 DEF Inv, Answered
  <2>8. ctl' = "step_all" \/ (ctl' \in {"turn", "quantum"} /\ mode' = "run") =>
          ctl' = ctl /\ (ctl = "step_all" \/ mode = "run")
    BY <2>3, <2>4
  <2> SUFFICES ASSUME ctl' = "step_all" \/ (ctl' \in {"turn", "quantum"} /\ mode' = "run"),
                      NEW c \in Core, c < i' \/ (c = i' /\ ctl' = "quantum" /\ q' > 0)
               PROVE  ~Ready(cores'[c])
    BY DEF Answered, Ready
  <2>9. /\ ctl' = ctl /\ (ctl = "step_all" \/ mode = "run")
        /\ c < i' \/ (c = i' /\ ctl' = "quantum")
    BY <2>8
  <2> QED
    BY <2>7, <2>9, Zenon
<1>6. CASE FastStep
  <2>1. mode' = "run_fast" /\ ctl' # "step_all"
    BY <1>6 DEF FastStep, CoreDoes, loop
  <2> QED
    BY <2>1 DEF Answered
<1> QED
  BY <1>1, <1>2, <1>3, <1>4, <1>5, <1>6 DEF Running

--------------------------------------------------------------------------------
\* Every step preserves the invariant.
LEMMA NextInv == Inv /\ [Next]_vars => Inv'
<1> SUFFICES ASSUME Inv, [Next]_vars PROVE Inv'
  OBVIOUS
<1>1. ASSUME \/ \E ps \in Workloads : load_program_all(ps)
             \/ \E x \in Vectors : EnableSoft(x[1], x[2])
             \/ \E t \in IpiTargets : send_ipi(t)
      PROVE  Inv'
  <2>1. SetUp
    BY <1>1, SetupFrame
  <2>2. Typed' /\ InStep' /\ ctl' # "crashed" /\ Answered'
    BY <2>1, SetUpTyped, ControlInStep, NextAnswered
  <2> QED
    BY <2>2 DEF Inv, Typed, Ahead
<1>2. ASSUME \/ \E entry \in Calls \ {"step_all"}, max \in Limits : CallRun(entry, max)
             \/ "step_all" \in Calls /\ CallStepAll
             \/ RoundBegin \/ RunReturn \/ TurnSkip \/ TurnBegin \/ QuantumEnd \/ RoundEnd
             \/ StepAllSkip \/ StepAllReturn
      PROVE  Inv'
  <2>1. Typed' /\ InStep' /\ ctl' # "crashed"
    BY <1>2, ControlTyped, ControlInStep
  <2>2. Answered'
    BY <1>2, NextAnswered DEF Running
  <2> QED
    BY <2>1, <2>2 DEF Inv, Typed, Ahead
<1>3. ASSUME QuantumStep \/ FastStep \/ StepAllStep PROVE Inv'
  <2>1. Typed' /\ InStep' /\ Ahead'
    BY <1>3, StepTyped, StepInStep
  <2>2. Answered'
    BY <1>3, NextAnswered DEF Running
  <2> QED
    BY <2>1, <2>2 DEF Inv, Typed
<1>4. ASSUME AtBound \/ UNCHANGED vars PROVE Inv'
  <2>1. UNCHANGED <<cpu, engine, ctl, loop, ghost>>
    BY <1>4 DEF AtBound, vars
  <2>2. UNCHANGED <<cores, shared, clock, clocks, ctl, mode, i, q, before, start, limit>>
        /\ UNCHANGED <<steps, happened>>
    BY <2>1 DEF cpu, engine, loop, ghost
  <2> QED
    BY <2>2 DEF Inv, TypeOK, CoresBelowTick, Places, InStep, Done, Ahead, Answered, Ready
<1> QED
  BY <1>1, <1>2, <1>3, <1>4 DEF Next, HostCall, Running

\* The inductive invariant holds in every reachable state.
LEMMA Invariance == Spec => []Inv
BY InitInv, NextInv, PTL DEF Spec

\* The cluster's state is well typed whatever the guests do: every core and the
\* shared window hold words, the loop counters stay within the cores and the
\* quantum, and the engine is never ticked backwards (src/cluster.cpp).
THEOREM TypeCorrect == Spec => []TypeOK
<1>1. Inv => TypeOK
  BY DEF Inv
<1> QED
  BY <1>1, Invariance, PTL

\* Quantum-based lockstep (include/aiasm/cluster.h:18) for any number of cores, any
\* quantum and any limit: of two running cores neither is ever more than a quantum of
\* steps ahead, and none is when a call has returned (Cluster::run, step_all).
THEOREM CoresInLockStep == Spec => []LockStep
<1>1. Inv => LockStep
  BY InStepBounds
<1> QED
  BY <1>1, Invariance, PTL

\* An inter-core interrupt never outlives its target's turn, for any number of cores:
\* a core the loop has passed has taken it (send_ipi, run, step_all, step).
THEOREM InterruptsArePrompt == Spec => []IpiPrompt
<1>1. Inv => IpiPrompt
  BY DEF Inv, IpiPrompt, IpiArmed, Answered, Ready
<1> QED
  BY <1>1, Invariance, PTL

--------------------------------------------------------------------------------
\* Sums

\* s holds the sums of the first 0, 1, .., n values of f.
Adds(s, f, n) ==
    s \in [0 .. n -> Nat] /\ s[0] = 0 /\ \A k \in 1 .. n : s[k] = s[k - 1] + f[k - 1]

\* The sums exist, by induction on n: there is no least n without them.
LEMMA SumsExist ==
    ASSUME NEW n \in Nat, NEW f \in [0 .. n - 1 -> Nat]
    PROVE  \E s : Adds(s, f, n)
<1> DEFINE B == {k \in 0 .. n : ~ \E s : Adds(s, f, k)}
<1>1. CASE B = {}
  <2>1. n \in 0 .. n
    OBVIOUS
  <2> QED
    BY <1>1, <2>1
<1>2. CASE B # {}
  <2>1. B \in SUBSET Nat
    OBVIOUS
  <2>2. PICK k \in B : \A y \in B : k <= y
    <3> HIDE DEF B
    <3> QED BY <1>2, <2>1, LeastElement
  <2>3. k \in 0 .. n /\ ~ \E s : Adds(s, f, k)
    OBVIOUS
  <2>4. k # 0
    <3>1. Adds([j \in 0 .. 0 |-> 0], f, 0)
      BY DEF Adds
    <3> QED
      BY <2>3, <3>1
  <2>5. k - 1 \in 0 .. n /\ ~(k <= k - 1)
    BY <2>3, <2>4
  <2>6. k - 1 \notin B
    <3> HIDE DEF B
    <3> QED BY <2>2, <2>5
  <2>7. PICK s : Adds(s, f, k - 1)
    BY <2>5, <2>6
  <2> DEFINE t == [j \in 0 .. k |-> IF j = k THEN s[k - 1] + f[k - 1] ELSE s[j]]
  <2>8. Adds(t, f, k)
    <3>1. s \in [0 .. k - 1 -> Nat] /\ f[k - 1] \in Nat /\ s[k - 1] \in Nat
      BY <2>3, <2>4, <2>7 DEF Adds
    <3>2. t \in [0 .. k -> Nat] /\ t[0] = 0
      BY <2>3, <2>4, <2>7, <3>1 DEF Adds
    <3>3. \A j \in 1 .. k : t[j] = t[j - 1] + f[j - 1]
      BY <2>3, <2>4, <2>7, <3>1 DEF Adds
    <3> QED
      BY <3>2, <3>3 DEF Adds
  <2> QED
    BY <2>3, <2>8
<1> QED
  BY <1>1, <1>2

\* Two functions that both start at 0 and add the same values are equal.
LEMMA SumsUnique ==
    ASSUME NEW n \in Nat, NEW f, NEW s, Adds(s, f, n), NEW t, t[0] = 0,
           \A k \in 1 .. n : t[k] = t[k - 1] + f[k - 1]
    PROVE  t[n] = s[n]
<1> DEFINE B == {k \in 0 .. n : t[k] # s[k]}
<1>1. CASE B = {}
  <2>1. n \in 0 .. n
    OBVIOUS
  <2> QED
    BY <1>1, <2>1
<1>2. CASE B # {}
  <2>1. B \in SUBSET Nat
    OBVIOUS
  <2>2. PICK k \in B : \A y \in B : k <= y
    <3> HIDE DEF B
    <3> QED BY <1>2, <2>1, LeastElement
  <2>3. k \in 0 .. n /\ t[k] # s[k]
    OBVIOUS
  <2>4. k # 0 /\ k \in 1 .. n /\ k - 1 \in 0 .. n /\ ~(k <= k - 1)
    BY <2>3 DEF Adds
  <2>5. k - 1 \notin B
    <3> HIDE DEF B
    <3> QED BY <2>2, <2>4
  <2>6. t[k - 1] = s[k - 1]
    BY <2>4, <2>5
  <2>7. t[k] = s[k - 1] + f[k - 1]
    BY <2>4, <2>6
  <2>8. s[k] = s[k - 1] + f[k - 1]
    BY <2>4 DEF Adds
  <2> QED
    BY <2>3, <2>7, <2>8
<1> QED
  BY <1>1, <1>2

\* Total is the last of the sums.
LEMMA TotalAdds ==
    ASSUME NEW n \in Nat, NEW f \in [0 .. n - 1 -> Nat], NEW s, Adds(s, f, n)
    PROVE  Total(f, n) = s[n]
<1> DEFINE R(t) == t = [k \in 0 .. n |-> IF k = 0 THEN 0 ELSE t[k - 1] + f[k - 1]]
           t == CHOOSE h : R(h)
<1>1. R(s)
  BY DEF Adds
<1>2. R(t)
  BY <1>1
<1>3. Total(f, n) = t[n]
  BY DEF Total
<1> HIDE DEF t
<1>4. t[0] = 0 /\ \A k \in 1 .. n : t[k] = t[k - 1] + f[k - 1]
  BY <1>2
<1> QED
  BY <1>3, <1>4, SumsUnique

\* Adding to one value adds to the total (DeterministicEngine::tick).
LEMMA TotalChanges ==
    ASSUME NEW n \in Nat, NEW f \in [0 .. n - 1 -> Nat], NEW c \in 0 .. n - 1, NEW k \in Nat
    PROVE  Total([f EXCEPT ![c] = f[c] + k], n) = Total(f, n) + k
<1> DEFINE g == [f EXCEPT ![c] = f[c] + k]
<1>1. PICK s : Adds(s, f, n)
  BY SumsExist
<1> DEFINE t == [j \in 0 .. n |-> IF j > c THEN s[j] + k ELSE s[j]]
<1>2. s \in [0 .. n -> Nat]
  BY <1>1 DEF Adds
<1>3. g \in [0 .. n - 1 -> Nat]
  OBVIOUS
<1>4. Adds(t, g, n)
  <2>1. t \in [0 .. n -> Nat] /\ t[0] = 0
    BY <1>1, <1>2 DEF Adds
  <2>2. ASSUME NEW j \in 1 .. n PROVE t[j] = t[j - 1] + g[j - 1]
    <3>1. s[j] = s[j - 1] + f[j - 1] /\ s[j - 1] \in Nat /\ f[j - 1] \in Nat
      BY <1>1, <1>2 DEF Adds
    <3>2. j - 1 \in 0 .. n /\ j - 1 \in 0 .. n - 1 /\ j \in 0 .. n
      OBVIOUS
    <3>3. CASE j - 1 = c
      BY <3>1, <3>2, <3>3
    <3>4. CASE j - 1 # c
      BY <3>1, <3>2, <3>4
    <3> QED
      BY <3>3, <3>4
  <2> QED
    BY <2>1, <2>2 DEF Adds
<1>5. t[n] = s[n] + k
  OBVIOUS
<1> HIDE DEF t, g
<1>6. Total(g, n) = t[n] /\ Total(f, n) = s[n]
  BY <1>1, <1>3, <1>4, TotalAdds
<1> QED
  BY <1>5, <1>6 DEF g

\* The total of zeros.
LEMMA TotalOfZeros ==
    ASSUME NEW n \in Nat
    PROVE  Total([j \in 0 .. n - 1 |-> 0], n) = 0
<1> DEFINE f == [j \in 0 .. n - 1 |-> 0]
           s == [j \in 0 .. n |-> 0]
<1>1. f \in [0 .. n - 1 -> Nat] /\ Adds(s, f, n) /\ s[n] = 0
  BY DEF Adds
<1> HIDE DEF f, s
<1> QED
  BY <1>1, TotalAdds DEF f

--------------------------------------------------------------------------------
\* The clocks

\* The initial clocks agree.
LEMMA InitClocks == NumCores <= MaxCores /\ Init => ClocksAgree
<1> SUFFICES ASSUME NumCores <= MaxCores, Init PROVE ClocksAgree
  OBVIOUS
<1>1. NumCores \in Nat \ {0} /\ MaxCores \in Nat \ {0}
  BY ClusterAssumption
<1>2. \A c \in Core : c \in 0 .. MaxCores - 1
  BY <1>1 DEF Core
<1>3. \A c \in Core : cores[c].prof.cycles = 0 /\ clocks[c] = 0
  BY <1>2, NewCoreType DEF Init
<1>4. clock = Total(clocks, MaxCores)
  BY <1>1, TotalOfZeros DEF Init
<1>5. ctl = "host"
  BY DEF Init
<1> QED
  BY <1>3, <1>4, <1>5 DEF ClocksAgree

\* Every step keeps them in agreement: a turn's cycles are charged once, to its core.
LEMMA NextClocks ==
    ASSUME NumCores <= MaxCores, Inv, ClocksAgree, [Next]_vars
    PROVE  ClocksAgree'
<1> DEFINE T == Total(clocks, MaxCores)
<1>0. /\ NumCores \in Nat \ {0} /\ MaxCores \in Nat \ {0} /\ Core = 0 .. NumCores - 1
      /\ clocks \in [0 .. MaxCores - 1 -> Nat] /\ clock \in Nat
      /\ i \in 0 .. NumCores /\ before \in Nat
      /\ \A c \in Core : c \in 0 .. MaxCores - 1 /\ cores[c].prof.cycles \in Nat
  <2>1. /\ NumCores \in Nat \ {0} /\ MaxCores \in Nat \ {0} /\ Core = 0 .. NumCores - 1
        /\ clocks \in [0 .. MaxCores - 1 -> Nat] /\ clock \in Nat
        /\ i \in 0 .. NumCores /\ before \in Nat
    BY ClusterAssumption DEF Core, Inv, TypeOK
  <2>2. \A c \in Core : c \in 0 .. MaxCores - 1
    BY <2>1
  <2>3. \A c \in Core : cores[c].prof.cycles \in Nat
    BY DEF Inv, TypeOK, CoreState, Profile
  <2> QED
    BY <2>1, <2>2, <2>3
<1> SUFFICES ASSUME happened' \subseteq {"run"}, ctl' # "crashed"
             PROVE  /\ \A c \in Core :
                         clocks'[c] = IF ctl' = "quantum" /\ c = i' THEN before'
                                      ELSE cores'[c].prof.cycles
                    /\ clock' = Total(clocks, MaxCores)'
  BY DEF ClocksAgree
<1>1. ASSUME happened \subseteq {"run"}, ctl # "crashed"
      PROVE  /\ \A c \in Core :
                  clocks[c] = IF ctl = "quantum" /\ c = i THEN before ELSE cores[c].prof.cycles
             /\ clock = T
  BY <1>1 DEF ClocksAgree
<1> HIDE DEF T
<1>2. ASSUME \/ \E ps \in Workloads : load_program_all(ps)
             \/ \E x \in Vectors : EnableSoft(x[1], x[2])
             \/ \E t \in IpiTargets : send_ipi(t)
      PROVE  ClocksAgree'
  <2>1. SetUp
    BY <1>2, SetupFrame
  <2>2. /\ \A c \in Core : cores'[c].prof = cores[c].prof
        /\ clock' = clock /\ clocks' = clocks /\ ctl' = "host" /\ ctl = "host" /\ happened' = happened
    BY <2>1 DEF SetUp, engine, ghost
  <2> QED
    BY <1>1, <2>2 DEF ClocksAgree, T
<1>3. ASSUME \/ \E entry \in Calls \ {"step_all"}, max \in Limits : CallRun(entry, max)
             \/ "step_all" \in Calls /\ CallStepAll
             \/ RoundBegin \/ RunReturn \/ TurnSkip \/ StepAllSkip \/ StepAllReturn
      PROVE  ClocksAgree'
  <2>1. /\ cores' = cores /\ clock' = clock /\ clocks' = clocks
        /\ happened \subseteq happened' /\ ctl # "crashed" /\ ctl # "quantum" /\ ctl' # "quantum"
    BY <1>3 DEF CallRun, CallStepAll, RoundBegin, RunReturn, TurnSkip, StepAllSkip,
                StepAllReturn, cpu, engine, ghost
  <2> QED
    BY <1>1, <2>1 DEF ClocksAgree, T
<1>4. ASSUME TurnBegin PROVE ClocksAgree'
  <2>1. /\ cores' = cores /\ clock' = clock /\ clocks' = clocks /\ happened' = happened
        /\ ctl = "turn" /\ i' = i /\ before' = cores[i].prof.cycles
    BY <1>4 DEF TurnBegin, cpu, engine, ghost
  <2> QED
    BY <1>1, <2>1 DEF ClocksAgree, T
<1>5. ASSUME QuantumEnd PROVE ClocksAgree'
  <2> DEFINE k == cores[i].prof.cycles - before
  <2>1. /\ cores' = cores /\ happened' = happened /\ ctl = "quantum" /\ ctl' = "turn"
        /\ tick(i, k) /\ i \in Core /\ before <= cores[i].prof.cycles
    BY <1>5 DEF QuantumEnd, cpu, ghost, Inv, Places
  <2>2. i % MaxCores = i /\ k \in Nat /\ i \in 0 .. MaxCores - 1
    <3>1. i \in Nat /\ i < MaxCores /\ i = MaxCores * 0 + i
      BY <1>0, <2>1
    <3>2. i % MaxCores = i
      BY <1>0, <3>1, DivisionUnique
    <3>3. k \in Nat
      BY <1>0, <2>1
    <3> QED
      BY <1>0, <2>1, <3>2, <3>3
  <2>3. clock' = clock + k /\ clocks' = [clocks EXCEPT ![i] = clocks[i] + k]
    BY <2>1, <2>2 DEF tick
  <2>4. happened \subseteq {"run"} => clocks[i] = before /\ clock = T
    BY <1>1, <2>1
  <2>5. happened \subseteq {"run"} => clocks'[i] = cores[i].prof.cycles
    <3>1. clocks'[i] = clocks[i] + k
      BY <1>0, <2>2, <2>3
    <3> QED
      BY <1>0, <2>1, <2>4, <3>1
  <2>6. \A c \in Core : c # i => clocks'[c] = clocks[c]
    BY <1>0, <2>2, <2>3
  <2> HIDE DEF k
  <2>7. Total(clocks', MaxCores) = T + k
    BY <1>0, <2>2, <2>3, TotalChanges DEF T
  <2> QED
    BY <1>1, <2>1, <2>3, <2>4, <2>5, <2>6, <2>7 DEF ClocksAgree
<1>6. ASSUME RoundEnd PROVE ClocksAgree'
  <2>1. /\ cores' = cores /\ happened' = happened /\ ctl = "turn" /\ ctl' = "round"
        /\ mode \in happened /\ (mode # "run_fast" => clock' = clock /\ clocks' = clocks)
    BY <1>6 DEF RoundEnd, cpu, engine, ghost, Inv, Places
  <2> QED
    BY <1>1, <2>1 DEF ClocksAgree, T
<1>7. ASSUME QuantumStep PROVE ClocksAgree'
  <2> DEFINE r == step(Seen(i))
  <2>1. i \in Core /\ ~cores[i].halt /\ ctl = "quantum"
    BY <1>7 DEF QuantumStep, InQuantum, Inv, Places
  <2>2. Settled(r)
    BY <2>1, SeenType, StepSettled
  <2>3. CoreDoes(i, r, "quantum") /\ clock' = clock /\ clocks' = clocks /\ i' = i /\ before' = before
    BY <1>7 DEF QuantumStep, engine
  <2> HIDE DEF r
  <2>4. /\ \A d \in Core : d # i => cores'[d] = cores[d]
        /\ \/ ctl' = "quantum" /\ happened' = happened
           \/ happened' = happened \cup {"throw"}
           \/ ctl' = "crashed"
    BY <2>1, <2>2, <2>3, CoreDoesFrame
  <2>5. ctl' = "quantum" /\ happened' = happened
    BY <2>4
  <2>6. Total(clocks', MaxCores) = T
    BY <2>3 DEF T
  <2> QED
    BY <1>1, <2>1, <2>3, <2>4, <2>5, <2>6 DEF ClocksAgree
<1>8. ASSUME FastStep \/ StepAllStep PROVE ClocksAgree'
  <2>1. "run_fast" \in happened \/ "step_all" \in happened
    BY <1>8 DEF FastStep, StepAllStep, Inv, Places
  <2>2. happened \subseteq happened'
    BY <1>8 DEF FastStep, StepAllStep, CoreDoes
  <2> QED
    BY <2>1, <2>2 DEF ClocksAgree
<1>9. ASSUME AtBound \/ UNCHANGED vars PROVE ClocksAgree'
  <2>1. UNCHANGED <<cores, clock, clocks, ctl, i, before, happened>>
    BY <1>9 DEF AtBound, vars, cpu, engine, loop, ghost
  <2> QED
    BY <2>1 DEF ClocksAgree
<1> QED
  BY <1>2, <1>3, <1>4, <1>5, <1>6, <1>7, <1>8, <1>9 DEF Next, HostCall, Running, ClocksAgree

\* No cycle is lost or counted twice: however the quanta, halts and cycle limits fall,
\* the engine's clock of every core is its own cycle count, but for the turn under way,
\* and the global clock is their sum, as long as the engine has a clock for every core
\* (DeterministicEngine::tick takes the core's number modulo kMaxCores; Cluster::run).
THEOREM ClocksKept == NumCores <= MaxCores /\ Spec => []ClocksAgree
<1> SUFFICES ASSUME NumCores <= MaxCores PROVE Spec => []ClocksAgree
  OBVIOUS
<1>1. Inv /\ ClocksAgree /\ [Next]_vars => ClocksAgree'
  BY NextClocks
<1>2. Init => ClocksAgree
  BY InitClocks
<1> QED
  BY <1>1, <1>2, Invariance, PTL DEF Spec

--------------------------------------------------------------------------------
\* Message passing between the guests of MCCluster

\* Its programs, their decoding and its window; the quantum, the cycles of a tick, the
\* methods called and their limits, the interrupts sent, the size of the memories and
\* everything else of the cores are arbitrary.
Litmus ==
    /\ WordCount = 32 /\ NumGpr >= 3 /\ MemSize >= 15 /\ DOMAIN Mmio = {}
    /\ NumCores = 2 /\ Window = MCWindow
    /\ Decode = MCDecode /\ Workloads = MCWorkloads /\ Vectors \subseteq Core \X {6}

\* An interrupt leads to the HALT at 6.
Guarded(m) == ~m.mmu /\ ~m.csr.vectored /\ (m.csr.mie => m.csr.mtvec = 6)

\* Core c has program p and has not left it.
InProgram(c, p) == Holds(c, p) /\ (~cores[c].halt => cores[c].pc \in 0 .. 6)

\* From the producer a to the consumer b: where they are, what the window holds and what
\* their registers hold agree.
Relay(a, b) ==
    /\ shared[13] # 0 => shared[12] = 5
    /\ cores[a].pc = 1 => cores[a].gpr[1] = 5
    /\ cores[a].pc \in {2, 3} => shared[12] = 5
    /\ cores[b].pc = 2 \/ (cores[b].pc = 1 /\ cores[b].gpr[2] # 0) => shared[12] = 5
    /\ cores[b].pc \in 3 .. 5 => cores[b].gpr[1] = 5

\* No program has been loaded.
Blank ==
    /\ \A c \in Core : \A a \in Addr : cores[c].mem[a] = 0
    /\ \A a \in Window : shared[a] = 0

\* Nothing has run.
Unrun ==
    happened = {} => (\A c \in Core : cores[c].pc = 0) /\ (\A a \in Window : shared[a] = 0)

Sharing ==
    \/ Blank
    \/ \A c \in Core : InProgram(c, Spin)
    \/ \E c \in Core : InProgram(c, Producer) /\ InProgram(1 - c, Consumer) /\ Relay(c, 1 - c)

Passing == (\A c \in Core : Guarded(cores[c])) /\ Unrun /\ Sharing

--------------------------------------------------------------------------------
\* The instructions of the litmus

\* The programs and the window lie in plain memory.
LEMMA LitmusPlaces ==
    ASSUME Litmus
    PROVE  /\ \A a \in 0 .. 14 : a \in Addr /\ a \notin DOMAIN Mmio
           /\ \A a \in 0 .. 6 : a \notin Window
           /\ 1 \in Gpr /\ 2 \in Gpr
<1>1. /\ MemSize \in 1 .. WordCount /\ WordCount = 32 /\ MemSize >= 15
      /\ NumGpr \in Nat /\ NumGpr >= 3
  BY MachineAssumption, IsaAssumption DEF Litmus
<1>2. \A a \in 0 .. 14 : a \in 0 .. MemSize - 1
  BY <1>1
<1>3. DOMAIN Mmio = {} /\ Window = 12 .. 14
  BY DEF Litmus, MCWindow
<1>4. 1 \in 0 .. NumGpr - 1 /\ 2 \in 0 .. NumGpr - 1
  BY <1>1
<1> QED
  BY <1>2, <1>3, <1>4 DEF Addr, Gpr

\* The words of the programs.
LEMMA ProgramWords ==
    /\ Len(Producer) = 7 /\ Len(Consumer) = 7 /\ Len(Spin) = 7
    /\ Producer[1] = 2 /\ Producer[2] = 3 /\ Producer[3] = 4 /\ Producer[4] = 5
    /\ Producer[5] = 10 /\ Producer[6] = 7 /\ Producer[7] = 1
    /\ Consumer[1] = 6 /\ Consumer[2] = 7 /\ Consumer[3] = 8 /\ Consumer[4] = 9
    /\ Consumer[5] = 1 /\ Consumer[6] = 1 /\ Consumer[7] = 1
    /\ Spin[1] = 0 /\ Spin[2] = 11 /\ Spin[3] = 0 /\ Spin[4] = 0
    /\ Spin[5] = 0 /\ Spin[6] = 0 /\ Spin[7] = 1
BY DEF Producer, Consumer, Spin

\* What they decode to.
LEMMA LitmusDecode ==
    ASSUME Litmus
    PROVE  /\ Decode[0] = nop
           /\ Decode[1] = Ins("HALT", 0, 0, 0, 0)
           /\ Decode[2] = Ins("MOVI", 1, 0, 0, 5)
           /\ Decode[3] = Ins("STORE", 1, 0, 0, 12)
           /\ Decode[4] = Ins("MOVI", 2, 0, 0, 1)
           /\ Decode[5] = Ins("STORE", 2, 0, 0, 13)
           /\ Decode[6] = Ins("LOAD", 2, 0, 0, 13)
           /\ Decode[7] = Ins("BEQ", 2, 0, 0, 30)
           /\ Decode[8] = Ins("LOAD", 1, 0, 0, 12)
           /\ Decode[9] = Ins("STORE", 2, 0, 0, 14)
           /\ Decode[10] = Ins("LOAD", 2, 0, 0, 14)
           /\ Decode[11] = Ins("JMP", 0, 0, 0, 0)
<1>1. Len(Table) = 12
  BY DEF Table
<1>2. \A w \in 0 .. 11 : Decode[w] = Table[w + 1]
  <2> TAKE w \in 0 .. 11
  <2>1. w \in 0 .. 31 /\ w < Len(Table)
    BY <1>1
  <2>2. Decode = MCDecode
    BY DEF Litmus
  <2> QED
    BY <2>1, <2>2 DEF MCDecode
<1>3. /\ Decode[0] = Table[1] /\ Decode[1] = Table[2] /\ Decode[2] = Table[3]
      /\ Decode[3] = Table[4] /\ Decode[4] = Table[5] /\ Decode[5] = Table[6]
      /\ Decode[6] = Table[7] /\ Decode[7] = Table[8] /\ Decode[8] = Table[9]
      /\ Decode[9] = Table[10] /\ Decode[10] = Table[11] /\ Decode[11] = Table[12]
  BY <1>2
<1> QED
  BY <1>3 DEF Table

\* The program counter, the memory and the registers after word w.
NextPc(s, w) ==
    IF w = 11 THEN 0 ELSE IF w = 7 /\ s.gpr[2] = 0 THEN s.pc - 1 ELSE s.pc + 1

NextMem(s, w) ==
    IF w = 3 THEN [s.mem EXCEPT ![12] = s.gpr[1]]
    ELSE IF w = 5 THEN [s.mem EXCEPT ![13] = s.gpr[2]]
    ELSE IF w = 9 THEN [s.mem EXCEPT ![14] = s.gpr[2]]
    ELSE s.mem

Register1(s, w) == IF w = 2 THEN 5 ELSE IF w = 8 THEN s.mem[12] ELSE s.gpr[1]

Register2(s, w) ==
    IF w = 4 THEN 1 ELSE IF w = 6 THEN s.mem[13] ELSE IF w = 10 THEN s.mem[14] ELSE s.gpr[2]

\* d is s after word w.
Performed(d, s, w) ==
    /\ d.pc = NextPc(s, w) /\ d.mem = NextMem(s, w)
    /\ d.gpr[1] = Register1(s, w) /\ d.gpr[2] = Register2(s, w)
    /\ (d.halt <=> s.halt \/ w = 1) /\ d.mmu = s.mmu /\ d.csr = s.csr

\* The handlers compute that.
LEMMA LitmusHandled ==
    ASSUME Litmus, NEW s \in CoreState, ~s.mmu, s.pc \in 0 .. 6,
           NEW w \in 0 .. 11, w = 7 => s.pc >= 1
    PROVE  LET r == Handled([s EXCEPT !.pc = Plus(s.pc, 1)], Decode[w])
           IN  r.end = "ok" /\ Performed(r.m, s, w)
<1> DEFINE x == [s EXCEPT !.pc = Plus(s.pc, 1)]
           j == Decode[w]
           r == Handled(x, j)
<1>0. WordCount = 32 /\ 1 \in Gpr /\ 2 \in Gpr /\ {12, 13, 14} \subseteq Addr \ DOMAIN Mmio
  BY LitmusPlaces DEF Litmus
<1>1. Plus(s.pc, 1) = s.pc + 1 /\ s.pc + 1 \in Word
  BY <1>0 DEF Plus, Word
<1>2. /\ x \in CoreState /\ x.pc = s.pc + 1 /\ x.gpr = s.gpr /\ x.mem = s.mem
      /\ x.halt = s.halt /\ x.mmu = s.mmu /\ x.csr = s.csr
  BY <1>1 DEF CoreState
<1>3. s.gpr \in [Gpr -> Word] /\ s.mem \in [Addr -> Word] /\ s.halt \in BOOLEAN
  BY DEF CoreState
<1> SUFFICES r.end = "ok" /\ Performed(r.m, s, w)
  OBVIOUS
<1> HIDE DEF x
<1>4. CASE w \in {0, 1}
  <2>1. j.op = IF w = 0 THEN "NOP" ELSE "HALT"
    BY <1>4, LitmusDecode DEF nop, Ins
  <2>2. r.end = "ok" /\ r.m = IF w = 0 THEN x ELSE [x EXCEPT !.halt = TRUE]
    BY <1>2, <1>4, <2>1, IdleEffect
  <2>3. LET h == [x EXCEPT !.halt = TRUE]
        IN  /\ h.pc = x.pc /\ h.gpr = x.gpr /\ h.mem = x.mem /\ h.mmu = x.mmu
            /\ h.csr = x.csr /\ h.halt
    BY <1>2 DEF CoreState
  <2> HIDE DEF r
  <2>4. CASE w = 0
    BY <1>2, <2>2, <2>4 DEF Performed, NextPc, NextMem, Register1, Register2
  <2>5. CASE w = 1
    BY <1>2, <2>2, <2>3, <2>5 DEF Performed, NextPc, NextMem, Register1, Register2
  <2> QED
    BY <1>4, <2>4, <2>5
<1>5. CASE w \in {2, 4}
  <2>1. j.op = "MOVI" /\ j.rd = (IF w = 2 THEN 1 ELSE 2) /\ j.imm = IF w = 2 THEN 5 ELSE 1
    BY <1>5, LitmusDecode DEF Ins
  <2>2. /\ r.end = "ok" /\ r.m.gpr = write_gpr(x.gpr, j.rd, j.imm)
        /\ Kept(r.m, x) /\ r.m.mem = x.mem
    BY <1>2, <2>1, RegisterEffect DEF Computed
  <2>3. r.m.gpr[1] = (IF w = 2 THEN 5 ELSE s.gpr[1]) /\ r.m.gpr[2] = IF w = 4 THEN 1 ELSE s.gpr[2]
    BY <1>0, <1>2, <1>5, <2>1, <2>2 DEF write_gpr
  <2> HIDE DEF r
  <2> QED
    BY <1>2, <1>3, <1>5, <2>2, <2>3 DEF Performed, Kept, NextPc, NextMem, Register1, Register2
<1>6. CASE w \in {3, 5, 9}
  <2>1. /\ j.op = "STORE" /\ j.rd = (IF w = 3 THEN 1 ELSE 2) /\ j.ra = 0
        /\ j.imm = IF w = 3 THEN 12 ELSE IF w = 5 THEN 13 ELSE 14
    BY <1>6, LitmusDecode DEF Ins
  <2>2. EffectiveAddress(x, j) = j.imm /\ read_gpr(x, j.rd) = s.gpr[j.rd]
    BY <1>0, <1>2, <1>6, <2>1 DEF EffectiveAddress, read_gpr, Plus
  <2>3. /\ r.end = "ok" /\ Kept(r.m, x) /\ r.m.gpr = x.gpr
        /\ r.m.mem = [x.mem EXCEPT ![j.imm] = s.gpr[j.rd]]
    BY <1>0, <1>2, <2>1, <2>2, MemoryEffect
  <2> HIDE DEF r, j
  <2> QED
    BY <1>2, <1>3, <1>6, <2>1, <2>3 DEF Performed, Kept, NextPc, NextMem, Register1, Register2
<1>7. CASE w \in {6, 8, 10}
  <2>1. /\ j.op = "LOAD" /\ j.rd = (IF w = 8 THEN 1 ELSE 2) /\ j.ra = 0
        /\ j.imm = IF w = 6 THEN 13 ELSE IF w = 8 THEN 12 ELSE 14
    BY <1>7, LitmusDecode DEF Ins
  <2>2. EffectiveAddress(x, j) = j.imm
    BY <1>0, <1>2, <1>7, <2>1 DEF EffectiveAddress, read_gpr, Plus
  <2> HIDE DEF j
  <2>3. EffectiveAddress(x, j) \in Addr \ DOMAIN Mmio /\ j.op \in {"LOAD", "STORE"} /\ ~x.mmu
    BY <1>0, <1>2, <2>1, <2>2
  <2>4. /\ r.end = "ok" /\ Kept(r.m, x) /\ r.m.mem = x.mem
        /\ r.m.gpr = write_gpr(x.gpr, j.rd, x.mem[EffectiveAddress(x, j)])
    <3> DEFINE a == EffectiveAddress(x, j)
    <3>1. a = EffectiveAddress(x, j)
      OBVIOUS
    <3> HIDE DEF a
    <3>2. /\ r.end = "ok" /\ Kept(r.m, x)
          /\ j.op = "LOAD" => r.m.gpr = write_gpr(x.gpr, j.rd, x.mem[a]) /\ r.m.mem = x.mem
          /\ j.op = "STORE" => r.m.mem = [x.mem EXCEPT ![a] = read_gpr(x, j.rd)] /\ r.m.gpr = x.gpr
      <4>1. x \in CoreState
        BY <1>2
      <4> QED
        BY <2>3, <3>1, <4>1, MemoryEffect
    <3> QED
      BY <2>1, <3>1, <3>2
  <2>5. /\ r.end = "ok" /\ Kept(r.m, x) /\ r.m.mem = x.mem
        /\ r.m.gpr = write_gpr(x.gpr, j.rd, s.mem[j.imm])
    BY <1>2, <2>2, <2>4
  <2> HIDE DEF r
  <2>6. /\ r.m.gpr[1] = IF w = 8 THEN s.mem[12] ELSE s.gpr[1]
        /\ r.m.gpr[2] = IF w = 6 THEN s.mem[13] ELSE IF w = 10 THEN s.mem[14] ELSE s.gpr[2]
    BY <1>0, <1>2, <1>7, <2>1, <2>5 DEF write_gpr
  <2> QED
    BY <1>2, <1>3, <1>7, <2>5, <2>6 DEF Performed, Kept, NextPc, NextMem, Register1, Register2
<1>8. CASE w = 7
  <2>1. j.op = "BEQ" /\ j.rd = 2 /\ j.ra = 0 /\ j.imm = 30
    BY <1>8, LitmusDecode DEF Ins
  <2>2. BranchTaken(x, j) <=> s.gpr[2] = 0
    BY <1>2, <2>1 DEF BranchTaken, read_gpr
  <2>3. Plus(x.pc, 30) = s.pc - 1
    BY <1>0, <1>2, <1>8 DEF Plus
  <2>4. r.end = "ok" /\ r.m = IF s.gpr[2] = 0 THEN [x EXCEPT !.pc = s.pc - 1] ELSE x
    BY <1>2, <2>1, <2>2, <2>3, BranchEffect
  <2>5. LET h == [x EXCEPT !.pc = s.pc - 1]
        IN  /\ h.pc = s.pc - 1 /\ h.gpr = x.gpr /\ h.mem = x.mem /\ h.mmu = x.mmu
            /\ h.csr = x.csr /\ h.halt = x.halt
    BY <1>2 DEF CoreState
  <2> HIDE DEF r
  <2> QED
    BY <1>2, <1>3, <1>8, <2>4, <2>5 DEF Performed, NextPc, NextMem, Register1, Register2
<1>9. CASE w = 11
  <2>1. j.op = "JMP" /\ j.imm = 0
    BY <1>9, LitmusDecode DEF Ins
  <2>2. r.end = "ok" /\ r.m = [x EXCEPT !.pc = 0]
    BY <2>1 DEF Handled, op_jmp, Ok
  <2>3. LET h == [x EXCEPT !.pc = 0]
        IN  /\ h.pc = 0 /\ h.gpr = x.gpr /\ h.mem = x.mem /\ h.mmu = x.mmu
            /\ h.csr = x.csr /\ h.halt = x.halt
    BY <1>2 DEF CoreState
  <2> HIDE DEF r
  <2> QED
    BY <1>2, <1>3, <1>9, <2>2, <2>3 DEF Performed, NextPc, NextMem, Register1, Register2
<1>10. w \in {0, 1} \cup {2, 4} \cup {3, 5, 9} \cup {6, 8, 10} \cup {7, 11}
  OBVIOUS
<1> QED
  BY <1>4, <1>5, <1>6, <1>7, <1>8, <1>9, <1>10

\* An operation of run_fast() on such a word.
LEMMA LitmusFast ==
    ASSUME Litmus, NEW s \in CoreState, ~s.mmu, s.pc \in 0 .. 6,
           NEW w \in 0 .. 11, w = 7 => s.pc >= 1
    PROVE  LET r == fast_op(s, w)
           IN  r.end = "ok" /\ Performed(r.m, s, w)
<1> DEFINE x == [s EXCEPT !.pc = Plus(s.pc, 1)]
           j == Decode[w]
           h == Handled(x, j)
           y == Retired(h.m, j, h.cycles)
<1>1. h.end = "ok" /\ Performed(h.m, s, w)
  BY LitmusHandled
<1>2. w \in Word /\ WellFormed(j) /\ x \in CoreState
  <2>1. w \in Word /\ s.pc \in Word /\ 1 \in Word
    BY DEF Litmus, Word
  <2>2. Plus(s.pc, 1) \in Word
    BY <2>1, ArithmeticType
  <2> QED
    BY <2>1, <2>2, DecodeAssumption DEF CoreState
<1>3. j.op \in Dispatched
  <2>1. j.op \in {"NOP", "HALT", "MOVI", "STORE", "LOAD", "BEQ", "JMP"}
    BY LitmusDecode DEF Ins, nop
  <2> QED
    BY <2>1 DEF Dispatched, BranchOps, ScalarOps
<1>4. execute(x, w) = Ok(y, h.cycles)
  BY <1>1, <1>3 DEF execute
<1>5. h.m \in CoreState
  BY <1>2, <1>3, HandledGood DEF GoodResult, Same
<1>6. y \in CoreState
  BY <1>2, <1>4, ExecuteGood DEF Ok
<1>7. fast_op(s, w).m = tick_peripherals(y) /\ fast_op(s, w).end = "ok"
  BY <1>4 DEF fast_op, Ticked, Ok
<1> HIDE DEF h
<1>8. /\ y.mmu = h.m.mmu /\ y.halt = h.m.halt /\ y.csr = h.m.csr /\ y.pc = h.m.pc
      /\ Preserved(y, h.m)
  BY <1>5, RetiredFrame
<1> HIDE DEF y
<1> DEFINE d == tick_peripherals(y)
<1>9. /\ d.mmu = y.mmu /\ d.halt = y.halt /\ d.csr = y.csr /\ d.pc = y.pc /\ Preserved(d, y)
  BY <1>6, TickFrame
<1> HIDE DEF d
<1>10. Performed(d, s, w)
  BY <1>1, <1>8, <1>9 DEF Performed, Preserved
<1> QED
  BY <1>7, <1>10 DEF d

\* The memory of a core in one of the programs.
Programmed(mem) ==
    \A a \in 0 .. 6 : mem[a] \in 0 .. 11 /\ (mem[a] = 7 => a >= 1) /\ (a = 6 => mem[a] = 1)

\* d is s after the instruction at its program counter, or after the HALT at 6.
Advances(d, s) ==
    /\ Guarded(d)
    /\ \/ Performed(d, s, s.mem[s.pc])
       \/ /\ d.halt /\ d.pc = 7 /\ d.mem = s.mem
          /\ d.gpr[1] = s.gpr[1] /\ d.gpr[2] = s.gpr[2]

\* A step of such a core.
LEMMA LitmusStep ==
    ASSUME Litmus, NEW s \in CoreState, Guarded(s), ~s.halt, s.pc \in 0 .. 6, Programmed(s.mem)
    PROVE  step(s).end = "ok" /\ Advances(step(s).m, s)
<1>0. \A a \in 0 .. 6 : a \in Addr /\ a \notin DOMAIN Mmio
  BY LitmusPlaces
<1>1. CASE ~HasInterrupt(s.csr, s.mip)
  <2> DEFINE w == s.mem[s.pc]
             d == fast_op(s, w).m
  <2>1. step(s) = fast_op(s, w)
    BY <1>0, <1>1, StepIsFastOp DEF Guarded
  <2>2. w \in 0 .. 11 /\ (w = 7 => s.pc >= 1)
    BY DEF Programmed
  <2>3. fast_op(s, w).end = "ok" /\ Performed(d, s, w)
    BY <2>2, LitmusFast DEF Guarded
  <2> HIDE DEF d
  <2>4. Guarded(d)
    BY <2>3 DEF Performed, Guarded
  <2> QED
    BY <2>1, <2>3, <2>4 DEF Advances, d
<1>2. CASE HasInterrupt(s.csr, s.mip)
  <2> DEFINE e == enter_interrupt(s)
             d == fast_op(e, 1).m
  <2>1. e \in CoreState /\ Carried(e, s)
    BY EnterInterruptType, EnterFrame DEF Same
  <2>2. s.csr \in Csr /\ s.csr.mie
    BY <1>2 DEF CoreState, HasInterrupt, interrupt_pending
  <2>3. e.pc = 6
    <3>1. e = [s EXCEPT !.csr = take_trap(s.csr, pending_interrupt(s.csr, s.mip)), !.pc = 6]
      BY <1>2, <2>2 DEF enter_interrupt, Guarded
    <3> QED
      BY <3>1 DEF CoreState
  <2>4. Guarded(e) /\ ~HasInterrupt(e.csr, e.mip)
    <3>1. PICK t \in Trap : e.csr = take_trap(s.csr, t)
      BY <1>2, EnterFrame
    <3>2. ~e.csr.mie /\ e.csr.vectored = s.csr.vectored
      BY <2>2, <3>1 DEF take_trap, Csr
    <3> QED
      BY <2>1, <3>2 DEF Guarded, Carried, HasInterrupt, interrupt_pending
  <2>5. e.mem = s.mem /\ e.gpr = s.gpr /\ e.mem[6] = 1 /\ ~e.halt /\ ~e.mmu
    BY <2>1 DEF Carried, Preserved, Programmed, Guarded
  <2>6. step(s) = step(e)
    <3>1. enter_interrupt(e) = e
      BY <2>4 DEF enter_interrupt
    <3> HIDE DEF e
    <3> QED
      BY <2>5, <3>1 DEF step, e
  <2> HIDE DEF e
  <2>7. step(e) = fast_op(e, 1)
    BY <1>0, <2>1, <2>3, <2>4, <2>5, StepIsFastOp
  <2>8. fast_op(e, 1).end = "ok" /\ Performed(d, e, 1)
    BY <2>1, <2>3, <2>5, LitmusFast
  <2> HIDE DEF d
  <2>9. Guarded(d) /\ d.halt /\ d.pc = 7 /\ d.mem = s.mem /\ d.gpr[1] = s.gpr[1] /\ d.gpr[2] = s.gpr[2]
    BY <2>3, <2>4, <2>5, <2>8 DEF Performed, Guarded, NextPc, NextMem, Register1, Register2
  <2> QED
    BY <2>6, <2>7, <2>8, <2>9 DEF Advances, d
<1> QED
  BY <1>1, <1>2

\* The interrupt check keeps a core guarded.
LEMMA EnterGuarded ==
    ASSUME NEW s \in CoreState, Guarded(s)
    PROVE  Guarded(enter_interrupt(s))
<1> DEFINE e == enter_interrupt(s)
<1>1. e.mmu = s.mmu
  BY EnterFrame DEF Carried
<1>2. CASE e = s
  BY <1>2
<1>3. CASE HasInterrupt(s.csr, s.mip)
  <2>1. PICK t \in Trap : e.csr = take_trap(s.csr, t)
    BY <1>3, EnterFrame
  <2>2. ~e.csr.mie /\ e.csr.vectored = s.csr.vectored
    BY <2>1 DEF take_trap, Csr, CoreState
  <2> QED
    BY <1>1, <2>2 DEF Guarded
<1> QED
  BY <1>2, <1>3, EnterFrame

\* A core without a program executes NOPs, or throws behind its memory.
LEMMA BlankStep ==
    ASSUME Litmus, NEW s \in CoreState, Guarded(s), ~s.halt, \A a \in Addr : s.mem[a] = 0
    PROVE  /\ step(s).m.mem = s.mem /\ Guarded(step(s).m)
           /\ fast_op(s, 0).m.mem = s.mem /\ Guarded(fast_op(s, 0).m)
<1>1. ASSUME NEW c \in CoreState, Guarded(c), c.mem = s.mem
      PROVE  fast_op(c, 0).m.mem = s.mem /\ Guarded(fast_op(c, 0).m)
  <2> DEFINE x == [c EXCEPT !.pc = Plus(c.pc, 1)]
             d == Ticked(execute(x, 0)).m
  <2>1. c.pc \in Word /\ Plus(c.pc, 1) \in Word
    BY SmallWords, ArithmeticType DEF CoreState
  <2>2. x \in CoreState /\ x.csr = c.csr /\ x.mmu = c.mmu /\ x.mem = c.mem
    BY <2>1 DEF CoreState
  <2>3. fast_op(c, 0).m = d
    BY DEF fast_op
  <2> HIDE DEF x
  <2>4. d.csr = x.csr /\ d.mmu = x.mmu /\ d.mem = x.mem
    BY <2>2, NopFrame DEF Preserved
  <2> HIDE DEF d
  <2> QED
    BY <1>1, <2>2, <2>3, <2>4 DEF Guarded
<1> DEFINE e == enter_interrupt(s)
<1>2. e \in CoreState /\ e.mem = s.mem /\ Guarded(e)
  BY EnterInterruptType, EnterFrame, EnterGuarded DEF Same, Carried, Preserved
<1>3. step(s) = IF fetch(e).end = "ok" THEN Ticked(execute(fetch(e).m, fetch(e).word))
                ELSE Throw(fetch(e).m)
  BY DEF step
<1> HIDE DEF e
<1>4. CASE BusMapped(e.pc)
  <2>1. e.pc \in Addr /\ DOMAIN Mmio = {} /\ ~Faults(e, e.pc, "X") /\ ~e.mmu
    BY <1>2, <1>4 DEF BusMapped, Litmus, Faults, Guarded
  <2>2. bus_read(e, e.pc) = e /\ bus_value(e, e.pc) = 0
    BY <1>2, <2>1 DEF bus_read, bus_value
  <2>3. fetch(e) = [m |-> [e EXCEPT !.pc = Plus(e.pc, 1)], word |-> 0, end |-> "ok"]
    BY <1>4, <2>1, <2>2 DEF fetch
  <2>4. step(s) = fast_op(e, 0)
    BY <1>3, <2>3 DEF fast_op
  <2> QED
    BY <1>1, <1>2, <2>4
<1>5. CASE ~BusMapped(e.pc)
  <2>1. fetch(e).m = e /\ fetch(e).end = "throw"
    BY <1>2, <1>5 DEF fetch, Faults, Guarded
  <2> QED
    BY <1>1, <1>2, <1>3, <2>1 DEF Throw
<1> QED
  BY <1>4, <1>5

--------------------------------------------------------------------------------
\* The turns of the cores

\* What a core's turn does to the cluster: another core sees the same window, and
\* the core that runs has advanced in its program, or has none.
Turn(c) ==
    /\ \A d \in Core : d # c => cores'[d] = cores[d]
    /\ shared' = [a \in Window |-> cores'[c].mem[a]]
    /\ Programmed(Seen(c).mem) /\ cores[c].pc \in 0 .. 6 => Advances(cores'[c], Seen(c))
    /\ (\A a \in Addr : Seen(c).mem[a] = 0) =>
          cores'[c].mem = Seen(c).mem /\ Guarded(cores'[c])

\* The window and the memory of a core as the core sees them.
LEMMA SeenMemory ==
    ASSUME Litmus, Inv, NEW c \in Core
    PROVE  /\ Seen(c) \in CoreState /\ Seen(c).halt = cores[c].halt /\ Seen(c).pc = cores[c].pc
           /\ Seen(c).gpr = cores[c].gpr /\ Seen(c).csr = cores[c].csr
           /\ Seen(c).mmu = cores[c].mmu
           /\ \A a \in 0 .. 6 : Seen(c).mem[a] = cores[c].mem[a]
           /\ \A a \in Window : Seen(c).mem[a] = shared[a]
           /\ \A a \in Addr \ Window : Seen(c).mem[a] = cores[c].mem[a]
<1> DEFINE f == [a \in Addr |-> IF a \in Window THEN shared[a] ELSE cores[c].mem[a]]
           s == cores[c]
<1>1. Seen(c) \in CoreState /\ s \in CoreState /\ Seen(c).halt = s.halt
  BY SeenType DEF Inv, TypeOK
<1>2. Seen(c) = [s EXCEPT !.mem = f]
  BY DEF Seen
<1>3. Window \subseteq Addr /\ \A a \in 0 .. 6 : a \in Addr /\ a \notin Window
  BY ClusterAssumption, LitmusPlaces
<1>4. /\ \A a \in 0 .. 6 : f[a] = s.mem[a]
      /\ \A a \in Window : f[a] = shared[a]
      /\ \A a \in Addr \ Window : f[a] = s.mem[a]
  BY <1>3
<1> HIDE DEF f, s
<1>5. LET t == [s EXCEPT !.mem = f]
      IN  t.pc = s.pc /\ t.gpr = s.gpr /\ t.csr = s.csr /\ t.mmu = s.mmu /\ t.mem = f
  BY <1>1 DEF CoreState
<1> QED
  BY <1>1, <1>2, <1>4, <1>5 DEF s

\* The three actions in which a core executes an instruction.
LEMMA TurnTaken ==
    ASSUME Litmus, Inv, Guarded(cores[i]), QuantumStep \/ FastStep \/ StepAllStep
    PROVE  i \in Core /\ ~cores[i].halt /\ Turn(i) /\ happened' # {}
<1>1. i \in Core /\ ~cores[i].halt /\ happened # {}
  BY DEF QuantumStep, FastStep, StepAllStep, InQuantum, Inv, Places
<1> DEFINE s == Seen(i)
<1>2. /\ s \in CoreState /\ Guarded(s) /\ ~s.halt /\ s.accum < CyclesPerTick
      /\ s.pc = cores[i].pc
      /\ \A a \in 0 .. 6 : s.mem[a] = cores[i].mem[a]
      /\ \A a \in Addr \ Window : s.mem[a] = cores[i].mem[a]
  BY <1>1, SeenMemory, SeenType DEF Guarded
<1>3. ASSUME NEW r, Settled(r), NEW next, CoreDoes(i, r, next),
             Programmed(s.mem) /\ s.pc \in 0 .. 6 => Advances(r.m, s),
             (\A a \in Addr : s.mem[a] = 0) => r.m.mem = s.mem /\ Guarded(r.m)
      PROVE  Turn(i) /\ happened' # {}
  <2> HIDE DEF s
  <2>1. cores'[i] = r.m /\ \A d \in Core : d # i => cores'[d] = cores[d]
    BY <1>1, <1>3, CoreDoesFrame
  <2>2. shared' = [a \in Window |-> r.m.mem[a]] /\ happened \subseteq happened'
    BY <1>3 DEF CoreDoes
  <2> QED
    BY <1>1, <1>2, <1>3, <2>1, <2>2 DEF Turn, s
<1>4. CASE QuantumStep \/ StepAllStep
  <2>1. PICK next : CoreDoes(i, step(s), next)
    BY <1>4 DEF QuantumStep, StepAllStep
  <2> HIDE DEF s
  <2>2. Settled(step(s))
    BY <1>2, StepSettled
  <2>3. Programmed(s.mem) /\ s.pc \in 0 .. 6 => Advances(step(s).m, s)
    BY <1>2, LitmusStep
  <2>4. (\A a \in Addr : s.mem[a] = 0) => step(s).m.mem = s.mem /\ Guarded(step(s).m)
    BY <1>2, BlankStep
  <2> QED
    BY <1>1, <1>3, <2>1, <2>2, <2>3, <2>4
<1>5. CASE FastStep
  <2> DEFINE w == cores[i].mem[cores[i].pc]
             r == IF cores[i].pc \in Addr \ Window THEN fast_op(s, w) ELSE Throw(s)
             u == [r EXCEPT !.m.tx = << >>]
  <2>1. CoreDoes(i, IF r.m.halt THEN u ELSE r, "turn")
    BY <1>5 DEF FastStep
  <2>2. Settled(r) /\ Settled(u)
    BY <1>1, FastResult
  <2> HIDE DEF s
  <2>3. Programmed(s.mem) /\ s.pc \in 0 .. 6 => Advances(r.m, s)
    <3> SUFFICES ASSUME Programmed(s.mem), s.pc \in 0 .. 6 PROVE Advances(r.m, s)
      OBVIOUS
    <3>1. cores[i].pc \in Addr \ Window /\ w = s.mem[s.pc]
      BY <1>2, LitmusPlaces
    <3>2. w \in 0 .. 11 /\ (w = 7 => s.pc >= 1)
      BY <3>1 DEF Programmed
    <3>3. r = fast_op(s, w)
      BY <3>1
    <3> HIDE DEF w, r
    <3>4. Performed(r.m, s, w)
      BY <1>2, <3>2, <3>3, LitmusFast DEF Guarded
    <3>5. Guarded(r.m)
      BY <1>2, <3>4 DEF Performed, Guarded
    <3> QED
      BY <3>1, <3>4, <3>5 DEF Advances
  <2>4. (\A a \in Addr : s.mem[a] = 0) => r.m.mem = s.mem /\ Guarded(r.m)
    <3> SUFFICES ASSUME \A a \in Addr : s.mem[a] = 0 PROVE r.m.mem = s.mem /\ Guarded(r.m)
      OBVIOUS
    <3>1. CASE cores[i].pc \in Addr \ Window
      <4>1. w = 0
        BY <1>2, <3>1
      <4>2. r = fast_op(s, 0)
        BY <3>1, <4>1
      <4> QED
        BY <1>2, <4>2, BlankStep
    <3>2. CASE cores[i].pc \notin Addr \ Window
      <4>1. r.m = s
        BY <3>2 DEF Throw
      <4> QED
        BY <1>2, <4>1
    <3> QED
      BY <3>1, <3>2
  <2> HIDE DEF r
  <2>5. u.m = [r.m EXCEPT !.tx = << >>] /\ r.m \in CoreState
    BY <2>2 DEF Settled
  <2> HIDE DEF u
  <2>6. /\ u.m.pc = r.m.pc /\ u.m.mem = r.m.mem /\ u.m.gpr = r.m.gpr /\ u.m.halt = r.m.halt
        /\ u.m.mmu = r.m.mmu /\ u.m.csr = r.m.csr
    BY <2>5 DEF CoreState
  <2>7. /\ Advances(r.m, s) => Advances(u.m, s)
        /\ Guarded(r.m) => Guarded(u.m)
    BY <2>6 DEF Advances, Performed, Guarded
  <2>8. CASE r.m.halt
    BY <1>1, <1>3, <2>1, <2>2, <2>3, <2>4, <2>6, <2>7, <2>8
  <2>9. CASE ~r.m.halt
    BY <1>1, <1>3, <2>1, <2>2, <2>3, <2>4, <2>9
  <2> QED
    BY <2>8, <2>9
<1> QED
  BY <1>1, <1>4, <1>5

\* A core in one of the programs sees its words.
LEMMA ProgramSeen ==
    ASSUME Litmus, Inv, NEW c \in Core, NEW p \in {Producer, Consumer, Spin}, Holds(c, p)
    PROVE  Programmed(Seen(c).mem) /\ \A a \in 0 .. 6 : Seen(c).mem[a] = p[a + 1]
<1>1. Len(p) = 7
  BY ProgramWords
<1>2. \A a \in 0 .. 6 : Seen(c).mem[a] = p[a + 1]
  BY <1>1, SeenMemory DEF Holds
<1>3. \A a \in 0 .. 6 : p[a + 1] \in 0 .. 11 /\ (p[a + 1] = 7 => a >= 1) /\ (a = 6 => p[a + 1] = 1)
  <2> TAKE a \in 0 .. 6
  <2>1. a = 0 \/ a = 1 \/ a = 2 \/ a = 3 \/ a = 4 \/ a = 5 \/ a = 6
    OBVIOUS
  <2>2. a + 1 = 1 <=> a = 0
    OBVIOUS
  <2>3. CASE p = Producer
    BY <2>1, <2>3, ProgramWords
  <2>4. CASE p = Consumer
    BY <2>1, <2>4, ProgramWords
  <2>5. CASE p = Spin
    BY <2>1, <2>5, ProgramWords
  <2> QED
    BY <2>3, <2>4, <2>5
<1> QED
  BY <1>2, <1>3 DEF Programmed

\* What a turn of core c in program p does.
LEMMA ProgramTurn ==
    ASSUME Litmus, Inv, NEW c \in Core, NEW p \in {Producer, Consumer, Spin},
           InProgram(c, p), ~cores[c].halt, Turn(c)
    PROVE  InProgram(c, p)' /\ Advances(cores'[c], Seen(c))
<1> DEFINE s == Seen(c)
           d == cores'[c]
           w == s.mem[s.pc]
<1>1. s.pc = cores[c].pc /\ s.pc \in 0 .. 6 /\ s.mem \in [Addr -> Word]
  BY SeenMemory DEF InProgram, CoreState
<1>2. Programmed(s.mem) /\ \A a \in 0 .. 6 : s.mem[a] = p[a + 1]
  BY ProgramSeen DEF InProgram
<1>3. Advances(d, s)
  BY <1>1, <1>2 DEF Turn
<1> HIDE DEF s, d
<1>4. w \in 0 .. 11 /\ (w = 7 => s.pc >= 1) /\ (s.pc = 6 => w = 1)
  BY <1>1, <1>2 DEF Programmed
<1> HIDE DEF w
<1>5. \A a \in 0 .. 6 : d.mem[a] = s.mem[a]
  <2>1. d.mem = s.mem \/ d.mem = NextMem(s, w)
    BY <1>3 DEF Advances, Performed, w
  <2>2. \A a \in 0 .. 6 : a # 12 /\ a # 13 /\ a # 14 /\ a \in Addr
    BY LitmusPlaces
  <2> QED
    BY <1>1, <2>1, <2>2 DEF NextMem
<1>6. ~d.halt => d.pc \in 0 .. 6
  BY <1>1, <1>3, <1>4 DEF Advances, Performed, NextPc, w
<1>7. Len(p) = 7
  BY ProgramWords
<1>8. \A a \in 0 .. 6 : d.mem[a] = p[a + 1]
  BY <1>2, <1>5
<1> QED
  BY <1>3, <1>6, <1>7, <1>8 DEF InProgram, Holds, s, d

\* The producer's turn.
LEMMA ProducerRelays ==
    ASSUME Litmus, Inv, NEW a \in Core, NEW b \in Core, a # b, InProgram(a, Producer),
           ~cores[a].halt, Turn(a), Relay(a, b)
    PROVE  Relay(a, b)'
<1> DEFINE s == Seen(a)
           d == cores'[a]
           w == s.mem[s.pc]
<1>1. /\ s.pc = cores[a].pc /\ s.gpr = cores[a].gpr /\ s.pc \in 0 .. 6
      /\ s.mem \in [Addr -> Word] /\ s.mem[12] = shared[12] /\ s.mem[13] = shared[13]
  BY SeenMemory DEF InProgram, CoreState, Litmus, MCWindow
<1>2. \A k \in 0 .. 6 : s.mem[k] = Producer[k + 1]
  BY ProgramSeen DEF InProgram
<1>3. Advances(d, s)
  BY ProgramTurn
<1>4. shared'[12] = d.mem[12] /\ shared'[13] = d.mem[13] /\ cores'[b] = cores[b]
  BY DEF Turn, Litmus, MCWindow
<1>5. 12 \in Addr /\ 13 \in Addr
  BY LitmusPlaces
<1> HIDE DEF s, d
<1>6. /\ s.pc = 0 => w = 2
      /\ s.pc = 1 => w = 3
      /\ s.pc = 2 => w = 4
      /\ s.pc = 3 => w = 5
      /\ s.pc = 4 => w = 10
      /\ s.pc = 5 => w = 7
      /\ s.pc = 6 => w = 1
  BY <1>1, <1>2, ProgramWords
<1> HIDE DEF w
<1>7. /\ shared[13] # 0 => shared[12] = 5
      /\ s.pc = 1 => s.gpr[1] = 5
      /\ s.pc \in {2, 3} => shared[12] = 5
  BY <1>1 DEF Relay
<1>8. s.pc = 0 \/ s.pc = 1 \/ s.pc = 2 \/ s.pc = 3 \/ s.pc = 4 \/ s.pc = 5 \/ s.pc = 6
  BY <1>1
<1>9. /\ d.mem[13] # 0 => d.mem[12] = 5
      /\ shared[12] = 5 => d.mem[12] = 5
      /\ d.pc = 1 => d.gpr[1] = 5
      /\ d.pc \in {2, 3} => d.mem[12] = 5
  <2>1. CASE Performed(d, s, w)
    <3>1. /\ d.pc = NextPc(s, w) /\ d.mem = NextMem(s, w) /\ d.gpr[1] = Register1(s, w)
      BY <2>1 DEF Performed
    <3>2. CASE s.pc = 0
      BY <1>1, <1>6, <1>7, <3>1, <3>2 DEF NextPc, NextMem, Register1
    <3>3. CASE s.pc = 1
      BY <1>1, <1>5, <1>6, <1>7, <3>1, <3>3 DEF NextPc, NextMem
    <3>4. CASE s.pc = 2
      BY <1>1, <1>6, <1>7, <3>1, <3>4 DEF NextPc, NextMem
    <3>5. CASE s.pc = 3
      BY <1>1, <1>5, <1>6, <1>7, <3>1, <3>5 DEF NextPc, NextMem
    <3>6. CASE s.pc \in {4, 5, 6}
      BY <1>1, <1>6, <1>7, <3>1, <3>6 DEF NextPc, NextMem
    <3> QED
      BY <1>8, <3>2, <3>3, <3>4, <3>5, <3>6
  <2>2. CASE d.pc = 7 /\ d.mem = s.mem
    BY <1>1, <1>7, <2>2
  <2> QED
    BY <1>3, <2>1, <2>2 DEF Advances, w
<1> QED
  BY <1>4, <1>9 DEF Relay, d

\* The consumer's turn.
LEMMA ConsumerRelays ==
    ASSUME Litmus, Inv, NEW a \in Core, NEW b \in Core, a # b, InProgram(b, Consumer),
           ~cores[b].halt, Turn(b), Relay(a, b)
    PROVE  Relay(a, b)'
<1> DEFINE s == Seen(b)
           d == cores'[b]
           w == s.mem[s.pc]
<1>1. /\ s.pc = cores[b].pc /\ s.gpr = cores[b].gpr /\ s.pc \in 0 .. 6
      /\ s.mem \in [Addr -> Word] /\ s.mem[12] = shared[12] /\ s.mem[13] = shared[13]
  BY SeenMemory DEF InProgram, CoreState, Litmus, MCWindow
<1>2. \A k \in 0 .. 6 : s.mem[k] = Consumer[k + 1]
  BY ProgramSeen DEF InProgram
<1>3. Advances(d, s)
  BY ProgramTurn
<1>4. shared'[12] = d.mem[12] /\ shared'[13] = d.mem[13] /\ cores'[a] = cores[a]
  BY DEF Turn, Litmus, MCWindow
<1> HIDE DEF s, d
<1>5. /\ s.pc = 0 => w = 6
      /\ s.pc = 1 => w = 7
      /\ s.pc = 2 => w = 8
      /\ s.pc = 3 => w = 9
      /\ s.pc \in {4, 5, 6} => w = 1
  BY <1>1, <1>2, ProgramWords
<1> HIDE DEF w
<1>6. /\ shared[13] # 0 => shared[12] = 5
      /\ s.pc = 2 \/ (s.pc = 1 /\ s.gpr[2] # 0) => shared[12] = 5
      /\ s.pc \in 3 .. 5 => s.gpr[1] = 5
  BY <1>1 DEF Relay
<1>7. s.pc = 0 \/ s.pc = 1 \/ s.pc = 2 \/ s.pc = 3 \/ s.pc \in {4, 5, 6}
  BY <1>1
<1>8. /\ d.mem[12] = shared[12] /\ d.mem[13] = shared[13]
      /\ d.pc = 2 \/ (d.pc = 1 /\ d.gpr[2] # 0) => shared[12] = 5
      /\ d.pc \in 3 .. 5 => d.gpr[1] = 5
  <2>1. CASE Performed(d, s, w)
    <3>1. /\ d.pc = NextPc(s, w) /\ d.mem = NextMem(s, w)
          /\ d.gpr[1] = Register1(s, w) /\ d.gpr[2] = Register2(s, w)
      BY <2>1 DEF Performed
    <3>2. CASE s.pc = 0
      BY <1>1, <1>5, <1>6, <3>1, <3>2 DEF NextPc, NextMem, Register2
    <3>3. CASE s.pc = 1
      BY <1>1, <1>5, <1>6, <3>1, <3>3 DEF NextPc, NextMem
    <3>4. CASE s.pc = 2
      BY <1>1, <1>5, <1>6, <3>1, <3>4 DEF NextPc, NextMem, Register1
    <3>5. CASE s.pc = 3
      BY <1>1, <1>5, <1>6, <3>1, <3>5 DEF NextPc, NextMem, Register1
    <3>6. CASE s.pc \in {4, 5, 6}
      BY <1>1, <1>5, <1>6, <3>1, <3>6 DEF NextPc, NextMem, Register1
    <3> QED
      BY <1>7, <3>2, <3>3, <3>4, <3>5, <3>6
  <2>2. CASE d.pc = 7 /\ d.mem = s.mem
    BY <1>1, <1>6, <2>2
  <2> QED
    BY <1>3, <2>1, <2>2 DEF Advances, w
<1> QED
  BY <1>4, <1>8 DEF Relay, d

\* Another core's turn, and every step that moves no core, leave a core in its program.
LEMMA ProgramStays ==
    ASSUME NEW c \in Core, NEW p, InProgram(c, p), cores'[c] = cores[c]
    PROVE  InProgram(c, p)'
BY DEF InProgram, Holds

\* The turns keep the guarantee.
LEMMA TurnPasses ==
    ASSUME Litmus, Inv, Passing, QuantumStep \/ FastStep \/ StepAllStep
    PROVE  Passing'
<1>1. i \in Core
  BY DEF QuantumStep, FastStep, StepAllStep, InQuantum, Inv, Places
<1>2. ~cores[i].halt /\ Turn(i) /\ happened' # {} /\ Guarded(cores[i])
  BY <1>1, TurnTaken DEF Passing
<1>3. \A c \in Core : c # i => cores'[c] = cores[c]
  BY <1>2 DEF Turn
<1>4. Core = {0, 1} /\ \A c \in Core : 1 - c \in Core /\ 1 - c # c
  BY DEF Litmus, Core
<1>5. Unrun'
  BY <1>2 DEF Unrun
<1>6. SUFFICES Guarded(cores'[i]) /\ Sharing'
  BY <1>3, <1>5 DEF Passing
<1>7. CASE Blank
  <2>1. \A a \in Addr : Seen(i).mem[a] = 0
    BY <1>1, <1>7, SeenMemory DEF Blank
  <2>2. cores'[i].mem = Seen(i).mem /\ Guarded(cores'[i])
    BY <1>2, <2>1 DEF Turn
  <2>3. \A c \in Core : \A a \in Addr : cores'[c].mem[a] = 0
    BY <1>3, <1>7, <2>1, <2>2 DEF Blank
  <2>4. \A a \in Window : shared'[a] = 0
    BY <1>1, <1>2, <2>3, ClusterAssumption DEF Turn
  <2> QED
    BY <2>2, <2>3, <2>4 DEF Sharing, Blank
<1>8. CASE \A c \in Core : InProgram(c, Spin)
  <2>1. ASSUME NEW c \in Core, c = i PROVE InProgram(c, Spin)' /\ Guarded(cores'[c])
    BY <1>2, <1>8, <2>1, ProgramTurn DEF Advances
  <2>2. ASSUME NEW c \in Core, c # i PROVE InProgram(c, Spin)'
    BY <1>3, <1>8, <2>2, ProgramStays
  <2> QED
    BY <1>1, <2>1, <2>2 DEF Sharing
<1>9. ASSUME NEW a \in Core, InProgram(a, Producer), InProgram(1 - a, Consumer), Relay(a, 1 - a)
      PROVE  Guarded(cores'[i]) /\ Sharing'
  <2> DEFINE b == 1 - a
  <2>1. b \in Core /\ a # b /\ (i = a \/ i = b)
    BY <1>1, <1>4
  <2>2. InProgram(b, Consumer) /\ Relay(a, b)
    BY <1>9
  <2> HIDE DEF b
  <2>3. CASE i = a
    <3>1. InProgram(a, Producer)' /\ Guarded(cores'[a])
      BY <1>2, <1>9, <2>3, ProgramTurn DEF Advances
    <3>2. InProgram(b, Consumer)'
      BY <1>3, <2>1, <2>2, <2>3, ProgramStays
    <3>3. Relay(a, b)'
      BY <1>2, <1>9, <2>1, <2>2, <2>3, ProducerRelays
    <3> QED
      BY <2>3, <3>1, <3>2, <3>3 DEF Sharing, b
  <2>4. CASE i = b
    <3>1. InProgram(b, Consumer)' /\ Guarded(cores'[b])
      BY <1>2, <2>1, <2>2, <2>4, ProgramTurn DEF Advances
    <3>2. InProgram(a, Producer)'
      BY <1>3, <1>9, <2>1, <2>4, ProgramStays
    <3>3. Relay(a, b)'
      BY <1>2, <2>1, <2>2, <2>4, ConsumerRelays
    <3> QED
      BY <2>4, <3>1, <3>2, <3>3 DEF Sharing, b
  <2> QED
    BY <2>1, <2>3, <2>4
<1> QED
  BY <1>7, <1>8, <1>9 DEF Passing, Sharing

\* A step that changes neither a core's program, its place and its registers nor the
\* window keeps the guarantee.
LEMMA QuietPasses ==
    ASSUME Litmus, Passing, UNCHANGED shared, happened \subseteq happened',
           \A c \in Core :
              /\ cores'[c].pc = cores[c].pc /\ cores'[c].gpr = cores[c].gpr
              /\ cores'[c].mem = cores[c].mem /\ cores'[c].halt = cores[c].halt
              /\ Guarded(cores'[c])
    PROVE  Passing'
<1>1. Unrun'
  BY DEF Passing, Unrun
<1>2. Core = {0, 1} /\ \A c \in Core : 1 - c \in Core
  BY DEF Litmus, Core
<1>3. \A c \in Core : \A p : InProgram(c, p) => InProgram(c, p)'
  BY DEF InProgram, Holds
<1>4. \A c \in Core : Relay(c, 1 - c) => Relay(c, 1 - c)'
  BY <1>2 DEF Relay
<1>5. Blank => Blank'
  BY DEF Blank
<1>6. Sharing'
  <2>1. CASE Blank
    BY <1>5, <2>1 DEF Sharing
  <2>2. CASE \A c \in Core : InProgram(c, Spin)
    BY <1>3, <2>2 DEF Sharing
  <2>3. ASSUME NEW c \in Core, InProgram(c, Producer), InProgram(1 - c, Consumer), Relay(c, 1 - c)
        PROVE  Sharing'
    <3>1. InProgram(c, Producer)' /\ InProgram(1 - c, Consumer)' /\ Relay(c, 1 - c)'
      BY <1>2, <1>3, <1>4, <2>3
    <3> QED
      BY <3>1 DEF Sharing
  <2> QED
    BY <2>1, <2>2, <2>3 DEF Passing, Sharing
<1> QED
  BY <1>1, <1>6 DEF Passing

\* Loading the programs.
LEMMA LoadPasses ==
    ASSUME Litmus, Inv, Passing, NEW ps \in Workloads, load_program_all(ps)
    PROVE  Passing'
<1>1. /\ cores' = [c \in Core |-> Loaded(cores[c], ps[c])] /\ happened = {}
      /\ UNCHANGED <<shared, happened>>
  BY DEF load_program_all, ghost
<1>2. Core = {0, 1} /\ \A c \in Core : cores[c] \in CoreState
  BY DEF Litmus, Core, Inv, TypeOK
<1>3. ASSUME NEW c \in Core
      PROVE  /\ cores'[c].pc = 0 /\ Guarded(cores'[c])
             /\ \A a \in Addr : a < Len(ps[c]) => cores'[c].mem[a] = ps[c][a + 1]
  <2> DEFINE s == cores[c]
             f == [a \in Addr |-> IF a < Len(ps[c]) THEN ps[c][a + 1] ELSE s.mem[a]]
  <2>1. cores'[c] = [s EXCEPT !.mem = f]
    BY <1>1, <1>2 DEF Loaded
  <2>2. \A a \in Addr : a < Len(ps[c]) => f[a] = ps[c][a + 1]
    OBVIOUS
  <2>3. s.pc = 0 /\ Guarded(s) /\ s \in CoreState
    BY <1>1, <1>2 DEF Passing, Unrun
  <2> HIDE DEF s, f
  <2>4. LET t == [s EXCEPT !.mem = f]
        IN  t.pc = s.pc /\ t.csr = s.csr /\ t.mmu = s.mmu /\ t.mem = f
    BY <2>3 DEF CoreState
  <2> QED
    BY <2>1, <2>2, <2>3, <2>4 DEF Guarded
<1>4. \A a \in Window : shared'[a] = 0
  BY <1>1 DEF Passing, Unrun
<1>5. Unrun'
  BY <1>3, <1>4 DEF Unrun
<1>6. ASSUME NEW c \in Core, NEW p \in {Producer, Consumer, Spin}, ps[c] = p
      PROVE  InProgram(c, p)'
  <2>1. Len(p) = 7
    BY ProgramWords
  <2>2. \A a \in 0 .. 6 : a \in Addr /\ a < 7
    BY LitmusPlaces
  <2>3. \A a \in 0 .. Len(p) - 1 : cores'[c].mem[a] = p[a + 1]
    <3>1. Len(p) - 1 = 6
      BY <2>1
    <3> QED
      BY <1>3, <1>6, <2>1, <2>2, <3>1
  <2> QED
    BY <1>3, <2>3 DEF InProgram, Holds
<1>7. ASSUME NEW c \in Core, NEW d \in Core PROVE Relay(c, d)'
  <2>1. shared'[13] = 0 /\ cores'[c].pc = 0 /\ cores'[d].pc = 0
    BY <1>3, <1>4 DEF Litmus, MCWindow
  <2> QED
    BY <2>1 DEF Relay
<1>8. Sharing'
  <2>1. CASE ps = [c \in Core |-> IF c = 0 THEN Producer ELSE Consumer]
    <3>1. ps[0] = Producer /\ ps[1] = Consumer /\ 0 \in Core /\ 1 - 0 = 1 /\ 1 \in Core
      BY <1>2, <2>1
    <3> QED
      BY <1>6, <1>7, <3>1 DEF Sharing
  <2>2. CASE ps = [c \in Core |-> IF c = 0 THEN Consumer ELSE Producer]
    <3>1. ps[1] = Producer /\ ps[0] = Consumer /\ 1 \in Core /\ 1 - 1 = 0 /\ 0 \in Core
      BY <1>2, <2>2
    <3> QED
      BY <1>6, <1>7, <3>1 DEF Sharing
  <2>3. CASE ps = [c \in Core |-> Spin]
    BY <1>6, <2>3 DEF Sharing
  <2> QED
    BY <2>1, <2>2, <2>3 DEF Litmus, MCWorkloads
<1> QED
  BY <1>3, <1>5, <1>8 DEF Passing

\* Setting up a vector and sending an interrupt.
LEMMA SetupPasses ==
    ASSUME Litmus, Inv, Passing,
           (\E x \in Vectors : EnableSoft(x[1], x[2])) \/ (\E t \in IpiTargets : send_ipi(t))
    PROVE  Passing'
<1>0. DOMAIN cores = Core /\ \A c \in Core : cores[c] \in CoreState /\ Guarded(cores[c])
  BY DEF Inv, TypeOK, Passing
<1>1. ASSUME NEW t \in Core, NEW m,
             cores' = [cores EXCEPT ![t] = m], UNCHANGED <<shared, happened>>,
             m.pc = cores[t].pc, m.gpr = cores[t].gpr, m.mem = cores[t].mem,
             m.halt = cores[t].halt, Guarded(m)
      PROVE  Passing'
  <2>1. cores'[t] = m /\ \A c \in Core : c # t => cores'[c] = cores[c]
    BY <1>0, <1>1
  <2> QED
    BY <1>0, <1>1, <2>1, QuietPasses
<1>2. ASSUME NEW x \in Vectors, EnableSoft(x[1], x[2]) PROVE Passing'
  <2> DEFINE s == cores[x[1]]
             u == [s.csr EXCEPT !.mtvec = x[2], !.mie = TRUE, !.ie = {"MachineSoft"}]
  <2>1. x[1] \in Core /\ x[2] = 6
    BY DEF Litmus
  <2>2. s \in CoreState /\ s.csr \in Csr /\ Guarded(s)
    BY <1>0, <2>1 DEF CoreState
  <2>3. u.mtvec = 6 /\ u.vectored = s.csr.vectored
    BY <2>1, <2>2 DEF Csr
  <2>4. cores' = [cores EXCEPT ![x[1]] = [s EXCEPT !.csr = u]] /\ UNCHANGED <<shared, happened>>
    BY <1>0, <1>2, <2>1, <2>2 DEF EnableSoft, CoreState, ghost
  <2> HIDE DEF s, u
  <2>5. LET m == [s EXCEPT !.csr = u]
        IN  m.pc = s.pc /\ m.gpr = s.gpr /\ m.mem = s.mem /\ m.halt = s.halt /\ m.mmu = s.mmu /\ m.csr = u
    BY <2>2 DEF CoreState
  <2> DEFINE m == [s EXCEPT !.csr = u]
  <2>6. Guarded(m)
    BY <2>2, <2>3, <2>5 DEF Guarded
  <2>7. m.pc = s.pc /\ m.gpr = s.gpr /\ m.mem = s.mem /\ m.halt = s.halt
    BY <2>5
  <2> HIDE DEF m
  <2> QED
    BY <1>1, <2>1, <2>4, <2>6, <2>7 DEF s, m
<1>3. ASSUME NEW t \in IpiTargets, send_ipi(t) PROVE Passing'
  <2> DEFINE s == cores[t]
             u == s.mip \cup {"MachineSoft"}
             m == [s EXCEPT !.mip = u]
  <2>1. t \in Core
    BY <1>3 DEF send_ipi
  <2>2. s \in CoreState /\ Guarded(s)
    BY <1>0, <2>1
  <2>3. cores' = [cores EXCEPT ![t] = m] /\ UNCHANGED <<shared, happened>>
    BY <1>0, <1>3, <2>1, <2>2 DEF send_ipi, CoreState, ghost
  <2> HIDE DEF s, u
  <2>4. /\ m.pc = s.pc /\ m.gpr = s.gpr /\ m.mem = s.mem /\ m.halt = s.halt
        /\ m.mmu = s.mmu /\ m.csr = s.csr
    BY <2>2 DEF CoreState
  <2> HIDE DEF m
  <2>5. Guarded(m)
    BY <2>2, <2>4 DEF Guarded
  <2> QED
    BY <1>1, <2>1, <2>3, <2>4, <2>5 DEF s
<1> QED
  BY <1>2, <1>3

\* Initially nothing is loaded.
LEMMA InitPasses == Init => Passing
<1> SUFFICES ASSUME Init PROVE Passing
  OBVIOUS
<1>1. \A c \in Core : cores[c] = NewCore
  BY DEF Init
<1>2. \A c \in Core : Guarded(cores[c])
  BY <1>1 DEF NewCore, ResetCsr, Guarded
<1>3. Unrun
  BY <1>1 DEF Init, Unrun, NewCore
<1>4. Blank
  BY <1>1 DEF Init, Blank, NewCore
<1> QED
  BY <1>2, <1>3, <1>4 DEF Passing, Sharing

\* Every step keeps the guarantee.
LEMMA NextPasses ==
    ASSUME Litmus
    PROVE  Inv /\ Passing /\ [Next]_vars => Passing'
<1> SUFFICES ASSUME Inv, Passing, [Next]_vars PROVE Passing'
  OBVIOUS
<1>1. ASSUME NEW ps \in Workloads, load_program_all(ps) PROVE Passing'
  BY <1>1, LoadPasses
<1>2. CASE (\E x \in Vectors : EnableSoft(x[1], x[2])) \/ (\E t \in IpiTargets : send_ipi(t))
  BY <1>2, SetupPasses
<1>3. CASE QuantumStep \/ FastStep \/ StepAllStep
  BY <1>3, TurnPasses
<1>4. ASSUME UNCHANGED cpu, happened \subseteq happened' PROVE Passing'
  BY <1>4, QuietPasses DEF cpu, Passing
<1>5. CASE \/ \E entry \in Calls \ {"step_all"}, max \in Limits : CallRun(entry, max)
           \/ "step_all" \in Calls /\ CallStepAll
           \/ RoundBegin \/ RunReturn \/ TurnSkip \/ TurnBegin \/ QuantumEnd \/ RoundEnd
           \/ StepAllSkip \/ StepAllReturn
  <2>1. UNCHANGED cpu
    BY <1>5, ControlTyped
  <2>2. happened \subseteq happened'
    BY <1>5 DEF CallRun, CallStepAll, RoundBegin, RunReturn, TurnSkip, TurnBegin, QuantumEnd,
                RoundEnd, StepAllSkip, StepAllReturn, ghost
  <2> QED
    BY <1>4, <2>1, <2>2
<1>6. CASE AtBound \/ UNCHANGED vars
  <2>1. UNCHANGED cpu /\ happened' = happened
    BY <1>6 DEF AtBound, vars, ghost
  <2> QED
    BY <1>4, <2>1
<1> QED
  BY <1>1, <1>2, <1>3, <1>5, <1>6 DEF Next, HostCall, Running

\* Message passing through the shared window, for every quantum, tick, limit and
\* memory size, under run(), run_fast() and step_all() in any order and with interrupts
\* to either core: a consumer that has left its loop on the flag and made its next load
\* has the data that was stored before the flag (Cluster::Cluster maps one RAM into
\* every core; Cluster::run, run_fast, step_all).
THEOREM MessagesPassed == ASSUME Litmus PROVE Spec => []DataBeforeFlag
<1>1. Passing => DataBeforeFlag
  <2> SUFFICES ASSUME Passing, NEW c \in Core, Holds(c, Consumer), Holds(1 - c, Producer),
                      cores[c].pc \in 3 .. 5
               PROVE  cores[c].gpr[1] = 5
    BY DEF DataBeforeFlag
  <2>1. /\ Core = {0, 1} /\ 0 \in Addr
        /\ \A d \in Core : 1 - d \in Core /\ 1 - d # d /\ 1 - (1 - d) = d
    BY LitmusPlaces DEF Litmus, Core
  <2>2. \A d \in Core : /\ Holds(d, Producer) => cores[d].mem[0] = 2
                        /\ Holds(d, Consumer) => cores[d].mem[0] = 6
                        /\ Holds(d, Spin) => cores[d].mem[0] = 0
    <3>1. /\ 0 \in 0 .. Len(Producer) - 1 /\ 0 \in 0 .. Len(Consumer) - 1
          /\ 0 \in 0 .. Len(Spin) - 1 /\ 0 + 1 = 1
      BY ProgramWords
    <3> QED
      BY <3>1, ProgramWords DEF Holds
  <2>3. cores[c].mem[0] = 6 /\ cores[1 - c].mem[0] = 2
    BY <2>1, <2>2
  <2>4. ~Blank /\ ~(\A d \in Core : InProgram(d, Spin))
    BY <2>1, <2>2, <2>3 DEF Blank, InProgram
  <2>5. PICK d \in Core : InProgram(d, Producer) /\ InProgram(1 - d, Consumer) /\ Relay(d, 1 - d)
    BY <2>4 DEF Passing, Sharing
  <2>6. d = 1 - c
    <3>1. cores[d].mem[0] = 2
      BY <2>2, <2>5 DEF InProgram
    <3> QED
      BY <2>1, <2>3, <3>1
  <2> QED
    BY <2>1, <2>5, <2>6 DEF Relay
<1>2. Inv /\ Passing /\ [Next]_vars => Passing'
  BY NextPasses
<1>3. Init => Passing
  BY InitPasses
<1> QED
  BY <1>1, <1>2, <1>3, Invariance, PTL DEF Spec
================================================================================
