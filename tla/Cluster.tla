--------------------------------- MODULE Cluster ---------------------------------
(***************************************************************************)
(* The multi-core cluster (include/aiasm/cluster.h, src/cluster.cpp) with  *)
(* its deterministic engine (include/aiasm/deterministic.h): cores of      *)
(* module Machine, the main RAM they share through a bus window, and the   *)
(* loops run(), run_fast() and step_all() that take turns between them.    *)
(* Everything happens on the host's one thread; an exception of a core     *)
(* leaves the loop at once and returns to the host.                        *)
(*                                                                         *)
(* The shared window is a part Window of the address space that every core *)
(* sees the same copy of; guests reach it with LOAD and STORE.  Cores have *)
(* no breakpoints here.  snoop_invalidate and tlb_shootdown act on TLBs,   *)
(* which module Machine has none of, and are left out, as are seq_ and the *)
(* result of tick(), which nothing reads.                                  *)
(***************************************************************************)
EXTENDS Machine

CONSTANTS
    NumCores,    \* num_cores
    Quantum,     \* quantum
    MaxCores,    \* kMaxCores
    Window,      \* addresses of the shared window
    \* The workload:
    Workloads,   \* programs it may load, one for each core
    Vectors,     \* <<core, MTVEC base>> it may set up for software interrupts
    IpiTargets,  \* cores send_ipi may be called for
    Calls,       \* which of "run", "run_fast", "step_all" it calls
    Limits,      \* values of max_cycles
    MaxCycles    \* bound of the model: profiled cycles and steps of a core

Core == 0 .. NumCores - 1

ASSUME ClusterAssumption ==
    /\ NumCores \in Nat \ {0} /\ Quantum \in Nat \ {0} /\ MaxCores \in Nat \ {0}
    /\ Window \subseteq Addr
    /\ \A ps \in Workloads : DOMAIN ps = Core
    /\ \A ps \in Workloads, c \in Core : ps[c] \in Seq(Word) /\ Len(ps[c]) <= MemSize
    /\ Vectors \subseteq Core \X Word /\ IpiTargets \subseteq Nat
    /\ Calls \subseteq {"run", "run_fast", "step_all"}
    /\ Limits \subseteq Nat /\ MaxCycles \in Nat

VARIABLES
    cores,            \* cores_
    shared,           \* shared_ram_
    clock, clocks,    \* global_clock_ and clocks_ of deterministic_
    ctl,              \* where the thread is
    mode,             \* the method it is in
    i, q,             \* loop counters: the core whose turn it is, and its steps
    before,           \* its cycles when its turn began
    start, limit,     \* of the call: global clock at its start, and max_cycles
    steps, happened   \* for the properties: steps each core has made, and what has
                      \* happened so far: the methods called, and "throw"

cpu == <<cores, shared>>
engine == <<clock, clocks>>
ghost == <<steps, happened>>
loop == <<mode, i, q, before, start, limit>>
vars == <<cpu, engine, ctl, loop, ghost>>

\* "round" is the head of the outer loop, "turn" of the loop over the cores.
Ctl == {"host", "round", "turn", "quantum", "step_all", "crashed"}

--------------------------------------------------------------------------------
\* Mutant of Seen: the window falls through to the core's own memory.
Seen_OwnCopy(c) == cores[c]

\* A core as the bus shows it, with the shared window over its own memory.
Seen(c) ==
    [cores[c] EXCEPT !.mem = [a \in Addr |-> IF a \in Window THEN shared[a] ELSE @[a]]]

all_halted == \A c \in Core : cores[c].halt

\* Mutant of CoreDoes: stores to the first word of the window do not arrive.
CoreDoes_SkipsFirst(c, result, next) ==
    \E r \in {result} :
        /\ cores' = [cores EXCEPT ![c] = r.m]
        /\ shared' = [a \in Window |-> IF a - 1 \in Window THEN r.m.mem[a] ELSE shared[a]]
        /\ ctl' = CASE r.end = "ok" -> next [] r.end = "throw" -> "host" [] OTHER -> "crashed"
        /\ steps' = [steps EXCEPT ![c] = @ + 1]
        /\ happened' = IF r.end = "throw" THEN happened \cup {"throw"} ELSE happened

\* Core c does what `result`, a result of a handler on Seen(c), says, and the thread
\* goes on at `next` unless it threw.
CoreDoes(c, result, next) ==
    \E r \in {result} :
        /\ cores' = [cores EXCEPT ![c] = r.m]
        /\ shared' = [a \in Window |-> r.m.mem[a]]
        /\ ctl' = CASE r.end = "ok" -> next [] r.end = "throw" -> "host" [] OTHER -> "crashed"
        /\ steps' = [steps EXCEPT ![c] = @ + 1]
        /\ happened' = IF r.end = "throw" THEN happened \cup {"throw"} ELSE happened

\* Mutant of tick: the cycles are charged to the global clock alone.
tick_GlobalOnly(c, cycles) ==
    /\ clock' = clock + cycles
    /\ clocks' = clocks

\* DeterministicEngine::tick.
tick(c, cycles) ==
    /\ clock' = clock + cycles
    /\ clocks' = [clocks EXCEPT ![c % MaxCores] = @ + cycles]

WithinBounds == \A c \in Core : cores[c].prof.cycles < MaxCycles /\ steps[c] < MaxCycles

--------------------------------------------------------------------------------
Init ==
    /\ cores = [c \in Core |-> NewCore]
    /\ shared = [a \in Window |-> 0]
    /\ clock = 0 /\ clocks = [c \in 0 .. MaxCores - 1 |-> 0]
    /\ ctl = "host" /\ mode = "run" /\ i = 0 /\ q = 0 /\ before = 0 /\ start = 0 /\ limit = 0
    /\ steps = [c \in Core |-> 0] /\ happened = {}

--------------------------------------------------------------------------------
\* Host calls

Loaded(m, p) == [m EXCEPT !.mem = [a \in Addr |-> IF a < Len(p) THEN p[a + 1] ELSE @[a]]]

\* load_program_all(p), when ps[c] = p for every core, or core(c).load_program for
\* each of them, before anything runs.
load_program_all(ps) ==
    /\ ctl = "host" /\ happened = {}
    /\ cores' = [c \in Core |-> Loaded(cores[c], ps[c])]
    /\ UNCHANGED <<shared, engine, ctl, loop, ghost>>

\* core(c).csr().write: the trap vector, with software interrupts enabled.
EnableSoft(c, v) ==
    /\ ctl = "host"
    /\ cores' = [cores EXCEPT ![c].csr = [@ EXCEPT !.mtvec = v, !.mie = TRUE, !.ie = {"MachineSoft"}]]
    /\ UNCHANGED <<shared, engine, ctl, loop, ghost>>

\* A target that does not exist is ignored.
send_ipi(t) ==
    /\ ctl = "host" /\ t \in Core
    /\ cores' = [cores EXCEPT ![t].mip = @ \cup {"MachineSoft"}]
    /\ UNCHANGED <<shared, engine, ctl, loop, ghost>>

CallRun(entry, max) ==
    /\ ctl = "host" /\ WithinBounds
    /\ ctl' = "round" /\ mode' = entry /\ start' = clock /\ limit' = max
    /\ happened' = happened \cup {entry}
    /\ UNCHANGED <<cpu, engine, i, q, before, steps>>

CallStepAll ==
    /\ ctl = "host" /\ WithinBounds
    /\ ctl' = "step_all" /\ i' = 0
    /\ happened' = happened \cup {"step_all"}
    /\ UNCHANGED <<cpu, engine, mode, q, before, start, limit, steps>>

--------------------------------------------------------------------------------
\* run()

RoundBegin ==
    /\ ctl = "round" /\ ~all_halted /\ clock - start < limit /\ WithinBounds
    /\ ctl' = "turn" /\ i' = 0
    /\ UNCHANGED <<cpu, engine, mode, q, before, start, limit, ghost>>

RunReturn ==
    /\ ctl = "round" /\ (all_halted \/ clock - start >= limit)
    /\ ctl' = "host"
    /\ UNCHANGED <<cpu, engine, loop, ghost>>

TurnSkip ==
    /\ ctl = "turn" /\ i \in Core /\ cores[i].halt
    /\ i' = i + 1
    /\ UNCHANGED <<cpu, engine, ctl, mode, q, before, start, limit, ghost>>

TurnBegin ==
    /\ ctl = "turn" /\ mode = "run" /\ i \in Core /\ ~cores[i].halt
    /\ ctl' = "quantum" /\ q' = 0 /\ before' = cores[i].prof.cycles
    /\ UNCHANGED <<cpu, engine, mode, i, start, limit, ghost>>

\* Mutant of InQuantum: one step too many.
InQuantum_OneMore(c, n) == n <= Quantum /\ ~cores[c].halt

\* The condition of the inner loop: it counts steps, not cycles.
InQuantum(c, n) == n < Quantum /\ ~cores[c].halt

QuantumStep ==
    /\ ctl = "quantum" /\ InQuantum(i, q)
    /\ CoreDoes(i, step(Seen(i)), "quantum")
    /\ q' = q + 1
    /\ UNCHANGED <<engine, mode, i, before, start, limit>>

QuantumEnd ==
    /\ ctl = "quantum" /\ ~InQuantum(i, q)
    /\ tick(i, cores[i].prof.cycles - before)
    /\ ctl' = "turn" /\ i' = i + 1
    /\ UNCHANGED <<cpu, mode, q, before, start, limit, ghost>>

RoundEnd ==
    /\ ctl = "turn" /\ i = NumCores
    /\ IF mode = "run_fast" THEN tick(0, Quantum) ELSE UNCHANGED engine
    /\ ctl' = "round"
    /\ UNCHANGED <<cpu, loop, ghost>>

--------------------------------------------------------------------------------
\* run_fast(): a core runs until it halts before the next one starts

\* An operation of the core's run_fast, which prints its UART buffer at the end.
\* A block holds what memory held when it was decoded: programs do not change here.
\* Decoding reads the core's own memory, where the window lies out of bounds.
FastStep ==
    /\ ctl = "turn" /\ mode = "run_fast" /\ i \in Core /\ ~cores[i].halt /\ WithinBounds
    /\ LET r == IF cores[i].pc \in Addr \ Window
                THEN fast_op(Seen(i), cores[i].mem[cores[i].pc])
                ELSE Throw(Seen(i))
       IN  CoreDoes(i, IF r.m.halt THEN [r EXCEPT !.m.tx = << >>] ELSE r, "turn")
    /\ UNCHANGED <<engine, loop>>

\* step_all()
StepAllStep ==
    /\ ctl = "step_all" /\ i \in Core /\ ~cores[i].halt
    /\ CoreDoes(i, step(Seen(i)), "step_all")
    /\ i' = i + 1
    /\ UNCHANGED <<engine, mode, q, before, start, limit>>

StepAllSkip ==
    /\ ctl = "step_all" /\ i \in Core /\ cores[i].halt
    /\ i' = i + 1
    /\ UNCHANGED <<cpu, engine, ctl, mode, q, before, start, limit, ghost>>

StepAllReturn ==
    /\ ctl = "step_all" /\ i = NumCores
    /\ ctl' = "host"
    /\ UNCHANGED <<cpu, engine, loop, ghost>>

--------------------------------------------------------------------------------
HostCall ==
    \/ \E ps \in Workloads : load_program_all(ps)
    \/ \E x \in Vectors : EnableSoft(x[1], x[2])
    \/ \E t \in IpiTargets : send_ipi(t)
    \/ \E entry \in Calls \ {"step_all"}, max \in Limits : CallRun(entry, max)
    \/ "step_all" \in Calls /\ CallStepAll

Running ==
    \/ RoundBegin \/ RunReturn \/ TurnSkip \/ TurnBegin \/ QuantumStep \/ QuantumEnd
    \/ RoundEnd \/ FastStep \/ StepAllStep \/ StepAllSkip \/ StepAllReturn

\* A bound of the model cuts a loop that would go on, or the calls of the host.
AtBound ==
    /\ ctl \in {"host", "round", "turn"} /\ ~WithinBounds
    /\ UNCHANGED vars

Next == HostCall \/ Running \/ AtBound

Spec == Init /\ [][Next]_vars

\* The loops belong to one thread, which keeps going.
FairSpec == Spec /\ WF_vars(Running)
--------------------------------------------------------------------------------
\* Properties

\* Type invariant.
TypeOK ==
    /\ \A c \in Core : cores[c] \in CoreState
    /\ DOMAIN cores = Core /\ shared \in [Window -> Word]
    /\ clock \in Nat /\ clocks \in [0 .. MaxCores - 1 -> Nat]
    /\ ctl \in Ctl /\ mode \in {"run", "run_fast"}
    /\ i \in 0 .. NumCores /\ q \in 0 .. Quantum
    /\ before \in Nat /\ start \in Nat /\ limit \in Nat
    /\ steps \in [Core -> Nat] /\ happened \subseteq {"run", "run_fast", "step_all", "throw"}

\* Lockstep ("enforces quantum-based lockstep", include/aiasm/cluster.h:18): of two
\* cores still running the earlier one is ahead by at most a quantum of steps, and
\* when a call has returned, whatever its cycle limit, both made equally many.
\* It lasts until a guest throws or run_fast() is called (Cluster::run, step_all).
LockStep ==
    happened \subseteq {"run", "step_all"} => \A c, d \in Core :
        c < d /\ ~cores[c].halt /\ ~cores[d].halt =>
            /\ steps[c] - steps[d] \in 0 .. Quantum
            /\ ctl = "host" => steps[c] = steps[d]

\* The sum of the first n values of f.
Total(f, n) == LET s[k \in 0 .. n] == IF k = 0 THEN 0 ELSE s[k - 1] + f[k - 1] IN s[n]

\* The engine's clocks are the cores' own cycle counts, except for the turn that is
\* under way, across halts inside a quantum and returns at the cycle limit: no cycle
\* is lost or counted twice.  It lasts until a guest throws or another method is
\* called, with no more cores than the engine has clocks (Cluster::run, tick).
ClocksAgree ==
  happened \subseteq {"run"} /\ ctl # "crashed" =>
    /\ \A c \in Core :
          clocks[c] = IF ctl = "quantum" /\ c = i THEN before ELSE cores[c].prof.cycles
    /\ clock = Total(clocks, MaxCores)

\* A core in whose handler a software interrupt would end.
IpiArmed(c) ==
    /\ ~cores[c].halt /\ "MachineSoft" \in cores[c].mip
    /\ cores[c].csr.mie /\ "MachineSoft" \in cores[c].csr.ie
    /\ cores[c].csr.mtvec \in Addr /\ Decode[cores[c].mem[cores[c].csr.mtvec]].op = "HALT"

\* An inter-core interrupt never outlives its target's turn: when the loop of run()
\* or step_all() has passed a core, it has entered its handler, whichever cores
\* spin in front of it and wherever the quantum or the cycle limit falls
\* (send_ipi, run, step_all, and pending_interrupt in step).
IpiPrompt ==
    ctl = "step_all" \/ (ctl \in {"turn", "quantum"} /\ mode = "run") =>
        \A c \in Core : c < i => ~IpiArmed(c)
================================================================================
