---------------------------------- MODULE Driver ----------------------------------
(***************************************************************************)
(* The command-line driver (src/main.cpp) and the CoreMark suite           *)
(* (include/aiasm/coremark.h, src/coremark.cpp): load a program from a     *)
(* frontend, of its own or from the suite, preload the matrices, run, and  *)
(* look at the results.                                                    *)
(*                                                                         *)
(* Instructions are numbered by pc and LineWords of them fill a line of    *)
(* memory.  The programs write whole lines, and some write the line they   *)
(* are in: the model keeps which lines still hold code, and a fetch from   *)
(* another line is control lost.                                           *)
(***************************************************************************)
EXTENDS Frontend

CONSTANTS
    LineWords,    \* instructions in a line of 64 bytes (16)
    CodeValue,    \* what a line of code reads as data
    MatrixA, MatrixB,
    \* The workload:
    Sources,      \* files given to the driver
    Iterations    \* CoreMark iterations

ASSUME DriverAssumption ==
    /\ LineWords \in Nat \ {0} /\ {CodeValue, MatrixA, MatrixB} \subseteq Word
    /\ Iterations \in Nat

VARIABLES
    job,       \* "none", "file", "demo" or "coremark"
    input,     \* << >>, or << the file >>
    text,      \* the program loaded
    mode,      \* "run" or "run_fast"
    emu,       \* the core
    intact,    \* lines of the program that no store has overwritten
    cached,    \* start addresses in the block cache
    todo,      \* rest of the block being replayed
    place,     \* where the driver is
    score      \* of CoreMark: iterations done, cycles of all and of the last, checks

driver_vars == <<job, input, text, mode, emu, intact, cached, todo, place, score>>

--------------------------------------------------------------------------------
\* The driver's own programs

\* Mutant of DemoProgram: the second operand is stored, not the product.
DemoProgram_StoresOperand ==
    ScalarLoop \o MatrixPhase \o << movi(9, MainResult), dma_store(9, 6, 1), make("HALT") >>

\* main() without a file.
DemoProgram ==
    ScalarLoop \o MatrixPhase \o << movi(9, MainResult), dma_store(9, 5, 1), make("HALT") >>

build_iteration ==
    ScalarLoop \o MatrixPhase
        \o << movi(10, CrcSeed), add(11, 10, 3), mul(12, 11, 3), make("HALT") >>

CodeLines(p) == 0 .. (Len(p) - 1) \div LineWords

\* load_program, and the preload of the two matrices.
Loaded(c, p) ==
    [c EXCEPT !.mem = [a \in Addr |-> IF a \in CodeLines(p) THEN CodeValue ELSE @[a]],
              !.ram = [@ EXCEPT ![MainA] = MatrixA, ![MainB] = MatrixB]]

\* reset() keeps the timer, the output and the target.
Afresh(c) == [NewCore EXCEPT !.timer = c.timer, !.tx = c.tx, !.target = c.target]

--------------------------------------------------------------------------------
DriverInit ==
    /\ job = "none" /\ input = << >> /\ text = << >> /\ mode = "run" /\ emu = NewCore
    /\ intact = {} /\ cached = {} /\ todo = << >> /\ place = "idle"
    /\ score = [done |-> 0, cycles |-> 0, last |-> 0, list_ok |-> TRUE, crc_ok |-> TRUE]

\* A program is in place and run() or run_fast() is called.
Call(j, how, c, p) ==
    /\ job' = j
    /\ text' = p /\ mode' = how
    /\ emu' = c
    /\ intact' = CodeLines(p) /\ cached' = {} /\ todo' = << >> /\ place' = "loop"

\* Mutant of FileMode: the plain loop.
FileMode_Plain == "run"

\* The loop the driver runs a file with.
FileMode == "run_fast"

RunFile(src) ==
    LET r == load_string(src)
    IN  /\ input' = << src >>
        /\ IF r.ok
           THEN Call("file", FileMode, Loaded([NewCore EXCEPT !.target = r.target], r.program),
                     r.program)
           ELSE /\ job' = "file" /\ place' = "rejected"
                /\ UNCHANGED <<text, mode, emu, intact, cached, todo>>
        /\ UNCHANGED score

\* The demonstration, plain and on the three targets.
RunDemo(how, target) ==
    /\ Call("demo", how, Loaded([NewCore EXCEPT !.target = target], DemoProgram), DemoProgram)
    /\ UNCHANGED <<input, score>>

\* Mutant of Iteration: the matrices are loaded before the loop alone.
Iteration_NoReload(c) ==
    [Loaded(c, build_iteration) EXCEPT !.ram = c.ram,
                                       !.mem = [@ EXCEPT ![ScratchA] = MatrixA,
                                                         ![ScratchB] = MatrixB]]

\* The head of an iteration of coremark::run.
Iteration(c) ==
    [Loaded(c, build_iteration) EXCEPT !.mem = [@ EXCEPT ![ScratchA] = MatrixA,
                                                         ![ScratchB] = MatrixB]]

RunCoreMark(how, target) ==
    /\ Iterations > 0
    /\ Call("coremark", how, Iteration([NewCore EXCEPT !.target = target]), build_iteration)
    /\ UNCHANGED <<input, score>>

--------------------------------------------------------------------------------
\* The loops

\* Lines an instruction writes.
Writes(c, i) ==
    CASE i.op = "STORE_VR" -> {EffectiveAddress(c, i)}
      [] i.op = "DMA_LOAD" -> read_gpr(c, i.rd) .. read_gpr(c, i.rd) + i.imm - 1
      [] OTHER             -> {}

\* Fetched words advance pc, execute and tick; `next` is where the loop goes on.
Perform(i, next) ==
    LET c == [emu EXCEPT !.pc = Plus(@, 1)]
        r == Handled(c, i)
    IN  /\ emu' = IF r.end = "ok" THEN tick_peripherals(Retired(r.m, i, r.cycles)) ELSE r.m
        /\ intact' = intact \ Writes(c, i)
        /\ place' = IF r.end = "ok" THEN next ELSE "thrown"

LineOf(pc) == pc \div LineWords

\* The block of the program at pc: up to a branch, a HALT or the end of the line.
BlockAt(pc) ==
    LET end == CHOOSE k \in pc + 1 .. Len(text) :
                  /\ EndsBlock(text[k].op) \/ k % LineWords = 0 \/ k = Len(text)
                  /\ \A j \in pc + 1 .. k - 1 : ~EndsBlock(text[j].op) /\ j % LineWords # 0
    IN  SubSeq(text, pc + 1, end)

\* run(): the word is fetched from memory.
PlainStep ==
    /\ place = "loop" /\ mode = "run" /\ ~emu.halt
    /\ IF LineOf(emu.pc) \in intact THEN Perform(text[emu.pc + 1], "loop")
       ELSE place' = "lost" /\ UNCHANGED <<emu, intact>>
    /\ UNCHANGED <<job, input, text, mode, cached, todo, score>>

\* run_fast(): the block is found, or decoded from memory.
EnterBlock ==
    /\ place = "loop" /\ mode = "run_fast" /\ ~emu.halt
    /\ IF emu.pc \in cached \/ LineOf(emu.pc) \in intact
       THEN place' = "block" /\ todo' = BlockAt(emu.pc) /\ cached' = cached \cup {emu.pc}
       ELSE place' = "lost" /\ UNCHANGED <<todo, cached>>
    /\ UNCHANGED <<job, input, text, mode, emu, intact, score>>

BlockStep ==
    /\ place = "block"
    /\ LET leaves == Tail(todo) = << >> \/ EndsBlock(Head(todo).op)
       IN  /\ Perform(Head(todo), IF leaves THEN "loop" ELSE "block")
           /\ todo' = IF leaves THEN << >> ELSE Tail(todo)
    /\ UNCHANGED <<job, input, text, mode, cached, score>>

\* The loop returns to main().
Return ==
    /\ place = "loop" /\ emu.halt /\ job # "coremark"
    /\ place' = "done"
    /\ emu' = [emu EXCEPT !.tx = << >>]
    /\ UNCHANGED <<job, input, text, mode, intact, cached, todo, score>>

\* The totals and the checks of an iteration.
Scored(s, c) ==
    [done |-> s.done + 1, cycles |-> s.cycles + c.prof.cycles, last |-> c.prof.cycles,
     list_ok |-> s.list_ok /\ read_gpr(c, 3) = 15, crc_ok |-> s.crc_ok /\ c.halt]

\* The loop returns to coremark::run: the iteration is scored, the emulator reset,
\* and the next one begins.
IterationEnds ==
    /\ place = "loop" /\ emu.halt /\ job = "coremark"
    /\ score' = Scored(score, emu)
    /\ UNCHANGED input
    /\ IF score'.done < Iterations
       THEN Call("coremark", mode, Iteration(Afresh(emu)), build_iteration)
       ELSE /\ place' = "done" /\ emu' = Afresh(emu)
            /\ UNCHANGED <<job, text, mode, intact, cached, todo>>

Executing == PlainStep \/ EnterBlock \/ BlockStep \/ Return \/ IterationEnds

Launch ==
    \/ \E src \in Sources : RunFile(src)
    \/ \E how \in {"run", "run_fast"}, t \in Target : RunDemo(how, t) \/ RunCoreMark(how, t)

DriverNext == (place = "idle" /\ Launch) \/ Executing

\* Nothing preempts the driver's one thread.
DriverSpec == DriverInit /\ [][DriverNext]_driver_vars /\ WF_driver_vars(Executing)

--------------------------------------------------------------------------------
\* Properties

\* Every program the driver runs, of the frontends, the demonstration and the suite,
\* comes to its HALT, without an exception and without ever fetching from a line that
\* a DMA or a vector store of the program has replaced: the annotated programs leave
\* r5 and r7 zero, so a dma_load replaces the program's own first line, and only the
\* decoded block keeps the rest of it (src/main.cpp:65, load_cpp).
EveryProgramHalts == place \in {"loop", "block"} ~> place = "done"

\* "results must be bit-identical (accuracy) while cycle counts differ per target"
\* (src/main.cpp:269): the demonstration leaves the same sum and the same product in
\* both memories on every target and in both loops.
BitIdentical ==
    job = "demo" /\ place = "done" =>
        /\ read_gpr(emu, 3) = 15
        /\ emu.mem[ScratchA] = Times(MatrixA, MatrixB) /\ emu.ram[MainResult] = emu.mem[ScratchA]

\* CoreMark iterations do not influence each other, whatever the reset between them
\* keeps: all cost the same, every check passes, and the product of the last is that
\* of the matrices as for the first (coremark::run, src/coremark.cpp:28-58).
IterationsAlike ==
    /\ score.done > 0 => score.cycles = score.done * score.last /\ score.list_ok /\ score.crc_ok
    /\ job = "coremark" /\ place = "loop" /\ emu.halt =>
          emu.mem[ScratchA] = Times(MatrixA, MatrixB)

\* "lowering is 1:1 -- every source construct maps to the same guest instructions that
\* the hand-written enc:: program would emit" (include/aiasm/frontend.h:27), for the
\* lines of an assembly file.
HandWritten(lines) == Terminated(FlattenSeq([k \in DOMAIN lines |-> Assembled(lines[k])]))

OneToOne ==
    input # << >> /\ input[1].kind = "GuestAsm" => text = HandWritten(input[1].lines)
================================================================================
