------------------------------- MODULE Interpreter -------------------------------
(***************************************************************************)
(* What the emulator promises its host, without its loops and its block    *)
(* cache: a core that advances by whole calls of step(), and only inside a *)
(* call of the host; a call that ends at a halt, at a breakpoint or by an  *)
(* exception, and delivers the output when it ends normally; and host      *)
(* calls that execute nothing (include/aiasm/emulator.h, "Execution").     *)
(***************************************************************************)
CONSTANTS
    NewCore,   \* the constructed machine
    step(_)    \* what one call of step() does to a machine: the machine after it, .m,
               \* and how it ended, .end

VARIABLES
    core,      \* the machine
    running,   \* inside run() or run_fast()
    breaks     \* breakpoints

Init == core = NewCore /\ running = FALSE /\ breaks = {}

Stops == core.halt \/ core.pc \in breaks

\* An instruction, or the exception that ends the call in its place.
Execute ==
    /\ running /\ ~Stops
    /\ core' = step(core).m
    /\ running' = (step(core).end = "ok")
    /\ UNCHANGED breaks

\* A single step of the host, which no breakpoint holds back.
SingleStep ==
    /\ ~running
    /\ core' = step(core).m
    /\ UNCHANGED <<running, breaks>>

Enter ==
    /\ ~running /\ running' = TRUE
    /\ UNCHANGED <<core, breaks>>

Leave ==
    /\ running /\ Stops
    /\ running' = FALSE
    /\ core' = [core EXCEPT !.tx = << >>]
    /\ UNCHANGED breaks

\* The host sets up memories, registers, devices, the CSRs or the target: nothing
\* executes, and the clock stands.
Adjust ==
    /\ ~running
    /\ core' = [core EXCEPT !.gpr = core'.gpr, !.mem = core'.mem, !.ram = core'.ram,
                            !.csr = core'.csr, !.mip = core'.mip, !.mmu = core'.mmu,
                            !.timer = core'.timer, !.tx = core'.tx, !.target = core'.target]
    /\ UNCHANGED <<running, breaks>>

\* A snapshot takes back the registers, the flags, the clock and the profile.
Rewind ==
    /\ ~running
    /\ core' = [core EXCEPT !.gpr = core'.gpr, !.vr = core'.vr, !.pc = core'.pc,
                            !.accum = core'.accum, !.prof = core'.prof, !.zero = core'.zero,
                            !.negative = core'.negative, !.overflow = core'.overflow]
    /\ UNCHANGED <<running, breaks>>

\* A fresh core, but for the timer, the output and the target.
Restart ==
    /\ ~running
    /\ core' = [NewCore EXCEPT !.timer = core.timer, !.tx = core.tx, !.target = core.target]
    /\ breaks' = {}
    /\ UNCHANGED running

SetBreaks ==
    /\ ~running
    /\ UNCHANGED <<core, running>>

Next ==
    \/ Execute \/ SingleStep \/ Enter \/ Leave
    \/ Adjust \/ Rewind \/ Restart \/ SetBreaks

Spec == Init /\ [][Next]_<<core, running, breaks>>
================================================================================
