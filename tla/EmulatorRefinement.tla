---------------------------- MODULE EmulatorRefinement ----------------------------
(***************************************************************************)
(* The emulator with its loops and its block cache implements module       *)
(* Interpreter: the cache, the block being replayed, the verbose switch    *)
(* and the host's snapshot are hidden, and a call is under way while the   *)
(* thread is in one of the two loops.                                      *)
(***************************************************************************)
EXTENDS Emulator

Interpreted ==
    INSTANCE Interpreter WITH core <- m, running <- ctl \in {"run", "run_fast", "block"},
                              breaks <- breakpoints

\* run() and run_fast(), out of whichever cached block, in verbose mode or not, are
\* calls that advance the core by whole steps, stop at the first halt or breakpoint,
\* throw exactly where step() throws, and flush the output when they return
\* (src/emulator.cpp:286-312).  It is claimed for guests without interrupts, without
\* translation and without stores into code.
RefinesInterpreter == Interpreted!Spec
================================================================================
