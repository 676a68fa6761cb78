--------------------------------- MODULE Frontend ---------------------------------
(***************************************************************************)
(* The source frontends (include/aiasm/frontend.h, src/frontend.cpp): from *)
(* an annotated C++, SystemVerilog or Chisel file, or guest assembly, to a *)
(* program and a target.                                                   *)
(*                                                                         *)
(* Of a source file is kept what the loaders find in it: its kind, the     *)
(* mnemonics of its `novium:` comments in order, and whether it names a    *)
(* kernel; of an assembly line its mnemonic and operands.  Memory counts   *)
(* lines of 64 bytes, and every transfer of the programs is one line.      *)
(***************************************************************************)
EXTENDS Decoder

CONSTANTS
    ScratchA, ScratchB,   \* 0x1000 and 0x1040, as lines
    MainResult,           \* 0x2000
    CrcSeed               \* 0x5A5A

ASSUME FrontendAssumption ==
    {ScratchA, ScratchB, MainResult, CrcSeed} \subseteq 0 .. ImmCount - 1

MainA == 0
MainB == 1

--------------------------------------------------------------------------------
\* Fixed programs

\* Sums 1..5 into r3.
ScalarLoop ==
    << movi(1, 0), movi(2, 5), movi(4, 1), movi(3, 0),
       add(1, 1, 4), add(3, 3, 1), bne(1, 2, -3) >>

\* Fetches both matrices and stores their product over the first.
MatrixPhase ==
    << movi(5, ScratchA), movi(6, ScratchB), movi(7, MainA), movi(8, MainB),
       dma_load(5, 7, 1), dma_load(6, 8, 1),
       load_vr(0, 5, 0), load_vr(1, 6, 0), vec_add(2, 0, 1), matmul_tile(3, 0, 1, 4),
       store_vr(3, 5, 0) >>

\* What a C++ file without annotations becomes.
FallbackProgram == ScalarLoop \o MatrixPhase \o << make("HALT") >>

\* A kernel pragma alone; the defaults of SystemVerilog and of Chisel.
KernelProgram ==
    << load_vr(0, 5, 0), load_vr(1, 6, 0), vec_add(2, 0, 1), matmul_tile(3, 0, 1, 4),
       store_vr(3, 5, 0), make("HALT") >>

VerilogProgram ==
    << movi(5, ScratchA), movi(7, MainA), dma_load(5, 7, 1), load_vr(0, 5, 0), load_vr(1, 5, 0),
       vec_add(2, 0, 1), matmul_tile(3, 0, 1, 4), store_vr(3, 5, 0), make("HALT") >>

ChiselProgram ==
    << load_vr(0, 5, 0), load_vr(1, 6, 0), matmul_tile(3, 0, 1, 4), make("HALT") >>

--------------------------------------------------------------------------------
\* Loaders

\* The operands of an annotation are not read; other mnemonics are skipped.
Annotation(note) ==
    CASE note = "vec_add"   -> << vec_add(2, 0, 1) >>
      [] note = "matmul"    -> << matmul_tile(3, 0, 1, 4) >>
      [] note = "dma_load"  -> << dma_load(5, 7, 1) >>
      [] note = "dma_store" -> << dma_store(9, 5, 1) >>
      [] note = "halt"      -> << make("HALT") >>
      [] OTHER              -> << >>

Annotated(notes) == FlattenSeq([k \in DOMAIN notes |-> Annotation(notes[k])])

load_cpp(src) ==
    LET found == Annotated(src.notes)
    IN  IF found # << >> THEN Terminated(found)
        ELSE IF src.kernel THEN KernelProgram ELSE FallbackProgram

\* The annotations of a hardware description, unless they are a single instruction.
load_hardware(src, default) ==
    IF Len(load_cpp(src)) > 1 THEN load_cpp(src) ELSE default

\* Everything from a `#` on is dropped as a comment, the immediate of MOVI with it.
Stripped(line) == IF line.mn = "movi" THEN [line EXCEPT !.args = SubSeq(@, 1, 1)] ELSE line

\* One line of assembly; an operand list that does not parse gives nothing.
Assembled(line) ==
    CASE line.mn = "halt"    -> << make("HALT") >>
      [] line.mn = "nop"     -> << nop >>
      [] line.mn = "movi"    -> IF Len(line.args) # 2 THEN << >>
                                ELSE << movi(line.args[1], line.args[2]) >>
      [] line.mn = "vec_add" -> IF Len(line.args) # 3 THEN << >>
                                ELSE << vec_add(line.args[1], line.args[2], line.args[3]) >>
      [] line.mn = "matmul"  -> << matmul_tile(3, 0, 1, 4) >>
      [] OTHER               -> << >>

load_guest_asm(lines) ==
    Terminated(FlattenSeq([k \in DOMAIN lines |-> Assembled(Stripped(lines[k]))]))

\* load_string: the program and the target of a source; an unknown kind fails.
load_string(src) ==
    CASE src.kind = "Cpp"           -> [ok |-> TRUE, target |-> "CPU", program |-> load_cpp(src)]
      [] src.kind = "SystemVerilog" -> [ok |-> TRUE, target |-> "ASIC",
                                        program |-> load_hardware(src, VerilogProgram)]
      [] src.kind = "Chisel"        -> [ok |-> TRUE, target |-> "ASIC",
                                        program |-> load_hardware(src, ChiselProgram)]
      [] src.kind = "GuestAsm"      -> [ok |-> TRUE, target |-> "ASIC",
                                        program |-> load_guest_asm(src.lines)]
      [] OTHER                      -> [ok |-> FALSE, target |-> "ASIC", program |-> << >>]
================================================================================
