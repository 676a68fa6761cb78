---------------------------------- MODULE Isa ----------------------------------
(***************************************************************************)
(* The Novium instruction set as the executor sees it: 32-bit words and    *)
(* their decoding (include/aiasm/isa.h), the cycle weights, and the cost   *)
(* profiles of the three targets (include/aiasm/target.h).                 *)
(*                                                                         *)
(* Words are the numbers 0 .. WordCount-1 with arithmetic modulo WordCount *)
(* (2^32 in the code).  Addresses and the program counter count words, not *)
(* bytes.  Decode is the field extraction of struct Instruction: which     *)
(* word means what is a parameter, so a word of memory is code and data at *)
(* once, as in the program.                                                *)
(***************************************************************************)
EXTENDS Integers

CONSTANTS
    WordCount,      \* number of machine words
    NumGpr,         \* general registers (NUM_GPR)
    NumVr,          \* vector registers (NUM_VR)
    Decode,         \* word -> instruction
    DmaLine,        \* words of a DMA line (DMA_LINE_SIZE)
    TileSize,       \* largest matrix tile (TILE_SIZE)
    CyclesPerTick   \* CYCLES_PER_TICK

Word == 0 .. WordCount - 1
Gpr == 0 .. NumGpr - 1
Vr == 0 .. NumVr - 1

\* Mutant of Plus: addition that does not wrap.
Plus_Wide(a, b) == a + b

Plus(a, b) == (a + b) % WordCount
Minus(a, b) == (a - b) % WordCount
Times(a, b) == (a * b) % WordCount

\* The sign bit of a word.
Negative(a) == 2 * a >= WordCount

ScalarOps == {"ADD", "SUB", "MUL", "LOAD", "STORE", "MOV", "MOVI"}
VectorOps == {"LOAD_VR", "STORE_VR", "VEC_ADD", "MATMUL_TILE"}
DmaOps == {"DMA_LOAD", "DMA_STORE"}
BranchOps == {"JMP", "BEQ", "BNE"}

\* The opcodes that init_dispatch_table gives a handler.
Dispatched == {"NOP", "HALT"} \cup BranchOps \cup ScalarOps \cup VectorOps \cup DmaOps

\* "NONE" stands for the 46 opcodes of the 6-bit space without a handler.
Opcode == Dispatched \cup {"NONE"}

\* imm is the low field of the word: imm16, offset, target or func.
Instruction == [op : Opcode, rd : Nat, ra : Nat, rb : Nat, imm : Word]

nop == [op |-> "NOP", rd |-> 0, ra |-> 0, rb |-> 0, imm |-> 0]

\* The opcodes that end a decoded block.
EndsBlock(op) == op \in BranchOps \cup {"HALT"}

\* cycle_weight: the default cost of an opcode; func is the transfer length.
cycle_weight(op, func) ==
    CASE op = "HALT"                           -> 0
      [] op \in {"JMP", "BEQ", "BNE"}          -> 2
      [] op \in {"MUL", "LOAD", "STORE"}       -> 3
      [] op \in {"LOAD_VR", "STORE_VR"}        -> 5
      [] op = "VEC_ADD"                        -> 4
      [] op = "MATMUL_TILE"                    -> 16
      [] op \in DmaOps                         -> (func + DmaLine - 1) \div DmaLine + 2
      [] OTHER                                 -> 1

Target == {"CPU", "GPU", "ASIC"}

\* cycle_overrides of the profiles; 0 means no override.
cycle_override(target, op) ==
    CASE target = "CPU" /\ op = "VEC_ADD"      -> 2
      [] target = "CPU" /\ op = "MATMUL_TILE"  -> 24
      [] target = "GPU" /\ op = "VEC_ADD"      -> 1
      [] target = "GPU" /\ op = "MATMUL_TILE"  -> 4
      [] target = "GPU" /\ op \in DmaOps       -> 1
      [] OTHER                                 -> 0

profile_cycle_weight(target, op, func) ==
    LET ov == cycle_override(target, op)
    IN  IF ov # 0 THEN ov ELSE cycle_weight(op, func)

\* What one execution of i can add to the tick accumulator, taken branches
\* (one cycle more) and page-fault traps (two cycles) included.
CostBound(target, i) ==
    IF i.op \in {"BEQ", "BNE", "LOAD", "STORE"} THEN 3
    ELSE IF i.op \in DmaOps /\ profile_cycle_weight(target, i.op, i.imm) < 2 THEN 2
    ELSE profile_cycle_weight(target, i.op, i.imm)

ASSUME IsaAssumption ==
    /\ WordCount \in Nat /\ WordCount > 1
    /\ NumGpr \in Nat \ {0} /\ NumVr \in Nat \ {0}
    /\ DmaLine \in Nat \ {0} /\ TileSize \in Nat /\ CyclesPerTick \in Nat \ {0}

\* The fields of an instruction index registers that exist.
WellFormed(i) ==
    /\ i \in Instruction
    /\ i.op \notin VectorOps => i.rd \in Gpr /\ i.ra \in Gpr /\ i.rb \in Gpr
    /\ i.op \in VectorOps => i.rd \in Vr
    /\ i.op \in {"LOAD_VR", "STORE_VR"} => i.ra \in Gpr
    /\ i.op \in {"VEC_ADD", "MATMUL_TILE"} => i.ra \in Vr /\ i.rb \in Vr

\* Every word decodes, and a zero word is a NOP.
ASSUME DecodeAssumption ==
    /\ DOMAIN Decode = Word
    /\ \A w \in Word : WellFormed(Decode[w])
    /\ Decode[0] = nop

\* No instruction costs a whole tick: at most 34 cycles against 1000 in the
\* code, the func field of a DMA having 11 bits.
ASSUME CostAssumption ==
    \A w \in Word, t \in Target : CostBound(t, Decode[w]) < CyclesPerTick
================================================================================
