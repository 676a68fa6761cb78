-------------------------------- MODULE GuestCode --------------------------------
(***************************************************************************)
(* A guest program and what the translation engine makes of it, executed   *)
(* side by side: a reference hart that executes guest instructions, and a  *)
(* Novium core that executes the instructions each of them was lowered to. *)
(* The hart has registers of twice the core's width: the guests are        *)
(* RISCV64 and ARM64, and a Novium register holds 32 bits.  The core's     *)
(* handlers are those of module Machine; its program counter counts bytes  *)
(* here, as in the code, while data addresses count words.                 *)
(***************************************************************************)
EXTENDS Decoder

CONSTANT GuestPrograms   \* an instruction set and a sequence of its instructions

GuestReg == 0 .. 2 * NumGpr - 1

GuestInstruction ==
    [opcode : STRING, funct : STRING, rd : GuestReg, rs1 : GuestReg, rs2 : GuestReg, imm : Int]

ASSUME GuestAssumption ==
    /\ \A p \in GuestPrograms : p.isa \in {"RISCV64", "ARM64"} /\ p.code \in Seq(GuestInstruction)
    /\ MemSize < WordCount

VARIABLES
    isa,       \* its instruction set
    code,      \* the guest program
    hart,      \* the reference: index of the next instruction, registers and memory
    novium     \* the core that runs the translation

guest_vars == <<isa, code, hart, novium>>

--------------------------------------------------------------------------------
\* The reference: what the two instruction sets have in common, with word addresses
\* for data

\* Values of a guest register, twice as wide as a word (64 bits).
GuestCount == WordCount * WordCount
GuestWord == 0 .. GuestCount - 1

\* A word that LW extends into a guest register.
SignExtended(w) == IF Negative(w) THEN GuestCount - WordCount + w ELSE w

\* What Novium keeps of a guest value: the low half.
Low(v) == v % WordCount

Value(x, r) == IF r = 0 THEN 0 ELSE x[r]

Address(h, g) == (Value(h.x, g.rs1) + g.imm) % GuestCount

\* What the instruction writes to its destination.
Result(h, g) ==
    LET a == Value(h.x, g.rs1)
        b == Value(h.x, g.rs2)
    IN  CASE g.funct = "ADD"  -> (a + b) % GuestCount
          [] g.funct = "SUB"  -> (a - b) % GuestCount
          [] g.funct = "MUL"  -> (a * b) % GuestCount
          [] g.funct = "ADDI" -> (a + g.imm) % GuestCount
          [] g.funct = "MOVZ" -> g.imm
          [] g.funct = "LW"   -> SignExtended(h.mem[Address(h, g)])
          [] OTHER            -> Value(h.x, g.rd)

Taken(h, g) ==
    \/ g.opcode = "JAL"
    \/ g.funct = "BEQ" /\ Value(h.x, g.rs1) = Value(h.x, g.rs2)
    \/ g.funct = "BNE" /\ Value(h.x, g.rs1) # Value(h.x, g.rs2)

\* The hart after one instruction; a jump moves it by imm bytes.
Retire(h, g) ==
    [at |-> IF Taken(h, g) THEN h.at + g.imm \div 4 ELSE h.at + 1,
     x |-> [h.x EXCEPT ![g.rd] = Result(h, g)],
     mem |-> IF g.opcode # "STORE" THEN h.mem
             ELSE [h.mem EXCEPT ![Address(h, g)] = Low(Value(h.x, g.rs2))]]

--------------------------------------------------------------------------------
\* The translation

\* Where the translation of the k-th instruction begins, in bytes.
Start(k) == 4 * Len(translate_bytes(isa, SubSeq(code, 1, k - 1)))

\* execute() of one instruction, behind the fetch.
Executed(c, i) == Handled([c EXCEPT !.pc = Plus(@, 4)], i).m

\* The core after the instructions of s.
Ran(c, s) ==
    LET after[k \in 0 .. Len(s)] == IF k = 0 THEN c ELSE Executed(after[k - 1], s[k])
    IN  after[Len(s)]

GuestStart(p) ==
    /\ isa = p.isa /\ code = p.code
    /\ hart = [at |-> 1, x |-> [r \in GuestReg |-> 0], mem |-> [a \in Addr |-> a + 1]]
    /\ novium = [NewCore EXCEPT !.mem = hart.mem]

GuestInit == \E p \in GuestPrograms : GuestStart(p)

InStep == novium.pc = Start(hart.at)

\* Both execute the guest's next instruction.
GuestStep ==
    /\ hart.at \in DOMAIN code /\ InStep
    /\ hart' = Retire(hart, code[hart.at])
    /\ novium' = Ran(novium, translate_one(isa, code[hart.at]))
    /\ UNCHANGED <<isa, code>>

GuestSpec == GuestInit /\ [][GuestStep]_guest_vars

--------------------------------------------------------------------------------
\* Properties

\* The translation computes what the guest program does, modulo the width: after every
\* guest instruction each register of the core holds the low half of the guest's, the
\* temporary apart, the memories agree, and the core is at the translation of the
\* hart's next instruction, for programs of the registers below the temporary that do
\* not jump, add no negative immediate and compare no two values that differ in the
\* upper half alone (translate_one_riscv, translate_one_arm64, op_movi, op_load,
\* op_store).
GuestSimulated ==
    /\ \A r \in 1 .. Temp - 1 : novium.gpr[r] = Low(Value(hart.x, r))
    /\ novium.mem = hart.mem
    /\ InStep

\* A taken branch leads the core to the translation of the instruction it leads the
\* guest to: "guest PC is byte addr, Novium offset is words" (src/decoder.cpp:115),
\* while op_beq and op_bne add the offset to the byte address in pc.
BranchesLand == InStep
================================================================================
