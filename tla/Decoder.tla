--------------------------------- MODULE Decoder ---------------------------------
(***************************************************************************)
(* The translation engine (include/aiasm/decoder.h, src/decoder.cpp) and   *)
(* the encoders it emits with (namespace enc of include/aiasm/isa.h): from *)
(* RISC-V and ARM64 words and PTX lines to Novium instructions.            *)
(*                                                                         *)
(* A guest word is the record of the fields the engine looks at, and a     *)
(* Novium word the record that decoding it would give: encoding masks a    *)
(* field to its width, decoding extends it.                                *)
(***************************************************************************)
EXTENDS Machine, SequencesExt

CONSTANTS
    ImmCount,      \* values of the imm16 field (2^16)
    TargetCount    \* values of the jump target field (2^26)

ASSUME DecoderAssumption ==
    /\ ImmCount \in Nat \ {0} /\ ImmCount % 2 = 0 /\ TargetCount \in Nat \ {0}
    /\ ImmCount <= WordCount /\ TargetCount <= WordCount

\* rd & 0xF: the engine folds the guest's 32 registers onto 16.
Folded(r) == r % NumGpr

\* The register ADDI is lowered through (r15).
Temp == NumGpr - 1

--------------------------------------------------------------------------------
\* Encoders

rtype(op, rd, ra, rb, func) == [op |-> op, rd |-> rd, ra |-> ra, rb |-> rb, imm |-> func]
make(op) == rtype(op, 0, 0, 0, 0)

\* The 16-bit field read back unsigned (imm16) and signed (simm16, offset).
imm16(n) == n % ImmCount
simm16(n) == IF 2 * imm16(n) >= ImmCount THEN Minus(imm16(n), ImmCount) ELSE imm16(n)

jmp(target) == rtype("JMP", 0, 0, 0, target % TargetCount)
beq(rs, rt, off) == rtype("BEQ", rs, rt, 0, simm16(off))
bne(rs, rt, off) == rtype("BNE", rs, rt, 0, simm16(off))
movi(rd, imm) == rtype("MOVI", rd, 0, 0, imm16(imm))
load(rd, ra, imm) == rtype("LOAD", rd, ra, 0, simm16(imm))

\* Mutant of store: the data and the base register exchanged.
store_Swapped(rs, ra, imm) == rtype("STORE", ra, rs, 0, simm16(imm))

store(rs, ra, imm) == rtype("STORE", rs, ra, 0, simm16(imm))
load_vr(vr, ra, imm) == rtype("LOAD_VR", vr, ra, 0, simm16(imm))
store_vr(vr, ra, imm) == rtype("STORE_VR", vr, ra, 0, simm16(imm))
add(rd, ra, rb) == rtype("ADD", rd, ra, rb, 0)
sub(rd, ra, rb) == rtype("SUB", rd, ra, rb, 0)
mul(rd, ra, rb) == rtype("MUL", rd, ra, rb, 0)
vec_add(vd, va, vb) == rtype("VEC_ADD", vd, va, vb, 0)
matmul_tile(vd, va, vb, n) == rtype("MATMUL_TILE", vd, va, vb, n)
dma_load(rd, ra, n) == rtype("DMA_LOAD", rd, ra, 0, n)
dma_store(rd, ra, n) == rtype("DMA_STORE", rd, ra, 0, n)

--------------------------------------------------------------------------------
\* RISC-V.  opcode is the low seven bits, funct what funct3 and funct7 select, imm the
\* sign-extended immediate of the format, in bytes for BRANCH and JAL.

\* Division of int by int truncates.
Quarter(n) == IF n >= 0 THEN n \div 4 ELSE -((-n) \div 4)

\* (imm - 4) / 4.
branch_offset(imm) == Quarter(imm - 4)

\* The instructions one word is lowered to; << >> where the code answers false.
\* OP_IMM, LOAD and STORE are taken without a look at funct3.
translate_one_riscv(g) ==
    LET rd == Folded(g.rd)  rs1 == Folded(g.rs1)  rs2 == Folded(g.rs2)
    IN  CASE g.opcode = "OP" /\ g.funct = "ADD"     -> << add(rd, rs1, rs2) >>
          [] g.opcode = "OP" /\ g.funct = "SUB"     -> << sub(rd, rs1, rs2) >>
          [] g.opcode = "OP" /\ g.funct = "MUL"     -> << mul(rd, rs1, rs2) >>
          [] g.opcode = "OP_IMM"                    -> << movi(Temp, g.imm), add(rd, rs1, Temp) >>
          [] g.opcode = "LOAD"                      -> << load(rd, rs1, g.imm) >>
          [] g.opcode = "STORE"                     -> << store(rs2, rs1, g.imm) >>
          [] g.opcode = "BRANCH" /\ g.funct = "BEQ" -> << beq(rs1, rs2, branch_offset(g.imm)) >>
          [] g.opcode = "BRANCH" /\ g.funct = "BNE" -> << bne(rs1, rs2, branch_offset(g.imm)) >>
          [] g.opcode = "JAL"                       -> << jmp(g.imm) >>
          [] OTHER                                  -> << >>

\* ARM64.  rs1 and rs2 are the fields Rn and Rm.  The masks of ADD and SUB also take
\* AND and EOR; imm of B and LDR counts instructions and doublewords.
translate_one_arm64(g) ==
    LET rd == Folded(g.rd)  rn == Folded(g.rs1)  rm == Folded(g.rs2)
    IN  CASE g.funct \in {"ADD", "AND"} -> << add(rd, rn, rm) >>
          [] g.funct \in {"SUB", "EOR"} -> << sub(rd, rn, rm) >>
          [] g.funct = "MOVZ"           -> << movi(rd, g.imm) >>
          [] g.funct = "B"              -> << jmp(4 * g.imm) >>
          [] g.funct = "LDR"            -> << load(rd, rn, 8 * g.imm) >>
          [] g.funct = "FADD"           -> << vec_add(g.rd % NumVr, g.rs1 % NumVr, g.rs2 % NumVr) >>
          [] OTHER                      -> << >>

\* PTX.  A line is its first mnemonic; the operands are not read.
translate_one_ptx(line) ==
    CASE line = "add"             -> << vec_add(2, 0, 1) >>
      [] line \in {"fma", "mma"}  -> << matmul_tile(3, 0, 1, 4) >>
      [] line = "ld"              -> << load_vr(0, 5, 0) >>
      [] line = "st"              -> << store_vr(3, 5, 0) >>
      [] line = "mov"             -> << movi(1, 1) >>
      [] line \in {"ret", "exit"} -> << make("HALT") >>
      [] OTHER                    -> << >>

--------------------------------------------------------------------------------
\* translate_bytes

\* A program that does not end with HALT gets one.
Terminated(program) ==
    IF program # << >> /\ Last(program).op = "HALT" THEN program ELSE Append(program, make("HALT"))

\* An untranslatable word of a binary instruction set becomes a NOP.
translate_one(isa, g) ==
    LET lowered == IF isa = "ARM64" THEN translate_one_arm64(g) ELSE translate_one_riscv(g)
    IN  IF lowered = << >> THEN << nop >> ELSE lowered

translate_bytes(isa, code) ==
    CASE isa \in {"RISCV64", "ARM64"} ->
              FlattenSeq([k \in DOMAIN code |-> translate_one(isa, code[k])])
      [] isa = "PTX" -> Terminated(FlattenSeq([k \in DOMAIN code |-> translate_one_ptx(code[k])]))
      [] OTHER       -> code
================================================================================
