------------------------------- MODULE MCToolchain -------------------------------
(***************************************************************************)
(* Instances of GuestCode and Driver for TLC.  They share nothing but the  *)
(* constants: a behaviour is one of the driver's, or one of a guest        *)
(* program next to its translation, as side says.                          *)
(***************************************************************************)
EXTENDS GuestCode, Driver

VARIABLE side

WideAxi == [latency |-> 2, max_outstanding |-> 64, burst |-> 2]
NoMmio == << >>
MCDecode == [w \in 0 .. 63 |-> nop]
MCPageMap == [va \in 0 .. 63 |-> [pa |-> 0, perm |-> {"R", "W"}]]

--------------------------------------------------------------------------------
Rv(opcode, funct, rd, rs1, rs2, imm) ==
    [opcode |-> opcode, funct |-> funct, rd |-> rd, rs1 |-> rs1, rs2 |-> rs2, imm |-> imm]

\* Straight-line code on x0..x14, with branches that are not taken, loads and stores
\* of both signs and an instruction the engine does not know.
Straight ==
    { Rv("OP_IMM", "ADDI", 1, 0, 0, 3), Rv("OP_IMM", "ADDI", 2, 1, 0, 1),
      Rv("OP_IMM", "ADDI", 0, 1, 0, 2),
      Rv("OP", "ADD", 2, 1, 2, 0), Rv("OP", "SUB", 14, 2, 1, 0), Rv("OP", "MUL", 1, 1, 2, 0),
      Rv("LOAD", "LW", 2, 0, 0, 4), Rv("LOAD", "LW", 1, 1, 0, -1),
      Rv("STORE", "SW", 0, 0, 1, 5), Rv("STORE", "SW", 0, 1, 2, -2),
      Rv("BRANCH", "BNE", 0, 1, 1, 8), Rv("OTHER", "FENCE", 0, 0, 0, 0) }

\* An address off the memory ends the program in both.
InMemory(p) ==
    /\ \A k \in DOMAIN p : p[k].opcode \in {"LOAD", "STORE"} /\ p[k].rs1 # 0 =>
          /\ k > 1 /\ p[k - 1] = Rv("OP_IMM", "ADDI", 1, 0, 0, 3)

Riscv(p) == [isa |-> "RISCV64", code |-> p]

\* ADD, SUB and MOVZ on x1..x14, and an instruction the engine does not know.
Arm ==
    { Rv("ARM", "MOVZ", 1, 0, 0, 3), Rv("ARM", "MOVZ", 2, 0, 0, 31), Rv("ARM", "ADD", 14, 1, 2, 0),
      Rv("ARM", "SUB", 1, 2, 14, 0), Rv("ARM", "RBIT", 0, 0, 0, 0) }

\* Values that need the upper half of a guest register: x14 is -3 behind the first two
\* instructions, and is multiplied, added to, stored, used as an address and compared.
Wide ==
    { Rv("OP", "MUL", 2, 14, 14, 0), Rv("OP", "ADD", 2, 14, 1, 0), Rv("OP", "SUB", 2, 1, 14, 0),
      Rv("OP_IMM", "ADDI", 2, 14, 0, 4), Rv("STORE", "SW", 0, 14, 14, 5),
      Rv("LOAD", "LW", 2, 14, 0, 5), Rv("BRANCH", "BEQ", 0, 14, 1, 8) }

\* What LW extends is equal to what SW stored.
StoreAndCompare ==
    << Rv("STORE", "SW", 0, 14, 14, 5), Rv("LOAD", "LW", 1, 14, 0, 5),
       Rv("BRANCH", "BNE", 0, 14, 1, 8) >>

WidePrograms ==
    {Riscv(<< Rv("OP_IMM", "ADDI", 1, 0, 0, 3), Rv("OP", "SUB", 14, 0, 1, 0) >> \o p) :
        p \in [1 .. 3 -> Wide] \cup {StoreAndCompare}}

StraightPrograms ==
    {Riscv(p) : p \in {q \in [1 .. 3 -> Straight] : InMemory(q)}}
        \cup {Riscv(<< Rv("OP_IMM", "ADDI", 1, 0, 0, 3) >> \o p) :
                 p \in {q \in [1 .. 3 -> Straight] : InMemory(q)}}
        \cup {[isa |-> "ARM64", code |-> p] : p \in [1 .. 4 -> Arm]}
        \cup WidePrograms

\* A loop that counts to two.
LoopPrograms ==
    { Riscv(<< Rv("OP_IMM", "ADDI", 2, 0, 0, 2), Rv("OP_IMM", "ADDI", 1, 1, 0, 1),
               Rv("BRANCH", "BNE", 0, 1, 2, -4) >>) }

--------------------------------------------------------------------------------
Notes == {"vec_add", "matmul", "dma_load", "dma_store", "halt", "movi"}

\* Up to four annotations in any order, and ten that fill more than a line.
NoteLists ==
    UNION {[1 .. n -> Notes] : n \in 0 .. 4} \cup {[k \in 1 .. 10 |-> n] : n \in Notes}

Source(kind, notes, kernel) == [kind |-> kind, notes |-> notes, kernel |-> kernel]

\* The operand list of the assembly is the part the parser reads.
Asm(mn, args) == [mn |-> mn, args |-> args]

AsmLines ==
    { Asm("nop", << >>), Asm("vec_add", <<2, 0, 1>>), Asm("vec_add", << >>),
      Asm("matmul", << >>), Asm("halt", << >>) }

AsmSources ==
    {[kind |-> "GuestAsm", lines |-> ls] : ls \in UNION {[1 .. n -> AsmLines] : n \in 0 .. 2}}

MCSources ==
    {Source("Cpp", ns, TRUE) : ns \in NoteLists}
        \cup {Source("Chisel", ns, FALSE) : ns \in NoteLists}
        \cup {Source("Cpp", << >>, FALSE), Source("SystemVerilog", <<"halt">>, FALSE),
              Source("SystemVerilog", << >>, FALSE), Source("Unknown", << >>, FALSE)}
        \cup AsmSources

MoviSources == {[kind |-> "GuestAsm", lines |-> << Asm("movi", <<1, 5>>), Asm("halt", << >>) >>]}

--------------------------------------------------------------------------------
Init ==
    /\ DriverInit
    /\ \/ side = "guest" /\ GuestInit
       \/ side = "driver" /\ GuestStart(Riscv(<< >>))

Next ==
    \/ side = "guest" /\ GuestStep /\ UNCHANGED <<side, driver_vars>>
    \/ side = "driver" /\ DriverNext /\ UNCHANGED <<side, guest_vars>>

vars == <<side, guest_vars, driver_vars>>

Spec ==
    Init /\ [][Next]_vars /\ WF_vars(side = "driver" /\ Executing /\ UNCHANGED <<side, guest_vars>>)
================================================================================
