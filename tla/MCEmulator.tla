------------------------------ MODULE MCEmulator ------------------------------
(***************************************************************************)
(* Instances of Emulator for TLC: 32 words, 16 of them scratchpad, the     *)
(* timer at 24..27 and the UART at 28..30, one small program per question. *)
(***************************************************************************)
EXTENDS EmulatorRefinement

Ins(op, rd, ra, rb, imm) == [op |-> op, rd |-> rd, ra |-> ra, rb |-> rb, imm |-> imm]
None == Ins("NONE", 0, 0, 0, 0)

\* Words 0, 1, ... in order.
Table ==
    << nop,                               \* 0
       Ins("HALT", 0, 0, 0, 0),           \* 1
       Ins("JMP", 0, 0, 0, 1),            \* 2   jump to address 1
       Ins("MOVI", 1, 0, 0, 2),           \* 3   r1 = 2
       Ins("MOVI", 2, 0, 0, 1),           \* 4   r2 = 1
       Ins("SUB", 1, 1, 2, 0),            \* 5   r1 = r1 - r2
       Ins("BNE", 1, 0, 0, 30),           \* 6   back by 2 while r1 # 0
       Ins("MOVI", 1, 0, 0, 12),          \* 7   r1 = 12, a data address
       Ins("STORE", 1, 0, 0, 12),         \* 8   mem[12] = r1
       Ins("LOAD", 2, 0, 0, 12),          \* 9   r2 = mem[12]
       Ins("ADD", 2, 2, 2, 0),            \* 10  r2 = r2 + r2
       Ins("MUL", 2, 2, 1, 0),            \* 11  r2 = r2 * r1
       Ins("LOAD_VR", 0, 0, 0, 12),       \* 12  v0 = mem[12]
       Ins("VEC_ADD", 1, 0, 0, 0),        \* 13  v1 = v0 + v0
       Ins("MATMUL_TILE", 1, 0, 1, 2),    \* 14  v1 = v0 * v1
       Ins("STORE_VR", 1, 0, 0, 13),      \* 15  mem[13] = v1
       Ins("DMA_LOAD", 1, 0, 0, 2),       \* 16  mem[r1 ..] = ram[0 ..], 2 words
       Ins("DMA_STORE", 0, 1, 0, 2),      \* 17  ram[0 ..] = mem[r1 ..], 2 words
       None,                              \* 18
       Ins("MOV", 2, 1, 0, 0),            \* 19  r2 = r1
       Ins("BEQ", 1, 2, 0, 1),            \* 20  skip one when r1 = r2
       Ins("LOAD", 2, 0, 0, 20),          \* 21  unmapped address
       Ins("MATMUL_TILE", 1, 0, 1, 0),    \* 22  invalid tile size
       Ins("STORE", 2, 0, 0, 28),         \* 23  UART TX = r2
       Ins("LOAD_VR", 0, 0, 0, 20)        \* 24  unmapped address
    >>

MCDecode == [w \in 0 .. 31 |-> IF w < Len(Table) THEN Table[w + 1] ELSE None]

\* Without the tile multiplication, whose cost would force a long tick.
LightDecode ==
    [w \in 0 .. 31 |-> IF MCDecode[w].op = "MATMUL_TILE" THEN None ELSE MCDecode[w]]

MCMmio ==
    [a \in 24 .. 30 |->
        << <<"timer", "COUNT">>, <<"timer", "LIMIT">>, <<"timer", "CTRL">>, <<"timer", "IRQ">>,
           <<"uart", "TX">>, <<"uart", "RX">>, <<"uart", "STATUS">> >>[a - 23]]

\* Latency 2, bursts of 2 words, and room for 8 transactions.
WideAxi == [latency |-> 2, max_outstanding |-> 8, burst |-> 2]

\* Only the lower half of the scratchpad is executable and only the upper half
\* writable while the MMU is on; addresses from 16 on are not mapped.
MCPageMap ==
    [va \in 0 .. 31 |->
        [pa |-> IF va < 16 THEN va ELSE 0,
         perm |-> IF va < 8 THEN {"R", "X"} ELSE IF va < 16 THEN {"R", "W"} ELSE {}]]

\* A loop; every arithmetic and branch; every kernel and DMA; and ways to throw.
CountDown == <<3, 4, 5, 6, 1>>
Scalar == <<7, 8, 9, 10, 11, 19, 20, 0, 23, 1>>
Kernels == <<7, 16, 12, 13, 14, 15, 17, 1>>
Throws == <<0, 21, 24, 22, 1>>

StraightPrograms == {CountDown, Scalar, Kernels, Throws}
MCRam == {[a \in 0 .. 3 |-> a + 3]}

\* Spins at 1; the trap handler at 8 halts.
Spin == <<0, 2, 0, 0, 0, 0, 0, 0, 1>>
SpinPrograms == {Spin}
TimerPokes == {<<26, 1>>, <<25, 12>>, <<25, 5>>}
TimerMask == {{"MachineTimer"}}
AllMask == {{"MachineTimer", "MachineExternal", "MachineSoft"}}
DirectVector == {<<8, FALSE>>}
BothVectors == {<<6, FALSE>>, <<1, TRUE>>}

\* Every way into a trap; the handler at 6 halts, the one at 1 goes on.
TrapPrograms == {<<18, 9, 8, 21, 0, 0, 1>>, <<16, 17, 9, 0, 0, 0, 1>>}
TrapGprs == {<<1, 12>>}

\* Loads of every alignment to the tick.
LoadPrograms == {<<0, 0, 9, 9, 0, 9, 1>>}
================================================================================
