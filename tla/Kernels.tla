---------------------------------- MODULE Kernels ----------------------------------
(***************************************************************************)
(* The vector kernels element by element: the loops of op_vec_add and      *)
(* op_matmul_tile (src/emulator.cpp), the host kernels that replace them   *)
(* (include/aiasm/host.h) and the FPGA co-emulator that may replace those  *)
(* (include/aiasm/fpga.h, src/fpga.cpp).                                   *)
(*                                                                         *)
(* Elements are residues in place of floats: the kernels add and multiply  *)
(* in one fixed order, so rounding tells none of them apart.  Module       *)
(* Machine has the effect of a kernel on the core in one step, with one    *)
(* word a register.                                                        *)
(***************************************************************************)
EXTENDS Integers, Sequences, FiniteSetsExt

CONSTANTS
    Registers,      \* vector registers
    Tile,           \* TILE_SIZE; a register has its square
    Chunks,         \* widths of the host's vectors, in elements
    Modulus,        \* number of elements
    Contents,       \* what registers may hold
    MaxCalls        \* bound of the model: kernels called

Element == 0 .. Modulus - 1
Lane == 0 .. Tile * Tile - 1

ASSUME KernelsAssumption ==
    /\ Tile \in Nat \ {0} /\ Modulus \in Nat \ {0} /\ MaxCalls \in Nat
    /\ Chunks \subseteq {w \in Nat \ {0} : (Tile * Tile) % w = 0}
    /\ Contents \subseteq [Lane -> Element]

Backend == {"None", "PCIe", "USB", "Simulated"}

VARIABLES
    vr,         \* the register file
    kernel,     \* << >>, or << the kernel being executed >>
    at,         \* next element of it
    before,     \* for the properties: vr when it was called
    fpga,       \* backend, connection and counters of the co-emulator
    calls       \* for the bound: kernels called

kernel_vars == <<vr, kernel, at, before, fpga, calls>>

--------------------------------------------------------------------------------
\* Kernels

Idle == kernel = << >>

Call(op, d, a, b, n, width) ==
    /\ Idle /\ calls < MaxCalls
    /\ kernel' = << [op |-> op, d |-> d, a |-> a, b |-> b, n |-> n, width |-> width] >>
    /\ at' = 0 /\ before' = vr /\ calls' = calls + 1

\* VEC_ADD in the plain loop (an element at a time) or with a host's vectors.
VecAdd(d, a, b, width) ==
    /\ Call("add", d, a, b, Tile, width)
    /\ UNCHANGED <<vr, fpga>>

\* MATMUL_TILE; both loops are the same.
MatmulTile(d, a, b, n) ==
    /\ Call("mul", d, a, b, n, 1)
    /\ UNCHANGED <<vr, fpga>>

\* d[i] = a[i] + b[i] for the elements of one vector.
AddChunk ==
    /\ ~Idle /\ kernel[1].op = "add" /\ at < Tile * Tile
    /\ LET k == kernel[1]
       IN  /\ vr' = [vr EXCEPT ![k.d] = [i \in Lane |-> IF i \in at .. at + k.width - 1
                                                         THEN (vr[k.a][i] + vr[k.b][i]) % Modulus
                                                         ELSE @[i]]]
           /\ at' = at + k.width
    /\ UNCHANGED <<kernel, before, fpga, calls>>

\* Row i of one matrix of size n times column j of another, up to term k.
Terms(x, y, n, i, j) ==
    LET sum[k \in 0 .. n] ==
            IF k = 0 THEN 0
            ELSE (sum[k - 1] + x[i * n + k - 1] * y[(k - 1) * n + j]) % Modulus
    IN  sum[n]

\* Mutant of Cell: the row length of the register, not of the tile.
Cell_FullRow(i, j, n) == i * Tile + j

\* The element (i, j) of a tile of size n.
Cell(i, j, n) == i * n + j

\* d[i * n + j] = sum, in the order of the two outer loops.
MulCell ==
    /\ ~Idle /\ kernel[1].op = "mul" /\ at < kernel[1].n * kernel[1].n
    /\ LET k == kernel[1]
           i == at \div k.n
           j == at % k.n
       IN  vr' = [vr EXCEPT ![k.d][Cell(i, j, k.n)] = Terms(vr[k.a], vr[k.b], k.n, i, j)]
    /\ at' = at + 1
    /\ UNCHANGED <<kernel, before, fpga, calls>>

Finished ==
    ~Idle /\ at >= IF kernel[1].op = "add" THEN Tile * Tile ELSE kernel[1].n * kernel[1].n

KernelDone ==
    /\ Finished
    /\ kernel' = << >> /\ at' = 0 /\ before' = vr
    /\ UNCHANGED <<vr, fpga, calls>>

--------------------------------------------------------------------------------
\* FPGA co-emulation

available == fpga.backend = "Simulated"

\* configure() keeps the connection.
ConfigureFpga(backend) ==
    /\ Idle
    /\ fpga' = [fpga EXCEPT !.backend = backend]
    /\ UNCHANGED <<vr, kernel, at, before, calls>>

Connect ==
    /\ Idle
    /\ available
    /\ fpga' = [fpga EXCEPT !.connected = TRUE]
    /\ UNCHANGED <<vr, kernel, at, before, calls>>

Disconnect ==
    /\ Idle
    /\ fpga' = [fpga EXCEPT !.connected = FALSE]
    /\ UNCHANGED <<vr, kernel, at, before, calls>>

Routed(f) ==
    IF f.connected /\ available THEN [f EXCEPT !.offloaded = @ + 1]
    ELSE [f EXCEPT !.fallback = @ + 1]

\* offload_matmul, and a caller that uses the host kernel when it answers false.
OffloadMatmul(d, a, b, n) ==
    /\ Call("mul", d, a, b, n, 1)
    /\ fpga' = Routed(fpga)
    /\ UNCHANGED vr

\* offload_dma, and a caller that copies when it answers false.
OffloadDma(d, a) ==
    /\ Idle /\ calls < MaxCalls
    /\ vr' = [vr EXCEPT ![d] = vr[a]] /\ before' = vr' /\ calls' = calls + 1
    /\ fpga' = Routed(fpga)
    /\ UNCHANGED <<kernel, at>>

--------------------------------------------------------------------------------
KernelInit ==
    /\ vr \in [Registers -> Contents]
    /\ kernel = << >> /\ at = 0 /\ before = vr
    /\ fpga = [backend |-> "None", connected |-> FALSE, offloaded |-> 0, fallback |-> 0]
    /\ calls = 0

KernelNext ==
    \/ \E d, a, b \in Registers, w \in Chunks : VecAdd(d, a, b, w)
    \/ \E d, a, b \in Registers, n \in 1 .. Tile :
          MatmulTile(d, a, b, n) \/ OffloadMatmul(d, a, b, n)
    \/ \E d, a \in Registers : OffloadDma(d, a)
    \/ AddChunk \/ MulCell \/ KernelDone
    \/ \E backend \in Backend : ConfigureFpga(backend)
    \/ Connect \/ Disconnect

KernelSpec == KernelInit /\ [][KernelNext]_kernel_vars

--------------------------------------------------------------------------------
\* Properties

\* Type invariant.
KernelTypeOK ==
    /\ vr \in [Registers -> [Lane -> Element]] /\ before \in [Registers -> [Lane -> Element]]
    /\ Len(kernel) <= 1 /\ at \in 0 .. Tile * Tile /\ calls \in 0 .. MaxCalls
    /\ fpga \in [backend : Backend, connected : BOOLEAN, offloaded : Nat, fallback : Nat]

\* An element of the matrix product, and the sum, of whole operands.
Product(x, y, n, i, j) ==
    MapThenSumSet(LAMBDA k : x[n * i + k] * y[n * k + j], 0 .. n - 1) % Modulus

Sum(x, y) == [i \in Lane |-> (x[i] + y[i]) % Modulus]

\* A finished kernel leaves the sum or the product of what its operands held when it
\* was called, in the first n * n elements of the destination and nowhere else,
\* whether the loop, a host's vectors or the co-emulator executed it: "VEC_ADD: vd =
\* va + vb", "MATMUL_TILE: vd = va * vb" (include/aiasm/isa.h:144 and 146).  The sum
\* may be written over an operand.  The product may not, except for n = 1: the loop of
\* src/emulator.cpp:572 then reads elements it has already replaced.
KernelExact ==
    Finished =>
        LET k == kernel[1]
        IN  /\ \A r \in Registers \ {k.d} : vr[r] = before[r]
            /\ k.op = "add" => vr[k.d] = Sum(before[k.a], before[k.b])
            /\ k.op = "mul" => \A l \in Lane : l >= k.n * k.n => vr[k.d][l] = before[k.d][l]
            /\ k.op = "mul" /\ (k.d \notin {k.a, k.b} \/ k.n = 1) =>
                  \A i, j \in 0 .. k.n - 1 :
                      vr[k.d][k.n * i + j] = Product(before[k.a], before[k.b], k.n, i, j)
================================================================================
