------------------------------- MODULE MCCluster -------------------------------
(***************************************************************************)
(* Instances of Cluster for TLC: two cores of 16 words whose addresses 12  *)
(* to 14 are the shared window, and the litmus programs they run.          *)
(***************************************************************************)
EXTENDS Cluster

Ins(op, rd, ra, rb, imm) == [op |-> op, rd |-> rd, ra |-> ra, rb |-> rb, imm |-> imm]

\* Words 0, 1, ... in order.
Table ==
    << nop,                               \* 0
       Ins("HALT", 0, 0, 0, 0),           \* 1
       Ins("MOVI", 1, 0, 0, 5),           \* 2   r1 = 5
       Ins("STORE", 1, 0, 0, 12),         \* 3   data = r1
       Ins("MOVI", 2, 0, 0, 1),           \* 4   r2 = 1
       Ins("STORE", 2, 0, 0, 13),         \* 5   flag = r2
       Ins("LOAD", 2, 0, 0, 13),          \* 6   r2 = flag
       Ins("BEQ", 2, 0, 0, 30),           \* 7   back by 2 while r2 = 0
       Ins("LOAD", 1, 0, 0, 12),          \* 8   r1 = data
       Ins("STORE", 2, 0, 0, 14),         \* 9   ack = r2
       Ins("LOAD", 2, 0, 0, 14),          \* 10  r2 = ack
       Ins("JMP", 0, 0, 0, 0)             \* 11  jump to address 0
    >>

MCDecode ==
    [w \in 0 .. 31 |-> IF w < Len(Table) THEN Table[w + 1] ELSE Ins("NONE", 0, 0, 0, 0)]

MCAxi == [latency |-> 2, max_outstanding |-> 1, burst |-> 1]
NoMmio == [a \in {} |-> <<"uart", "TX">>]
MCPageMap == [va \in 0 .. 31 |-> [pa |-> 0, perm |-> {}]]
MCWindow == 12 .. 14
MCVectors == {<<1, 6>>}

\* Publishes data, raises the flag and waits for the answer.
Producer == <<2, 3, 4, 5, 10, 7, 1>>

\* Waits for the flag, reads the data and answers; the trap handler is at 6.
Consumer == <<6, 7, 8, 9, 1, 1, 1>>

\* Spins; a handler at 6 halts.
Spin == <<0, 11, 0, 0, 0, 0, 1>>

\* Producer and consumer whichever way round, and two cores that spin.
MCWorkloads ==
    {[c \in Core |-> IF c = 0 THEN Producer ELSE Consumer],
     [c \in Core |-> IF c = 0 THEN Consumer ELSE Producer],
     [c \in Core |-> Spin]}

Holds(c, p) == \A a \in 0 .. Len(p) - 1 : cores[c].mem[a] = p[a + 1]

\* One core has the producer and the other the consumer.
LitmusLoaded == \E c \in Core : Holds(c, Producer) /\ Holds(1 - c, Consumer)

\* Two guests that wait for each other's stores finish in time: while one of them is
\* running neither has used MaxCycles, however the host divides the time between
\* run(), with whichever limits, and step_all() (Cluster::run switches cores while
\* they spin, and the window the constructor adds shows a store to the other core).
HandshakeInTime ==
    /\ LitmusLoaded /\ ~all_halted
    /\ happened \subseteq {"run", "step_all"}
    /\ \A c \in Core : cores[c].mip = {}
    => WithinBounds

\* Message passing through the window, under every method and interrupted by any
\* of the host's calls: a consumer that has left its loop on the flag and made its
\* next load has the data that was stored before the flag.
DataBeforeFlag ==
    \A c \in Core :
        /\ Holds(c, Consumer) /\ Holds(1 - c, Producer) /\ cores[c].pc \in 3 .. 5
        => cores[c].gpr[1] = 5
================================================================================
