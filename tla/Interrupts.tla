------------------------------- MODULE Interrupts -------------------------------
(***************************************************************************)
(* The CSR file and the methods of the interrupt and trap controller       *)
(* (include/aiasm/csr.h, include/aiasm/interrupt.h, src/interrupt.cpp) on  *)
(* records.  MSTATUS is kept as its fields MIE, MPIE, MPP, SIE, SPIE, SPP; *)
(* MTVEC as its base (a word address) and its mode bit; the CSR MIE is the *)
(* set ie of enabled lines.  The statistics trap_count_ and external_id_,  *)
(* which nothing reads, are left out.                                      *)
(***************************************************************************)
EXTENDS Isa

Priv == {"U", "S", "M"}

\* The interrupt lines, each named by the TrapCause it is delivered as.
Line == {"MachineExternal", "MachineTimer", "MachineSoft",
         "SupervisorExternal", "SupervisorTimer", "SupervisorSoft"}

Exception == {"IllegalInst", "Breakpoint", "EnvCallU", "EnvCallS", "EnvCallM",
              "InstPageFault", "LoadPageFault", "StorePageFault"}

\* "None" is MCAUSE after reset.
Cause == Line \cup Exception \cup {"None"}

Trap == [cause : Line \cup Exception, tval : Word, pc : Word]

Csr == [mie : BOOLEAN, mpie : BOOLEAN, mpp : Priv,
        sie : BOOLEAN, spie : BOOLEAN, spp : {"U", "S"},
        ie : SUBSET Line, mtvec : Word, vectored : BOOLEAN,
        mepc : Word, sepc : Word, mcause : Cause, mtval : Word, priv : Priv]

\* CSRFile::reset.
ResetCsr == [mie |-> FALSE, mpie |-> FALSE, mpp |-> "U",
             sie |-> FALSE, spie |-> FALSE, spp |-> "U",
             ie |-> {}, mtvec |-> 0, vectored |-> FALSE,
             mepc |-> 0, sepc |-> 0, mcause |-> "None", mtval |-> 0, priv |-> "M"]

\* CSR_MTVEC reads as non-zero.
MtvecSet(csr) == csr.mtvec # 0 \/ csr.vectored

interrupt_pending(csr, mip) == csr.mie /\ mip \cap csr.ie # {}

\* The line pending_interrupt picks; SupervisorSoft has no case of its own
\* and is never picked.
Picked(lines) ==
    IF "MachineExternal" \in lines THEN "MachineExternal"
    ELSE IF "MachineTimer" \in lines THEN "MachineTimer"
    ELSE IF "MachineSoft" \in lines THEN "MachineSoft"
    ELSE IF "SupervisorExternal" \in lines THEN "SupervisorExternal"
    ELSE "SupervisorTimer"

\* Mutant of HasInterrupt: the machine software line has no case either.
HasInterrupt_NoSoft(csr, mip) ==
    interrupt_pending(csr, mip) /\ ~(mip \cap csr.ie \subseteq {"SupervisorSoft", "MachineSoft"})

\* pending_interrupt() returns a trap.
HasInterrupt(csr, mip) ==
    interrupt_pending(csr, mip) /\ mip \cap csr.ie # {"SupervisorSoft"}

\* The trap it returns: its pc and tval members are both 0.
pending_interrupt(csr, mip) ==
    [cause |-> Picked(mip \cap csr.ie), tval |-> 0, pc |-> 0]

\* The cause code of a line, by which a vectored handler is found.
VectorIndex(line) ==
    CASE line = "MachineExternal"    -> 11
      [] line = "MachineTimer"       -> 7
      [] line = "MachineSoft"        -> 3
      [] line = "SupervisorExternal" -> 9
      [] line = "SupervisorTimer"    -> 5
      [] OTHER                       -> 1

\* Mutants of take_trap: MIE is left set, or the mask clears only the low one of the
\* two bits of MPP before the privilege is put in (U is 0, S is 1, M is 3, 2 is reserved).
take_trap_KeepMie(csr, t) ==
    [csr EXCEPT !.mepc = t.pc, !.mcause = t.cause, !.mtval = t.tval,
                !.mpie = csr.mie, !.mpp = csr.priv, !.priv = "M"]

take_trap_HalfMask(csr, t) ==
    [csr EXCEPT !.mepc = t.pc, !.mcause = t.cause, !.mtval = t.tval,
                !.mpie = csr.mie, !.mie = FALSE, !.priv = "M",
                !.mpp = CASE csr.mpp # "M"  -> csr.priv
                          [] csr.priv = "U" -> "Reserved"
                          [] OTHER          -> "M"]

take_trap(csr, t) ==
    [csr EXCEPT !.mepc = t.pc, !.mcause = t.cause, !.mtval = t.tval,
                !.mpie = csr.mie, !.mie = FALSE, !.mpp = csr.priv, !.priv = "M"]

ecall_trap(csr, pc) ==
    [cause |-> CASE csr.priv = "U" -> "EnvCallU"
                 [] csr.priv = "S" -> "EnvCallS"
                 [] OTHER          -> "EnvCallM",
     tval |-> 0, pc |-> pc]

ebreak_trap(pc) == [cause |-> "Breakpoint", tval |-> 0, pc |-> pc]

page_fault_trap(pc, va, is_store) ==
    [cause |-> IF is_store THEN "StorePageFault" ELSE "LoadPageFault", tval |-> va, pc |-> pc]

illegal_inst_trap(pc, inst) == [cause |-> "IllegalInst", tval |-> inst, pc |-> pc]

\* Mutants of mret: MIE stays clear, or MPP is left set.
mret_Masked(csr) == [csr EXCEPT !.mie = FALSE, !.mpie = FALSE, !.mpp = "U", !.priv = csr.mpp]

mret_KeepsMpp(csr) == [csr EXCEPT !.mie = csr.mpie, !.mpie = FALSE, !.priv = csr.mpp]

\* mret() returns csr.mepc and leaves this CSR file.
mret(csr) ==
    [csr EXCEPT !.mie = csr.mpie, !.mpie = FALSE, !.mpp = "U", !.priv = csr.mpp]

\* sret() returns csr.sepc and leaves this CSR file.
sret(csr) ==
    [csr EXCEPT !.sie = csr.spie, !.spie = FALSE, !.spp = "U", !.priv = csr.spp]
================================================================================
