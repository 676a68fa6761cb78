----------------------------- MODULE TrapController -----------------------------
(***************************************************************************)
(* The protocol of the interrupt and trap controller                       *)
(* (include/aiasm/interrupt.h, src/interrupt.cpp) as trap handlers use it: *)
(* lines are raised and cleared, traps are entered and left, nested or     *)
(* not, and software writes the CSRs in between.  The methods are those of *)
(* module Interrupts.  The pc is the caller's: it jumps to MTVEC on entry  *)
(* and to the address mret() and sret() return.  No method asks for a      *)
(* privilege, nor does CSRFile::write, so every action may be taken at     *)
(* every level.                                                            *)
(***************************************************************************)
EXTENDS Interrupts, Sequences

CONSTANTS
    Lines,       \* lines that devices and set_mip drive
    Masks,       \* values written to the CSR MIE
    Vector,      \* MTVEC
    Places,      \* addresses the interrupted program runs at
    MaxDepth     \* bound of the model: nested traps

ASSUME TrapAssumption ==
    /\ Lines \subseteq Line /\ Masks \subseteq SUBSET Line
    /\ Vector \in Word /\ Places \subseteq Word /\ MaxDepth \in Nat

VARIABLES
    csr, mip,    \* the CSR file and mip_
    pc,          \* of the caller
    \* For the properties:
    stack,       \* contexts interrupted and not returned to, outermost first
    opened,      \* software set MSTATUS.MIE inside the outermost handler
    clobbered,   \* a nested trap, or software, overwrote what the handler returns by
    granted      \* privileges put on record for mret and sret, "U" once it was used

vars == <<csr, mip, pc, stack, opened, clobbered, granted>>

Granted == [mret : Priv, sret : {"U", "S"}]
Ungranted == [mret |-> "U", sret |-> "U"]

Context == [mie : BOOLEAN, priv : Priv, pc : Word, exact : BOOLEAN]

Init ==
    /\ csr = [ResetCsr EXCEPT !.mtvec = Vector]
    /\ mip = {} /\ pc \in Places
    /\ stack = << >> /\ opened = FALSE /\ clobbered = FALSE /\ granted = Ungranted

--------------------------------------------------------------------------------
\* Lines

\* raise_timer, raise_external, raise_soft, and set_mip.
Raise(l) == mip' = mip \cup {l} /\ UNCHANGED <<csr, pc, stack, opened, clobbered, granted>>
Clear(l) == mip' = mip \ {l} /\ UNCHANGED <<csr, pc, stack, opened, clobbered, granted>>

\* Software, with CSRFile::write

WriteMie(mask) ==
    /\ csr' = [csr EXCEPT !.ie = mask]
    /\ UNCHANGED <<mip, pc, stack, opened, clobbered, granted>>

WriteMstatusMie(b) ==
    /\ csr' = [csr EXCEPT !.mie = b]
    /\ opened' = (opened \/ (stack # << >> /\ b))
    /\ UNCHANGED <<mip, pc, stack, clobbered, granted>>

\* How a program is given its privilege and the address it starts at.
WriteReturn(p, a) ==
    /\ csr' = [csr EXCEPT !.mpp = p, !.mepc = a]
    /\ clobbered' = (stack # << >>)
    /\ granted' = [granted EXCEPT !.mret = p]
    /\ UNCHANGED <<mip, pc, stack, opened>>

WriteSret(p, a, b) ==
    /\ csr' = [csr EXCEPT !.spp = p, !.sepc = a, !.spie = b]
    /\ granted' = [granted EXCEPT !.sret = p]
    /\ UNCHANGED <<mip, pc, stack, opened, clobbered>>

\* The program goes on.
Move(a) == pc' = a /\ UNCHANGED <<csr, mip, stack, opened, clobbered, granted>>

--------------------------------------------------------------------------------
\* Traps

\* Entry into a handler; exact: the trap records the address it interrupted.
Enter(t, exact) ==
    /\ Len(stack) < MaxDepth
    /\ csr' = take_trap(csr, t)
    /\ pc' = csr.mtvec
    /\ stack' = Append(stack, [mie |-> csr.mie, priv |-> csr.priv, pc |-> pc, exact |-> exact])
    /\ opened' = (opened /\ stack # << >>)
    /\ clobbered' = (stack # << >>)
    /\ granted' = [granted EXCEPT !.mret = csr.priv]
    /\ UNCHANGED mip

TakeInterrupt == HasInterrupt(csr, mip) /\ Enter(pending_interrupt(csr, mip), FALSE)
Ecall == Enter(ecall_trap(csr, pc), TRUE)
Ebreak == Enter(ebreak_trap(pc), TRUE)
FaultingAccess(va, is_store) == Enter(page_fault_trap(pc, va, is_store), TRUE)
IllegalInstruction(w) == Enter(illegal_inst_trap(pc, w), TRUE)

\* What the properties remember of the handlers after a return.
Left ==
    /\ stack' = IF stack = << >> THEN stack ELSE SubSeq(stack, 1, Len(stack) - 1)
    /\ opened' = (opened /\ Len(stack) > 1)
    /\ clobbered' = (clobbered /\ Len(stack) > 1)

Mret ==
    /\ csr' = mret(csr) /\ pc' = csr.mepc
    /\ Left
    /\ granted' = [granted EXCEPT !.mret = "U"]
    /\ UNCHANGED mip

\* sret() leaves MIE, MPIE, MPP and MEPC to the handlers of machine mode.
Sret ==
    /\ csr' = sret(csr) /\ pc' = csr.sepc
    /\ granted' = [granted EXCEPT !.sret = "U"]
    /\ UNCHANGED <<mip, stack, opened, clobbered>>

\* CSRFile::reset and InterruptController::reset; the vector is then set again.
Reset ==
    /\ csr' = [ResetCsr EXCEPT !.mtvec = Vector] /\ mip' = {}
    /\ stack' = << >> /\ opened' = FALSE /\ clobbered' = FALSE /\ granted' = Ungranted
    /\ UNCHANGED pc

Next ==
    \/ \E l \in Lines : Raise(l) \/ Clear(l)
    \/ \E mask \in Masks : WriteMie(mask)
    \/ \E b \in BOOLEAN : WriteMstatusMie(b)
    \/ \E p \in Priv, a \in Places : WriteReturn(p, a)
    \/ \E p \in {"U", "S"}, a \in Places, b \in BOOLEAN : WriteSret(p, a, b)
    \/ \E a \in Places : Move(a)
    \/ TakeInterrupt \/ Ecall \/ Ebreak
    \/ \E va \in Places, is_store \in BOOLEAN : FaultingAccess(va, is_store)
    \/ \E w \in Places : IllegalInstruction(w)
    \/ Mret \/ Sret \/ Reset

Spec == Init /\ [][Next]_vars

--------------------------------------------------------------------------------
\* Properties

\* Type invariant.
TypeOK ==
    /\ csr \in Csr /\ mip \subseteq Line /\ pc \in Word
    /\ stack \in Seq(Context) /\ opened \in BOOLEAN /\ clobbered \in BOOLEAN
    /\ granted \in Granted

\* A handler is not interrupted: from the entry of the outermost trap to its return
\* interrupts stay masked unless software opens them, through exceptions the handler
\* itself takes and returns from (take_trap and mret, MIE and MPIE).
MaskedInHandler == stack # << >> /\ ~opened => ~csr.mie

\* A round trip restores the interrupted context: the mret() of a handler that took
\* no nested trap gives back the interrupt enable and the privilege the trap found,
\* and for an exception the address it came from.
RoundTrip ==
    [][Mret /\ Len(stack) = 1 /\ ~clobbered =>
         /\ csr'.mie = stack[1].mie /\ csr'.priv = stack[1].priv
         /\ stack[1].exact => pc' = stack[1].pc]_vars

\* Privilege p is above q.
Above(p, q) == (q = "U" /\ p # "U") \/ (q = "S" /\ p = "M")

\* The privilege never rises by itself.  mret() and sret() check nothing, so what keeps
\* a program low is that the levels they return to are used up by one return: unless
\* the controller is reset, every rise is the entry into the trap vector, with the
\* level left behind on record, or a return to the level that the last trap or the
\* last write of software put on record and that no return has used (take_trap, mret,
\* sret).
RaisedByRecord ==
    [][Above(csr'.priv, csr.priv) /\ ~Reset =>
         \/ pc' = Vector /\ csr'.priv = "M" /\ csr'.mpp = csr.priv
         \/ Mret /\ csr'.priv = granted.mret
         \/ Sret /\ csr'.priv = granted.sret]_vars
================================================================================
