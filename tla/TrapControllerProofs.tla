-------------------------- MODULE TrapControllerProofs --------------------------
(***************************************************************************)
(* The trap protocol, proved for all sets of lines, masks and addresses    *)
(* and for handlers nested to any depth.                                   *)
(*                                                                         *)
(* MaskedInHandler is not inductive: an mret() moves MPIE into MIE, so     *)
(* what masks the outer handler after a nested one returned is that the    *)
(* nested trap saved a clear MIE.  RoundTrip likewise needs to know what   *)
(* the CSRs hold between the entry of the outermost trap and its return,   *)
(* and RaisedByRecord that MPP and SPP hold what was granted, through      *)
(* every nesting, and that nothing moves MTVEC.                            *)
(***************************************************************************)
EXTENDS TrapController, SequenceTheorems, TLAPS

\* Nested handlers return into masked ones: inside a nested trap MPIE is clear
\* as long as software opened nothing.
NestedMasked == Len(stack) > 1 /\ ~opened => ~csr.mpie

\* Between the outermost trap and its return, when nothing overwrote them, MPIE, MPP
\* and for an exception MEPC are the context the trap interrupted (take_trap).
ContextSaved ==
    /\ Len(stack) > 1 => clobbered
    /\ Len(stack) = 1 /\ ~clobbered =>
         /\ csr.mpie = stack[1].mie /\ csr.mpp = stack[1].priv
         /\ stack[1].exact => csr.mepc = stack[1].pc

\* Software leaves MTVEC where it put it.
VectorFixed == csr.mtvec = Vector

\* MPP and SPP hold the privileges put on record and not used (take_trap, mret, sret).
OnRecord == csr.mpp = granted.mret /\ csr.spp = granted.sret

Inv == TypeOK /\ MaskedInHandler /\ NestedMasked /\ ContextSaved /\ VectorFixed /\ OnRecord

--------------------------------------------------------------------------------
\* The methods of the controller

\* take_trap keeps the CSR file well typed and leaves MTVEC.
LEMMA TakeTrapType ==
    ASSUME NEW c \in Csr, NEW t \in Trap
    PROVE  take_trap(c, t) \in Csr
BY DEF take_trap, Csr, Trap, Priv, Cause

\* So do mret and sret.
LEMMA ReturnTypes ==
    ASSUME NEW c \in Csr
    PROVE  mret(c) \in Csr /\ sret(c) \in Csr
BY DEF mret, sret, Csr, Priv

\* A reset CSR file with the vector set is well typed (CSRFile::reset).
LEMMA ResetType == [ResetCsr EXCEPT !.mtvec = Vector] \in Csr
<1>1. 0 \in Word
  BY IsaAssumption DEF Word
<1>2. Vector \in Word
  BY TrapAssumption
<1> QED
  BY <1>1, <1>2 DEF ResetCsr, Csr, Priv, Cause

\* The traps the controller builds are traps: pending_interrupt, ecall_trap,
\* ebreak_trap, page_fault_trap and illegal_inst_trap.
LEMMA TrapTypes ==
    ASSUME NEW c \in Csr, NEW lines \in SUBSET Line, NEW a \in Word, NEW v \in Word, NEW b \in BOOLEAN
    PROVE  /\ pending_interrupt(c, lines) \in Trap
           /\ ecall_trap(c, a) \in Trap /\ ecall_trap(c, a).pc = a
           /\ ebreak_trap(a) \in Trap /\ ebreak_trap(a).pc = a
           /\ page_fault_trap(a, v, b) \in Trap /\ page_fault_trap(a, v, b).pc = a
           /\ illegal_inst_trap(a, v) \in Trap /\ illegal_inst_trap(a, v).pc = a
<1>1. 0 \in Word
  BY IsaAssumption DEF Word
<1>2. Picked(lines \cap c.ie) \in Line
  BY DEF Picked, Line
<1>3. pending_interrupt(c, lines) \in Trap
  BY <1>1, <1>2 DEF pending_interrupt, Trap
<1>4. (CASE c.priv = "U" -> "EnvCallU" [] c.priv = "S" -> "EnvCallS" [] OTHER -> "EnvCallM")
        \in Exception
  BY DEF Csr, Priv, Exception
<1>5. ecall_trap(c, a) \in Trap /\ ecall_trap(c, a).pc = a
  BY <1>1, <1>4 DEF ecall_trap, Trap
<1>6. ebreak_trap(a) \in Trap /\ ebreak_trap(a).pc = a
  BY <1>1 DEF ebreak_trap, Trap, Exception
<1>7. page_fault_trap(a, v, b) \in Trap /\ page_fault_trap(a, v, b).pc = a
  BY DEF page_fault_trap, Trap, Exception
<1>8. illegal_inst_trap(a, v) \in Trap /\ illegal_inst_trap(a, v).pc = a
  BY DEF illegal_inst_trap, Trap, Exception
<1> QED
  BY <1>3, <1>5, <1>6, <1>7, <1>8

--------------------------------------------------------------------------------
\* The invariant

\* An entry into a handler keeps the invariant (take_trap).
LEMMA EnterInv ==
    ASSUME Inv, NEW t \in Trap, NEW e \in BOOLEAN, Enter(t, e), e => t.pc = pc
    PROVE  Inv'
<1> DEFINE ctx == [mie |-> csr.mie, priv |-> csr.priv, pc |-> pc, exact |-> e]
<1>1. csr \in Csr /\ stack \in Seq(Context) /\ pc \in Word
  BY DEF Inv, TypeOK
<1>2. ctx \in Context
  BY <1>1 DEF Context, Csr
<1>3. /\ stack' \in Seq(Context) /\ Len(stack') = Len(stack) + 1
      /\ stack = << >> => stack'[1] = ctx
      /\ stack # << >> => Len(stack) > 0
  BY <1>1, <1>2, LenProperties, AppendProperties, EmptySeq DEF Enter
<1>4. /\ csr'.mpie = csr.mie /\ csr'.mie = FALSE /\ csr'.mpp = csr.priv
      /\ csr'.mepc = t.pc /\ csr'.mtvec = csr.mtvec /\ csr'.spp = csr.spp
  BY <1>1 DEF Enter, take_trap, Csr
<1>5. TypeOK'
  <2>1. csr' \in Csr
    BY <1>1, TakeTrapType DEF Enter
  <2>2. pc' \in Word
    BY <1>1 DEF Enter, Csr
  <2>3. opened' \in BOOLEAN /\ clobbered' \in BOOLEAN /\ mip' \subseteq Line
    BY DEF Enter, Inv, TypeOK
  <2>4. granted' \in Granted
    BY <1>1 DEF Enter, Inv, TypeOK, Granted, Csr, Priv
  <2> QED
    BY <1>3, <2>1, <2>2, <2>3, <2>4 DEF TypeOK
<1>6. Len(stack) \in Nat /\ (stack = << >> => Len(stack) = 0)
  BY <1>1, LenProperties, EmptySeq
<1>7. MaskedInHandler' /\ VectorFixed'
  BY <1>4 DEF MaskedInHandler, VectorFixed, Inv
<1>8. NestedMasked'
  <2>1. Len(stack') > 1 => stack # << >>
    BY <1>3, <1>6
  <2>2. stack # << >> /\ ~opened' => ~csr.mie
    BY Zenon DEF Enter, Inv, MaskedInHandler
  <2> QED
    BY <1>4, <2>1, <2>2 DEF NestedMasked
<1>9. ContextSaved'
  <2>1. ASSUME Len(stack') > 1
        PROVE  clobbered'
    <3>1. stack # << >>
      BY <2>1, <1>3, <1>6
    <3> QED
      BY <3>1, Zenon DEF Enter
  <2>2. ASSUME Len(stack') = 1
        PROVE  stack'[1] = ctx
    BY <2>2, <1>3, <1>6
  <2>3. /\ ctx.mie = csr.mie /\ ctx.priv = csr.priv /\ ctx.pc = pc /\ ctx.exact = e
    OBVIOUS
  <2> QED
    BY <2>1, <2>2, <2>3, <1>4 DEF ContextSaved
<1>10. OnRecord'
  BY <1>4 DEF Enter, OnRecord, Inv, TypeOK, Granted
<1> QED
  BY <1>5, <1>7, <1>8, <1>9, <1>10 DEF Inv

\* Software and the devices keep it: they change no stack, and MIE only by opening
\* the handler, the return registers only by marking them overwritten.
LEMMA SoftwareInv ==
    ASSUME Inv,
           \/ \E l \in Lines : Raise(l) \/ Clear(l)
           \/ \E mask \in Masks : WriteMie(mask)
           \/ \E b \in BOOLEAN : WriteMstatusMie(b)
           \/ \E p \in Priv, a \in Places : WriteReturn(p, a)
           \/ \E p \in {"U", "S"}, a \in Places, b \in BOOLEAN : WriteSret(p, a, b)
           \/ \E a \in Places : Move(a)
    PROVE  Inv'
<1> USE TrapAssumption DEF Inv, TypeOK
<1>1. ASSUME NEW l \in Lines, Raise(l) \/ Clear(l)
      PROVE  Inv'
  BY <1>1 DEF Raise, Clear, MaskedInHandler, NestedMasked, ContextSaved, VectorFixed, OnRecord
<1>2. ASSUME NEW mask \in Masks, WriteMie(mask)
      PROVE  Inv'
  <2>1. csr' \in Csr
    BY <1>2 DEF WriteMie, Csr
  <2>2. /\ csr'.mie = csr.mie /\ csr'.mpie = csr.mpie /\ csr'.mpp = csr.mpp
        /\ csr'.mepc = csr.mepc /\ csr'.mtvec = csr.mtvec /\ csr'.spp = csr.spp
    BY <1>2 DEF WriteMie, Csr
  <2> QED
    BY <1>2, <2>1, <2>2 DEF WriteMie, MaskedInHandler, NestedMasked, ContextSaved, VectorFixed, OnRecord
<1>3. ASSUME NEW b \in BOOLEAN, WriteMstatusMie(b)
      PROVE  Inv'
  <2>1. csr' \in Csr
    BY <1>3 DEF WriteMstatusMie, Csr
  <2>2. /\ csr'.mie = b /\ csr'.mpie = csr.mpie /\ csr'.mpp = csr.mpp
        /\ csr'.mepc = csr.mepc /\ csr'.mtvec = csr.mtvec /\ csr'.spp = csr.spp
    BY <1>3 DEF WriteMstatusMie, Csr
  <2> QED
    BY <1>3, <2>1, <2>2
    DEF WriteMstatusMie, MaskedInHandler, NestedMasked, ContextSaved, VectorFixed, OnRecord
<1>4. ASSUME NEW p \in Priv, NEW a \in Places, WriteReturn(p, a)
      PROVE  Inv'
  <2>1. csr' \in Csr
    BY <1>4 DEF WriteReturn, Csr
  <2>2. /\ csr'.mie = csr.mie /\ csr'.mpie = csr.mpie /\ csr'.mtvec = csr.mtvec
        /\ csr'.mpp = p /\ csr'.spp = csr.spp
    BY <1>4 DEF WriteReturn, Csr
  <2>3. /\ UNCHANGED <<mip, pc, stack, opened>> /\ clobbered' \in BOOLEAN
    BY <1>4, Zenon DEF WriteReturn
  <2>4. ContextSaved'
    <3>1. Len(stack') = 1 \/ Len(stack') > 1 => stack # << >>
      <4>1. stack' = stack
        BY <2>3
      <4>2. stack = << >> => Len(stack) = 0
        OBVIOUS
      <4> HIDE DEF Inv, TypeOK
      <4> QED
        BY <4>1, <4>2
    <3>2. stack # << >> => clobbered'
      BY <1>4, Zenon DEF WriteReturn
    <3> QED
      BY <3>1, <3>2, Zenon DEF ContextSaved
  <2>5. granted' \in Granted /\ granted'.mret = p /\ granted'.sret = granted.sret
    BY <1>4 DEF WriteReturn, Granted
  <2> QED
    BY <2>1, <2>2, <2>3, <2>4, <2>5 DEF MaskedInHandler, NestedMasked, VectorFixed, OnRecord
<1>5. ASSUME NEW p \in {"U", "S"}, NEW a \in Places, NEW b \in BOOLEAN, WriteSret(p, a, b)
      PROVE  Inv'
  <2>1. csr' \in Csr
    BY <1>5 DEF WriteSret, Csr
  <2>2. /\ csr'.mie = csr.mie /\ csr'.mpie = csr.mpie /\ csr'.mpp = csr.mpp
        /\ csr'.mepc = csr.mepc /\ csr'.mtvec = csr.mtvec /\ csr'.spp = p
    BY <1>5 DEF WriteSret, Csr
  <2>3. granted' \in Granted /\ granted'.mret = granted.mret /\ granted'.sret = p
    BY <1>5 DEF WriteSret, Granted
  <2> QED
    BY <1>5, <2>1, <2>2, <2>3 DEF WriteSret, MaskedInHandler, NestedMasked, ContextSaved, VectorFixed, OnRecord
<1>6. ASSUME NEW a \in Places, Move(a)
      PROVE  Inv'
  BY <1>6 DEF Move, MaskedInHandler, NestedMasked, ContextSaved, VectorFixed, OnRecord
<1> QED
  BY <1>1, <1>2, <1>3, <1>4, <1>5, <1>6

\* A return from a handler keeps it (mret).
LEMMA MretInv ==
    ASSUME Inv, Mret
    PROVE  Inv'
<1>1. csr \in Csr /\ stack \in Seq(Context)
  BY DEF Inv, TypeOK
<1>2. /\ csr'.mie = csr.mpie /\ csr'.mpie = FALSE /\ csr'.mtvec = csr.mtvec
      /\ csr'.mpp = "U" /\ csr'.spp = csr.spp
  BY <1>1 DEF Mret, mret, Csr
<1>3. Len(stack) \in Nat /\ (stack = << >> <=> Len(stack) = 0)
  BY <1>1, LenProperties, EmptySeq
<1>4. /\ stack' \in Seq(Context)
      /\ Len(stack') = IF stack = << >> THEN 0 ELSE Len(stack) - 1
      /\ stack' # << >> => Len(stack) > 1
  BY <1>1, <1>3, SubSeqProperties, LenProperties, EmptySeq DEF Mret, Left
<1>5. TypeOK'
  <2>1. csr' \in Csr
    BY <1>1, ReturnTypes DEF Mret
  <2>2. pc' \in Word
    BY <1>1 DEF Mret, Csr
  <2>3. granted' \in Granted
    BY DEF Mret, Inv, TypeOK, Granted, Priv
  <2> QED
    BY <1>4, <2>1, <2>2, <2>3 DEF Mret, Left, Inv, TypeOK
<1>6. MaskedInHandler' /\ NestedMasked' /\ VectorFixed'
  BY <1>2, <1>3, <1>4 DEF Mret, Left, MaskedInHandler, NestedMasked, VectorFixed, Inv
<1>7. ContextSaved'
  <2>1. Len(stack') = 1 \/ Len(stack') > 1 => Len(stack) > 1
    BY <1>3, <1>4
  <2>2. Len(stack) > 1 => clobbered'
    BY Zenon DEF Mret, Left, ContextSaved, Inv
  <2> QED
    BY <2>1, <2>2, Zenon DEF ContextSaved
<1>8. OnRecord'
  BY <1>2 DEF Mret, OnRecord, Inv, TypeOK, Granted
<1> QED
  BY <1>5, <1>6, <1>7, <1>8 DEF Inv

\* The invariant is inductive.
LEMMA NextInv ==
    ASSUME Inv, [Next]_vars
    PROVE  Inv'
<1>1. csr \in Csr /\ mip \in SUBSET Line /\ pc \in Word /\ Places \subseteq Word
  BY TrapAssumption DEF Inv, TypeOK
<1>2. CASE \/ \E l \in Lines : Raise(l) \/ Clear(l)
           \/ \E mask \in Masks : WriteMie(mask)
           \/ \E b \in BOOLEAN : WriteMstatusMie(b)
           \/ \E p \in Priv, a \in Places : WriteReturn(p, a)
           \/ \E p \in {"U", "S"}, a \in Places, b \in BOOLEAN : WriteSret(p, a, b)
           \/ \E a \in Places : Move(a)
  BY <1>2, SoftwareInv
<1>3. CASE TakeInterrupt
  BY <1>1, <1>3, EnterInv, TrapTypes DEF TakeInterrupt
<1>4. CASE Ecall
  BY <1>1, <1>4, EnterInv, TrapTypes DEF Ecall
<1>5. CASE Ebreak
  BY <1>1, <1>5, EnterInv, TrapTypes DEF Ebreak
<1>6. CASE \E va \in Places, is_store \in BOOLEAN : FaultingAccess(va, is_store)
  BY <1>1, <1>6, EnterInv, TrapTypes DEF FaultingAccess
<1>7. CASE \E w \in Places : IllegalInstruction(w)
  BY <1>1, <1>7, EnterInv, TrapTypes DEF IllegalInstruction
<1>8. CASE Mret
  BY <1>8, MretInv
<1>9. CASE Sret
  <2>1. csr' \in Csr /\ pc' \in Word
    BY <1>1, <1>9, ReturnTypes DEF Sret, Csr
  <2>2. /\ csr'.mie = csr.mie /\ csr'.mpie = csr.mpie /\ csr'.mpp = csr.mpp
        /\ csr'.mepc = csr.mepc /\ csr'.mtvec = csr.mtvec /\ csr'.spp = "U"
    BY <1>1, <1>9 DEF Sret, sret, Csr
  <2>3. granted' \in Granted /\ granted'.mret = granted.mret /\ granted'.sret = "U"
    BY <1>9 DEF Sret, Inv, TypeOK, Granted
  <2> QED
    BY <1>9, <2>1, <2>2, <2>3
    DEF Sret, Inv, TypeOK, MaskedInHandler, NestedMasked, ContextSaved, VectorFixed, OnRecord
<1>10. CASE Reset
  <2>1. csr'.mtvec = Vector /\ OnRecord' /\ granted' \in Granted
    BY <1>10 DEF Reset, ResetCsr, OnRecord, Ungranted, Granted, Priv
  <2>2. stack' \in Seq(Context) /\ Len(stack') = 0 /\ stack' = << >>
    BY <1>10, EmptySeq DEF Reset
  <2>3. TypeOK'
    BY <1>1, <1>10, <2>1, <2>2, ResetType DEF Reset, TypeOK
  <2>4. MaskedInHandler' /\ NestedMasked' /\ ContextSaved'
    BY <2>2 DEF MaskedInHandler, NestedMasked, ContextSaved
  <2> QED
    BY <2>1, <2>3, <2>4 DEF Inv, VectorFixed
<1>11. CASE UNCHANGED vars
  BY <1>11 DEF vars, Inv, TypeOK, MaskedInHandler, NestedMasked, ContextSaved, VectorFixed, OnRecord
<1> QED
  BY <1>2, <1>3, <1>4, <1>5, <1>6, <1>7, <1>8, <1>9, <1>10, <1>11 DEF Next

\* The invariant holds of every state of the protocol.
LEMMA Invariance == Spec => []Inv
<1>1. Init => Inv
  <2> SUFFICES ASSUME Init PROVE Inv
    OBVIOUS
  <2>1. stack \in Seq(Context) /\ Len(stack) = 0
    BY EmptySeq DEF Init
  <2>2. csr.mtvec = Vector /\ OnRecord /\ granted \in Granted
    BY DEF Init, ResetCsr, OnRecord, Ungranted, Granted, Priv
  <2>3. TypeOK
    BY <2>1, <2>2, ResetType, TrapAssumption DEF Init, TypeOK
  <2>4. MaskedInHandler /\ NestedMasked /\ ContextSaved
    BY <2>1 DEF Init, MaskedInHandler, NestedMasked, ContextSaved
  <2> QED
    BY <2>2, <2>3, <2>4 DEF Inv, VectorFixed
<1>2. Inv /\ [Next]_vars => Inv'
  BY NextInv
<1> QED
  BY <1>1, <1>2, PTL DEF Spec

--------------------------------------------------------------------------------
\* The theorems

\* CSRs, lines and pc stay in their ranges, however traps nest.
THEOREM TypeCorrect == Spec => []TypeOK
<1>1. Inv => TypeOK
  BY DEF Inv
<1> QED
  BY <1>1, Invariance, PTL

\* A handler that does not set MSTATUS.MIE is not interrupted, through any number of
\* exceptions it takes and returns from (take_trap and mret).
THEOREM HandlersMasked == Spec => []MaskedInHandler
<1>1. Inv => MaskedInHandler
  BY DEF Inv
<1> QED
  BY <1>1, Invariance, PTL

\* The return of a handler whose return registers nothing overwrote restores the
\* interrupt enable, the privilege and for an exception the address (mret).
THEOREM ReturnRestores == Spec => RoundTrip
<1>1. Inv /\ [Next]_vars =>
        [Mret /\ Len(stack) = 1 /\ ~clobbered =>
           /\ csr'.mie = stack[1].mie /\ csr'.priv = stack[1].priv
           /\ stack[1].exact => pc' = stack[1].pc]_vars
  <2> SUFFICES ASSUME Inv, Mret, Len(stack) = 1, ~clobbered
               PROVE  /\ csr'.mie = stack[1].mie /\ csr'.priv = stack[1].priv
                      /\ stack[1].exact => pc' = stack[1].pc
    OBVIOUS
  <2>1. csr'.mie = csr.mpie /\ csr'.priv = csr.mpp /\ pc' = csr.mepc
    BY DEF Mret, mret, Inv, TypeOK, Csr
  <2> QED
    BY <2>1 DEF Inv, ContextSaved
<1> QED
  BY <1>1, Invariance, PTL DEF Spec, RoundTrip

\* A privilege that rises was put on record: by the entry into the vector, or before a
\* return that uses it up (take_trap, mret, sret).
THEOREM PrivilegeAccounted == Spec => RaisedByRecord
<1>1. Inv /\ [Next]_vars =>
        [Above(csr'.priv, csr.priv) /\ ~Reset =>
           \/ pc' = Vector /\ csr'.priv = "M" /\ csr'.mpp = csr.priv
           \/ Mret /\ csr'.priv = granted.mret
           \/ Sret /\ csr'.priv = granted.sret]_vars
  <2> SUFFICES ASSUME Inv, Next, Above(csr'.priv, csr.priv), ~Reset
               PROVE  \/ pc' = Vector /\ csr'.priv = "M" /\ csr'.mpp = csr.priv
                      \/ Mret /\ csr'.priv = granted.mret
                      \/ Sret /\ csr'.priv = granted.sret
    OBVIOUS
  <2>1. csr \in Csr /\ csr.mtvec = Vector /\ OnRecord
    BY DEF Inv, TypeOK, VectorFixed
  <2>2. ASSUME NEW t, NEW e, Enter(t, e)
        PROVE  pc' = Vector /\ csr'.priv = "M" /\ csr'.mpp = csr.priv
    BY <2>1, <2>2 DEF Enter, take_trap, Csr
  <2>3. Sret => csr'.priv = granted.sret
    BY <2>1 DEF Sret, sret, Csr, OnRecord
  <2>4. Mret => csr'.priv = granted.mret
    BY <2>1 DEF Mret, mret, Csr, OnRecord
  <2>5. csr'.priv # csr.priv
    BY DEF Above
  <2>6. ~(\/ \E l \in Lines : Raise(l) \/ Clear(l)
          \/ \E mask \in Masks : WriteMie(mask)
          \/ \E b \in BOOLEAN : WriteMstatusMie(b)
          \/ \E p \in Priv, a \in Places : WriteReturn(p, a)
          \/ \E p \in {"U", "S"}, a \in Places, b \in BOOLEAN : WriteSret(p, a, b)
          \/ \E a \in Places : Move(a))
    BY <2>1, <2>5
    DEF Raise, Clear, WriteMie, WriteMstatusMie, WriteReturn, WriteSret, Move, Csr
  <2> QED
    BY <2>2, <2>3, <2>4, <2>6
    DEF Next, TakeInterrupt, Ecall, Ebreak, FaultingAccess, IllegalInstruction
<1> QED
  BY <1>1, Invariance, PTL DEF Spec, RaisedByRecord
================================================================================
