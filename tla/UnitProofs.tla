------------------------------- MODULE UnitProofs -------------------------------
(***************************************************************************)
(* The units beside the executor, proved for every size of them: the       *)
(* checkpoint history, the devices, the warp scheduler, the stations and   *)
(* the branch predictor of the pipeline model, the cache hierarchy and the *)
(* vector kernels.  They share no state, so each has its own specification *)
(* and its own invariant; that of the run implies each of them.            *)
(***************************************************************************)
EXTENDS MCUnits, SequenceTheorems, FiniteSetTheorems, FunctionTheorems, NumberLemmas, TLAPS

--------------------------------------------------------------------------------
\* Checkpoints

\* What a push of the guest u.g recorded.
Recorded(u) == IF u.full THEN CapturedFull(u.g) ELSE Captured(u.g)

\* NewestKept, entry by entry: the k-th checkpoint is the one of the guest that is
\* as far from the newest.
Aligned ==
    /\ Len(history) <= Len(undo)
    /\ \A k \in 1 .. Len(history) : history[k] = Recorded(undo[Len(undo) - Len(history) + k])

CheckpointInv == CheckpointTypeOK /\ Aligned

\* What the property remembers of a push.
Pushes == [g : Guest, full : BOOLEAN]

\* All but the last entry of a sequence (pop_back).
LEMMA FrontProperties ==
    ASSUME NEW S, NEW s \in Seq(S), Len(s) > 0
    PROVE  /\ Front(s) \in Seq(S) /\ Len(Front(s)) = Len(s) - 1
           /\ \A k \in 1 .. Len(s) - 1 : Front(s)[k] = s[k]
<1>1. Len(s) \in Nat
  BY LenProperties
<1> DEFINE n == Len(s) - 1
<1>2. n \in Nat /\ \A i \in 1 .. n : s[i] \in S
  BY <1>1, ElementOfSeq
<1> HIDE DEF n
<1>3. /\ SubSeq(s, 1, n) \in Seq(S) /\ Len(SubSeq(s, 1, n)) = n
      /\ \A k \in 1 .. n : SubSeq(s, 1, n)[k] = s[k]
  BY <1>2, SubSeqProperties
<1> QED
  BY <1>3 DEF Front, n

\* What is captured of a guest is a checkpoint (capture).
LEMMA RecordedType ==
    ASSUME NEW g \in Guest
    PROVE  Captured(g) \in Checkpoint /\ CapturedFull(g) \in Checkpoint
BY DEF Guest, Checkpoint, Captured, CapturedFull

\* A restored guest is a guest (what the host does with a popped checkpoint).
LEMMA RestoredType ==
    ASSUME NEW g \in Guest, NEW cp \in Checkpoint
    PROVE  Restored(g, cp) \in Guest
<1>1. cp.mem = << >> \/ \E v \in Values : cp.mem = <<v>>
  BY DEF Checkpoint
<1>2. cp.mem # << >> => cp.mem[1] \in Values
  BY <1>1
<1>3. cp.regs \in Values /\ cp.rest \in Values /\ g.mem \in Values
  BY DEF Checkpoint, Guest
<1> QED
  BY <1>2, <1>3 DEF Restored, Guest

\* A push keeps the history aligned: the new entry is the newest, and of the old ones
\* at most the oldest is dropped (push, push_full).
LEMMA PushInv ==
    ASSUME CheckpointInv, NEW g \in Guest, NEW full \in BOOLEAN, CommitInstruction(g, full)
    PROVE  CheckpointInv'
<1> DEFINE u == [g |-> g, full |-> full]
           cp == IF full THEN CapturedFull(g) ELSE Captured(g)
           h == Append(history, cp)
<1>1. /\ guest \in Guest /\ history \in Seq(Checkpoint)
      /\ undo \in Seq(Pushes) /\ max_history \in Limits
  BY DEF CheckpointInv, CheckpointTypeOK, Pushes
<1>2. cp \in Checkpoint /\ u \in Pushes /\ cp = Recorded(u)
  BY <1>1, RecordedType DEF Recorded, Pushes
<1> HIDE DEF u, cp
<1>3. /\ undo' = Append(undo, u) /\ undo' \in Seq(Pushes)
      /\ Len(undo') = Len(undo) + 1 /\ undo'[Len(undo) + 1] = u
      /\ \A k \in 1 .. Len(undo) : undo'[k] = undo[k]
  BY <1>1, <1>2, AppendProperties DEF CommitInstruction, u
<1>4. /\ h \in Seq(Checkpoint) /\ Len(h) = Len(history) + 1 /\ h[Len(history) + 1] = cp
      /\ \A k \in 1 .. Len(history) : h[k] = history[k]
  BY <1>1, <1>2, AppendProperties
<1>5. Len(history) \in Nat /\ Len(undo) \in Nat /\ Len(history) <= Len(undo)
  BY <1>1, LenProperties DEF CheckpointInv, Aligned
<1>6. \A k \in 1 .. Len(h) : h[k] = Recorded(undo'[Len(undo') - Len(h) + k])
  <2> TAKE k \in 1 .. Len(h)
  <2>1. CASE k = Len(history) + 1
    BY <1>2, <1>3, <1>4, <1>5, <2>1
  <2>2. CASE k \in 1 .. Len(history)
    <3>1. Len(undo) - Len(history) + k \in 1 .. Len(undo)
      BY <1>5, <2>2
    <3>2. h[k] = Recorded(undo[Len(undo) - Len(history) + k])
      BY <1>4, <2>2 DEF CheckpointInv, Aligned
    <3>3. Len(undo') - Len(h) + k = Len(undo) - Len(history) + k
      BY <1>3, <1>4, <1>5, <2>2
    <3> QED
      BY <1>3, <3>1, <3>2, <3>3
  <2> QED
    BY <1>4, <1>5, <2>1, <2>2
<1>7. history' = h \/ history' = Tail(h)
  BY DEF CommitInstruction, Pushed, cp
<1>8. history' \in Seq(Checkpoint) /\ Aligned'
  <2>1. CASE history' = h
    <3>1. Len(history') <= Len(undo')
      BY <1>3, <1>4, <1>5, <2>1
    <3> HIDE DEF h
    <3> QED
      BY <1>4, <1>6, <2>1, <3>1 DEF Aligned
  <2>2. CASE history' = Tail(h)
    <3>1. h # << >>
      BY <1>4, <1>5, EmptySeq
    <3>2. /\ Tail(h) \in Seq(Checkpoint) /\ Len(Tail(h)) = Len(h) - 1
          /\ \A k \in 1 .. Len(Tail(h)) : Tail(h)[k] = h[k + 1]
      BY <1>4, <3>1, HeadTailProperties
    <3> HIDE DEF h
    <3>4. Len(history') = Len(history) /\ Len(history') <= Len(undo')
      BY <1>3, <1>4, <1>5, <2>2, <3>2
    <3>5. \A k \in 1 .. Len(history') :
             history'[k] = Recorded(undo'[Len(undo') - Len(history') + k])
      <4> TAKE k \in 1 .. Len(history')
      <4>1. k + 1 \in 1 .. Len(h) /\ history'[k] = h[k + 1]
        BY <1>4, <1>5, <2>2, <3>2
      <4>2. Len(undo') - Len(h) + (k + 1) = Len(undo') - Len(history') + k
        <5>1. k \in Nat
          BY <1>5, <3>4
        <5> QED
          BY <1>3, <1>4, <1>5, <3>4, <5>1
      <4> QED
        BY <1>6, <4>1, <4>2
    <3> QED
      BY <2>2, <3>2, <3>4, <3>5 DEF Aligned
  <2> QED
    BY <1>7, <2>1, <2>2
<1> QED
  BY <1>1, <1>3, <1>8 DEF CheckpointInv, CheckpointTypeOK, CommitInstruction, Pushes

\* A step back removes the newest entry of both (pop).
LEMMA StepBackInv ==
    ASSUME CheckpointInv, StepBack
    PROVE  CheckpointInv'
<1>1. /\ guest \in Guest /\ history \in Seq(Checkpoint)
      /\ undo \in Seq(Pushes)
  BY DEF CheckpointInv, CheckpointTypeOK, Pushes
<1>2. /\ Len(history) \in Nat /\ Len(undo) \in Nat /\ Len(history) <= Len(undo)
      /\ Len(history) > 0
  BY <1>1, LenProperties, EmptySeq DEF CheckpointInv, Aligned, StepBack
<1>3. history' = Front(history) /\ undo' = Front(undo) /\ Len(undo) > 0
  BY <1>2 DEF StepBack
<1>4. /\ history' \in Seq(Checkpoint) /\ Len(history') = Len(history) - 1
      /\ \A k \in 1 .. Len(history) - 1 : history'[k] = history[k]
  BY <1>1, <1>2, <1>3, FrontProperties
<1>5. /\ undo' \in Seq(Pushes) /\ Len(undo') = Len(undo) - 1
      /\ \A k \in 1 .. Len(undo) - 1 : undo'[k] = undo[k]
  BY <1>1, <1>2, <1>3, FrontProperties
<1>6. Aligned'
  <2>1. ASSUME NEW k \in 1 .. Len(history')
        PROVE  history'[k] = Recorded(undo'[Len(undo') - Len(history') + k])
    <3>1. k \in 1 .. Len(history) /\ history'[k] = history[k]
      BY <1>2, <1>4, <2>1
    <3>2. /\ Len(undo') - Len(history') + k = Len(undo) - Len(history) + k
          /\ Len(undo) - Len(history) + k \in 1 .. Len(undo) - 1
      BY <1>2, <1>4, <1>5, <2>1
    <3> QED
      BY <1>5, <3>1, <3>2 DEF CheckpointInv, Aligned
  <2> QED
    BY <1>2, <1>4, <1>5, <2>1 DEF Aligned
<1>7. guest' \in Guest
  <2>1. Last(history) \in Checkpoint
    BY <1>1, <1>2, ElementOfSeq DEF Last
  <2> QED
    BY <1>1, <2>1, RestoredType DEF StepBack
<1> QED
  BY <1>4, <1>5, <1>6, <1>7 DEF CheckpointInv, CheckpointTypeOK, StepBack, Pushes

\* The invariant holds throughout.
LEMMA CheckpointInvariance == CheckpointSpec => []CheckpointInv
<1>1. CheckpointInit => CheckpointInv
  BY EmptySeq DEF CheckpointInit, CheckpointInv, CheckpointTypeOK, Aligned
<1>2. CheckpointInv /\ [CheckpointNext]_checkpoint_vars => CheckpointInv'
  <2> SUFFICES ASSUME CheckpointInv, [CheckpointNext]_checkpoint_vars
               PROVE  CheckpointInv'
    OBVIOUS
  <2>1. ASSUME NEW g \in Guest, Push(g) \/ PushFull(g)
        PROVE  CheckpointInv'
    BY <2>1, PushInv DEF Push, PushFull
  <2>2. CASE StepBack
    BY <2>2, StepBackInv
  <2>3. CASE ClearHistory
    BY <2>3, EmptySeq DEF ClearHistory, CheckpointInv, CheckpointTypeOK, Aligned
  <2>4. ASSUME NEW n \in Limits, SetMaxHistory(n)
        PROVE  CheckpointInv'
    BY <2>4 DEF SetMaxHistory, CheckpointInv, CheckpointTypeOK, Aligned
  <2>5. CASE SaveBlob
    <3>1. blob'[1] \in Values
      BY <2>5 DEF SaveBlob, CheckpointInv, CheckpointTypeOK, Guest
    <3> QED
      BY <2>5, <3>1 DEF SaveBlob, CheckpointInv, CheckpointTypeOK, Aligned
  <2>6. CASE RestoreBlob
    <3>1. guest' \in Guest
      BY <2>6 DEF RestoreBlob, CheckpointInv, CheckpointTypeOK, Guest
    <3> QED
      BY <2>6, <3>1 DEF RestoreBlob, CheckpointInv, CheckpointTypeOK, Aligned
  <2>7. CASE UNCHANGED checkpoint_vars
    BY <2>7 DEF checkpoint_vars, CheckpointInv, CheckpointTypeOK, Aligned
  <2>8. ASSUME NEW g \in Guest, RunUncaptured(g)
        PROVE  CheckpointInv'
    BY <2>8 DEF RunUncaptured, CheckpointInv, CheckpointTypeOK, Aligned
  <2> QED
    BY <2>1, <2>2, <2>3, <2>4, <2>5, <2>6, <2>7, <2>8 DEF CheckpointNext
<1> QED
  BY <1>1, <1>2, PTL DEF CheckpointSpec

\* The history is the newest part of what was pushed and not popped, for histories
\* and limits of any size (push, push_full, pop, clear, set_max_history).
THEOREM CheckpointsKept == CheckpointSpec => []NewestKept
<1>1. CheckpointInv => NewestKept
  <2> SUFFICES ASSUME CheckpointInv PROVE NewestKept
    OBVIOUS
  <2> DEFINE all == [k \in 1 .. Len(undo) |-> IF undo[k].full THEN CapturedFull(undo[k].g)
                                              ELSE Captured(undo[k].g)]
  <2>1. /\ history \in Seq(Checkpoint) /\ undo \in Seq(Pushes)
        /\ Len(history) \in Nat /\ Len(undo) \in Nat /\ Len(history) <= Len(undo)
    BY LenProperties DEF CheckpointInv, CheckpointTypeOK, Aligned, Pushes
  <2>2. \A k \in 1 .. Len(undo) : all[k] = Recorded(undo[k]) /\ all[k] \in Checkpoint
    <3> TAKE k \in 1 .. Len(undo)
    <3>1. undo[k] \in Pushes
      BY <2>1, ElementOfSeq
    <3>2. undo[k].g \in Guest
      BY <3>1 DEF Pushes
    <3> QED
      BY <3>2, RecordedType DEF Recorded
  <2>3. all \in Seq(Checkpoint) /\ Len(all) = Len(undo)
    <3>1. all \in [1 .. Len(undo) -> Checkpoint]
      BY <2>2
    <3> HIDE DEF all
    <3> QED
      BY <2>1, <3>1, IsASeq, LenProperties
  <2> HIDE DEF all
  <2> DEFINE rh == Reverse(history)
             ra == Reverse(all)
  <2>4. /\ rh \in Seq(Checkpoint) /\ Len(rh) = Len(history)
        /\ \A k \in 1 .. Len(history) : rh[k] = history[Len(history) - k + 1]
    <3>1. rh \in [1 .. Len(history) -> Checkpoint]
      BY <2>1, ElementOfSeq DEF Reverse
    <3> QED
      BY <2>1, <3>1, IsASeq, LenProperties DEF Reverse
  <2>5. /\ ra \in Seq(Checkpoint) /\ Len(ra) = Len(undo)
        /\ \A k \in 1 .. Len(undo) : ra[k] = all[Len(undo) - k + 1]
    <3>1. ra \in [1 .. Len(undo) -> Checkpoint]
      BY <2>1, <2>3, ElementOfSeq DEF Reverse
    <3> QED
      BY <2>1, <2>3, <3>1, IsASeq, LenProperties DEF Reverse
  <2>6. \A k \in 1 .. Len(history) : rh[k] = ra[k]
    <3> TAKE k \in 1 .. Len(history)
    <3>1. /\ Len(history) - k + 1 \in 1 .. Len(history) /\ Len(undo) - k + 1 \in 1 .. Len(undo)
          /\ Len(undo) - Len(history) + (Len(history) - k + 1) = Len(undo) - k + 1
          /\ k \in 1 .. Len(undo)
      BY <2>1
    <3>2. rh[k] = Recorded(undo[Len(undo) - k + 1])
      BY <2>4, <3>1 DEF CheckpointInv, Aligned
    <3> QED
      BY <2>2, <2>5, <3>1, <3>2
  <2> HIDE DEF rh, ra
  <2>7. SubSeq(rh, 1, Len(rh)) = SubSeq(ra, 1, Len(rh))
    <3>1. /\ SubSeq(rh, 1, Len(rh)) \in Seq(Checkpoint) /\ Len(SubSeq(rh, 1, Len(rh))) = Len(history)
          /\ \A k \in 1 .. Len(history) : SubSeq(rh, 1, Len(rh))[k] = rh[k]
      BY <2>1, <2>4, SubSeqProperties
    <3>2. /\ SubSeq(ra, 1, Len(rh)) \in Seq(Checkpoint) /\ Len(SubSeq(ra, 1, Len(rh))) = Len(history)
          /\ \A k \in 1 .. Len(history) : SubSeq(ra, 1, Len(rh))[k] = ra[k]
      BY <2>1, <2>4, <2>5, SubSeqProperties
    <3> QED
      BY <2>6, <3>1, <3>2, SeqEqual
  <2> QED
    BY <2>1, <2>4, <2>5, <2>7 DEF NewestKept, IsSuffix, IsPrefix, rh, ra, all
<1> QED
  BY <1>1, CheckpointInvariance, PTL

\* A step back restores the guest after the last instruction that was captured and not
\* taken back, whatever was pushed, dropped and popped before and whatever ran since
\* (pop and the restore).
THEOREM ReverseIsExact == CheckpointSpec => ExactReverse
<1>1. CheckpointInv /\ [CheckpointNext]_checkpoint_vars =>
        [StepBack => LET u == Last(undo)
                     IN  guest' = IF u.full THEN u.g ELSE [u.g EXCEPT !.mem = guest.mem]]_checkpoint_vars
  <2> SUFFICES ASSUME CheckpointInv, StepBack
               PROVE  LET u == Last(undo)
                      IN  guest' = IF u.full THEN u.g ELSE [u.g EXCEPT !.mem = guest.mem]
    OBVIOUS
  <2> DEFINE u == Last(undo)
  <2>1. /\ history \in Seq(Checkpoint) /\ undo \in Seq(Pushes)
        /\ Len(history) \in Nat /\ Len(undo) \in Nat /\ Len(history) <= Len(undo)
        /\ Len(history) > 0
    BY LenProperties, EmptySeq DEF CheckpointInv, CheckpointTypeOK, Aligned, StepBack, Pushes
  <2>2. Last(history) = Recorded(u)
    <3>1. Len(undo) - Len(history) + Len(history) = Len(undo) /\ Len(history) \in 1 .. Len(history)
      BY <2>1
    <3> QED
      BY <3>1 DEF CheckpointInv, Aligned, Last
  <2>3. u.g \in Guest /\ u.full \in BOOLEAN
    <3>1. u \in Pushes
      BY <2>1, ElementOfSeq DEF Last
    <3> HIDE DEF u
    <3> QED
      BY <3>1 DEF Pushes
  <2>4. guest' = Restored(guest, Recorded(u))
    BY <2>2 DEF StepBack
  <2> HIDE DEF u
  <2>5. CASE u.full
    <3>1. Recorded(u).regs = u.g.regs /\ Recorded(u).rest = u.g.rest /\ Recorded(u).mem = <<u.g.mem>>
      BY <2>5 DEF Recorded, CapturedFull
    <3>2. guest' = [regs |-> u.g.regs, rest |-> u.g.rest, mem |-> u.g.mem]
      BY <2>4, <3>1 DEF Restored
    <3> QED
      BY <2>3, <2>5, <3>2 DEF Guest, u
  <2>6. CASE ~u.full
    <3>1. Recorded(u).regs = u.g.regs /\ Recorded(u).rest = u.g.rest /\ Recorded(u).mem = << >>
      BY <2>6 DEF Recorded, Captured
    <3>2. guest' = [regs |-> u.g.regs, rest |-> u.g.rest, mem |-> guest.mem]
      BY <2>4, <3>1 DEF Restored
    <3>3. [u.g EXCEPT !.mem = guest.mem] = [regs |-> u.g.regs, rest |-> u.g.rest, mem |-> guest.mem]
      BY <2>3 DEF Guest
    <3> QED
      BY <2>6, <3>2, <3>3 DEF u
  <2> QED
    BY <2>3, <2>5, <2>6
<1> QED
  BY <1>1, CheckpointInvariance, PTL DEF CheckpointSpec, ExactReverse

--------------------------------------------------------------------------------
\* Devices

\* The period of the timer: while it is in phase with its limit, the time that
\* passed is the periods that ended and the count.
InPhase ==
    phased /\ timer.limit >= CyclesPerTick =>
        timer.count < timer.limit /\ clock = timer.limit * expired + timer.count

PeripheralInv == PeripheralTypeOK /\ UartLossless /\ InPhase

\* What printf shows of a buffer is a sequence of words, and all of it when the
\* buffer has no NUL.
LEMMA ShownProperties ==
    ASSUME NEW line \in Seq(Word)
    PROVE  /\ Shown(line) \in Seq(Word)
           /\ (\A k \in 1 .. Len(line) : line[k] # 0) => Shown(line) = line
<1> DEFINE I == {i \in 1 .. Len(line) : line[i] = 0}
           nul == IF I # {} THEN Min(I) ELSE 0
<1>1. Shown(line) = IF nul = 0 THEN line ELSE SubSeq(line, 1, nul - 1)
  BY DEF Shown, SelectInSeq
<1>2. Len(line) \in Nat
  BY LenProperties
<1>3. CASE I = {}
  BY <1>1, <1>3
<1>4. CASE I # {}
  <2>1. \E x \in I : \A y \in I : x <= y
    <3>1. I \subseteq Nat
      BY <1>2
    <3> HIDE DEF I
    <3> QED
      BY <1>4, <3>1, LeastElement
  <2>2. Min(I) \in I
    <3> HIDE DEF I
    <3> QED
      BY <2>1 DEF Min
  <2>3. nul \in 1 .. Len(line)
    BY <1>4, <2>2
  <2> HIDE DEF nul
  <2>4. \A i \in 1 .. nul - 1 : line[i] \in Word
    BY <1>2, <2>3, ElementOfSeq
  <2>5. nul - 1 \in Int /\ nul # 0
    BY <1>2, <2>3
  <2>6. SubSeq(line, 1, nul - 1) \in Seq(Word)
    BY <2>4, <2>5, SubSeqProperties
  <2>7. \E k \in 1 .. Len(line) : line[k] = 0
    BY <1>4
  <2> QED
    BY <1>1, <2>5, <2>6, <2>7
<1> QED
  BY <1>3, <1>4

\* A UART step keeps the invariant: no word of the buffer is printed twice or lost
\* (UartDevice::write_reg and flush).
LEMMA UartInv ==
    ASSUME PeripheralInv, UartNext
    PROVE  PeripheralInv'
<1>1. /\ tx \in Seq(Word) /\ printed \in Seq(Word) /\ written \in Seq(Word)
      /\ Len(tx) \in Nat /\ Len(tx) < TxLimit
  BY LenProperties DEF PeripheralInv, PeripheralTypeOK
<1>2. UNCHANGED timer_vars
  BY DEF UartNext, WriteTx, FlushUart
<1>3. ASSUME NEW b \in Bytes, WriteTx(b)
      PROVE  PeripheralInv'
  <2>1. b \in Word
    BY PeripheralsAssumption
  <2> DEFINE line == Append(tx, b)
  <2>2. /\ line \in Seq(Word) /\ Len(line) = Len(tx) + 1 /\ line[Len(tx) + 1] = b
        /\ \A k \in 1 .. Len(tx) : line[k] = tx[k]
    BY <1>1, <2>1, AppendProperties
  <2>3. /\ written' = Append(written, b) /\ written' \in Seq(Word)
    BY <1>1, <1>3, <2>1, AppendProperties DEF WriteTx
  <2> HIDE DEF line
  <2>4. PeripheralTypeOK'
    <3>1. CASE uart_flushes(tx, b)
      <4>1. tx' = << >> /\ printed' = printed \o Shown(line)
        BY <1>3, <3>1 DEF WriteTx, uart_write, line
      <4>2. Shown(line) \in Seq(Word)
        BY <2>2, ShownProperties
      <4>3. printed' \in Seq(Word)
        BY <1>1, <4>1, <4>2, ConcatProperties
      <4>4. tx' \in Seq(Word) /\ Len(tx') < TxLimit
        BY <4>1, EmptySeq, DeviceAssumption
      <4> QED
        BY <1>2, <2>3, <4>3, <4>4 DEF PeripheralInv, PeripheralTypeOK, timer_vars
    <3>2. CASE ~uart_flushes(tx, b)
      <4>1. tx' = line /\ printed' = printed
        BY <1>3, <3>2 DEF WriteTx, uart_write, line
      <4>2. Len(line) < TxLimit
        BY <1>1, <2>2, <3>2, DeviceAssumption DEF uart_flushes
      <4> QED
        BY <1>2, <2>2, <2>3, <4>1, <4>2 DEF PeripheralInv, PeripheralTypeOK, timer_vars
    <3> QED
      BY <3>1, <3>2
  <2>5. UartLossless'
    <3> SUFFICES ASSUME 0 \notin Range(written') PROVE printed' \o tx' = written'
      BY DEF UartLossless
    <3>1. /\ Len(written') = Len(written) + 1 /\ written'[Len(written) + 1] = b
          /\ \A k \in 1 .. Len(written) : written'[k] = written[k]
          /\ Len(written) \in Nat
      BY <1>1, <2>1, <2>3, AppendProperties, LenProperties
    <3>2. \A k \in 1 .. Len(written') : written'[k] # 0
      BY <2>3, RangeOfSeq, LenProperties DEF Range
    <3>3. \A k \in 1 .. Len(written) : written[k] # 0
      BY <3>1, <3>2
    <3>4. 0 \notin Range(written)
      BY <1>1, <3>3, LenProperties DEF Range
    <3>5. printed \o tx = written
      BY <3>4 DEF PeripheralInv, UartLossless
    <3>6. \A k \in 1 .. Len(tx) : tx[k] # 0
      <4> TAKE k \in 1 .. Len(tx)
      <4>1. /\ Len(printed) \in Nat /\ Len(written) = Len(printed) + Len(tx)
            /\ written[Len(printed) + k] = tx[k]
        BY <1>1, <3>5, ConcatProperties, LenProperties
      <4>2. Len(printed) + k \in 1 .. Len(written)
        BY <1>1, <4>1
      <4> QED
        BY <3>3, <4>1, <4>2
    <3>7. \A k \in 1 .. Len(line) : line[k] # 0
      BY <1>1, <2>2, <3>1, <3>2, <3>6
    <3>8. printed \o line = written'
      <4>1. line = tx \o <<b>> /\ written' = written \o <<b>> /\ <<b>> \in Seq(Word)
        BY <1>1, <2>1, <2>3, AppendIsConcat DEF line
      <4> QED
        BY <1>1, <3>5, <4>1, ConcatAssociative
    <3>9. CASE uart_flushes(tx, b)
      <4>1. tx' = << >> /\ printed' = printed \o Shown(line)
        BY <1>3, <3>9 DEF WriteTx, uart_write, line
      <4>2. Shown(line) = line
        BY <2>2, <3>7, ShownProperties
      <4> QED
        BY <2>3, <3>8, <4>1, <4>2, ConcatEmptySeq
    <3>10. CASE ~uart_flushes(tx, b)
      <4>1. tx' = line /\ printed' = printed
        BY <1>3, <3>10 DEF WriteTx, uart_write, line
      <4> QED
        BY <3>8, <4>1
    <3> QED
      BY <3>9, <3>10
  <2> QED
    BY <1>2, <2>4, <2>5 DEF PeripheralInv, InPhase, timer_vars
<1>4. CASE FlushUart
  <2>1. tx' = << >> /\ printed' = printed \o Shown(tx) /\ written' = written
    BY <1>4 DEF FlushUart
  <2>2. PeripheralTypeOK'
    <3>1. printed' \in Seq(Word)
      BY <1>1, <2>1, ShownProperties, ConcatProperties
    <3>2. tx' \in Seq(Word) /\ Len(tx') < TxLimit
      BY <2>1, EmptySeq, DeviceAssumption
    <3> QED
      BY <1>2, <2>1, <3>1, <3>2 DEF PeripheralInv, PeripheralTypeOK, timer_vars
  <2>3. UartLossless'
    <3> SUFFICES ASSUME 0 \notin Range(written) PROVE printed' \o tx' = written
      BY <2>1 DEF UartLossless
    <3>1. printed \o tx = written
      BY DEF PeripheralInv, UartLossless
    <3>2. \A k \in 1 .. Len(tx) : tx[k] # 0
      <4> TAKE k \in 1 .. Len(tx)
      <4>1. /\ Len(printed) \in Nat /\ Len(written) = Len(printed) + Len(tx)
            /\ written[Len(printed) + k] = tx[k]
        BY <1>1, <3>1, ConcatProperties, LenProperties
      <4>2. Len(printed) + k \in 1 .. Len(written)
        BY <1>1, <4>1
      <4> QED
        BY <1>1, <4>1, <4>2, LenProperties DEF Range
    <3>3. Shown(tx) = tx
      BY <1>1, <3>2, ShownProperties
    <3> QED
      BY <1>1, <2>1, <3>1, <3>3, ConcatEmptySeq
  <2> QED
    BY <1>2, <2>2, <2>3 DEF PeripheralInv, InPhase, timer_vars
<1> QED
  BY <1>3, <1>4 DEF UartNext

\* A tick keeps the timer in phase: it reloads at most once, and with a limit of a
\* tick or more that is enough (TimerDevice::tick).
LEMMA TickInv ==
    ASSUME PeripheralInv, TickTimer
    PROVE  PeripheralInv'
<1> DEFINE c == timer.count
           l == timer.limit
           t == CyclesPerTick
<1>1. /\ timer \in Timer /\ c \in Nat /\ l \in Nat /\ timer.ctrl \in BOOLEAN
      /\ clock \in Nat /\ expired \in Nat
  BY DEF PeripheralInv, PeripheralTypeOK, Timer
<1>2. t \in Nat \ {0}
  BY IsaAssumption
<1>3. \A n \in Nat, b \in BOOLEAN : [timer EXCEPT !.count = n, !.irq_pending = b] \in Timer
  BY <1>1 DEF Timer
<1>4. CASE ~timer.ctrl
  <2>1. timer' = timer /\ clock' = clock
    BY <1>4 DEF TickTimer, timer_tick
  <2>2. expired' = expired
    BY <1>1, <2>1 DEF TickTimer
  <2> QED
    BY <2>1, <2>2
    DEF TickTimer, PeripheralInv, PeripheralTypeOK, UartLossless, InPhase, uart_vars
<1>5. CASE timer.ctrl /\ c + t >= l
  <2>1. timer' = [timer EXCEPT !.count = c + t - l, !.irq_pending = TRUE] /\ clock' = clock + t
    BY <1>5 DEF TickTimer, timer_tick
  <2>2. /\ timer' \in Timer /\ timer'.count = c + t - l /\ timer'.limit = l
        /\ clock' \in Nat /\ expired' \in Nat
    <3>1. c + t - l \in Nat /\ clock + t \in Nat
      BY <1>1, <1>2, <1>5
    <3>2. expired' \in Nat
      BY <1>1 DEF TickTimer
    <3> QED
      BY <1>1, <1>3, <2>1, <3>1, <3>2 DEF Timer
  <2>3. InPhase'
    <3> SUFFICES ASSUME phased, l >= t
                 PROVE  timer'.count < l /\ clock' = l * expired' + timer'.count
      BY <2>2 DEF InPhase, TickTimer
    <3>1. c < l /\ clock = l * expired + c
      BY DEF PeripheralInv, InPhase
    <3>2. expired' = expired + 1
      BY <1>1, <1>2, <2>1, <2>2 DEF TickTimer
    <3>3. l * (expired + 1) = l * expired + l /\ l * expired \in Nat
      BY <1>1
    <3> QED
      BY <1>1, <1>2, <2>1, <2>2, <3>1, <3>2, <3>3
  <2> QED
    BY <2>2, <2>3
    DEF TickTimer, PeripheralInv, PeripheralTypeOK, UartLossless, uart_vars
<1>6. CASE timer.ctrl /\ ~(c + t >= l)
  <2>1. timer' = [timer EXCEPT !.count = c + t] /\ clock' = clock + t
    BY <1>6 DEF TickTimer, timer_tick
  <2>2. /\ timer' \in Timer /\ timer'.count = c + t /\ timer'.limit = l
        /\ clock' \in Nat /\ expired' = expired
    <3>1. c + t \in Nat /\ clock + t \in Nat
      BY <1>1, <1>2
    <3>2. timer' \in Timer /\ timer'.count = c + t /\ timer'.limit = l
      BY <1>1, <2>1, <3>1 DEF Timer
    <3>3. expired' = expired
      BY <1>1, <1>2, <2>1, <3>2 DEF TickTimer
    <3> QED
      BY <2>1, <3>1, <3>2, <3>3
  <2>3. InPhase'
    <3> SUFFICES ASSUME phased, l >= t
                 PROVE  timer'.count < l /\ clock' = l * expired' + timer'.count
      BY <2>2 DEF InPhase, TickTimer
    <3>1. clock = l * expired + c /\ l * expired \in Nat
      BY <1>1 DEF PeripheralInv, InPhase
    <3> QED
      BY <1>1, <1>2, <1>6, <2>1, <2>2, <3>1
  <2> QED
    BY <1>1, <2>2, <2>3
    DEF TickTimer, PeripheralInv, PeripheralTypeOK, UartLossless, uart_vars
<1> QED
  BY <1>1, <1>4, <1>5, <1>6

\* A register access keeps it: a new count or limit starts a new measurement, and
\* the others touch neither (TimerDevice::write_reg and read_reg).
LEMMA TimerAccessInv ==
    ASSUME PeripheralInv,
           \/ \E v \in Counts : WriteTimer("COUNT", v)
           \/ \E v \in TimerLimits : WriteTimer("LIMIT", v)
           \/ \E v \in {0, 1} : WriteTimer("CTRL", v)
           \/ WriteTimer("IRQ", 0)
           \/ \E reg \in TimerReg : ReadTimer(reg)
    PROVE  PeripheralInv'
<1>1. timer \in Timer /\ clock \in Nat /\ expired \in Nat
  BY DEF PeripheralInv, PeripheralTypeOK
<1>2. ASSUME NEW reg \in {"COUNT", "LIMIT"}, NEW v \in Nat, WriteTimer(reg, v)
      PROVE  PeripheralInv'
  <2>1. timer' \in Timer
    BY <1>1, <1>2 DEF WriteTimer, timer_write, Timer
  <2>2. clock' = timer'.count /\ expired' = 0 /\ phased' = (timer'.count < timer'.limit)
    BY <1>2 DEF WriteTimer, Measured
  <2>3. timer'.count \in Nat /\ timer'.limit \in Nat
    BY <2>1 DEF Timer
  <2>4. InPhase'
    <3>1. timer'.count < timer'.limit => clock' = timer'.limit * expired' + timer'.count
      BY <2>2, <2>3
    <3>2. phased' => timer'.count < timer'.limit
      BY <2>2, Zenon
    <3> QED
      BY <3>1, <3>2, Zenon DEF InPhase
  <2> QED
    BY <1>2, <2>1, <2>2, <2>3, <2>4
    DEF WriteTimer, PeripheralInv, PeripheralTypeOK, UartLossless, uart_vars
<1>3. ASSUME /\ timer' \in Timer /\ timer'.count = timer.count /\ timer'.limit = timer.limit
             /\ UNCHANGED <<clock, expired, phased, uart_vars>>
      PROVE  PeripheralInv'
  BY <1>3 DEF PeripheralInv, PeripheralTypeOK, UartLossless, InPhase, uart_vars
<1>4. ASSUME NEW v, WriteTimer("CTRL", v) \/ WriteTimer("IRQ", v)
      PROVE  PeripheralInv'
  <2>1. timer' \in Timer /\ timer'.count = timer.count /\ timer'.limit = timer.limit
    BY <1>1, <1>4 DEF WriteTimer, timer_write, Timer
  <2> QED
    BY <1>3, <1>4, <2>1 DEF WriteTimer
<1>5. ASSUME NEW reg \in TimerReg, ReadTimer(reg)
      PROVE  PeripheralInv'
  <2>1. timer' \in Timer /\ timer'.count = timer.count /\ timer'.limit = timer.limit
    BY <1>1, <1>5 DEF ReadTimer, timer_read, Timer
  <2> QED
    BY <1>3, <1>5, <2>1 DEF ReadTimer
<1> QED
  BY <1>2, <1>4, <1>5, PeripheralsAssumption

\* The invariant holds throughout.
LEMMA PeripheralInvariance == PeripheralSpec => []PeripheralInv
<1>1. PeripheralInit => PeripheralInv
  <2> SUFFICES ASSUME PeripheralInit PROVE PeripheralInv
    OBVIOUS
  <2>1. timer \in Timer /\ timer.count = 0 /\ timer.limit = CyclesPerTick
    BY IsaAssumption DEF PeripheralInit, Timer
  <2>2. /\ tx \in Seq(Word) /\ printed \in Seq(Word) /\ written \in Seq(Word) /\ Len(tx) < TxLimit
    BY EmptySeq, DeviceAssumption DEF PeripheralInit
  <2>3. printed \o tx = written
    BY EmptySeq, ConcatEmptySeq DEF PeripheralInit
  <2>4. InPhase
    BY <2>1, IsaAssumption DEF PeripheralInit, InPhase
  <2> QED
    BY <2>1, <2>2, <2>3, <2>4 DEF PeripheralInit, PeripheralInv, PeripheralTypeOK, UartLossless
<1>2. PeripheralInv /\ [PeripheralNext]_peripheral_vars => PeripheralInv'
  <2> SUFFICES ASSUME PeripheralInv, [PeripheralNext]_peripheral_vars
               PROVE  PeripheralInv'
    OBVIOUS
  <2>1. CASE UNCHANGED peripheral_vars
    BY <2>1 DEF peripheral_vars, PeripheralInv, PeripheralTypeOK, UartLossless, InPhase
  <2> QED
    BY <2>1, UartInv, TickInv, TimerAccessInv DEF PeripheralNext, TimerNext
<1> QED
  BY <1>1, <1>2, PTL DEF PeripheralSpec

\* Text without NULs is printed once, whole and in order, for buffers of every size
\* (UartDevice::write_reg and flush).
THEOREM NothingUnprinted == PeripheralSpec => []UartLossless
<1>1. PeripheralInv => UartLossless
  BY DEF PeripheralInv
<1> QED
  BY <1>1, PeripheralInvariance, PTL

\* A timer whose limit is at least a tick expires exactly once a period, for every
\* tick and limit (TimerDevice::tick).
THEOREM TimerKeepsTime == PeripheralSpec => []NoDrift
<1>1. PeripheralInv => NoDrift
  <2> SUFFICES ASSUME PeripheralInv, phased, timer.limit >= CyclesPerTick
               PROVE  timer.count = clock % timer.limit /\ expired = clock \div timer.limit
    BY DEF NoDrift
  <2>1. timer.count \in Nat /\ timer.limit \in Nat /\ expired \in Nat
    BY DEF PeripheralInv, PeripheralTypeOK, Timer
  <2>2. timer.count < timer.limit /\ clock = timer.limit * expired + timer.count
    BY DEF PeripheralInv, InPhase
  <2> QED
    BY <2>1, <2>2, DivisionUnique
<1> QED
  BY <1>1, PeripheralInvariance, PTL

--------------------------------------------------------------------------------
\* Warp scheduler

\* How many warps schedule() looks at before w.
Distance(w) == IF w >= rr THEN w - rr ELSE w - rr + NumWarps

\* The variant behind NoStarvation: each time a ready warp is passed over, the search
\* starts closer to it.
ComesCloser == \A w \in Warp : passed[w] + Distance(w) < NumWarps

ParallelInv == ParallelTypeOK /\ ComesCloser

\* Every warp is less than a round away, wherever the pointer is.
LEMMA WithinRound ==
    ASSUME NEW w \in Warp, NEW r \in Warp
    PROVE  LET d == IF w >= r THEN w - r ELSE w - r + NumWarps
           IN  d \in Nat /\ d < NumWarps
BY ParallelAssumption DEF Warp

\* The wrap of the search index (the % n of schedule).
LEMMA WrapOnce ==
    ASSUME NEW n \in Nat, n < 2 * NumWarps
    PROVE  n % NumWarps = IF n < NumWarps THEN n ELSE n - NumWarps
<1>1. NumWarps \in Nat \ {0}
  BY ParallelAssumption
<1>2. CASE n < NumWarps
  <2>1. NumWarps * 0 + n = n
    BY <1>1
  <2>2. (NumWarps * 0 + n) % NumWarps = n
    BY <1>1, <1>2, DivisionUnique
  <2> QED
    BY <1>2, <2>1, <2>2
<1>3. CASE ~(n < NumWarps)
  <2>1. n - NumWarps \in Nat /\ n - NumWarps < NumWarps /\ NumWarps * 1 + (n - NumWarps) = n
    BY <1>1, <1>3
  <2>2. (NumWarps * 1 + (n - NumWarps)) % NumWarps = n - NumWarps
    BY <1>1, <2>1, DivisionUnique
  <2> QED
    BY <1>3, <2>1, <2>2
<1> QED
  BY <1>2, <1>3

\* The candidate at a warp's distance is that warp.
LEMMA CandidateAt ==
    ASSUME rr \in Warp, NEW w \in Warp
    PROVE  Distance(w) \in Warp /\ Candidate(Distance(w)) = w
<1>1. NumWarps \in Nat \ {0} /\ rr \in Nat /\ w \in Nat /\ rr < NumWarps /\ w < NumWarps
  BY ParallelAssumption DEF Warp
<1>2. Distance(w) \in Nat /\ Distance(w) < NumWarps
  BY <1>1 DEF Distance
<1>3. rr + Distance(w) = IF w >= rr THEN w ELSE w + NumWarps
  BY <1>1 DEF Distance
<1>4. rr + Distance(w) \in Nat /\ rr + Distance(w) < 2 * NumWarps
  BY <1>1, <1>2
<1>5. (rr + Distance(w)) % NumWarps = w
  BY <1>1, <1>3, <1>4, WrapOnce
<1> QED
  BY <1>1, <1>2, <1>5 DEF Candidate, Warp

\* schedule() picks a warp, and every other ready one is further from the pointer.
LEMMA ChosenFirst ==
    ASSUME ParallelTypeOK, NEW r \in Warp, state[r] = 0
    PROVE  \E k \in Warp :
              /\ Chosen = Candidate(k)
              /\ \A w \in Warp : state[w] = 0 /\ w # Chosen => Distance(w) > k
<1> DEFINE P(k) == /\ state[Candidate(k)] = 0
                   /\ \A j \in 0 .. k - 1 : state[Candidate(j)] # 0
           T == {k \in Warp : state[Candidate(k)] = 0}
<1>1. rr \in Warp /\ Warp \subseteq Nat
  BY ParallelAssumption DEF ParallelTypeOK, Warp
<1>2. T # {} /\ T \subseteq Nat
  BY <1>1, CandidateAt
<1>3. PICK x \in T : \A y \in T : x <= y
  <2> HIDE DEF T
  <2> QED
    BY <1>2, LeastElement
<1>4. x \in Warp /\ P(x)
  <2>1. x \in Warp /\ state[Candidate(x)] = 0
    BY <1>3
  <2>2. ASSUME NEW j \in 0 .. x - 1
        PROVE  state[Candidate(j)] # 0
    <3>1. j \in Warp /\ j < x /\ j \in Nat /\ x \in Nat
      BY <1>1, <2>1, ParallelAssumption DEF Warp
    <3>2. j \notin T
      <4> HIDE DEF T
      <4> QED
        BY <1>3, <3>1
    <3> QED
      BY <3>1, <3>2
  <2> QED
    BY <2>1, <2>2
<1> DEFINE k == CHOOSE k \in Warp : P(k)
<1>5. k \in Warp /\ P(k)
  <2> HIDE DEF P
  <2> QED
    BY <1>4
<1>6. Chosen = Candidate(k)
  BY DEF Chosen
<1> HIDE DEF k
<1>7. ASSUME NEW w \in Warp, state[w] = 0, w # Chosen
      PROVE  Distance(w) > k
  <2>1. Distance(w) \in Warp /\ Candidate(Distance(w)) = w
    BY <1>1, CandidateAt
  <2>2. Distance(w) # k
    BY <1>6, <1>7, <2>1
  <2>3. ~(Distance(w) \in 0 .. k - 1)
    BY <1>5, <1>7, <2>1
  <2>4. Distance(w) \in Nat /\ k \in Nat
    BY <1>1, <1>5, <2>1
  <2> QED
    BY <2>2, <2>3, <2>4
<1> QED
  BY <1>5, <1>6, <1>7

\* schedule() keeps the invariant.
LEMMA ScheduleInv ==
    ASSUME ParallelInv, Schedule
    PROVE  ParallelInv'
<1>1. PICK r \in Warp : state[r] = 0
  BY DEF Schedule
<1>2. PICK k \in Warp :
         /\ Chosen = Candidate(k)
         /\ \A w \in Warp : state[w] = 0 /\ w # Chosen => Distance(w) > k
  BY <1>1, ChosenFirst DEF ParallelInv
<1> DEFINE c == Chosen
           N == NumWarps
<1>3. N \in Nat \ {0} /\ rr \in 0 .. N - 1 /\ k \in 0 .. N - 1
  BY ParallelAssumption DEF ParallelInv, ParallelTypeOK, Warp
<1>4. c = IF rr + k < N THEN rr + k ELSE rr + k - N
  <2>1. rr + k \in Nat /\ rr + k < 2 * N
    BY <1>3
  <2>2. c = (rr + k) % N
    BY <1>2 DEF Candidate
  <2>3. (rr + k) % N = IF rr + k < N THEN rr + k ELSE rr + k - N
    BY <1>3, <2>1, WrapOnce
  <2> QED
    BY <2>2, <2>3
<1> HIDE DEF c
<1>5. c \in 0 .. N - 1
  BY <1>3, <1>4
<1>6. rr' = IF c + 1 < N THEN c + 1 ELSE 0
  <2>1. c + 1 \in Nat /\ c + 1 < 2 * N
    BY <1>3, <1>5
  <2>2. rr' = (c + 1) % N
    BY DEF Schedule, c
  <2> QED
    BY <1>3, <1>5, <2>1, <2>2, WrapOnce
<1>7. rr' \in 0 .. N - 1
  BY <1>3, <1>5, <1>6
<1>8. passed' = [w \in Warp |-> IF w = c \/ state[w] # 0 THEN 0 ELSE passed[w] + 1]
  BY DEF Schedule, c
<1>9. passed \in [Warp -> Nat] /\ passed' \in [Warp -> Nat]
  BY <1>8 DEF ParallelInv, ParallelTypeOK
<1>10. ASSUME NEW w \in Warp
       PROVE  passed'[w] + Distance(w)' < N
  <2>1. w \in 0 .. N - 1 /\ passed[w] \in Nat /\ passed[w] + Distance(w) < N
    BY <1>9 DEF Warp, ParallelInv, ComesCloser
  <2>2. Distance(w)' = IF w >= rr' THEN w - rr' ELSE w - rr' + N
    BY DEF Distance
  <2>3. CASE w = c \/ state[w] # 0
    <3>1. passed'[w] = 0
      BY <1>8, <2>3
    <3>2. Distance(w)' \in Nat /\ Distance(w)' < N
      BY <1>7, <2>2, WithinRound DEF Warp
    <3> QED
      BY <1>3, <3>1, <3>2
  <2>4. CASE ~(w = c \/ state[w] # 0)
    <3>1. passed'[w] = passed[w] + 1 /\ Distance(w) > k
      BY <1>2, <1>8, <2>4 DEF c
    <3>2. Distance(w)' = Distance(w) - k - 1
      BY <1>3, <1>4, <1>5, <1>6, <2>1, <2>2, <3>1 DEF Distance
    <3>3. Distance(w) \in Nat
      BY <1>3, <2>1 DEF Distance
    <3> QED
      BY <1>3, <2>1, <3>1, <3>2, <3>3
  <2> QED
    BY <2>3, <2>4
<1> QED
  BY <1>7, <1>9, <1>10
  DEF ParallelInv, ParallelTypeOK, ComesCloser, Schedule, array, Warp

\* The invariant holds throughout.
LEMMA ParallelInvariance == ParallelSpec => []ParallelInv
<1>1. NumWarps \in Nat \ {0} /\ Rows \in Nat /\ TileCycles \in Nat
  BY ParallelAssumption
<1>2. ASSUME rr \in Warp, NEW w \in Warp
      PROVE  Distance(w) \in Nat /\ Distance(w) < NumWarps
  BY <1>1, <1>2 DEF Warp, Distance
<1>3. ParallelInit => ParallelInv
  <2> SUFFICES ASSUME ParallelInit PROVE ParallelInv
    OBVIOUS
  <2>1. rr \in Warp /\ \A w \in Warp : passed[w] = 0
    BY <1>1 DEF ParallelInit, Warp
  <2>2. ComesCloser
    BY <1>1, <1>2, <2>1 DEF ComesCloser
  <2> QED
    BY <1>1, <2>1, <2>2 DEF ParallelInit, ParallelInv, ParallelTypeOK
<1>4. ParallelInv /\ [ParallelNext]_parallel_vars => ParallelInv'
  <2> SUFFICES ASSUME ParallelInv, [ParallelNext]_parallel_vars
               PROVE  ParallelInv'
    OBVIOUS
  <2>1. ParallelTypeOK /\ ComesCloser
    BY DEF ParallelInv
  <2>2. CASE Schedule
    BY <2>2, ScheduleInv
  <2>3. ASSUME NEW w \in Warp, MarkReady(w)
        PROVE  ParallelInv'
    BY <2>1, <2>3 DEF MarkReady, ParallelInv, ParallelTypeOK, ComesCloser, Distance, array
  <2>4. ASSUME NEW w \in Warp, NEW cycles \in Stalls, MarkStalled(w, cycles)
        PROVE  ParallelInv'
    <3>1. state' \in [Warp -> Nat] /\ passed \in [Warp -> Nat]
      BY <2>1, <2>4, ParallelAssumption DEF MarkStalled, ParallelTypeOK
    <3>2. passed' = [v \in Warp |-> IF state'[v] = 0 THEN passed[v] ELSE 0]
      BY <2>4 DEF MarkStalled, Waiting
    <3>3. rr' = rr /\ UNCHANGED array
      BY <2>4 DEF MarkStalled
    <3>4. \A v \in Warp : passed'[v] + Distance(v)' < NumWarps
      <4> TAKE v \in Warp
      <4>1. Distance(v)' = Distance(v) /\ Distance(v) \in Nat /\ Distance(v) < NumWarps
        BY <1>2, <2>1, <3>3 DEF Distance, ParallelTypeOK
      <4>2. passed[v] + Distance(v) < NumWarps
        BY <2>1 DEF ComesCloser
      <4>3. passed'[v] = passed[v] \/ passed'[v] = 0
        BY <3>2
      <4> QED
        BY <4>1, <4>2, <4>3
    <3> QED
      BY <2>1, <3>1, <3>2, <3>3, <3>4 DEF ParallelInv, ParallelTypeOK, ComesCloser, array
  <2>5. ASSUME NEW cycles \in Ticks, TickWarps(cycles)
        PROVE  ParallelInv'
    <3>1. cycles \in Nat
      BY ParallelAssumption
    <3>2. state' \in [Warp -> Nat]
      BY <2>1, <2>5, <3>1 DEF TickWarps, ParallelTypeOK
    <3> QED
      BY <2>1, <2>5, <3>2 DEF TickWarps, ParallelInv, ParallelTypeOK, ComesCloser, Distance, array
  <2>6. CASE ResetWarps
    <3>1. rr' \in Warp /\ \A w \in Warp : passed'[w] = 0
      BY <1>1, <2>6 DEF ResetWarps, Warp
    <3>2. \A w \in Warp : Distance(w)' < NumWarps /\ Distance(w)' \in Nat
      <4> TAKE w \in Warp
      <4>1. Distance(w)' = IF w >= rr' THEN w - rr' ELSE w - rr' + NumWarps
        BY DEF Distance
      <4> QED
        BY <3>1, <4>1, WithinRound
    <3>3. ComesCloser'
      BY <3>1, <3>2 DEF ComesCloser
    <3> QED
      BY <2>1, <2>6, <3>1, <3>3 DEF ResetWarps, ParallelInv, ParallelTypeOK, array
  <2>7. CASE EnqueueTile
    BY <1>1, <2>1, <2>7 DEF EnqueueTile, ParallelInv, ParallelTypeOK, ComesCloser, Distance
  <2>8. CASE ResetArray
    BY <1>1, <2>1, <2>8 DEF ResetArray, ParallelInv, ParallelTypeOK, ComesCloser, Distance
  <2>9. CASE UNCHANGED parallel_vars
    BY <2>1, <2>9 DEF parallel_vars, ParallelInv, ParallelTypeOK, ComesCloser, Distance
  <2> QED
    BY <2>2, <2>3, <2>4, <2>5, <2>6, <2>7, <2>8, <2>9 DEF ParallelNext
<1> QED
  BY <1>3, <1>4, PTL DEF ParallelSpec

\* A warp that stays ready is passed over fewer times than there are other warps, for
\* every number of warps (WarpScheduler::schedule).
THEOREM NoWarpStarves == ParallelSpec => []NoStarvation
<1>1. ParallelInv => NoStarvation
  <2> SUFFICES ASSUME ParallelInv, NEW w \in Warp PROVE passed[w] < NumWarps
    BY DEF NoStarvation
  <2>1. passed[w] \in Nat /\ passed[w] + Distance(w) < NumWarps
    BY DEF ParallelInv, ParallelTypeOK, ComesCloser
  <2>2. Distance(w) \in Nat /\ NumWarps \in Nat
    BY ParallelAssumption DEF ParallelInv, ParallelTypeOK, Warp, Distance
  <2> QED
    BY <2>1, <2>2
<1> QED
  BY <1>1, ParallelInvariance, PTL

--------------------------------------------------------------------------------
\* Pipeline

\* NothingLost without its count: each instruction in flight is in one station, and
\* an instruction that is still to be issued is in none.
OnePlace ==
    /\ {rs[k].instr : k \in Occupied} = inflight
    /\ \A j, k \in Occupied : rs[j].instr = rs[k].instr => j = k
    /\ inflight \subseteq 1 .. issued

\* The counter of an entry follows the last outcomes: k equal ones in a row have
\* moved it k steps from the other end, up to 3.
Follows ==
    /\ run \in [PredictorEntry -> Nat] /\ taken \in [PredictorEntry -> BOOLEAN]
    /\ \A e \in PredictorEntry :
          /\ taken[e] => bpred[e] >= run[e] \/ bpred[e] = 3
          /\ ~taken[e] => bpred[e] <= 3 - run[e] \/ bpred[e] = 0

PipelineInv == PipelineTypeOK /\ OnePlace /\ Follows

Station == [occupied : BOOLEAN, instr : 0 .. MaxIssued, issue_cycle : 0 .. cycle]

\* A function that tells the members of a finite set apart has as many values on it.
LEMMA SameCount ==
    ASSUME NEW S, IsFiniteSet(S), NEW f, \A a, b \in S : f[a] = f[b] => a = b
    PROVE  /\ IsFiniteSet({f[a] : a \in S})
           /\ Cardinality({f[a] : a \in S}) = Cardinality(S)
<1> DEFINE T == {f[a] : a \in S}
           g == [a \in S |-> f[a]]
<1>1. g \in [S -> T] /\ \A t \in T : \E a \in S : g[a] = t
  OBVIOUS
<1>2. \A a, b \in S : g[a] = g[b] => a = b
  OBVIOUS
<1>3. g \in Bijection(S, T)
  BY <1>1, <1>2 DEF Bijection, Injection, Surjection, IsInjective
<1>4. ExistsBijection(S, T)
  BY <1>3 DEF ExistsBijection
<1> QED
  BY <1>4, FS_Bijection

\* The stations are finitely many.
LEMMA StationsFinite ==
    ASSUME NEW S, S \subseteq Slot
    PROVE  IsFiniteSet(S) /\ Cardinality(S) \in Nat
<1>1. IsFiniteSet(Slot)
  BY PipelineAssumption, FS_Interval DEF Slot
<1> QED
  BY <1>1, FS_Subset, FS_CardinalityType

\* try_issue finds a free station when there is one.
LEMMA FirstFreeIs ==
    ASSUME Occupied # Slot
    PROVE  FirstFree \in Slot \ Occupied
<1> DEFINE T == Slot \ Occupied
<1>1. T # {} /\ T \subseteq Nat
  BY PipelineAssumption DEF Occupied, Slot
<1>2. \E k \in T : \A j \in T : k <= j
  <2> HIDE DEF T
  <2> QED
    BY <1>1, LeastElement
<1> QED
  BY <1>2 DEF FirstFree

\* try_issue keeps the invariant: the station it fills was free, and the instruction
\* is new.
LEMMA TryIssueInv ==
    ASSUME PipelineInv, TryIssue
    PROVE  PipelineInv'
<1> DEFINE f == FirstFree
           s == [occupied |-> TRUE, instr |-> issued + 1, issue_cycle |-> cycle]
<1>1. f \in Slot /\ f \notin Occupied
  BY FirstFreeIs DEF TryIssue
<1>2. rs' = [rs EXCEPT ![f] = s] /\ issued' = issued + 1 /\ inflight' = inflight \cup {issued + 1}
  BY DEF TryIssue
<1> HIDE DEF f
<1>3. /\ rs \in [Slot -> Station] /\ cycle \in Nat /\ issued \in 0 .. MaxIssued
      /\ issued < MaxIssued /\ MaxIssued \in Nat /\ inflight \subseteq 1 .. issued
  BY PipelineAssumption DEF PipelineInv, PipelineTypeOK, OnePlace, Station, TryIssue
<1>4. s \in Station /\ s.occupied = TRUE /\ s.instr = issued + 1
  BY <1>3 DEF Station
<1> HIDE DEF s
<1>5. rs' \in [Slot -> Station] /\ rs'[f] = s /\ \A k \in Slot \ {f} : rs'[k] = rs[k]
  BY <1>1, <1>2, <1>3, <1>4
<1>6. Occupied' = Occupied \cup {f}
  BY <1>1, <1>4, <1>5 DEF Occupied
<1>7. \A k \in Occupied : rs'[k] = rs[k] /\ rs[k].instr \in inflight /\ rs[k].instr # issued + 1
  <2> TAKE k \in Occupied
  <2>1. rs[k].instr \in inflight /\ k \in Slot \ {f}
    BY <1>1 DEF PipelineInv, OnePlace, Occupied
  <2> QED
    BY <1>3, <1>5, <2>1
<1>8. OnePlace'
  <2>1. {rs'[k].instr : k \in Occupied'} = inflight'
    <3>1. {rs'[k].instr : k \in Occupied} = inflight
      BY <1>7 DEF PipelineInv, OnePlace
    <3>2. {rs'[k].instr : k \in Occupied'} = {rs'[k].instr : k \in Occupied} \cup {rs'[f].instr}
      BY <1>6
    <3> QED
      BY <1>2, <1>4, <1>5, <3>1, <3>2
  <2>2. \A j, k \in Occupied' : rs'[j].instr = rs'[k].instr => j = k
    BY <1>4, <1>5, <1>6, <1>7 DEF PipelineInv, OnePlace
  <2>3. inflight' \subseteq 1 .. issued'
    BY <1>2, <1>3
  <2> QED
    BY <2>1, <2>2, <2>3 DEF OnePlace, Occupied
<1>9. PipelineTypeOK'
  <2>1. issued' \in 0 .. MaxIssued /\ inflight' \subseteq 1 .. MaxIssued
    BY <1>2, <1>3
  <2>2. cycle' = cycle /\ UNCHANGED <<cfg, bpred>>
    BY DEF TryIssue, predictor
  <2> QED
    BY <1>5, <2>1, <2>2 DEF PipelineInv, PipelineTypeOK, Station
<1>10. Follows'
  BY DEF PipelineInv, Follows, TryIssue, predictor
<1> QED
  BY <1>8, <1>9, <1>10 DEF PipelineInv

\* commit() keeps it: what leaves the stations leaves the instructions in flight.
LEMMA CommitInv ==
    ASSUME PipelineInv, CommitReady
    PROVE  PipelineInv'
<1>1. /\ rs \in [Slot -> Station] /\ cycle \in Nat /\ UNCHANGED <<cfg, cycle, issued, predictor>>
  BY DEF PipelineInv, PipelineTypeOK, Station, CommitReady
<1>2. Freed \subseteq Occupied /\ Occupied \subseteq Slot
  BY DEF Freed, Ready, Occupied
<1>3. /\ rs' = [k \in Slot |-> IF k \in Freed THEN [rs[k] EXCEPT !.occupied = FALSE] ELSE rs[k]]
      /\ inflight' = inflight \ {rs[k].instr : k \in Freed}
  BY DEF CommitReady
<1> DEFINE F == Freed
<1> HIDE DEF F
<1>4. \A k \in Slot :
         /\ rs'[k] \in Station /\ rs'[k].instr = rs[k].instr
         /\ rs'[k].occupied = (rs[k].occupied /\ k \notin F)
  <2> TAKE k \in Slot
  <2>1. rs[k] \in Station
    BY <1>1
  <2>2. CASE k \in F
    <3>1. rs'[k] = [rs[k] EXCEPT !.occupied = FALSE]
      BY <1>3, <2>2 DEF F
    <3> QED
      BY <2>1, <2>2, <3>1 DEF Station
  <2>3. CASE k \notin F
    <3>1. rs'[k] = rs[k]
      BY <1>3, <2>3 DEF F
    <3> QED
      BY <2>1, <2>3, <3>1 DEF Station
  <2> QED
    BY <2>2, <2>3
<1>5. rs' \in [Slot -> Station]
  BY <1>3, <1>4
<1>6. Occupied' = Occupied \ F
  BY <1>4 DEF Occupied
<1>7. OnePlace'
  <2>1. {rs'[k].instr : k \in Occupied'} = {rs[k].instr : k \in Occupied \ F}
    BY <1>2, <1>4, <1>6
  <2>2. {rs[k].instr : k \in Occupied \ F} = inflight \ {rs[k].instr : k \in F}
    <3>1. \A j, k \in Occupied : rs[j].instr = rs[k].instr => j = k
      BY DEF PipelineInv, OnePlace
    <3>2. {rs[k].instr : k \in Occupied} = inflight
      BY DEF PipelineInv, OnePlace
    <3>3. F \subseteq Occupied
      BY <1>2 DEF F
    <3> QED
      BY <3>1, <3>2, <3>3
  <2>3. \A j, k \in Occupied' : rs'[j].instr = rs'[k].instr => j = k
    BY <1>2, <1>4, <1>6 DEF PipelineInv, OnePlace
  <2>4. inflight' \subseteq 1 .. issued'
    BY <1>1, <1>3 DEF PipelineInv, OnePlace
  <2> QED
    BY <1>3, <2>1, <2>2, <2>3, <2>4 DEF OnePlace, F
<1>8. PipelineTypeOK'
  <2>1. inflight' \subseteq 1 .. MaxIssued
    BY <1>3 DEF PipelineInv, PipelineTypeOK
  <2> QED
    BY <1>1, <1>5, <2>1 DEF PipelineInv, PipelineTypeOK, Station, predictor
<1>9. Follows'
  BY <1>1 DEF PipelineInv, Follows, predictor
<1> QED
  BY <1>7, <1>8, <1>9 DEF PipelineInv

\* The entry of a branch is one of the predictor's.
LEMMA EntryType ==
    ASSUME NEW pc \in Branches
    PROVE  EntryOf(pc) \in PredictorEntry
BY PipelineAssumption DEF EntryOf, PredictorEntry

\* update_predictor keeps it.
LEMMA PredictorInv ==
    ASSUME PipelineInv, NEW pc \in Branches, NEW t \in BOOLEAN, UpdatePredictor(pc, t)
    PROVE  PipelineInv'
<1> DEFINE e == EntryOf(pc)
           n == bpred[e]
           r == IF t # taken[e] THEN 1 ELSE IF run[e] < MaxRun THEN run[e] + 1 ELSE run[e]
<1>1. e \in PredictorEntry
  BY EntryType
<1>2. /\ bpred' = [bpred EXCEPT ![e] = Counted(n, t)]
      /\ run' = [run EXCEPT ![e] = r] /\ taken' = [taken EXCEPT ![e] = t]
      /\ UNCHANGED <<cfg, cycle, stations>>
  BY DEF UpdatePredictor
<1> HIDE DEF e
<1>3. /\ bpred \in [PredictorEntry -> 0 .. 3] /\ run \in [PredictorEntry -> Nat]
      /\ taken \in [PredictorEntry -> BOOLEAN] /\ MaxRun \in Nat
  BY PipelineAssumption DEF PipelineInv, PipelineTypeOK, Follows
<1>4. n \in 0 .. 3 /\ run[e] \in Nat /\ taken[e] \in BOOLEAN
  BY <1>1, <1>3
<1>5. Counted(n, t) \in 0 .. 3 /\ r \in Nat
  BY <1>4 DEF Counted
<1>6. /\ bpred' \in [PredictorEntry -> 0 .. 3] /\ run' \in [PredictorEntry -> Nat]
      /\ taken' \in [PredictorEntry -> BOOLEAN]
  <2> HIDE DEF r
  <2> QED
    BY <1>2, <1>3, <1>5
<1>7. /\ taken[e] => n >= run[e] \/ n = 3
      /\ ~taken[e] => n <= 3 - run[e] \/ n = 0
  BY <1>1 DEF PipelineInv, Follows
<1>8. /\ t => Counted(n, t) >= r \/ Counted(n, t) = 3
      /\ ~t => Counted(n, t) <= 3 - r \/ Counted(n, t) = 0
  <2>1. CASE t /\ taken[e]
    <3>1. r \in {run[e], run[e] + 1}
      BY <1>4, <2>1
    <3>2. Counted(n, t) = IF n < 3 THEN n + 1 ELSE 3
      BY <2>1 DEF Counted
    <3>3. n >= run[e] \/ n = 3
      BY <1>7, <2>1, Zenon
    <3>4. Counted(n, t) >= r \/ Counted(n, t) = 3
      <4> HIDE DEF r, n
      <4> QED
        BY <1>4, <3>1, <3>2, <3>3
    <3> QED
      BY <2>1, <3>4, Zenon
  <2>2. CASE t /\ ~taken[e]
    <3>1. r = 1
      BY <1>4, <2>2
    <3>2. Counted(n, t) = IF n < 3 THEN n + 1 ELSE 3
      BY <2>2 DEF Counted
    <3>3. Counted(n, t) >= r
      BY <1>4, <3>1, <3>2
    <3> QED
      BY <2>2, <3>3, Zenon
  <2>3. CASE ~t /\ taken[e]
    <3>1. r = 1
      BY <1>4, <2>3
    <3>2. Counted(n, t) = IF n > 0 THEN n - 1 ELSE 0
      BY <2>3 DEF Counted
    <3>3. Counted(n, t) <= 3 - r
      BY <1>4, <3>1, <3>2
    <3> QED
      BY <2>3, <3>3, Zenon
  <2>4. CASE ~t /\ ~taken[e]
    <3>1. r \in {run[e], run[e] + 1}
      BY <1>4, <2>4
    <3>2. Counted(n, t) = IF n > 0 THEN n - 1 ELSE 0
      BY <2>4 DEF Counted
    <3>3. n <= 3 - run[e] \/ n = 0
      BY <1>7, <2>4, Zenon
    <3>4. Counted(n, t) <= 3 - r \/ Counted(n, t) = 0
      <4> HIDE DEF r, n
      <4> QED
        BY <1>4, <3>1, <3>2, <3>3
    <3> QED
      BY <2>4, <3>4, Zenon
  <2> QED
    BY <1>4, <2>1, <2>2, <2>3, <2>4
<1>9. Follows'
  <2>1. ASSUME NEW d \in PredictorEntry
        PROVE  /\ taken'[d] => bpred'[d] >= run'[d] \/ bpred'[d] = 3
               /\ ~taken'[d] => bpred'[d] <= 3 - run'[d] \/ bpred'[d] = 0
    <3> HIDE DEF r, n
    <3>1. CASE d = e
      <4>1. taken'[d] = t /\ bpred'[d] = Counted(n, t) /\ run'[d] = r
        BY <1>1, <1>2, <1>3, <3>1
      <4> QED
        BY <1>8, <4>1, Zenon
    <3>2. CASE d # e
      <4>1. taken'[d] = taken[d] /\ bpred'[d] = bpred[d] /\ run'[d] = run[d]
        BY <1>1, <1>2, <1>3, <3>2
      <4>2. /\ taken[d] => bpred[d] >= run[d] \/ bpred[d] = 3
            /\ ~taken[d] => bpred[d] <= 3 - run[d] \/ bpred[d] = 0
        BY DEF PipelineInv, Follows
      <4> QED
        BY <4>1, <4>2, Zenon
    <3> QED
      BY <3>1, <3>2
  <2> QED
    BY <1>6, <2>1 DEF Follows
<1>10. PipelineTypeOK' /\ OnePlace'
  BY <1>2, <1>6 DEF PipelineInv, PipelineTypeOK, OnePlace, Occupied, stations
<1> QED
  BY <1>9, <1>10 DEF PipelineInv

\* The invariant holds throughout.
LEMMA PipelineInvariance == PipelineSpec => []PipelineInv
<1>1. PipelineInit => PipelineInv
  <2> SUFFICES ASSUME PipelineInit PROVE PipelineInv
    OBVIOUS
  <2>1. MaxIssued \in Nat /\ Empty \in Station /\ Empty.occupied = FALSE
    BY PipelineAssumption DEF PipelineInit, Empty, Station
  <2>2. rs \in [Slot -> Station] /\ Occupied = {}
    BY <2>1 DEF PipelineInit, Occupied
  <2>3. OnePlace
    BY <2>2 DEF PipelineInit, OnePlace
  <2>4. Follows
    BY DEF PipelineInit, Follows
  <2> QED
    BY <2>1, <2>2, <2>3, <2>4 DEF PipelineInit, PipelineInv, PipelineTypeOK, Station
<1>2. PipelineInv /\ [PipelineNext]_pipeline_vars => PipelineInv'
  <2> SUFFICES ASSUME PipelineInv, [PipelineNext]_pipeline_vars
               PROVE  PipelineInv'
    OBVIOUS
  <2>1. CASE NextCycle
    <3>1. cycle \in Nat /\ cycle' = cycle + 1 /\ UNCHANGED <<cfg, stations, predictor>>
      BY <2>1 DEF NextCycle, PipelineInv, PipelineTypeOK
    <3>2. 0 .. cycle \subseteq 0 .. cycle'
      BY <3>1
    <3>3. rs' \in [Slot -> [occupied : BOOLEAN, instr : 0 .. MaxIssued, issue_cycle : 0 .. cycle']]
      <4>1. rs' = rs /\ rs \in [Slot -> [occupied : BOOLEAN, instr : 0 .. MaxIssued, issue_cycle : 0 .. cycle]]
        BY <3>1 DEF PipelineInv, PipelineTypeOK, stations
      <4> QED
        BY <3>2, <4>1
    <3> QED
      BY <3>1, <3>3
      DEF PipelineInv, PipelineTypeOK, OnePlace, Occupied, Follows, stations, predictor
  <2>2. CASE ResetPipeline
    <3>1. Empty \in Station /\ Empty.occupied = FALSE
      BY PipelineAssumption DEF PipelineInv, PipelineTypeOK, Empty, Station
    <3>2. rs' \in [Slot -> Station] /\ Occupied' = {}
      BY <2>2, <3>1 DEF ResetPipeline, Occupied
    <3>3. OnePlace'
      BY <2>2, <3>2 DEF ResetPipeline, OnePlace
    <3> QED
      BY <2>2, <3>2, <3>3
      DEF ResetPipeline, PipelineInv, PipelineTypeOK, Follows, Station, predictor
  <2>3. ASSUME NEW c \in PipelineConfigs, ConfigurePipeline(c)
        PROVE  PipelineInv'
    BY <2>3 DEF ConfigurePipeline, PipelineInv, PipelineTypeOK, OnePlace, Occupied, Follows,
                stations, predictor
  <2>4. CASE UNCHANGED pipeline_vars
    BY <2>4 DEF pipeline_vars, PipelineInv, PipelineTypeOK, OnePlace, Occupied, Follows
  <2> QED
    BY <2>1, <2>2, <2>3, <2>4, TryIssueInv, CommitInv, PredictorInv DEF PipelineNext
<1> QED
  BY <1>1, <1>2, PTL DEF PipelineSpec

\* The number of instructions in a set of stations.
LEMMA InstructionCount ==
    ASSUME PipelineInv, NEW S, S \subseteq Occupied
    PROVE  /\ IsFiniteSet({rs[k].instr : k \in S})
           /\ Cardinality({rs[k].instr : k \in S}) = Cardinality(S)
           /\ Cardinality(S) \in Nat
<1> DEFINE f == [k \in Slot |-> rs[k].instr]
<1>1. S \subseteq Slot /\ IsFiniteSet(S) /\ Cardinality(S) \in Nat
  BY StationsFinite DEF Occupied
<1>2. \A k \in S : f[k] = rs[k].instr
  BY <1>1
<1>3. \A a, b \in S : f[a] = f[b] => a = b
  BY <1>2 DEF PipelineInv, OnePlace
<1>4. {f[k] : k \in S} = {rs[k].instr : k \in S}
  BY <1>2
<1> HIDE DEF f
<1>5. /\ IsFiniteSet({f[k] : k \in S})
      /\ Cardinality({f[k] : k \in S}) = Cardinality(S)
  BY <1>1, <1>3, SameCount
<1> QED
  BY <1>1, <1>4, <1>5

\* No instruction is lost or doubled in the stations, for every number of stations,
\* issue width and order of commits (try_issue, commit).
THEOREM StationsExact == PipelineSpec => []NothingLost
<1>1. PipelineInv => NothingLost
  BY InstructionCount DEF PipelineInv, OnePlace, NothingLost
<1> QED
  BY <1>1, PipelineInvariance, PTL

\* The second bit of a counter.
LEMMA SecondBit == \A n \in 0 .. 3 : ((n \div 2) % 2 = 1) = (n >= 2)
OBVIOUS

\* The predictor is a two-bit counter for every size and sharing of its entries
\* (predict_taken, update_predictor).
THEOREM PredictorTwoBit == PipelineSpec => TwoBit
<1>1. PipelineInv =>
        \A pc \in Branches : cfg.branch_prediction /\ run[EntryOf(pc)] >= 2 =>
           predict_taken(cfg, pc) = taken[EntryOf(pc)]
  <2> SUFFICES ASSUME PipelineInv, NEW pc \in Branches, cfg.branch_prediction, run[EntryOf(pc)] >= 2
               PROVE  predict_taken(cfg, pc) = taken[EntryOf(pc)]
    OBVIOUS
  <2> DEFINE e == EntryOf(pc)
  <2>1. e \in PredictorEntry
    BY EntryType
  <2> HIDE DEF e
  <2>2. bpred[e] \in 0 .. 3 /\ run[e] \in Nat /\ taken[e] \in BOOLEAN /\ run[e] >= 2
    BY <2>1 DEF PipelineInv, PipelineTypeOK, Follows, e
  <2>3. /\ taken[e] => bpred[e] >= run[e] \/ bpred[e] = 3
        /\ ~taken[e] => bpred[e] <= 3 - run[e] \/ bpred[e] = 0
    BY <2>1 DEF PipelineInv, Follows
  <2>4. (bpred[e] >= 2) = taken[e]
    <3>1. CASE taken[e]
      <4>1. bpred[e] >= 2
        BY <2>2, <2>3, <3>1
      <4> QED
        BY <2>2, <3>1, <4>1
    <3>2. CASE ~taken[e]
      <4>1. ~(bpred[e] >= 2)
        BY <2>2, <2>3, <3>2
      <4> QED
        BY <2>2, <3>2, <4>1
    <3> QED
      BY <3>1, <3>2
  <2>5. ((bpred[e] \div 2) % 2 = 1) = (bpred[e] >= 2)
    BY <2>2, SecondBit
  <2>6. predict_taken(cfg, pc) <=> taken[e]
    BY <2>4, <2>5, Zenon DEF predict_taken, e
  <2> QED
    BY <2>2, <2>6, Zenon DEF predict_taken, e
<1>2. PipelineInv /\ [PipelineNext]_pipeline_vars =>
        [\A pc \in Branches :
           bpred' # bpred /\ UpdatePredictor(pc, ~taken[EntryOf(pc)]) /\ run[EntryOf(pc)] >= 3 =>
           predict_taken(cfg, pc)' = predict_taken(cfg, pc)]_pipeline_vars
  <2> SUFFICES ASSUME PipelineInv, NEW pc \in Branches,
                      UpdatePredictor(pc, ~taken[EntryOf(pc)]), run[EntryOf(pc)] >= 3
               PROVE  predict_taken(cfg, pc)' = predict_taken(cfg, pc)
    OBVIOUS
  <2> DEFINE e == EntryOf(pc)
             n == bpred[e]
             t == ~taken[e]
  <2>1. e \in PredictorEntry
    BY EntryType
  <2>2. bpred' = [bpred EXCEPT ![e] = Counted(n, t)] /\ cfg' = cfg
    BY DEF UpdatePredictor
  <2>3. bpred \in [PredictorEntry -> 0 .. 3] /\ run[e] \in Nat /\ taken[e] \in BOOLEAN /\ run[e] >= 3
    BY <2>1 DEF PipelineInv, PipelineTypeOK, Follows
  <2>4. /\ taken[e] => n >= run[e] \/ n = 3
        /\ ~taken[e] => n <= 3 - run[e] \/ n = 0
    BY <2>1 DEF PipelineInv, Follows
  <2>5. predict_taken(cfg, pc) = (cfg.branch_prediction /\ (n \div 2) % 2 = 1)
    BY DEF predict_taken
  <2>6. predict_taken(cfg, pc)' = (cfg.branch_prediction /\ (bpred'[e] \div 2) % 2 = 1)
    BY <2>2 DEF predict_taken, EntryOf
  <2> HIDE DEF e
  <2>7. n \in 0 .. 3 /\ bpred'[e] = Counted(n, t)
    BY <2>1, <2>2, <2>3
  <2>8. (n = 3 /\ bpred'[e] = 2) \/ (n = 0 /\ bpred'[e] = 1)
    <3>1. CASE taken[e]
      <4>1. n = 3
        BY <2>3, <2>4, <2>7, <3>1
      <4>2. Counted(n, t) = IF n > 0 THEN n - 1 ELSE 0
        BY <3>1 DEF Counted
      <4> QED
        BY <2>7, <4>1, <4>2
    <3>2. CASE ~taken[e]
      <4>1. n = 0
        BY <2>3, <2>4, <2>7, <3>2
      <4>2. Counted(n, t) = IF n < 3 THEN n + 1 ELSE 3
        BY <3>2 DEF Counted
      <4> QED
        BY <2>7, <4>1, <4>2
    <3> QED
      BY <3>1, <3>2
  <2>9. ((n \div 2) % 2 = 1) = ((bpred'[e] \div 2) % 2 = 1)
    BY <2>8
  <2> QED
    BY <2>5, <2>6, <2>9
<1> QED
  BY <1>1, <1>2, PipelineInvariance, PTL DEF PipelineSpec, TwoBit

\* commit() frees nothing issued in its own cycle, and leaves a ready instruction
\* only when it freed as many as the width, for every width (commit).
THEOREM CommitTakesCycle == PipelineSpec => CommitsLater
<1>1. PipelineInv /\ [PipelineNext]_pipeline_vars =>
        [rs' # rs /\ CommitReady => \A k \in Slot :
           /\ rs[k].occupied /\ ~rs'[k].occupied => rs[k].issue_cycle < cycle
           /\ rs'[k].occupied /\ rs[k].issue_cycle < cycle =>
                 Cardinality(inflight) - Cardinality(inflight') >= cfg.issue_width]_pipeline_vars
  <2> SUFFICES ASSUME PipelineInv, CommitReady, NEW k \in Slot
               PROVE  /\ rs[k].occupied /\ ~rs'[k].occupied => rs[k].issue_cycle < cycle
                      /\ rs'[k].occupied /\ rs[k].issue_cycle < cycle =>
                            Cardinality(inflight) - Cardinality(inflight') >= cfg.issue_width
    OBVIOUS
  <2>1. /\ rs \in [Slot -> Station] /\ cycle \in Nat /\ cfg \in PipelineConfig
        /\ Freed \subseteq Ready /\ Ready \subseteq Occupied /\ Occupied \subseteq Slot
    BY PipelineAssumption
    DEF PipelineInv, PipelineTypeOK, Station, Freed, Ready, Occupied
  <2>2. \A j \in Slot : rs[j].issue_cycle \in Nat
    BY <2>1 DEF Station
  <2>3. \A j \in Slot : rs'[j] = IF j \in Freed THEN [rs[j] EXCEPT !.occupied = FALSE] ELSE rs[j]
    BY DEF CommitReady
  <2>4. ASSUME rs[k].occupied, ~rs'[k].occupied
        PROVE  rs[k].issue_cycle < cycle
    <3>1. k \in Freed
      BY <2>3, <2>4
    <3>2. rs[k].issue_cycle + 1 <= cycle
      BY <2>1, <3>1 DEF Ready
    <3> QED
      BY <2>1, <2>2, <3>2
  <2>5. ASSUME rs'[k].occupied, rs[k].issue_cycle < cycle
        PROVE  Cardinality(inflight) - Cardinality(inflight') >= cfg.issue_width
    <3> DEFINE T == Ready \ Freed
    <3>1. k \in T
      <4>1. k \notin Freed
        <5>1. k \in Freed => rs'[k].occupied = FALSE
          BY <2>1, <2>3 DEF Station
        <5> QED
          BY <2>5, <5>1
      <4>2. rs[k].occupied
        BY <2>3, <2>5, <4>1
      <4>3. rs[k].issue_cycle + 1 <= cycle
        BY <2>1, <2>2, <2>5
      <4> QED
        BY <4>1, <4>2, <4>3 DEF Ready, Occupied
    <3>2. T \subseteq Nat
      BY <2>1, PipelineAssumption DEF Slot
    <3>3. PICK x \in T : \A y \in T : x <= y
      <4> HIDE DEF T
      <4> QED
        BY <3>1, <3>2, LeastElement
    <3> DEFINE B == {j \in Ready : j < x}
    <3>4. Cardinality(B) \in Nat /\ Cardinality(B) >= cfg.issue_width
      <4>1. Cardinality(B) \in Nat /\ cfg.issue_width \in Nat
        BY <2>1, StationsFinite DEF PipelineConfig
      <4>2. ~(Cardinality(B) = 0 \/ Cardinality(B) < cfg.issue_width)
        BY <3>3 DEF Freed
      <4> QED
        BY <4>1, <4>2
    <3>5. B \subseteq Freed
      <4> SUFFICES ASSUME NEW j \in B PROVE j \in Freed
        OBVIOUS
      <4>1. j \in Nat /\ x \in Nat /\ j < x /\ j \in Ready
        BY <2>1, <3>2, <3>3, PipelineAssumption DEF Slot
      <4>2. j \notin T
        <5> HIDE DEF T
        <5> QED
          BY <3>3, <4>1
      <4> QED
        BY <4>1, <4>2
    <3> HIDE DEF B
    <3>6. Cardinality(B) <= Cardinality(Freed)
      BY <2>1, <3>5, StationsFinite, FS_Subset
    <3> DEFINE I == {rs[j].instr : j \in Freed}
    <3>7. Cardinality(I) = Cardinality(Freed) /\ Cardinality(Freed) \in Nat
      BY <2>1, InstructionCount
    <3>8. IsFiniteSet(inflight) /\ Cardinality(inflight) \in Nat
      <4>1. inflight = {rs[j].instr : j \in Occupied}
        BY DEF PipelineInv, OnePlace
      <4> QED
        BY <4>1, InstructionCount, FS_CardinalityType
    <3>9. inflight \cap I = I /\ inflight' = inflight \ I
      <4>1. inflight = {rs[j].instr : j \in Occupied}
        BY DEF PipelineInv, OnePlace
      <4> QED
        BY <2>1, <4>1 DEF CommitReady
    <3> HIDE DEF I
    <3>10. Cardinality(inflight') = Cardinality(inflight) - Cardinality(I)
      BY <3>8, <3>9, FS_Difference
    <3>11. cfg.issue_width \in Nat
      BY <2>1 DEF PipelineConfig
    <3> QED
      BY <3>4, <3>6, <3>7, <3>8, <3>10, <3>11
  <2> QED
    BY <2>4, <2>5
<1> QED
  BY <1>1, PipelineInvariance, PTL DEF PipelineSpec, CommitsLater

--------------------------------------------------------------------------------
\* Caches

\* No line is twice in a sequence.
Distinct(r) == \A i, j \in 1 .. Len(r) : r[i] = r[j] => i = j

\* Lines of r that a set of that many ways can hold.
Kept(r, ways) == IF Len(r) < ways THEN Len(r) ELSE ways

\* h[k] is the way that holds the k-th line of r, in the order of their ages, and an
\* invalid way is older than all of them.
Ordered(c, r, ways, h) ==
    /\ h \in [1 .. Kept(r, ways) -> 1 .. ways]
    /\ \A k \in 1 .. Kept(r, ways) : c[h[k]].valid /\ c[h[k]].tag = r[k]
    /\ \A i, j \in 1 .. Kept(r, ways) : i < j => c[h[j]].lru < c[h[i]].lru
    /\ \A w \in 1 .. ways : c[w].valid => \E k \in 1 .. Kept(r, ways) : h[k] = w
    /\ \A w \in 1 .. ways : ~c[w].valid =>
          \A k \in 1 .. Kept(r, ways) : c[w].lru < c[h[k]].lru

\* TrueLru of one set with what makes it inductive.
Recency(c, r, ways) == Distinct(r) /\ \E h : Ordered(c, r, ways, h)

CacheWay == [valid : BOOLEAN, dirty : BOOLEAN, tag : Line, lru : Nat]

\* Where a line is found or added.
LEMMA PositionProperties ==
    ASSUME NEW r \in Seq(Line), NEW x \in Line
    PROVE  LET p == Position(r, x)
           IN  /\ p \in 1 .. Len(r) + 1
               /\ p <= Len(r) => r[p] = x
               /\ p > Len(r) => \A k \in 1 .. Len(r) : r[k] # x
<1>1. Len(r) \in Nat
  BY LenProperties
<1> QED
  BY <1>1 DEF Position

\* A line moved to the front: the lines before its place move back by one.
LEMMA ToFrontProperties ==
    ASSUME NEW r \in Seq(Line), NEW x \in Line, Distinct(r)
    PROVE  LET p == Position(r, x)
               s == ToFront(r, x)
           IN  /\ s \in Seq(Line) /\ Distinct(s)
               /\ Len(s) = IF p > Len(r) THEN p ELSE Len(r)
               /\ s[1] = x
               /\ \A k \in 2 .. Len(s) : s[k] = IF k <= p THEN r[k - 1] ELSE r[k]
<1> DEFINE p == Position(r, x)
           l == Len(r)
           n == IF p > l THEN p ELSE l
           s == ToFront(r, x)
           e(k) == IF k = 1 THEN x ELSE IF k <= p THEN r[k - 1] ELSE r[k]
<1>1. l \in Nat /\ \A k \in 1 .. l : r[k] \in Line
  BY LenProperties, ElementOfSeq
<1>2. /\ p \in 1 .. l + 1
      /\ p <= l => r[p] = x
      /\ p > l => \A k \in 1 .. l : r[k] # x
  BY PositionProperties
<1>3. s = [k \in 1 .. n |-> e(k)]
  BY DEF ToFront
<1>4. \A i, j \in 1 .. l : r[i] = r[j] => i = j
  BY DEF Distinct
<1> HIDE DEF p, l
<1>5. n \in Nat /\ n >= 1
  BY <1>1, <1>2
<1>6. \A k \in 1 .. n : e(k) \in Line
  BY <1>1, <1>2
<1>7. s \in Seq(Line) /\ Len(s) = n /\ \A k \in 1 .. n : s[k] = e(k)
  BY <1>3, <1>5, <1>6, IsASeq
<1>8. ASSUME NEW i \in 1 .. n, NEW j \in 1 .. n, e(i) = e(j) PROVE i = j
  <2>1. ASSUME NEW k \in 2 .. n PROVE e(k) # x
    BY <1>1, <1>2, <1>4, <2>1
  <2> DEFINE from(k) == IF k <= p THEN k - 1 ELSE k
  <2>2. \A k \in 2 .. n : from(k) \in 1 .. l /\ e(k) = r[from(k)]
    BY <1>1, <1>2
  <2>3. ASSUME i # 1, j # 1 PROVE i = j
    <3>1. from(i) = from(j)
      BY <1>4, <1>8, <2>2, <2>3
    <3> QED
      BY <1>1, <1>2, <3>1
  <2>4. e(1) = x
    OBVIOUS
  <2> QED
    BY <1>8, <2>1, <2>3, <2>4
<1>9. Distinct(s)
  BY <1>7, <1>8 DEF Distinct
<1> QED
  BY <1>5, <1>7, <1>9 DEF p, l

\* The ways of a set that hold a line are as many as the lines it keeps.
LEMMA OrderedCounts ==
    ASSUME NEW ways \in Nat \ {0}, NEW r \in Seq(Line), NEW c \in [1 .. ways -> CacheWay],
           NEW h, Ordered(c, r, ways, h)
    PROVE  LET n == Kept(r, ways)
               held == {w \in 1 .. ways : c[w].valid}
           IN  /\ n \in Nat /\ n <= ways /\ n <= Len(r)
               /\ Cardinality(held) = n
               /\ n < ways => \E w \in 1 .. ways : ~c[w].valid
               /\ n = ways => \A w \in 1 .. ways : c[w].valid
<1> DEFINE n == Kept(r, ways)
           held == {w \in 1 .. ways : c[w].valid}
<1>1. Len(r) \in Nat
  BY LenProperties
<1>2. n \in Nat /\ n <= ways /\ n <= Len(r)
  BY <1>1 DEF Kept
<1>3. /\ h \in [1 .. n -> 1 .. ways]
      /\ \A k \in 1 .. n : c[h[k]].valid
      /\ \A i, j \in 1 .. n : i < j => c[h[j]].lru < c[h[i]].lru
      /\ \A w \in 1 .. ways : c[w].valid => \E k \in 1 .. n : h[k] = w
  BY DEF Ordered
<1> HIDE DEF n
<1>4. \A w \in 1 .. ways : c[w].lru \in Nat
  BY DEF CacheWay
<1>5. ASSUME NEW i \in 1 .. n, NEW j \in 1 .. n, h[i] = h[j] PROVE i = j
  <2>1. ~(i < j) /\ ~(j < i)
    BY <1>2, <1>3, <1>4, <1>5
  <2> QED
    BY <1>2, <2>1
<1>6. h \in [1 .. n -> held] /\ \A w \in held : \E k \in 1 .. n : h[k] = w
  BY <1>3
<1>7. h \in Bijection(1 .. n, held)
  BY <1>5, <1>6 DEF Bijection, Injection, Surjection, IsInjective
<1>8. ExistsBijection(1 .. n, held)
  BY <1>7 DEF ExistsBijection
<1>9. IsFiniteSet(1 .. n) /\ Cardinality(1 .. n) = n
  <2>1. Cardinality(1 .. n) = IF 1 > n THEN 0 ELSE n - 1 + 1
    BY <1>2, FS_Interval
  <2>2. IsFiniteSet(1 .. n)
    BY <1>2, FS_Interval
  <2> QED
    BY <1>2, <2>1, <2>2
<1>10. Cardinality(held) = n
  BY <1>8, <1>9, FS_Bijection
<1>11. IsFiniteSet(1 .. ways) /\ Cardinality(1 .. ways) = ways
  <2>1. Cardinality(1 .. ways) = IF 1 > ways THEN 0 ELSE ways - 1 + 1
    BY FS_Interval
  <2>2. IsFiniteSet(1 .. ways)
    BY FS_Interval
  <2> QED
    BY <2>1, <2>2
<1>12. held \in SUBSET (1 .. ways)
  OBVIOUS
<1>13. ASSUME n = ways PROVE \A w \in 1 .. ways : c[w].valid
  <2>1. held = 1 .. ways
    BY <1>10, <1>11, <1>12, <1>13, FS_Subset
  <2> QED
    BY <2>1
<1>14. ASSUME \A w \in 1 .. ways : c[w].valid PROVE n = ways
  <2>1. held = 1 .. ways
    BY <1>14
  <2> QED
    BY <1>10, <1>11, <2>1
<1> QED
  BY <1>2, <1>10, <1>13, <1>14 DEF n

\* One access of a set keeps it: the line found, or else the oldest way, becomes the
\* youngest, and the way to go is the one of the line that r lets go.
LEMMA AccessRecency ==
    ASSUME NEW ways \in Nat \ {0}, NEW r \in Seq(Line), NEW c \in [1 .. ways -> CacheWay],
           Recency(c, r, ways), NEW x \in Line, NEW w \in 1 .. ways,
           NEW l \in CacheWay, l.valid, l.tag = x, \A u \in 1 .. ways : c[u].lru < l.lru,
           \/ c[w].valid /\ c[w].tag = x
           \/ /\ \A u \in 1 .. ways : ~(c[u].valid /\ c[u].tag = x)
              /\ \A u \in 1 .. ways : c[w].lru <= c[u].lru
    PROVE  Recency([c EXCEPT ![w] = l], ToFront(r, x), ways)
<1>1. PICK h : Ordered(c, r, ways, h)
  BY DEF Recency
<1> DEFINE n == Kept(r, ways)
           p == Position(r, x)
           s == ToFront(r, x)
           o == Kept(s, ways)
           d == [c EXCEPT ![w] = l]
<1>2. /\ n \in Nat /\ n <= ways /\ n <= Len(r) /\ (Len(r) < ways => n = Len(r))
      /\ n < ways => \E u \in 1 .. ways : ~c[u].valid
      /\ n = ways => \A u \in 1 .. ways : c[u].valid
  BY <1>1, OrderedCounts DEF Kept
<1>3. /\ h \in [1 .. n -> 1 .. ways]
      /\ \A k \in 1 .. n : c[h[k]].valid /\ c[h[k]].tag = r[k]
      /\ \A i, j \in 1 .. n : i < j => c[h[j]].lru < c[h[i]].lru
      /\ \A u \in 1 .. ways : c[u].valid => \E k \in 1 .. n : h[k] = u
      /\ \A u \in 1 .. ways : ~c[u].valid => \A k \in 1 .. n : c[u].lru < c[h[k]].lru
  BY <1>1 DEF Ordered
<1>4. /\ p \in 1 .. Len(r) + 1
      /\ p <= Len(r) => r[p] = x
      /\ p > Len(r) => \A k \in 1 .. Len(r) : r[k] # x
  BY PositionProperties
<1>5. /\ s \in Seq(Line) /\ Distinct(s)
      /\ Len(s) = IF p > Len(r) THEN p ELSE Len(r)
      /\ s[1] = x
      /\ \A k \in 2 .. Len(s) : s[k] = IF k <= p THEN r[k - 1] ELSE r[k]
  BY ToFrontProperties DEF Recency
<1>6. Len(r) \in Nat /\ \A i, j \in 1 .. Len(r) : r[i] = r[j] => i = j
  BY LenProperties DEF Recency, Distinct
<1>7. o = IF Len(s) < ways THEN Len(s) ELSE ways
  BY DEF Kept
<1>8. \A u \in 1 .. ways : c[u].lru \in Nat
  BY DEF CacheWay
<1>9. n = IF Len(r) < ways THEN Len(r) ELSE ways
  BY DEF Kept
<1> HIDE DEF n, p, s, o
\* The place from which the line comes in the new order.
<1>10. PICK q \in 1 .. o :
          /\ q <= p /\ (q = p \/ q = o) /\ o <= Len(s)
          /\ o = n \/ (o = n + 1 /\ q = o)
          /\ q <= n => w = h[q]
          /\ q > n => ~c[w].valid
  <2>1. CASE c[w].valid /\ c[w].tag = x
    <3>1. PICK k \in 1 .. n : h[k] = w
      BY <1>3, <2>1
    <3>2. r[k] = x /\ k \in 1 .. Len(r)
      BY <1>2, <1>3, <2>1, <3>1
    <3>3. p = k
      BY <1>4, <1>6, <3>2
    <3>4. o = n /\ k \in 1 .. o /\ o <= Len(s)
      BY <1>2, <1>5, <1>6, <1>7, <1>9, <3>2, <3>3
    <3> QED
      BY <1>2, <3>1, <3>3, <3>4
  <2>2. CASE /\ \A u \in 1 .. ways : ~(c[u].valid /\ c[u].tag = x)
             /\ \A u \in 1 .. ways : c[w].lru <= c[u].lru
    <3>1. \A k \in 1 .. n : r[k] # x
      BY <1>3, <2>2
    <3>2. p > n
      BY <1>2, <1>4, <1>6, <3>1
    <3>3. CASE n < ways
      <4>1. ~c[w].valid
        <5>1. PICK u \in 1 .. ways : ~c[u].valid
          BY <1>2, <3>3
        <5>2. c[w].lru <= c[u].lru
          BY <2>2
        <5>3. ASSUME c[w].valid PROVE FALSE
          <6>1. PICK k \in 1 .. n : h[k] = w
            BY <1>3, <5>3
          <6>2. c[u].lru < c[w].lru
            BY <1>3, <5>1, <6>1
          <6> QED
            BY <1>8, <5>2, <6>2
        <5> QED
          BY <5>3
      <4>2. p = n + 1 /\ o = n + 1 /\ o \in 1 .. o /\ o <= Len(s)
        BY <1>2, <1>4, <1>5, <1>6, <1>7, <1>9, <3>2, <3>3
      <4> QED
        BY <1>2, <4>1, <4>2
    <3>4. CASE n = ways
      <4>1. PICK k \in 1 .. n : h[k] = w
        BY <1>2, <1>3, <3>4
      <4>2. n \in 1 .. n /\ h[n] \in 1 .. ways
        BY <1>2, <1>3, <3>4
      <4>3. c[w].lru <= c[h[n]].lru
        BY <2>2, <4>2
      <4>4. ~(k < n)
        BY <1>3, <1>8, <4>1, <4>2, <4>3
      <4>5. k = n
        BY <1>2, <4>4
      <4>6. o = n /\ n \in 1 .. o /\ o <= Len(s)
        BY <1>2, <1>5, <1>6, <1>7, <1>9, <3>2, <3>4
      <4> QED
        BY <1>2, <1>4, <1>6, <3>2, <4>1, <4>5, <4>6
    <3> QED
      BY <1>2, <3>3, <3>4
  <2> QED
    BY <2>1, <2>2
<1> DEFINE from(k) == IF k <= q THEN k - 1 ELSE k
           g == [k \in 1 .. o |-> IF k = 1 THEN w ELSE h[from(k)]]
<1>11. o \in Nat
  BY <1>2, <1>10
<1>12. \A k \in 2 .. o : from(k) \in 1 .. n /\ from(k) # q /\ s[k] = r[from(k)]
  BY <1>2, <1>4, <1>5, <1>6, <1>10, <1>11
<1>13. \A i, j \in 2 .. o : i < j => from(i) < from(j)
  BY <1>10, <1>11
<1>14. \A j \in 1 .. n : j # q => \E k \in 2 .. o : from(k) = j
  <2> SUFFICES ASSUME NEW j \in 1 .. n, j # q PROVE \E k \in 2 .. o : from(k) = j
    OBVIOUS
  <2>1. CASE j < q
    <3>1. j + 1 \in 2 .. o /\ from(j + 1) = j
      BY <1>2, <1>10, <1>11, <2>1
    <3> QED
      BY <3>1
  <2>2. CASE j > q
    <3>1. j \in 2 .. o /\ from(j) = j
      BY <1>2, <1>10, <1>11, <2>2
    <3> QED
      BY <3>1
  <2> QED
    BY <1>2, <1>11, <2>1, <2>2
<1>15. \A j \in 1 .. n : j # q => h[j] # w
  <2> SUFFICES ASSUME NEW j \in 1 .. n, j # q, h[j] = w PROVE FALSE
    OBVIOUS
  <2>1. q <= n
    BY <1>2, <1>3, <1>10, <1>11
  <2>2. h[q] = w /\ q \in 1 .. n
    BY <1>2, <1>10, <1>11, <2>1
  <2>3. c[w].lru \in Nat
    BY <1>8
  <2> QED
    BY <1>2, <1>3, <2>2, <2>3
<1> HIDE DEF from
<1>16. /\ g[1] = w /\ d[w] = l /\ 1 \in 1 .. o
       /\ \A k \in 2 .. o : g[k] = h[from(k)] /\ g[k] # w /\ d[g[k]] = c[h[from(k)]]
  BY <1>3, <1>10, <1>11, <1>12, <1>15
<1>17. \A k \in 1 .. o : k = 1 \/ k \in 2 .. o
  BY <1>11
<1>18. g \in [1 .. o -> 1 .. ways]
  <2>1. \A k \in 1 .. o : g[k] \in 1 .. ways
    BY <1>3, <1>12, <1>16, <1>17
  <2> QED
    BY <2>1
<1>19. DOMAIN c = 1 .. ways /\ \A u \in 1 .. ways : u # w => d[u] = c[u]
  OBVIOUS
<1> HIDE DEF g, d
<1>20. ASSUME NEW k \in 1 .. o PROVE d[g[k]].valid /\ d[g[k]].tag = s[k]
  <2>1. CASE k = 1
    BY <1>5, <1>16, <2>1
  <2>2. CASE k \in 2 .. o
    <3>1. from(k) \in 1 .. n /\ s[k] = r[from(k)] /\ d[g[k]] = c[h[from(k)]]
      BY <1>12, <1>16, <2>2
    <3> QED
      BY <1>3, <3>1
  <2> QED
    BY <1>17, <2>1, <2>2
<1>21. \A i, j \in 1 .. o : i < j => d[g[j]].lru < d[g[i]].lru
  <2> SUFFICES ASSUME NEW i \in 1 .. o, NEW j \in 1 .. o, i < j
               PROVE  d[g[j]].lru < d[g[i]].lru
    OBVIOUS
  <2>1. j \in 2 .. o
    BY <1>11
  <2>2. CASE i = 1
    <3>1. from(j) \in 1 .. n /\ h[from(j)] \in 1 .. ways
      BY <1>3, <1>12, <2>1
    <3>2. d[g[j]].lru = c[h[from(j)]].lru /\ d[g[i]].lru = l.lru
      BY <1>16, <2>1, <2>2
    <3> QED
      BY <3>1, <3>2
  <2>3. CASE i \in 2 .. o
    <3>1. from(i) \in 1 .. n /\ from(j) \in 1 .. n /\ from(i) < from(j)
      BY <1>12, <1>13, <2>1, <2>3
    <3>2. d[g[i]] = c[h[from(i)]] /\ d[g[j]] = c[h[from(j)]]
      BY <1>16, <2>1, <2>3
    <3> QED
      BY <1>3, <3>1, <3>2
  <2> QED
    BY <1>17, <2>2, <2>3
<1>22. ASSUME NEW u \in 1 .. ways, d[u].valid PROVE \E k \in 1 .. o : g[k] = u
  <2>1. CASE u = w
    BY <1>16, <2>1
  <2>2. CASE u # w
    <3>1. PICK j \in 1 .. n : h[j] = u
      BY <1>3, <1>19, <1>22, <2>2
    <3>2. j # q
      BY <1>2, <1>10, <2>2, <3>1
    <3>3. PICK k \in 2 .. o : from(k) = j
      BY <1>14, <3>2
    <3>4. k \in 1 .. o
      BY <1>11
    <3> QED
      BY <1>16, <3>1, <3>3, <3>4
  <2> QED
    BY <2>1, <2>2
<1>23. ASSUME NEW u \in 1 .. ways, ~d[u].valid, NEW k \in 1 .. o PROVE d[u].lru < d[g[k]].lru
  <2>1. u # w /\ d[u] = c[u]
    BY <1>16, <1>19, <1>23
  <2> QED
    BY <1>3, <1>12, <1>16, <1>17, <1>23, <2>1
<1>24. Ordered(d, s, ways, g)
  BY <1>18, <1>20, <1>21, <1>22, <1>23 DEF Ordered, o
<1> QED
  BY <1>5, <1>24 DEF Recency, d, s

\* A cache of level v after t accesses, with the lines they were of.
LevelGood(v, c, r, t) ==
    /\ c \in [SetIndex(v) -> [Way(v) -> [valid : BOOLEAN, dirty : BOOLEAN, tag : Line,
                                         lru : 0 .. t]]]
    /\ r \in [SetIndex(v) -> Seq(Line)]
    /\ \A s \in SetIndex(v) :
          /\ Recency(c[s], r[s], CacheConfigs[v].ways)
          /\ \A w \in Way(v) : /\ c[s][w].valid => SetOf(v, c[s][w].tag) = s
                               /\ c[s][w].dirty => c[s][w].valid

\* The caches, and the memory controller with the rows the property remembers.
CacheInv ==
    /\ DOMAIN sets = Level /\ DOMAIN recent = Level
    /\ tick \in [Level -> Nat] /\ writebacks \in [Level -> Nat]
    /\ open \in [0 .. Banks - 1 -> Nat \cup {NoRow}] /\ lastRow = open
    /\ stall \in Nat
    /\ \A v \in Level : LevelGood(v, sets[v], recent[v], tick[v])

\* Sizes of a level, and where a line may be in it.
LEMMA LevelSizes ==
    ASSUME NEW v \in Level
    PROVE  /\ CacheConfigs[v].sets \in Nat \ {0} /\ CacheConfigs[v].ways \in Nat \ {0}
           /\ CacheConfigs[v].hit \in Nat /\ CacheConfigs[v].miss \in Nat
           /\ \A x \in Line : x \in Nat /\ SetOf(v, x) \in SetIndex(v)
<1>1. CacheConfigs[v] \in CacheConfig
  BY CacheAssumption
<1>2. \A x \in Line : x \in Nat
  BY CacheAssumption DEF Line
<1> QED
  BY <1>1, <1>2 DEF CacheConfig, SetOf, SetIndex

\* The way an access uses: the one that holds the line, or else the oldest.
LEMMA AccessWay ==
    ASSUME NEW v \in Level, NEW x \in Line, NEW c,
           \A w \in Way(v) : c[SetOf(v, x)][w].lru \in Nat
    PROVE  LET ways == c[SetOf(v, x)]
           IN  /\ Holds(c, v, x) => LET w == WayOf(c, v, x)
                                    IN  w \in Way(v) /\ ways[w].valid /\ ways[w].tag = x
               /\ LET w == Victim(ways, v)
                  IN  w \in Way(v) /\ \A u \in Way(v) : ways[w].lru <= ways[u].lru
<1> DEFINE ways == c[SetOf(v, x)]
           N == CacheConfigs[v].ways
<1>1. N \in Nat \ {0} /\ Way(v) = 1 .. N
  BY LevelSizes DEF Way
<1> HIDE DEF N
<1>2. ASSUME Holds(c, v, x)
      PROVE  LET w == WayOf(c, v, x) IN w \in Way(v) /\ ways[w].valid /\ ways[w].tag = x
  <2> DEFINE S == {w \in 1 .. N : ways[w].valid /\ ways[w].tag = x}
  <2>1. S \subseteq Nat /\ S # {}
    BY <1>1, <1>2 DEF Holds
  <2>2. PICK w \in S : \A u \in S : w <= u
    BY <2>1, LeastElement
  <2>3. \A u \in 1 .. w - 1 : ~(ways[u].valid /\ ways[u].tag = x)
    BY <1>1, <2>2
  <2> QED
    BY <1>1, <2>2, <2>3 DEF WayOf
<1>3. LET w == Victim(ways, v) IN w \in Way(v) /\ \A u \in Way(v) : ways[w].lru <= ways[u].lru
  <2> DEFINE L == {ways[w].lru : w \in 1 .. N}
  <2>1. L \subseteq Nat /\ ways[1].lru \in L
    BY <1>1
  <2>2. PICK a \in L : \A b \in L : a <= b
    BY <2>1, LeastElement
  <2> DEFINE S == {w \in 1 .. N : ways[w].lru = a}
  <2>3. S \subseteq Nat /\ S # {}
    BY <1>1, <2>2
  <2>4. PICK w \in S : \A u \in S : w <= u
    BY <2>3, LeastElement
  <2>5. \A u \in 1 .. N : ways[w].lru <= ways[u].lru
    BY <2>2, <2>4
  <2>6. ASSUME NEW u \in 1 .. w - 1 PROVE ways[w].lru < ways[u].lru
    <3>1. u \in 1 .. N /\ u \notin S
      BY <1>1, <2>4
    <3>2. ways[u].lru \in Nat /\ ways[w].lru \in Nat /\ ways[u].lru # ways[w].lru
      BY <1>1, <2>4, <3>1
    <3> QED
      BY <2>5, <3>1, <3>2
  <2> QED
    BY <1>1, <2>4, <2>5, <2>6 DEF Victim
<1> QED
  BY <1>2, <1>3

\* Cache::access keeps a level good.
LEMMA AccessGood ==
    ASSUME NEW v \in Level, NEW x \in Line, NEW b \in BOOLEAN, NEW t \in Nat,
           NEW c, NEW r, LevelGood(v, c, r, t)
    PROVE  LevelGood(v, access(c, v, x, t + 1, b), [r EXCEPT ![SetOf(v, x)] = ToFront(@, x)], t + 1)
<1> DEFINE i == SetOf(v, x)
           ways == c[i]
           N == CacheConfigs[v].ways
           w == IF Holds(c, v, x) THEN WayOf(c, v, x) ELSE Victim(ways, v)
           l == IF Holds(c, v, x) THEN Hit(ways[w], t + 1, b) ELSE Filled(x, t + 1, b)
           Entry == [valid : BOOLEAN, dirty : BOOLEAN, tag : Line, lru : 0 .. t]
           Entry1 == [valid : BOOLEAN, dirty : BOOLEAN, tag : Line, lru : 0 .. t + 1]
           d == [c EXCEPT ![i] = [@ EXCEPT ![w] = l]]
           q == [r EXCEPT ![i] = ToFront(@, x)]
<1>1. N \in Nat \ {0} /\ Way(v) = 1 .. N /\ i \in SetIndex(v)
  BY LevelSizes DEF Way
<1>2. /\ c \in [SetIndex(v) -> [Way(v) -> Entry]] /\ r \in [SetIndex(v) -> Seq(Line)]
      /\ \A s \in SetIndex(v) :
          /\ Recency(c[s], r[s], N)
          /\ \A u \in Way(v) : /\ c[s][u].valid => SetOf(v, c[s][u].tag) = s
                               /\ c[s][u].dirty => c[s][u].valid
  BY DEF LevelGood
<1>3. ways \in [Way(v) -> Entry] /\ \A u \in Way(v) : ways[u] \in Entry /\ ways[u].lru \in Nat
  BY <1>1, <1>2
<1>4. /\ Holds(c, v, x) => LET u == WayOf(c, v, x)
                           IN  u \in Way(v) /\ ways[u].valid /\ ways[u].tag = x
      /\ LET u == Victim(ways, v)
         IN  u \in Way(v) /\ \A y \in Way(v) : ways[u].lru <= ways[y].lru
  BY <1>3, AccessWay
<1>5. ~Holds(c, v, x) => \A u \in Way(v) : ~(ways[u].valid /\ ways[u].tag = x)
  BY DEF Holds
<1>6. /\ w \in Way(v)
      /\ \/ ways[w].valid /\ ways[w].tag = x
         \/ /\ \A u \in Way(v) : ~(ways[u].valid /\ ways[u].tag = x)
            /\ \A u \in Way(v) : ways[w].lru <= ways[u].lru
  BY <1>4, <1>5
<1>7. l \in Entry1 /\ l.valid /\ l.tag = x /\ l.lru = t + 1
  <2>1. CASE Holds(c, v, x)
    <3>1. l = Hit(ways[w], t + 1, b) /\ ways[w] \in Entry /\ ways[w].valid /\ ways[w].tag = x
      BY <1>3, <1>4, <2>1
    <3> HIDE DEF w, ways, l
    <3>2. (ways[w].dirty \/ b) \in BOOLEAN
      OBVIOUS
    <3>3. l = [valid |-> ways[w].valid, dirty |-> ways[w].dirty \/ b, tag |-> ways[w].tag,
               lru |-> t + 1]
      BY <3>1 DEF Hit
    <3>4. ways[w].valid \in BOOLEAN /\ ways[w].tag \in Line /\ t + 1 \in 0 .. t + 1
      BY <3>1
    <3> DEFINE y == ways[w].dirty \/ b
    <3> HIDE DEF y
    <3>5. y \in BOOLEAN /\ l = [valid |-> ways[w].valid, dirty |-> y, tag |-> ways[w].tag,
                               lru |-> t + 1]
      BY <3>2, <3>3 DEF y
    <3>6. l \in Entry1
      BY <3>4, <3>5
    <3>7. l.valid = ways[w].valid /\ l.tag = ways[w].tag /\ l.lru = t + 1
      BY <3>5
    <3> QED
      BY <3>1, <3>6, <3>7
  <2>2. CASE ~Holds(c, v, x)
    BY <2>2 DEF Filled
  <2> QED
    BY <2>1, <2>2
<1>8. access(c, v, x, t + 1, b) = d
  BY DEF access
<1> HIDE DEF w, l
<1>9. Recency([ways EXCEPT ![w] = l], ToFront(r[i], x), N)
  <2>1. ways \in [1 .. N -> CacheWay] /\ l \in CacheWay
    BY <1>1, <1>3, <1>7 DEF CacheWay
  <2>2. Recency(ways, r[i], N) /\ r[i] \in Seq(Line)
    BY <1>1, <1>2
  <2>3. \A u \in 1 .. N : ways[u].lru < l.lru
    BY <1>1, <1>3, <1>7
  <2> HIDE DEF ways, N, i
  <2> QED
    BY <1>1, <1>6, <1>7, <2>1, <2>2, <2>3, AccessRecency
<1>10. ToFront(r[i], x) \in Seq(Line)
  BY <1>1, <1>2, ToFrontProperties DEF Recency
<1>11. d[i] = [ways EXCEPT ![w] = l] /\ q[i] = ToFront(r[i], x)
  BY <1>1, <1>2
<1>12. \A s \in SetIndex(v) : s # i => d[s] = c[s] /\ q[s] = r[s]
  BY <1>1, <1>2
<1>13. d \in [SetIndex(v) -> [Way(v) -> Entry1]] /\ q \in [SetIndex(v) -> Seq(Line)]
  <2>1. \A s \in SetIndex(v) : c[s] \in [Way(v) -> Entry1]
    BY <1>2
  <2>2. [ways EXCEPT ![w] = l] \in [Way(v) -> Entry1]
    BY <1>1, <1>6, <1>7, <2>1
  <2> QED
    BY <1>2, <1>10, <2>1, <2>2
<1>14. \A u \in Way(v) : d[i][u] = IF u = w THEN l ELSE ways[u]
  BY <1>3, <1>11
<1> HIDE DEF d, q
<1>15. ASSUME NEW s \in SetIndex(v)
       PROVE  /\ Recency(d[s], q[s], N)
              /\ \A u \in Way(v) : /\ d[s][u].valid => SetOf(v, d[s][u].tag) = s
                                   /\ d[s][u].dirty => d[s][u].valid
  <2>1. CASE s = i
    BY <1>1, <1>2, <1>7, <1>9, <1>11, <1>14, <2>1
  <2>2. CASE s # i
    BY <1>2, <1>12, <2>2
  <2> QED
    BY <2>1, <2>2
<1>16. LevelGood(v, d, q, t + 1)
  BY <1>13, <1>15 DEF LevelGood
<1> QED
  BY <1>8, <1>16 DEF d, q

\* A set without a valid way, of which nothing is remembered.
LEMMA EmptyRecency ==
    ASSUME NEW ways \in Nat \ {0}, NEW c, \A w \in 1 .. ways : ~c[w].valid
    PROVE  Recency(c, << >>, ways)
<1>1. Kept(<< >>, ways) = 0
  BY DEF Kept
<1>2. Ordered(c, << >>, ways, [k \in 1 .. 0 |-> 1])
  BY <1>1 DEF Ordered
<1> QED
  BY <1>2 DEF Recency, Distinct

\* Cache::configure leaves a good level.
LEMMA EmptyGood ==
    ASSUME NEW v \in Level
    PROVE  LevelGood(v, [s \in SetIndex(v) |-> [w \in Way(v) |-> EmptyWay]],
                     [s \in SetIndex(v) |-> << >>], 0)
<1> DEFINE d == [s \in SetIndex(v) |-> [w \in Way(v) |-> EmptyWay]]
<1>1. CacheConfigs[v].ways \in Nat \ {0} /\ Way(v) = 1 .. CacheConfigs[v].ways
  BY LevelSizes DEF Way
<1>2. << >> \in Seq(Line) /\ 0 \in Line
  BY CacheAssumption DEF Line
<1>3. d \in [SetIndex(v) -> [Way(v) -> [valid : BOOLEAN, dirty : BOOLEAN, tag : Line,
                                        lru : 0 .. 0]]]
  BY <1>2 DEF EmptyWay
<1>4. \A s \in SetIndex(v) : \A w \in Way(v) : ~d[s][w].valid /\ ~d[s][w].dirty
  BY DEF EmptyWay
<1> HIDE DEF d
<1>5. \A s \in SetIndex(v) : Recency(d[s], << >>, CacheConfigs[v].ways)
  BY <1>1, <1>4, EmptyRecency
<1> QED
  BY <1>2, <1>3, <1>4, <1>5 DEF LevelGood, d

\* Cache::flush leaves one, with the ages of the lines it had.
LEMMA FlushedGood ==
    ASSUME NEW v \in Level, NEW t \in Nat, NEW c, NEW r, LevelGood(v, c, r, t)
    PROVE  LevelGood(v, Flushed(c, v), [s \in SetIndex(v) |-> << >>], t)
<1> DEFINE d == Flushed(c, v)
<1>1. CacheConfigs[v].ways \in Nat \ {0} /\ Way(v) = 1 .. CacheConfigs[v].ways
  BY LevelSizes DEF Way
<1>2. \A s \in SetIndex(v) : \A w \in Way(v) :
        c[s][w] \in [valid : BOOLEAN, dirty : BOOLEAN, tag : Line, lru : 0 .. t]
  BY DEF LevelGood
<1>3. d \in [SetIndex(v) -> [Way(v) -> [valid : BOOLEAN, dirty : BOOLEAN, tag : Line,
                                        lru : 0 .. t]]]
  BY <1>2 DEF Flushed
<1>4. \A s \in SetIndex(v) : \A w \in Way(v) : ~d[s][w].valid /\ ~d[s][w].dirty
  BY <1>2 DEF Flushed
<1> HIDE DEF d
<1>5. \A s \in SetIndex(v) : Recency(d[s], << >>, CacheConfigs[v].ways)
  BY <1>1, <1>4, EmptyRecency
<1>6. << >> \in Seq(Line)
  OBVIOUS
<1> QED
  BY <1>3, <1>4, <1>5, <1>6 DEF LevelGood, d

\* Banks, rows and stall cycles are numbers.
LEMMA StallType ==
    ASSUME CacheInv, NEW x \in Line
    PROVE  /\ LevelStall(1, x) + LevelStall(2, x) + LevelStall(3, x) + McStall(x) \in Nat
           /\ BankOf(x) \in 0 .. Banks - 1 /\ RowOf(x) \in Nat
<1>1. x \in Nat /\ Banks \in Nat \ {0} /\ RowLines \in Nat \ {0}
  BY CacheAssumption DEF Line
<1>2. BankOf(x) \in 0 .. Banks - 1 /\ RowOf(x) \in Nat
  BY <1>1 DEF BankOf, RowOf
<1>3. \A v \in Level : LevelStall(v, x) \in Nat
  BY LevelSizes DEF LevelStall
<1>4. 1 \in Level /\ 2 \in Level /\ 3 \in Level
  BY DEF Level
<1>5. McStall(x) \in Nat
  BY CacheAssumption DEF McStall
<1>6. LevelStall(1, x) \in Nat /\ LevelStall(2, x) \in Nat /\ LevelStall(3, x) \in Nat
  BY <1>3, <1>4
<1> QED
  BY <1>2, <1>5, <1>6

\* Every operation of the hierarchy keeps the invariant.
LEMMA CacheStep ==
    ASSUME CacheInv, [CacheNext]_cache_vars
    PROVE  CacheInv'
<1>1. ASSUME NEW x \in Line, NEW b \in WriteKinds, Access(x, b) PROVE CacheInv'
  <2>1. b \in BOOLEAN
    BY CacheAssumption
  <2>2. BankOf(x) \in 0 .. Banks - 1 /\ RowOf(x) \in Nat /\ stall' \in Nat
    BY <1>1, StallType DEF Access
  <2>3. /\ DOMAIN sets' = Level /\ DOMAIN recent' = Level
        /\ tick' \in [Level -> Nat] /\ writebacks' \in [Level -> Nat]
    BY <1>1 DEF Access, CacheInv
  <2>4. open' \in [0 .. Banks - 1 -> Nat \cup {NoRow}] /\ lastRow' = open'
    BY <1>1, <2>2 DEF Access, CacheInv
  <2>5. ASSUME NEW v \in Level PROVE LevelGood(v, sets'[v], recent'[v], tick'[v])
    <3>1. LevelGood(v, sets[v], recent[v], tick[v]) /\ tick[v] \in Nat
      BY DEF CacheInv
    <3>2. CASE Reaches(v, x)
      <4>1. /\ sets'[v] = access(sets[v], v, x, tick[v] + 1, b) /\ tick'[v] = tick[v] + 1
            /\ recent'[v] = [recent[v] EXCEPT ![SetOf(v, x)] = ToFront(@, x)]
        BY <1>1, <3>2 DEF Access
      <4> QED
        BY <2>1, <3>1, <4>1, AccessGood
    <3>3. CASE ~Reaches(v, x)
      BY <1>1, <3>1, <3>3 DEF Access
    <3> QED
      BY <3>2, <3>3
  <2> QED
    BY <2>2, <2>3, <2>4, <2>5 DEF CacheInv
<1>2. ASSUME NEW v \in Flushable, Flush(v) PROVE CacheInv'
  <2>1. v \in Level
    BY CacheAssumption
  <2>2. LevelGood(v, sets'[v], recent'[v], tick'[v])
    BY <1>2, <2>1, FlushedGood DEF Flush, CacheInv
  <2>3. \A u \in Level : u # v => sets'[u] = sets[u] /\ recent'[u] = recent[u] /\ tick'[u] = tick[u]
    BY <1>2 DEF Flush, CacheInv
  <2> QED
    BY <1>2, <2>2, <2>3 DEF Flush, CacheInv
<1>3. ASSUME NEW v \in Configurable, ConfigureCache(v) PROVE CacheInv'
  <2>1. v \in Level
    BY CacheAssumption
  <2>2. LevelGood(v, sets'[v], recent'[v], tick'[v])
    BY <1>3, <2>1, EmptyGood DEF ConfigureCache, CacheInv
  <2>3. \A u \in Level : u # v => sets'[u] = sets[u] /\ recent'[u] = recent[u] /\ tick'[u] = tick[u]
    BY <1>3 DEF ConfigureCache, CacheInv
  <2> QED
    BY <1>3, <2>2, <2>3 DEF ConfigureCache, CacheInv
<1>4. CASE ResetHierarchy
  BY <1>4 DEF ResetHierarchy, CacheInv
<1>5. CASE UNCHANGED cache_vars
  BY <1>5 DEF cache_vars, CacheInv
<1> QED
  BY <1>1, <1>2, <1>3, <1>4, <1>5 DEF CacheNext

\* The invariant of the hierarchy holds in every state, for every geometry.
LEMMA CacheInvariance == CacheSpec => []CacheInv
<1>1. CacheInit => CacheInv
  <2> SUFFICES ASSUME CacheInit PROVE CacheInv
    OBVIOUS
  <2>1. \A v \in Level : LevelGood(v, sets[v], recent[v], tick[v])
    BY EmptyGood DEF CacheInit
  <2> QED
    BY <2>1 DEF CacheInit, CacheInv
<1>2. CacheInv /\ [CacheNext]_cache_vars => CacheInv'
  BY CacheStep
<1> QED
  BY <1>1, <1>2, PTL DEF CacheSpec

\* A set of n ways holds the n lines accessed last since its cache was flushed, for
\* every geometry of the three caches and every sequence of accesses, flushes and
\* configurations (Cache::access, flush, configure).
THEOREM LruIsTrue == CacheSpec => []TrueLru
<1>1. ASSUME CacheInv PROVE TrueLru
  <2> SUFFICES ASSUME NEW v \in Level, NEW s \in SetIndex(v)
               PROVE  LET held == {w \in Way(v) : sets[v][s][w].valid}
                          n == Kept(recent[v][s], CacheConfigs[v].ways)
                      IN  /\ {sets[v][s][w].tag : w \in held} = {recent[v][s][k] : k \in 1 .. n}
                          /\ Cardinality(held) = n
    BY DEF TrueLru, Kept
  <2> DEFINE c == sets[v][s]
             r == recent[v][s]
             N == CacheConfigs[v].ways
             n == Kept(r, N)
  <2>1. N \in Nat \ {0} /\ Way(v) = 1 .. N
    BY LevelSizes DEF Way
  <2>2. c \in [1 .. N -> CacheWay] /\ r \in Seq(Line) /\ Recency(c, r, N)
    <3>1. LevelGood(v, sets[v], recent[v], tick[v]) /\ tick[v] \in Nat
      BY <1>1 DEF CacheInv
    <3> QED
      BY <2>1, <3>1 DEF LevelGood, CacheWay
  <2> HIDE DEF c, r, N
  <2>3. PICK h : Ordered(c, r, N, h)
    BY <2>2 DEF Recency
  <2>4. Cardinality({w \in 1 .. N : c[w].valid}) = n
    BY <2>1, <2>2, <2>3, OrderedCounts
  <2>5. {c[w].tag : w \in {w \in 1 .. N : c[w].valid}} = {r[k] : k \in 1 .. n}
    <3>1. /\ h \in [1 .. n -> 1 .. N]
          /\ \A k \in 1 .. n : c[h[k]].valid /\ c[h[k]].tag = r[k]
          /\ \A w \in 1 .. N : c[w].valid => \E k \in 1 .. n : h[k] = w
      BY <2>3 DEF Ordered
    <3> HIDE DEF n
    <3> QED
      BY <3>1
  <2> QED
    BY <2>1, <2>4, <2>5 DEF c, r, N
<1> QED
  BY <1>1, CacheInvariance, PTL

\* A cache hits exactly the lines that the ideal one holds.
LEMMA HoldsIdeal ==
    ASSUME CacheInv, NEW v \in Level, NEW x \in Line
    PROVE  Holds(sets[v], v, x) <=> InIdeal(v, x)
<1> DEFINE i == SetOf(v, x)
           c == sets[v][i]
           r == recent[v][i]
           N == CacheConfigs[v].ways
           n == Kept(r, N)
<1>1. N \in Nat \ {0} /\ Way(v) = 1 .. N /\ i \in SetIndex(v)
  BY LevelSizes DEF Way
<1>2. r \in Seq(Line) /\ Recency(c, r, N)
  BY <1>1 DEF LevelGood, CacheInv
<1>3. Holds(sets[v], v, x) <=> \E w \in 1 .. N : c[w].valid /\ c[w].tag = x
  BY <1>1 DEF Holds
<1>4. InIdeal(v, x) <=> \E k \in 1 .. Len(r) : k <= N /\ r[k] = x
  BY DEF InIdeal
<1> HIDE DEF i, c, r, N
<1>5. PICK h : Ordered(c, r, N, h)
  BY <1>2 DEF Recency
<1>6. Len(r) \in Nat
  BY <1>2, LenProperties
<1>7. \A k : k \in 1 .. n <=> k \in 1 .. Len(r) /\ k <= N
  BY <1>1, <1>6 DEF Kept
<1>8. /\ h \in [1 .. n -> 1 .. N]
      /\ \A k \in 1 .. n : c[h[k]].valid /\ c[h[k]].tag = r[k]
      /\ \A w \in 1 .. N : c[w].valid => \E k \in 1 .. n : h[k] = w
  BY <1>5 DEF Ordered
<1> HIDE DEF n
<1>9. (\E w \in 1 .. N : c[w].valid /\ c[w].tag = x) <=> \E k \in 1 .. n : r[k] = x
  BY <1>8
<1> QED
  BY <1>3, <1>4, <1>7, <1>9

\* Every access costs what it would in a hierarchy of ideal LRU caches over banks that
\* remember their last row (CacheHierarchy::access, MemoryController).
THEOREM CostIsIdeal == CacheSpec => IdealCost
<1>1. ASSUME CacheInv, NEW x \in Line, NEW b \in WriteKinds, Access(x, b)
      PROVE  stall' = IdealStall(x)
  <2>1. 1 \in Level /\ 2 \in Level /\ 3 \in Level /\ \A v \in Level : v = 1 \/ v = 2 \/ v = 3
    BY DEF Level
  <2>2. /\ Holds(sets[1], 1, x) <=> InIdeal(1, x)
        /\ Holds(sets[2], 2, x) <=> InIdeal(2, x)
        /\ Holds(sets[3], 3, x) <=> InIdeal(3, x)
    BY <1>1, <2>1, HoldsIdeal
  <2>3. /\ Reaches(1, x)
        /\ Reaches(2, x) <=> ~Holds(sets[1], 1, x)
        /\ Reaches(3, x) <=> ~Holds(sets[1], 1, x) /\ ~Holds(sets[2], 2, x)
    BY DEF Reaches
  <2>4. ReachesMemory(x) <=>
          ~Holds(sets[1], 1, x) /\ ~Holds(sets[2], 2, x) /\ ~Holds(sets[3], 3, x)
    BY <2>1 DEF ReachesMemory
  <2>5. /\ \A v \in Level : CacheConfigs[v].hit \in Nat /\ CacheConfigs[v].miss \in Nat
        /\ RowHit \in Nat /\ RowMiss \in Nat
    BY LevelSizes, CacheAssumption
  <2>6. stall' = LevelStall(1, x) + LevelStall(2, x) + LevelStall(3, x) + McStall(x)
    BY <1>1 DEF Access
  <2>7. lastRow = open
    BY <1>1 DEF CacheInv
  <2> QED
    BY <2>1, <2>2, <2>3, <2>4, <2>5, <2>6, <2>7 DEF LevelStall, McStall, IdealStall
<1>2. CacheInv => [\A x \in Line, is_write \in WriteKinds :
                     tick' # tick /\ Access(x, is_write) => stall' = IdealStall(x)]_cache_vars
  BY <1>1
<1> QED
  BY <1>2, CacheInvariance, PTL DEF IdealCost

\* No line is in two ways of its set.
LEMMA UniqueTags ==
    ASSUME NEW ways \in Nat \ {0}, NEW r \in Seq(Line), NEW c, Recency(c, r, ways),
           NEW u \in 1 .. ways, NEW w \in 1 .. ways,
           c[u].valid, c[w].valid, c[u].tag = c[w].tag
    PROVE  u = w
<1>1. PICK h : Ordered(c, r, ways, h)
  BY DEF Recency
<1>2. PICK i \in 1 .. Kept(r, ways) : h[i] = u
  BY <1>1 DEF Ordered
<1>3. PICK j \in 1 .. Kept(r, ways) : h[j] = w
  BY <1>1 DEF Ordered
<1>4. r[i] = r[j]
  BY <1>1, <1>2, <1>3 DEF Ordered
<1>5. i \in 1 .. Len(r) /\ j \in 1 .. Len(r)
  BY LenProperties DEF Kept
<1> QED
  BY <1>2, <1>3, <1>4, <1>5 DEF Recency, Distinct

\* The dirty lines of a cache.
DirtyLines(v, c) ==
    {y \in Line : \E s \in SetIndex(v), w \in Way(v) :
        c[s][w].valid /\ c[s][w].dirty /\ c[s][w].tag = y}

\* An access takes a dirty line out of its cache exactly when it writes one back.
LEMMA DirtyLeaves ==
    ASSUME NEW v \in Level, NEW x \in Line, NEW b \in BOOLEAN, NEW t \in Nat,
           NEW c, NEW r, LevelGood(v, c, r, t)
    PROVE  LET left == {y \in DirtyLines(v, c) : ~Holds(access(c, v, x, t + 1, b), v, y)}
           IN  Cardinality(left) = IF WritesBack(c, v, x) THEN 1 ELSE 0
<1> DEFINE i == SetOf(v, x)
           ways == c[i]
           N == CacheConfigs[v].ways
           w == IF Holds(c, v, x) THEN WayOf(c, v, x) ELSE Victim(ways, v)
           l == IF Holds(c, v, x) THEN Hit(ways[w], t + 1, b) ELSE Filled(x, t + 1, b)
           d == access(c, v, x, t + 1, b)
           left == {y \in DirtyLines(v, c) : ~Holds(d, v, y)}
<1>1. N \in Nat \ {0} /\ Way(v) = 1 .. N /\ i \in SetIndex(v)
  BY LevelSizes DEF Way
<1>2. /\ c \in [SetIndex(v) -> [Way(v) -> [valid : BOOLEAN, dirty : BOOLEAN, tag : Line,
                                           lru : 0 .. t]]]
      /\ r \in [SetIndex(v) -> Seq(Line)]
      /\ \A s \in SetIndex(v) :
          /\ Recency(c[s], r[s], N)
          /\ \A u \in Way(v) : /\ c[s][u].valid => SetOf(v, c[s][u].tag) = s
                               /\ c[s][u].dirty => c[s][u].valid
  BY DEF LevelGood
<1>3. /\ \A u \in Way(v) : ways[u].lru \in Nat /\ ways[u].tag \in Line
      /\ ways \in [Way(v) -> [valid : BOOLEAN, dirty : BOOLEAN, tag : Line, lru : 0 .. t]]
  BY <1>1, <1>2
<1>4. /\ Holds(c, v, x) => LET u == WayOf(c, v, x)
                           IN  u \in Way(v) /\ ways[u].valid /\ ways[u].tag = x
      /\ Victim(ways, v) \in Way(v)
  BY <1>3, AccessWay
<1>5. w \in Way(v) /\ (Holds(c, v, x) => ways[w].valid /\ ways[w].tag = x)
  BY <1>4
<1>6. d = [c EXCEPT ![i] = [@ EXCEPT ![w] = l]]
  BY DEF access
<1>7. l.valid /\ l.tag = x
  <2>1. CASE Holds(c, v, x)
    <3>1. l = Hit(ways[w], t + 1, b) /\ ways[w].valid /\ ways[w].tag = x /\ w \in Way(v)
      BY <1>5, <2>1
    <3>2. ways[w] \in [valid : BOOLEAN, dirty : BOOLEAN, tag : Line, lru : 0 .. t]
      BY <1>3, <3>1
    <3> HIDE DEF w, ways, l
    <3>3. l.valid = ways[w].valid /\ l.tag = ways[w].tag
      BY <3>1, <3>2 DEF Hit
    <3> QED
      BY <3>1, <3>3
  <2>2. CASE ~Holds(c, v, x)
    BY <2>2 DEF Filled
  <2> QED
    BY <2>1, <2>2
<1>8. WritesBack(c, v, x) <=> ~Holds(c, v, x) /\ ways[w].dirty
  BY DEF WritesBack
<1>9. \A y : Holds(d, v, y) <=>
         \E u \in Way(v) : d[SetOf(v, y)][u].valid /\ d[SetOf(v, y)][u].tag = y
  BY DEF Holds
<1>10. Holds(c, v, x) <=> \E u \in Way(v) : ways[u].valid /\ ways[u].tag = x
  BY DEF Holds
<1> HIDE DEF w, l, d
<1>11. /\ \A s \in SetIndex(v) : s # i => d[s] = c[s]
       /\ d[i][w] = l /\ \A u \in Way(v) : u # w => d[i][u] = ways[u]
  BY <1>1, <1>2, <1>3, <1>5, <1>6
<1>12. ASSUME NEW y \in left PROVE y = ways[w].tag /\ WritesBack(c, v, x)
  <2>1. y \in Line /\ ~Holds(d, v, y)
    BY <1>12 DEF DirtyLines
  <2>2. PICK s \in SetIndex(v), u \in Way(v) : c[s][u].valid /\ c[s][u].dirty /\ c[s][u].tag = y
    BY <1>12 DEF DirtyLines
  <2>3. SetOf(v, y) = s
    BY <1>2, <2>2
  <2>4. s = i
    BY <1>9, <1>11, <2>1, <2>2, <2>3
  <2>5. u = w
    BY <1>9, <1>11, <2>1, <2>2, <2>3, <2>4
  <2>6. ~Holds(c, v, x)
    BY <1>5, <1>7, <1>9, <1>11, <2>1, <2>2, <2>3, <2>4, <2>5
  <2> QED
    BY <1>8, <2>2, <2>4, <2>5, <2>6
<1>13. CASE WritesBack(c, v, x)
  <2> DEFINE y == ways[w].tag
  <2>1. ways[w].dirty /\ ways[w].valid /\ y \in Line /\ ~Holds(c, v, x)
    BY <1>1, <1>2, <1>3, <1>5, <1>8, <1>13
  <2>2. y \in DirtyLines(v, c) /\ SetOf(v, y) = i
    BY <1>1, <1>2, <1>5, <2>1 DEF DirtyLines
  <2>3. y # x
    BY <1>5, <1>10, <2>1
  <2>4. ASSUME NEW u \in Way(v), d[i][u].valid, d[i][u].tag = y PROVE FALSE
    <3>1. u # w
      BY <1>7, <1>11, <2>3, <2>4
    <3>2. ways[u].valid /\ ways[u].tag = ways[w].tag
      BY <1>11, <2>4, <3>1
    <3>3. Recency(ways, r[i], N) /\ r[i] \in Seq(Line)
      BY <1>1, <1>2
    <3> HIDE DEF ways, N, i
    <3>4. u = w
      BY <1>1, <1>5, <2>1, <3>2, <3>3, UniqueTags
    <3> QED
      BY <3>1, <3>4
  <2>5. y \in left
    BY <1>9, <2>2, <2>4
  <2>6. left = {y}
    BY <1>12, <2>5
  <2>7. Cardinality({y}) = 1
    BY FS_Singleton
  <2> QED
    BY <1>13, <2>6, <2>7 DEF d
<1>14. CASE ~WritesBack(c, v, x)
  <2>1. left = {}
    BY <1>12, <1>14
  <2> QED
    BY <1>14, <2>1, FS_EmptySet DEF d
<1> QED
  BY <1>13, <1>14

\* Each access counts as many write-backs as dirty lines leave a cache, at every level
\* and for every geometry (Cache::access).
THEOREM WritebacksExact == CacheSpec => WritebackCounted
<1>1. ASSUME CacheInv, NEW x \in Line, NEW b \in WriteKinds, Access(x, b), NEW v \in Level
      PROVE  writebacks'[v] = writebacks[v] +
                Cardinality({y \in DirtyLines(v, sets[v]) : ~Holds(sets'[v], v, y)})
  <2> DEFINE left == {y \in DirtyLines(v, sets[v]) : ~Holds(sets'[v], v, y)}
  <2>1. LevelGood(v, sets[v], recent[v], tick[v]) /\ tick[v] \in Nat /\ writebacks[v] \in Nat
    BY <1>1 DEF CacheInv
  <2>2. CASE Reaches(v, x)
    <3>1. /\ sets'[v] = access(sets[v], v, x, tick[v] + 1, b)
          /\ writebacks'[v] = IF WritesBack(sets[v], v, x) THEN writebacks[v] + 1
                              ELSE writebacks[v]
      BY <1>1, <2>2 DEF Access
    <3>2. b \in BOOLEAN
      BY CacheAssumption
    <3>3. Cardinality(left) = IF WritesBack(sets[v], v, x) THEN 1 ELSE 0
      BY <2>1, <3>1, <3>2, DirtyLeaves
    <3> QED
      BY <2>1, <3>1, <3>3
  <2>3. CASE ~Reaches(v, x)
    <3>1. sets'[v] = sets[v] /\ writebacks'[v] = writebacks[v]
      BY <1>1, <2>3 DEF Access
    <3>2. ASSUME NEW y \in left PROVE FALSE
      <4>1. PICK s \in SetIndex(v), w \in Way(v) : sets[v][s][w].valid /\ sets[v][s][w].tag = y
        BY <3>2 DEF DirtyLines
      <4>2. SetOf(v, y) = s
        BY <2>1, <4>1 DEF LevelGood
      <4>3. Holds(sets'[v], v, y)
        BY <3>1, <4>1, <4>2 DEF Holds
      <4> QED
        BY <3>2, <4>3
    <3>3. left = {}
      BY <3>2
    <3>4. Cardinality(left) = 0
      BY <3>3, FS_EmptySet
    <3> QED
      BY <2>1, <3>1, <3>4
  <2> QED
    BY <2>2, <2>3
<1>2. CacheInv =>
         [\A x \in Line, is_write \in WriteKinds : tick' # tick /\ Access(x, is_write) =>
            \A v \in Level :
               LET Dirty == {y \in Line : \E s \in SetIndex(v), w \in Way(v) :
                               sets[v][s][w].valid /\ sets[v][s][w].dirty /\ sets[v][s][w].tag = y}
                   Left == {y \in Dirty : ~Holds(sets'[v], v, y)}
               IN  writebacks'[v] = writebacks[v] + Cardinality(Left)]_cache_vars
  BY <1>1 DEF DirtyLines
<1> QED
  BY <1>2, CacheInvariance, PTL DEF WritebackCounted

--------------------------------------------------------------------------------
\* Sums

\* g adds F up over subsets of S, in the order in which CHOOSE takes the elements.
Adds(g, F, S) ==
    \A s \in SUBSET S :
        g[s] = IF s = {} THEN 0 ELSE LET k == CHOOSE z \in s : TRUE IN F[k] + g[s \ {k}]

\* Smaller sets.
LEMMA WithoutElement ==
    ASSUME NEW S, IsFiniteSet(S), NEW s \in SUBSET S, NEW k \in s, NEW m \in Nat,
           Cardinality(s) <= m + 1
    PROVE  s \ {k} \in SUBSET S /\ Cardinality(s \ {k}) <= m
<1>1. IsFiniteSet(s) /\ Cardinality(s) \in Nat
  BY FS_Subset, FS_CardinalityType
<1>2. Cardinality(s \ {k}) = Cardinality(s) - 1
  BY <1>1, FS_RemoveElement
<1> QED
  BY <1>1, <1>2

\* Such a sum exists.
LEMMA AddsExists ==
    ASSUME NEW S, IsFiniteSet(S), NEW F \in [S -> Nat]
    PROVE  \E g \in [SUBSET S -> Nat] : Adds(g, F, S)
<1> DEFINE D(m) == {s \in SUBSET S : Cardinality(s) <= m}
           c(s) == CHOOSE z \in s : TRUE
           E(g, s) == IF s = {} THEN 0 ELSE F[c(s)] + g[s \ {c(s)}]
           Good(m) == \E g \in [D(m) -> Nat] : \A s \in D(m) : g[s] = E(g, s)
           T == {m \in Nat : ~Good(m)}
<1>1. \A s \in SUBSET S : IsFiniteSet(s) /\ Cardinality(s) \in Nat
  BY FS_Subset, FS_CardinalityType
<1>2. \A s \in SUBSET S : s # {} => c(s) \in s /\ F[c(s)] \in Nat
  OBVIOUS
<1>3. Good(0)
  <2>1. \A s \in D(0) : s = {}
    BY <1>1, FS_EmptySet
  <2>2. [s \in D(0) |-> 0] \in [D(0) -> Nat]
    OBVIOUS
  <2> QED
    BY <2>1, <2>2
<1>4. ASSUME NEW m \in Nat, Good(m) PROVE Good(m + 1)
  <2>1. PICK g \in [D(m) -> Nat] : \A s \in D(m) : g[s] = E(g, s)
    BY <1>4
  <2> DEFINE f == [s \in D(m + 1) |-> E(g, s)]
  <2>2. \A s \in D(m + 1) : s # {} => s \ {c(s)} \in D(m)
    BY <1>2, WithoutElement
  <2>3. \A s \in D(m) : s \in D(m + 1)
    BY <1>1
  <2> HIDE DEF D, c
  <2>4. \A s \in D(m) : f[s] = g[s]
    BY <2>1, <2>3
  <2>5. \A s \in D(m + 1) : E(g, s) \in Nat
    BY <1>2, <2>2 DEF D
  <2>6. \A s \in D(m + 1) : f[s] = E(f, s)
    BY <2>2, <2>4
  <2>7. f \in [D(m + 1) -> Nat]
    BY <2>5
  <2> HIDE DEF f
  <2> QED
    BY <2>6, <2>7
<1>5. T = {}
  <2> HIDE DEF Good
  <2> QED
    BY <1>3, <1>4, NoException
<1>6. Cardinality(S) \in Nat
  BY FS_CardinalityType
<1>7. Good(Cardinality(S))
  <2> HIDE DEF Good
  <2> QED
    BY <1>5, <1>6
<1>8. D(Cardinality(S)) = SUBSET S
  BY FS_Subset
<1> HIDE DEF D
<1> QED
  BY <1>7, <1>8 DEF Adds

\* It does not depend on the order.
LEMMA AddsAnyOrder ==
    ASSUME NEW S, IsFiniteSet(S), NEW F \in [S -> Nat], NEW g, Adds(g, F, S)
    PROVE  \A s \in SUBSET S : g[s] \in Nat /\ \A k \in s : g[s] = F[k] + g[s \ {k}]
<1> DEFINE D(m) == {s \in SUBSET S : Cardinality(s) <= m}
           c(s) == CHOOSE z \in s : TRUE
           Good(m) == \A s \in D(m) : g[s] \in Nat /\ \A k \in s : g[s] = F[k] + g[s \ {k}]
           T == {m \in Nat : ~Good(m)}
<1>1. \A s \in SUBSET S : IsFiniteSet(s) /\ Cardinality(s) \in Nat
  BY FS_Subset, FS_CardinalityType
<1>2. \A s \in SUBSET S : s # {} => c(s) \in s
  OBVIOUS
<1>3. \A s \in SUBSET S : g[s] = IF s = {} THEN 0 ELSE F[c(s)] + g[s \ {c(s)}]
  BY DEF Adds
<1> HIDE DEF c
<1>4. Good(0)
  <2>1. \A s \in D(0) : s = {}
    BY <1>1, FS_EmptySet
  <2>2. {} \in SUBSET S /\ g[{}] = 0
    BY <1>3
  <2> QED
    BY <2>1, <2>2
<1>5. ASSUME NEW m \in Nat, Good(m) PROVE Good(m + 1)
  <2> SUFFICES ASSUME NEW s \in D(m + 1)
               PROVE  g[s] \in Nat /\ \A k \in s : g[s] = F[k] + g[s \ {k}]
    OBVIOUS
  <2>1. ASSUME NEW k \in s PROVE s \ {k} \in D(m) /\ k \in S /\ F[k] \in Nat
    <3>1. s \in SUBSET S /\ Cardinality(s) <= m + 1
      OBVIOUS
    <3>2. s \ {k} \in SUBSET S /\ Cardinality(s \ {k}) <= m
      BY <3>1, WithoutElement
    <3> QED
      BY <3>1, <3>2
  <2>2. CASE s = {}
    <3>1. g[{}] = 0 /\ {} \in SUBSET S
      BY <1>3
    <3> QED
      BY <2>2, <3>1
  <2>3. CASE s # {}
    <3> DEFINE z == c(s)
    <3>1. z \in s /\ g[s] = F[z] + g[s \ {z}]
      BY <1>2, <1>3, <2>3
    <3> HIDE DEF z
    <3>2. g[s \ {z}] \in Nat
      BY <1>5, <2>1, <3>1
    <3>3. ASSUME NEW k \in s, k # z PROVE g[s] = F[k] + g[s \ {k}]
      <4>1. /\ g[s \ {z}] = F[k] + g[(s \ {z}) \ {k}]
            /\ g[s \ {k}] = F[z] + g[(s \ {k}) \ {z}]
        BY <1>5, <2>1, <3>1, <3>3
      <4>2. (s \ {z}) \ {k} = (s \ {k}) \ {z}
        OBVIOUS
      <4>3. (s \ {z}) \ {k} \in D(m)
        <5>1. s \ {z} \in SUBSET S /\ Cardinality(s \ {z}) <= m + 1 /\ k \in s \ {z}
          BY <1>1, <2>1, <3>1, <3>3
        <5> QED
          BY <5>1, WithoutElement
      <4>4. g[(s \ {z}) \ {k}] \in Nat /\ F[k] \in Nat /\ F[z] \in Nat
        BY <1>5, <2>1, <3>1, <3>3, <4>3
      <4> DEFINE u == g[(s \ {z}) \ {k}]
                 y == g[s \ {z}]
                 x == g[s \ {k}]
      <4>5. y = F[k] + u /\ x = F[z] + u /\ g[s] = F[z] + y /\ u \in Nat
        BY <3>1, <4>1, <4>2, <4>4
      <4> HIDE DEF u, x, y
      <4>6. g[s] = F[k] + x
        BY <4>4, <4>5
      <4> QED
        BY <4>6 DEF x
    <3>4. g[s] \in Nat
      BY <2>1, <3>1, <3>2
    <3> QED
      BY <3>1, <3>3, <3>4
  <2> QED
    BY <2>2, <2>3
<1>6. T = {}
  <2> HIDE DEF Good
  <2> QED
    BY <1>4, <1>5, NoException
<1>7. ASSUME NEW s \in SUBSET S
      PROVE  g[s] \in Nat /\ \A k \in s : g[s] = F[k] + g[s \ {k}]
  <2>1. Cardinality(s) \in Nat /\ s \in D(Cardinality(s))
    BY <1>1
  <2>2. Good(Cardinality(s))
    <3> HIDE DEF Good
    <3> QED
      BY <1>6, <2>1
  <2> QED
    BY <2>1, <2>2
<1> QED
  BY <1>7

\* An element of a tile is in its register, at its row and column.
LEMMA CellInLane ==
    ASSUME NEW n \in 1 .. Tile, NEW i \in 0 .. n - 1, NEW j \in 0 .. n - 1
    PROVE  /\ n * i + j \in Lane /\ n * i + j < n * n
           /\ (n * i + j) \div n = i /\ (n * i + j) % n = j
<1>1. n \in Nat /\ n >= 1 /\ Tile \in Nat /\ n <= Tile /\ i \in Nat /\ j \in Nat /\ i + 1 <= n
  BY KernelsAssumption
<1>2. n * i \in Nat /\ n * (i + 1) = n * i + n /\ n * n \in Nat /\ Tile * Tile \in Nat
  BY <1>1
<1>3. n * (i + 1) <= n * n
  BY <1>1, ProductMonotonic
<1>4. n * n <= n * Tile /\ n * Tile <= Tile * Tile /\ n * Tile \in Nat
  <2>1. n * n <= n * Tile
    BY <1>1, ProductMonotonic
  <2>2. Tile * n <= Tile * Tile
    BY <1>1, ProductMonotonic
  <2> QED
    BY <1>1, <2>1, <2>2
<1>5. n * i + j < n * n /\ n * i + j < Tile * Tile /\ n * i + j \in Nat
  BY <1>1, <1>2, <1>3, <1>4
<1> QED
  BY <1>1, <1>5, DivisionUnique DEF Lane

\* The inner loop of the kernel computes an element of the matrix product, whatever
\* order its definition adds the terms in.
LEMMA TermsAreProduct ==
    ASSUME NEW n \in 1 .. Tile, NEW x \in [Lane -> Element], NEW y \in [Lane -> Element],
           NEW i \in 0 .. n - 1, NEW j \in 0 .. n - 1
    PROVE  Terms(x, y, n, i, j) \in Element /\ Terms(x, y, n, i, j) = Product(x, y, n, i, j)
<1> DEFINE S == 0 .. n - 1
           e(k) == x[n * i + k] * y[n * k + j]
           F == [k \in S |-> e(k)]
           P(g) == g = [s \in SUBSET S |-> IF s = {} THEN 0
                                           ELSE LET k == CHOOSE z \in s : TRUE
                                                IN  e(k) + g[s \ {k}]]
           Q(g) == g = [k \in 0 .. n |-> IF k = 0 THEN 0
                                         ELSE (g[k - 1] + x[i * n + k - 1] * y[(k - 1) * n + j])
                                                % Modulus]
           a == CHOOSE g : P(g)
           f == CHOOSE g : Q(g)
           M == Modulus
<1>1. n \in Nat /\ n >= 1 /\ M \in Nat \ {0} /\ i \in Nat /\ j \in Nat
  BY KernelsAssumption
<1>2. Terms(x, y, n, i, j) = f[n]
  BY DEF Terms
<1>3. Product(x, y, n, i, j) = a[S] % M
  BY <1>1 DEF Product, MapThenSumSet, MapThenFoldSet
<1>4. \A k \in S : n * i + k \in Lane /\ n * k + j \in Lane
  BY CellInLane
<1>5. \A k \in Lane : x[k] \in Nat /\ y[k] \in Nat
  BY <1>1 DEF Element
<1>6. \A k \in S : e(k) \in Nat
  BY <1>4, <1>5
<1>7. F \in [S -> Nat] /\ \A k \in S : F[k] = e(k)
  BY <1>6
<1>8. \A k \in 1 .. n : k - 1 \in S /\ x[i * n + k - 1] * y[(k - 1) * n + j] = e(k - 1)
  <2> SUFFICES ASSUME NEW k \in 1 .. n
               PROVE  k - 1 \in S /\ x[i * n + k - 1] * y[(k - 1) * n + j] = e(k - 1)
    OBVIOUS
  <2>1. k - 1 \in S /\ k \in Nat
    BY <1>1
  <2>2. i * n + k - 1 = n * i + (k - 1) /\ (k - 1) * n + j = n * (k - 1) + j
    BY <1>1, <2>1
  <2> QED
    BY <2>1, <2>2
<1>9. IsFiniteSet(S)
  BY <1>1, FS_Interval
<1> HIDE DEF e, S
<1>10. \A g : g \in [SUBSET S -> Nat] /\ Adds(g, F, S) => P(g)
  BY <1>7 DEF Adds
<1>11. \A g : P(g) => Adds(g, F, S)
  BY <1>7 DEF Adds
<1> HIDE DEF F, P
<1>12. Adds(a, F, S)
  <2>1. \E g : P(g)
    BY <1>7, <1>9, <1>10, AddsExists
  <2> QED
    BY <1>11, <2>1
<1> HIDE DEF a
<1>13. \A s \in SUBSET S : a[s] \in Nat /\ \A k \in s : a[s] = F[k] + a[s \ {k}]
  BY <1>7, <1>9, <1>12, AddsAnyOrder
<1>14. /\ a[0 .. 0 - 1] = 0
       /\ \A k \in 1 .. n : /\ a[0 .. k - 1] \in Nat /\ a[0 .. k - 2] \in Nat
                            /\ a[0 .. k - 1] = a[0 .. k - 2] + e(k - 1)
  <2>1. a[{}] = 0 /\ 0 .. 0 - 1 = {}
    <3>1. {} \in SUBSET S
      OBVIOUS
    <3>2. a[{}] = 0
      BY <1>12, <3>1 DEF Adds
    <3>3. 0 .. 0 - 1 = {}
      OBVIOUS
    <3> QED
      BY <3>2, <3>3
  <2>2. ASSUME NEW k \in 1 .. n
        PROVE  /\ a[0 .. k - 1] \in Nat /\ a[0 .. k - 2] \in Nat
               /\ a[0 .. k - 1] = a[0 .. k - 2] + e(k - 1)
    <3>1. 0 .. k - 1 \in SUBSET S /\ k - 1 \in 0 .. k - 1 /\ k - 1 \in S
      BY <1>1 DEF S
    <3>2. (0 .. k - 1) \ {k - 1} = 0 .. k - 2 /\ 0 .. k - 2 \in SUBSET S
      BY <1>1 DEF S
    <3>3. a[0 .. k - 1] = F[k - 1] + a[0 .. k - 2] /\ a[0 .. k - 1] \in Nat /\ a[0 .. k - 2] \in Nat
      BY <1>13, <3>1, <3>2
    <3>4. F[k - 1] = e(k - 1) /\ e(k - 1) \in Nat
      BY <1>6, <1>7, <3>1
    <3> QED
      BY <3>3, <3>4
  <2> QED
    BY <2>1, <2>2
\* The remainders of the partial sums are a solution of the kernel's recursion.
<1> DEFINE b(k) == a[0 .. k - 1]
           h == [k \in 0 .. n |-> b(k) % M]
<1>15. b(0) = 0 /\ \A k \in 1 .. n : b(k) \in Nat /\ b(k - 1) \in Nat /\ b(k) = b(k - 1) + e(k - 1)
  <2>1. \A k \in 1 .. n : k - 1 - 1 = k - 2
    BY <1>1
  <2> QED
    BY <1>14, <2>1
<1>16. \A k \in 0 .. n : b(k) \in Nat
  BY <1>1, <1>15
<1> HIDE DEF b
<1>17. ASSUME NEW k \in 1 .. n
       PROVE  /\ k - 1 \in 0 .. n /\ k \in 0 .. n
              /\ b(k) % M = ((b(k - 1) % M) + e(k - 1)) % M
  <2>1. b(k - 1) \in Nat /\ e(k - 1) \in Nat /\ b(k) = b(k - 1) + e(k - 1)
    BY <1>6, <1>8, <1>15
  <2>2. k - 1 \in 0 .. n /\ k \in 0 .. n
    BY <1>1
  <2> QED
    BY <1>1, <2>1, <2>2, SumModulo
<1>18. Q(h)
  <2>1. 0 % M = 0
    BY <1>1
  <2>2. ASSUME NEW k \in 0 .. n
        PROVE  h[k] = IF k = 0 THEN 0
                      ELSE (h[k - 1] + x[i * n + k - 1] * y[(k - 1) * n + j]) % M
    <3>1. CASE k = 0
      BY <1>15, <2>1, <3>1
    <3>2. CASE k # 0
      <4>1. k \in 1 .. n
        BY <1>1, <3>2
      <4>2. h[k] = b(k) % M /\ h[k - 1] = b(k - 1) % M
        BY <1>17, <4>1
      <4>3. x[i * n + k - 1] * y[(k - 1) * n + j] = e(k - 1)
        BY <1>8, <4>1
      <4> QED
        BY <1>17, <3>2, <4>1, <4>2, <4>3
    <3> QED
      BY <3>1, <3>2
  <2> QED
    BY <2>2
<1>19. Q(f)
  <2> HIDE DEF Q
  <2> QED
    BY <1>18
<1> HIDE DEF f, h
\* It is the only one.
<1> DEFINE T == {k \in Nat : k <= n /\ f[k] # b(k) % M}
<1>20. 0 \notin T
  <2>1. f[0] = 0 /\ 0 % M = 0
    BY <1>1, <1>19
  <2> QED
    BY <1>15, <2>1
<1>21. ASSUME NEW k \in Nat, k \notin T PROVE k + 1 \notin T
  <2>1. CASE k + 1 <= n
    <3> DEFINE o == k + 1
    <3>1. o \in 1 .. n /\ o \in 0 .. n /\ o # 0 /\ o - 1 = k /\ k <= n
      BY <1>1, <2>1
    <3>2. f[k] = b(k) % M
      BY <1>21, <3>1
    <3> HIDE DEF o
    <3>3. f[o] = (f[o - 1] + x[i * n + o - 1] * y[(o - 1) * n + j]) % M
      BY <1>19, <3>1
    <3>4. x[i * n + o - 1] * y[(o - 1) * n + j] = e(o - 1)
      BY <1>8, <3>1
    <3>5. f[o] = b(o) % M
      BY <1>17, <3>1, <3>2, <3>3, <3>4
    <3> QED
      BY <3>5 DEF o
  <2>2. CASE ~(k + 1 <= n)
    BY <2>2
  <2> QED
    BY <2>1, <2>2
<1>22. T = {}
  <2>1. T \subseteq Nat
    OBVIOUS
  <2> HIDE DEF T
  <2> QED
    BY <1>20, <1>21, <2>1, NoException
<1>23. f[n] = b(n) % M /\ b(n) = a[S] /\ b(n) \in Nat
  BY <1>1, <1>16, <1>22 DEF b, S
<1>24. b(n) % M \in Element
  BY <1>1, <1>23 DEF Element
<1> QED
  BY <1>2, <1>3, <1>23, <1>24

--------------------------------------------------------------------------------
\* Kernels

KernelRecord ==
    [op : {"add", "mul"}, d : Registers, a : Registers, b : Registers,
     n : 1 .. Tile, width : Nat \ {0}]

\* What a kernel has done so far: the elements before the next one hold their results,
\* the others what they held when it was called, and whole vectors remain to be added.
Progress(k) ==
    /\ \A r \in Registers \ {k.d} : vr[r] = before[r]
    /\ k.op = "add" =>
          /\ \E e \in Nat : at + k.width * e = Tile * Tile
          /\ \A l \in Lane : vr[k.d][l] = IF l < at THEN (before[k.a][l] + before[k.b][l]) % Modulus
                                          ELSE before[k.d][l]
    /\ k.op = "mul" =>
          /\ at <= k.n * k.n
          /\ \A l \in Lane : l >= at => vr[k.d][l] = before[k.d][l]
          /\ k.d \notin {k.a, k.b} \/ k.n = 1 =>
                \A l \in Lane : l < at =>
                    vr[k.d][l] = Product(before[k.a], before[k.b], k.n, l \div k.n, l % k.n)

KernelInv ==
    /\ KernelTypeOK
    /\ kernel = << >> \/ \E k \in KernelRecord : kernel = <<k>> /\ Progress(k)

\* Numbers of elements.
LEMMA TileSizes ==
    /\ Tile \in Nat \ {0} /\ Modulus \in Nat \ {0} /\ MaxCalls \in Nat /\ Tile * Tile \in Nat
    /\ \A l \in Lane : l \in Nat /\ l < Tile * Tile
    /\ \A n \in 1 .. Tile : n * n \in Nat /\ n * n <= Tile * Tile
<1>1. Tile \in Nat \ {0} /\ Modulus \in Nat \ {0} /\ MaxCalls \in Nat /\ Tile * Tile \in Nat
  BY KernelsAssumption
<1>2. ASSUME NEW n \in 1 .. Tile PROVE n * n \in Nat /\ n * n <= Tile * Tile
  <2>1. n \in Nat /\ n <= Tile /\ n * n \in Nat /\ n * Tile \in Nat /\ Tile * n = n * Tile
    BY <1>1
  <2>2. n * n <= n * Tile
    BY <1>1, <2>1, ProductMonotonic
  <2>3. Tile * n <= Tile * Tile
    BY <1>1, <2>1, ProductMonotonic
  <2> QED
    BY <1>1, <2>1, <2>2, <2>3
<1>3. \A l \in Lane : l \in Nat /\ l < Tile * Tile
  BY <1>1 DEF Lane
<1> QED
  BY <1>1, <1>2, <1>3

\* A call starts with nothing done.
LEMMA CallStarts ==
    ASSUME KernelInv, vr' = vr, NEW d \in Registers, NEW a \in Registers, NEW b \in Registers,
           NEW op \in {"add", "mul"}, NEW n \in 1 .. Tile, NEW w \in Nat \ {0},
           (Tile * Tile) % w = 0, Call(op, d, a, b, n, w),
           fpga' \in [backend : Backend, connected : BOOLEAN, offloaded : Nat, fallback : Nat]
    PROVE  KernelInv'
<1> DEFINE k == [op |-> op, d |-> d, a |-> a, b |-> b, n |-> n, width |-> w]
<1>1. kernel' = <<k>> /\ k \in KernelRecord /\ at' = 0 /\ before' = vr /\ calls' \in 0 .. MaxCalls
  BY TileSizes DEF Call, KernelRecord, KernelInv, KernelTypeOK
<1>2. KernelTypeOK'
  <2>1. Len(kernel') <= 1 /\ 0 \in 0 .. Tile * Tile
    BY <1>1, TileSizes
  <2> QED
    BY <1>1, <2>1 DEF KernelInv, KernelTypeOK
<1>3. \E e \in Nat : at' + w * e = Tile * Tile
  <2> DEFINE t == Tile * Tile
  <2>1. t \in Nat
    BY TileSizes
  <2> HIDE DEF t
  <2>2. t = w * (t \div w) + (t % w) /\ t \div w \in Nat
    BY <2>1
  <2>3. t % w = 0
    BY DEF t
  <2>4. 0 + w * (t \div w) = t
    BY <2>1, <2>2, <2>3
  <2> QED
    BY <1>1, <2>2, <2>4 DEF t
<1>4. n * n \in Nat /\ \A l \in Lane : l \in Nat
  BY TileSizes
<1>5. Progress(k)'
  BY <1>1, <1>3, <1>4 DEF Progress
<1> HIDE DEF k
<1> QED
  BY <1>1, <1>2, <1>5 DEF KernelInv

\* A vector of sums: its elements are still to be added, also where the destination is
\* an operand.
LEMMA AddChunkInv ==
    ASSUME KernelInv, AddChunk
    PROVE  KernelInv'
<1>1. PICK k \in KernelRecord : kernel = <<k>> /\ Progress(k)
  BY DEF KernelInv, AddChunk, Idle
<1>2. kernel[1] = k /\ k.op = "add" /\ at < Tile * Tile
  BY <1>1 DEF AddChunk
<1>3. /\ k.d \in Registers /\ k.a \in Registers /\ k.b \in Registers /\ k.width \in Nat \ {0}
      /\ at \in Nat /\ Tile * Tile \in Nat /\ Modulus \in Nat \ {0}
  BY TileSizes DEF KernelRecord, KernelInv, KernelTypeOK
<1>4. /\ vr \in [Registers -> [Lane -> Element]] /\ before \in [Registers -> [Lane -> Element]]
  BY DEF KernelInv, KernelTypeOK
<1>5. /\ vr' = [vr EXCEPT ![k.d] = [i \in Lane |-> IF i \in at .. at + k.width - 1
                                                    THEN (vr[k.a][i] + vr[k.b][i]) % Modulus
                                                    ELSE vr[k.d][i]]]
      /\ at' = at + k.width /\ kernel' = kernel /\ before' = before /\ fpga' = fpga /\ calls' = calls
  BY <1>2, <1>3, <1>4 DEF AddChunk
<1>6. PICK e \in Nat : at + k.width * e = Tile * Tile
  BY <1>1, <1>2 DEF Progress
<1>7. e # 0
  BY <1>2, <1>3, <1>6
<1>8. e - 1 \in Nat /\ k.width * (e - 1) \in Nat /\ k.width * e = k.width * (e - 1) + k.width
  BY <1>3, <1>6, <1>7
<1>9. at' \in 0 .. Tile * Tile /\ at' + k.width * (e - 1) = Tile * Tile
  BY <1>3, <1>5, <1>6, <1>8
<1>10. \A l \in Lane : (vr[k.a][l] + vr[k.b][l]) % Modulus \in Element
  <2>1. \A l \in Lane : vr[k.a][l] \in Nat /\ vr[k.b][l] \in Nat
    BY <1>3, <1>4 DEF Element
  <2> QED
    BY <1>3, <2>1 DEF Element
<1>11. vr' \in [Registers -> [Lane -> Element]]
  BY <1>3, <1>4, <1>5, <1>10
<1>12. /\ \A r \in Registers : r # k.d => vr[r] = before[r]
       /\ \A l \in Lane : vr[k.d][l] = IF l < at THEN (before[k.a][l] + before[k.b][l]) % Modulus
                                       ELSE before[k.d][l]
  BY <1>1, <1>2 DEF Progress
<1>13. ASSUME NEW l \in Lane
       PROVE  vr'[k.d][l] = IF l < at' THEN (before[k.a][l] + before[k.b][l]) % Modulus
                            ELSE before[k.d][l]
  <2>1. l \in Nat
    BY TileSizes
  <2>2. vr'[k.d][l] = IF l \in at .. at + k.width - 1 THEN (vr[k.a][l] + vr[k.b][l]) % Modulus
                      ELSE vr[k.d][l]
    BY <1>3, <1>4, <1>5
  <2>3. l >= at => vr[k.a][l] = before[k.a][l] /\ vr[k.b][l] = before[k.b][l]
    BY <1>3, <1>12, <2>1
  <2>4. CASE l < at
    BY <1>3, <1>5, <1>12, <2>1, <2>2, <2>4
  <2>5. CASE l \in at .. at + k.width - 1
    BY <1>3, <1>5, <2>1, <2>2, <2>3, <2>5
  <2>6. CASE l >= at + k.width
    BY <1>3, <1>5, <1>12, <2>1, <2>2, <2>6
  <2> QED
    BY <1>3, <2>1, <2>4, <2>5, <2>6
<1>14. \A r \in Registers \ {k.d} : vr'[r] = before[r]
  BY <1>4, <1>5, <1>12
<1>15. Progress(k)'
  BY <1>2, <1>5, <1>8, <1>9, <1>13, <1>14 DEF Progress
<1>16. KernelTypeOK'
  BY <1>5, <1>9, <1>11 DEF KernelInv, KernelTypeOK
<1> QED
  BY <1>1, <1>5, <1>15, <1>16 DEF KernelInv

\* An element of the product, from operands that are as they were unless the
\* destination is one of them.
LEMMA MulCellInv ==
    ASSUME KernelInv, MulCell
    PROVE  KernelInv'
<1>1. PICK k \in KernelRecord : kernel = <<k>> /\ Progress(k)
  BY DEF KernelInv, MulCell, Idle
<1> DEFINE n == k.n
           i == at \div n
           j == at % n
           x == vr[k.a]
           y == vr[k.b]
           t == Terms(x, y, n, i, j)
<1>2. kernel[1] = k /\ k.op = "mul" /\ at < n * n
  BY <1>1 DEF MulCell
<1>3. /\ k.d \in Registers /\ k.a \in Registers /\ k.b \in Registers /\ n \in 1 .. Tile
      /\ at \in Nat
  BY TileSizes DEF KernelRecord, KernelInv, KernelTypeOK
<1>4. vr \in [Registers -> [Lane -> Element]] /\ before \in [Registers -> [Lane -> Element]]
  BY DEF KernelInv, KernelTypeOK
<1>5. n \in Nat \ {0} /\ n * n \in Nat /\ n * n <= Tile * Tile /\ Tile * Tile \in Nat
  BY <1>3, TileSizes
<1> HIDE DEF n
<1>6. j \in 0 .. n - 1 /\ i \in Nat /\ at = n * i + j
  BY <1>3, <1>5
<1>7. i \in 0 .. n - 1
  <2> HIDE DEF i, j
  <2>1. ~(n <= i)
    <3>1. n < i => n * n + n <= n * i
      BY <1>5, <1>6, ProductMonotonic
    <3>2. n * i \in Nat
      BY <1>5, <1>6
    <3> QED
      BY <1>2, <1>3, <1>5, <1>6, <3>1, <3>2
  <2> QED
    BY <1>5, <1>6, <2>1
<1>8. Cell(i, j, n) = at
  <2> HIDE DEF i, j
  <2>1. i * n = n * i /\ n * i \in Nat
    BY <1>5, <1>6
  <2> QED
    BY <1>6, <2>1 DEF Cell
<1>9. /\ vr' = [vr EXCEPT ![k.d][at] = t] /\ at' = at + 1
      /\ kernel' = kernel /\ before' = before /\ fpga' = fpga /\ calls' = calls
  BY <1>2, <1>8 DEF MulCell, n
<1>10. x \in [Lane -> Element] /\ y \in [Lane -> Element]
  BY <1>3, <1>4
<1>11. t \in Element /\ t = Product(x, y, n, i, j)
  BY <1>3, <1>6, <1>7, <1>10, TermsAreProduct
<1> HIDE DEF t, x, y
<1>12. at \in Lane /\ at' \in 0 .. Tile * Tile /\ at' <= n * n /\ at' \in Nat
  BY <1>2, <1>3, <1>5, <1>9 DEF Lane
<1>13. vr' \in [Registers -> [Lane -> Element]]
  BY <1>3, <1>4, <1>9, <1>11, <1>12
<1>14. /\ \A r \in Registers : r # k.d => vr'[r] = vr[r]
       /\ \A l \in Lane : vr'[k.d][l] = IF l = at THEN t ELSE vr[k.d][l]
  BY <1>3, <1>4, <1>9, <1>12
<1>15. /\ \A r \in Registers : r # k.d => vr[r] = before[r]
       /\ \A l \in Lane : l >= at => vr[k.d][l] = before[k.d][l]
       /\ k.d \notin {k.a, k.b} \/ n = 1 =>
             \A l \in Lane : l < at =>
                 vr[k.d][l] = Product(before[k.a], before[k.b], n, l \div n, l % n)
  BY <1>1, <1>2 DEF Progress, n
<1>16. ASSUME k.d \notin {k.a, k.b} \/ n = 1 PROVE x = before[k.a] /\ y = before[k.b]
  <2>1. CASE k.d \notin {k.a, k.b}
    BY <1>3, <1>15, <2>1 DEF x, y
  <2>2. CASE n = 1
    <3>1. at = 0
      BY <1>2, <1>3, <2>2
    <3>2. \A l \in Lane : vr[k.d][l] = before[k.d][l]
      BY <1>15, <3>1, TileSizes
    <3>3. vr[k.d] = before[k.d]
      BY <1>3, <1>4, <3>2
    <3> QED
      BY <1>3, <1>15, <3>3 DEF x, y
  <2> QED
    BY <1>16, <2>1, <2>2
<1>17. ASSUME k.d \notin {k.a, k.b} \/ n = 1, NEW l \in Lane, l < at'
       PROVE  vr'[k.d][l] = Product(before[k.a], before[k.b], n, l \div n, l % n)
  <2>1. CASE l = at
    BY <1>11, <1>14, <1>16, <1>17, <2>1
  <2>2. CASE l # at
    <3>1. l < at
      <4>1. l \in Nat
        BY TileSizes
      <4> QED
        BY <1>3, <1>9, <1>17, <2>2, <4>1
    <3> QED
      BY <1>14, <1>15, <1>17, <2>2, <3>1
  <2> QED
    BY <2>1, <2>2
<1>18. \A l \in Lane : l >= at' => vr'[k.d][l] = before[k.d][l]
  BY <1>3, <1>9, <1>14, <1>15, TileSizes
<1>19. Progress(k)'
  BY <1>2, <1>9, <1>12, <1>14, <1>15, <1>17, <1>18 DEF Progress, n
<1>20. KernelTypeOK'
  BY <1>9, <1>12, <1>13 DEF KernelInv, KernelTypeOK
<1> QED
  BY <1>1, <1>9, <1>19, <1>20 DEF KernelInv

\* Every call, every step of a kernel and every operation of the co-emulator.
LEMMA KernelStep ==
    ASSUME KernelInv, [KernelNext]_kernel_vars
    PROVE  KernelInv'
<1>0. fpga \in [backend : Backend, connected : BOOLEAN, offloaded : Nat, fallback : Nat]
  BY DEF KernelInv, KernelTypeOK
<1>1. Routed(fpga) \in [backend : Backend, connected : BOOLEAN, offloaded : Nat, fallback : Nat]
  BY <1>0 DEF Routed
<1>2. ASSUME NEW d \in Registers, NEW a \in Registers, NEW b \in Registers, NEW w \in Chunks,
             VecAdd(d, a, b, w)
      PROVE  KernelInv'
  <2>1. w \in Nat \ {0} /\ (Tile * Tile) % w = 0
    BY KernelsAssumption
  <2>2. Tile \in 1 .. Tile
    BY TileSizes
  <2> QED
    BY <1>0, <1>2, <2>1, <2>2, CallStarts DEF VecAdd
<1>3. ASSUME NEW d \in Registers, NEW a \in Registers, NEW b \in Registers, NEW n \in 1 .. Tile,
             MatmulTile(d, a, b, n) \/ OffloadMatmul(d, a, b, n)
      PROVE  KernelInv'
  <2>1. 1 \in Nat \ {0} /\ (Tile * Tile) % 1 = 0
    BY TileSizes
  <2>2. Call("mul", d, a, b, n, 1) /\ vr' = vr /\ (fpga' = fpga \/ fpga' = Routed(fpga))
    BY <1>3 DEF MatmulTile, OffloadMatmul
  <2> QED
    BY <1>0, <1>1, <2>1, <2>2, CallStarts
<1>4. ASSUME NEW d \in Registers, NEW a \in Registers, OffloadDma(d, a) PROVE KernelInv'
  <2>1. /\ kernel = << >> /\ kernel' = kernel /\ at' = at /\ before' = vr'
        /\ calls' \in 0 .. MaxCalls /\ fpga' = Routed(fpga)
    BY <1>4, TileSizes DEF OffloadDma, Idle, KernelInv, KernelTypeOK
  <2>2. vr' \in [Registers -> [Lane -> Element]]
    BY <1>4 DEF OffloadDma, KernelInv, KernelTypeOK
  <2> QED
    BY <1>1, <2>1, <2>2 DEF KernelInv, KernelTypeOK
<1>5. CASE KernelDone
  <2>1. /\ kernel' = << >> /\ at' = 0 /\ before' = vr /\ vr' = vr /\ fpga' = fpga /\ calls' = calls
    BY <1>5 DEF KernelDone
  <2>2. Len(kernel') <= 1 /\ 0 \in 0 .. Tile * Tile
    BY <2>1, TileSizes
  <2> QED
    BY <2>1, <2>2 DEF KernelInv, KernelTypeOK
<1>6. CASE (\E t \in Backend : ConfigureFpga(t)) \/ Connect \/ Disconnect
  <2>1. /\ kernel = << >> /\ UNCHANGED <<vr, kernel, at, before, calls>>
        /\ fpga' \in [backend : Backend, connected : BOOLEAN, offloaded : Nat, fallback : Nat]
    BY <1>0, <1>6 DEF ConfigureFpga, Connect, Disconnect, Idle
  <2> QED
    BY <2>1 DEF KernelInv, KernelTypeOK
<1>7. CASE UNCHANGED kernel_vars
  BY <1>7 DEF kernel_vars, KernelInv, KernelTypeOK, Progress
<1> QED
  BY <1>2, <1>3, <1>4, <1>5, <1>6, <1>7, AddChunkInv, MulCellInv DEF KernelNext

\* The invariant of the kernels holds in every state.
LEMMA KernelInvariance == KernelSpec => []KernelInv
<1>1. KernelInit => KernelInv
  <2> SUFFICES ASSUME KernelInit PROVE KernelInv
    OBVIOUS
  <2>1. vr \in [Registers -> [Lane -> Element]]
    BY KernelsAssumption DEF KernelInit
  <2>2. Len(kernel) <= 1 /\ 0 \in 0 .. Tile * Tile /\ 0 \in 0 .. MaxCalls
    BY TileSizes DEF KernelInit
  <2> QED
    BY <2>1, <2>2 DEF KernelInit, KernelInv, KernelTypeOK, Backend
<1>2. KernelInv /\ [KernelNext]_kernel_vars => KernelInv'
  BY KernelStep
<1> QED
  BY <1>1, <1>2, PTL DEF KernelSpec

\* A finished kernel leaves the sum or the product of its operands, for every tile
\* size, every width of the host's vectors, every content and every choice of
\* registers, the destination among the operands or not as KernelExact says
\* (op_vec_add, op_matmul_tile, the kernels of host.h, offload_matmul).
THEOREM KernelsExact == KernelSpec => []KernelExact
<1>1. ASSUME KernelInv PROVE KernelExact
  <2> SUFFICES ASSUME Finished
               PROVE  LET k == kernel[1]
                      IN  /\ \A r \in Registers \ {k.d} : vr[r] = before[r]
                          /\ k.op = "add" => vr[k.d] = Sum(before[k.a], before[k.b])
                          /\ k.op = "mul" =>
                                \A l \in Lane : l >= k.n * k.n => vr[k.d][l] = before[k.d][l]
                          /\ k.op = "mul" /\ (k.d \notin {k.a, k.b} \/ k.n = 1) =>
                                \A i, j \in 0 .. k.n - 1 :
                                    vr[k.d][k.n * i + j] =
                                        Product(before[k.a], before[k.b], k.n, i, j)
    BY DEF KernelExact
  <2>1. PICK k \in KernelRecord : kernel = <<k>> /\ Progress(k)
    BY <1>1 DEF KernelInv, Finished, Idle
  <2>2. kernel[1] = k
    BY <2>1
  <2>3. /\ k.d \in Registers /\ k.n \in 1 .. Tile /\ at \in Nat /\ at <= Tile * Tile
        /\ vr \in [Registers -> [Lane -> Element]]
    BY <1>1, TileSizes DEF KernelRecord, KernelInv, KernelTypeOK
  <2>4. ASSUME k.op = "add" PROVE vr[k.d] = Sum(before[k.a], before[k.b])
    <3>1. at = Tile * Tile
      BY <2>2, <2>3, <2>4, TileSizes DEF Finished
    <3>2. \A l \in Lane : vr[k.d][l] = (before[k.a][l] + before[k.b][l]) % Modulus
      BY <2>1, <2>4, <3>1, TileSizes DEF Progress
    <3> QED
      BY <2>3, <3>2 DEF Sum
  <2>5. ASSUME k.op = "mul"
        PROVE  /\ at = k.n * k.n
               /\ \A l \in Lane : l >= k.n * k.n => vr[k.d][l] = before[k.d][l]
    <3>1. at >= k.n * k.n /\ at <= k.n * k.n /\ k.n * k.n \in Nat
      BY <2>1, <2>2, <2>3, <2>5, TileSizes DEF Finished, Progress
    <3>2. at = k.n * k.n
      BY <2>3, <3>1
    <3> QED
      BY <2>1, <2>5, <3>2 DEF Progress
  <2>6. ASSUME k.op = "mul", k.d \notin {k.a, k.b} \/ k.n = 1,
               NEW i \in 0 .. k.n - 1, NEW j \in 0 .. k.n - 1
        PROVE  vr[k.d][k.n * i + j] = Product(before[k.a], before[k.b], k.n, i, j)
    <3> DEFINE l == k.n * i + j
    <3>1. l \in Lane /\ l < k.n * k.n /\ l \div k.n = i /\ l % k.n = j
      BY <2>3, CellInLane
    <3> HIDE DEF l
    <3>2. vr[k.d][l] = Product(before[k.a], before[k.b], k.n, l \div k.n, l % k.n)
      BY <2>1, <2>5, <2>6, <3>1 DEF Progress
    <3>3. vr[k.d][l] = Product(before[k.a], before[k.b], k.n, i, j)
      BY <3>1, <3>2
    <3> QED
      BY <3>3 DEF l
  <2>7. \A r \in Registers \ {k.d} : vr[r] = before[r]
    BY <2>1 DEF Progress
  <2> QED
    BY <2>2, <2>4, <2>5, <2>6, <2>7
<1> QED
  BY <1>1, KernelInvariance, PTL

--------------------------------------------------------------------------------
\* The units together

\* A behaviour of the run, in which one unit moves and the others stay as they were
\* constructed, is a behaviour of every unit: what is proved of each of them holds there.
THEOREM UnitsAlone ==
    Spec => /\ CacheSpec /\ PipelineSpec /\ ParallelSpec /\ CheckpointSpec
            /\ KernelSpec /\ PeripheralSpec
<1>1. Init => /\ CacheInit /\ PipelineInit /\ ParallelInit /\ CheckpointInit
              /\ KernelInit /\ PeripheralInit
  BY DEF Init
<1>2. [Next]_vars => /\ [CacheNext]_cache_vars /\ [PipelineNext]_pipeline_vars
                     /\ [ParallelNext]_parallel_vars /\ [CheckpointNext]_checkpoint_vars
                     /\ [KernelNext]_kernel_vars /\ [PeripheralNext]_peripheral_vars
  BY DEF Next, vars, PeripheralNext
<1> QED
  BY <1>1, <1>2, PTL DEF Spec, CacheSpec, PipelineSpec, ParallelSpec, CheckpointSpec,
     KernelSpec, PeripheralSpec

\* No unit leaves its types: no index, age, cycle or element escapes its range, for
\* every size of the units (Cache::access, tick, schedule, push, op_matmul_tile).
THEOREM UnitsTyped == Spec => []UnitsTypeOK
<1>1. CacheInv => CacheTypeOK
  BY DEF CacheInv, LevelGood, CacheTypeOK
<1>2. /\ CacheTypeOK /\ PipelineInv /\ ParallelInv /\ CheckpointInv /\ KernelInv /\ PeripheralInv
      => UnitsTypeOK
  BY DEF PipelineInv, ParallelInv, CheckpointInv, KernelInv, PeripheralInv, UnitsTypeOK
<1> QED
  BY <1>1, <1>2, UnitsAlone, CacheInvariance, PipelineInvariance, ParallelInvariance,
     CheckpointInvariance, KernelInvariance, PeripheralInvariance, PTL
================================================================================
