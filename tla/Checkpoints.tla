------------------------------- MODULE Checkpoints -------------------------------
(***************************************************************************)
(* Reverse execution (include/aiasm/checkpoint.h, src/checkpoint.cpp): a   *)
(* tracing host pushes the state after each committed instruction, and     *)
(* steps back by popping one and restoring it.  The history is a bounded   *)
(* double-ended queue that drops its oldest entry.  Directly after a       *)
(* commit its last entry is the running guest, so the first step back only *)
(* takes it off; after a crash it is the guest before the instruction that *)
(* crashed.                                                                *)
(*                                                                         *)
(* The guest is abstracted to three parts that change as it runs: the      *)
(* register file, the rest of what a checkpoint records (CSRs, profile and *)
(* clocks) and the memory, which only a full checkpoint records.           *)
(***************************************************************************)
EXTENDS Integers, Sequences, SequencesExt

CONSTANTS
    Values,      \* values of a part of the guest
    Limits,      \* values set_max_history may be given
    Blobs,       \* whether the host saves and restores blobs
    MaxUndo      \* bound of the model: pushes that are not popped

ASSUME CheckpointAssumption == Values # {} /\ Limits \subseteq Nat /\ Limits # {} /\ MaxUndo \in Nat

\* struct Checkpoint; mem is << >> unless has_memory.
Checkpoint == [regs : Values, rest : Values, mem : {<< >>} \cup {<<v>> : v \in Values}]

VARIABLES
    guest,         \* the running guest: regs, rest, mem
    history,       \* history_
    max_history,   \* max_history_
    blob,          \* << >> or << the last blob saved >>
    \* For the properties:
    undo           \* guests, and whether in full, pushed and not yet popped or cleared

checkpoint_vars == <<guest, history, max_history, blob, undo>>

Guest == [regs : Values, rest : Values, mem : Values]

Captured(g) == [regs |-> g.regs, rest |-> g.rest, mem |-> << >>]
CapturedFull(g) == [regs |-> g.regs, rest |-> g.rest, mem |-> <<g.mem>>]

\* What the host does with a checkpoint it gets back.
Restored(g, cp) ==
    [regs |-> cp.regs, rest |-> cp.rest, mem |-> IF cp.mem = << >> THEN g.mem ELSE cp.mem[1]]

\* Mutant of Pushed: the newest entry is the one dropped.
Pushed_DropNewest(h, cp) == IF Len(h) + 1 > max_history THEN h ELSE Append(h, cp)

\* push_back, and pop_front when the history is too long.
Pushed(h, cp) ==
    LET longer == Append(h, cp)
    IN  IF Len(longer) > max_history THEN Tail(longer) ELSE longer

--------------------------------------------------------------------------------
CheckpointInit ==
    /\ guest \in Guest
    /\ history = << >> /\ max_history \in Limits /\ blob = << >>
    /\ undo = << >>

\* The guest commits an instruction, becomes g and is captured.
CommitInstruction(g, full) ==
    /\ Len(undo) < MaxUndo
    /\ guest' = g
    /\ history' = Pushed(history, IF full THEN CapturedFull(g) ELSE Captured(g))
    /\ undo' = Append(undo, [g |-> g, full |-> full])
    /\ UNCHANGED <<max_history, blob>>

Push(g) == CommitInstruction(g, FALSE)
PushFull(g) == CommitInstruction(g, TRUE)

\* The guest becomes g without a capture: an instruction that throws before it
\* commits, or any while the host does not trace.
RunUncaptured(g) ==
    /\ guest' = g
    /\ UNCHANGED <<history, max_history, blob, undo>>

\* Mutant of StepBack: the oldest checkpoint is popped.
StepBack_Oldest ==
    /\ history # << >>
    /\ guest' = Restored(guest, Head(history))
    /\ history' = Tail(history)
    /\ undo' = Front(undo)
    /\ UNCHANGED <<max_history, blob>>

\* pop() and the restore; with an empty history pop() answers false.
StepBack ==
    /\ history # << >>
    /\ guest' = Restored(guest, Last(history))
    /\ history' = Front(history)
    /\ undo' = Front(undo)
    /\ UNCHANGED <<max_history, blob>>

ClearHistory ==
    /\ history' = << >> /\ undo' = << >>
    /\ UNCHANGED <<guest, max_history, blob>>

\* Mutant of SetMaxHistory: room for the entry being pushed is added.
SetMaxHistory_OneMore(n) ==
    /\ max_history' = n + 1
    /\ UNCHANGED <<guest, history, blob, undo>>

SetMaxHistory(n) ==
    /\ max_history' = n
    /\ UNCHANGED <<guest, history, blob, undo>>

\* save_blob: the blob has room for the CSRs, but only the registers are copied.
SaveBlob ==
    /\ Blobs
    /\ blob' = <<guest.regs>>
    /\ UNCHANGED <<guest, history, max_history, undo>>

\* restore_blob into the checkpoint of the running guest, which is then restored.
RestoreBlob ==
    /\ blob # << >>
    /\ guest' = [guest EXCEPT !.regs = blob[1]]
    /\ UNCHANGED <<history, max_history, blob, undo>>

CheckpointNext ==
    \/ \E g \in Guest : Push(g) \/ PushFull(g) \/ RunUncaptured(g)
    \/ StepBack \/ ClearHistory
    \/ \E n \in Limits : SetMaxHistory(n)
    \/ SaveBlob \/ RestoreBlob

CheckpointSpec == CheckpointInit /\ [][CheckpointNext]_checkpoint_vars

--------------------------------------------------------------------------------
\* Properties

\* Type invariant.
CheckpointTypeOK ==
    /\ guest \in Guest /\ history \in Seq(Checkpoint) /\ undo \in Seq([g : Guest, full : BOOLEAN])
    /\ max_history \in Limits
    /\ blob = << >> \/ blob[1] \in Values

\* The history is always the newest part of what was pushed and not popped, however
\* pushes that overflow, pops, clears and changes of the limit follow each other: a
\* step back never skips a checkpoint (push, push_full, pop).
NewestKept ==
    IsSuffix(history, [k \in 1 .. Len(undo) |-> IF undo[k].full THEN CapturedFull(undo[k].g)
                                                ELSE Captured(undo[k].g)])

\* Reverse execution is exact: stepping back gives the guest the registers and CSRs
\* it had after the last instruction that was captured and not yet taken back,
\* whatever ran since, and its memory too if it was captured in full; otherwise the
\* memory stays as it is.
ExactReverse ==
    [][StepBack =>
         LET u == Last(undo)
         IN  guest' = IF u.full THEN u.g ELSE [u.g EXCEPT !.mem = guest.mem]]_checkpoint_vars
================================================================================
