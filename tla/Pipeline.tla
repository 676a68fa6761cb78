--------------------------------- MODULE Pipeline ---------------------------------
(***************************************************************************)
(* The execution-unit model (include/aiasm/pipeline.h, src/pipeline.cpp):  *)
(* the reservation stations that instructions are issued to and committed  *)
(* from, and the direct-mapped two-bit branch predictor.  An instruction   *)
(* is its number in program order.  The reorder buffer, the rename         *)
(* registers and the statistics are left out: nothing reads or fills them. *)
(***************************************************************************)
EXTENDS Integers, FiniteSets

CONSTANTS
    RSSize,        \* kRSSize (8)
    PredictorSize, \* counters of the predictor (256)
    PipelineConfigs, \* configurations: out_of_order, issue_width, branch_prediction
    Branches,      \* addresses of branches
    MaxIssued,     \* bounds of the model: instructions issued,
    MaxRun         \* and equal outcomes of a branch in a row

Slot == 1 .. RSSize
PredictorEntry == 0 .. PredictorSize - 1
PipelineConfig == [out_of_order : BOOLEAN, issue_width : Nat, branch_prediction : BOOLEAN]

ASSUME PipelineAssumption ==
    /\ RSSize \in Nat \ {0} /\ PredictorSize \in Nat \ {0}
    /\ PipelineConfigs \subseteq PipelineConfig
    /\ Branches \subseteq Nat /\ MaxIssued \in Nat /\ MaxRun \in Nat

VARIABLES
    cfg,           \* cfg_
    rs,            \* rs_: station -> instruction and issue cycle
    bpred,         \* bpred_
    cycle,         \* the caller's cycle
    \* For the properties:
    issued,        \* instructions accepted so far
    inflight,      \* those not yet committed or dropped by reset()
    run, taken     \* per entry: equal outcomes in a row, and the last outcome

pipeline_vars == <<cfg, rs, bpred, cycle, issued, inflight, run, taken>>
stations == <<rs, issued, inflight>>
predictor == <<bpred, run, taken>>

Empty == [occupied |-> FALSE, instr |-> 0, issue_cycle |-> 0]
Occupied == {k \in Slot : rs[k].occupied}

--------------------------------------------------------------------------------
\* Stations

FirstFree == CHOOSE k \in Slot \ Occupied : \A j \in Slot \ Occupied : k <= j

\* Mutant of TryIssue: full stations are not waited for.
TryIssue_Overwrite ==
    /\ cfg.out_of_order /\ issued < MaxIssued
    /\ LET k == IF Occupied = Slot THEN 1 ELSE FirstFree
       IN  rs' = [rs EXCEPT ![k] = [occupied |-> TRUE, instr |-> issued + 1, issue_cycle |-> cycle]]
    /\ issued' = issued + 1 /\ inflight' = inflight \cup {issued + 1}
    /\ UNCHANGED <<cfg, cycle, predictor>>

\* Mutant of TryIssue: the station is stamped with the next cycle.
TryIssue_NextCycle ==
    /\ cfg.out_of_order /\ issued < MaxIssued /\ Occupied # Slot
    /\ rs' = [rs EXCEPT ![FirstFree] =
                [occupied |-> TRUE, instr |-> issued + 1, issue_cycle |-> cycle + 1]]
    /\ issued' = issued + 1 /\ inflight' = inflight \cup {issued + 1}
    /\ UNCHANGED <<cfg, cycle, predictor>>

\* try_issue in an out-of-order pipeline with a free station; otherwise it changes
\* nothing but a counter.
TryIssue ==
    /\ cfg.out_of_order /\ issued < MaxIssued /\ Occupied # Slot
    /\ rs' = [rs EXCEPT ![FirstFree] =
                [occupied |-> TRUE, instr |-> issued + 1, issue_cycle |-> cycle]]
    /\ issued' = issued + 1 /\ inflight' = inflight \cup {issued + 1}
    /\ UNCHANGED <<cfg, cycle, predictor>>

\* Mutant of Ready: an instruction may commit in the cycle it is issued.
Ready_AtOnce == Occupied

\* The stations commit() may free.
Ready == {k \in Occupied : rs[k].issue_cycle + 1 <= cycle}

\* The ones it frees: the first issue_width in station order, but always one, since
\* the width is tested after a station is freed.
Freed ==
    {k \in Ready : LET before == Cardinality({j \in Ready : j < k})
                   IN  before = 0 \/ before < cfg.issue_width}

CommitReady ==
    /\ Ready # {}
    /\ rs' = [k \in Slot |-> IF k \in Freed THEN [rs[k] EXCEPT !.occupied = FALSE] ELSE rs[k]]
    /\ inflight' = inflight \ {rs[k].instr : k \in Freed}
    /\ UNCHANGED <<cfg, cycle, issued, predictor>>

\* The caller's cycle goes on; as a bound of the model not past the instructions.
NextCycle ==
    /\ cycle < issued
    /\ cycle' = cycle + 1
    /\ UNCHANGED <<cfg, stations, predictor>>

ConfigurePipeline(c) ==
    /\ cfg' = c
    /\ UNCHANGED <<cycle, stations, predictor>>

\* reset() empties the stations and keeps the predictor.
ResetPipeline ==
    /\ rs' = [k \in Slot |-> Empty] /\ inflight' = {}
    /\ UNCHANGED <<cfg, cycle, issued, predictor>>

--------------------------------------------------------------------------------
\* Branch predictor

EntryOf(pc) == pc % PredictorSize

\* The second bit of the counter.
predict_taken(c, pc) == c.branch_prediction /\ (bpred[EntryOf(pc)] \div 2) % 2 = 1

\* Mutant of Counted: an unclamped 8-bit counter.
Counted_NoClamp(n, t) == IF t THEN (n + 1) % 256 ELSE (n - 1) % 256

\* The saturating counter after a branch.
Counted(n, t) == IF t THEN (IF n < 3 THEN n + 1 ELSE 3) ELSE (IF n > 0 THEN n - 1 ELSE 0)

UpdatePredictor(pc, t) ==
    LET e == EntryOf(pc)
    IN  /\ bpred' = [bpred EXCEPT ![e] = Counted(@, t)]
        /\ run' = [run EXCEPT ![e] = IF t # taken[e] THEN 1 ELSE IF @ < MaxRun THEN @ + 1 ELSE @]
        /\ taken' = [taken EXCEPT ![e] = t]
        /\ UNCHANGED <<cfg, cycle, stations>>

--------------------------------------------------------------------------------
PipelineInit ==
    /\ cfg \in PipelineConfigs /\ rs = [k \in Slot |-> Empty]
    /\ bpred = [e \in PredictorEntry |-> 0] /\ cycle = 0 /\ issued = 0 /\ inflight = {}
    /\ run = [e \in PredictorEntry |-> 0] /\ taken = [e \in PredictorEntry |-> FALSE]

PipelineNext ==
    \/ TryIssue \/ CommitReady \/ NextCycle \/ ResetPipeline
    \/ \E c \in PipelineConfigs : ConfigurePipeline(c)
    \/ \E pc \in Branches, t \in BOOLEAN : UpdatePredictor(pc, t)

PipelineSpec == PipelineInit /\ [][PipelineNext]_pipeline_vars

--------------------------------------------------------------------------------
\* Properties

\* Type invariant.
PipelineTypeOK ==
    /\ cfg \in PipelineConfigs /\ bpred \in [PredictorEntry -> 0 .. 3] /\ cycle \in Nat
    /\ rs \in [Slot -> [occupied : BOOLEAN, instr : 0 .. MaxIssued, issue_cycle : 0 .. cycle]]
    /\ issued \in 0 .. MaxIssued /\ inflight \subseteq 1 .. MaxIssued

\* No instruction is lost or doubled: those accepted and not committed are exactly
\* those in the stations, each in one, across out-of-order commits, reuse of the
\* stations, changes of the configuration and resets (try_issue, commit).
NothingLost ==
    /\ {rs[k].instr : k \in Occupied} = inflight
    /\ Cardinality(Occupied) = Cardinality(inflight)

\* Execution takes a cycle: commit() never frees what was issued in its own cycle,
\* and whatever it leaves behind was either issued in it or is beyond the width.
CommitsLater ==
    [][rs' # rs /\ CommitReady => \A k \in Slot :
         /\ rs[k].occupied /\ ~rs'[k].occupied => rs[k].issue_cycle < cycle
         /\ rs'[k].occupied /\ rs[k].issue_cycle < cycle =>
               Cardinality(inflight) - Cardinality(inflight') >= cfg.issue_width]_pipeline_vars

\* The predictor is a two-bit counter: two equal outcomes in a row are predicted to
\* go on, and after three a single contrary one does not change the prediction,
\* whatever came before and whichever branches share the entry (update_predictor).
TwoBit ==
    /\ [](\A pc \in Branches : cfg.branch_prediction /\ run[EntryOf(pc)] >= 2 =>
             predict_taken(cfg, pc) = taken[EntryOf(pc)])
    /\ [][\A pc \in Branches :
             bpred' # bpred /\ UpdatePredictor(pc, ~taken[EntryOf(pc)]) /\ run[EntryOf(pc)] >= 3 =>
             predict_taken(cfg, pc)' = predict_taken(cfg, pc)]_pipeline_vars
================================================================================
