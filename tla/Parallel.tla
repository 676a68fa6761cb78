--------------------------------- MODULE Parallel ---------------------------------
(***************************************************************************)
(* The parallel execution units (include/aiasm/parallel.h,                 *)
(* src/parallel.cpp): the round-robin warp scheduler of the GPU target and *)
(* the systolic array of the ASIC target.  Of the counters only those of   *)
(* the array, whose values its model is about, are kept.                   *)
(***************************************************************************)
EXTENDS Integers, FiniteSets

CONSTANTS
    NumWarps,      \* max_warps_per_sm * num_sms
    Stalls,        \* cycles mark_stalled is given
    Ticks,         \* cycles tick is given
    Rows,          \* rows of the array
    TileCycles,    \* ceil(rows * cols / macs_per_cycle)
    MaxTiles       \* bound of the model: tiles enqueued

Warp == 0 .. NumWarps - 1

ASSUME ParallelAssumption ==
    /\ NumWarps \in Nat \ {0} /\ Rows \in Nat /\ TileCycles \in Nat \ {0} /\ MaxTiles \in Nat
    /\ Stalls \subseteq Nat /\ Ticks \subseteq Nat

VARIABLES
    state,          \* state_: 0 is ready, else stall cycles left
    rr,             \* rr_
    tiles, total,   \* tiles_ and total_cycles_
    depth,          \* pipeline_depth_
    passed          \* for the properties: times a ready warp was passed over

parallel_vars == <<state, rr, tiles, total, depth, passed>>
array == <<tiles, total, depth>>

--------------------------------------------------------------------------------
\* Warp scheduler

\* The k-th warp schedule() looks at.
Candidate(k) == (rr + k) % NumWarps

\* The first ready one, when there is one.
Chosen ==
    Candidate(CHOOSE k \in Warp : /\ state[Candidate(k)] = 0
                                  /\ \A j \in 0 .. k - 1 : state[Candidate(j)] # 0)

\* Mutant of Schedule: the search starts at the same warp every time.
Schedule_FromZero ==
    /\ \E w \in Warp : state[w] = 0
    /\ rr' = 0
    /\ passed' = [w \in Warp |-> IF w = Chosen \/ state[w] # 0 THEN 0 ELSE passed[w] + 1]
    /\ UNCHANGED <<state, array>>

\* schedule(); it answers -1 and changes nothing when all warps are stalled.
Schedule ==
    /\ \E w \in Warp : state[w] = 0
    /\ rr' = (Chosen + 1) % NumWarps
    /\ passed' = [w \in Warp |-> IF w = Chosen \/ state[w] # 0 THEN 0 ELSE passed[w] + 1]
    /\ UNCHANGED <<state, array>>

\* A warp that is stalled waits for its data, not for the scheduler.
Waiting(s) == [w \in Warp |-> IF s[w] = 0 THEN passed[w] ELSE 0]

MarkReady(w) ==
    /\ state' = [state EXCEPT ![w] = 0]
    /\ UNCHANGED <<rr, array, passed>>

MarkStalled(w, cycles) ==
    /\ state' = [state EXCEPT ![w] = cycles]
    /\ passed' = Waiting(state')
    /\ UNCHANGED <<rr, array>>

TickWarps(cycles) ==
    /\ state' = [w \in Warp |-> IF state[w] > cycles THEN state[w] - cycles ELSE 0]
    /\ UNCHANGED <<rr, array, passed>>

\* reset(), also called by configure().
ResetWarps ==
    /\ state' = [w \in Warp |-> 0] /\ rr' = 0 /\ passed' = [w \in Warp |-> 0]
    /\ UNCHANGED array

--------------------------------------------------------------------------------
\* Systolic array

\* enqueue_tile: until the pipeline is full a tile costs all its cycles, then one.
EnqueueTile ==
    /\ tiles < MaxTiles
    /\ tiles' = tiles + 1
    /\ IF depth < Rows THEN depth' = depth + 1 /\ total' = total + TileCycles
       ELSE depth' = depth /\ total' = total + 1
    /\ UNCHANGED <<state, rr, passed>>

ResetArray ==
    /\ tiles' = 0 /\ total' = 0 /\ depth' = 0
    /\ UNCHANGED <<state, rr, passed>>

--------------------------------------------------------------------------------
ParallelInit ==
    /\ state = [w \in Warp |-> 0] /\ rr = 0 /\ passed = [w \in Warp |-> 0]
    /\ tiles = 0 /\ total = 0 /\ depth = 0

ParallelNext ==
    \/ Schedule
    \/ \E w \in Warp : MarkReady(w)
    \/ \E w \in Warp, cycles \in Stalls : MarkStalled(w, cycles)
    \/ \E cycles \in Ticks : TickWarps(cycles)
    \/ ResetWarps
    \/ EnqueueTile
    \/ ResetArray

ParallelSpec == ParallelInit /\ [][ParallelNext]_parallel_vars

--------------------------------------------------------------------------------
\* Properties

\* Type invariant.
ParallelTypeOK ==
    /\ state \in [Warp -> Nat] /\ rr \in Warp /\ passed \in [Warp -> Nat]
    /\ tiles \in Nat /\ total \in Nat /\ depth \in 0 .. Rows

\* No warp starves: a warp that stays ready is passed over fewer times than there
\* are warps, whichever of the others stall, wake up or are scheduled in between
\* (WarpScheduler::schedule and its pointer rr_).
NoStarvation == \A w \in Warp : passed[w] < NumWarps
================================================================================
