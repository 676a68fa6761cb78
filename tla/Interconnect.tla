------------------------------ MODULE Interconnect ------------------------------
(***************************************************************************)
(* The methods of the synchronous fabric (include/aiasm/interconnect.h,    *)
(* src/interconnect.cpp) on a record that holds the fields of the class.   *)
(* A pending transaction is kept as its complete_cycle: nothing reads its  *)
(* address, and its id is always 0.                                        *)
(***************************************************************************)
EXTENDS Integers, Sequences

FabricConfig == [latency : Nat, max_outstanding : Nat, burst : Nat \ {0}]

Fabric == [pending : Seq(Nat), cur : Nat, completed : Nat, stalled : Nat]

\* reset(), and the freshly constructed fabric.
EmptyFabric == [pending |-> << >>, cur |-> 0, completed |-> 0, stalled |-> 0]

\* Cycles until a transaction of the given length completes; burst is
\* data_width * burst_len.
latency_for(cfg, bytes) == cfg.latency + (bytes + cfg.burst - 1) \div cfg.burst

\* issue() returns false, and only counts the stall, when the fabric is full.
IssueAccepted(f, cfg) == Len(f.pending) < cfg.max_outstanding

\* Mutant of fabric_issue: the fabric keeps its own time.
fabric_issue_OwnClock(f, cfg, bytes, cycle) ==
    IF IssueAccepted(f, cfg)
    THEN [f EXCEPT !.pending = Append(@, cycle + latency_for(cfg, bytes))]
    ELSE [f EXCEPT !.stalled = @ + 1]

fabric_issue(f, cfg, bytes, cycle) ==
    IF IssueAccepted(f, cfg)
    THEN [f EXCEPT !.pending = Append(@, cycle + latency_for(cfg, bytes)), !.cur = cycle]
    ELSE [f EXCEPT !.stalled = @ + 1]

\* The number of transactions the pop loop of tick() removes: the longest
\* prefix of the queue that is due at cycle now.
DueCount(pending, now) ==
    CHOOSE k \in 0 .. Len(pending) :
        /\ \A j \in 1 .. k : pending[j] <= now
        /\ k < Len(pending) => pending[k + 1] > now

fabric_tick(f, cycles) ==
    LET now == f.cur + cycles
        k == DueCount(f.pending, now)
    IN  [f EXCEPT !.pending = SubSeq(@, k + 1, Len(@)), !.cur = now, !.completed = @ + k]
================================================================================
