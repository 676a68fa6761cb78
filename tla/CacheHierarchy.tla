------------------------------ MODULE CacheHierarchy ------------------------------
(***************************************************************************)
(* The cache hierarchy and the memory controller (include/aiasm/cache.h,   *)
(* src/cache.cpp): three set-associative caches searched in order, each    *)
(* filled on a miss, in front of banks with one open row each.  No data is *)
(* kept, only which lines are where; an access yields its stall cycles.    *)
(*                                                                         *)
(* Addresses are line numbers: every cache of the hierarchy has 64-byte    *)
(* lines, which is also the granularity of the banks.  Of the statistics   *)
(* only the write-backs are kept; the mesi field is never written.         *)
(* A cache without sets, which answers every access at once, does not      *)
(* occur: the hierarchy configures its three levels, all with sets.        *)
(***************************************************************************)
EXTENDS Integers, Sequences, FiniteSets

CONSTANTS
    LineCount,    \* lines of memory
    CacheConfigs, \* <<l1, l2, l3>>: sets, ways, hit_latency and miss_penalty of each
    Banks,        \* banks of the controller, at most the 32 of open_rows_
    RowLines,     \* lines of a row
    RowHit,       \* tCAS
    RowMiss,      \* tCAS + tRCD + tRP
    \* The workload:
    WriteKinds,   \* values of is_write
    Flushable,    \* levels it flushes
    Configurable, \* levels it configures again
    MaxTick       \* bound of the model: accesses of a cache

Line == 0 .. LineCount - 1
Level == 1 .. 3
CacheConfig == [sets : Nat \ {0}, ways : Nat \ {0}, hit : Nat, miss : Nat]

ASSUME CacheAssumption ==
    /\ LineCount \in Nat \ {0} /\ Banks \in 1 .. 32 /\ RowLines \in Nat \ {0}
    /\ CacheConfigs \in [Level -> CacheConfig]
    /\ RowHit \in Nat /\ RowMiss \in Nat /\ MaxTick \in Nat
    /\ WriteKinds \subseteq BOOLEAN /\ Flushable \subseteq Level /\ Configurable \subseteq Level

SetIndex(v) == 0 .. CacheConfigs[v].sets - 1
Way(v) == 1 .. CacheConfigs[v].ways

VARIABLES
    sets,        \* per level: set -> way -> line record
    tick,        \* per level: tick_
    writebacks,  \* per level, of stats_
    open,        \* open_rows_
    stall,       \* what the last access returned
    \* For the properties:
    recent,      \* per level and set: lines accessed since the last flush, latest first
    lastRow      \* per bank: row of the last access that reached it, 0 before

cache_vars == <<sets, tick, writebacks, open, stall, recent, lastRow>>

--------------------------------------------------------------------------------
EmptyWay == [valid |-> FALSE, dirty |-> FALSE, tag |-> 0, lru |-> 0]

SetOf(v, x) == x % CacheConfigs[v].sets
BankOf(x) == x % Banks
RowOf(x) == x \div RowLines

\* The way of its set that holds line x, and whether there is one.
Holds(c, v, x) == \E w \in Way(v) : c[SetOf(v, x)][w].valid /\ c[SetOf(v, x)][w].tag = x
WayOf(c, v, x) ==
    CHOOSE w \in Way(v) : /\ c[SetOf(v, x)][w].valid /\ c[SetOf(v, x)][w].tag = x
                          /\ \A u \in 1 .. w - 1 : ~(c[SetOf(v, x)][u].valid /\ c[SetOf(v, x)][u].tag = x)

\* The first way with the smallest lru, valid or not.
Victim(ways, v) ==
    CHOOSE w \in Way(v) : /\ \A u \in Way(v) : ways[w].lru <= ways[u].lru
                          /\ \A u \in 1 .. w - 1 : ways[w].lru < ways[u].lru

\* Mutant of Hit: the line keeps its age.
Hit_KeepsAge(l, now, is_write) == [l EXCEPT !.dirty = @ \/ is_write]

Hit(l, now, is_write) == [l EXCEPT !.lru = now, !.dirty = @ \/ is_write]

Filled(x, now, is_write) == [valid |-> TRUE, dirty |-> is_write, tag |-> x, lru |-> now]

\* Cache::access of level v for line x: the cache after it.
access(c, v, x, now, is_write) ==
    LET ways == c[SetOf(v, x)]
        w == IF Holds(c, v, x) THEN WayOf(c, v, x) ELSE Victim(ways, v)
        l == IF Holds(c, v, x) THEN Hit(ways[w], now, is_write) ELSE Filled(x, now, is_write)
    IN  [c EXCEPT ![SetOf(v, x)] = [@ EXCEPT ![w] = l]]

\* Whether the access writes a dirty line back.
WritesBack(c, v, x) ==
    ~Holds(c, v, x) /\ c[SetOf(v, x)][Victim(c[SetOf(v, x)], v)].dirty

\* Mutant of Flushed: the dirty bits survive.
Flushed_KeepDirty(c, v) ==
    [s \in SetIndex(v) |-> [w \in Way(v) |-> [c[s][w] EXCEPT !.valid = FALSE]]]

\* Cache::flush keeps the ages.
Flushed(c, v) ==
    [s \in SetIndex(v) |-> [w \in Way(v) |-> [c[s][w] EXCEPT !.valid = FALSE, !.dirty = FALSE]]]

--------------------------------------------------------------------------------
\* The hierarchy: the levels an access of x reaches, and what it costs

\* Mutant of Reaches: the third level is searched after every miss of the first.
Reaches_Both(v, x) == v = 1 \/ ~Holds(sets[1], 1, x)

Reaches(v, x) == \A u \in 1 .. v - 1 : ~Holds(sets[u], u, x)

ReachesMemory(x) == \A v \in Level : ~Holds(sets[v], v, x)

\* Stall cycles of level v, of the controller, and of the access.
LevelStall(v, x) ==
    IF ~Reaches(v, x) THEN 0
    ELSE IF Holds(sets[v], v, x) THEN CacheConfigs[v].hit ELSE CacheConfigs[v].miss

McStall(x) ==
    IF ~ReachesMemory(x) THEN 0 ELSE IF open[BankOf(x)] = RowOf(x) THEN RowHit ELSE RowMiss

\* For the properties: where line x is in r or would be added, and r with x in front.
Position(r, x) ==
    IF \E k \in 1 .. Len(r) : r[k] = x THEN CHOOSE k \in 1 .. Len(r) : r[k] = x ELSE Len(r) + 1

ToFront(r, x) ==
    LET p == Position(r, x)
    IN  [k \in 1 .. IF p > Len(r) THEN p ELSE Len(r) |->
            IF k = 1 THEN x ELSE IF k <= p THEN r[k - 1] ELSE r[k]]

--------------------------------------------------------------------------------
CacheInit ==
    /\ sets = [v \in Level |-> [s \in SetIndex(v) |-> [w \in Way(v) |-> EmptyWay]]]
    /\ tick = [v \in Level |-> 0]
    /\ writebacks = [v \in Level |-> 0]
    /\ open = [b \in 0 .. Banks - 1 |-> 0]
    /\ stall = 0
    /\ recent = [v \in Level |-> [s \in SetIndex(v) |-> << >>]]
    /\ lastRow = [b \in 0 .. Banks - 1 |-> 0]

\* CacheHierarchy::access.
Access(x, is_write) ==
    /\ \A v \in Level : tick[v] < MaxTick
    /\ sets' = [v \in Level |->
                  IF Reaches(v, x) THEN access(sets[v], v, x, tick[v] + 1, is_write) ELSE sets[v]]
    /\ tick' = [v \in Level |-> IF Reaches(v, x) THEN tick[v] + 1 ELSE tick[v]]
    /\ writebacks' = [v \in Level |->
                        IF Reaches(v, x) /\ WritesBack(sets[v], v, x) THEN writebacks[v] + 1
                        ELSE writebacks[v]]
    /\ open' = IF ReachesMemory(x) THEN [open EXCEPT ![BankOf(x)] = RowOf(x)] ELSE open
    /\ stall' = LevelStall(1, x) + LevelStall(2, x) + LevelStall(3, x) + McStall(x)
    /\ recent' = [v \in Level |->
                    IF Reaches(v, x)
                    THEN [recent[v] EXCEPT ![SetOf(v, x)] = ToFront(@, x)]
                    ELSE recent[v]]
    /\ lastRow' = IF ReachesMemory(x) THEN [lastRow EXCEPT ![BankOf(x)] = RowOf(x)] ELSE lastRow

\* flush() of one cache.
Flush(v) ==
    /\ sets' = [sets EXCEPT ![v] = Flushed(@, v)]
    /\ recent' = [recent EXCEPT ![v] = [s \in SetIndex(v) |-> << >>]]
    /\ UNCHANGED <<tick, writebacks, open, stall, lastRow>>

\* Mutant of ConfigureCache: the lines are kept.
ConfigureCache_KeepLines(v) ==
    /\ tick' = [tick EXCEPT ![v] = 0]
    /\ writebacks' = [writebacks EXCEPT ![v] = 0]
    /\ UNCHANGED <<sets, open, stall, recent, lastRow>>

\* configure() of one cache, with its configuration.
ConfigureCache(v) ==
    /\ sets' = [sets EXCEPT ![v] = [s \in SetIndex(v) |-> [w \in Way(v) |-> EmptyWay]]]
    /\ tick' = [tick EXCEPT ![v] = 0]
    /\ writebacks' = [writebacks EXCEPT ![v] = 0]
    /\ recent' = [recent EXCEPT ![v] = [s \in SetIndex(v) |-> << >>]]
    /\ UNCHANGED <<open, stall, lastRow>>

NoRow == -1

\* CacheHierarchy::reset: statistics and open rows; the caches keep their lines.
ResetHierarchy ==
    /\ writebacks' = [v \in Level |-> 0]
    /\ open' = [b \in 0 .. Banks - 1 |-> NoRow]
    /\ lastRow' = [b \in 0 .. Banks - 1 |-> NoRow]
    /\ UNCHANGED <<sets, tick, stall, recent>>

CacheNext ==
    \/ \E x \in Line, is_write \in WriteKinds : Access(x, is_write)
    \/ \E v \in Flushable : Flush(v)
    \/ \E v \in Configurable : ConfigureCache(v)
    \/ ResetHierarchy

CacheSpec == CacheInit /\ [][CacheNext]_cache_vars

--------------------------------------------------------------------------------
\* Properties

\* Type invariant.
CacheTypeOK ==
    /\ DOMAIN sets = Level
    /\ \A v \in Level :
          sets[v] \in [SetIndex(v) -> [Way(v) -> [valid : BOOLEAN, dirty : BOOLEAN,
                                                  tag : Line, lru : 0 .. tick[v]]]]
    /\ tick \in [Level -> Nat] /\ writebacks \in [Level -> Nat]
    /\ open \in [0 .. Banks - 1 -> Nat \cup {NoRow}]
    /\ stall \in Nat

\* True LRU: a set of n ways holds exactly the n lines of it that were accessed
\* last since the cache was flushed, each in one way.  The replacement looks only at
\* ages, which flush() keeps, so it must never prefer a valid line to an invalid one
\* (Cache::access, flush).
TrueLru ==
    \A v \in Level : \A s \in SetIndex(v) :
        LET held == {w \in Way(v) : sets[v][s][w].valid}
            n == IF Len(recent[v][s]) < CacheConfigs[v].ways THEN Len(recent[v][s])
                 ELSE CacheConfigs[v].ways
        IN  /\ {sets[v][s][w].tag : w \in held} = {recent[v][s][k] : k \in 1 .. n}
            /\ Cardinality(held) = n

\* A write-back is counted exactly when an access makes a dirty line leave a cache,
\* and no other line leaves dirty (Cache::access).
WritebackCounted ==
    [][\A x \in Line, is_write \in WriteKinds : tick' # tick /\ Access(x, is_write) =>
         \A v \in Level :
            LET Dirty == {y \in Line : \E s \in SetIndex(v), w \in Way(v) :
                            sets[v][s][w].valid /\ sets[v][s][w].dirty /\ sets[v][s][w].tag = y}
                Left == {y \in Dirty : ~Holds(sets'[v], v, y)}
            IN  writebacks'[v] = writebacks[v] + Cardinality(Left)]_cache_vars

\* The cost of an access is that of a memory of three ideal LRU caches over banks
\* that remember their last row: penalties of the levels that miss, then the latency
\* of the first that hits, or of the bank (CacheHierarchy::access).
InIdeal(v, x) ==
    \E k \in 1 .. Len(recent[v][SetOf(v, x)]) :
        k <= CacheConfigs[v].ways /\ recent[v][SetOf(v, x)][k] = x

IdealStall(x) ==
    IF InIdeal(1, x) THEN CacheConfigs[1].hit
    ELSE CacheConfigs[1].miss +
         (IF InIdeal(2, x) THEN CacheConfigs[2].hit
          ELSE CacheConfigs[2].miss +
               (IF InIdeal(3, x) THEN CacheConfigs[3].hit
                ELSE CacheConfigs[3].miss +
                     (IF lastRow[BankOf(x)] = RowOf(x) THEN RowHit ELSE RowMiss)))

IdealCost ==
    [][\A x \in Line, is_write \in WriteKinds :
         tick' # tick /\ Access(x, is_write) => stall' = IdealStall(x)]_cache_vars
================================================================================
