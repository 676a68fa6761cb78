-------------------------------- MODULE Peripherals --------------------------------
(***************************************************************************)
(* The two devices of module Devices under arbitrary register accesses and *)
(* ticks, with the history their users rely on: what was printed of what   *)
(* was written, and how often the timer expired in how much time.          *)
(*                                                                         *)
(* The bytes of the UART are words here, 0 the NUL that ends a C string.   *)
(* Emulator::reset and the snapshots of the emulator leave both devices    *)
(* alone, and so does a run() or run_fast() that ends with a throw, before *)
(* its flush.                                                              *)
(***************************************************************************)
EXTENDS Devices, SequencesExt

CONSTANTS
    Bytes,          \* written to TX
    Counts,         \* written to COUNT
    TimerLimits,    \* written to LIMIT
    MaxWritten,     \* bound of the model: bytes written
    MaxClock        \* bound of the model: cycles a timer runs

ASSUME PeripheralsAssumption ==
    /\ Bytes \subseteq Word
    /\ Counts \subseteq Nat /\ TimerLimits \subseteq Nat /\ MaxWritten \in Nat /\ MaxClock \in Nat

VARIABLES
    timer,      \* the TimerDevice
    tx,         \* tx_buffer_
    printed,    \* bytes that reached the output
    written,    \* for the properties: bytes written to TX
    clock,      \* for the properties: the count without its reloads, since COUNT or
                \* LIMIT was written
    expired,    \* for the properties: periods that ended since then
    phased      \* for the properties: the count was below the limit then

peripheral_vars == <<timer, tx, printed, written, clock, expired, phased>>
uart_vars == <<tx, printed, written>>
timer_vars == <<timer, clock, expired, phased>>

--------------------------------------------------------------------------------
\* UART

\* printf("%s"): what precedes the first NUL.
Shown(line) ==
    LET nul == SelectInSeq(line, LAMBDA b : b = 0)
    IN  IF nul = 0 THEN line ELSE SubSeq(line, 1, nul - 1)

WriteTx(b) ==
    /\ Len(written) < MaxWritten
    /\ written' = Append(written, b)
    /\ tx' = uart_write(tx, "TX", b)
    /\ printed' = IF uart_flushes(tx, b) THEN printed \o Shown(Append(tx, b)) ELSE printed
    /\ UNCHANGED timer_vars

\* flush(), when run() or run_fast() returns.
FlushUart ==
    /\ tx' = << >> /\ printed' = printed \o Shown(tx)
    /\ UNCHANGED <<written, timer_vars>>

--------------------------------------------------------------------------------
\* Timer

TickTimer ==
    /\ clock + CyclesPerTick <= MaxClock
    /\ timer' = timer_tick(timer, CyclesPerTick)
    /\ clock' = IF timer.ctrl THEN clock + CyclesPerTick ELSE clock
    /\ expired' = IF timer'.count < timer.count + (clock' - clock) THEN expired + 1 ELSE expired
    /\ UNCHANGED <<phased, uart_vars>>

\* An access that moves the count or its limit begins a new measurement.
Measured(t) == clock' = t.count /\ expired' = 0 /\ phased' = (t.count < t.limit)

WriteTimer(reg, value) ==
    /\ timer' = timer_write(timer, reg, value)
    /\ IF reg \in {"COUNT", "LIMIT"} THEN Measured(timer') ELSE UNCHANGED <<clock, expired, phased>>
    /\ UNCHANGED uart_vars

ReadTimer(reg) ==
    /\ timer' = timer_read(timer, reg)
    /\ UNCHANGED <<clock, expired, phased, uart_vars>>

--------------------------------------------------------------------------------
PeripheralInit ==
    /\ timer = [count |-> 0, limit |-> CyclesPerTick, ctrl |-> FALSE, irq_pending |-> FALSE]
    /\ tx = << >> /\ printed = << >> /\ written = << >>
    /\ clock = 0 /\ expired = 0 /\ phased = TRUE

UartNext == (\E b \in Bytes : WriteTx(b)) \/ FlushUart

TimerNext ==
    \/ TickTimer
    \/ \E v \in Counts : WriteTimer("COUNT", v)
    \/ \E v \in TimerLimits : WriteTimer("LIMIT", v)
    \/ \E v \in {0, 1} : WriteTimer("CTRL", v)
    \/ WriteTimer("IRQ", 0)
    \/ \E reg \in TimerReg : ReadTimer(reg)

PeripheralNext == UartNext \/ TimerNext

PeripheralSpec == PeripheralInit /\ [][PeripheralNext]_peripheral_vars

--------------------------------------------------------------------------------
\* Properties

\* Type invariant.
PeripheralTypeOK ==
    /\ timer \in Timer
    /\ tx \in Seq(Word) /\ Len(tx) < TxLimit /\ printed \in Seq(Word) /\ written \in Seq(Word)
    /\ clock \in Nat /\ expired \in Nat /\ phased \in BOOLEAN

\* Text is printed once, whole and in the order it was written, whatever flushes it:
\* a newline, a full buffer, the end of a run, or a later run after one that threw.
\* A NUL is excluded, behind which printf drops the rest of the buffer
\* (UartDevice::write_reg and flush).
UartLossless == (0 \notin Range(written)) => printed \o tx = written

\* A periodic timer does not drift: with a limit of at least a tick it expires exactly
\* once a period however the ticks fall, it carries the rest of a tick into the next
\* period, and acknowledging, stopping and restarting it lose nothing
\* (TimerDevice::tick; a tick reloads once, so a shorter limit falls behind for ever).
NoDrift ==
    phased /\ timer.limit >= CyclesPerTick =>
        timer.count = clock % timer.limit /\ expired = clock \div timer.limit
================================================================================
