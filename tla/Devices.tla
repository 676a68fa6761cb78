--------------------------------- MODULE Devices ---------------------------------
(***************************************************************************)
(* The MMIO peripherals (include/aiasm/devices.h): the timer and the UART, *)
(* their methods on records.  A register is named instead of numbered.     *)
(* The UART buffer is kept as the sequence of words it holds; the receive  *)
(* buffer is left out because nothing ever fills it.                       *)
(***************************************************************************)
EXTENDS Isa, Sequences

CONSTANTS
    NewLine,     \* the word whose low byte is '\n'
    TxLimit      \* bytes at which the transmit buffer flushes by itself (256)

ASSUME DeviceAssumption == NewLine \in Word /\ TxLimit \in Nat \ {0}

TimerReg == {"COUNT", "LIMIT", "CTRL", "IRQ"}
UartReg == {"TX", "RX", "STATUS"}

Timer == [count : Nat, limit : Nat, ctrl : BOOLEAN, irq_pending : BOOLEAN]

\* Mutant of timer_tick: a period starts from zero.
timer_tick_FromZero(t, cycles) ==
    IF ~t.ctrl THEN t
    ELSE IF t.count + cycles >= t.limit THEN [t EXCEPT !.count = 0, !.irq_pending = TRUE]
    ELSE [t EXCEPT !.count = @ + cycles]

\* TimerDevice::tick, called with CYCLES_PER_TICK.
timer_tick(t, cycles) ==
    IF ~t.ctrl THEN t
    ELSE IF t.count + cycles >= t.limit
    THEN [t EXCEPT !.count = @ + cycles - t.limit, !.irq_pending = TRUE]
    ELSE [t EXCEPT !.count = @ + cycles]

\* TimerDevice::read_reg: the value read ...
timer_value(t, reg) ==
    CASE reg = "COUNT" -> t.count % WordCount
      [] reg = "LIMIT" -> t.limit % WordCount
      [] reg = "CTRL"  -> IF t.ctrl THEN 1 ELSE 0
      [] OTHER         -> IF t.irq_pending THEN 1 ELSE 0

\* ... and the timer after the read: reading IRQ acknowledges the interrupt.
timer_read(t, reg) == IF reg = "IRQ" THEN [t EXCEPT !.irq_pending = FALSE] ELSE t

timer_write(t, reg, value) ==
    CASE reg = "COUNT" -> [t EXCEPT !.count = value]
      [] reg = "LIMIT" -> [t EXCEPT !.limit = value]
      [] reg = "CTRL"  -> [t EXCEPT !.ctrl = (value # 0)]
      [] OTHER         -> [t EXCEPT !.irq_pending = FALSE]

\* UartDevice::write_reg on the transmit buffer: a newline, or a full buffer,
\* prints and empties it.  Writes to the other registers are ignored.
uart_flushes(tx, value) == value = NewLine \/ Len(tx) + 1 >= TxLimit

\* Mutant of uart_write: the printed line stays in the buffer.
uart_write_KeepsLine(tx, reg, value) == IF reg # "TX" THEN tx ELSE Append(tx, value)

uart_write(tx, reg, value) ==
    IF reg # "TX" THEN tx
    ELSE IF uart_flushes(tx, value) THEN << >> ELSE Append(tx, value)

\* UartDevice::read_reg: nothing is ever received, the transmitter is ready.
uart_value(reg) == IF reg = "STATUS" THEN 1 ELSE 0
================================================================================
