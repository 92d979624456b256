---------------------------- MODULE Temporizador ----------------------------
(***************************************************************************)
(* The interval timer (myhardware_timer_0.v), clock edge by clock edge,    *)
(* with its two drivers: the system clock, whose interrupt counts ticks,   *)
(* and the timestamp, which reads the running counter in two halves.  At   *)
(* most one register is written at an edge; between two accesses of the    *)
(* software any number of edges passes.                                    *)
(***************************************************************************)
EXTENDS Integers

CONSTANTS
  Half,          \* values of one half of the counter (2^16)
  ResetPeriod,   \* the period register after a reset (49999)
  Latency        \* edges the processor takes at most to enter the interrupt

ASSUME TimerAssumption ==
  /\ Half \in Nat /\ Half > 1
  /\ ResetPeriod \in 1..(Half * Half - 1)
  /\ Latency \in Nat

VARIABLES
  tm,       \* the registers of the device
  td,       \* the drivers: where they are, what they keep
  nticks,   \* _alt_nticks, less the periods that have passed
  since     \* edges since alt_timestamp_start, and at the last snapshot

timerVars == <<tm, td, nticks, since>>

Full     == Half * Half - 1
Register == 0..(Half - 1)
Elapsed  == 0..(Full + 2)        \* bound: beyond a whole turn nothing changes

Control == {"ITO", "CONT", "START", "STOP"}

TimerTypeOK ==
  /\ tm \in [counter : 0..Full, period_l : Register, period_h : Register,
             control : SUBSET Control, running : BOOLEAN, reload : BOOLEAN,
             was_zero : BOOLEAN, timeout : BOOLEAN, snapshot : 0..Full]
  /\ td \in [pc : {"boot", "clock", "clear", "dummy", "tick", "free", "stop", "low", "high",
                   "start", "ready", "snap", "read_l", "read_h", "answer"},
             lower : Register, upper : Register, waits : 0..Latency]
  /\ nticks \in -1..1
  /\ since \in [now : Elapsed, snapped : Elapsed]

TimerInit ==
  /\ tm = [counter |-> ResetPeriod, period_l |-> ResetPeriod % Half,
           period_h |-> ResetPeriod \div Half, control |-> {}, running |-> FALSE,
           reload |-> FALSE, was_zero |-> FALSE, timeout |-> FALSE, snapshot |-> 0]
  /\ td = [pc |-> "boot", lower |-> 0, upper |-> 0, waits |-> 0]
  /\ nticks = 0
  /\ since = [now |-> 0, snapped |-> 0]

-----------------------------------------------------------------------------
(* The device at one edge, with the register written there, if any.        *)

TimerIrq == tm.timeout /\ "ITO" \in tm.control

LoadValue == tm.period_h * Half + tm.period_l

TimeoutEvent == tm.counter = 0 /\ ~tm.was_zero

Edge(reg, data) ==
  LET strobe(r) == reg = r
      starts == strobe("control") /\ "START" \in data
      stops  == \/ strobe("control") /\ "STOP" \in data
                \/ tm.reload
                \/ tm.counter = 0 /\ "CONT" \notin tm.control
  IN tm' = [ counter  |-> CASE ~tm.running /\ ~tm.reload -> tm.counter
                            [] tm.reload \/ (tm.running /\ tm.counter = 0) -> LoadValue
                            [] OTHER -> tm.counter - 1,
             period_l |-> IF strobe("period_l") THEN data ELSE tm.period_l,
             period_h |-> IF strobe("period_h") THEN data ELSE tm.period_h,
             control  |-> IF strobe("control") THEN data ELSE tm.control,
             running  |-> starts \/ (tm.running /\ ~stops),
             reload   |-> strobe("period_l") \/ strobe("period_h"),
             was_zero |-> tm.counter = 0,
             timeout  |-> ~strobe("status") /\ (tm.timeout \/ TimeoutEvent),
             snapshot |-> IF strobe("snap") THEN tm.counter ELSE tm.snapshot ]

Later(n) == IF n = Full + 2 THEN n ELSE n + 1

\* A timeout is a period that has passed: nticks is behind until it is counted.
Passes ==
  nticks' = IF TimeoutEvent /\ td.pc \in {"clock", "clear", "dummy", "tick"}
              THEN nticks - 1 ELSE nticks

Step(from, to, reg, data) ==
  /\ td.pc = from
  /\ td' = [td EXCEPT !.pc = to, !.waits = 0]
  /\ Edge(reg, data) /\ Passes

-----------------------------------------------------------------------------
(* The system clock: alt_avalon_timer_sc_init and alt_avalon_timer_sc_irq.  *)

sc_Init_OneShot ==
  /\ Step("boot", "clock", "control", {"ITO", "START"})
  /\ UNCHANGED since

sc_Init ==
  /\ Step("boot", "clock", "control", {"ITO", "CONT", "START"})
  /\ UNCHANGED since

sc_Enter == TimerIrq /\ Step("clock", "clear", "none", 0) /\ UNCHANGED since

sc_Clear == Step("clear", "dummy", "status", 0) /\ UNCHANGED since

\* The dummy read of the control register has no effect.
sc_Dummy == Step("dummy", "tick", "none", 0) /\ UNCHANGED since

sc_Tick ==
  /\ td.pc = "tick"
  /\ td' = [td EXCEPT !.pc = "clock", !.waits = 0]
  /\ Edge("none", 0)
  /\ nticks' = (IF TimeoutEvent THEN nticks - 1 ELSE nticks) + 1
  /\ UNCHANGED since

-----------------------------------------------------------------------------
(* The timestamp: alt_timestamp_start and alt_timestamp.                    *)

ts_Choose == Step("boot", "free", "none", 0) /\ UNCHANGED since

ts_Begin ==
  /\ td.pc \in {"free", "ready"}
  /\ Step(td.pc, "stop", "none", 0)
  /\ UNCHANGED since

Counting == since' = [since EXCEPT !.now = Later(@)]

ts_Stop  == Step("stop", "low", "control", {"STOP"}) /\ Counting
ts_Low   == Step("low", "high", "period_l", Half - 1) /\ Counting

ts_High  == Step("high", "start", "period_h", Half - 1) /\ Counting

ts_Start ==
  /\ Step("start", "ready", "control", {"START"})
  /\ since' = [now |-> 0, snapped |-> 0]

\* alt_timestamp: the snapshot is latched, then read in two halves.
ts_Ask == Step("ready", "snap", "none", 0) /\ Counting

ts_Snap ==
  /\ Step("snap", "read_l", "snap", 0)
  /\ since' = [now |-> Later(since.now), snapped |-> since.now]

ts_ReadLow ==
  /\ td.pc = "read_l"
  /\ td' = [td EXCEPT !.pc = "read_h", !.lower = tm.snapshot % Half]
  /\ Edge("none", 0) /\ Passes /\ Counting

\* What it would be to read the counter itself.
ts_ReadHigh_Live ==
  /\ td.pc = "read_h"
  /\ td' = [td EXCEPT !.pc = "answer", !.upper = tm.counter \div Half]
  /\ Edge("none", 0) /\ Passes /\ Counting

ts_ReadHigh ==
  /\ td.pc = "read_h"
  /\ td' = [td EXCEPT !.pc = "answer", !.upper = tm.snapshot \div Half]
  /\ Edge("none", 0) /\ Passes /\ Counting

alt_timestamp == Full - (td.upper * Half + td.lower)

ts_Return ==
  /\ td.pc = "answer"
  /\ td' = [td EXCEPT !.pc = "ready", !.lower = 0, !.upper = 0]
  /\ Edge("none", 0) /\ Passes /\ Counting

\* An edge without an access; the processor enters the interrupt within Latency
\* edges and is done with it before the next period is over.
IdleEdge ==
  /\ td.pc # "boot"
  /\ TimerIrq \/ td.pc \in {"clear", "dummy", "tick"} => td.waits < Latency
  /\ td' = [td EXCEPT !.waits =
              IF TimerIrq \/ td.pc \in {"clear", "dummy", "tick"} THEN @ + 1 ELSE @]
  /\ Edge("none", 0) /\ Passes
  /\ since' = IF td.pc = "clock" \/ td.pc = "free" THEN since
              ELSE [since EXCEPT !.now = Later(@)]

TimerNext ==
  \/ sc_Init \/ sc_Enter \/ sc_Clear \/ sc_Dummy \/ sc_Tick
  \/ ts_Choose \/ ts_Begin \/ ts_Stop \/ ts_Low \/ ts_High \/ ts_Start
  \/ ts_Ask \/ ts_Snap \/ ts_ReadLow \/ ts_ReadHigh \/ ts_Return
  \/ IdleEdge

TimerFairness == WF_timerVars(td.pc # "boot" /\ TimerNext)

TimerSpec == TimerInit /\ [][TimerNext]_timerVars /\ TimerFairness

-----------------------------------------------------------------------------
\* The tick count is never more than one period behind the clock and never ahead of
\* it, and while it is behind, the interrupt that will count is pending or running: no
\* tick is lost and none counted twice (altera_avalon_timer_sc.c:49-79).
TicksKeepUp ==
  /\ nticks \in {-1, 0}
  /\ nticks = -1 => td.pc \in {"clear", "dummy", "tick"} \/ TimerIrq

\* The system clock goes on ticking (altera_avalon_timer_sc.c:95-98).
ClockTicks == <>[](td.pc \in {"clock", "clear", "dummy", "tick"}) => []<>(td.pc = "tick")

\* alt_timestamp returns the edges since alt_timestamp_start, although it reads the
\* counter in two halves while it runs; after a whole turn it returns 0, by which "the
\* user can detect timer roll-over" (altera_avalon_timer_ts.c:62-63 and 102-122; what
\* the comment of alt_timestamp says of a whole turn is RolloverIsMinusOne).
TimestampTrue ==
  td.pc = "answer" =>
    alt_timestamp = IF since.snapped <= Full THEN since.snapped ELSE 0

\* "In the event that the timer has run full period [...] this function return -1"
\* (altera_avalon_timer_ts.c:96-98). It returns 0: the counter has stopped reloaded.
RolloverIsMinusOne ==
  td.pc = "answer" /\ since.snapped > Full => alt_timestamp = Full

=============================================================================
