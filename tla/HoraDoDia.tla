----------------------------- MODULE HoraDoDia -----------------------------
(***************************************************************************)
(* The time of day: settimeofday, gettimeofday and times over the tick     *)
(* counter, which has twice the processor's word, so that reading it takes *)
(* two loads; a tick may come between them.  Until the clock driver has    *)
(* given its rate the calls fail.                                          *)
(***************************************************************************)
EXTENDS Integers

CONSTANTS
  ALT_US,      \* microseconds in a second
  TickRates,   \* ticks in a second that a clock driver may give
  LowWord,     \* values of the low word of the counter (2^32)
  MaxTicks,    \* bound: ticks counted
  MaxSec       \* bound: seconds the program sets

ASSUME TodAssumption ==
  /\ ALT_US \in Nat \ {0} /\ TickRates \subseteq 1..ALT_US
  /\ \A r \in TickRates : ALT_US % r = 0
  /\ LowWord \in Nat \ {0} /\ MaxTicks \in Nat /\ MaxSec \in Nat

VARIABLES
  alt_ticks,      \* _alt_nticks, the counter
  alt_tick_rate,  \* _alt_tick_rate, 0 while there is no clock
  alt_resettime,  \* time of day at reset, as last set
  tod_call,       \* the call in progress, with what it has read of the counter
  tod_set,        \* history: the last set time and the ticks at its start and end
  tod_answer      \* history: the last answer, until the next call, and those ticks

todVars == <<alt_ticks, alt_tick_rate, alt_resettime, tod_call, tod_set, tod_answer>>

TimeVal == [sec : 0..MaxSec, usec : 0..(ALT_US - 1)]
NoTime  == [sec |-> 0, usec |-> 0]
InUsec(t) == t.sec * ALT_US + t.usec

\* The ticks counted lie in range, the stored time is in the range the loops
\* of gettimeofday need to end after one turn each, answers are normal.
TodTypeOK ==
  /\ alt_ticks \in 0..MaxTicks /\ alt_tick_rate \in TickRates \union {0}
  /\ alt_resettime.sec \in (-MaxTicks - LowWord)..MaxSec
  /\ alt_resettime.usec \in (1 - ALT_US)..(ALT_US - 1)
  /\ tod_call \in [op : {"none", "get", "set", "times"}, at : {"low", "high", "done"},
                   t : TimeVal, low : 0..(LowWord - 1), high : 0..MaxTicks,
                   first : 0..MaxTicks]
  /\ tod_answer.t.usec \in 0..(ALT_US - 1)

NoAnswer  == [t |-> NoTime, from |-> 0, to |-> 0]
NoTodCall == [op |-> "none", at |-> "done", t |-> NoTime, low |-> 0, high |-> 0, first |-> 0]

TodInit ==
  /\ alt_ticks = 0 /\ alt_tick_rate = 0 /\ alt_resettime = NoTime
  /\ tod_call = NoTodCall
  /\ tod_set = NoAnswer
  /\ tod_answer = NoAnswer

\* The clock driver gives its rate; a second one is refused.
tod_sysclk_init(rate) ==
  /\ alt_tick_rate = 0 /\ alt_tick_rate' = rate
  /\ UNCHANGED <<alt_ticks, alt_resettime, tod_call, tod_set, tod_answer>>

TodTick ==
  /\ alt_tick_rate > 0 /\ alt_ticks < MaxTicks /\ alt_ticks' = alt_ticks + 1
  /\ UNCHANGED <<alt_tick_rate, alt_resettime, tod_call, tod_set, tod_answer>>

TodCall(op, t) ==
  /\ tod_call.op = "none"
  /\ tod_call' = [NoTodCall EXCEPT !.op = op, !.at = "low", !.t = t, !.first = alt_ticks]
  /\ tod_answer' = NoAnswer
  /\ UNCHANGED <<alt_ticks, alt_tick_rate, alt_resettime, tod_set>>

\* alt_nticks: the two loads of the counter, the low word first.
alt_nticks_Low ==
  /\ tod_call.at = "low"
  /\ tod_call' = [tod_call EXCEPT !.at = "high", !.low = alt_ticks % LowWord]
  /\ UNCHANGED <<alt_ticks, alt_tick_rate, alt_resettime, tod_set, tod_answer>>

alt_nticks_High ==
  /\ tod_call.at = "high"
  /\ tod_call' = [tod_call EXCEPT !.at = "done", !.high = alt_ticks \div LowWord]
  /\ UNCHANGED <<alt_ticks, alt_tick_rate, alt_resettime, tod_set, tod_answer>>

tod_nticks == tod_call.high * LowWord + tod_call.low

\* The part of a number of ticks below a second, and its whole seconds.
Usec(n) == (n * (ALT_US \div alt_tick_rate)) % ALT_US
Sec(n)  == n \div alt_tick_rate

Returning(op) == tod_call.op = op /\ tod_call.at = "done" /\ tod_call' = NoTodCall

ALT_SETTIMEOFDAY ==
  /\ Returning("set") /\ alt_tick_rate > 0
  /\ alt_resettime' = [sec  |-> tod_call.t.sec - Sec(tod_nticks),
                       usec |-> tod_call.t.usec - Usec(tod_nticks)]
  /\ tod_set' = [t |-> tod_call.t, from |-> tod_call.first, to |-> alt_ticks]
  /\ UNCHANGED <<alt_ticks, alt_tick_rate, tod_answer>>

\* The two loops; the sum lies within a second of its range, so that one turn
\* of either is enough.
Normal_NoLoops(t) == t

Normal(t) ==
  CASE t.usec < 0 /\ t.sec <= 0 -> NoTime
    [] t.usec < 0 /\ t.sec > 0  -> [sec |-> t.sec - 1, usec |-> t.usec + ALT_US]
    [] t.usec >= ALT_US         -> [sec |-> t.sec + 1, usec |-> t.usec - ALT_US]
    [] OTHER                    -> t

ALT_GETTIMEOFDAY ==
  /\ Returning("get") /\ alt_tick_rate > 0
  /\ tod_answer' = [t |-> Normal([sec  |-> alt_resettime.sec + Sec(tod_nticks),
                                  usec |-> alt_resettime.usec + Usec(tod_nticks)]),
                    from |-> tod_call.first, to |-> alt_ticks, set |-> tod_set]
  /\ UNCHANGED <<alt_ticks, alt_tick_rate, alt_resettime, tod_set>>

\* -ENOTSUP, or ENOSYS and -1: neither the stored time nor the caller's is
\* touched.  times is one of the calls that changes nothing else.
NoClock ==
  /\ \/ alt_tick_rate = 0 /\ \E op \in {"get", "set", "times"} : Returning(op)
     \/ Returning("times")
  /\ UNCHANGED <<alt_ticks, alt_tick_rate, alt_resettime, tod_set, tod_answer>>

TodNext ==
  \/ TodTick \/ alt_nticks_Low \/ alt_nticks_High
  \/ ALT_SETTIMEOFDAY \/ ALT_GETTIMEOFDAY \/ NoClock
  \/ \E r \in TickRates : tod_sysclk_init(r)
  \/ \E op \in {"get", "times"} : TodCall(op, NoTime)
  \/ \E t \in TimeVal : TodCall("set", t)

TodSpec == TodInit /\ [][TodNext]_todVars

-----------------------------------------------------------------------------
\* Microseconds that so many ticks last.
Lasting(n) == n * (ALT_US \div alt_tick_rate)

\* The low word did not wrap between the start and the end of a call.
Whole(c) == c.from \div LowWord = c.to \div LowWord

\* What gettimeofday answers is the time last set plus what has gone by since,
\* give or take the ticks that came during the two calls (alt_settod.c:61: an
\* immediate call would return the value set), as long as the low word of the
\* counter wrapped during neither.
Truthful ==
  tod_answer # NoAnswer /\ Whole(tod_answer) /\ Whole(tod_set) =>
    LET a == tod_answer
        s == tod_set
    IN  /\ InUsec(a.t) >= InUsec(s.t) + Lasting(a.from - s.to)
        /\ InUsec(a.t) <= InUsec(s.t) + Lasting(a.to - s.from)

\* The counter read is one it had during the call, "the elapsed number of
\* system clock ticks since reset" (alt_alarm.h:107).
ReadsATick ==
  tod_call.at = "done" /\ tod_call.op # "none" => tod_nticks \in tod_call.first..alt_ticks

=============================================================================
