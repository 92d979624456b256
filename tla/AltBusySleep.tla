---------------------------- MODULE AltBusySleep ----------------------------
(***************************************************************************)
(* usleep: the busy loop of alt_busy_sleep.c, in the words of the processor*)
(* and as the build executes it.  An asm loop decrements its register to 0 *)
(* and is one step here.  The compiler loads INT_MAX into the register     *)
(* once, before the for loop (display.objdump:795-806): the asm does not   *)
(* declare that it changes its operand, so that nothing reloads it.        *)
(***************************************************************************)
EXTENDS Integers

CONSTANTS
  WordMod,      \* 2^32
  Factor,       \* iterations per microsecond: ALT_CPU_FREQ/(cycles_per_loop*1000000)
  Requests      \* the delays asked for, in microseconds

ASSUME SleepAssumption ==
  /\ WordMod \in Nat \ {0} /\ Factor \in Nat \ {0}
  /\ Factor <= WordMod \div 2 - 1
  /\ Requests \subseteq 0..(WordMod - 1)

INT_MAX == WordMod \div 2 - 1
Chunk   == INT_MAX \div Factor      \* microseconds one big loop stands for

VARIABLES
  asked,        \* the argument of usleep
  us, i, reg, pc,
  iterations    \* loop iterations executed so far

sleepVars == <<asked, us, i, reg, pc, iterations>>

big_loops == asked \div Chunk

SleepInit ==
  /\ asked \in Requests
  /\ us = asked /\ i = 0 /\ reg = INT_MAX
  /\ pc = "entry" /\ iterations = 0

\* addi -1; bne zero: leaves with the register at 0, after a whole turn of the
\* word if it entered with 0.
BneTurns(x) == IF x = 0 THEN WordMod ELSE x

\* addi -1; bgt zero, which only sees values up to INT_MAX.
BgtTurns(x) == IF x = 0 THEN 1 ELSE x

Branch ==
  /\ pc = "entry"
  /\ pc' = IF big_loops # 0 THEN "big" ELSE "short"
  /\ UNCHANGED <<asked, us, i, reg, iterations>>

\* A wrong version of BigLoop, on which the property is tried.
BigLoop_KeepsUs ==
  /\ pc = "big" /\ i < big_loops
  /\ iterations' = iterations + BneTurns(reg)
  /\ reg' = 0
  /\ i' = i + 1
  /\ UNCHANGED <<asked, us, pc>>

BigLoop ==
  /\ pc = "big" /\ i < big_loops
  /\ iterations' = iterations + BneTurns(reg)
  /\ reg' = 0
  /\ us' = us - Chunk
  /\ i' = i + 1
  /\ UNCHANGED <<asked, pc>>

Remainder ==
  /\ pc = "big" /\ i >= big_loops
  /\ iterations' = iterations + BneTurns((us * Factor) % WordMod)
  /\ pc' = "return"
  /\ UNCHANGED <<asked, us, i, reg>>

Short ==
  /\ pc = "short"
  /\ iterations' = iterations + BgtTurns((us * Factor) % WordMod)
  /\ pc' = "return"
  /\ UNCHANGED <<asked, us, i, reg>>

SleepNext == Branch \/ BigLoop \/ Remainder \/ Short

SleepSpec == SleepInit /\ [][SleepNext]_sleepVars /\ WF_sleepVars(SleepNext)

\* "The ASM instructions in the routine are equivalent to for (i = 0; i < us * ...;
\* i++)" (alt_busy_sleep.c:36-38): the delay is the one asked for, up to what the
\* division of INT_MAX leaves over in each big loop and one turn of a zero loop.
Calibrated ==
  pc = "return" =>
    /\ iterations >= asked * Factor
    /\ iterations <= asked * Factor + big_loops * (INT_MAX % Factor) + 1

=============================================================================
